----------------------------- MODULE NtripLifecycle -----------------------------
(***************************************************************************)
(* What the NTRIP client promises while nobody calls its control methods:  *)
(* it dials, streams when the caster answers, counts consecutive failures, *)
(* and locks out after exactly MaxTries of them, for good.                 *)
(***************************************************************************)
EXTENDS Integers

CONSTANT MaxTries

VARIABLES state, failures

vars == <<state, failures>>

Init == state = "DISCONNECTED" /\ failures = 0

Move(from, to) == state = from /\ state' = to

Dial == Move("DISCONNECTED", "CONNECTING") /\ failures < MaxTries /\ UNCHANGED failures
Succeed == Move("CONNECTING", "STREAMING") /\ failures' = 0
Fail == Move("CONNECTING", "DISCONNECTED") /\ failures' = failures + 1
Lose == Move("STREAMING", "DISCONNECTED") /\ UNCHANGED failures
GiveUp == Move("DISCONNECTED", "LOCKED_OUT") /\ failures = MaxTries /\ UNCHANGED failures

Next == Dial \/ Succeed \/ Fail \/ Lose \/ GiveUp

Spec == Init /\ [][Next]_vars
================================================================================
