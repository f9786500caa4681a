--------------------------- MODULE NtripClient_proofs ---------------------------
(***************************************************************************)
(* Type correctness of the client, that a healthy stream was validated,    *)
(* and that handshakes are paced, for every MaxTries, Required and Calls;  *)
(* and that a client left alone implements NtripLifecycle.                 *)
(***************************************************************************)
EXTENDS NtripClient, TLAPS

\* What may remain of a start, of the other methods, and of a stopTask() that
\* waited for 5 s.

Starts == {<<"forgive", "unhealthy", "disconnected", "halt", "launch">>,
           <<"unhealthy", "disconnected", "halt", "launch">>,
           <<"disconnected", "halt", "launch">>,
           <<"halt", "launch">>,
           <<"launch">>}
Others == {<<"close", "disconnected", "exhaust", "lock">>,
           <<"disconnected", "exhaust", "lock">>,
           <<"exhaust", "lock">>,
           <<"lock">>,
           <<"forgive", "disconnected">>,
           <<"disconnected">>,
           <<"close", "disconnected", "rewind">>,
           <<"disconnected", "rewind">>,
           <<"rewind">>,
           <<"halt", "join">>,
           <<"join">>,
           <<>>}
Endings == {<<"check", "load", "kill", "clear">>,
            <<"load", "kill", "clear">>,
            <<"kill", "clear">>,
            <<"clear">>,
            <<"deleted">>}

\* A call leaves the writes of its method to be made.
LEMMA Bodies ==
    ASSUME NEW m \in Method
    PROVE  Body[m] \in Starts \cup Others /\ (m # "start" => Body[m] \in Others)
BY DEF Body, Method, Starts, Others

\* Making a write leaves a shorter rest of the same kind.
LEMMA Tails ==
    ASSUME NEW c \in Starts \cup Others, c # <<>>
    PROVE  /\ c \in Others => Tail(c) \in Others
           /\ c \in Starts => Tail(c) \in Starts \/ Tail(c) = <<>>
<1>1. Tail(<<"forgive", "unhealthy", "disconnected", "halt", "launch">>)
      = <<"unhealthy", "disconnected", "halt", "launch">>
  OBVIOUS
<1>2. Tail(<<"unhealthy", "disconnected", "halt", "launch">>)
      = <<"disconnected", "halt", "launch">>
  OBVIOUS
<1>3. Tail(<<"disconnected", "halt", "launch">>) = <<"halt", "launch">> OBVIOUS
<1>4. Tail(<<"halt", "launch">>) = <<"launch">> OBVIOUS
<1>5. Tail(<<"launch">>) = <<>> OBVIOUS
<1>6. Tail(<<"close", "disconnected", "exhaust", "lock">>)
      = <<"disconnected", "exhaust", "lock">>
  OBVIOUS
<1>7. Tail(<<"disconnected", "exhaust", "lock">>) = <<"exhaust", "lock">> OBVIOUS
<1>8. Tail(<<"exhaust", "lock">>) = <<"lock">> OBVIOUS
<1>9. Tail(<<"lock">>) = <<>> OBVIOUS
<1>10. Tail(<<"forgive", "disconnected">>) = <<"disconnected">> OBVIOUS
<1>11. Tail(<<"disconnected">>) = <<>> OBVIOUS
<1>12. Tail(<<"close", "disconnected", "rewind">>)
      = <<"disconnected", "rewind">>
  OBVIOUS
<1>13. Tail(<<"disconnected", "rewind">>) = <<"rewind">> OBVIOUS
<1>14. Tail(<<"rewind">>) = <<>> OBVIOUS
<1>15. Tail(<<"halt", "join">>) = <<"join">> OBVIOUS
<1>16. Tail(<<"join">>) = <<>> OBVIOUS
<1> QED BY <1>1, <1>2, <1>3, <1>4, <1>5, <1>6, <1>7, <1>8, <1>9, <1>10, <1>11, <1>12,
     <1>13, <1>14, <1>15, <1>16 DEF Starts, Others

\* Only a start launches a task.
LEMMA Heads ==
    ASSUME NEW c \in Others \cup Endings, c # <<>>
    PROVE  Head(c) # "launch"
<1>1. CASE c \in Others BY <1>1 DEF Others
<1>2. CASE c \in Endings BY <1>2 DEF Endings
<1> QED BY <1>1, <1>2

\* What remains of another method is not what remains of a start; a method's
\* writes do not end in the clearing of the handle.
LEMMA Disjoint ==
    /\ \A c \in Others \cup Endings :
         c \notin Starts /\ c \notin {<<"halt", "launch">>, <<"launch">>}
    /\ <<"clear">> \notin Starts \cup Others
<1>1. \A c \in Others : c \notin Starts BY DEF Starts, Others
<1>2. \A c \in Endings : c \notin Starts BY DEF Starts, Endings
<1>3. <<"clear">> \notin Starts \cup Others BY DEF Starts, Others
<1> QED BY <1>1, <1>2, <1>3 DEF Starts

\* What remains of a method is a sequence of writes.
LEMMA Types ==
    ASSUME NEW c \in Starts \cup Others \cup Endings
    PROVE  c \in Seq(Op)
<1>1. <<"forgive", "unhealthy", "disconnected", "halt", "launch">> \in Seq(Op) BY DEF Op
<1>2. <<"unhealthy", "disconnected", "halt", "launch">> \in Seq(Op) BY DEF Op
<1>3. <<"disconnected", "halt", "launch">> \in Seq(Op) BY DEF Op
<1>4. <<"halt", "launch">> \in Seq(Op) BY DEF Op
<1>5. <<"launch">> \in Seq(Op) BY DEF Op
<1>6. <<"close", "disconnected", "exhaust", "lock">> \in Seq(Op) BY DEF Op
<1>7. <<"disconnected", "exhaust", "lock">> \in Seq(Op) BY DEF Op
<1>8. <<"exhaust", "lock">> \in Seq(Op) BY DEF Op
<1>9. <<"lock">> \in Seq(Op) BY DEF Op
<1>10. <<"forgive", "disconnected">> \in Seq(Op) BY DEF Op
<1>11. <<"disconnected">> \in Seq(Op) BY DEF Op
<1>12. <<"close", "disconnected", "rewind">> \in Seq(Op) BY DEF Op
<1>13. <<"disconnected", "rewind">> \in Seq(Op) BY DEF Op
<1>14. <<"rewind">> \in Seq(Op) BY DEF Op
<1>15. <<"halt", "join">> \in Seq(Op) BY DEF Op
<1>16. <<"join">> \in Seq(Op) BY DEF Op
<1>17. <<>> \in Seq(Op) OBVIOUS
<1>18. <<"check", "load", "kill", "clear">> \in Seq(Op) BY DEF Op
<1>19. <<"load", "kill", "clear">> \in Seq(Op) BY DEF Op
<1>20. <<"kill", "clear">> \in Seq(Op) BY DEF Op
<1>21. <<"clear">> \in Seq(Op) BY DEF Op
<1>22. <<"deleted">> \in Seq(Op) BY DEF Op
<1> QED BY <1>1, <1>2, <1>3, <1>4, <1>5, <1>6, <1>7, <1>8, <1>9, <1>10, <1>11, <1>12,
     <1>13, <1>14, <1>15, <1>16, <1>17, <1>18, <1>19, <1>20, <1>21, <1>22
     DEF Starts, Others, Endings

(***************************************************************************)
(* The inductive invariant.  Counted ties the health flag to the frames of *)
(* the stream: between validFrames = 0 and _healthy = false the old flag   *)
(* stands beside the new count, and while it does, and after a task died   *)
(* there, no stream is up.  Dialling says where a dial in progress can     *)
(* stand, that its window was open, that its tries were left and that      *)
(* nothing streams; Owned that a task has a handle; Pending what a start   *)
(* has already written, which is what a new task finds, and that only a    *)
(* stopTask() about to clear the handle leaves one without a task.         *)
(***************************************************************************)

Flags ==
    /\ healthy \in BOOLEAN /\ running \in BOOLEAN /\ handle \in BOOLEAN
    /\ socket \in BOOLEAN /\ cooled \in BOOLEAN /\ stale \in BOOLEAN
    /\ buffer \in BOOLEAN

Scalars ==
    /\ state \in State
    /\ failures \in 0..MaxTries + 1
    /\ pc \in Pc /\ ret \in {"off", "top", "tail", "gone"}
    /\ phase \in {"VALIDATION", "STREAMING"} /\ frames \in 0..Required
    /\ chunk \in {"none", "frame", "preamble", "noise"}
    /\ caster \in {"up", "silent", "down"}

Counted ==
    /\ phase = "VALIDATION" => frames < Required
    /\ phase = "STREAMING" => frames = Required
    /\ healthy /\ state = "STREAMING" => frames = Required
    /\ pc = "enter" => ~healthy

Dialling ==
    /\ state = "CONNECTING" =>
         pc \in {"off", "connect", "handshake", "won", "fresh", "renew", "enter", "lost", "leave"}
    /\ pc \in {"handshake", "won", "fresh", "renew", "enter", "lost", "leave"} =>
         state # "STREAMING"
    /\ pc = "dial" => cooled /\ failures <= MaxTries
    /\ pc = "connect" /\ state = "CONNECTING" => cooled /\ failures <= MaxTries
    /\ pc \in {"handshake", "lost"} => failures <= MaxTries

Owned ==
    /\ pc # "off" => handle
    /\ pc \in {"close", "closed"} => ret # "off"

Pending ==
    /\ ctl \in Starts \cup Others \cup Endings
    /\ ctl \in Starts => pc = "off"
    /\ ctl \in {<<"halt", "launch">>, <<"launch">>} => state = "DISCONNECTED"
    /\ pc = "off" /\ handle => ctl = <<"clear">>
    /\ ctl = <<"clear">> => pc = "off"

Core == Flags /\ Scalars /\ Counted /\ Dialling /\ Owned
IInv == Core /\ Pending

\* The invariant holds initially.
LEMMA InitIInv == Init => IInv
<1>1. <<>> \in Others BY DEF Others
<1>2. <<>> # <<"clear">> OBVIOUS
<1> SUFFICES ASSUME Init PROVE IInv OBVIOUS
<1>3. Flags BY Zenon DEF Init, Flags
<1>4. Scalars
  BY MaxTriesAssumption, RequiredAssumption DEF Init, Scalars, State, Pc
<1>5. Counted /\ Dialling /\ Owned
  BY RequiredAssumption DEF Init, Counted, Dialling, Owned
<1>6. Pending BY <1>1, <1>2, Disjoint DEF Init, Pending
<1> QED BY <1>3, <1>4, <1>5, <1>6 DEF IInv, Core

\* A step of the task leaves the flags Boolean.
LEMMA TaskFlags == Flags /\ Task => Flags'
<1> SUFFICES ASSUME Flags, Task PROVE Flags' OBVIOUS
<1> USE DEF Flags, Goto, shared
<1>j. CASE Judge /\ UNCHANGED <<ctl, caster>>
  BY <1>j, Zenon DEF Judge, Validate, Sample
<1>Fresh. CASE Fresh /\ UNCHANGED <<ctl, caster>>
  BY <1>Fresh, Zenon DEF Fresh
<1>Won. CASE Won /\ UNCHANGED <<stale, ctl, caster>>
  BY <1>Won, Zenon DEF Won
<1>Renew. CASE Renew /\ UNCHANGED <<stale, ctl, caster>>
  BY <1>Renew, Zenon DEF Renew
<1>Loop. CASE Loop /\ UNCHANGED <<stale, ctl, caster>>
  BY <1>Loop, Zenon DEF Loop
<1>Gate. CASE Gate /\ UNCHANGED <<stale, ctl, caster>>
  BY <1>Gate, Zenon DEF Gate
<1>Idle. CASE Idle /\ UNCHANGED <<stale, ctl, caster>>
  BY <1>Idle, Zenon DEF Idle
<1>GiveUp. CASE GiveUp /\ UNCHANGED <<stale, ctl, caster>>
  BY <1>GiveUp, Zenon DEF GiveUp
<1>Dial. CASE Dial /\ UNCHANGED <<stale, ctl, caster>>
  BY <1>Dial, Zenon DEF Dial
<1>Connect. CASE Connect /\ UNCHANGED <<stale, ctl, caster>>
  BY <1>Connect, Zenon DEF Connect
<1>Handshake. CASE Handshake /\ UNCHANGED <<stale, ctl, caster>>
  BY <1>Handshake, Zenon DEF Handshake
<1>Enter. CASE Enter /\ UNCHANGED <<stale, ctl, caster>>
  BY <1>Enter, Zenon DEF Enter
<1>Lost. CASE Lost /\ UNCHANGED <<stale, ctl, caster>>
  BY <1>Lost, Zenon DEF Lost
<1>Leave. CASE Leave /\ UNCHANGED <<stale, ctl, caster>>
  BY <1>Leave, Zenon DEF Leave
<1>Stream. CASE Stream /\ UNCHANGED <<stale, ctl, caster>>
  BY <1>Stream, Zenon DEF Stream
<1>Read. CASE Read /\ UNCHANGED <<stale, ctl, caster>>
  BY <1>Read, Zenon DEF Read, Data
<1>Zombie. CASE Zombie /\ UNCHANGED <<stale, ctl, caster>>
  BY <1>Zombie, Zenon DEF Zombie
<1>TaskClose. CASE TaskClose /\ UNCHANGED <<stale, ctl, caster>>
  BY <1>TaskClose, Zenon DEF TaskClose, Write
<1>TaskClosed. CASE TaskClosed /\ UNCHANGED <<stale, ctl, caster>>
  BY <1>TaskClosed, Zenon DEF TaskClosed, Write
<1>EndLoop. CASE EndLoop /\ UNCHANGED <<stale, ctl, caster>>
  BY <1>EndLoop, Zenon DEF EndLoop
<1>Exit. CASE Exit /\ UNCHANGED <<stale, ctl, caster>>
  BY <1>Exit, Zenon DEF Exit
<1>Gone. CASE Gone /\ UNCHANGED <<stale, ctl, caster>>
  BY <1>Gone, Zenon DEF Gone
<1> QED BY <1>j, <1>Fresh, <1>Won, <1>Renew, <1>Loop, <1>Gate, <1>Idle, <1>GiveUp, <1>Dial, <1>Connect,
     <1>Handshake, <1>Enter, <1>Lost, <1>Leave, <1>Stream, <1>Read, <1>Zombie,
     <1>TaskClose, <1>TaskClosed, <1>EndLoop, <1>Exit, <1>Gone DEF Task

\* A step of the task keeps every part of the invariant about the task.
LEMMA TaskCore == Core /\ Task => Core'
<1> SUFFICES ASSUME Core, Task PROVE (Scalars /\ Counted /\ Dialling /\ Owned)'
  BY TaskFlags DEF Core
<1> USE MaxTriesAssumption, RequiredAssumption
    DEF Core, Flags, Scalars, Counted, Dialling, Owned, State, Pc, Goto, shared
<1>j. CASE Judge /\ UNCHANGED <<ctl, caster>>
  BY <1>j DEF Judge, Validate, Sample
<1>Fresh. CASE Fresh /\ UNCHANGED <<ctl, caster>>
  BY <1>Fresh DEF Fresh
<1>Won. CASE Won /\ UNCHANGED <<stale, ctl, caster>>
  BY <1>Won DEF Won
<1>Renew. CASE Renew /\ UNCHANGED <<stale, ctl, caster>>
  BY <1>Renew DEF Renew
<1>Loop. CASE Loop /\ UNCHANGED <<stale, ctl, caster>>
  BY <1>Loop DEF Loop
<1>Gate. CASE Gate /\ UNCHANGED <<stale, ctl, caster>>
  BY <1>Gate DEF Gate
<1>Idle. CASE Idle /\ UNCHANGED <<stale, ctl, caster>>
  BY <1>Idle DEF Idle
<1>GiveUp. CASE GiveUp /\ UNCHANGED <<stale, ctl, caster>>
  BY <1>GiveUp DEF GiveUp
<1>Dial. CASE Dial /\ UNCHANGED <<stale, ctl, caster>>
  BY <1>Dial DEF Dial
<1>Connect. CASE Connect /\ UNCHANGED <<stale, ctl, caster>>
  BY <1>Connect DEF Connect
<1>Handshake. CASE Handshake /\ UNCHANGED <<stale, ctl, caster>>
  BY <1>Handshake DEF Handshake
<1>Enter. CASE Enter /\ UNCHANGED <<stale, ctl, caster>>
  BY <1>Enter DEF Enter
<1>Lost. CASE Lost /\ UNCHANGED <<stale, ctl, caster>>
  BY <1>Lost DEF Lost
<1>Leave. CASE Leave /\ UNCHANGED <<stale, ctl, caster>>
  BY <1>Leave DEF Leave
<1>Stream. CASE Stream /\ UNCHANGED <<stale, ctl, caster>>
  BY <1>Stream DEF Stream
<1>Read. CASE Read /\ UNCHANGED <<stale, ctl, caster>>
  BY <1>Read DEF Read, Data
<1>Zombie. CASE Zombie /\ UNCHANGED <<stale, ctl, caster>>
  BY <1>Zombie DEF Zombie
<1>TaskClose. CASE TaskClose /\ UNCHANGED <<stale, ctl, caster>>
  BY <1>TaskClose DEF TaskClose, Write
<1>TaskClosed. CASE TaskClosed /\ UNCHANGED <<stale, ctl, caster>>
  BY <1>TaskClosed DEF TaskClosed, Write
<1>EndLoop. CASE EndLoop /\ UNCHANGED <<stale, ctl, caster>>
  BY <1>EndLoop DEF EndLoop
<1>Exit. CASE Exit /\ UNCHANGED <<stale, ctl, caster>>
  BY <1>Exit DEF Exit
<1>Gone. CASE Gone /\ UNCHANGED <<stale, ctl, caster>>
  BY <1>Gone DEF Gone
<1> QED BY <1>j, <1>Fresh, <1>Won, <1>Renew, <1>Loop, <1>Gate, <1>Idle, <1>GiveUp, <1>Dial, <1>Connect,
     <1>Handshake, <1>Enter, <1>Lost, <1>Leave, <1>Stream, <1>Read, <1>Zombie,
     <1>TaskClose, <1>TaskClosed, <1>EndLoop, <1>Exit, <1>Gone DEF Task

\* The task steps only while it exists, leaves the calls alone, and clears its
\* handle as it ends.
LEMMA TaskRuns ==
    ASSUME Owned, Task
    PROVE  pc # "off" /\ ctl' = ctl /\ (pc' = "off" => ~handle')
BY DEF Owned, Task, Goto, Judge, Won, Fresh, Renew, Loop, Gate, Idle, GiveUp, Dial, Connect,
     Handshake, Enter, Lost, Leave, Stream, Read, Zombie, TaskClose, TaskClosed, EndLoop,
     Exit, Gone

\* A step of the task keeps the invariant.
LEMMA TaskIInv == IInv /\ Task => IInv'
<1> SUFFICES ASSUME IInv, Task PROVE IInv' OBVIOUS
<1>1. Core' BY TaskCore DEF IInv
<1>2. pc # "off" /\ ctl' = ctl /\ (pc' = "off" => ~handle') BY TaskRuns DEF IInv, Core
<1>3. ctl \notin Starts /\ ctl # <<"clear">> BY <1>2 DEF IInv, Pending
<1>4. ctl \notin {<<"halt", "launch">>, <<"launch">>} BY <1>3 DEF Starts
<1>5. Pending' BY <1>2, <1>3, <1>4 DEF IInv, Pending
<1> QED BY <1>1, <1>5 DEF IInv

\* A call keeps the invariant: nothing is written yet.
LEMMA CallIInv == ASSUME IInv, NEW m \in Calls, Call(m) PROVE IInv'
<1>1. Core'
  BY DEF IInv, Core, Flags, Scalars, Counted, Dialling, Owned, Call, shared, local
<1>2. m \in Method BY CallsAssumption
<1>3. ctl' \in Starts \cup Others /\ (m # "start" => ctl' \in Others)
  BY <1>2, Bodies DEF Call
<1>4. ctl' \in Starts => pc' = "off"
  <2>1. CASE m = "start"
    BY <2>1 DEF Call, MayCall, IInv, Core, Owned, local
  <2>2. CASE m # "start"
    BY <2>2, <1>3, Disjoint
  <2> QED BY <2>1, <2>2
<1>5. ctl' \notin {<<"halt", "launch">>, <<"launch">>, <<"clear">>}
  BY <1>2 DEF Call, Body, Method
<1>6. ~(pc' = "off" /\ handle')
  <2>1. <<>> # <<"clear">> OBVIOUS
  <2> QED BY <2>1 DEF Call, IInv, Pending, shared, local
<1> QED BY <1>1, <1>3, <1>4, <1>5, <1>6 DEF IInv, Pending

\* A shared write leaves the flags Boolean.
LEMMA WriteFlags ==
    ASSUME Flags, NEW op, Write(op), UNCHANGED <<stale, buffer>>
    PROVE  Flags'
BY Zenon DEF Flags, Write

\* A shared write can only end a connection, never make a client healthy,
\* close the retry window or exceed MaxTries.
LEMMA WriteEffect ==
    ASSUME NEW op, Write(op)
    PROVE  /\ state' = state \/ state' = "DISCONNECTED" \/ state' = "LOCKED_OUT"
           /\ failures' = failures \/ failures' = 0 \/ failures' = MaxTries
           /\ healthy' = healthy \/ healthy' = FALSE
           /\ cooled' = cooled \/ cooled' = TRUE
           /\ handle' = handle
<1>1. CASE op = "close" /\ socket' = FALSE /\ healthy' = FALSE
           /\ UNCHANGED <<state, failures, running, handle, cooled>>
  BY <1>1
<1>2. CASE op = "disconnected" /\ state' = "DISCONNECTED"
           /\ UNCHANGED <<healthy, failures, running, handle, socket, cooled>>
  BY <1>2
<1>3. CASE op = "exhaust" /\ failures' = MaxTries
           /\ UNCHANGED <<state, healthy, running, handle, socket, cooled>>
  BY <1>3
<1>4. CASE op = "lock" /\ state' = "LOCKED_OUT"
           /\ UNCHANGED <<healthy, failures, running, handle, socket, cooled>>
  BY <1>4
<1>5. CASE op = "forgive" /\ failures' = 0
           /\ UNCHANGED <<state, healthy, running, handle, socket, cooled>>
  BY <1>5
<1>6. CASE op = "unhealthy" /\ healthy' = FALSE
           /\ UNCHANGED <<state, failures, running, handle, socket, cooled>>
  BY <1>6
<1>7. CASE op = "rewind" /\ cooled' \in {cooled, TRUE}
           /\ UNCHANGED <<state, healthy, failures, running, handle, socket>>
  BY <1>7
<1>8. CASE op = "halt" /\ running' = FALSE
           /\ UNCHANGED <<state, healthy, failures, handle, socket, cooled>>
  BY <1>8
<1> QED BY <1>1, <1>2, <1>3, <1>4, <1>5, <1>6, <1>7, <1>8, Zenon DEF Write

\* So a shared write keeps every part of the invariant about the task.
LEMMA WriteCore ==
    ASSUME Core, NEW op, Write(op), UNCHANGED <<stale, local, caster>>
    PROVE  Core'
<1>1. Flags' BY WriteFlags DEF Core, local
<1>0. UNCHANGED <<pc, ret, phase, frames, chunk, caster>> BY DEF local
<1>s. state' = state \/ state' = "DISCONNECTED" \/ state' = "LOCKED_OUT"
  BY WriteEffect
<1>f. failures' = failures \/ failures' = 0 \/ failures' = MaxTries
  BY WriteEffect
<1>c. cooled => cooled'
  <2>1. cooled' = cooled \/ cooled' = TRUE BY WriteEffect
  <2> QED BY <2>1, Zenon
<1>2. Scalars'
  BY <1>0, <1>s, <1>f, MaxTriesAssumption DEF Core, Scalars, State
<1>3. Counted' BY WriteEffect DEF Core, Counted, local
<1>4. Owned' BY WriteEffect DEF Core, Owned, local
<1>5. Dialling'
  BY <1>0, <1>s, <1>f, <1>c, MaxTriesAssumption DEF Core, Scalars, Dialling
<1> QED BY <1>1, <1>2, <1>3, <1>4, <1>5 DEF Core

\* A write of a method keeps the invariant; those of begin() set up Pending.
LEMMA CallWriteIInv == IInv /\ CallWrite => IInv'
<1> SUFFICES ASSUME IInv, CallWrite PROVE IInv' OBVIOUS
<1>1. Core' BY WriteCore DEF IInv, CallWrite
<1>2. ctl # <<>> /\ Write(Head(ctl)) /\ ctl' = Tail(ctl) /\ pc' = pc
  BY DEF CallWrite, local
<1>3. /\ ctl \in Starts \cup Others
      /\ ctl # <<"clear">> /\ ctl' # <<"clear">>
  <2>1. ctl \in Starts \cup Others
    <3>1. Head(ctl) \notin {"check", "load", "kill", "clear", "deleted"} BY <1>2 DEF Write
    <3>2. ctl \notin Endings BY <3>1 DEF Endings
    <3> QED BY <3>2 DEF IInv, Pending
  <2>2. ctl' \in Starts \cup Others
    <3>1. ctl' \in Starts \cup Others \cup {<<>>} BY <1>2, <2>1, Tails
    <3> QED BY <3>1 DEF Others
  <2> QED BY <2>1, <2>2, Disjoint
<1>4. ~(pc' = "off" /\ handle')
  <2>1. handle' = handle BY <1>2, WriteEffect
  <2> QED BY <1>2, <1>3, <2>1 DEF IInv, Pending
<1>5. CASE ctl \in Others
  <2>1. ctl' \in Others BY <1>2, <1>5, Tails
  <2> QED BY <1>1, <1>3, <1>4, <2>1, Disjoint DEF IInv, Pending
<1>6. CASE ctl \in Starts
  <2>1. pc' = "off" BY <1>2, <1>6 DEF IInv, Pending
  <2>2. ctl' \in Starts \cup Others
    <3>1. ctl' \in Starts \/ ctl' = <<>> BY <1>2, <1>6, Tails
    <3> QED BY <3>1 DEF Others
  <2>3. ctl' \in {<<"halt", "launch">>, <<"launch">>} => state' = "DISCONNECTED"
    <3>0. CASE ctl = <<"forgive", "unhealthy", "disconnected", "halt", "launch">>
      <4>1. ctl' = <<"unhealthy", "disconnected", "halt", "launch">> BY <1>2, <3>0
      <4> QED BY <4>1
    <3>1. CASE ctl = <<"unhealthy", "disconnected", "halt", "launch">>
      <4>1. ctl' = <<"disconnected", "halt", "launch">> BY <1>2, <3>1
      <4> QED BY <4>1
    <3>2. CASE ctl = <<"disconnected", "halt", "launch">>
      BY <1>2, <3>2 DEF Write
    <3>3. CASE ctl \in {<<"halt", "launch">>, <<"launch">>}
      <4>1. Head(ctl) \in {"halt", "launch"} BY <3>3
      <4>2. state' = state BY <1>2, <4>1 DEF Write
      <4> QED BY <3>3, <4>2 DEF IInv, Pending
    <3> QED BY <1>6, <3>0, <3>1, <3>2, <3>3 DEF Starts
  <2> QED BY <1>1, <1>3, <1>4, <2>1, <2>2, <2>3 DEF IInv, Pending
<1> QED BY <1>3, <1>5, <1>6

\* A new task finds the client disconnected (startTask).
LEMMA StartTaskIInv == IInv /\ StartTask => IInv'
<1> SUFFICES ASSUME IInv, StartTask PROVE IInv' OBVIOUS
<1>1. ctl # <<>> /\ Head(ctl) = "launch" /\ ctl' = Tail(ctl) BY DEF StartTask
<1>2. ctl \in Starts BY <1>1, Heads DEF IInv, Pending
<1>3. ctl = <<"launch">> BY <1>1, <1>2 DEF Starts
<1>4. ctl' = <<>> BY <1>1, <1>3
<1>5. ctl' \in Others /\ ctl' \notin Starts /\ ctl' # <<"clear">>
  BY <1>4, Disjoint DEF Others
<1>6. pc = "off" /\ state = "DISCONNECTED" BY <1>2, <1>3 DEF IInv, Pending
<1>7. ~handle
  <2>1. ctl # <<"clear">> BY <1>3
  <2> QED BY <1>6, <2>1 DEF IInv, Pending
<1>8. pc' = "off" => ~handle' BY <1>6, <1>7 DEF StartTask, shared, local
<1>9. Pending' BY <1>5, <1>8, Disjoint DEF Pending
<1>10. Flags' BY Zenon DEF IInv, Core, Flags, StartTask, shared, local
<1>11. (Scalars /\ Counted /\ Dialling /\ Owned)'
  BY <1>6, RequiredAssumption, MaxTriesAssumption
  DEF IInv, Core, Flags, Scalars, Counted, Dialling, Owned, StartTask, State, Pc, shared, local
<1> QED BY <1>9, <1>10, <1>11 DEF IInv, Core

\* What remains of stopTask() at each of its last lines.
LEMMA Ending ==
    ASSUME NEW c \in Starts \cup Others \cup Endings, c # <<>>
    PROVE  /\ Head(c) = "join" => c = <<"join">>
           /\ Head(c) = "check" => c = <<"check", "load", "kill", "clear">>
           /\ Head(c) = "load" => c = <<"load", "kill", "clear">>
           /\ Head(c) = "kill" => c = <<"kill", "clear">>
           /\ Head(c) = "clear" => c = <<"clear">>
<1>1. CASE c \in Starts BY <1>1 DEF Starts
<1>2. CASE c \in Others BY <1>2 DEF Others
<1>3. CASE c \in Endings BY <1>3 DEF Endings
<1> QED BY <1>1, <1>2, <1>3

\* stopTask() waiting, finding the task gone or reading its handle keeps the
\* invariant: none of it writes.
LEMMA JoinIInv == IInv /\ (Joined \/ Expire \/ Check \/ Load) => IInv'
<1> SUFFICES ASSUME IInv, Joined \/ Expire \/ Check \/ Load PROVE IInv' OBVIOUS
<1>1. UNCHANGED <<shared, stale, local, caster>> BY DEF Joined, Expire, Check, Load
<1>2. ctl # <<>> /\ Head(ctl) \in {"join", "check", "load"}
  BY DEF Joined, Expire, Check, Load
<1>3. ctl # <<"clear">> BY <1>2
<1>4. ctl' \in {<<>>, <<"check", "load", "kill", "clear">>, <<"load", "kill", "clear">>,
                <<"kill", "clear">>, <<"deleted">>}
  <2>0. ctl \in Starts \cup Others \cup Endings BY DEF IInv, Pending
  <2>1. CASE Joined
    <3>1. ctl = <<"join">> BY <1>2, <2>0, <2>1, Ending DEF Joined
    <3> QED BY <2>1, <3>1 DEF Joined
  <2>2. CASE Expire
    BY <2>2 DEF Expire
  <2>3. CASE Check
    <3>1. ctl = <<"check", "load", "kill", "clear">> BY <1>2, <2>0, <2>3, Ending DEF Check
    <3>2. Tail(ctl) = <<"load", "kill", "clear">> BY <3>1
    <3> QED BY <2>3, <3>2 DEF Check
  <2>4. CASE Load
    <3>1. ctl = <<"load", "kill", "clear">> BY <1>2, <2>0, <2>4, Ending DEF Load
    <3>2. Tail(ctl) = <<"kill", "clear">> BY <3>1
    <3> QED BY <2>4, <3>2 DEF Load
  <2> QED BY <2>1, <2>2, <2>3, <2>4
<1>5. ctl' \in Others \cup Endings /\ ctl' # <<"clear">> BY <1>4 DEF Others, Endings
<1>6. ~(pc' = "off" /\ handle') BY <1>1, <1>3 DEF IInv, Pending, shared, local
<1>7. Pending' BY <1>5, <1>6, Disjoint DEF Pending
<1>8. Flags' BY <1>1, Zenon DEF IInv, Core, Flags, shared, local
<1>9. (Scalars /\ Counted /\ Dialling /\ Owned)'
  BY <1>1 DEF IInv, Core, Scalars, Counted, Dialling, Owned, shared, local
<1> QED BY <1>7, <1>8, <1>9 DEF IInv, Core

\* Deleting the task keeps the invariant: what it leaves behind is not a
\* stream without frames.
LEMMA DeleteIInv == IInv /\ Delete => IInv'
<1> SUFFICES ASSUME IInv, Delete PROVE IInv' OBVIOUS
<1>1. ctl = <<"kill", "clear">> BY Ending DEF Delete, IInv, Pending
<1>2. ctl # <<"clear">> /\ Tail(ctl) = <<"clear">> BY <1>1
<1>3. pc = "off" => ~handle BY <1>2 DEF IInv, Pending
<1>4. ctl' \in {<<"clear">>, <<"deleted">>} BY <1>2 DEF Delete
<1>5. ctl' \in Endings BY <1>4 DEF Endings
<1>6. ctl' # <<"clear">> => ~handle' BY <1>2, <1>3 DEF Delete, shared
<1>7. Pending' BY <1>5, <1>6, Disjoint DEF Pending, Delete
<1>8. Flags' BY Zenon DEF IInv, Core, Flags, Delete, shared
<1>9. (Scalars /\ Counted /\ Dialling /\ Owned)'
  BY DEF IInv, Core, Scalars, Counted, Dialling, Owned, Delete, Pc, shared
<1> QED BY <1>7, <1>8, <1>9 DEF IInv, Core

\* Clearing the handle of a deleted task keeps the invariant.
LEMMA ClearIInv == IInv /\ Clear => IInv'
<1> SUFFICES ASSUME IInv, Clear PROVE IInv' OBVIOUS
<1>1. ctl = <<"clear">> BY Ending DEF Clear, IInv, Pending
<1>2. pc = "off" BY <1>1 DEF IInv, Pending
<1>3. ctl' = <<>> BY <1>1 DEF Clear
<1>4. ctl' \in Others /\ ctl' # <<"clear">> BY <1>3 DEF Others
<1>5. Pending' BY <1>4, Disjoint DEF Pending, Clear
<1>6. Flags' BY Zenon DEF IInv, Core, Flags, Clear, local
<1>7. (Scalars /\ Counted /\ Dialling /\ Owned)'
  BY <1>2 DEF IInv, Core, Scalars, Counted, Dialling, Owned, Clear, local
<1> QED BY <1>5, <1>6, <1>7 DEF IInv, Core

\* Time, the network and the caster keep the invariant.
LEMMA WorldIInv == IInv /\ (Cool \/ GoStale \/ Drop \/ Caster) => IInv'
<1> SUFFICES ASSUME IInv, Cool \/ GoStale \/ Drop \/ Caster PROVE IInv' OBVIOUS
<1>1. Flags'
  BY Zenon DEF IInv, Core, Flags, Cool, GoStale, Drop, Caster, shared, local
<1>2. (Scalars /\ Counted /\ Dialling /\ Owned)'
  BY DEF IInv, Core, Flags, Scalars, Counted, Dialling, Owned, Cool, GoStale, Drop, Caster,
         shared, local
<1>3. Pending' BY DEF IInv, Pending, Cool, GoStale, Drop, Caster, shared, local
<1> QED BY <1>1, <1>2, <1>3 DEF IInv, Core

\* So does a stuttering step.
LEMMA StutterIInv == IInv /\ UNCHANGED vars => IInv'
<1> SUFFICES ASSUME IInv, UNCHANGED vars PROVE IInv' OBVIOUS
<1>1. Core'
  BY DEF IInv, Core, Flags, Scalars, Counted, Dialling, Owned, vars, shared, local
<1>2. Pending' BY DEF IInv, Pending, vars, shared, local
<1> QED BY <1>1, <1>2 DEF IInv

\* Every step keeps the invariant.
LEMMA NextIInv == IInv /\ [Next]_vars => IInv'
BY TaskIInv, CallIInv, CallWriteIInv, StartTaskIInv, JoinIInv, DeleteIInv, ClearIInv,
   WorldIInv, StutterIInv
   DEF Next, Control

\* The invariant holds of every behaviour of taskLoop and the control methods.
THEOREM Invariance == Spec => []IInv
BY InitIInv, NextIInv, PTL DEF Spec

\* Type correctness; in particular the failure counter, a uint8_t in
\* NtripClient.h, never passes MaxTries + 1 whatever stop() does to it.
THEOREM TypeCorrect == Spec => []TypeOK
<1>1. IInv => TypeOK
  BY Types DEF IInv, Core, Flags, Scalars, Pending, TypeOK
<1> QED BY Invariance, <1>1, PTL

\* A client seen streaming and healthy streams over a connection that brought
\* Required valid frames, whatever the interleaving of taskLoop with stop,
\* reset, reconnect, restarts and a stopTask() that deletes the task.
THEOREM HealthyIsValidatedCorrect == Spec => []HealthyIsValidated
<1>1. IInv => HealthyIsValidated
  BY RequiredAssumption DEF IInv, Core, Counted, HealthyIsValidated
<1> QED BY Invariance, <1>1, PTL

\* No handshake of taskLoop begins before the retry window is open.
THEOREM RetryPacedCorrect == Spec => RetryPaced
<1>1. IInv /\ [Next]_vars => [pc' = "handshake" /\ pc # "handshake" => cooled]_vars
  <2> SUFFICES ASSUME IInv, Next, pc' = "handshake", pc # "handshake" PROVE cooled
    OBVIOUS
  <2>1. Task
    BY DEF Next, Call, Control, CallWrite, StartTask, Joined, Expire, Check, Load,
           Delete, Clear, Cool, GoStale, Drop,
           Caster, shared, local
  <2>2. Connect
    BY <2>1 DEF IInv, Core, Scalars, Task, Goto, Judge, Won, Fresh, Renew, Loop, Gate, Idle, GiveUp, Dial,
       Connect, Handshake, Enter, Lost, Leave, Stream, Read, Zombie, TaskClose, TaskClosed,
       EndLoop, Exit, Gone
  <2> QED BY <2>2 DEF Connect, Goto, IInv, Core, Dialling
<1> QED BY Invariance, <1>1, PTL DEF Spec, RetryPaced

(***************************************************************************)
(* The refinement of NtripLifecycle, for a client on which nothing but     *)
(* begin() and startTask() is ever called.  Alone says that such a task,   *)
(* once created, runs for ever and was created over the initial values;    *)
(* Staged says which _state each place of taskLoop stands for, and that a  *)
(* dial in progress has a try left.                                        *)
(***************************************************************************)

Alone ==
    /\ ctl \in Starts \cup {<<>>}
    /\ failures <= MaxTries
    /\ pc = "off" => state = "DISCONNECTED" /\ failures = 0
    /\ pc # "off" => running = TRUE
    /\ pc \notin {"exit", "gone"} /\ ret # "gone"

Staged ==
    /\ pc = "dial" => state = "DISCONNECTED" /\ failures < MaxTries
    /\ pc = "giveup" => state = "DISCONNECTED" /\ failures = MaxTries
    /\ pc \in {"handshake", "won", "fresh", "renew", "enter", "lost", "leave"} =>
         state = "CONNECTING"
    /\ pc \in {"read", "judge", "zombie", "close", "closed"} => state = "STREAMING"
    /\ pc = "connect" /\ state = "CONNECTING" => failures < MaxTries
    /\ pc \in {"handshake", "lost"} => failures < MaxTries

LoneInv == IInv /\ Alone /\ Staged

\* The client's view of NtripLifecycle's state (the mapping of Lifecycle).
Decided ==
    CASE pc \in {"fresh", "renew", "enter"} -> "STREAMING"
      [] pc = "leave" -> "DISCONNECTED"
      [] OTHER -> state

Advance == Lifecycle!Next \/ (Decided' = Decided /\ failures' = failures)

\* A step of the task of a lone client keeps its stage, and is a step of the
\* lifecycle or changes neither of its variables.
LEMMA TaskLone ==
    ASSUME LoneInv, Task
    PROVE  (Alone /\ Staged)' /\ Advance
<1> USE MaxTriesAssumption
    DEF LoneInv, IInv, Core, Scalars, Dialling, Owned, State, Goto, shared, Alone, Staged,
        Decided, Advance, Lifecycle!Next, Lifecycle!Dial, Lifecycle!Succeed,
        Lifecycle!Fail, Lifecycle!Lose, Lifecycle!GiveUp, Lifecycle!Move
<1>j. CASE Judge /\ UNCHANGED <<ctl, caster>>
  BY <1>j DEF Judge
<1>Fresh. CASE Fresh /\ UNCHANGED <<ctl, caster>>
  BY <1>Fresh DEF Fresh
<1>Won. CASE Won /\ UNCHANGED <<stale, ctl, caster>>
  BY <1>Won DEF Won
<1>Renew. CASE Renew /\ UNCHANGED <<stale, ctl, caster>>
  BY <1>Renew DEF Renew
<1>Loop. CASE Loop /\ UNCHANGED <<stale, ctl, caster>>
  BY <1>Loop DEF Loop
<1>Gate. CASE Gate /\ UNCHANGED <<stale, ctl, caster>>
  BY <1>Gate DEF Gate
<1>Idle. CASE Idle /\ UNCHANGED <<stale, ctl, caster>>
  BY <1>Idle DEF Idle
<1>GiveUp. CASE GiveUp /\ UNCHANGED <<stale, ctl, caster>>
  BY <1>GiveUp DEF GiveUp
<1>Dial. CASE Dial /\ UNCHANGED <<stale, ctl, caster>>
  BY <1>Dial DEF Dial
<1>Connect. CASE Connect /\ UNCHANGED <<stale, ctl, caster>>
  BY <1>Connect DEF Connect
<1>Handshake. CASE Handshake /\ UNCHANGED <<stale, ctl, caster>>
  BY <1>Handshake DEF Handshake
<1>Enter. CASE Enter /\ UNCHANGED <<stale, ctl, caster>>
  BY <1>Enter DEF Enter
<1>Lost. CASE Lost /\ UNCHANGED <<stale, ctl, caster>>
  BY <1>Lost DEF Lost
<1>Leave. CASE Leave /\ UNCHANGED <<stale, ctl, caster>>
  BY <1>Leave DEF Leave
<1>Stream. CASE Stream /\ UNCHANGED <<stale, ctl, caster>>
  BY <1>Stream DEF Stream
<1>Read. CASE Read /\ UNCHANGED <<stale, ctl, caster>>
  BY <1>Read DEF Read
<1>Zombie. CASE Zombie /\ UNCHANGED <<stale, ctl, caster>>
  BY <1>Zombie DEF Zombie
<1>TaskClose. CASE TaskClose /\ UNCHANGED <<stale, ctl, caster>>
  BY <1>TaskClose DEF TaskClose, Write
<1>TaskClosed. CASE TaskClosed /\ UNCHANGED <<stale, ctl, caster>>
  BY <1>TaskClosed DEF TaskClosed, Write
<1>EndLoop. CASE EndLoop /\ UNCHANGED <<stale, ctl, caster>>
  BY <1>EndLoop DEF EndLoop
<1>Exit. CASE Exit /\ UNCHANGED <<stale, ctl, caster>>
  BY <1>Exit DEF Exit
<1>Gone. CASE Gone /\ UNCHANGED <<stale, ctl, caster>>
  BY <1>Gone DEF Gone
<1> QED BY <1>j, <1>Fresh, <1>Won, <1>Renew, <1>Loop, <1>Gate, <1>Idle, <1>GiveUp, <1>Dial, <1>Connect,
     <1>Handshake, <1>Enter, <1>Lost, <1>Leave, <1>Stream, <1>Read, <1>Zombie,
     <1>TaskClose, <1>TaskClosed, <1>EndLoop, <1>Exit, <1>Gone DEF Task

\* begin() and startTask() write what the initial state already holds, so
\* they leave the lifecycle where it is.
LEMMA StartLone ==
    ASSUME LoneInv, CallWrite \/ StartTask
    PROVE  (Alone /\ Staged)' /\ Advance
<1>1. ctl # <<>> /\ ctl' = Tail(ctl) BY DEF CallWrite, StartTask
<1>2. ctl \in Starts BY <1>1 DEF LoneInv, Alone
<1>3. pc = "off" /\ state = "DISCONNECTED" /\ failures = 0 /\ ret # "gone"
  BY <1>2 DEF LoneInv, Alone, IInv, Pending
<1>4. ctl' \in Starts \cup {<<>>} BY <1>1, <1>2, Tails
<1>5. CASE CallWrite
  <2>1. pc' = pc /\ ret' = ret BY <1>5 DEF CallWrite, local
  <2>2. Head(ctl) \in {"forgive", "unhealthy", "disconnected", "halt", "launch"}
    BY <1>2 DEF Starts
  <2>3. Write(Head(ctl)) BY <1>5 DEF CallWrite
  <2>4. state' = state /\ failures' = failures
    BY <1>3, <2>2, <2>3 DEF Write
  <2> QED
    BY <1>3, <1>4, <2>1, <2>4, MaxTriesAssumption DEF Alone, Staged, Advance, Decided
<1>6. CASE StartTask
  <2>1. /\ state' = state /\ failures' = failures /\ ret' = ret
        /\ pc' = pc \/ (pc' = "top" /\ running' = TRUE)
    BY <1>6 DEF StartTask, shared, local
  <2> QED
    BY <1>3, <1>4, <2>1, MaxTriesAssumption DEF Alone, Staged, Advance, Decided
<1> QED BY <1>5, <1>6

\* Every step of a lone client keeps its stage and advances its lifecycle.
LEMMA NextLone ==
    ASSUME Calls \subseteq {"start"}, LoneInv, [Next]_vars
    PROVE  LoneInv' /\ Advance
<1>0. IInv' BY NextIInv DEF LoneInv
<1>1. CASE Task BY <1>0, <1>1, TaskLone DEF LoneInv
<1>2. CASE CallWrite \/ StartTask BY <1>0, <1>2, StartLone DEF LoneInv
<1>3. CASE \E m \in Calls : Call(m)
  <2>1. Call("start") BY <1>3
  <2>2. ctl' \in Starts BY <2>1 DEF Call, Body, Starts
  <2>3. UNCHANGED <<state, failures, running, pc, ret>> BY <2>1 DEF Call, shared, local
  <2> QED BY <1>0, <2>2, <2>3 DEF LoneInv, Alone, Staged, Advance, Decided
<1>4. ~(Joined \/ Expire \/ Check \/ Load \/ Delete \/ Clear)
  <2>1. ctl # <<>> => Head(ctl) \notin {"join", "check", "load", "kill", "clear"}
    BY DEF LoneInv, Alone, Starts
  <2> QED BY <2>1 DEF Joined, Expire, Check, Load, Delete, Clear
<1>5. CASE Cool \/ GoStale \/ Drop \/ Caster \/ UNCHANGED vars
  <2>1. UNCHANGED <<state, failures, running, pc, ret, ctl>>
    BY <1>5 DEF Cool, GoStale, Drop, Caster, vars, shared, local
  <2> QED BY <1>0, <2>1 DEF LoneInv, Alone, Staged, Advance, Decided
<1> QED BY <1>1, <1>2, <1>3, <1>4, <1>5 DEF Next, Control

\* A client nobody stops, resets or reconnects keeps the lifecycle's promise
\* (taskLoop): it dials only with a try left, counts each failed attempt, a
\* success clears the count, and it locks out at exactly maxTries, for good.
THEOREM ImplementsLifecycle ==
    ASSUME Calls \subseteq {"start"}
    PROVE  Spec => LifecycleSpec
<1>1. Init => LoneInv /\ Lifecycle!Init
  <2> SUFFICES ASSUME Init PROVE LoneInv /\ Lifecycle!Init OBVIOUS
  <2>1. IInv BY InitIInv
  <2>2. Alone /\ Staged BY MaxTriesAssumption DEF Init, Alone, Staged
  <2>3. Lifecycle!Init BY DEF Init, Lifecycle!Init
  <2> QED BY <2>1, <2>2, <2>3 DEF LoneInv
<1>2. LoneInv /\ [Next]_vars => LoneInv' BY NextLone
<1>3. LoneInv /\ [Next]_vars => [Lifecycle!Next]_(Lifecycle!vars)
  <2> SUFFICES ASSUME LoneInv, [Next]_vars PROVE [Lifecycle!Next]_(Lifecycle!vars)
    OBVIOUS
  <2>1. Advance BY NextLone
  <2> QED BY <2>1 DEF Advance, Decided, Lifecycle!vars
<1> QED BY <1>1, <1>2, <1>3, PTL DEF Spec, LifecycleSpec, Lifecycle!Spec
================================================================================
