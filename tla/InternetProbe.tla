------------------------------ MODULE InternetProbe ------------------------------
(***************************************************************************)
(* Reachability of the internet as the firmware sees it: one cached probe, *)
(* asked for by configMonitorTask once per pass and by loop() for          *)
(* GET /api/status and for the status log, and the WiFi link under it,     *)
(* which loop() reconnects.                                                *)
(*                                                                         *)
(* Every access of internet_probe_is_reachable to what the two tasks share *)
(* is a step.  A point of time is its age, so that behaviours need no end; *)
(* an age beyond which nothing depends on it stays where it is.            *)
(***************************************************************************)
EXTENDS Integers

CONSTANTS
    Window,    \* 10 s: how long an answer is used
    CallMax,   \* the longest call, with its probe and its preemptions
    Gap,       \* 5 s: between two attempts to reconnect
    JoinMax    \* the longest the driver takes to join an access point

\* An attempt cuts off the one before it.
ASSUME TimesAssumption ==
    /\ {Window, CallMax, Gap, JoinMax} \subseteq Nat \ {0}
    /\ CallMax < Window /\ JoinMax <= Gap

Tasks == {"monitor", "loop"}

VARIABLES
    \* g_internet_reachable, g_internet_probe_ms (probed: is not 0)
    reachable, probed, probeAge,
    \* the call of each task: where it is, its now, what its probe said
    pc, nowAge, ok, okAge,
    \* loop(): the step it is at; maybeReconnectWiFi's last_wifi_attempt
    at, attemptAge,
    \* WiFi.status() and the world: the access point, the net behind it
    link, joinAge, ap, uplink,
    \* the monitor's last answer; history: the age of what
    \* g_internet_reachable says, and of each task's last probe
    answer, saidAge, ranAge

cache == <<reachable, probed, probeAge>>
call  == <<pc, nowAge, ok, okAge>>
wifi  == <<link, joinAge, ap, uplink>>
hist  == <<answer, saidAge, ranAge>>
vars  == <<cache, call, at, attemptAge, wifi, hist>>

\* How old an answer can be when it is given: a probe's result, stored late over
\* another's, stamped by the other's later call, used just before its time is up
\* by a call that takes long.
Oldest == Window + 2 * CallMax - 1

Old == Oldest + 1
Older(age, most) == IF age < most THEN age + 1 ELSE most

Init ==
    /\ reachable = FALSE /\ probed = FALSE /\ probeAge = 0
    /\ pc = [t \in Tasks |-> "idle"] /\ nowAge = [t \in Tasks |-> 0]
    /\ ok = [t \in Tasks |-> FALSE] /\ okAge = [t \in Tasks |-> 0]
    /\ at = "reconnect" /\ attemptAge = 0
    /\ link \in {"up", "down"} /\ joinAge = 0 /\ ap \in BOOLEAN /\ uplink \in BOOLEAN
    /\ link = "up" => ap
    /\ answer = FALSE /\ saidAge = Old
    /\ ranAge = [t \in Tasks |-> Window]

--------------------------------------------------------------------------------
(* internet_probe_is_reachable.                                            *)

\* now = millis()
Call(t) ==
    /\ pc[t] = "idle"
    /\ pc' = [pc EXCEPT ![t] = "decide"] /\ nowAge' = [nowAge EXCEPT ![t] = 0]
    /\ UNCHANGED <<cache, ok, okAge, attemptAge, wifi, hist>>

\* now - g_internet_probe_ms >= 10000 in uint32_t: a stamp after now counts as
\* very old.
Expired(t) == probeAge - nowAge[t] >= Window \/ probeAge < nowAge[t]

\* Variants: the probe is never repeated; it is made at every call.
DecideOnce(t) ==
    /\ pc[t] = "decide"
    /\ IF ~probed
       THEN pc' = [pc EXCEPT ![t] = "probe"] /\ ranAge' = [ranAge EXCEPT ![t] = 0]
       ELSE pc' = [pc EXCEPT ![t] = "answer"] /\ UNCHANGED ranAge
    /\ UNCHANGED <<cache, nowAge, ok, okAge, at, attemptAge, wifi, answer, saidAge>>

DecideAlways(t) ==
    /\ pc[t] = "decide"
    /\ pc' = [pc EXCEPT ![t] = "probe"] /\ ranAge' = [ranAge EXCEPT ![t] = 0]
    /\ UNCHANGED <<cache, nowAge, ok, okAge, at, attemptAge, wifi, answer, saidAge>>

Decide(t) ==
    /\ pc[t] = "decide"
    /\ IF ~probed \/ Expired(t)
       THEN pc' = [pc EXCEPT ![t] = "probe"] /\ ranAge' = [ranAge EXCEPT ![t] = 0]
       ELSE pc' = [pc EXCEPT ![t] = "answer"] /\ UNCHANGED ranAge
    /\ UNCHANGED <<cache, nowAge, ok, okAge, at, attemptAge, wifi, answer, saidAge>>

\* runInternetHttpProbe: the server answers 204, or something fails.
Probe(t) ==
    /\ pc[t] = "probe" /\ pc' = [pc EXCEPT ![t] = "store"]
    /\ ok' = [ok EXCEPT ![t] = link = "up" /\ uplink]
    /\ okAge' = [okAge EXCEPT ![t] = 0]
    /\ UNCHANGED <<cache, nowAge, at, attemptAge, wifi, hist>>

StoreAnswer(t) ==
    /\ pc[t] = "store" /\ pc' = [pc EXCEPT ![t] = "stamp"]
    /\ reachable' = ok[t] /\ saidAge' = okAge[t]
    /\ UNCHANGED <<probed, probeAge, nowAge, ok, okAge, at, attemptAge, wifi, answer, ranAge>>

\* Variant: the time is kept, that there is one is not.
StoreTimeOnly(t) ==
    /\ pc[t] = "stamp" /\ pc' = [pc EXCEPT ![t] = "answer"]
    /\ probeAge' = nowAge[t]
    /\ UNCHANGED <<reachable, probed, nowAge, ok, okAge, at, attemptAge, wifi, hist>>

\* g_internet_probe_ms = now, the time before the probe.
StoreTime(t) ==
    /\ pc[t] = "stamp" /\ pc' = [pc EXCEPT ![t] = "answer"]
    /\ probed' = TRUE /\ probeAge' = nowAge[t]
    /\ UNCHANGED <<reachable, nowAge, ok, okAge, at, attemptAge, wifi, hist>>

Answer(t) ==
    /\ pc[t] = "answer" /\ pc' = [pc EXCEPT ![t] = "idle"]
    /\ answer' = IF t = "monitor" THEN reachable ELSE answer
    /\ nowAge' = [nowAge EXCEPT ![t] = 0]
    /\ ok' = [ok EXCEPT ![t] = FALSE] /\ okAge' = [okAge EXCEPT ![t] = 0]
    /\ UNCHANGED <<cache, at, attemptAge, wifi, saidAge, ranAge>>

Serve(t) == Decide(t) \/ Probe(t) \/ StoreAnswer(t) \/ StoreTime(t) \/ Answer(t)

\* A pass of configMonitorTask asks once.
Monitor == (Call("monitor") /\ UNCHANGED at) \/ Serve("monitor")

--------------------------------------------------------------------------------
(* loop(): reconnect, serve a request, log the status.                     *)

Attempt ==
    /\ attemptAge' = 0
    /\ link' = "joining" /\ joinAge' = 0

\* Variant: every pass tries again.
ReconnectEachPass ==
    /\ at = "reconnect" /\ at' = "web"
    /\ IF link # "up" THEN Attempt ELSE UNCHANGED <<attemptAge, link, joinAge>>
    /\ UNCHANGED <<cache, call, ap, uplink, hist>>

\* maybeReconnectWiFi
Reconnect ==
    /\ at = "reconnect" /\ at' = "web"
    /\ IF link # "up" /\ attemptAge > Gap
       THEN Attempt
       ELSE UNCHANGED <<attemptAge, link, joinAge>>
    /\ UNCHANGED <<cache, call, ap, uplink, hist>>

After(step) == IF step = "web" THEN "log" ELSE "reconnect"

\* GET /api/status, or the status log of a client that is not connected.
Ask == at \in {"web", "log"} /\ Call("loop") /\ at' = After(at)

DoNotAsk ==
    /\ at \in {"web", "log"} /\ pc["loop"] = "idle" /\ at' = After(at)
    /\ UNCHANGED <<cache, call, attemptAge, wifi, hist>>

\* loop() goes on when its call is over.
Loop == (pc["loop"] = "idle" /\ Reconnect) \/ Ask \/ DoNotAsk \/ Serve("loop")

--------------------------------------------------------------------------------
(* Time and the world.                                                     *)

Tick ==
    /\ \A t \in Tasks : pc[t] # "idle" => nowAge[t] < CallMax
    /\ link = "joining" /\ ap => joinAge < JoinMax
    /\ nowAge' = [t \in Tasks |-> IF pc[t] = "idle" THEN 0 ELSE nowAge[t] + 1]
    /\ okAge' = [t \in Tasks |-> IF pc[t] \in {"store", "stamp"}
                                 THEN Older(okAge[t], CallMax) ELSE 0]
    /\ probeAge' = IF probed THEN Older(probeAge, Window + CallMax) ELSE 0
    /\ attemptAge' = Older(attemptAge, Gap + 1)
    /\ joinAge' = IF link = "joining" THEN Older(joinAge, JoinMax) ELSE 0
    /\ saidAge' = Older(saidAge, Old)
    /\ ranAge' = [t \in Tasks |-> Older(ranAge[t], Window)]
    /\ UNCHANGED <<reachable, probed, pc, ok, at, link, ap, uplink, answer>>

\* The driver joins, or gives up.
Join ==
    /\ link = "joining" /\ link' = (IF ap THEN "up" ELSE "down") /\ joinAge' = 0
    /\ UNCHANGED <<cache, call, at, attemptAge, ap, uplink, hist>>

\* setAutoReconnect(true): it may try by itself.
AutoJoin ==
    /\ link = "down" /\ link' = "joining" /\ joinAge' = 0
    /\ UNCHANGED <<cache, call, at, attemptAge, ap, uplink, hist>>

LinkLost ==
    /\ link = "up" /\ link' = "down"
    /\ ap' \in BOOLEAN
    /\ UNCHANGED <<cache, call, at, attemptAge, joinAge, uplink, hist>>

World ==
    /\ \/ ~ap /\ ap' = TRUE /\ UNCHANGED uplink
       \/ uplink' = ~uplink /\ UNCHANGED ap
    /\ UNCHANGED <<cache, call, at, attemptAge, link, joinAge, hist>>

Next == Monitor \/ Loop \/ Tick \/ Join \/ AutoJoin \/ LinkLost \/ World

\* Both tasks are scheduled, time passes, the driver ends what it has the time
\* to end.
Spec == /\ Init /\ [][Next]_vars
        /\ WF_vars(Monitor) /\ WF_vars(Loop) /\ WF_vars(Tick)
        /\ WF_vars(joinAge = JoinMax /\ Join)

--------------------------------------------------------------------------------
(* Properties.                                                             *)

TypeOK ==
    /\ {reachable, probed, ap, uplink} \subseteq BOOLEAN
    /\ probeAge \in 0..Window + CallMax /\ (~probed => probeAge = 0)
    /\ pc \in [Tasks -> {"idle", "decide", "probe", "store", "stamp", "answer"}]
    /\ nowAge \in [Tasks -> 0..CallMax] /\ okAge \in [Tasks -> 0..CallMax]
    /\ ok \in [Tasks -> BOOLEAN] /\ answer \in BOOLEAN
    /\ at \in {"reconnect", "web", "log"} /\ attemptAge \in 0..Gap + 1
    /\ link \in {"up", "down", "joining"} /\ joinAge \in 0..JoinMax
    /\ saidAge \in 0..Old /\ ranAge \in [Tasks -> 0..Window]

\* An answer was true not long ago, in whatever order the two tasks probe, store
\* and stamp: what a task is told about the internet is what a probe found at
\* most Oldest ago, and never what was there before the first probe.
AnswerIsRecent == \A t \in Tasks : pc[t] = "answer" => saidAge <= Oldest

\* internet_probe.h:8 promises at most one probe in ten seconds.  With two
\* callers that is one each, less the length of a call.
ProbesArePaced ==
    [][\A t \in Tasks : ranAge'[t] = 0 /\ pc'[t] = "probe" /\ pc[t] = "decide"
          => ranAge[t] >= Window - CallMax]_vars

\* After the network's troubles the firmware learns the truth and keeps to it:
\* with access point and uplink back for good the link is joined again and the
\* monitor's answer is yes for good; without uplink it is no for good.
TruthIsLearned ==
    /\ <>[](ap /\ uplink) /\ <>[][~LinkLost]_vars => <>[]answer
    /\ <>[]~uplink => <>[]~answer
================================================================================
