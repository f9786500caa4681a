-------------------------- MODULE InternetProbe_proofs --------------------------
(***************************************************************************)
(* Proofs about InternetProbe for every Window, CallMax, Gap and JoinMax.  *)
(* Both properties relate ages of different clocks: how old the answer is  *)
(* against how old its stamp claims it is, and how long ago a task probed  *)
(* against the age of a stamp the other task may have stored meanwhile.    *)
(* The invariant bounds each of these differences by the length of a call. *)
(*                                                                         *)
(* The last part is about NtripMonitor, the caller of the probe that acts  *)
(* on its answer: its types, and that a second begin() leaves a client     *)
(* which only a restart of the device can revive.                          *)
(***************************************************************************)
EXTENDS InternetProbe, TLAPS

\* What is said is at most a call older than its stamp, than the call that is
\* about to stamp it, and, once a call has decided to use it, than a window.
Said ==
    /\ probed => saidAge <= probeAge + CallMax
    /\ \A t \in Tasks : pc[t] = "stamp" => saidAge <= nowAge[t] + CallMax
    /\ \A t \in Tasks :
        pc[t] = "answer" => probed /\ saidAge <= Window - 1 + nowAge[t] + CallMax

\* A task that has probed and has not begun a probe anew stands between the
\* stamp and its own last probe; a stamp later than the call's now, stored
\* already or still to come, was made after a window without probes.
PacedAt(t) ==
    /\ ~probed /\ pc[t] \in {"idle", "decide"} => ranAge[t] = Window
    /\ probed /\ pc[t] \in {"idle", "decide", "answer"} => probeAge <= ranAge[t] + CallMax
    /\ pc[t] = "decide" /\ probed /\ probeAge < nowAge[t] => ranAge[t] >= Window - CallMax
    /\ \A u \in Tasks :
        pc[t] = "decide" /\ pc[u] \in {"probe", "store", "stamp"} /\ nowAge[u] < nowAge[t]
            => ranAge[t] >= Window - CallMax

Paced == \A t \in Tasks : PacedAt(t)

IInv == TypeOK /\ Said /\ Paced

--------------------------------------------------------------------------------
(* Types.                                                                  *)

\* The initial state has the declared types and says nothing.
LEMMA InitIInv == Init => IInv
<1> SUFFICES ASSUME Init PROVE IInv
    OBVIOUS
<1>1. TypeOK
    <2>1. {reachable, probed, ap, uplink} \subseteq BOOLEAN /\ answer \in BOOLEAN
        BY Zenon DEF Init
    <2>2. probeAge \in 0..Window + CallMax
        BY TimesAssumption DEF Init
    <2>3. saidAge \in 0..Old /\ Window \in 0..Window /\ 0 \in 0..CallMax
        BY TimesAssumption DEF Init, Old, Oldest
    <2>4. nowAge \in [Tasks -> 0..CallMax] /\ okAge \in [Tasks -> 0..CallMax]
        BY <2>3 DEF Init
    <2>5. ok \in [Tasks -> BOOLEAN] /\ ranAge \in [Tasks -> 0..Window]
        BY <2>3 DEF Init
    <2>6. attemptAge \in 0..Gap + 1 /\ joinAge \in 0..JoinMax
        BY TimesAssumption DEF Init
    <2>7. ~probed => probeAge = 0
        BY DEF Init
    <2> QED BY <2>1, <2>2, <2>3, <2>4, <2>5, <2>6, <2>7 DEF Init, TypeOK
<1>2. Said
    BY DEF Init, Said
<1>3. Paced
    BY TimesAssumption DEF Init, Paced, PacedAt
<1> QED BY <1>1, <1>2, <1>3 DEF IInv

\* An age stays within its bound, and grows by one until it is there.
LEMMA OlderType ==
    ASSUME NEW most \in Nat, NEW age \in 0..most
    PROVE  /\ Older(age, most) \in 0..most
           /\ Older(age, most) = age + 1 \/ (age = most /\ Older(age, most) = most)
BY DEF Older

\* A step of a call keeps the types.
LEMMA CallType ==
    ASSUME TypeOK, NEW t \in Tasks,
           (Call(t) /\ at' \in {at, After(at)}) \/ Serve(t)
    PROVE  TypeOK'
<1>1. CASE Call(t) /\ at' \in {at, After(at)}
    BY <1>1, TimesAssumption DEF TypeOK, Call, After, cache, wifi, hist
<1>2. CASE Decide(t)
    BY <1>2, TimesAssumption DEF TypeOK, Decide, cache, wifi
<1>3. CASE Probe(t)
    BY <1>3, TimesAssumption DEF TypeOK, Probe, cache, wifi, hist
<1>4. CASE StoreAnswer(t)
    <2>1. okAge[t] \in 0..Old
        BY TimesAssumption DEF TypeOK, Old, Oldest
    <2> QED BY <1>4, <2>1 DEF TypeOK, StoreAnswer, wifi
<1>5. CASE StoreTime(t)
    <2>1. nowAge[t] \in 0..Window + CallMax
        BY TimesAssumption DEF TypeOK
    <2> QED BY <1>5, <2>1 DEF TypeOK, StoreTime, wifi, hist
<1>6. CASE Answer(t)
    BY <1>6, TimesAssumption DEF TypeOK, Answer, cache, wifi
<1> QED BY <1>1, <1>2, <1>3, <1>4, <1>5, <1>6 DEF Serve

\* The passing of time keeps the types: every age stays within its bound.
LEMMA TickType == TypeOK /\ Tick => TypeOK'
<1> SUFFICES ASSUME TypeOK, Tick PROVE TypeOK'
    OBVIOUS
<1>1. nowAge' \in [Tasks -> 0..CallMax] /\ okAge' \in [Tasks -> 0..CallMax]
    <2>1. \A t \in Tasks : Older(okAge[t], CallMax) \in 0..CallMax
        BY TimesAssumption, OlderType DEF TypeOK
    <2>2. \A t \in Tasks : pc[t] # "idle" => nowAge[t] + 1 \in 0..CallMax
        BY TimesAssumption DEF TypeOK, Tick
    <2> QED BY <2>1, <2>2, TimesAssumption DEF TypeOK, Tick
<1>2. probeAge' \in 0..Window + CallMax /\ (~probed' => probeAge' = 0)
    <2>1. Older(probeAge, Window + CallMax) \in 0..Window + CallMax
        BY TimesAssumption, OlderType DEF TypeOK
    <2>2. probed' = probed
        BY DEF Tick
    <2>3. 0 \in 0..Window + CallMax
        BY TimesAssumption
    <2>4. probeAge' = IF probed THEN Older(probeAge, Window + CallMax) ELSE 0
        BY DEF Tick
    <2> QED BY <2>1, <2>2, <2>3, <2>4, Zenon
<1>3. attemptAge' \in 0..Gap + 1 /\ joinAge' \in 0..JoinMax
    BY TimesAssumption, OlderType DEF TypeOK, Tick
<1>4. saidAge' \in 0..Old
    BY TimesAssumption, OlderType DEF TypeOK, Tick, Old, Oldest
<1>5. ranAge' \in [Tasks -> 0..Window]
    <2>1. \A t \in Tasks : Older(ranAge[t], Window) \in 0..Window
        BY TimesAssumption, OlderType DEF TypeOK
    <2> QED BY <2>1 DEF Tick
<1> QED BY <1>1, <1>2, <1>3, <1>4, <1>5 DEF TypeOK, Tick

\* What a step of the link, of the world or of loop() outside a call leaves
\* alone: all that the two calls share.
Others == Reconnect \/ DoNotAsk \/ Join \/ AutoJoin \/ LinkLost \/ World

\* The steps outside the calls keep the types and what the calls share.
LEMMA OthersType ==
    TypeOK /\ Others => TypeOK' /\ UNCHANGED <<cache, call, hist>>
<1> SUFFICES ASSUME TypeOK, Others PROVE TypeOK' /\ UNCHANGED <<cache, call, hist>>
    OBVIOUS
<1>1. CASE Reconnect
    BY <1>1, TimesAssumption DEF TypeOK, Reconnect, Attempt, cache, call, hist
<1>2. CASE DoNotAsk
    BY <1>2 DEF TypeOK, DoNotAsk, After, cache, call, wifi, hist
<1>3. CASE Join
    BY <1>3, TimesAssumption DEF TypeOK, Join, cache, call, hist
<1>4. CASE AutoJoin
    BY <1>4, TimesAssumption DEF TypeOK, AutoJoin, cache, call, hist
<1>5. CASE LinkLost
    BY <1>5 DEF TypeOK, LinkLost, cache, call, hist
<1>6. CASE World
    BY <1>6 DEF TypeOK, World, cache, call, hist
<1> QED BY <1>1, <1>2, <1>3, <1>4, <1>5, <1>6 DEF Others

\* A step is one of a call, of time, or of neither.
LEMMA NextCases ==
    ASSUME Next
    PROVE  \/ \E t \in Tasks : (Call(t) /\ at' \in {at, After(at)}) \/ Serve(t)
           \/ Tick
           \/ Others
<1>1. "monitor" \in Tasks /\ "loop" \in Tasks
    BY DEF Tasks
<1>2. ASSUME Monitor
      PROVE  (Call("monitor") /\ at' = at) \/ Serve("monitor")
    BY <1>2 DEF Monitor
<1>3. ASSUME Loop
      PROVE  \/ Call("loop") /\ at' = After(at)
             \/ Serve("loop")
             \/ Others
    BY <1>3 DEF Loop, Ask, Others
<1> QED BY <1>1, <1>2, <1>3, Zenon DEF Next, Others

--------------------------------------------------------------------------------
(* How old an answer is.                                                   *)

\* A step of a call keeps Said: a probe's result is at most a call old when it
\* is stored, and the stamp that goes with it is younger than the call.
LEMMA CallSaid ==
    ASSUME TypeOK, Said, NEW t \in Tasks, Call(t) \/ Serve(t)
    PROVE  Said'
<1>1. /\ \A u \in Tasks : nowAge[u] \in Nat /\ okAge[u] \in 0..CallMax
      /\ probeAge \in Nat /\ saidAge \in Nat /\ Window \in Nat \ {0} /\ CallMax \in Nat
    BY TimesAssumption DEF TypeOK, Old, Oldest
<1>2. CASE Call(t)
    BY <1>1, <1>2 DEF TypeOK, Said, Call, cache, hist
<1>3. CASE Decide(t)
    BY <1>1, <1>3 DEF TypeOK, Said, Decide, Expired, cache
<1>4. CASE Probe(t)
    BY <1>1, <1>4 DEF TypeOK, Said, Probe, cache, hist
<1>5. CASE StoreAnswer(t)
    BY <1>1, <1>5 DEF TypeOK, Said, StoreAnswer
<1>6. CASE StoreTime(t)
    BY <1>1, <1>6 DEF TypeOK, Said, StoreTime, hist
<1>7. CASE Answer(t)
    BY <1>1, <1>7 DEF TypeOK, Said, Answer, cache
<1> QED BY <1>2, <1>3, <1>4, <1>5, <1>6, <1>7 DEF Serve

\* What is said and its stamp grow old together, and no call outlives CallMax.
LEMMA TickSaid == TypeOK /\ Said /\ Tick => Said'
<1> SUFFICES ASSUME TypeOK, Said, Tick PROVE Said'
    OBVIOUS
<1>1. /\ \A t \in Tasks : nowAge[t] \in Nat
      /\ probeAge \in 0..Window + CallMax /\ saidAge \in 0..Window + 2 * CallMax
      /\ Window \in Nat \ {0} /\ CallMax \in Nat
    BY TimesAssumption DEF TypeOK, Old, Oldest
<1>2. saidAge' <= saidAge + 1 /\ saidAge' <= Window + 2 * CallMax /\ saidAge' \in Nat
    BY <1>1 DEF Tick, Older, Old, Oldest
<1>3. probed' => probed /\ (probeAge' = probeAge + 1 \/ probeAge' = Window + CallMax)
    BY <1>1 DEF Tick, Older
<1>4. \A t \in Tasks : pc'[t] = pc[t] /\ (pc[t] # "idle" => nowAge'[t] = nowAge[t] + 1)
    BY DEF Tick
<1>5. probed' => saidAge' <= probeAge' + CallMax
    BY <1>1, <1>2, <1>3 DEF Said
<1>6. \A t \in Tasks : pc'[t] = "stamp" => saidAge' <= nowAge'[t] + CallMax
    BY <1>1, <1>2, <1>4 DEF Said
<1>7. \A t \in Tasks :
        pc'[t] = "answer" => probed' /\ saidAge' <= Window - 1 + nowAge'[t] + CallMax
    BY <1>1, <1>2, <1>4 DEF Said, Tick
<1> QED BY <1>5, <1>6, <1>7 DEF Said

--------------------------------------------------------------------------------
(* How often a task probes.                                                *)

\* When a call decides to probe, the last probe of its task was long ago.
LEMMA DecidePaces ==
    ASSUME TypeOK, Paced, NEW t \in Tasks,
           pc[t] = "decide", ~probed \/ Expired(t)
    PROVE  ranAge[t] >= Window - CallMax
<1>1. /\ nowAge[t] \in Nat /\ probeAge \in Nat /\ ranAge[t] \in Nat
      /\ Window \in Nat /\ CallMax \in Nat
    BY TimesAssumption DEF TypeOK
<1>2. PacedAt(t)
    BY DEF Paced
<1> QED BY <1>1, <1>2 DEF PacedAt, Expired

\* A step of a call keeps Paced.  Only two steps can disturb it: a decision to
\* probe, whose stamp will be late for the calls that began before, and the
\* stamp itself.
LEMMA CallPaced ==
    ASSUME TypeOK, Said, Paced, NEW t \in Tasks, Call(t) \/ Serve(t)
    PROVE  Paced'
<1>1. /\ \A u \in Tasks : nowAge[u] \in 0..CallMax /\ ranAge[u] \in 0..Window
      /\ probeAge \in Nat /\ Window \in Nat \ {0} /\ CallMax \in Nat
    BY TimesAssumption DEF TypeOK
<1>2. CASE Call(t)
    BY <1>1, <1>2 DEF TypeOK, Paced, PacedAt, Call, cache, hist
<1>3. CASE Decide(t)
    <2>1. CASE ~probed \/ Expired(t)
        <3>1. \A u \in Tasks : pc[u] = "decide" /\ nowAge[t] < nowAge[u]
                => ranAge[u] >= Window - CallMax
            BY <1>1, <2>1 DEF Paced, PacedAt, Expired
        <3>2. /\ pc' = [pc EXCEPT ![t] = "probe"] /\ ranAge' = [ranAge EXCEPT ![t] = 0]
              /\ UNCHANGED <<probed, probeAge, nowAge>>
            BY <1>3, <2>1 DEF Decide, cache
        <3>3. ASSUME NEW u \in Tasks, u # t PROVE PacedAt(u)'
            <4>1. PacedAt(u) /\ pc'[u] = pc[u] /\ ranAge'[u] = ranAge[u]
                BY <3>2, <3>3 DEF Paced, TypeOK
            <4> QED BY <1>1, <3>1, <3>2, <4>1 DEF PacedAt, TypeOK
        <3>4. PacedAt(t)'
            BY <3>2 DEF PacedAt, TypeOK
        <3> QED BY <3>3, <3>4 DEF Paced
    <2>2. CASE ~(~probed \/ Expired(t))
        BY <1>1, <1>3, <2>2 DEF TypeOK, Paced, PacedAt, Decide, cache
    <2> QED BY <2>1, <2>2
<1>4. CASE Probe(t)
    BY <1>1, <1>4 DEF TypeOK, Paced, PacedAt, Probe, cache, hist
<1>5. CASE StoreAnswer(t)
    BY <1>1, <1>5 DEF TypeOK, Paced, PacedAt, StoreAnswer
<1>6. CASE StoreTime(t)
    BY <1>1, <1>6 DEF TypeOK, Paced, PacedAt, StoreTime, hist
<1>7. CASE Answer(t)
    BY <1>1, <1>7 DEF TypeOK, Said, Paced, PacedAt, Answer, cache
<1> QED BY <1>2, <1>3, <1>4, <1>5, <1>6, <1>7 DEF Serve

\* Stamps, calls and probes grow old together, up to their bounds.
LEMMA TickPaced == TypeOK /\ Paced /\ Tick => Paced'
<1> SUFFICES ASSUME TypeOK, Paced, Tick, NEW t \in Tasks PROVE PacedAt(t)'
    BY DEF Paced
<1>1. /\ \A u \in Tasks : nowAge[u] \in 0..CallMax /\ ranAge[u] \in 0..Window
      /\ probeAge \in 0..Window + CallMax /\ Window \in Nat \ {0} /\ CallMax \in Nat
      /\ CallMax < Window
    BY TimesAssumption DEF TypeOK
<1>2. ranAge'[t] \in 0..Window
      /\ (ranAge'[t] = ranAge[t] + 1 \/ ranAge'[t] = Window)
    BY <1>1 DEF Tick, Older
<1>3. probed' = probed /\ (probed => \/ probeAge' = probeAge + 1 /\ probeAge < Window + CallMax
                                     \/ probeAge' = probeAge /\ probeAge = Window + CallMax)
    BY <1>1 DEF Tick, Older
<1>4. \A u \in Tasks : /\ pc'[u] = pc[u]
                       /\ pc[u] # "idle" => nowAge'[u] = nowAge[u] + 1 /\ nowAge[u] < CallMax
    BY DEF Tick
<1>5. PacedAt(t)
    BY DEF Paced
<1>6. ~probed' /\ pc'[t] \in {"idle", "decide"} => ranAge'[t] = Window
    BY <1>1, <1>2, <1>3, <1>4, <1>5 DEF PacedAt
<1>7. probed' /\ pc'[t] \in {"idle", "decide", "answer"} => probeAge' <= ranAge'[t] + CallMax
    BY <1>1, <1>2, <1>3, <1>4, <1>5 DEF PacedAt
<1>8. pc'[t] = "decide" /\ probed' /\ probeAge' < nowAge'[t] => ranAge'[t] >= Window - CallMax
    BY <1>1, <1>2, <1>3, <1>4, <1>5 DEF PacedAt
<1>9. \A u \in Tasks :
        pc'[t] = "decide" /\ pc'[u] \in {"probe", "store", "stamp"} /\ nowAge'[u] < nowAge'[t]
            => ranAge'[t] >= Window - CallMax
    BY <1>1, <1>2, <1>4, <1>5 DEF PacedAt
<1> QED BY <1>6, <1>7, <1>8, <1>9 DEF PacedAt

--------------------------------------------------------------------------------
(* The theorems.                                                           *)

\* Every step keeps the invariant.
LEMMA NextIInv == IInv /\ [Next]_vars => IInv'
<1> SUFFICES ASSUME IInv, [Next]_vars PROVE IInv'
    OBVIOUS
<1> USE DEF IInv
<1>1. ASSUME NEW t \in Tasks, (Call(t) /\ at' \in {at, After(at)}) \/ Serve(t)
      PROVE  IInv'
    BY <1>1, CallType, CallSaid, CallPaced
<1>2. CASE Tick
    BY <1>2, TickType, TickSaid, TickPaced
<1>3. CASE Others
    <2>1. TypeOK' /\ UNCHANGED <<cache, call, hist>>
        BY <1>3, OthersType
    <2>2. Said'
        BY <2>1 DEF Said, cache, call, hist
    <2>3. Paced'
        BY <2>1 DEF Paced, PacedAt, cache, call, hist
    <2> QED BY <2>1, <2>2, <2>3
<1>4. CASE UNCHANGED vars
    BY <1>4 DEF vars, cache, call, wifi, hist, TypeOK, Said, Paced, PacedAt
<1> QED BY <1>1, <1>2, <1>3, <1>4, NextCases

\* The invariant holds in every reachable state.
LEMMA SpecIInv == Spec => []IInv
BY InitIInv, NextIInv, PTL DEF Spec

\* Every variable keeps its type and every age its bound, for all times.
THEOREM TypeCorrect == Spec => []TypeOK
<1>1. IInv => TypeOK
    BY DEF IInv
<1> QED BY <1>1, SpecIInv, PTL

\* However the two tasks interleave probe, store and stamp in
\* internet_probe_is_reachable, no call answers with a result older than a
\* window and two calls.
THEOREM AnswersAreRecent == Spec => []AnswerIsRecent
<1>1. IInv => AnswerIsRecent
    BY TimesAssumption DEF IInv, TypeOK, Said, AnswerIsRecent, Oldest, Old
<1> QED BY <1>1, SpecIInv, PTL

\* Between two probes of one task there is a window less the length of a call,
\* even when the other task stores an older stamp in between.
THEOREM ProbesPaced == Spec => ProbesArePaced
<1> DEFINE Pace == \A t \in Tasks : ranAge'[t] = 0 /\ pc'[t] = "probe" /\ pc[t] = "decide"
                        => ranAge[t] >= Window - CallMax
<1>1. ASSUME IInv, [Next]_vars PROVE [Pace]_vars
    <2> SUFFICES ASSUME ~UNCHANGED vars, NEW t \in Tasks,
                        pc'[t] = "probe", pc[t] = "decide"
                 PROVE  ranAge[t] >= Window - CallMax
        OBVIOUS
    <2>1. pc \in [Tasks -> {"idle", "decide", "probe", "store", "stamp", "answer"}]
        BY <1>1 DEF IInv, TypeOK
    <2>2. ASSUME NEW u \in Tasks, Call(u) \/ Serve(u) PROVE Decide(t)
        <3>1. CASE Decide(u)
            <4>1. u = t
                BY <2>1, <3>1 DEF Decide
            <4> QED BY <3>1, <4>1
        <3>2. CASE Call(u)
            BY <2>1, <3>2 DEF Call
        <3>3. CASE Probe(u)
            BY <2>1, <3>3 DEF Probe
        <3>4. CASE StoreAnswer(u)
            BY <2>1, <3>4 DEF StoreAnswer
        <3>5. CASE StoreTime(u)
            BY <2>1, <3>5 DEF StoreTime
        <3>6. CASE Answer(u)
            BY <2>1, <3>6 DEF Answer
        <3> QED BY <2>2, <3>1, <3>2, <3>3, <3>4, <3>5, <3>6 DEF Serve
    <2>3. ~Tick
        BY DEF Tick
    <2>4. ~Others
        <3>1. Others => pc' = pc
            BY <1>1, OthersType DEF IInv, call
        <3> QED BY <3>1
    <2>5. Next
        BY <1>1
    <2>6. Decide(t)
        BY <2>2, <2>3, <2>4, <2>5, NextCases
    <2>7. ~probed \/ Expired(t)
        BY <2>1, <2>6 DEF Decide
    <2> QED BY <1>1, <2>7, DecidePaces DEF IInv
<1> QED BY <1>1, SpecIInv, PTL DEF Spec, ProbesArePaced

--------------------------------------------------------------------------------
(* NtripMonitor, whose local variable reachable is the monitor's last      *)
(* answer here.  Its theorems are about that module's own specification,   *)
(* so the answer is what NtripMonitor lets it be, and not the probe's.     *)

CONSTANTS Ids, Refused, MaxTries, MaxBlips, MaxPosts, MaxReboots
VARIABLES state, healthy, failures, running, alive, dialing,
          mpc, wasConfigured, current, taskStarted, due,
          gCfg, gLock, logged, expired,
          nvsCfg, nvsLock, wpc, wCfg, wLock,
          internet, caster, blips, posts, reboots

Service == INSTANCE NtripMonitor WITH reachable <- answer

\* The assumptions of NtripMonitor.
ServiceAssumptions ==
    /\ Ids \subseteq Nat \ {0} /\ 1 \in Ids /\ Refused \subseteq Ids
    /\ MaxTries \in Nat \ {0}
    /\ {MaxBlips, MaxPosts, MaxReboots} \subseteq Nat

\* The types of the client.  A dial in progress has a try left, or stop() has
\* just used them up, so that the failure it may end in is at most one too many.
ClientTypes ==
    /\ state \in {"DISCONNECTED", "CONNECTING", "STREAMING", "LOCKED_OUT"}
    /\ failures \in 0..MaxTries + 1
    /\ dialing => failures <= MaxTries

Flags ==
    {healthy, running, alive, dialing, answer, wasConfigured, taskStarted, due,
     logged, expired, internet, caster} \subseteq BOOLEAN

\* What goes round between NVS, the monitor and a request is a configuration of
\* the web UI, or the one g_ntripCfg starts as, with a lockout of such a one.
Stored ==
    /\ current \in Ids \cup {0}
    /\ {gCfg, nvsCfg, wCfg} \subseteq Service!Config
    /\ {gLock, nvsLock, wLock} \subseteq Service!Lockout

Places ==
    /\ mpc \in {"probe", "load", "rehash", "apply", "begin", "sync", "lockout"}
    /\ wpc \in {"idle", "config", "lockout"}
    /\ blips \in 0..MaxBlips /\ posts \in 0..MaxPosts /\ reboots \in 0..MaxReboots

ServiceInv == ClientTypes /\ Flags /\ Stored /\ Places

\* A lockout of a configuration in use.
LEMMA LockoutTypes ==
    ASSUME NEW h \in Ids \cup {0, Service!NoHash}
    PROVE  Service!Clear(h) \in Service!Lockout /\ Service!Abandon(h) \in Service!Lockout
BY DEF Service!Clear, Service!Abandon, Service!Lockout

\* After a boot, and at first.
LEMMA ServiceInit ==
    ASSUME ServiceAssumptions, Service!Init PROVE ServiceInv
<1>1. ClientTypes
    BY DEF Service!Init, ClientTypes, ServiceAssumptions
<1>2. Flags
    BY Zenon DEF Service!Init, Flags
<1>3. Service!Default \in Service!Config /\ Service!Clear(Service!NoHash) \in Service!Lockout
    BY LockoutTypes DEF Service!Default, Service!Config
<1>4. nvsCfg \in Service!Config
    BY DEF Service!Init, Service!Config, ServiceAssumptions
<1>5. Stored
    BY <1>3, <1>4 DEF Service!Init, Stored
<1>6. Places
    BY DEF Service!Init, Places, ServiceAssumptions
<1> QED BY <1>1, <1>2, <1>5, <1>6 DEF ServiceInv

\* The client's own steps and the calls of the monitor keep its types.
LEMMA ClientTypesKept ==
    ASSUME ServiceAssumptions, ServiceInv, [Service!Next]_(Service!vars)
    PROVE  ClientTypes'
<1>1. /\ state \in {"DISCONNECTED", "CONNECTING", "STREAMING", "LOCKED_OUT"}
      /\ failures \in 0..MaxTries + 1 /\ (dialing => failures <= MaxTries)
      /\ MaxTries \in Nat \ {0}
    BY DEF ServiceAssumptions, ServiceInv, ClientTypes
<1>2. CASE UNCHANGED Service!client
    <2>1. state' = state /\ failures' = failures /\ dialing' = dialing
        BY <1>2 DEF Service!client
    <2> QED BY <1>1, <2>1, Zenon DEF ClientTypes
<1>3. CASE Service!ClientTask
    <2>1. CASE Service!Dial
        BY <1>1, <2>1 DEF Service!Dial, ClientTypes
    <2>2. CASE Service!Connected
        BY <1>1, <2>2 DEF Service!Connected, ClientTypes
    <2>3. CASE Service!Failed
        BY <1>1, <2>3 DEF Service!Failed, ClientTypes
    <2>4. CASE Service!GiveUp \/ Service!Validated \/ Service!Lose \/ Service!Exit
        <3>1. /\ state' \in {"DISCONNECTED", "CONNECTING", "STREAMING", "LOCKED_OUT"}
              /\ failures' = failures
            BY <1>1, <2>4
               DEF Service!GiveUp, Service!Validated, Service!Lose, Service!Exit
        <3>2. dialing' = dialing
            BY <2>4 DEF Service!GiveUp, Service!Validated, Service!Lose, Service!Exit
        <3> QED BY <1>1, <3>1, <3>2, Zenon DEF ClientTypes
    <2> QED BY <1>3, <2>1, <2>2, <2>3, <2>4 DEF Service!ClientTask
<1>4. CASE Service!Stop
    BY <1>1, <1>4 DEF Service!Stop, ClientTypes
<1>5. CASE Service!Monitor
    <2>1. CASE Service!BeginOk
        BY <1>1, <2>1 DEF Service!BeginOk, ClientTypes
    <2>2. CASE Service!HandleLockout
        BY <1>1, <1>2, <2>2
           DEF Service!HandleLockout, Service!SeeLockout, Service!ResetLockout, ClientTypes
    <2>3. CASE Service!Probe \/ Service!Apply
        BY <1>2, <1>4, <2>3 DEF Service!Probe, Service!Apply
    <2>4. CASE Service!Load \/ Service!Rehash \/ Service!BeginRefused \/ Service!Sync
        BY <1>2, <2>4
           DEF Service!Load, Service!Rehash, Service!BeginRefused, Service!Sync
    <2> QED BY <1>5, <2>1, <2>2, <2>3, <2>4 DEF Service!Monitor
<1>6. CASE Service!Reboot
    BY <1>1, <1>6 DEF Service!Reboot, Service!Boot, ClientTypes
<1>7. CASE \/ Service!Due \/ Service!Expire \/ Service!Post \/ Service!Web
           \/ Service!Internet \/ Service!Caster
    BY <1>2, <1>7
       DEF Service!Due, Service!Expire, Service!Post, Service!Web, Service!PostConfig,
           Service!PostLockout, Service!Internet, Service!Caster
<1> QED BY <1>2, <1>3, <1>5, <1>6, <1>7 DEF Service!Next, Service!vars

\* Every step leaves flags.
LEMMA FlagsKept ==
    ASSUME ServiceInv, [Service!Next]_(Service!vars)
    PROVE  Flags'
<1>1. /\ healthy \in BOOLEAN /\ running \in BOOLEAN /\ alive \in BOOLEAN
      /\ dialing \in BOOLEAN /\ answer \in BOOLEAN /\ wasConfigured \in BOOLEAN
      /\ taskStarted \in BOOLEAN /\ due \in BOOLEAN /\ logged \in BOOLEAN
      /\ expired \in BOOLEAN /\ internet \in BOOLEAN /\ caster \in BOOLEAN
    BY DEF ServiceInv, Flags
<1> DEFINE Booleans ==
        /\ healthy \in BOOLEAN /\ running \in BOOLEAN /\ alive \in BOOLEAN
        /\ dialing \in BOOLEAN /\ answer \in BOOLEAN /\ wasConfigured \in BOOLEAN
        /\ taskStarted \in BOOLEAN /\ due \in BOOLEAN /\ logged \in BOOLEAN
        /\ expired \in BOOLEAN /\ internet \in BOOLEAN /\ caster \in BOOLEAN
<1> SUFFICES Booleans'
    BY Zenon DEF Flags
<1>2. CASE Service!ClientTask
    <2>1. /\ answer' = answer /\ wasConfigured' = wasConfigured /\ due' = due
          /\ taskStarted' = taskStarted /\ logged' = logged /\ expired' = expired
          /\ internet' = internet /\ caster' = caster
        BY <1>2 DEF Service!ClientTask, Service!monitor, Service!world, Service!lockout
    <2>2. healthy' \in BOOLEAN
        BY <1>1, <1>2
           DEF Service!ClientTask, Service!Dial, Service!GiveUp, Service!Connected,
               Service!Failed, Service!Validated, Service!Lose, Service!Exit
    <2>3. dialing' \in BOOLEAN
        BY <1>1, <1>2
           DEF Service!ClientTask, Service!Dial, Service!GiveUp, Service!Connected,
               Service!Failed, Service!Validated, Service!Lose, Service!Exit
    <2>4. running' \in BOOLEAN /\ alive' \in BOOLEAN
        BY <1>1, <1>2
           DEF Service!ClientTask, Service!Dial, Service!GiveUp, Service!Connected,
               Service!Failed, Service!Validated, Service!Lose, Service!Exit
    <2> QED BY <1>1, <2>1, <2>2, <2>3, <2>4
<1>3. CASE Service!Monitor
    <2>1. CASE Service!Probe
        BY <1>1, <2>1 DEF Service!Probe, Service!Stop, Service!client, Service!lockout,
                          Service!world
    <2>2. CASE Service!Load \/ Service!Rehash \/ Service!BeginRefused \/ Service!Sync
        BY <1>1, <2>2
           DEF Service!Load, Service!Rehash, Service!BeginRefused, Service!Sync,
               Service!client, Service!lockout, Service!world
    <2>3. CASE Service!Apply
        <3>1. /\ answer' = answer /\ taskStarted' = taskStarted /\ due' = due
              /\ logged' = logged /\ expired' = expired
              /\ internet' = internet /\ caster' = caster
            BY <2>3 DEF Service!Apply, Service!lockout, Service!world
        <3>2. healthy' \in BOOLEAN /\ wasConfigured' \in BOOLEAN
            BY <1>1, <2>3 DEF Service!Apply, Service!Stop, Service!client
        <3>3. running' = running /\ alive' = alive /\ dialing' = dialing
            BY <2>3 DEF Service!Apply, Service!Stop, Service!client
        <3> QED BY <1>1, <3>1, <3>2, <3>3
    <2>4. CASE Service!BeginOk
        BY <1>1, <2>4 DEF Service!BeginOk, Service!lockout, Service!world
    <2>5. CASE Service!HandleLockout
        <3>1. /\ answer' = answer /\ taskStarted' = taskStarted /\ due' = due
              /\ wasConfigured' = wasConfigured
              /\ internet' = internet /\ caster' = caster
            BY <2>5 DEF Service!HandleLockout, Service!world
        <3>2. /\ healthy' = healthy /\ running' = running /\ alive' = alive
              /\ dialing' = dialing
            BY <2>5 DEF Service!HandleLockout, Service!SeeLockout, Service!ResetLockout,
                        Service!client
        <3>3. logged' \in BOOLEAN /\ expired' \in BOOLEAN
            BY <1>1, <2>5
               DEF Service!HandleLockout, Service!SeeLockout, Service!ResetLockout,
                   Service!lockout
        <3> QED BY <1>1, <3>1, <3>2, <3>3
    <2> QED BY <1>3, <2>1, <2>2, <2>3, <2>4, <2>5 DEF Service!Monitor
<1>4. CASE Service!Reboot
    BY <1>1, <1>4 DEF Service!Reboot, Service!Boot
<1>5. CASE UNCHANGED <<Service!client, Service!monitor, Service!lockout, internet, caster>>
    <2>1. /\ healthy' = healthy /\ running' = running /\ alive' = alive
          /\ dialing' = dialing /\ answer' = answer /\ wasConfigured' = wasConfigured
          /\ taskStarted' = taskStarted /\ due' = due /\ logged' = logged
          /\ expired' = expired /\ internet' = internet /\ caster' = caster
        BY <1>5 DEF Service!client, Service!monitor, Service!lockout
    <2> QED BY <1>1, <2>1
<1>6. CASE Service!Post \/ Service!Web \/ UNCHANGED Service!vars
    BY <1>5, <1>6
       DEF Service!Post, Service!Web, Service!PostConfig, Service!PostLockout,
           Service!vars, Service!world
<1>7. CASE Service!Due
    <2>1. due' = TRUE /\ UNCHANGED <<Service!client, Service!lockout, Service!world>>
        BY <1>7 DEF Service!Due
    <2>2. UNCHANGED <<answer, wasConfigured, taskStarted>>
        BY <1>7 DEF Service!Due
    <2> QED BY <1>1, <2>1, <2>2 DEF Service!client, Service!lockout, Service!world
<1>8. CASE Service!Expire
    <2>1. expired' = TRUE /\ logged' = logged
        BY <1>8 DEF Service!Expire
    <2>2. UNCHANGED <<Service!client, Service!monitor, Service!world>>
        BY <1>8 DEF Service!Expire
    <2> QED BY <1>1, <2>1, <2>2 DEF Service!client, Service!monitor, Service!world
<1>9. CASE Service!Internet
    <2>1. internet' = ~internet /\ caster' = caster
        BY <1>9 DEF Service!Internet
    <2>2. UNCHANGED <<Service!client, Service!monitor, Service!lockout>>
        BY <1>9 DEF Service!Internet
    <2> QED BY <1>1, <2>1, <2>2 DEF Service!client, Service!monitor, Service!lockout
<1>10. CASE Service!Caster
    <2>1. caster' = ~caster /\ internet' = internet
        BY <1>10 DEF Service!Caster
    <2>2. UNCHANGED <<Service!client, Service!monitor, Service!lockout>>
        BY <1>10 DEF Service!Caster
    <2> QED BY <1>1, <2>1, <2>2 DEF Service!client, Service!monitor, Service!lockout
<1> QED BY <1>2, <1>3, <1>4, <1>5, <1>6, <1>7, <1>8, <1>9, <1>10 DEF Service!Next

\* Saving a lockout stores the configuration the monitor last read with it.
LEMMA SaveKeepsStored ==
    ASSUME Stored, NEW l \in Service!Lockout, Service!SaveLockout(l),
           UNCHANGED <<current, gCfg, wCfg, wLock>>
    PROVE  Stored'
BY DEF Stored, Service!SaveLockout, Service!nvs

\* Every step stores configurations and lockouts that somebody had.
LEMMA StoredKept ==
    ASSUME ServiceAssumptions, ServiceInv, [Service!Next]_(Service!vars)
    PROVE  Stored'
<1>1. /\ current \in Ids \cup {0}
      /\ gCfg \in Service!Config /\ nvsCfg \in Service!Config /\ wCfg \in Service!Config
      /\ gLock \in Service!Lockout /\ nvsLock \in Service!Lockout
      /\ wLock \in Service!Lockout
    BY DEF ServiceInv, Stored
<1>2. gCfg.id \in Ids \cup {0}
    BY <1>1 DEF Service!Config
<1>3. /\ Service!Clear(gCfg.id) \in Service!Lockout
      /\ Service!Abandon(gCfg.id) \in Service!Lockout
      /\ Service!Clear(Service!NoHash) \in Service!Lockout
      /\ Service!Default \in Service!Config
    BY <1>2, LockoutTypes DEF Service!Default, Service!Config
<1>4. CASE UNCHANGED <<current, Service!ram, Service!nvs, Service!web>>
    BY <1>1, <1>4 DEF Service!ram, Service!nvs, Service!web, Stored
<1>5. CASE Service!Monitor
    <2>1. CASE Service!Probe \/ Service!Apply \/ Service!BeginRefused
        BY <1>4, <2>1 DEF Service!Probe, Service!Apply, Service!BeginRefused
    <2>2. CASE Service!Load
        BY <1>1, <2>2 DEF Service!Load, Service!nvs, Service!web, Stored
    <2>3. CASE Service!Rehash
        <3>1. /\ UNCHANGED <<current, gCfg, wCfg, wLock>>
              /\ Service!SaveLockout(Service!Clear(gCfg.id)) \/ UNCHANGED <<gLock, Service!nvs>>
            BY <2>3 DEF Service!Rehash, Service!web
        <3> QED BY <1>1, <1>3, <3>1, SaveKeepsStored DEF Service!nvs, Stored, ServiceInv
    <2>4. CASE Service!BeginOk
        BY <1>1, <1>2, <2>4
           DEF Service!BeginOk, Service!ram, Service!nvs, Service!web, Stored
    <2>5. CASE Service!Sync
        <3>1. /\ UNCHANGED <<current, gCfg, wCfg, wLock>>
              /\ \/ Service!SaveLockout(Service!Clear(gCfg.id))
                 \/ Service!SaveLockout(Service!Abandon(gCfg.id))
                 \/ UNCHANGED <<gLock, Service!nvs>>
            BY <2>5 DEF Service!Sync, Service!web
        <3> QED BY <1>1, <1>3, <3>1, SaveKeepsStored DEF Service!nvs, Stored, ServiceInv
    <2>6. CASE Service!HandleLockout
        <3>1. /\ UNCHANGED <<current, gCfg, wCfg, wLock>>
              /\ \/ Service!SaveLockout(Service!Clear(gCfg.id))
                 \/ UNCHANGED <<gLock, Service!nvs>>
            BY <2>6 DEF Service!HandleLockout, Service!SeeLockout, Service!ResetLockout,
                        Service!ram, Service!web
        <3> QED BY <1>1, <1>3, <3>1, SaveKeepsStored DEF Service!nvs, Stored, ServiceInv
    <2> QED BY <1>5, <2>1, <2>2, <2>3, <2>4, <2>5, <2>6 DEF Service!Monitor
<1>6. CASE Service!Post
    <2>1. wCfg' \in [enabled : BOOLEAN, id : Ids] /\ wLock' = nvsLock
        BY <1>6 DEF Service!Post
    <2>2. wCfg' \in Service!Config
        BY <2>1 DEF Service!Config
    <2> QED BY <1>1, <1>6, <2>1, <2>2
            DEF Service!Post, Service!monitor, Service!ram, Service!nvs, Stored
<1>7. CASE Service!Web
    BY <1>1, <1>3, <1>7
       DEF Service!Web, Service!PostConfig, Service!PostLockout, Service!monitor,
           Service!ram, Stored
<1>8. CASE Service!Reboot
    BY <1>1, <1>3, <1>8 DEF Service!Reboot, Service!Boot, Service!nvs, Stored
<1>9. CASE \/ Service!ClientTask \/ Service!Due \/ Service!Expire
           \/ Service!Internet \/ Service!Caster
    BY <1>4, <1>9
       DEF Service!ClientTask, Service!Due, Service!Expire, Service!Internet,
           Service!Caster, Service!monitor
<1>10. CASE UNCHANGED Service!vars
    BY <1>4, <1>10 DEF Service!vars, Service!monitor
<1> QED BY <1>5, <1>6, <1>7, <1>8, <1>9, <1>10 DEF Service!Next

\* Every step leads to a place, within the bounds.
LEMMA PlacesKept ==
    ASSUME ServiceAssumptions, ServiceInv, [Service!Next]_(Service!vars)
    PROVE  Places'
<1>1. /\ mpc \in {"probe", "load", "rehash", "apply", "begin", "sync", "lockout"}
      /\ wpc \in {"idle", "config", "lockout"}
      /\ blips \in 0..MaxBlips /\ posts \in 0..MaxPosts /\ reboots \in 0..MaxReboots
      /\ MaxBlips \in Nat /\ MaxPosts \in Nat /\ MaxReboots \in Nat
    BY DEF ServiceAssumptions, ServiceInv, Places
<1>2. CASE UNCHANGED <<mpc, wpc, blips, posts, reboots>>
    BY <1>1, <1>2 DEF Places
<1>3. CASE Service!Monitor
    BY <1>1, <1>3
       DEF Service!Monitor, Service!Probe, Service!Load, Service!Rehash, Service!Apply,
           Service!BeginRefused, Service!BeginOk, Service!Sync, Service!HandleLockout,
           Service!web, Service!world, Places
<1>4. CASE Service!Post \/ Service!Web \/ Service!Reboot
    BY <1>1, <1>4
       DEF Service!Post, Service!Web, Service!PostConfig, Service!PostLockout,
           Service!Reboot, Service!Boot, Service!monitor, Service!world, Places
<1>5. CASE Service!Internet \/ Service!Caster
    BY <1>1, <1>5 DEF Service!Internet, Service!Caster, Service!monitor, Service!web, Places
<1>6. CASE Service!ClientTask \/ Service!Due \/ Service!Expire \/ UNCHANGED Service!vars
    BY <1>2, <1>6
       DEF Service!ClientTask, Service!Due, Service!Expire, Service!vars,
           Service!monitor, Service!web, Service!world
<1> QED BY <1>3, <1>4, <1>5, <1>6 DEF Service!Next

\* The monitor's variables keep their types: failures stay within one of max_tries,
\* though stop() writes them under a handshake, and what is stored is always a
\* configuration and a lockout.
THEOREM ServiceTypeCorrect ==
    ASSUME ServiceAssumptions
    PROVE  Service!Spec => []Service!TypeOK
<1>1. Service!Init => ServiceInv
    BY ServiceInit
<1>2. ServiceInv /\ [Service!Next]_(Service!vars) => ServiceInv'
    BY ClientTypesKept, FlagsKept, StoredKept, PlacesKept DEF ServiceInv
<1>3. ServiceInv => Service!TypeOK
    BY DEF ServiceInv, ClientTypes, Flags, Stored, Places, Service!TypeOK
<1> QED BY <1>1, <1>2, <1>3, PTL DEF Service!Spec

\* A client whose task has been told to end and is not dialing.
Dead == taskStarted /\ ~running /\ ~dialing /\ state \notin {"CONNECTING", "STREAMING"}

\* A client that was begun a second time is dead until the device restarts: begin()
\* clears _running, startTask() is not called again, and whatever the monitor, the
\* user and the network do, it neither connects nor streams.
THEOREM DeadUntilReboot ==
    Service!Spec => [][Dead => Dead' \/ reboots' = reboots + 1]_(Service!vars)
<1>1. ASSUME Dead, Service!Next PROVE Dead' \/ reboots' = reboots + 1
    <2>1. CASE Service!ClientTask
        BY <1>1, <2>1
           DEF Service!ClientTask, Service!Dial, Service!GiveUp, Service!Connected,
               Service!Failed, Service!Validated, Service!Lose, Service!Exit,
               Service!TaskRuns, Service!monitor, Dead
    <2>2. CASE Service!Monitor
        BY <1>1, <2>2
           DEF Service!Monitor, Service!Probe, Service!Load, Service!Rehash,
               Service!Apply, Service!BeginRefused, Service!BeginOk, Service!Sync,
               Service!HandleLockout, Service!SeeLockout, Service!ResetLockout,
               Service!Stop, Service!client, Dead
    <2>3. CASE Service!Reboot
        BY <2>3 DEF Service!Reboot
    <2>4. CASE \/ Service!Due \/ Service!Expire \/ Service!Post \/ Service!Web
               \/ Service!Internet \/ Service!Caster
        BY <1>1, <2>4
           DEF Service!Due, Service!Expire, Service!Post, Service!Web,
               Service!PostConfig, Service!PostLockout, Service!Internet,
               Service!Caster, Service!client, Service!monitor, Dead
    <2> QED BY <1>1, <2>1, <2>2, <2>3, <2>4 DEF Service!Next
<1> QED BY <1>1, PTL DEF Service!Spec
================================================================================
