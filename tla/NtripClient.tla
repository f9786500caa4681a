------------------------------ MODULE NtripClient ------------------------------
(***************************************************************************)
(* The NTRIP client library: the task started by startTask() (taskLoop)    *)
(* and the methods another task calls on the same object.  Every access to *)
(* a member shared by the two sides is a step of its own.                  *)
(*                                                                         *)
(* A method is the sequence of the shared writes it makes; ctl is what     *)
(* remains of the method in progress.  The caster and the network decide   *)
(* how a handshake ends, what a read returns and when the socket closes.   *)
(* Time is two flags: cooled (retryDelayMs has passed since lastAttempt)   *)
(* and stale (healthTimeoutMs has passed since lastHealth).                *)
(***************************************************************************)
EXTENDS Integers, Sequences

CONSTANTS
    MaxTries,    \* config.maxTries
    Required,    \* config.requiredValidFrames
    Calls        \* methods the controlling task calls

State == {"DISCONNECTED", "CONNECTING", "STREAMING", "LOCKED_OUT"}
Method == {"start", "stop", "reset", "reconnect", "stopTask"}

ASSUME MaxTriesAssumption == MaxTries \in Nat \ {0}
ASSUME RequiredAssumption == Required \in Nat \ {0}
ASSUME CallsAssumption == Calls \subseteq Method

VARIABLES
    state,       \* _state
    healthy,     \* _healthy
    failures,    \* failures
    running,     \* _running
    handle,      \* _taskHandle # nullptr
    socket,      \* client.connected()
    cooled,      \* millis() - lastAttempt >= retryDelayMs
    stale,       \* millis() - lastHealth > healthTimeoutMs
    pc,          \* where the task is in taskLoop ("off": no task)
    ret,         \* where the task continues after a disconnect() in progress
    phase,       \* the task's StreamPhase
    frames,      \* the task's validFrames
    chunk,       \* what the task's last read brought, until it is judged
    buffer,      \* the task's read buffer is allocated
    ctl,         \* shared writes the method in progress has still to make
    caster       \* "up", "silent" (accepts, sends nothing) or "down"

shared == <<state, healthy, failures, running, handle, socket, cooled>>
local  == <<pc, ret, phase, frames, chunk, buffer>>
vars   == <<shared, stale, local, ctl, caster>>

Init ==
    /\ state = "DISCONNECTED" /\ healthy = FALSE /\ failures = 0
    /\ running = FALSE /\ handle = FALSE /\ socket = FALSE
    /\ cooled \in BOOLEAN /\ stale = FALSE
    /\ pc = "off" /\ ret = "off" /\ phase = "VALIDATION" /\ frames = 0
    /\ chunk = "none" /\ buffer = FALSE
    /\ ctl = <<>>
    /\ caster \in {"up", "silent", "down"}

--------------------------------------------------------------------------------
(* The shared writes.  "close" is client.stop() with the _healthy = false  *)
(* that follows it in disconnect(): no reader tells the two apart.         *)
(* "rewind" is lastAttempt = 0, which opens the retry window unless the    *)
(* device booted less than retryDelayMs ago.                               *)

Write(op) ==
    \/ /\ op = "close" /\ socket' = FALSE /\ healthy' = FALSE
       /\ UNCHANGED <<state, failures, running, handle, cooled>>
    \/ /\ op = "disconnected" /\ state' = "DISCONNECTED"
       /\ UNCHANGED <<healthy, failures, running, handle, socket, cooled>>
    \/ /\ op = "exhaust" /\ failures' = MaxTries
       /\ UNCHANGED <<state, healthy, running, handle, socket, cooled>>
    \/ /\ op = "lock" /\ state' = "LOCKED_OUT"
       /\ UNCHANGED <<healthy, failures, running, handle, socket, cooled>>
    \/ /\ op = "forgive" /\ failures' = 0
       /\ UNCHANGED <<state, healthy, running, handle, socket, cooled>>
    \/ /\ op = "unhealthy" /\ healthy' = FALSE
       /\ UNCHANGED <<state, failures, running, handle, socket, cooled>>
    \/ /\ op = "rewind" /\ cooled' \in {cooled, TRUE}
       /\ UNCHANGED <<state, healthy, failures, running, handle, socket>>
    \/ /\ op = "halt" /\ running' = FALSE
       /\ UNCHANGED <<state, healthy, failures, handle, socket, cooled>>

\* The writes of each method, in the order of the code: start is begin() and
\* then startTask(); stop and reconnect open with disconnect().
Body == [
    start     |-> <<"forgive", "unhealthy", "disconnected", "halt", "launch">>,
    stop      |-> <<"close", "disconnected", "exhaust", "lock">>,
    reset     |-> <<"forgive", "disconnected">>,
    reconnect |-> <<"close", "disconnected", "rewind">>,
    stopTask  |-> <<"halt", "join">> ]

\* The contract in NtripClient.h: begin() only when no task runs, stopTask()
\* returns at once when there is none.
MayCall(m) ==
    /\ m = "start" => ~handle
    /\ m = "stopTask" => handle

Call(m) ==
    /\ ctl = <<>> /\ MayCall(m)
    /\ ctl' = Body[m]
    /\ UNCHANGED <<shared, stale, local, caster>>

CallWrite ==
    /\ ctl # <<>> /\ Write(Head(ctl))
    /\ ctl' = Tail(ctl)
    /\ UNCHANGED <<stale, local, caster>>

\* startTask(): _running = true and the task is created, or creation fails.
\* A new task starts from the top with its locals initialised.
StartTask ==
    /\ ctl # <<>> /\ Head(ctl) = "launch"
    /\ ctl' = Tail(ctl)
    /\ IF handle
       THEN UNCHANGED <<shared, local>>
       ELSE \/ /\ running' = TRUE /\ handle' = TRUE
               /\ pc' = "top" /\ phase' = "VALIDATION" /\ frames' = 0
               /\ buffer' = TRUE
               /\ UNCHANGED <<state, healthy, failures, socket, cooled, ret, chunk>>
            \/ /\ running' = FALSE
               /\ UNCHANGED <<state, healthy, failures, handle, socket, cooled, local>>
    /\ UNCHANGED <<stale, caster>>

\* stopTask() waits for the task to clear _taskHandle.
Joined ==
    /\ ctl # <<>> /\ Head(ctl) = "join" /\ ~handle
    /\ ctl' = Tail(ctl)
    /\ UNCHANGED <<shared, stale, local, caster>>

\* The loop's last look at the clock finds 5 s gone.  Only a handshake, which
\* may block for up to four connectTimeoutMs, keeps the task that long; it may
\* go on while the next lines run.
Expire ==
    /\ ctl # <<>> /\ Head(ctl) = "join" /\ pc = "handshake"
    /\ ctl' = <<"check", "load", "kill", "clear">>
    /\ UNCHANGED <<shared, stale, local, caster>>

\* if (_taskHandle != nullptr)
Check ==
    /\ ctl # <<>> /\ Head(ctl) = "check"
    /\ ctl' = IF handle THEN Tail(ctl) ELSE <<>>
    /\ UNCHANGED <<shared, stale, local, caster>>

\* vTaskDelete(_taskHandle) reads the handle again: null names the caller,
\* which is deleted and never makes another call.
Load ==
    /\ ctl # <<>> /\ Head(ctl) = "load"
    /\ ctl' = IF handle THEN Tail(ctl) ELSE <<"deleted">>
    /\ UNCHANGED <<shared, stale, local, caster>>

\* The task is deleted wherever it stands, its buffer never freed.  A task
\* that ended since is deleted a second time: the build does nothing, or
\* faults.
Delete ==
    /\ ctl # <<>> /\ Head(ctl) = "kill"
    /\ pc' = "off" /\ ret' = "off" /\ chunk' = "none"
    /\ \/ ctl' = Tail(ctl)
       \/ pc = "off" /\ ctl' = <<"deleted">>
    /\ UNCHANGED <<shared, stale, phase, frames, buffer, caster>>

\* _taskHandle = nullptr
Clear ==
    /\ ctl # <<>> /\ Head(ctl) = "clear"
    /\ handle' = FALSE
    /\ ctl' = Tail(ctl)
    /\ UNCHANGED <<state, healthy, failures, running, socket, cooled,
                   stale, local, caster>>

Control == CallWrite \/ StartTask \/ Joined \/ Check \/ Load \/ Delete \/ Clear

--------------------------------------------------------------------------------
(* taskLoop.                                                               *)

Goto(from, to) == pc = from /\ pc' = to

\* Variant for mutation: the loop does not look at _running.
LoopForever ==
    /\ Goto("top", "gate")
    /\ UNCHANGED <<shared, ret, phase, frames, chunk, buffer>>

\* while (_running)
Loop ==
    /\ Goto("top", IF running THEN "gate" ELSE "exit")
    /\ UNCHANGED <<shared, ret, phase, frames, chunk, buffer>>

\* Close the socket when not actively connected.
Gate ==
    /\ Goto("gate", "idle")
    /\ IF state \notin {"STREAMING", "CONNECTING"} /\ socket
       THEN socket' = FALSE /\ healthy' = FALSE
       ELSE UNCHANGED <<socket, healthy>>
    /\ UNCHANGED <<state, failures, running, handle, cooled, ret, phase, frames, chunk, buffer>>

\* Variants: no retry window; no lockout.
IdleEager ==
    /\ Goto("idle", IF state # "DISCONNECTED" THEN "connect"
                    ELSE IF failures >= MaxTries THEN "giveup" ELSE "dial")
    /\ UNCHANGED <<shared, ret, phase, frames, chunk, buffer>>

IdleTireless ==
    /\ Goto("idle", IF state # "DISCONNECTED" THEN "connect"
                    ELSE IF ~cooled THEN "top" ELSE "dial")
    /\ UNCHANGED <<shared, ret, phase, frames, chunk, buffer>>

\* DISCONNECTED: wait for the retry window, give up, or dial.
Idle ==
    /\ Goto("idle", IF state # "DISCONNECTED" THEN "connect"
                    ELSE IF ~cooled THEN "top"
                    ELSE IF failures >= MaxTries THEN "giveup" ELSE "dial")
    /\ UNCHANGED <<shared, ret, phase, frames, chunk, buffer>>

GiveUp ==
    /\ Goto("giveup", "top")
    /\ state' = "LOCKED_OUT"
    /\ UNCHANGED <<healthy, failures, running, handle, socket, cooled, ret, phase, frames, chunk, buffer>>

Dial ==
    /\ Goto("dial", "connect")
    /\ state' = "CONNECTING"
    /\ UNCHANGED <<healthy, failures, running, handle, socket, cooled, ret, phase, frames, chunk, buffer>>

\* CONNECTING: lastAttempt = now, then connectCaster blocks.
Connect ==
    /\ Goto("connect", IF state = "CONNECTING" THEN "handshake" ELSE "stream")
    /\ cooled' = IF state = "CONNECTING" THEN FALSE ELSE cooled
    /\ UNCHANGED <<state, healthy, failures, running, handle, socket, ret, phase, frames, chunk, buffer>>

\* connectCaster (Rev2, then Rev1) succeeds, or fails with its socket closed.
Handshake ==
    \/ /\ Goto("handshake", "won")
       /\ caster # "down"
       /\ socket' = TRUE
       /\ UNCHANGED <<state, healthy, failures, running, handle, cooled, ret, phase, frames, chunk, buffer>>
    \/ /\ Goto("handshake", "lost")
       /\ socket' = FALSE
       /\ UNCHANGED <<state, healthy, failures, running, handle, cooled, ret, phase, frames, chunk, buffer>>

\* Variant: the failures before a success are kept.
WonKeepsFailures ==
    /\ Goto("won", "fresh")
    /\ UNCHANGED <<shared, ret, phase, frames, chunk, buffer>>

\* Success, first write: failures = 0.
Won ==
    /\ Goto("won", "fresh")
    /\ failures' = 0
    /\ UNCHANGED <<state, healthy, running, handle, socket, cooled, ret, phase, frames, chunk, buffer>>

\* The parser, validFrames, the phase and lastHealth restart.
Fresh ==
    /\ Goto("fresh", "renew")
    /\ phase' = "VALIDATION" /\ frames' = 0 /\ stale' = FALSE
    /\ UNCHANGED <<shared, ret, chunk, buffer>>

\* Variant: the health of the stream before is kept.
RenewKeepsHealth ==
    /\ Goto("renew", "enter")
    /\ UNCHANGED <<shared, ret, phase, frames, chunk, buffer>>

\* _healthy = false
Renew ==
    /\ Goto("renew", "enter")
    /\ healthy' = FALSE
    /\ UNCHANGED <<state, failures, running, handle, socket, cooled, ret, phase, frames, chunk, buffer>>

Enter ==
    /\ Goto("enter", "stream")
    /\ state' = "STREAMING"
    /\ UNCHANGED <<healthy, failures, running, handle, socket, cooled, ret, phase, frames, chunk, buffer>>

\* Variant: a failed attempt is not counted.
LostUncounted ==
    /\ Goto("lost", "leave")
    /\ UNCHANGED <<shared, ret, phase, frames, chunk, buffer>>

Lost ==
    /\ Goto("lost", "leave")
    /\ failures' = failures + 1
    /\ UNCHANGED <<state, healthy, running, handle, socket, cooled, ret, phase, frames, chunk, buffer>>

Leave ==
    /\ Goto("leave", "stream")
    /\ state' = "DISCONNECTED"
    /\ UNCHANGED <<healthy, failures, running, handle, socket, cooled, ret, phase, frames, chunk, buffer>>

\* STREAMING: a closed socket ends the connection, else read.
Stream ==
    /\ IF state = "STREAMING" /\ ~socket
       THEN Goto("stream", "close") /\ ret' = "top"
       ELSE Goto("stream", IF state = "STREAMING" THEN "read" ELSE "tail") /\ UNCHANGED ret
    /\ UNCHANGED <<shared, phase, frames, chunk, buffer>>

\* What a read brings: nothing, a valid RTCM frame, a chunk with an RTCM
\* preamble but no valid frame, or bytes without one.
Data == IF caster = "up" /\ socket THEN {"none", "frame", "preamble", "noise"} ELSE {"none"}

Read ==
    /\ Goto("read", "judge")
    /\ chunk' \in Data
    /\ UNCHANGED <<shared, ret, phase, frames, buffer>>

\* VALIDATION: count frames until Required of them made the stream healthy.
Validate ==
    /\ phase = "VALIDATION"
    /\ IF chunk = "frame"
       THEN /\ frames' = frames + 1 /\ stale' = FALSE
            /\ IF frames + 1 >= Required
               THEN healthy' = TRUE /\ phase' = "STREAMING"
               ELSE UNCHANGED <<healthy, phase>>
       ELSE UNCHANGED <<frames, stale, healthy, phase>>

\* Passive sampling: when a sample is due, a preamble proves the stream alive.
Sample ==
    /\ phase = "STREAMING"
    /\ \E due \in BOOLEAN :
        IF due /\ chunk \in {"frame", "preamble"}
        THEN healthy' = TRUE /\ stale' = FALSE
        ELSE UNCHANGED <<healthy, stale>>
    /\ UNCHANGED <<frames, phase>>

Judge ==
    /\ Goto("judge", "zombie")
    /\ Validate \/ Sample
    /\ chunk' = "none"
    /\ UNCHANGED <<state, failures, running, handle, socket, cooled, ret, buffer>>

\* Variant: no zombie detection.
ZombieMissed ==
    /\ Goto("zombie", "tail")
    /\ UNCHANGED <<shared, ret, phase, frames, chunk, buffer>>

\* Zombie stream: nothing valid for healthTimeoutMs.
Zombie ==
    /\ IF stale THEN Goto("zombie", "close") /\ ret' = "tail"
                ELSE Goto("zombie", "tail") /\ UNCHANGED ret
    /\ UNCHANGED <<shared, phase, frames, chunk, buffer>>

\* The task's own disconnect().
TaskClose ==
    /\ Goto("close", "closed") /\ Write("close")
    /\ UNCHANGED <<ret, phase, frames, chunk, buffer>>

TaskClosed ==
    /\ pc = "closed" /\ pc' = ret /\ ret' = "off" /\ Write("disconnected")
    /\ UNCHANGED <<phase, frames, chunk, buffer>>

\* LOCKED_OUT idles; otherwise statistics are flushed.  Neither writes here.
EndLoop ==
    /\ Goto("tail", "top")
    /\ UNCHANGED <<shared, ret, phase, frames, chunk, buffer>>

\* Cleanup on exit: free the buffer, disconnect(), clear _taskHandle.
Exit ==
    /\ Goto("exit", "close") /\ ret' = "gone"
    /\ buffer' = FALSE
    /\ UNCHANGED <<shared, phase, frames, chunk>>

Gone ==
    /\ Goto("gone", "off")
    /\ handle' = FALSE
    /\ UNCHANGED <<state, healthy, failures, running, socket, cooled, ret, phase, frames, chunk, buffer>>

Task ==
    /\ \/ Judge
       \/ Fresh
       \/ /\ \/ Loop \/ Gate \/ Idle \/ GiveUp \/ Dial \/ Connect \/ Handshake
             \/ Won \/ Renew \/ Enter \/ Lost \/ Leave \/ Stream \/ Read \/ Zombie \/ TaskClose
             \/ TaskClosed \/ EndLoop \/ Exit \/ Gone
          /\ UNCHANGED stale
    /\ UNCHANGED <<ctl, caster>>

--------------------------------------------------------------------------------
(* Time and the network.                                                   *)

Cool ==
    /\ ~cooled /\ cooled' = TRUE
    /\ UNCHANGED <<state, healthy, failures, running, handle, socket, stale, local, ctl, caster>>

GoStale ==
    /\ ~stale /\ stale' = TRUE
    /\ UNCHANGED <<shared, local, ctl, caster>>

\* The peer, or the loss of WiFi, closes the socket.
Drop ==
    /\ socket /\ socket' = FALSE
    /\ UNCHANGED <<state, healthy, failures, running, handle, cooled, stale, local, ctl, caster>>

Caster ==
    /\ caster' \in {"up", "silent", "down"} \ {caster}
    /\ UNCHANGED <<shared, stale, local, ctl>>

Next ==
    \/ Task
    \/ \E m \in Calls : Call(m)
    \/ Control \/ Expire
    \/ Cool \/ GoStale \/ Drop \/ Caster

\* Both tasks are scheduled and time passes; calls, the network and the
\* expiry of stopTask()'s wait owe nothing.
Fairness == WF_vars(Task) /\ WF_vars(Control) /\ WF_vars(Cool) /\ WF_vars(GoStale)

Spec == Init /\ [][Next]_vars /\ Fairness

--------------------------------------------------------------------------------
(* Properties.                                                             *)

Pc == {"off", "top", "gate", "idle", "giveup", "dial", "connect", "handshake",
       "won", "fresh", "renew", "enter", "lost", "leave", "stream", "read", "judge", "zombie", "tail",
       "close", "closed", "exit", "gone"}
Op == {"close", "disconnected", "exhaust", "lock", "forgive", "unhealthy",
       "rewind", "halt", "launch", "join", "check", "load", "kill", "clear", "deleted"}

TypeOK ==
    /\ state \in State /\ healthy \in BOOLEAN
    /\ failures \in 0..MaxTries + 1
    /\ {running, handle, socket, cooled, stale, buffer} \subseteq BOOLEAN
    /\ pc \in Pc /\ ret \in {"off", "top", "tail", "gone"}
    /\ phase \in {"VALIDATION", "STREAMING"} /\ frames \in 0..Required
    /\ chunk \in {"none", "frame", "preamble", "noise"}
    /\ ctl \in Seq(Op)
    /\ caster \in {"up", "silent", "down"}

\* Whoever sees the client streaming and healthy sees a stream that delivered
\* Required valid frames over the connection taskLoop made it from, whatever
\* stop, reset, reconnect and a restart of the task did in between.  It says
\* nothing of a client that is not streaming: a stop() while a chunk is judged
\* leaves a client that is locked out, its socket closed, healthy.
HealthyIsValidated == state = "STREAMING" /\ healthy => frames >= Required

\* Handshakes are paced: none begins less than retryDelayMs after the previous
\* one began, unless reconnect() asked for it.
RetryPaced == [][pc' = "handshake" /\ pc # "handshake" => cooled]_vars

\* A task that stopTask() waits for ends, by itself or by vTaskDelete, from
\* wherever in taskLoop it stands and whatever the caster does.
StopTaskEndsTask == (ctl # <<>> /\ Head(ctl) = "join") ~> pc = "off"

\* Refinement: left alone, the client keeps the lifecycle's promise.  Where
\* the task has decided and not yet written _state, the decision counts.
Lifecycle == INSTANCE NtripLifecycle WITH
    state <- CASE pc \in {"fresh", "renew", "enter"} -> "STREAMING"
               [] pc = "leave" -> "DISCONNECTED"
               [] OTHER -> state

LifecycleSpec == Lifecycle!Spec

\* A running client that is not streaming ends up streaming or locked out.
OutageResolved ==
    (handle /\ running /\ state = "DISCONNECTED") ~> state \in {"STREAMING", "LOCKED_OUT"}

\* With no caster to reach, a running client locks out for good.
UnreachableLocksOut ==
    (<>[](caster = "down") /\ <>(handle /\ running)) => <>[](state = "LOCKED_OUT")

\* So every outage has an end, and a hopeless one the right end.
OutageEnds == OutageResolved /\ UnreachableLocksOut

\* Zombie detection: a stream that brings no more RTCM is not reported healthy
\* for ever.
SilenceIsNoticed == <>[](caster # "up") => <>[]~healthy

--------------------------------------------------------------------------------
(* What the documentation says and the code does not do.                   *)

\* NtripClient.cpp:290 "LOCKED_OUT: idle until user calls reset()/reconnect()":
\* only a control method takes the client out of lockout.
LockoutHolds ==
    [][state = "LOCKED_OUT" /\ state' # "LOCKED_OUT" => ctl' # ctl]_vars
================================================================================
