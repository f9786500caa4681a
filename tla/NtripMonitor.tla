------------------------------ MODULE NtripMonitor ------------------------------
(***************************************************************************)
(* The NTRIP service of the firmware: configMonitorTask starts, stops and  *)
(* reconfigures the client from what NVS says and what the internet probe  *)
(* sees, persists lockouts, and resets them after two minutes; the web UI  *)
(* posts configurations into the same NVS namespace; the device reboots.   *)
(*                                                                         *)
(* NtripClient models the client's own interleavings.  Here a control      *)
(* method is one step and so is a pass of taskLoop, except that a          *)
(* handshake takes time and ends by overwriting _state, as it does there.  *)
(* A configuration is its identity, which is also its hash; the empty one  *)
(* g_ntripCfg starts as is 0, and NoHash is the empty string.  A write of  *)
(* the namespace by the monitor is one step, one by the web UI two.        *)
(***************************************************************************)
EXTENDS Integers

CONSTANTS
    Ids,         \* configurations; 1 is the seeded one
    Refused,     \* those the web UI accepts and begin() refuses
    MaxTries,    \* max_tries
    MaxBlips,    \* bound: times the internet or the caster goes away
    MaxPosts,    \* bound: configurations posted
    MaxReboots   \* bound: reboots

ASSUME IdsAssumption == Ids \subseteq Nat \ {0} /\ 1 \in Ids /\ Refused \subseteq Ids
ASSUME MaxTriesAssumption == MaxTries \in Nat \ {0}
ASSUME BoundsAssumption == {MaxBlips, MaxPosts, MaxReboots} \subseteq Nat

VARIABLES
    \* NtripClient
    state, healthy, failures, running, alive, dialing,
    \* configMonitorTask: locals and the globals of ntrip_client.cpp
    mpc, reachable, wasConfigured, current, taskStarted, due,
    gCfg, gLock, logged, expired,
    \* NVS namespace "ntrip" and the web request in progress
    nvsCfg, nvsLock, wpc, wCfg, wLock,
    \* the world: internet access, the caster, and how often they bothered us
    internet, caster, blips, posts, reboots

client  == <<state, healthy, failures, running, alive, dialing>>
monitor == <<mpc, reachable, wasConfigured, current, taskStarted, due>>
lockout == <<logged, expired>>
ram     == <<gCfg, gLock>>
nvs     == <<nvsCfg, nvsLock>>
web     == <<wpc, wCfg, wLock>>
world   == <<internet, caster, blips, posts, reboots>>
vars    == <<client, monitor, lockout, ram, nvs, web, world>>

Config == [enabled : BOOLEAN, id : Ids \cup {0}]
NoHash == -1
Lockout == [abandoned : BOOLEAN, hash : Ids \cup {0, NoHash}]
Default == [enabled |-> FALSE, id |-> 0]
Clear(h) == [abandoned |-> FALSE, hash |-> h]
Abandon(h) == [abandoned |-> TRUE, hash |-> h]

\* RAM after a boot: no client task, nothing loaded yet.
Boot ==
    /\ state' = "DISCONNECTED" /\ healthy' = FALSE /\ failures' = 0
    /\ running' = FALSE /\ alive' = FALSE /\ dialing' = FALSE
    /\ mpc' = "probe" /\ reachable' = FALSE /\ wasConfigured' = FALSE
    /\ current' = 0 /\ taskStarted' = FALSE /\ due' = FALSE
    /\ gCfg' = Default /\ gLock' = Clear(NoHash)
    /\ logged' = FALSE /\ expired' = FALSE
    /\ wpc' = "idle" /\ wCfg' = Default /\ wLock' = Clear(NoHash)

Init ==
    /\ state = "DISCONNECTED" /\ healthy = FALSE /\ failures = 0
    /\ running = FALSE /\ alive = FALSE /\ dialing = FALSE
    /\ mpc = "probe" /\ reachable = FALSE /\ wasConfigured = FALSE
    /\ current = 0 /\ taskStarted = FALSE /\ due = FALSE
    /\ gCfg = Default /\ gLock = Clear(NoHash)
    /\ logged = FALSE /\ expired = FALSE
    /\ wpc = "idle" /\ wCfg = Default /\ wLock = Clear(NoHash)
    /\ nvsCfg \in [enabled : BOOLEAN, id : {1}] /\ nvsLock = Clear(NoHash)
    /\ internet \in BOOLEAN /\ caster = TRUE /\ blips = 0 /\ posts = 0 /\ reboots = 0

--------------------------------------------------------------------------------
(* The client.                                                             *)

\* stop(): disconnect(), failures = maxTries, LOCKED_OUT.
Stop ==
    /\ state' = "LOCKED_OUT" /\ healthy' = FALSE /\ failures' = MaxTries
    /\ UNCHANGED <<running, alive, dialing>>

TaskRuns == alive /\ running /\ ~dialing

\* Variants for mutation: no lockout; one try too few.
DialForever ==
    /\ TaskRuns /\ state = "DISCONNECTED"
    /\ state' = "CONNECTING" /\ dialing' = TRUE
    /\ UNCHANGED <<healthy, failures, running, alive>>

DialOneLess ==
    /\ TaskRuns /\ state = "DISCONNECTED" /\ failures + 1 < MaxTries
    /\ state' = "CONNECTING" /\ dialing' = TRUE
    /\ UNCHANGED <<healthy, failures, running, alive>>

Dial ==
    /\ TaskRuns /\ state = "DISCONNECTED" /\ failures < MaxTries
    /\ state' = "CONNECTING" /\ dialing' = TRUE
    /\ UNCHANGED <<healthy, failures, running, alive>>

GiveUp ==
    /\ TaskRuns /\ state = "DISCONNECTED" /\ failures >= MaxTries
    /\ state' = "LOCKED_OUT"
    /\ UNCHANGED <<healthy, failures, running, alive, dialing>>

\* The handshake ends and writes the state, whatever it has become meanwhile.
Reach == internet /\ caster

Connected ==
    /\ dialing /\ Reach
    /\ state' = "STREAMING" /\ dialing' = FALSE
    /\ failures' = 0 /\ healthy' = FALSE
    /\ UNCHANGED <<running, alive>>

Failed ==
    /\ dialing /\ ~Reach
    /\ state' = "DISCONNECTED" /\ dialing' = FALSE
    /\ failures' = failures + 1
    /\ UNCHANGED <<healthy, running, alive>>

Validated ==
    /\ TaskRuns /\ state = "STREAMING" /\ Reach /\ ~healthy
    /\ healthy' = TRUE
    /\ UNCHANGED <<state, failures, running, alive, dialing>>

\* The socket closes or the stream is a zombie.
Lose ==
    /\ TaskRuns /\ state = "STREAMING"
    /\ state' = "DISCONNECTED" /\ healthy' = FALSE
    /\ UNCHANGED <<failures, running, alive, dialing>>

\* while (_running) ends: disconnect(), _taskHandle = nullptr.
Exit ==
    /\ alive /\ ~running /\ ~dialing
    /\ state' = "DISCONNECTED" /\ healthy' = FALSE /\ alive' = FALSE
    /\ UNCHANGED <<failures, running, dialing>>

ClientTask ==
    /\ Dial \/ GiveUp \/ Connected \/ Failed \/ Validated \/ Lose \/ Exit
    /\ UNCHANGED <<monitor, ram, nvs, web, world, lockout>>

--------------------------------------------------------------------------------
(* configMonitorTask.                                                      *)

\* saveLockout: nothing if unchanged, else g_ntripCfg and the lockout to NVS.
SaveLockout(l) ==
    IF gLock = l THEN UNCHANGED <<gLock, nvs>>
    ELSE gLock' = l /\ nvsLock' = l /\ nvsCfg' = gCfg

\* The probe; losing the internet stops the client.  A config check that is
\* due is skipped, not postponed, while the internet is away.
Probe ==
    /\ mpc = "probe"
    /\ reachable' = internet
    /\ IF reachable /\ ~internet
       THEN Stop /\ wasConfigured' = FALSE
       ELSE UNCHANGED <<client, wasConfigured>>
    /\ mpc' = IF due /\ internet THEN "load" ELSE "lockout"
    /\ due' = FALSE
    /\ UNCHANGED <<current, taskStarted, ram, nvs, web, world, lockout>>

\* ntrip_config_load into g_ntripCfg and g_lockout.
Load ==
    /\ mpc = "load" /\ mpc' = "rehash"
    /\ gCfg' = nvsCfg /\ gLock' = nvsLock
    /\ UNCHANGED <<client, reachable, wasConfigured, current, taskStarted, due,
                   lockout, nvs, web, world>>

\* A configuration with a new hash starts with a clean lockout.
Rehash ==
    /\ mpc = "rehash" /\ mpc' = "apply"
    /\ IF gCfg.enabled /\ gLock.hash # gCfg.id
       THEN SaveLockout(Clear(gCfg.id))
       ELSE UNCHANGED <<gLock, nvs>>
    /\ UNCHANGED <<client, reachable, wasConfigured, current, taskStarted, due,
                   lockout, gCfg, web, world>>

ShouldRun == gCfg.enabled /\ ~gLock.abandoned

\* Start or restart (stop() now, begin() 500 ms later), stop, or carry on.
Apply ==
    /\ mpc = "apply"
    /\ \/ /\ ShouldRun /\ (~wasConfigured \/ gCfg.id # current)
          /\ Stop /\ mpc' = "begin" /\ UNCHANGED wasConfigured
       \/ /\ ~ShouldRun /\ wasConfigured
          /\ Stop /\ wasConfigured' = FALSE /\ mpc' = "lockout"
       \/ /\ ShouldRun => wasConfigured /\ gCfg.id = current
          /\ ~ShouldRun => ~wasConfigured
          /\ mpc' = IF wasConfigured THEN "sync" ELSE "lockout"
          /\ UNCHANGED <<client, wasConfigured>>
    /\ UNCHANGED <<reachable, current, taskStarted, due, ram, nvs, web, world,
                   lockout>>

\* begin() refused: nothing changed since stop().
BeginRefused ==
    /\ mpc = "begin" /\ gCfg.id \in Refused
    /\ mpc' = IF wasConfigured THEN "sync" ELSE "lockout"
    /\ UNCHANGED <<client, reachable, wasConfigured, current, taskStarted, due,
                   lockout, ram, nvs, web, world>>

\* begin() resets the client and clears _running; startTask() is called the
\* first time only, and its result is not looked at.
BeginOk ==
    /\ mpc = "begin" /\ gCfg.id \notin Refused /\ mpc' = "sync"
    /\ state' = "DISCONNECTED" /\ healthy' = FALSE /\ failures' = 0
    /\ current' = gCfg.id /\ wasConfigured' = TRUE
    /\ taskStarted' = TRUE
    /\ IF taskStarted THEN running' = FALSE /\ UNCHANGED alive
       ELSE \E created \in BOOLEAN : running' = created /\ alive' = created
    /\ UNCHANGED <<dialing, reachable, due, ram, nvs, web, world, lockout>>

\* syncLockoutWithClientState.
Sync ==
    /\ mpc = "sync" /\ mpc' = "lockout"
    /\ \/ state = "STREAMING" /\ healthy /\ gLock.abandoned
          /\ SaveLockout(Clear(gCfg.id))
       \/ state = "LOCKED_OUT" /\ ~gLock.abandoned
          /\ SaveLockout(Abandon(gCfg.id))
       \/ /\ ~(state = "STREAMING" /\ healthy /\ gLock.abandoned)
          /\ ~(state = "LOCKED_OUT" /\ ~gLock.abandoned)
          /\ UNCHANGED <<gLock, nvs>>
    /\ UNCHANGED <<client, reachable, wasConfigured, current, taskStarted, due,
                   lockout, gCfg, web, world>>

\* Variant: the two minutes start again at every pass.
SeeLockoutAgain ==
    /\ state = "LOCKED_OUT"
    /\ logged' = TRUE /\ expired' = FALSE
    /\ UNCHANGED <<client, ram, nvs>>

\* handleLockout: note when the lockout is first seen, reset it 120 s later.
SeeLockout ==
    /\ state = "LOCKED_OUT" /\ ~logged
    /\ logged' = TRUE /\ expired' = FALSE
    /\ UNCHANGED <<client, ram, nvs>>

\* Variant: reset() leaves the failures.
ResetKeepsFailures ==
    /\ state = "LOCKED_OUT" /\ logged /\ expired
    /\ logged' = FALSE
    /\ state' = "DISCONNECTED"
    /\ SaveLockout(Clear(gCfg.id))
    /\ UNCHANGED <<failures, healthy, running, alive, dialing, gCfg, expired>>

ResetLockout ==
    /\ state = "LOCKED_OUT" /\ logged /\ expired
    /\ logged' = FALSE
    /\ state' = "DISCONNECTED" /\ failures' = 0
    /\ SaveLockout(Clear(gCfg.id))
    /\ UNCHANGED <<healthy, running, alive, dialing, gCfg, expired>>

HandleLockout ==
    /\ mpc = "lockout" /\ mpc' = "probe"
    /\ \/ SeeLockout \/ ResetLockout
       \/ /\ state = "LOCKED_OUT" => logged /\ ~expired
          /\ UNCHANGED <<client, lockout, ram, nvs>>
    /\ UNCHANGED <<reachable, wasConfigured, current, taskStarted, due, web, world>>

Monitor == \/ Probe \/ Load \/ Rehash \/ Apply \/ BeginRefused \/ BeginOk
           \/ Sync \/ HandleLockout

\* 5 s since g_lastConfigCheck; 120 s since lockoutStart.
Due == ~due /\ due' = TRUE
       /\ UNCHANGED <<client, mpc, reachable, wasConfigured, current, taskStarted,
                      lockout, ram, nvs, web, world>>

Expire == logged /\ ~expired /\ expired' = TRUE
          /\ UNCHANGED <<client, monitor, logged, ram, nvs, web, world>>

--------------------------------------------------------------------------------
(* POST /ntrip: read the lockout to preserve it, write the configuration,  *)
(* write the lockout back.                                                 *)

Post ==
    /\ wpc = "idle" /\ posts < MaxPosts
    /\ posts' = posts + 1
    /\ wCfg' \in [enabled : BOOLEAN, id : Ids]
    /\ wLock' = nvsLock /\ wpc' = "config"
    /\ UNCHANGED <<client, monitor, lockout, ram, nvs, internet, caster, blips, reboots>>

PostConfig ==
    /\ wpc = "config" /\ wpc' = "lockout"
    /\ nvsCfg' = wCfg
    /\ UNCHANGED <<client, monitor, lockout, ram, nvsLock, wCfg, wLock, world>>

PostLockout ==
    /\ wpc = "lockout" /\ wpc' = "idle"
    /\ nvsLock' = wLock
    /\ wCfg' = Default /\ wLock' = Clear(NoHash)
    /\ UNCHANGED <<client, monitor, lockout, ram, nvsCfg, world>>

Web == PostConfig \/ PostLockout

--------------------------------------------------------------------------------
(* The world.                                                              *)

Internet ==
    /\ internet => blips < MaxBlips
    /\ internet' = ~internet
    /\ blips' = IF internet THEN blips + 1 ELSE blips
    /\ UNCHANGED <<client, monitor, lockout, ram, nvs, web, caster, posts, reboots>>

Caster ==
    /\ caster => blips < MaxBlips
    /\ caster' = ~caster
    /\ blips' = IF caster THEN blips + 1 ELSE blips
    /\ UNCHANGED <<client, monitor, lockout, ram, nvs, web, internet, posts, reboots>>

Reboot ==
    /\ reboots < MaxReboots /\ reboots' = reboots + 1
    /\ Boot
    /\ UNCHANGED <<nvs, internet, caster, blips, posts>>

Next == ClientTask \/ Monitor \/ Due \/ Expire \/ Post \/ Web \/ Internet \/ Caster
        \/ Reboot

\* Tasks are scheduled, time passes, a request in progress is served; a
\* handshake ends and a stream whose internet is gone is found out.
Fairness ==
    /\ WF_vars(Monitor) /\ WF_vars(Due) /\ WF_vars(Expire) /\ WF_vars(Web)
    /\ WF_vars(ClientTask /\ ~(Reach /\ state = "STREAMING" /\ healthy /\ running))

Spec == Init /\ [][Next]_vars /\ Fairness

--------------------------------------------------------------------------------
(* Properties.                                                             *)

TypeOK ==
    /\ state \in {"DISCONNECTED", "CONNECTING", "STREAMING", "LOCKED_OUT"}
    /\ failures \in 0..MaxTries + 1
    /\ {healthy, running, alive, dialing, reachable, wasConfigured, taskStarted,
        due, logged, expired, internet, caster} \subseteq BOOLEAN
    /\ mpc \in {"probe", "load", "rehash", "apply", "begin", "sync", "lockout"}
    /\ current \in Ids \cup {0}
    /\ {gCfg, nvsCfg, wCfg} \subseteq Config
    /\ {gLock, nvsLock, wLock} \subseteq Lockout
    /\ wpc \in {"idle", "config", "lockout"}
    /\ blips \in 0..MaxBlips /\ posts \in 0..MaxPosts /\ reboots \in 0..MaxReboots

\* The client leaves every lockout: whatever the network, the user and reboots do,
\* the auto-reset comes (handleLockout).
LockoutIsLeft == state = "LOCKED_OUT" ~> state # "LOCKED_OUT"

\* The auto-reset (handleLockout) also clears the lockout in NVS, as long as
\* the device stays up and nobody posts (a post writes an old lockout back).
LockoutClears == nvsLock.abandoned ~> (~nvsLock.abandoned \/ reboots + posts > 0)

\* A lockout ends: in the client always, in NVS while the device stays up and
\* nobody posts.
LockoutEnds == LockoutIsLeft /\ LockoutClears

\* A client that keeps running on an enabled configuration (not one that
\* begin() refuses) streams again and again once the internet and the caster
\* are there for good.
Accepted == nvsCfg.id \notin Refused

KeepsStreaming ==
    <>[](Reach /\ alive /\ running /\ nvsCfg.enabled /\ Accepted)
        => []<>(state = "STREAMING")

\* Flash wear: the monitor stops writing NVS once the world is quiet, unless
\* the posted configuration is one that begin() refuses.
NvsSettles == <>[](Reach /\ Accepted) => <>[][FALSE]_nvs

--------------------------------------------------------------------------------
(* What the documentation says and the code does not do.                   *)

\* docs/DIAGRAM.md:137 "starts/stops/reconfigures the NTRIP client": one that
\* ran once streams again and again, once internet and caster are there for
\* good and NVS enables it.
StreamsAgain ==
    (<>alive /\ <>[](Reach /\ nvsCfg.enabled)) => []<>(state = "STREAMING")
================================================================================
