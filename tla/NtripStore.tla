------------------------------- MODULE NtripStore -------------------------------
(***************************************************************************)
(* The "ntrip" namespace of NVS, key by key, under its two writers:        *)
(* POST /api/ntrip_config in the loop task and saveLockout in              *)
(* configMonitorTask, which also reads it key by key at every config check *)
(* and runs the client on what it has read.                                *)
(*                                                                         *)
(* NtripMonitor has the outages and the client's life; here a client is    *)
(* the configuration that begin() last took, whether it is locked out, and *)
(* whether its task lives: begin() refuses some of what the web UI         *)
(* accepts, and called again it ends the task, which nobody starts again.  *)
(* Fields that the code treats alike are one key: caster is host, port,    *)
(* mount, user, pass and max_tries (the six that configChanged compares),  *)
(* tuning is the seven after them (which are in the hash, too).  Of the    *)
(* number of failed attempts the model keeps whether there were any.       *)
(***************************************************************************)
EXTENDS Integers, Sequences

CONSTANTS
    Posts,           \* the configurations that are posted
    RefusedTunings,  \* those the web UI accepts and begin() refuses
    MaxPosts,        \* bound: requests
    MaxFaults        \* bound: reboots, power losses and puts that fail

\* The keys in the order in which ntrip_config_save puts them.
ConfigKeys  == <<"enabled", "caster", "tuning">>
LockoutKeys == <<"attempts", "abandoned", "hash">>
Keys == ConfigKeys \o LockoutKeys
Set(keys) == {keys[i] : i \in 1..Len(keys)}

Configs == [enabled : BOOLEAN, caster : Nat, tuning : Nat]

ASSUME PostsAssumption  == Posts \subseteq Configs
ASSUME RefusedAssumption == RefusedTunings \subseteq Nat
ASSUME BoundsAssumption == {MaxPosts, MaxFaults} \subseteq Nat

VARIABLES
    nvs,                   \* the stored keys
    \* the loop task: bootstrap, then requests
    wpc, wrec, wleft,      \* where it is, what it saves, the keys left to put
    \* configMonitorTask
    mpc, mleft, mafter,    \* where it is, keys left to read or put, pc after a save
    gCfg, gLock,           \* g_ntripCfg, g_lockout
    wasConfigured, current,
    client,                \* "off", "trying", "healthy", "locked"
    task, started,         \* "none", "runs" or "ending"; g_ntripTaskStarted
    posts, faults,
    \* history: the casters a client has been locked out on, those of a
    \* configuration that begin() refused and of the one it was to replace;
    \* the saves a reboot or a failure has torn, or a config check met
    earned, refused, torn, met

web     == <<wpc, wrec, wleft>>
monitor == <<mpc, mleft, mafter, gCfg, gLock, wasConfigured, current>>
library == <<task, started, refused>>
bounds  == <<posts, faults>>
hist    == <<earned, torn, met>>
vars    == <<nvs, web, monitor, client, library, bounds, hist>>

NoHash  == <<>>
Nothing == [enabled |-> FALSE, caster |-> 0, tuning |-> 0]
Lock(abandoned, hash) == [attempts |-> abandoned, abandoned |-> abandoned, hash |-> hash]
Clear   == Lock(FALSE, NoHash)

\* A configuration and a lockout as one record, the one that is saved.
With(c, lock) == [k \in Set(Keys) |-> IF k \in Set(ConfigKeys) THEN c[k] ELSE lock[k]]

\* nvs_set_* of one key.
Stored(k, v) == [j \in DOMAIN nvs \cup {k} |-> IF j = k THEN v ELSE nvs[j]]

\* All of the configuration but enabled.
configHash(c) == <<c.caster, c.tuning>>

\* ntrip_nvs_has_data
HasData == Set(Keys) \subseteq DOMAIN nvs
Loads   == Set(ConfigKeys) \subseteq DOMAIN nvs

StoredLockout ==
    [k \in Set(LockoutKeys) |-> IF k \in DOMAIN nvs THEN nvs[k] ELSE Clear[k]]

\* A new device, or one with a configuration and its hash from an earlier run.
Init ==
    /\ nvs \in {[k \in {} |-> 0]} \cup {With(c, Lock(FALSE, configHash(c))) : c \in Posts}
    /\ wpc = "boot" /\ wrec = With(Nothing, Clear) /\ wleft = <<>>
    /\ mpc = "off" /\ mleft = <<>> /\ mafter = "off"
    /\ gCfg = Nothing /\ gLock = Clear
    /\ wasConfigured = FALSE /\ current = 0 /\ client = "off"
    /\ task = "none" /\ started = FALSE /\ refused = {}
    /\ posts = 0 /\ faults = 0
    /\ earned = {} /\ torn = FALSE /\ met = FALSE

\* A request is being served while the monitor is in a config check.
Meeting == met' = (met \/ (wpc' \in {"preserve", "save"} /\ mpc' \notin {"off", "lockout"}))

--------------------------------------------------------------------------------
(* ntrip_config_save and the two that call it in the loop task.            *)

WebSave(rec, after) == wpc' = after /\ wrec' = rec /\ wleft' = Keys

\* Variant: the defaults are saved without a lockout to preserve.
SeedNoLockout ==
    /\ wpc = "boot" /\ ~HasData
    /\ wpc' = "seed" /\ wrec' = With(Nothing, Clear) /\ wleft' = ConfigKeys
    /\ UNCHANGED <<nvs, monitor, client, library, bounds, hist>>

\* config_bootstrap seeds the defaults unless every key is there.
Seed ==
    /\ wpc = "boot" /\ ~HasData
    /\ WebSave(With(Nothing, Clear), "seed")
    /\ UNCHANGED <<nvs, monitor, client, library, bounds, hist>>

\* Set-up is done: the monitor starts.
Start ==
    /\ \/ wpc = "boot" /\ HasData
       \/ wpc = "seed" /\ wleft = <<>>
    /\ wpc' = "idle" /\ wrec' = With(Nothing, Clear) /\ wleft' = <<>>
    /\ mpc' = "lockout"
    /\ UNCHANGED <<nvs, mleft, mafter, gCfg, gLock, wasConfigured, current, client,
                   library, bounds, hist>>

\* handleNtripConfigPost reads the lockout to preserve it, the flags and then the
\* hash, and nothing if a key of the configuration is missing.
Preserve(c) ==
    IF Loads THEN wpc' = "preserve" /\ wrec' = With(c, StoredLockout) /\ UNCHANGED wleft
             ELSE WebSave(With(c, Clear), "save")

\* Variant: the fields after the sixth are those stored already.
PostKeepsTuning ==
    /\ wpc = "idle" /\ posts < MaxPosts /\ posts' = posts + 1
    /\ \E c \in Posts : Preserve([c EXCEPT !.tuning = IF Loads THEN nvs.tuning ELSE @])
    /\ UNCHANGED <<nvs, monitor, client, library, faults, earned, torn>> /\ Meeting

Post ==
    /\ wpc = "idle" /\ posts < MaxPosts /\ posts' = posts + 1
    /\ \E c \in Posts : Preserve(c)
    /\ UNCHANGED <<nvs, monitor, client, library, faults, earned, torn>> /\ Meeting

PreserveHash ==
    /\ wpc = "preserve"
    /\ WebSave([wrec EXCEPT !.hash = StoredLockout.hash], "save")
    /\ UNCHANGED <<nvs, monitor, client, library, bounds, earned, torn>> /\ Meeting

WebPut ==
    /\ wpc \in {"seed", "save"} /\ wleft # <<>>
    /\ nvs' = Stored(Head(wleft), wrec[Head(wleft)])
    /\ wleft' = Tail(wleft)
    /\ UNCHANGED <<wpc, wrec, monitor, client, library, bounds, earned, torn>> /\ Meeting

\* The save is over: the request is answered.
Respond ==
    /\ wpc = "save" /\ wleft = <<>>
    /\ wpc' = "idle" /\ wrec' = With(Nothing, Clear)
    /\ UNCHANGED <<nvs, wleft, monitor, client, library, bounds, hist>>

\* A put fails and the save stops there.
WebPutFails ==
    /\ wpc \in {"seed", "save"} /\ wleft # <<>>
    /\ faults < MaxFaults /\ faults' = faults + 1
    /\ wleft' = <<>> /\ torn' = TRUE
    /\ UNCHANGED <<nvs, wpc, wrec, monitor, client, library, posts, earned, met>>

Web == Seed \/ Start \/ PreserveHash \/ WebPut \/ Respond

--------------------------------------------------------------------------------
(* configMonitorTask.                                                      *)

\* saveLockout: nothing if it is what g_lockout holds, else g_ntripCfg and the
\* lockout go to NVS; whether they got there is not looked at.
SaveLockout(lock, after) ==
    IF gLock = lock
    THEN mpc' = after /\ UNCHANGED <<mleft, mafter, gLock>>
    ELSE mpc' = "save" /\ mleft' = Keys /\ mafter' = after /\ gLock' = lock

MonitorPut ==
    /\ mpc = "save" /\ mleft # <<>>
    /\ nvs' = Stored(Head(mleft), With(gCfg, gLock)[Head(mleft)])
    /\ mleft' = Tail(mleft)
    /\ UNCHANGED <<web, mpc, mafter, gCfg, gLock, wasConfigured, current, client,
                   library, bounds, earned, torn>> /\ Meeting

MonitorSaved ==
    /\ mpc = "save" /\ mleft = <<>>
    /\ mpc' = mafter /\ mafter' = "off"
    /\ UNCHANGED <<nvs, web, mleft, gCfg, gLock, wasConfigured, current, client,
                   library, bounds, earned, torn>> /\ Meeting

MonitorPutFails ==
    /\ mpc = "save" /\ mleft # <<>>
    /\ faults < MaxFaults /\ faults' = faults + 1
    /\ mleft' = <<>> /\ torn' = TRUE
    /\ UNCHANGED <<nvs, web, mpc, mafter, gCfg, gLock, wasConfigured, current, client,
                   library, posts, earned, met>>

\* ntrip_config_load into g_ntripCfg and g_lockout, which stay as they are when
\* a key of the configuration is missing.
Load ==
    /\ mpc = "load"
    /\ IF Loads THEN mpc' = "read" /\ mleft' = Keys
                ELSE mpc' = "stop" /\ UNCHANGED mleft
    /\ UNCHANGED <<nvs, web, mafter, gCfg, gLock, wasConfigured, current, client,
                   library, bounds, earned, torn>> /\ Meeting

Read ==
    /\ mpc = "read" /\ mleft # <<>>
    /\ LET k == Head(mleft)
       IN  IF k \in Set(ConfigKeys)
           THEN gCfg' = [gCfg EXCEPT ![k] = nvs[k]] /\ UNCHANGED gLock
           ELSE gLock' = [gLock EXCEPT ![k] = StoredLockout[k]] /\ UNCHANGED gCfg
    /\ mleft' = Tail(mleft)
    /\ UNCHANGED <<nvs, web, mpc, mafter, wasConfigured, current, client,
                   library, bounds, earned, torn>> /\ Meeting

Loaded ==
    /\ mpc = "read" /\ mleft = <<>>
    /\ mpc' = IF gCfg.enabled THEN "rehash" ELSE "stop"
    /\ UNCHANGED <<nvs, web, mleft, mafter, gCfg, gLock, wasConfigured, current, client,
                   library, bounds, earned, torn>> /\ Meeting

\* Variant: only a lockout makes the hash worth a look.
RehashAbandoned ==
    /\ mpc = "rehash"
    /\ IF gLock.abandoned /\ configHash(gCfg) # gLock.hash
       THEN SaveLockout(Lock(FALSE, configHash(gCfg)), "start")
       ELSE /\ mpc' = IF gLock.abandoned THEN "stop" ELSE "start"
            /\ UNCHANGED <<mleft, mafter, gLock>>
    /\ UNCHANGED <<nvs, web, gCfg, wasConfigured, current, client, library, bounds,
                   earned, torn>>
    /\ Meeting

\* Variant: the new hash is saved, the flag is as it was.
RehashKeepsFlag ==
    /\ mpc = "rehash"
    /\ IF configHash(gCfg) # gLock.hash
       THEN SaveLockout(Lock(gLock.abandoned, configHash(gCfg)), "start")
       ELSE /\ mpc' = IF gLock.abandoned THEN "stop" ELSE "start"
            /\ UNCHANGED <<mleft, mafter, gLock>>
    /\ UNCHANGED <<nvs, web, gCfg, wasConfigured, current, client, library, bounds,
                   earned, torn>>
    /\ Meeting

\* A configuration with another hash than the lockout's clears it.
Rehash ==
    /\ mpc = "rehash"
    /\ IF configHash(gCfg) # gLock.hash
       THEN SaveLockout(Lock(FALSE, configHash(gCfg)), "start")
       ELSE /\ mpc' = IF gLock.abandoned THEN "stop" ELSE "start"
            /\ UNCHANGED <<mleft, mafter, gLock>>
    /\ UNCHANGED <<nvs, web, gCfg, wasConfigured, current, client, library, bounds,
                   earned, torn>>
    /\ Meeting

\* current is that part of currentConfig which is compared.
configChanged == gCfg.caster # current

RunsOnThis == wasConfigured /\ ~configChanged

\* begin() sets the client back and clears _running; startTask() is called after
\* the first one only, and its result is not looked at.
Begin ==
    /\ gCfg.tuning \notin RefusedTunings
    /\ wasConfigured' = TRUE /\ current' = gCfg.caster /\ client' = "trying"
    /\ started' = TRUE
    /\ IF started THEN task' = IF task = "runs" THEN "ending" ELSE task
                  ELSE task' \in {"none", "runs"}
    /\ mpc' = "sync"
    /\ UNCHANGED refused

\* begin() refuses: the client is as stop() has left it.
BeginRefuses ==
    /\ gCfg.tuning \in RefusedTunings
    /\ client' = "locked"
    /\ refused' = refused \cup {gCfg.caster, current}
    /\ mpc' = IF wasConfigured THEN "sync" ELSE "lockout"
    /\ UNCHANGED <<wasConfigured, current, task, started>>

\* The client is to run: stop() and begin(), unless it runs on this already.
StartClient ==
    /\ mpc = "start"
    /\ \/ /\ RunsOnThis /\ mpc' = "sync"
          /\ UNCHANGED <<wasConfigured, current, client, library>>
       \/ ~RunsOnThis /\ (Begin \/ BeginRefuses)
    /\ UNCHANGED <<nvs, web, mleft, mafter, gCfg, gLock, bounds, earned, torn>> /\ Meeting

\* The client is not to run: stop(), which leaves it LOCKED_OUT.
StopClient ==
    /\ mpc = "stop" /\ mpc' = "lockout"
    /\ wasConfigured' = FALSE
    /\ client' = IF wasConfigured THEN "locked" ELSE client
    /\ UNCHANGED <<nvs, web, mleft, mafter, gCfg, gLock, current, library, bounds, earned, torn>>
    /\ Meeting

\* syncLockoutWithClientState
Sync ==
    /\ mpc = "sync"
    /\ CASE client = "healthy" /\ (gLock.attempts \/ gLock.abandoned) ->
                SaveLockout(Lock(FALSE, configHash(gCfg)), "lockout")
         [] client = "locked" /\ ~gLock.abandoned ->
                SaveLockout(Lock(TRUE, configHash(gCfg)), "lockout")
         [] OTHER -> mpc' = "lockout" /\ UNCHANGED <<mleft, mafter, gLock>>
    /\ UNCHANGED <<nvs, web, gCfg, wasConfigured, current, client, library, bounds,
                   earned, torn>>
    /\ Meeting

\* handleLockout: after two minutes reset() and saveLockout, else nothing.
HandleLockout ==
    /\ mpc = "lockout"
    /\ \/ /\ client = "locked" /\ client' = "trying"
          /\ SaveLockout(Lock(FALSE, configHash(gCfg)), "load")
       \/ mpc' = "load" /\ UNCHANGED <<mleft, mafter, gLock, client>>
    /\ UNCHANGED <<nvs, web, gCfg, wasConfigured, current, library, bounds, earned, torn>> /\ Meeting

Monitor ==
    \/ MonitorPut \/ MonitorSaved \/ Load \/ Read \/ Loaded \/ Rehash
    \/ StartClient \/ StopClient \/ Sync \/ HandleLockout

--------------------------------------------------------------------------------
(* The client and the power supply.                                        *)

\* The task streams, loses the caster, or has failed max_tries times; its last
\* pass does not begin a dial.
Client ==
    /\ client \in {"trying", "healthy"} /\ task # "none"
    /\ client' \in {"trying", "healthy", "locked"} \ {client}
    /\ client' = "locked" => task = "runs"
    /\ earned' = IF client' = "locked" THEN earned \cup {current} ELSE earned
    /\ UNCHANGED <<nvs, web, monitor, library, bounds, torn, met>>

\* while (_running) is over: disconnect(), whatever the state was.
TaskEnds ==
    /\ task = "ending" /\ task' = "none" /\ client' = "trying"
    /\ UNCHANGED <<nvs, web, monitor, started, refused, bounds, hist>>

Reboot ==
    /\ faults < MaxFaults /\ faults' = faults + 1
    /\ wpc' = "boot" /\ wrec' = With(Nothing, Clear) /\ wleft' = <<>>
    /\ mpc' = "off" /\ mleft' = <<>> /\ mafter' = "off"
    /\ gCfg' = Nothing /\ gLock' = Clear
    /\ wasConfigured' = FALSE /\ current' = 0 /\ client' = "off"
    /\ task' = "none" /\ started' = FALSE
    /\ torn' = (torn \/ wleft # <<>> \/ (mpc = "save" /\ mleft # <<>>))
    /\ UNCHANGED <<nvs, refused, posts, earned, met>>

Next == Web \/ Post \/ WebPutFails \/ Monitor \/ MonitorPutFails
        \/ Client \/ TaskEnds \/ Reboot

\* Both tasks are scheduled.
Spec == Init /\ [][Next]_vars /\ WF_vars(Web) /\ WF_vars(Monitor)

--------------------------------------------------------------------------------
(* Properties.                                                             *)

Hashes == {NoHash} \cup (Nat \X Nat)
Lockouts == [attempts : BOOLEAN, abandoned : BOOLEAN, hash : Hashes]
Values(k) == CASE k \in {"caster", "tuning"} -> Nat
               [] k = "hash" -> Hashes
               [] OTHER -> BOOLEAN

TypeOK ==
    /\ DOMAIN nvs \subseteq Set(Keys) /\ \A k \in DOMAIN nvs : nvs[k] \in Values(k)
    /\ DOMAIN wrec = Set(Keys) /\ \A k \in Set(Keys) : wrec[k] \in Values(k)
    /\ gCfg \in Configs /\ gLock \in Lockouts
    /\ wpc \in {"boot", "seed", "idle", "preserve", "save"}
    /\ mpc \in {"off", "load", "read", "rehash", "start", "stop", "sync", "lockout", "save"}
    /\ mafter \in {"off", "start", "lockout", "load"}
    /\ (mpc # "off" /\ faults = 0) => HasData
    /\ wasConfigured \in BOOLEAN /\ current \in Nat
    /\ wasConfigured => client # "off"
    /\ client \in {"off", "trying", "healthy", "locked"}
    /\ task \in {"none", "runs", "ending"} /\ started \in BOOLEAN /\ refused \subseteq Nat
    /\ task # "none" => started
    /\ posts \in 0..MaxPosts /\ faults \in 0..MaxFaults
    /\ earned \subseteq Nat /\ torn \in BOOLEAN /\ met \in BOOLEAN

\* A lockout in NVS that keeps the client off is one that a client has earned on
\* this caster, or it comes from the stop() before a begin() that refused this
\* caster's configuration or the one that was to replace it: a new configuration
\* is not taken for abandoned because the POST that saves it preserves the old
\* lockout, nor because a save was torn.  (Unless a POST was saving during a config
\* check, whose put of the new hash can end up with the POST's put of the old flag;
\* or two saves were torn: one at the new hash, and one at the same place when the
\* client is locked out on it.)
LockoutIsEarned ==
    HasData /\ nvs.abandoned /\ nvs.hash = configHash(nvs) /\ ~met /\ faults <= 1
        => nvs.caster \in earned \cup refused

\* Between saves NVS has a configuration that somebody posted, or the defaults,
\* never parts of two, although saveLockout writes all of it again from what the
\* last config check has read.  (Unless a save was torn, or a config check met it:
\* the check reads parts of two and, as they have a new hash, saves them.)
WholeUnlessMet ==
    wpc = "idle" /\ mpc # "save" /\ ~torn /\ ~met =>
        [k \in Set(ConfigKeys) |-> nvs[k]] \in Posts \cup {Nothing}

\* Whatever posts, faults and meetings there were, the hash in NVS becomes and
\* stays that of the configuration in NVS, if that is enabled for good.
HashCatchesUp ==
    <>[](HasData /\ mpc # "off" /\ nvs.enabled) => <>[](HasData /\ nvs.hash = configHash(nvs))

\* And as long as the monitor has the client configured and begin() takes what is
\* stored, the last configuration that begin() took is, in the end, the stored one,
\* where configChanged can tell.  (Whether a task still runs on it is another
\* question: NtripMonitor's StreamsAgain.)
BeginsWhatIsStored ==
    <>[](HasData /\ nvs.enabled /\ nvs.tuning \notin RefusedTunings /\ wasConfigured)
        => <>[](HasData /\ current = nvs.caster)

\* The two writers settle: hash, stored and begun configuration agree in the end.
SettlesOnStored == HashCatchesUp /\ BeginsWhatIsStored
================================================================================
