--------------------------- MODULE NtripStore_proofs ---------------------------
(***************************************************************************)
(* Proofs about NtripStore for every set of posted configurations, every   *)
(* number of requests and every number of reboots and failed puts.         *)
(* Each of the two writers has put the keys before the ones it has left;   *)
(* as long as no POST met a config check, a writer is alone, so what it    *)
(* has put is in NVS still, and what the config check reads is what a      *)
(* whole save has left there.                                              *)
(***************************************************************************)
EXTENDS NtripStore, SequenceTheorems, TLAPS

--------------------------------------------------------------------------------
(* The invariant.                                                          *)

\* The keys that are left: the last Len(q) of Keys.
Left(q) ==
    /\ q \in Seq(Set(Keys)) /\ Len(q) <= 6
    /\ \A j \in 1..Len(q) : q[j] = Keys[6 - Len(q) + j]

\* The keys before q are stored, with the values of rec.
PutBefore(q) == \A j \in 1..6 - Len(q) : Keys[j] \in DOMAIN nvs
Done(q, rec) ==
    \A j \in 1..6 - Len(q) : Keys[j] \in DOMAIN nvs /\ nvs[Keys[j]] = rec[Keys[j]]

\* g_ntripCfg and g_lockout.
Record == With(gCfg, gLock)

\* f's configuration is one that was posted, or the defaults.
Whole(f) == [k \in Set(ConfigKeys) |-> f[k]] \in Posts \cup {Nothing}

\* The casters that a lockout can name.
Blamed == earned \cup refused

\* The two tasks' places agree with what they have left.
Places ==
    /\ Left(wleft) /\ Left(mleft)
    /\ wleft # <<>> => wpc \in {"seed", "save"}
    /\ mleft # <<>> => mpc \in {"read", "save"}
    /\ mpc = "off" <=> wpc \in {"boot", "seed"}
    /\ mpc = "save" => mafter # "off"
    /\ torn => faults > 0

\* Which keys are there: none is ever removed.
KeysThere ==
    /\ wpc \in {"seed", "save"} /\ (wleft # <<>> \/ ~torn) => PutBefore(wleft)
    /\ mpc = "save" /\ (mleft # <<>> \/ ~torn) => PutBefore(mleft)
    /\ mpc # "off" /\ ~torn => HasData
    /\ mpc = "read" => Loads

\* What the monitor holds between the steps of a config check.
MonitorHolds ==
    /\ mpc \in {"start", "sync", "save"} => gLock.hash = configHash(gCfg)
    /\ mpc = "sync" => wasConfigured /\ (current = gCfg.caster \/ gCfg.caster \in Blamed)
    /\ wasConfigured /\ client = "locked" => current \in Blamed
    /\ mpc = "save" /\ gLock.abandoned = TRUE => gCfg.caster \in Blamed
    /\ wpc = "seed" => wrec.abandoned = FALSE

\* Until a POST met a config check, it has the monitor wait in handleLockout.
WebAlone == ~met /\ wpc \in {"preserve", "save"} => mpc = "lockout"

\* Alone, a writer finds what it has put, and the check what it has read.
PutsStay ==
    ~met =>
        /\ wpc \in {"seed", "save"} /\ (wleft # <<>> \/ ~torn) => Done(wleft, wrec)
        /\ mpc = "save" /\ (mleft # <<>> \/ ~torn) => Done(mleft, Record)
        /\ mpc = "read" =>
               \A j \in 1..6 - Len(mleft) :
                   Record[Keys[j]] = With(nvs, StoredLockout)[Keys[j]]

\* The lockout that a POST preserves is the one in NVS.
Preserved ==
    ~met =>
        /\ mpc = "rehash" => gLock.hash = StoredLockout.hash
        /\ wpc = "preserve" => wrec.abandoned = StoredLockout.abandoned
        /\ wpc = "save" /\ wrec.abandoned = TRUE =>
               /\ StoredLockout.abandoned = TRUE
               /\ wrec.hash = StoredLockout.hash

\* Without a fault the new hash is stored before the client runs.
HashFirst ==
    ~met /\ faults = 0 =>
        /\ mpc \in {"start", "sync"} => StoredLockout.hash = gLock.hash
        /\ mpc = "save" /\ gLock.abandoned = TRUE => StoredLockout.hash = gLock.hash

\* Where the flag is stored, the hash is that of a caster it can name: the one
\* fault that can be tolerated is the one which kept the new hash out of NVS.
FlagEarned ==
    ~met /\ faults <= 1 /\ StoredLockout.abandoned = TRUE =>
        \/ StoredLockout.hash = NoHash
        \/ StoredLockout.hash[1] \in Blamed
        \/ mpc = "save" /\ gLock.abandoned = TRUE /\ faults = 1 /\ Len(mleft) = 1

\* All that is saved, held and stored is whole.
WholeParts ==
    ~met /\ ~torn =>
        /\ wpc \in {"seed", "preserve", "save"} => Whole(wrec)
        /\ mpc # "read" => Whole(gCfg)
        /\ HasData /\ wleft = <<>> /\ (mpc = "save" => mleft = <<>>) => Whole(nvs)

IInv ==
    /\ TypeOK /\ Places /\ KeysThere /\ MonitorHolds /\ WebAlone
    /\ PutsStay /\ Preserved /\ HashFirst /\ FlagEarned /\ WholeParts

--------------------------------------------------------------------------------
(* Keys and puts.                                                          *)

\* The keys by name and place.
LEMMA KeyFacts ==
    /\ Len(Keys) = 6 /\ Keys \in Seq(Set(Keys))
    /\ Keys[1] = "enabled" /\ Keys[2] = "caster" /\ Keys[3] = "tuning"
    /\ Keys[4] = "attempts" /\ Keys[5] = "abandoned" /\ Keys[6] = "hash"
    /\ Set(Keys) = {"enabled", "caster", "tuning", "attempts", "abandoned", "hash"}
    /\ Set(ConfigKeys) = {"enabled", "caster", "tuning"}
    /\ Set(LockoutKeys) = {"attempts", "abandoned", "hash"}
<1> DEFINE Names == {"enabled", "caster", "tuning", "attempts", "abandoned", "hash"}
<1>1. /\ ConfigKeys \in Seq(Names) /\ LockoutKeys \in Seq(Names)
      /\ Len(ConfigKeys) = 3 /\ Len(LockoutKeys) = 3
    BY DEF ConfigKeys, LockoutKeys
<1>2. Len(Keys) = 6 /\ 1..6 = {1, 2, 3, 4, 5, 6} /\ Keys \in Seq(Names)
    <2> HIDE DEF Names
    <2>1. Keys \in Seq(Names)
        BY <1>1 DEF Keys
    <2>2. Len(Keys) = Len(ConfigKeys) + Len(LockoutKeys)
        BY <1>1, ConcatProperties, Zenon DEF Keys
    <2>3. 3 + 3 = 6 /\ 1..6 = {1, 2, 3, 4, 5, 6}
      OBVIOUS
    <2> QED BY <1>1, <2>1, <2>2, <2>3
<1>3. Set(Keys) = {Keys[1], Keys[2], Keys[3], Keys[4], Keys[5], Keys[6]}
    BY <1>2 DEF Set
<1>4. 1..3 = {1, 2, 3}
  OBVIOUS
<1>5. Set(ConfigKeys) = {ConfigKeys[1], ConfigKeys[2], ConfigKeys[3]}
    BY <1>1, <1>4 DEF Set
<1>6. Set(LockoutKeys) = {LockoutKeys[1], LockoutKeys[2], LockoutKeys[3]}
    BY <1>1, <1>4 DEF Set
<1>7. Keys[1] = "enabled" /\ Keys[2] = "caster" /\ Keys[3] = "tuning"
      /\ Keys[4] = "attempts" /\ Keys[5] = "abandoned" /\ Keys[6] = "hash"
    BY <1>1 DEF Keys, ConfigKeys, LockoutKeys
<1>8. Set(Keys) = {"enabled", "caster", "tuning", "attempts", "abandoned", "hash"}
    BY <1>3, <1>7
<1>9. Keys \in Seq(Set(Keys))
    BY <1>2, <1>8
<1> QED BY <1>2, <1>5, <1>6, <1>7, <1>8, <1>9 DEF ConfigKeys, LockoutKeys

\* The first of the keys left, and what is left then.
LEMMA LeftHead ==
    ASSUME NEW q, Left(q), q # <<>>
    PROVE  /\ Len(q) \in 1..6 /\ Head(q) = Keys[7 - Len(q)] /\ Head(q) \in Set(Keys)
           /\ Left(Tail(q)) /\ Len(Tail(q)) = Len(q) - 1
<1>1. q \in Seq(Set(Keys)) /\ Len(q) \in 1..6 /\ Len(q) - 1 <= 6
    <2>1. q \in Seq(Set(Keys)) /\ Len(q) \in Nat /\ Len(q) <= 6
        BY DEF Left
    <2>2. Len(q) # 0
        BY <2>1, EmptySeq
    <2>3. \A n \in Nat : n <= 6 /\ n # 0 => n \in 1..6 /\ n - 1 <= 6
        OBVIOUS
    <2> QED BY <2>1, <2>2, <2>3, Zenon
<1>2. Head(q) = q[1] /\ q[1] = Keys[7 - Len(q)] /\ Head(q) \in Set(Keys)
    BY <1>1 DEF Left
<1>3. /\ Tail(q) \in Seq(Set(Keys)) /\ Len(Tail(q)) = Len(q) - 1
      /\ \A j \in 1..Len(q) - 1 : Tail(q)[j] = q[j + 1]
    BY <1>1
<1>4. ASSUME NEW j \in 1..Len(q) - 1
      PROVE  Tail(q)[j] = Keys[6 - (Len(q) - 1) + j]
    <2>1. j + 1 \in 1..Len(q) /\ 6 - Len(q) + (j + 1) = 6 - (Len(q) - 1) + j
        BY <1>1
    <2> QED BY <1>3, <2>1 DEF Left
<1>5. Left(Tail(q))
    BY <1>1, <1>3, <1>4, Zenon DEF Left
<1> QED BY <1>1, <1>2, <1>3, <1>5

\* All of the keys, and none of them.
LEMMA LeftEnds ==
    /\ Left(Keys) /\ Left(<<>>) /\ Len(Keys) = 6 /\ Len(<<>>) = 0 /\ Keys # <<>>
<1>1. \A j \in 1..6 : 6 - 6 + j = j
  OBVIOUS
<1>2. Left(Keys)
    BY <1>1, KeyFacts DEF Left
<1>3. <<>> \in Seq(Set(Keys)) /\ Len(<<>>) = 0 /\ 1..0 = {}
  OBVIOUS
<1>4. Left(<<>>)
    BY <1>3 DEF Left
<1>5. Keys # <<>>
    <2>1. 6 # 0
      OBVIOUS
    <2> QED BY <1>3, <2>1, KeyFacts, Zenon
<1> QED BY <1>2, <1>3, <1>4, <1>5, KeyFacts

\* A put stores one key and leaves the others.
LEMMA PutKey ==
    ASSUME NEW q, Left(q), q # <<>>, NEW rec,
           nvs' = Stored(Head(q), rec[Head(q)])
    PROVE  /\ DOMAIN nvs' = DOMAIN nvs \cup {Head(q)}
           /\ nvs'[Head(q)] = rec[Head(q)]
           /\ \A k \in DOMAIN nvs : k # Head(q) => nvs'[k] = nvs[k]
           /\ PutBefore(q) =>
                  \A j \in 1..6 - Len(Tail(q)) : Keys[j] \in DOMAIN nvs'
<1>1. /\ DOMAIN nvs' = DOMAIN nvs \cup {Head(q)}
      /\ \A k \in DOMAIN nvs' : nvs'[k] = IF k = Head(q) THEN rec[Head(q)] ELSE nvs[k]
    BY DEF Stored
<1>2. ASSUME PutBefore(q), NEW j \in 1..6 - Len(Tail(q))
      PROVE  Keys[j] \in DOMAIN nvs'
    <2>1. j \in 1..6 - Len(q) \/ Keys[j] = Head(q)
        BY LeftHead
    <2> QED BY <1>1, <1>2, <2>1 DEF PutBefore
<1> QED BY <1>1, <1>2

\* What was done stays done, and one more key is.
LEMMA PutDone ==
    ASSUME NEW q, Left(q), q # <<>>, NEW rec,
           nvs' = Stored(Head(q), rec[Head(q)]), Done(q, rec)
    PROVE  \A j \in 1..6 - Len(Tail(q)) :
               Keys[j] \in DOMAIN nvs' /\ nvs'[Keys[j]] = rec[Keys[j]]
<1>1. /\ DOMAIN nvs' = DOMAIN nvs \cup {Head(q)}
      /\ \A k \in DOMAIN nvs' : nvs'[k] = IF k = Head(q) THEN rec[Head(q)] ELSE nvs[k]
    BY DEF Stored
<1>2. ASSUME NEW j \in 1..6 - Len(Tail(q))
      PROVE  Keys[j] \in DOMAIN nvs' /\ nvs'[Keys[j]] = rec[Keys[j]]
    <2>1. j \in 1..6 - Len(q) \/ Keys[j] = Head(q)
        BY LeftHead
    <2> QED BY <1>1, <2>1 DEF Done
<1> QED BY <1>2

\* What stays when NVS does.
LEMMA NvsStays ==
    ASSUME nvs' = nvs
    PROVE  /\ HasData' = HasData /\ Loads' = Loads /\ StoredLockout' = StoredLockout
           /\ With(nvs, StoredLockout)' = With(nvs, StoredLockout)
           /\ Whole(nvs)' = Whole(nvs)
BY DEF HasData, Loads, StoredLockout, With, Whole

\* When every key is there, and when those of the configuration are.
LEMMA AllKeys ==
    /\ HasData <=> \A j \in 1..6 : Keys[j] \in DOMAIN nvs
    /\ PutBefore(<<>>) => HasData
    /\ HasData => Loads
    /\ Loads <=> {"enabled", "caster", "tuning"} \subseteq DOMAIN nvs
<1>1. Set(Keys) = {Keys[j] : j \in 1..6}
    BY KeyFacts DEF Set
<1>2. HasData <=> \A j \in 1..6 : Keys[j] \in DOMAIN nvs
    BY <1>1 DEF HasData
<1>3. PutBefore(<<>>) => HasData
    <2>1. Len(<<>>) = 0 /\ 6 - 0 = 6
      OBVIOUS
    <2> QED BY <1>2, <2>1 DEF PutBefore
<1>4. /\ HasData => Loads
      /\ Loads <=> {"enabled", "caster", "tuning"} \subseteq DOMAIN nvs
    BY KeyFacts DEF HasData, Loads
<1> QED BY <1>2, <1>3, <1>4

\* A record is the configuration and the lockout that it was made from.
LEMMA WithFacts ==
    ASSUME NEW c, NEW lock
    PROVE  /\ DOMAIN With(c, lock) = Set(Keys)
           /\ With(c, lock).enabled = c.enabled /\ With(c, lock).caster = c.caster
           /\ With(c, lock).tuning = c.tuning /\ With(c, lock).attempts = lock.attempts
           /\ With(c, lock).abandoned = lock.abandoned /\ With(c, lock).hash = lock.hash
<1>1. With(c, lock) = [k \in {"enabled", "caster", "tuning", "attempts", "abandoned", "hash"} |->
                          IF k \in {"enabled", "caster", "tuning"} THEN c[k] ELSE lock[k]]
    BY KeyFacts DEF With
<1> QED BY <1>1, KeyFacts

\* What the lockout in NVS is, key by key.
LEMMA StoredFacts ==
    /\ StoredLockout.abandoned = IF "abandoned" \in DOMAIN nvs THEN nvs.abandoned ELSE FALSE
    /\ StoredLockout.hash = IF "hash" \in DOMAIN nvs THEN nvs.hash ELSE NoHash
<1>1. StoredLockout = [k \in {"attempts", "abandoned", "hash"} |->
                          IF k \in DOMAIN nvs THEN nvs[k] ELSE Clear[k]]
    BY KeyFacts DEF StoredLockout
<1>2. Clear.abandoned = FALSE /\ Clear.hash = NoHash
    BY DEF Clear, Lock
<1> QED BY <1>1, <1>2

--------------------------------------------------------------------------------
(* Types.                                                                  *)

\* The values of a key.
LEMMA ValueFacts ==
    /\ Values("enabled") = BOOLEAN /\ Values("caster") = Nat /\ Values("tuning") = Nat
    /\ Values("attempts") = BOOLEAN /\ Values("abandoned") = BOOLEAN
    /\ Values("hash") = Hashes
BY DEF Values

\* Lockouts, and the defaults.
LEMMA LockTyped ==
    /\ \A b \in BOOLEAN, h \in Hashes : Lock(b, h) \in Lockouts
    /\ \A b, h : Lock(b, h).abandoned = b /\ Lock(b, h).hash = h
    /\ Clear \in Lockouts /\ Clear = Lock(FALSE, NoHash) /\ NoHash \in Hashes
    /\ Nothing \in Configs
    /\ \A c \in Configs : configHash(c) \in Hashes
<1>1. NoHash \in Hashes
    BY DEF Hashes
<1>2. \A b \in BOOLEAN, h \in Hashes : Lock(b, h) \in Lockouts
    BY DEF Lock, Lockouts
<1>3. Clear \in Lockouts /\ Clear = Lock(FALSE, NoHash)
    BY <1>1, <1>2 DEF Clear
<1>4. Nothing \in Configs
    BY DEF Nothing, Configs
<1>5. \A c \in Configs : configHash(c) \in Hashes
    BY DEF Configs, configHash, Hashes
<1>6. \A b, h : Lock(b, h).abandoned = b /\ Lock(b, h).hash = h
    BY DEF Lock
<1> QED BY <1>1, <1>2, <1>3, <1>4, <1>5, <1>6

\* The keys of what is saved have their values.
LEMMA WithTyped ==
    ASSUME NEW c \in Configs, NEW lock \in Lockouts
    PROVE  \A k \in Set(Keys) : With(c, lock)[k] \in Values(k)
<1>1. c.enabled \in BOOLEAN /\ c.caster \in Nat /\ c.tuning \in Nat
    BY DEF Configs
<1>2. lock.attempts \in BOOLEAN /\ lock.abandoned \in BOOLEAN /\ lock.hash \in Hashes
    BY DEF Lockouts
<1> QED BY <1>1, <1>2, WithFacts, KeyFacts, ValueFacts

\* So has the lockout that NVS gives.
LEMMA StoredTyped ==
    ASSUME TypeOK
    PROVE  StoredLockout \in Lockouts
<1>1. StoredLockout = [k \in {"attempts", "abandoned", "hash"} |->
                          IF k \in DOMAIN nvs THEN nvs[k] ELSE Clear[k]]
    BY KeyFacts DEF StoredLockout
<1>2. Clear.attempts \in BOOLEAN /\ Clear.abandoned \in BOOLEAN /\ Clear.hash \in Hashes
    BY LockTyped DEF Lockouts
<1>3. \A k \in {"attempts", "abandoned", "hash"} : StoredLockout[k] \in Values(k)
    BY <1>1, <1>2, ValueFacts DEF TypeOK
<1> QED BY <1>1, <1>3, ValueFacts DEF Lockouts

\* And the store after a put.
LEMMA PutTyped ==
    ASSUME TypeOK, NEW k \in Set(Keys), NEW v \in Values(k), nvs' = Stored(k, v)
    PROVE  DOMAIN nvs' \subseteq Set(Keys) /\ \A j \in DOMAIN nvs' : nvs'[j] \in Values(j)
BY DEF TypeOK, Stored

\* A new device and one with a configuration from an earlier run are typed.
LEMMA InitTyped ==
    ASSUME Init
    PROVE  TypeOK
<1>1. DOMAIN nvs \subseteq Set(Keys) /\ \A k \in DOMAIN nvs : nvs[k] \in Values(k)
    <2>1. CASE nvs = [k \in {} |-> 0]
        BY <2>1
    <2>2. CASE \E c \in Posts : nvs = With(c, Lock(FALSE, configHash(c)))
        <3>1. PICK c \in Posts : nvs = With(c, Lock(FALSE, configHash(c)))
            BY <2>2
        <3>2. c \in Configs /\ Lock(FALSE, configHash(c)) \in Lockouts
            BY PostsAssumption, LockTyped
        <3>3. DOMAIN nvs = Set(Keys)
            BY <3>1, WithFacts
        <3>4. \A k \in Set(Keys) : nvs[k] \in Values(k)
            BY <3>1, <3>2, WithTyped, Zenon
        <3> QED BY <3>3, <3>4
    <2>3. nvs \in {[k \in {} |-> 0]} \cup {With(c, Lock(FALSE, configHash(c))) : c \in Posts}
        BY DEF Init
    <2> QED BY <2>1, <2>2, <2>3
<1>2. DOMAIN wrec = Set(Keys) /\ \A k \in Set(Keys) : wrec[k] \in Values(k)
    BY LockTyped, WithTyped, WithFacts DEF Init
<1>3. gCfg \in Configs /\ gLock \in Lockouts
    BY LockTyped DEF Init
<1>4. posts \in 0..MaxPosts /\ faults \in 0..MaxFaults
    BY BoundsAssumption DEF Init
<1>5. /\ wpc = "boot" /\ mpc = "off" /\ mafter = "off" /\ client = "off"
      /\ wasConfigured = FALSE /\ current \in Nat
      /\ earned \subseteq Nat /\ torn \in BOOLEAN /\ met \in BOOLEAN
      /\ task = "none" /\ started = FALSE /\ refused \subseteq Nat
    BY DEF Init
<1> QED BY <1>1, <1>2, <1>3, <1>4, <1>5 DEF TypeOK

\* How a step can take place.
LEMMA Actions ==
    ASSUME [Next]_vars
    PROVE  \/ Seed \/ Start \/ PreserveHash \/ WebPut \/ Respond
           \/ Post \/ WebPutFails \/ MonitorPut \/ MonitorSaved \/ Load \/ Read \/ Loaded
           \/ Rehash \/ StartClient \/ StopClient \/ Sync \/ HandleLockout
           \/ MonitorPutFails \/ Client \/ TaskEnds \/ Reboot
           \/ UNCHANGED vars
BY DEF Next, Web, Monitor

\* A save of the monitor changes its place and its lockout only.
LEMMA SaveLockoutTyped ==
    ASSUME TypeOK, NEW b \in BOOLEAN, NEW after \in {"start", "lockout", "load"},
           SaveLockout(Lock(b, configHash(gCfg)), after)
    PROVE  /\ gLock' \in Lockouts
           /\ mafter' \in {"off", "start", "lockout", "load"}
           /\ mpc' \in {"start", "lockout", "load", "save"}
<1>1. Lock(b, configHash(gCfg)) \in Lockouts
    BY LockTyped DEF TypeOK
<1>2. gLock' \in Lockouts
    BY <1>1 DEF SaveLockout, TypeOK
<1> QED BY <1>2 DEF SaveLockout, TypeOK

\* The type invariant goes through every step.
LEMMA TypeStep ==
    ASSUME TypeOK, Places, KeysThere, Places', KeysThere', [Next]_vars
    PROVE  TypeOK'
<1> USE DEF web, monitor, library, bounds, hist, Begin, BeginRefuses
<1> DEFINE NvsTyped == DOMAIN nvs \subseteq Set(Keys) /\ \A k \in DOMAIN nvs : nvs[k] \in Values(k)
           RecTyped == DOMAIN wrec = Set(Keys) /\ \A k \in Set(Keys) : wrec[k] \in Values(k)
           HeldTyped == gCfg \in Configs /\ gLock \in Lockouts
           PlacesTyped ==
               /\ wpc \in {"boot", "seed", "idle", "preserve", "save"}
               /\ mpc \in {"off", "load", "read", "rehash", "start", "stop", "sync", "lockout", "save"}
               /\ mafter \in {"off", "start", "lockout", "load"}
           ClientTyped ==
               /\ wasConfigured \in BOOLEAN /\ current \in Nat
               /\ wasConfigured => client # "off"
               /\ client \in {"off", "trying", "healthy", "locked"}
           BoundsTyped == posts \in 0..MaxPosts /\ faults \in 0..MaxFaults
           LibraryTyped ==
               /\ task \in {"none", "runs", "ending"} /\ started \in BOOLEAN
               /\ refused \subseteq Nat /\ (task # "none" => started)
           HistTyped == earned \subseteq Nat /\ torn \in BOOLEAN /\ met \in BOOLEAN
           KeysTyped == mpc # "off" /\ faults = 0 => HasData
<1>a. NvsTyped /\ RecTyped /\ HeldTyped /\ PlacesTyped /\ ClientTyped /\ BoundsTyped /\ HistTyped
      /\ KeysTyped /\ LibraryTyped
    BY DEF TypeOK
<1>b. RecTyped' <=> /\ DOMAIN wrec' = Set(Keys)
                    /\ \A k \in Set(Keys) : wrec'[k] \in Values(k)
  OBVIOUS
<1>1. NvsTyped'
    <2>1. CASE nvs' = nvs
        BY <1>a, <2>1
    <2>2. CASE WebPut
        <3>1. Head(wleft) \in Set(Keys) /\ wrec[Head(wleft)] \in Values(Head(wleft))
            BY <1>a, <2>2, LeftHead DEF WebPut, Places
        <3> QED BY <2>2, <3>1, PutTyped DEF WebPut
    <2>3. CASE MonitorPut
        <3>1. Head(mleft) \in Set(Keys)
            BY <2>3, LeftHead DEF MonitorPut, Places
        <3>2. With(gCfg, gLock)[Head(mleft)] \in Values(Head(mleft))
            BY <1>a, <3>1, WithTyped
        <3> QED BY <2>3, <3>1, <3>2, PutTyped DEF MonitorPut
    <2> QED BY <2>1, <2>2, <2>3, Actions
            DEF Seed, Start, PreserveHash, Respond, Post, WebPutFails, MonitorSaved, Load,
                Read, Loaded, Rehash, StartClient, StopClient, Sync, HandleLockout,
                MonitorPutFails, Client, TaskEnds, Reboot, vars
<1>2. RecTyped'
    <2>1. CASE wrec' = wrec
        BY <1>a, <2>1
    <2>2. CASE wrec' = With(Nothing, Clear)
        BY <2>2, <1>b, LockTyped, WithTyped, WithFacts
    <2>3. CASE Post
        <3>1. PICK c \in Posts : Preserve(c)
            BY <2>3 DEF Post
        <3>2. wrec' = With(c, StoredLockout) \/ wrec' = With(c, Clear)
            BY <3>1 DEF Preserve, WebSave
        <3>3. c \in Configs /\ StoredLockout \in Lockouts /\ Clear \in Lockouts
            BY PostsAssumption, StoredTyped, LockTyped
        <3> QED BY <1>b, <3>2, <3>3, WithTyped, WithFacts
    <2>4. CASE PreserveHash
        <3>1. wrec' = [wrec EXCEPT !.hash = StoredLockout.hash]
            BY <2>4 DEF PreserveHash, WebSave
        <3>2. StoredLockout.hash \in Hashes
            BY StoredTyped DEF Lockouts
        <3> QED BY <1>a, <1>b, <3>1, <3>2, ValueFacts
    <2> QED BY <2>1, <2>2, <2>3, <2>4, Actions
            DEF Seed, WebSave, Start, WebPut, Respond, WebPutFails, MonitorPut, MonitorSaved, Load,
                Read, Loaded, Rehash, StartClient, StopClient, Sync, HandleLockout,
                MonitorPutFails, Client, TaskEnds, Reboot, vars
<1> HIDE DEF NvsTyped, RecTyped, KeysTyped
<1>3. HeldTyped' /\ PlacesTyped'
    <2>1. CASE Seed \/ Start \/ PreserveHash \/ WebPut \/ Respond \/ WebPutFails
        BY <1>a, <2>1 DEF Seed, WebSave, Start, PreserveHash, WebPut, Respond, WebPutFails
    <2>2. CASE Post
        BY <1>a, <2>2 DEF Post, Preserve, WebSave
    <2>3. CASE MonitorPut \/ MonitorSaved \/ MonitorPutFails \/ Load \/ Loaded
               \/ StartClient \/ StopClient \/ Client \/ TaskEnds
        BY <1>a, <2>3 DEF MonitorPut, MonitorSaved, MonitorPutFails, Load, Loaded,
                          StartClient, StopClient, Client, TaskEnds
    <2>4. CASE Read
        <3>1. PlacesTyped'
            BY <1>a, <2>4 DEF Read
        <3>2. HeldTyped'
            <4> DEFINE k == Head(mleft)
            <4>1. k \in Set(Keys)
                BY <2>4, LeftHead DEF Read, Places
            <4>2. CASE k \in Set(ConfigKeys)
                <5>1. nvs[k] \in Values(k)
                    BY <1>a, <2>4, <4>2 DEF NvsTyped, Read, KeysThere, Loads
                <5>2. gCfg' = [gCfg EXCEPT ![k] = nvs[k]] /\ gLock' = gLock
                    BY <2>4, <4>2 DEF Read
                <5> QED BY <1>a, <4>2, <5>1, <5>2, KeyFacts, ValueFacts DEF Configs
            <4>3. CASE k \notin Set(ConfigKeys)
                <5>1. k \in {"attempts", "abandoned", "hash"}
                    BY <4>1, <4>3, KeyFacts
                <5>2. StoredLockout[k] \in Values(k)
                    BY <5>1, StoredTyped, ValueFacts DEF Lockouts
                <5>3. gLock' = [gLock EXCEPT ![k] = StoredLockout[k]] /\ gCfg' = gCfg
                    BY <2>4, <4>3 DEF Read
                <5> QED BY <1>a, <5>1, <5>2, <5>3, ValueFacts DEF Lockouts
            <4> QED BY <4>2, <4>3
        <3> QED BY <3>1, <3>2
    <2>5. CASE Rehash
        BY <1>a, <2>5, SaveLockoutTyped DEF Rehash
    <2>6. CASE Sync
        BY <1>a, <2>6, SaveLockoutTyped DEF Sync
    <2>7. CASE HandleLockout
        BY <1>a, <2>7, SaveLockoutTyped DEF HandleLockout
    <2>8. CASE Reboot
        BY <2>8, LockTyped DEF Reboot
    <2>9. CASE UNCHANGED vars
        BY <1>a, <2>9 DEF vars
    <2> QED BY <2>1, <2>2, <2>3, <2>4, <2>5, <2>6, <2>7, <2>8, <2>9, Actions
<1> HIDE DEF HeldTyped, PlacesTyped
<1>4. ClientTyped'
    <2>1. CASE UNCHANGED <<wasConfigured, current, client>>
        BY <1>a, <2>1
    <2>2. CASE StartClient
        <3>1. gCfg.caster \in Nat
            BY <1>a DEF HeldTyped, Configs
        <3>2. \/ wasConfigured' = TRUE /\ current' = gCfg.caster /\ client' = "trying"
              \/ wasConfigured' = wasConfigured /\ current' = current /\ client' = "locked"
              \/ UNCHANGED <<wasConfigured, current, client>>
            BY <2>2, Zenon DEF StartClient
        <3>3. CASE wasConfigured' = TRUE /\ current' = gCfg.caster /\ client' = "trying"
            BY <3>1, <3>3
        <3>4. CASE client' = "locked" /\ UNCHANGED <<wasConfigured, current>>
            BY <1>a, <3>4, Zenon
        <3>5. CASE UNCHANGED <<wasConfigured, current, client>>
            BY <1>a, <3>5
        <3> QED BY <3>2, <3>3, <3>4, <3>5, Zenon
    <2>3. CASE StopClient
        BY <1>a, <2>3 DEF StopClient
    <2>4. CASE HandleLockout
        <3>1. /\ wasConfigured' = wasConfigured /\ current' = current
              /\ client' \in {client, "trying"}
            BY <2>4 DEF HandleLockout
        <3> QED BY <1>a, <3>1
    <2>5. CASE Client
        <3>1. wasConfigured' = wasConfigured /\ current' = current
            BY <2>5 DEF Client
        <3>2. client' \in {"trying", "healthy", "locked"}
            BY <2>5 DEF Client
        <3> QED BY <1>a, <3>1, <3>2
    <2>6. CASE TaskEnds
        BY <1>a, <2>6, Zenon DEF TaskEnds
    <2>7. CASE Reboot
        BY <2>7 DEF Reboot
    <2> QED BY <2>1, <2>2, <2>3, <2>4, <2>5, <2>6, <2>7, Actions
            DEF Seed, Start, PreserveHash, WebPut, Respond, Post, WebPutFails, MonitorPut,
                MonitorSaved, MonitorPutFails, Load, Read, Loaded, Rehash, Sync, vars
<1>8. LibraryTyped'
    <2>1. CASE UNCHANGED library
        BY <1>a, <2>1
    <2>2. CASE StartClient
        <3>1. gCfg.caster \in Nat /\ current \in Nat
            BY <1>a DEF HeldTyped, Configs
        <3>2. \/ UNCHANGED library
              \/ UNCHANGED <<task, started>> /\ refused' = refused \cup {gCfg.caster, current}
              \/ Begin
            BY <2>2, Zenon DEF StartClient
        <3>3. CASE Begin
            <4>1. started' = TRUE /\ refused' = refused
                BY <3>3
            <4>2. task' \in {"none", "runs", "ending"}
                BY <1>a, <3>3
            <4> QED BY <1>a, <4>1, <4>2
        <3> QED BY <1>a, <3>1, <3>2, <3>3
    <2>3. CASE TaskEnds \/ Reboot
        BY <1>a, <2>3 DEF TaskEnds, Reboot
    <2> QED BY <2>1, <2>2, <2>3, Actions
            DEF Seed, Start, PreserveHash, WebPut, Respond, Post, WebPutFails, MonitorPut,
                MonitorSaved, MonitorPutFails, Load, Read, Loaded, Rehash, StopClient, Sync,
                HandleLockout, Client, vars
<1>6. BoundsTyped'
    <2>1. CASE UNCHANGED <<posts, faults>>
        BY <1>a, <2>1
    <2>2. CASE posts < MaxPosts /\ posts' = posts + 1 /\ faults' = faults
        BY <1>a, <2>2, BoundsAssumption
    <2>3. CASE faults < MaxFaults /\ faults' = faults + 1 /\ posts' = posts
        BY <1>a, <2>3, BoundsAssumption
    <2> QED BY <2>1, <2>2, <2>3, Actions
            DEF Seed, Start, PreserveHash, WebPut, Respond, Post, WebPutFails, MonitorPut,
                MonitorSaved, MonitorPutFails, Load, Read, Loaded, Rehash, StartClient,
                StopClient, Sync, HandleLockout, Client, TaskEnds, Reboot, vars
<1>7. HistTyped'
    <2>1. met' \in BOOLEAN
        <3>1. Meeting => met' \in BOOLEAN
            BY Zenon DEF Meeting
        <3> QED BY <1>a, <3>1, Actions
                DEF Seed, Start, PreserveHash, WebPut, Respond, Post, WebPutFails, MonitorPut,
                    MonitorSaved, MonitorPutFails, Load, Read, Loaded, Rehash, StartClient,
                    StopClient, Sync, HandleLockout, Client, TaskEnds, Reboot, vars
    <2>2. torn' \in BOOLEAN
        <3>1. Reboot => torn' \in BOOLEAN
            BY Zenon DEF Reboot
        <3> QED BY <1>a, <3>1, Actions
                DEF Seed, Start, PreserveHash, WebPut, Respond, Post, WebPutFails, MonitorPut,
                    MonitorSaved, MonitorPutFails, Load, Read, Loaded, Rehash, StartClient,
                    StopClient, Sync, HandleLockout, Client, TaskEnds, vars
    <2>3. earned' = earned \/ (Client /\ earned' = earned \cup {current})
        BY Actions
           DEF Seed, Start, PreserveHash, WebPut, Respond, Post, WebPutFails, MonitorPut,
               MonitorSaved, MonitorPutFails, Load, Read, Loaded, Rehash, StartClient,
               StopClient, Sync, HandleLockout, Client, TaskEnds, Reboot, vars
    <2> QED BY <1>a, <2>1, <2>2, <2>3
<1>5. KeysTyped'
    BY DEF KeysTyped, Places, KeysThere
<1> QED BY <1>1, <1>2, <1>3, <1>4, <1>5, <1>6, <1>7, <1>8
        DEF NvsTyped, RecTyped, HeldTyped, PlacesTyped, KeysTyped, TypeOK

--------------------------------------------------------------------------------
(* Places, and the keys that are there.                                    *)

\* The loop task's steps, the monitor's, and which of them there can be.
LEMMA PlacesStep ==
    ASSUME TypeOK, Places, [Next]_vars
    PROVE  Places'
<1> USE DEF web, monitor, library, bounds, hist, Begin, BeginRefuses
<1>1. wleft # <<>> => Left(Tail(wleft))
    BY LeftHead DEF Places
<1>2. mleft # <<>> => Left(Tail(mleft))
    BY LeftHead DEF Places
<1>3. /\ wleft' \in {wleft, Keys, <<>>} \/ (wleft # <<>> /\ wleft' = Tail(wleft))
      /\ mleft' \in {mleft, Keys, <<>>} \/ (mleft # <<>> /\ mleft' = Tail(mleft))
    BY Actions
    DEF Seed, Start, PreserveHash, WebPut, Respond, Post, Preserve, WebSave, WebPutFails,
        MonitorPut, MonitorSaved, MonitorPutFails, Load, Read, Loaded, Rehash, StartClient,
        StopClient, Sync, HandleLockout, SaveLockout, Client, TaskEnds, Reboot, vars
<1>4. Left(wleft') /\ Left(mleft')
    BY <1>1, <1>2, <1>3, LeftEnds DEF Places
<1>5. torn' => faults' > 0
    <2>1. \/ torn' = torn /\ faults' = faults
          \/ faults' = faults + 1
        BY Actions
        DEF Seed, Start, PreserveHash, WebPut, Respond, Post, WebPutFails,
            MonitorPut, MonitorSaved, MonitorPutFails, Load, Read, Loaded, Rehash, StartClient,
            StopClient, Sync, HandleLockout, Client, TaskEnds, Reboot, vars
    <2>2. faults \in Nat /\ (torn => faults > 0)
        BY BoundsAssumption DEF TypeOK, Places
    <2>3. faults' = faults + 1 => faults' > 0
        BY <2>2
    <2> QED BY <2>1, <2>2, <2>3, Zenon
<1> DEFINE Agree == /\ wleft # <<>> => wpc \in {"seed", "save"}
                    /\ mleft # <<>> => mpc \in {"read", "save"}
                    /\ mpc = "off" <=> wpc \in {"boot", "seed"}
                    /\ mpc = "save" => mafter # "off"
<1>a. Agree /\ mafter \in {"off", "start", "lockout", "load"}
    BY DEF Places, TypeOK
<1>6. Agree'
    <2>1. CASE Seed \/ Start \/ PreserveHash \/ WebPut \/ Respond \/ WebPutFails
        BY <1>a, <2>1 DEF Seed, WebSave, Start, PreserveHash, WebPut, Respond, WebPutFails
    <2>2. CASE Post
        BY <1>a, <2>2 DEF Post, Preserve, WebSave
    <2>3. CASE MonitorPut \/ MonitorPutFails \/ Load \/ Loaded \/ Read
        <3>1. /\ mpc \in {"save", "load", "read"} /\ wpc' = wpc /\ wleft' = wleft
              /\ mafter' = mafter /\ (mpc' = "save" => mpc = "save")
              /\ mpc' \in {"save", "read", "stop", "rehash"}
              /\ mpc' \in {"read", "save"} \/ mleft' = mleft
            BY <2>3 DEF MonitorPut, MonitorPutFails, Load, Loaded, Read
        <3>2. Loaded => mleft' = <<>>
            BY DEF Loaded
        <3>3. mpc' \in {"read", "save"} \/ mleft' = <<>>
            BY <1>a, <2>3, <3>2 DEF MonitorPut, MonitorPutFails, Load, Loaded, Read
        <3> QED BY <1>a, <3>1, <3>3
    <2>4. CASE MonitorSaved
        BY <1>a, <2>4 DEF MonitorSaved
    <2>5. CASE Rehash \/ Sync \/ HandleLockout
        <3>1. mpc \in {"rehash", "sync", "lockout"} /\ wpc' = wpc /\ wleft' = wleft
            BY <2>5 DEF Rehash, Sync, HandleLockout
        <3>2. /\ mpc' \in {"start", "stop", "lockout", "load", "save"}
              /\ mleft' = mleft \/ mpc' = "save"
              /\ mpc' = "save" => mafter' # "off"
            <4>1. CASE Rehash
                BY <4>1 DEF Rehash, SaveLockout
            <4>2. CASE Sync
                BY <4>2 DEF Sync, SaveLockout
            <4>3. CASE HandleLockout
                BY <4>3 DEF HandleLockout, SaveLockout
            <4> QED BY <2>5, <4>1, <4>2, <4>3
        <3> QED BY <1>a, <3>1, <3>2
    <2>6. CASE StartClient \/ StopClient \/ Client \/ TaskEnds
        BY <1>a, <2>6 DEF StartClient, StopClient, Client, TaskEnds
    <2>7. CASE Reboot
        BY <2>7 DEF Reboot
    <2>8. CASE UNCHANGED vars
        BY <1>a, <2>8 DEF vars
    <2> QED BY <2>1, <2>2, <2>3, <2>4, <2>5, <2>6, <2>7, <2>8, Actions
<1> QED BY <1>4, <1>5, <1>6 DEF Places

\* No key is removed.
LEMMA KeysStay ==
    ASSUME Places, [Next]_vars
    PROVE  DOMAIN nvs \subseteq DOMAIN nvs'
<1>1. CASE nvs' = nvs
    BY <1>1
<1>2. CASE WebPut
    BY <1>2 DEF WebPut, Stored
<1>3. CASE MonitorPut
    BY <1>3 DEF MonitorPut, Stored
<1> QED BY <1>1, <1>2, <1>3, Actions
        DEF Seed, Start, PreserveHash, Respond, Post, WebPutFails, MonitorSaved, Load,
            Read, Loaded, Rehash, StartClient, StopClient, Sync, HandleLockout,
            MonitorPutFails, Client, TaskEnds, Reboot, vars

\* Puts add keys and nothing removes one.
LEMMA KeysThereStep ==
    ASSUME TypeOK, Places, KeysThere, [Next]_vars
    PROVE  KeysThere'
<1> USE DEF web, monitor, library, bounds, hist, Begin, BeginRefuses
<1> DEFINE There(q) == \A j \in 1..6 - Len(q) : Keys[j] \in DOMAIN nvs'
<1>1. DOMAIN nvs \subseteq DOMAIN nvs'
    BY KeysStay
<1>2. \A q : PutBefore(q) => There(q)
    BY <1>1 DEF PutBefore
<1>3. There(Keys)
    <2>1. 1..6 - 6 = {}
      OBVIOUS
    <2> QED BY <2>1, LeftEnds
<1>4. (HasData => HasData') /\ (Loads => Loads')
    BY <1>1 DEF HasData, Loads
<1>5. torn => torn'
    BY Actions
    DEF Seed, Start, PreserveHash, WebPut, Respond, Post, WebPutFails,
        MonitorPut, MonitorSaved, MonitorPutFails, Load, Read, Loaded, Rehash, StartClient,
        StopClient, Sync, HandleLockout, Client, TaskEnds, Reboot, vars
<1> DEFINE WebThere == wpc \in {"seed", "save"} /\ (wleft # <<>> \/ ~torn) => PutBefore(wleft)
           MonThere == mpc = "save" /\ (mleft # <<>> \/ ~torn) => PutBefore(mleft)
<1>a. WebThere /\ MonThere /\ (mpc # "off" /\ ~torn => HasData) /\ (mpc = "read" => Loads)
    BY DEF KeysThere
<1>b. (PutBefore(wleft)' <=> There(wleft')) /\ (PutBefore(mleft)' <=> There(mleft'))
    BY DEF PutBefore
<1> HIDE DEF There
<1>6. WebThere'
    <2>1. CASE UNCHANGED <<wpc, wleft>>
        BY <1>a, <1>b, <1>2, <1>5, <2>1
    <2>2. CASE WebPut
        <3>1. wleft # <<>> /\ Left(wleft) /\ PutBefore(wleft)
              /\ nvs' = Stored(Head(wleft), wrec[Head(wleft)]) /\ wleft' = Tail(wleft)
            BY <1>a, <2>2 DEF WebPut, Places
        <3>2. There(wleft')
            BY <3>1, PutKey DEF There
        <3> QED BY <1>b, <3>2
    <2>3. CASE wleft' = Keys
        BY <1>b, <1>3, <2>3
    <2>4. CASE wpc' \notin {"seed", "save"}
        BY <2>4
    <2>5. CASE WebPutFails
        BY <2>5 DEF WebPutFails
    <2> QED BY <2>1, <2>2, <2>3, <2>4, <2>5, Actions
            DEF Seed, Start, PreserveHash, Respond, Post, Preserve, WebSave,
                MonitorPut, MonitorSaved, MonitorPutFails, Load, Read, Loaded, Rehash, StartClient,
                StopClient, Sync, HandleLockout, Client, TaskEnds, Reboot, vars
<1>7. MonThere'
    <2>1. CASE UNCHANGED <<mpc, mleft>>
        BY <1>a, <1>b, <1>2, <1>5, <2>1
    <2>2. CASE MonitorPut
        <3>1. mleft # <<>> /\ Left(mleft) /\ PutBefore(mleft)
              /\ nvs' = Stored(Head(mleft), Record[Head(mleft)]) /\ mleft' = Tail(mleft)
            BY <1>a, <2>2 DEF MonitorPut, Places, Record
        <3>2. There(mleft')
            BY <3>1, PutKey DEF There
        <3> QED BY <1>b, <3>2
    <2>3. CASE mleft' = Keys
        BY <1>b, <1>3, <2>3
    <2>4. CASE mpc' # "save"
        BY <2>4
    <2>5. CASE MonitorPutFails
        BY <2>5 DEF MonitorPutFails
    <2> QED BY <2>1, <2>2, <2>3, <2>4, <2>5, Actions
            DEF Seed, Start, PreserveHash, Respond, Post, Preserve, WebSave, WebPut, WebPutFails,
                MonitorSaved, Load, Read, Loaded, Rehash, StartClient, TypeOK, SaveLockout,
                StopClient, Sync, HandleLockout, Client, TaskEnds, Reboot, vars
<1>8. mpc' # "off" /\ ~torn' => HasData'
    <2>1. CASE Start
        <3>1. CASE wpc = "boot" /\ HasData
            BY <1>4, <3>1
        <3>2. CASE wpc = "seed" /\ wleft = <<>>
            BY <1>a, <1>4, <1>5, <3>2, AllKeys
        <3> QED BY <2>1, <3>1, <3>2 DEF Start
    <2>2. CASE mpc # "off" \/ mpc' = "off"
        BY <1>a, <1>4, <1>5, <2>2
    <2> QED BY <2>1, <2>2, Actions
            DEF Seed, PreserveHash, Respond, Post, WebPut, WebPutFails, MonitorPut,
                MonitorSaved, MonitorPutFails, Load, Read, Loaded, Rehash, StartClient,
                StopClient, Sync, HandleLockout, Client, TaskEnds, Reboot, vars
<1>9. mpc' = "read" => Loads'
    <2>1. CASE mpc = "read" \/ mpc' # "read"
        BY <1>a, <1>4, <2>1
    <2>2. CASE Load
        BY <1>4, <2>2 DEF Load
    <2> QED BY <2>1, <2>2, Actions
            DEF Seed, Start, PreserveHash, Respond, Post, WebPut, WebPutFails, MonitorPut,
                MonitorSaved, MonitorPutFails, Read, Loaded, Rehash, StartClient, TypeOK,
                SaveLockout, StopClient, Sync, HandleLockout, Client, TaskEnds, Reboot, vars
<1> QED BY <1>6, <1>7, <1>8, <1>9 DEF KeysThere

--------------------------------------------------------------------------------
(* What the monitor holds, and the POST that waits for it.                 *)

\* After saveLockout the lockout is the one given, saved already or being saved.
LEMMA SaveLockoutFacts ==
    ASSUME NEW b, NEW after, SaveLockout(Lock(b, configHash(gCfg)), after)
    PROVE  /\ gLock' = Lock(b, configHash(gCfg))
           /\ gLock'.abandoned = b /\ gLock'.hash = configHash(gCfg)
           /\ \/ mpc' = after /\ gLock' = gLock /\ mleft' = mleft
              \/ mpc' = "save" /\ mleft' = Keys
<1>1. gLock' = Lock(b, configHash(gCfg))
    BY DEF SaveLockout
<1>2. gLock'.abandoned = b /\ gLock'.hash = configHash(gCfg)
    BY <1>1 DEF Lock
<1> QED BY <1>1, <1>2 DEF SaveLockout

\* A caster that a lockout can name stays one.
LEMMA BlamedGrows ==
    ASSUME [Next]_vars
    PROVE  Blamed \subseteq Blamed'
<1> USE DEF web, monitor, library, bounds, hist, Begin, BeginRefuses
<1>1. earned \subseteq earned' /\ refused \subseteq refused'
    BY Actions
    DEF Seed, Start, PreserveHash, WebPut, Respond, Post, WebPutFails,
        MonitorPut, MonitorSaved, MonitorPutFails, Load, Read, Loaded, Rehash, StartClient,
        StopClient, Sync, HandleLockout, Client, TaskEnds, Reboot, vars
<1> QED BY <1>1 DEF Blamed

\* The monitor goes from step to step of a config check with what MonitorHolds says.
LEMMA MonitorHoldsStep ==
    ASSUME TypeOK, Places, MonitorHolds, [Next]_vars
    PROVE  MonitorHolds'
<1> USE DEF web, monitor, library, bounds, hist, Begin, BeginRefuses
<1> DEFINE Hashed(pc) == pc \in {"start", "sync", "save"} => gLock.hash = configHash(gCfg)
<1>a. /\ mpc \in {"start", "sync", "save"} => gLock.hash = configHash(gCfg)
      /\ mpc = "sync" => wasConfigured /\ (current = gCfg.caster \/ gCfg.caster \in Blamed)
      /\ wasConfigured /\ client = "locked" => current \in Blamed
      /\ mpc = "save" /\ gLock.abandoned = TRUE => gCfg.caster \in Blamed
      /\ wpc = "seed" => wrec.abandoned = FALSE
    BY DEF MonitorHolds
<1>b. Blamed \subseteq Blamed'
    BY BlamedGrows
<1>l. /\ \A b, h : Lock(b, h).abandoned = b /\ Lock(b, h).hash = h
    BY LockTyped
<1>c. gCfg' = gCfg => configHash(gCfg)' = configHash(gCfg)
    BY DEF configHash
<1>1. (mpc \in {"start", "sync", "save"} => gLock.hash = configHash(gCfg))'
    <2>1. CASE UNCHANGED <<mpc, gLock, gCfg>>
        BY <1>a, <1>c, <2>1
    <2>2. CASE mpc' \notin {"start", "sync", "save"}
        BY <2>2
    <2>3. CASE MonitorSaved
        BY <1>a, <1>c, <2>3 DEF MonitorSaved
    <2>4. CASE Rehash
        <3>1. gCfg' = gCfg
            BY <2>4 DEF Rehash
        <3>2. CASE configHash(gCfg) # gLock.hash
            BY <1>c, <1>l, <2>4, <3>1, <3>2, SaveLockoutFacts DEF Rehash
        <3>3. CASE configHash(gCfg) = gLock.hash
            BY <1>c, <2>4, <3>1, <3>3 DEF Rehash
        <3> QED BY <3>2, <3>3
    <2>5. CASE StartClient
        BY <1>a, <1>c, <2>5 DEF StartClient
    <2>6. CASE Sync
        <3>1. gCfg' = gCfg /\ mpc = "sync"
            BY <2>6 DEF Sync
        <3>2. gLock'.hash = configHash(gCfg)
            BY <1>a, <1>l, <2>6, SaveLockoutFacts DEF Sync
        <3> QED BY <1>c, <3>1, <3>2
    <2>7. CASE HandleLockout
        <3>1. gCfg' = gCfg
            BY <2>7 DEF HandleLockout
        <3>2. mpc' = "load" \/ gLock'.hash = configHash(gCfg)
            BY <1>l, <2>7, SaveLockoutFacts DEF HandleLockout
        <3> QED BY <1>c, <3>1, <3>2
    <2>8. CASE MonitorPut \/ MonitorPutFails
        BY <1>a, <1>c, <2>8 DEF MonitorPut, MonitorPutFails
    <2> QED BY <2>1, <2>2, <2>3, <2>4, <2>5, <2>6, <2>7, <2>8, Actions
            DEF Seed, Start, PreserveHash, Respond, Post, WebPut, WebPutFails,
                Load, Read, Loaded, StopClient, Client, TaskEnds, Reboot, vars
<1>2. (mpc = "sync" => wasConfigured /\ (current = gCfg.caster \/ gCfg.caster \in Blamed))'
    <2>1. CASE UNCHANGED <<mpc, gCfg, wasConfigured, current>>
        BY <1>a, <1>b, <2>1
    <2>2. CASE StartClient
        BY <2>2 DEF StartClient, RunsOnThis, configChanged, Blamed
    <2>3. CASE mpc' # "sync"
        BY <2>3
    <2> QED BY <2>1, <2>2, <2>3, Actions
            DEF Seed, Start, PreserveHash, Respond, Post, WebPut, WebPutFails, MonitorPut,
                MonitorPutFails, MonitorSaved, TypeOK, SaveLockout, Rehash, Sync, HandleLockout,
                Load, Read, Loaded, StopClient, Client, TaskEnds, Reboot, vars
<1>3. (wasConfigured /\ client = "locked" => current \in Blamed)'
    <2>1. CASE UNCHANGED <<wasConfigured, client, current>>
        BY <1>a, <1>b, <2>1
    <2>2. CASE StartClient
        BY <1>a, <1>b, <2>2 DEF StartClient, Blamed
    <2>3. CASE StopClient \/ TaskEnds \/ Reboot
        BY <2>3 DEF StopClient, TaskEnds, Reboot
    <2>4. CASE HandleLockout
        BY <1>a, <1>b, <2>4 DEF HandleLockout
    <2>5. CASE Client
        BY <2>5 DEF Client, Blamed
    <2> QED BY <2>1, <2>2, <2>3, <2>4, <2>5, Actions
            DEF Seed, Start, PreserveHash, Respond, Post, WebPut, WebPutFails, MonitorPut,
                MonitorPutFails, MonitorSaved, Rehash, Sync,
                Load, Read, Loaded, vars
<1>4. (mpc = "save" /\ gLock.abandoned = TRUE => gCfg.caster \in Blamed)'
    <2>1. CASE mpc = "save" /\ UNCHANGED <<gLock, gCfg>>
        BY <1>a, <1>b, <2>1
    <2>2. CASE mpc' # "save"
        BY <2>2
    <2>3. CASE Rehash \/ HandleLockout
        <3>1. SaveLockout(Lock(FALSE, configHash(gCfg)), "start") => gLock'.abandoned = FALSE
            BY SaveLockoutFacts
        <3>2. SaveLockout(Lock(FALSE, configHash(gCfg)), "load") => gLock'.abandoned = FALSE
            BY SaveLockoutFacts
        <3> QED BY <2>3, <3>1, <3>2 DEF Rehash, HandleLockout
    <2>4. CASE Sync
        <3>1. CASE client = "healthy" /\ (gLock.attempts \/ gLock.abandoned)
            <4>1. SaveLockout(Lock(FALSE, configHash(gCfg)), "lockout")
                BY <2>4, <3>1 DEF Sync
            <4>2. gLock'.abandoned = FALSE
                BY <4>1, SaveLockoutFacts
            <4> QED BY <4>2
        <3>2. CASE client = "locked" /\ ~gLock.abandoned
            <4>1. gCfg.caster \in Blamed /\ gCfg' = gCfg
                BY <1>a, <2>4, <3>2 DEF Sync
            <4> QED BY <1>b, <4>1
        <3>3. CASE /\ ~(client = "healthy" /\ (gLock.attempts \/ gLock.abandoned))
                   /\ ~(client = "locked" /\ ~gLock.abandoned)
            BY <2>4, <3>3 DEF Sync
        <3> QED BY <3>1, <3>2, <3>3
    <2> QED BY <2>1, <2>2, <2>3, <2>4, Actions
            DEF Seed, Start, PreserveHash, Respond, Post, WebPut, WebPutFails, MonitorPut,
                MonitorPutFails, MonitorSaved, Load, Read, Loaded,
                StartClient, StopClient, Client, TaskEnds, Reboot, vars
<1>5. (wpc = "seed" => wrec.abandoned = FALSE)'
    <2>1. CASE UNCHANGED <<wpc, wrec>>
        BY <1>a, <2>1
    <2>2. CASE Seed
        <3>1. wrec'.abandoned = Clear.abandoned
            BY <2>2, WithFacts DEF Seed, WebSave
        <3> QED BY <3>1 DEF Clear, Lock
    <2>3. CASE wpc' # "seed"
        BY <2>3
    <2> QED BY <2>1, <2>2, <2>3, Actions
            DEF Start, PreserveHash, Respond, Post, Preserve, WebSave, WebPut, WebPutFails,
                MonitorPut, MonitorPutFails, MonitorSaved, Load, Read, Loaded, Rehash, Sync,
                HandleLockout, StartClient, StopClient, Client, TaskEnds, Reboot, vars
<1> QED BY <1>1, <1>2, <1>3, <1>4, <1>5 DEF MonitorHolds

\* Unless it is recorded in met, no request is served during a config check.
LEMMA WebAloneStep ==
    ASSUME TypeOK, Places, Places', WebAlone, [Next]_vars
    PROVE  WebAlone'
<1> USE DEF web, monitor, library, bounds, hist, Begin, BeginRefuses
<1>1. CASE Meeting
    <2>1. ~met' => ~(wpc' \in {"preserve", "save"} /\ mpc' \notin {"off", "lockout"})
        BY <1>1, Zenon DEF Meeting
    <2>2. wpc' \in {"preserve", "save"} => mpc' # "off"
        BY DEF Places
    <2> QED BY <2>1, <2>2 DEF WebAlone
<1>2. CASE UNCHANGED <<wpc, mpc, met>>
    BY <1>2 DEF WebAlone
<1>3. CASE wpc' \notin {"preserve", "save"}
    BY <1>3 DEF WebAlone
<1> QED BY <1>1, <1>2, <1>3, Actions
        DEF Seed, WebSave, Start, PreserveHash, Respond, Post, WebPut, WebPutFails,
            MonitorPut, MonitorPutFails, MonitorSaved, Load, Read, Loaded, Rehash, Sync,
            HandleLockout, StartClient, StopClient, Client, TaskEnds, Reboot, vars

--------------------------------------------------------------------------------
(* One writer at a time: puts stay, and a config check reads a whole save.  *)

\* Unless a POST meets it, a config check has NVS to itself.
LEMMA Alone ==
    ASSUME TypeOK, Places, WebAlone, [Next]_vars, ~met'
    PROVE  /\ ~met
           /\ wpc \in {"preserve", "save"} => mpc = "lockout"
           /\ HandleLockout => wpc = "idle"
           /\ Post => mpc = "lockout"
           /\ ~torn' => ~torn
           /\ faults' = faults \/ faults' = faults + 1
           /\ Blamed \subseteq Blamed'
<1> USE DEF web, monitor, library, bounds, hist, Begin, BeginRefuses
<1>1. Meeting => ~met
    BY Zenon DEF Meeting
<1>2. /\ Meeting \/ met' = met
      /\ torn' = torn \/ WebPutFails \/ MonitorPutFails \/ Reboot
      /\ faults' = faults \/ faults' = faults + 1
    BY Actions
    DEF Seed, Start, PreserveHash, WebPut, Respond, Post, WebPutFails,
        MonitorPut, MonitorSaved, MonitorPutFails, Load, Read, Loaded, Rehash, StartClient,
        StopClient, Sync, HandleLockout, Client, TaskEnds, Reboot, vars
<1>3. ~met
    BY <1>1, <1>2
<1>4. ~torn' => ~torn
    <2>1. WebPutFails \/ MonitorPutFails => torn'
        BY DEF WebPutFails, MonitorPutFails
    <2>2. Reboot => (torn => torn')
        BY Zenon DEF Reboot
    <2> QED BY <1>2, <2>1, <2>2
<1>5. Meeting => ~(wpc' \in {"preserve", "save"} /\ mpc' \notin {"off", "lockout"})
    BY Zenon DEF Meeting
<1>6. HandleLockout => wpc = "idle"
    <2>1. ASSUME HandleLockout
          PROVE  wpc' = wpc /\ mpc = "lockout" /\ mpc' \in {"load", "save"}
        BY <2>1 DEF HandleLockout, SaveLockout
    <2> QED BY <1>5, <2>1 DEF TypeOK, Places, HandleLockout
<1>7. Post => mpc = "lockout"
    <2>1. ASSUME Post
          PROVE  wpc = "idle" /\ mpc' = mpc /\ wpc' \in {"preserve", "save"}
        BY <2>1 DEF Post, Preserve, WebSave
    <2> QED BY <1>5, <2>1 DEF Places, Post
<1> QED BY <1>2, <1>3, <1>4, <1>6, <1>7, BlamedGrows DEF WebAlone

\* One more key of the two records is as NVS has it.
LEMMA ReadKey ==
    ASSUME TypeOK, Places, Read
    PROVE  \A k \in Set(Keys) :
               Record'[k] = IF k = Head(mleft) THEN With(nvs, StoredLockout)[k] ELSE Record[k]
<1> DEFINE h == Head(mleft)
<1>1. h \in Set(Keys)
    BY LeftHead DEF Read, Places
<1>2. /\ \A k \in Set(ConfigKeys) : Record[k] = gCfg[k] /\ Record'[k] = gCfg'[k]
      /\ \A k \in Set(LockoutKeys) : Record[k] = gLock[k] /\ Record'[k] = gLock'[k]
      /\ \A k \in Set(ConfigKeys) : With(nvs, StoredLockout)[k] = nvs[k]
      /\ \A k \in Set(LockoutKeys) : With(nvs, StoredLockout)[k] = StoredLockout[k]
    BY KeyFacts DEF Record, With
<1>3. /\ Set(Keys) = Set(ConfigKeys) \cup Set(LockoutKeys)
      /\ Set(ConfigKeys) \cap Set(LockoutKeys) = {}
    BY KeyFacts
<1>4. DOMAIN gCfg = Set(ConfigKeys) /\ DOMAIN gLock = Set(LockoutKeys)
    BY KeyFacts DEF TypeOK, Configs, Lockouts
<1>5. CASE h \in Set(ConfigKeys)
    <2>1. gCfg' = [gCfg EXCEPT ![h] = nvs[h]] /\ gLock' = gLock
        BY <1>5 DEF Read
    <2> HIDE DEF h
    <2>2. \A k \in Set(ConfigKeys) : gCfg'[k] = IF k = h THEN nvs[k] ELSE gCfg[k]
        BY <1>4, <2>1
    <2> QED BY <1>2, <1>3, <1>5, <2>1, <2>2 DEF h
<1>6. CASE h \notin Set(ConfigKeys)
    <2>1. gLock' = [gLock EXCEPT ![h] = StoredLockout[h]] /\ gCfg' = gCfg
        BY <1>6 DEF Read
    <2> HIDE DEF h
    <2>2. \A k \in Set(LockoutKeys) : gLock'[k] = IF k = h THEN StoredLockout[k] ELSE gLock[k]
        BY <1>4, <2>1
    <2> QED BY <1>2, <1>3, <1>6, <2>1, <2>2 DEF h
<1> QED BY <1>5, <1>6

\* A put of the writer that is alone adds a key with its value; the other writer
\* and the config check put nothing meanwhile.
LEMMA PutsStayStep ==
    ASSUME TypeOK, Places, WebAlone, PutsStay, [Next]_vars
    PROVE  PutsStay'
<1> USE DEF web, monitor, library, bounds, hist, Begin, BeginRefuses
<1> SUFFICES ASSUME ~met'
             PROVE  /\ (wpc \in {"seed", "save"} /\ (wleft # <<>> \/ ~torn) => Done(wleft, wrec))'
                    /\ (mpc = "save" /\ (mleft # <<>> \/ ~torn) => Done(mleft, Record))'
                    /\ (mpc = "read" =>
                           \A j \in 1..6 - Len(mleft) :
                               Record[Keys[j]] = With(nvs, StoredLockout)[Keys[j]])'
    BY DEF PutsStay
<1>a. /\ ~met /\ (wpc \in {"preserve", "save"} => mpc = "lockout")
      /\ HandleLockout => wpc = "idle"
      /\ Post => mpc = "lockout"
      /\ ~torn' => ~torn
    BY Alone
<1>b. /\ wpc \in {"seed", "save"} /\ (wleft # <<>> \/ ~torn) => Done(wleft, wrec)
      /\ mpc = "save" /\ (mleft # <<>> \/ ~torn) => Done(mleft, Record)
      /\ mpc = "read" =>
             \A j \in 1..6 - Len(mleft) :
                 Record[Keys[j]] = With(nvs, StoredLockout)[Keys[j]]
    BY <1>a DEF PutsStay
<1>c. /\ mpc = "off" <=> wpc \in {"boot", "seed"}
      /\ mpc = "save" => mafter # "off"
      /\ wpc \in {"boot", "seed", "idle", "preserve", "save"}
    BY DEF Places, TypeOK
<1>d. 1..6 - Len(Keys) = {}
    BY LeftEnds
<1>1. (wpc \in {"seed", "save"} /\ (wleft # <<>> \/ ~torn) => Done(wleft, wrec))'
    <2>1. CASE UNCHANGED <<wpc, wrec, wleft, nvs>>
        BY <1>a, <1>b, <2>1 DEF Done
    <2>2. CASE wleft' = Keys
        BY <1>d, <2>2 DEF Done
    <2>3. CASE WebPut
        <3>1. wleft # <<>> /\ Left(wleft) /\ Done(wleft, wrec) /\ wrec' = wrec
              /\ nvs' = Stored(Head(wleft), wrec[Head(wleft)]) /\ wleft' = Tail(wleft)
            BY <1>b, <2>3 DEF WebPut, Places
        <3>2. \A j \in 1..6 - Len(wleft') :
                  Keys[j] \in DOMAIN nvs' /\ nvs'[Keys[j]] = wrec[Keys[j]]
            BY <3>1, PutDone
        <3> QED BY <3>1, <3>2, Zenon DEF Done
    <2>4. CASE MonitorPut
        BY <1>a, <1>c, <2>4 DEF MonitorPut
    <2>5. CASE WebPutFails
        BY <2>5 DEF WebPutFails
    <2>6. CASE wpc' \notin {"seed", "save"}
        BY <2>6
    <2> QED BY <2>1, <2>2, <2>3, <2>4, <2>5, <2>6, Actions
            DEF Seed, Start, PreserveHash, Respond, Post, Preserve, WebSave,
                MonitorSaved, MonitorPutFails, Load, Read, Loaded, Rehash, Sync,
                HandleLockout, StartClient, StopClient, Client, TaskEnds, Reboot, vars
<1>2. (mpc = "save" /\ (mleft # <<>> \/ ~torn) => Done(mleft, Record))'
    <2>1. CASE UNCHANGED <<mpc, gCfg, gLock, mleft, nvs>>
        BY <1>a, <1>b, <2>1 DEF Done, Record, With
    <2>2. CASE mleft' = Keys
        BY <1>d, <2>2 DEF Done
    <2>3. CASE MonitorPut
        <3>1. mleft # <<>> /\ Left(mleft) /\ Done(mleft, Record) /\ Record' = Record
              /\ nvs' = Stored(Head(mleft), Record[Head(mleft)]) /\ mleft' = Tail(mleft)
            BY <1>b, <2>3 DEF MonitorPut, Places, Record, With
        <3>2. \A j \in 1..6 - Len(mleft') :
                  Keys[j] \in DOMAIN nvs' /\ nvs'[Keys[j]] = Record[Keys[j]]
            BY <3>1, PutDone
        <3> QED BY <3>1, <3>2, Zenon DEF Done
    <2>4. CASE WebPut
        BY <1>a, <1>c, <2>4 DEF WebPut
    <2>5. CASE MonitorPutFails
        BY <2>5 DEF MonitorPutFails
    <2>6. CASE mpc' # "save"
        BY <2>6
    <2> QED BY <2>1, <2>2, <2>3, <2>4, <2>5, <2>6, Actions
            DEF Seed, Start, PreserveHash, Respond, Post, WebPutFails, SaveLockout, TypeOK,
                MonitorSaved, Load, Read, Loaded, Rehash, Sync,
                HandleLockout, StartClient, StopClient, Client, TaskEnds, Reboot, vars
<1>3. (mpc = "read" =>
          \A j \in 1..6 - Len(mleft) : Record[Keys[j]] = With(nvs, StoredLockout)[Keys[j]])'
    <2>1. CASE UNCHANGED <<mpc, gCfg, gLock, mleft, nvs>>
        BY <1>b, <2>1 DEF Record, With, StoredLockout
    <2>2. CASE mleft' = Keys
        BY <1>d, <2>2
    <2>3. CASE Read
        <3>1. mleft # <<>> /\ Left(mleft) /\ mleft' = Tail(mleft) /\ mpc = "read" /\ nvs' = nvs
            BY <2>3 DEF Read, Places
        <3>2. With(nvs, StoredLockout)' = With(nvs, StoredLockout)
            BY <3>1, NvsStays
        <3>3. ASSUME NEW j \in 1..6 - Len(mleft')
              PROVE  Record'[Keys[j]] = With(nvs, StoredLockout)[Keys[j]]
            <4>1. j \in 1..6 - Len(mleft) \/ Keys[j] = Head(mleft)
                BY <3>1, LeftHead
            <4>2. j \in 1..6
                BY <3>1, LeftHead
            <4>3. Keys[j] \in Set(Keys)
                BY <4>2, KeyFacts DEF Set
            <4> QED BY <1>b, <2>3, <3>1, <4>1, <4>3, ReadKey
        <3> QED BY <3>2, <3>3
    <2>4. CASE WebPut
        BY <1>a, <1>c, <2>4 DEF WebPut
    <2>5. CASE mpc' # "read"
        BY <2>5
    <2> QED BY <2>1, <2>2, <2>3, <2>4, <2>5, Actions
            DEF Seed, Start, PreserveHash, Respond, Post, WebPutFails, SaveLockout, TypeOK,
                MonitorPut, MonitorPutFails, MonitorSaved, Load, Loaded, Rehash, Sync,
                HandleLockout, StartClient, StopClient, Client, TaskEnds, Reboot, vars
<1> QED BY <1>1, <1>2, <1>3

--------------------------------------------------------------------------------
(* Whole configurations.                                                   *)

\* Whole looks at the three keys of the configuration.
LEMMA WholeEqual ==
    ASSUME NEW f, NEW g, Whole(g),
           f.enabled = g.enabled, f.caster = g.caster, f.tuning = g.tuning
    PROVE  Whole(f)
BY KeyFacts DEF Whole

\* What is posted is whole, and so are the defaults.
LEMMA PostedWhole ==
    /\ \A c \in Posts : Whole(c)
    /\ Whole(Nothing)
<1>1. ASSUME NEW c \in Configs
      PROVE  [k \in Set(ConfigKeys) |-> c[k]] = c
    BY KeyFacts DEF Configs
<1>2. Nothing \in Configs
    BY LockTyped
<1> QED BY <1>1, <1>2, PostsAssumption DEF Whole

\* The save that is over has all its keys in NVS.
LEMMA AllDone ==
    ASSUME NEW rec, Done(<<>>, rec)
    PROVE  /\ \A k \in Set(Keys) : k \in DOMAIN nvs /\ nvs[k] = rec[k]
           /\ HasData
<1>1. Len(<<>>) = 0 /\ 6 - 0 = 6
  OBVIOUS
<1>2. Set(Keys) = {Keys[j] : j \in 1..6}
    BY KeyFacts DEF Set
<1> QED BY <1>1, <1>2 DEF Done, HasData

\* A whole configuration is posted, saved, stored, and read into g_ntripCfg.
LEMMA WholePartsStep ==
    ASSUME TypeOK, Places, KeysThere, WebAlone, PutsStay, PutsStay', WholeParts, [Next]_vars
    PROVE  WholeParts'
<1> USE DEF web, monitor, library, bounds, hist, Begin, BeginRefuses
<1> SUFFICES ASSUME ~met', ~torn'
             PROVE  /\ wpc' \in {"seed", "preserve", "save"} => Whole(wrec)'
                    /\ mpc' # "read" => Whole(gCfg)'
                    /\ HasData' /\ wleft' = <<>> /\ (mpc' = "save" => mleft' = <<>>)
                           => Whole(nvs)'
    BY DEF WholeParts
<1>a. /\ ~met /\ ~torn /\ (wpc \in {"preserve", "save"} => mpc = "lockout")
      /\ HandleLockout => wpc = "idle"
      /\ Post => mpc = "lockout"
    BY Alone
<1>b. /\ wpc \in {"seed", "preserve", "save"} => Whole(wrec)
      /\ mpc # "read" => Whole(gCfg)
      /\ HasData /\ wleft = <<>> /\ (mpc = "save" => mleft = <<>>) => Whole(nvs)
    BY <1>a DEF WholeParts
<1>c. /\ mpc = "off" <=> wpc \in {"boot", "seed"}
      /\ wleft # <<>> => wpc \in {"seed", "save"}
      /\ mleft # <<>> => mpc \in {"read", "save"}
      /\ wpc \in {"boot", "seed", "idle", "preserve", "save"}
      /\ mpc # "off" => HasData
    BY <1>a DEF Places, TypeOK, KeysThere
<1>d. /\ wrec' = wrec => Whole(wrec)' = Whole(wrec)
      /\ gCfg' = gCfg => Whole(gCfg)' = Whole(gCfg)
      /\ nvs' = nvs => Whole(nvs)' = Whole(nvs) /\ HasData' = HasData
    BY DEF Whole, HasData
<1>1. wpc' \in {"seed", "preserve", "save"} => Whole(wrec)'
    <2>1. CASE wpc \in {"seed", "preserve", "save"} /\ wrec' = wrec
        BY <1>b, <1>d, <2>1
    <2>2. CASE wpc' \notin {"seed", "preserve", "save"}
        BY <2>2
    <2>3. CASE Seed
        <3>1. wrec' = With(Nothing, Clear)
            BY <2>3 DEF Seed, WebSave
        <3>2. Whole(With(Nothing, Clear))
            BY WholeEqual, PostedWhole, WithFacts
        <3> QED BY <3>1, <3>2 DEF Whole
    <2>4. CASE Post
        <3>1. PICK c \in Posts : Preserve(c)
            BY <2>4 DEF Post
        <3>2. wrec' = With(c, StoredLockout) \/ wrec' = With(c, Clear)
            BY <3>1 DEF Preserve, WebSave
        <3>3. Whole(With(c, StoredLockout)) /\ Whole(With(c, Clear))
            BY WholeEqual, PostedWhole, WithFacts
        <3> QED BY <3>2, <3>3 DEF Whole
    <2>5. CASE PreserveHash
        <3>1. Whole(wrec) /\ wrec' = [wrec EXCEPT !.hash = StoredLockout.hash]
            BY <1>b, <2>5 DEF PreserveHash, WebSave
        <3>2. Whole([wrec EXCEPT !.hash = StoredLockout.hash])
            <4>1. DOMAIN wrec = {"enabled", "caster", "tuning", "attempts", "abandoned", "hash"}
                BY KeyFacts DEF TypeOK
            <4> QED BY <3>1, <4>1, WholeEqual
        <3> QED BY <3>1, <3>2 DEF Whole
    <2> QED BY <2>1, <2>2, <2>3, <2>4, <2>5, Actions
            DEF Start, Respond, WebPut, WebPutFails, MonitorPut, MonitorPutFails,
                MonitorSaved, Load, Read, Loaded, Rehash, Sync,
                HandleLockout, StartClient, StopClient, Client, TaskEnds, Reboot, vars
<1>2. mpc' # "read" => Whole(gCfg)'
    <2>1. CASE mpc # "read" /\ gCfg' = gCfg
        BY <1>b, <1>d, <2>1
    <2>2. CASE mpc' = "read"
        BY <2>2
    <2>3. CASE Loaded
        <3>1. mpc = "read" /\ mleft = <<>> /\ gCfg' = gCfg
            BY <2>3 DEF Loaded
        <3>2. Whole(nvs)
            BY <1>a, <1>b, <1>c, <3>1
        <3>3. \A j \in 1..6 : Record[Keys[j]] = With(nvs, StoredLockout)[Keys[j]]
            BY <1>a, <3>1, LeftEnds DEF PutsStay
        <3>4. \A k \in Set(Keys) : Record[k] = With(nvs, StoredLockout)[k]
            BY <3>3, KeyFacts DEF Set
        <3>5. /\ gCfg.enabled = nvs.enabled /\ gCfg.caster = nvs.caster
              /\ gCfg.tuning = nvs.tuning
            BY <3>4, KeyFacts, WithFacts DEF Record
        <3>6. Whole(gCfg)
            BY <3>2, <3>5, WholeEqual
        <3> QED BY <1>d, <3>1, <3>6
    <2>4. CASE Reboot
        <3>1. gCfg' = Nothing
            BY <2>4 DEF Reboot
        <3>2. Whole(gCfg')
            BY <3>1, PostedWhole
        <3> QED BY <3>2 DEF Whole
    <2> QED BY <1>c, <2>1, <2>2, <2>3, <2>4, Actions
            DEF Seed, Start, Respond, Post, PreserveHash, WebPut, WebPutFails, MonitorPut,
                MonitorPutFails, MonitorSaved, Load, Read, Rehash, Sync,
                HandleLockout, StartClient, StopClient, Client, TaskEnds, vars
<1>3. HasData' /\ wleft' = <<>> /\ (mpc' = "save" => mleft' = <<>>) => Whole(nvs)'
    <2> SUFFICES ASSUME HasData', wleft' = <<>>, mpc' = "save" => mleft' = <<>>
                 PROVE  Whole(nvs)'
      OBVIOUS
    <2>1. CASE nvs' = nvs /\ wleft = <<>> /\ (mpc = "save" => mleft = <<>>)
        BY <1>b, <1>d, <2>1
    <2>2. CASE WebPut
        <3>1. wrec' = wrec /\ wpc' \in {"seed", "save"} /\ Done(wleft, wrec)'
            BY <2>2 DEF PutsStay, WebPut
        <3>2. \A k \in Set(Keys) : nvs'[k] = wrec[k]
            <4>1. \A j \in 1..6 - Len(wleft') : nvs'[Keys[j]] = wrec[Keys[j]]
                BY <3>1 DEF Done
            <4>2. \A j \in 1..6 : nvs'[Keys[j]] = wrec[Keys[j]]
                BY <4>1, LeftEnds
            <4> QED BY <4>2, KeyFacts DEF Set
        <3>3. nvs'.enabled = wrec.enabled /\ nvs'.caster = wrec.caster /\ nvs'.tuning = wrec.tuning
            BY <3>2, KeyFacts
        <3>4. Whole(wrec)
            BY <1>b, <2>2 DEF WebPut
        <3>5. Whole(nvs')
            BY <3>3, <3>4, WholeEqual
        <3> QED BY <3>5 DEF Whole
    <2>3. CASE MonitorPut
        <3>1. Record' = Record /\ mpc' = "save" /\ mleft' = <<>> /\ Done(mleft, Record)'
            BY <2>3 DEF PutsStay, MonitorPut, Record, With
        <3>2. \A k \in Set(Keys) : nvs'[k] = Record[k]
            <4>1. \A j \in 1..6 - Len(mleft') : nvs'[Keys[j]] = Record[Keys[j]]
                BY <3>1 DEF Done
            <4>2. \A j \in 1..6 : nvs'[Keys[j]] = Record[Keys[j]]
                BY <3>1, <4>1, LeftEnds
            <4> QED BY <4>2, KeyFacts DEF Set
        <3>3. nvs'.enabled = gCfg.enabled /\ nvs'.caster = gCfg.caster /\ nvs'.tuning = gCfg.tuning
            BY <3>2, KeyFacts, WithFacts DEF Record
        <3>4. Whole(gCfg)
            BY <1>b, <2>3 DEF MonitorPut
        <3>5. Whole(nvs')
            BY <3>3, <3>4, WholeEqual
        <3> QED BY <3>5 DEF Whole
    <2>4. CASE nvs' = nvs /\ wleft # <<>> /\ ~WebPut
        <3>1. WebPutFails \/ Reboot
            BY <2>4, <1>c, LeftEnds, Actions
            DEF Seed, WebSave, Start, Respond, Post, Preserve, PreserveHash, MonitorPut,
                MonitorPutFails, MonitorSaved, Load, Read, Loaded, Rehash, Sync,
                HandleLockout, StartClient, StopClient, Client, TaskEnds, vars
        <3>2. WebPutFails => torn'
            BY DEF WebPutFails
        <3>3. Reboot => (wleft # <<>> => torn')
            BY Zenon DEF Reboot
        <3> QED BY <2>4, <3>1, <3>2, <3>3
    <2>5. CASE nvs' = nvs /\ mpc = "save" /\ mleft # <<>> /\ ~MonitorPut
        <3>1. MonitorPutFails \/ Reboot
            BY <2>5, <1>c, Actions
            DEF Seed, Start, Respond, Post, PreserveHash, WebPut, WebPutFails,
                MonitorSaved, Load, Read, Loaded, Rehash, Sync,
                HandleLockout, StartClient, StopClient, Client, TaskEnds, vars
        <3>2. MonitorPutFails => torn'
            BY DEF MonitorPutFails
        <3>3. Reboot => (mpc = "save" /\ mleft # <<>> => torn')
            BY Zenon DEF Reboot
        <3> QED BY <2>5, <3>1, <3>2, <3>3
    <2> QED BY <2>1, <2>2, <2>3, <2>4, <2>5, Actions
            DEF Seed, Start, Respond, Post, PreserveHash, WebPutFails,
                MonitorPutFails, MonitorSaved, Load, Read, Loaded, Rehash, Sync,
                HandleLockout, StartClient, StopClient, Client, TaskEnds, Reboot, vars
<1> QED BY <1>1, <1>2, <1>3

--------------------------------------------------------------------------------
(* The flag and the hash.                                                  *)

\* What a put changes of the lockout in NVS.
LEMMA LockoutAfterPut ==
    ASSUME NEW k, NEW v, nvs' = Stored(k, v)
    PROVE  /\ StoredLockout'.abandoned = IF k = "abandoned" THEN v ELSE StoredLockout.abandoned
           /\ StoredLockout'.hash = IF k = "hash" THEN v ELSE StoredLockout.hash
<1>1. /\ DOMAIN nvs' = DOMAIN nvs \cup {k}
      /\ \A j \in DOMAIN nvs' : nvs'[j] = IF j = k THEN v ELSE nvs[j]
    BY DEF Stored
<1>2. /\ StoredLockout = [j \in {"attempts", "abandoned", "hash"} |->
                             IF j \in DOMAIN nvs THEN nvs[j] ELSE Clear[j]]
      /\ StoredLockout' = [j \in {"attempts", "abandoned", "hash"} |->
                              IF j \in DOMAIN nvs' THEN nvs'[j] ELSE Clear[j]]
    BY KeyFacts DEF StoredLockout, Clear, Lock
<1> QED BY <1>1, <1>2

\* Which key a put is about, by the number of keys left.
LEMMA WhichKey ==
    ASSUME NEW q, Left(q), q # <<>>
    PROVE  /\ Head(q) = "hash" <=> Len(q) = 1
           /\ Head(q) = "abandoned" <=> Len(q) = 2
<1>1. Len(q) \in {1, 2, 3, 4, 5, 6} /\ Head(q) = Keys[7 - Len(q)]
    BY LeftHead
<1>2. /\ 7 - 1 = 6 /\ 7 - 2 = 5 /\ 7 - 3 = 4 /\ 7 - 4 = 3 /\ 7 - 5 = 2 /\ 7 - 6 = 1
  OBVIOUS
<1> QED BY <1>1, <1>2, KeyFacts

\* A writer that stores the flag as FALSE has NVS say so before its hash is there.
LEMMA FlagBeforeHash ==
    ASSUME NEW q, Left(q), Len(q) = 1, NEW rec, Done(q, rec)
    PROVE  StoredLockout.abandoned = rec.abandoned
<1>1. 5 \in 1..6 - 1
  OBVIOUS
<1>2. "abandoned" \in DOMAIN nvs /\ nvs.abandoned = rec.abandoned
    BY <1>1, KeyFacts DEF Done
<1> QED BY <1>2, StoredFacts

\* Nobody writes the stored lockout while a request that preserves it is alone.
LEMMA PreservedStep ==
    ASSUME TypeOK, Places, WebAlone, PutsStay, Preserved, [Next]_vars
    PROVE  Preserved'
<1> USE DEF web, monitor, library, bounds, hist, Begin, BeginRefuses
<1> SUFFICES ASSUME ~met'
             PROVE  /\ mpc' = "rehash" => gLock'.hash = StoredLockout'.hash
                    /\ wpc' = "preserve" => wrec'.abandoned = StoredLockout'.abandoned
                    /\ wpc' = "save" /\ wrec'.abandoned = TRUE =>
                           /\ StoredLockout'.abandoned = TRUE
                           /\ wrec'.hash = StoredLockout'.hash
    BY DEF Preserved
<1>a. /\ ~met /\ (wpc \in {"preserve", "save"} => mpc = "lockout")
      /\ HandleLockout => wpc = "idle"
      /\ Post => mpc = "lockout"
    BY Alone
<1>b. /\ mpc = "rehash" => gLock.hash = StoredLockout.hash
      /\ wpc = "preserve" => wrec.abandoned = StoredLockout.abandoned
      /\ wpc = "save" /\ wrec.abandoned = TRUE =>
             /\ StoredLockout.abandoned = TRUE
             /\ wrec.hash = StoredLockout.hash
    BY <1>a DEF Preserved
<1>c. mpc = "off" <=> wpc \in {"boot", "seed"}
    BY DEF Places
<1>d. nvs' = nvs => StoredLockout' = StoredLockout
    BY NvsStays
<1>1. mpc' = "rehash" => gLock'.hash = StoredLockout'.hash
    <2>1. CASE UNCHANGED <<mpc, gLock, nvs>>
        BY <1>b, <1>d, <2>1
    <2>2. CASE mpc' # "rehash"
        BY <2>2
    <2>3. CASE Loaded
        <3>1. mpc = "read" /\ mleft = <<>> /\ gLock' = gLock /\ nvs' = nvs
            BY <2>3 DEF Loaded
        <3>2. \A j \in 1..6 : Record[Keys[j]] = With(nvs, StoredLockout)[Keys[j]]
            BY <1>a, <3>1, LeftEnds DEF PutsStay
        <3>3. 6 \in 1..6
          OBVIOUS
        <3>4. Record.hash = With(nvs, StoredLockout).hash
            BY <3>2, <3>3, KeyFacts, Zenon
        <3>5. gLock.hash = StoredLockout.hash
            BY <3>4, WithFacts DEF Record
        <3> QED BY <1>d, <3>1, <3>5
    <2>4. CASE WebPut
        BY <1>a, <1>c, <2>4 DEF WebPut
    <2> QED BY <2>1, <2>2, <2>3, <2>4, Actions
            DEF Seed, Start, Respond, Post, PreserveHash, WebPutFails, MonitorPut,
                MonitorPutFails, MonitorSaved, Load, Read, Rehash, Sync, TypeOK, SaveLockout,
                HandleLockout, StartClient, StopClient, Client, TaskEnds, Reboot, vars
<1>2. wpc' = "preserve" => wrec'.abandoned = StoredLockout'.abandoned
    <2>1. CASE UNCHANGED <<wpc, wrec, nvs>>
        BY <1>b, <1>d, <2>1
    <2>2. CASE wpc' # "preserve"
        BY <2>2
    <2>3. CASE Post
        <3>1. PICK c \in Posts : Preserve(c)
            BY <2>3 DEF Post
        <3>2. wpc' = "preserve" => wrec' = With(c, StoredLockout)
            BY <3>1 DEF Preserve, WebSave
        <3>3. nvs' = nvs
            BY <2>3 DEF Post
        <3> QED BY <1>d, <3>2, <3>3, WithFacts
    <2>4. CASE MonitorPut
        BY <1>a, <2>4 DEF MonitorPut
    <2> QED BY <2>1, <2>2, <2>3, <2>4, Actions
            DEF Seed, WebSave, Start, Respond, PreserveHash, WebPut, WebPutFails,
                MonitorPutFails, MonitorSaved, Load, Read, Loaded, Rehash, Sync,
                HandleLockout, StartClient, StopClient, Client, TaskEnds, Reboot, vars
<1>3. wpc' = "save" /\ wrec'.abandoned = TRUE =>
          StoredLockout'.abandoned = TRUE /\ wrec'.hash = StoredLockout'.hash
    <2>1. CASE UNCHANGED <<wpc, wrec, nvs>>
        BY <1>b, <1>d, <2>1
    <2>2. CASE wpc' # "save"
        BY <2>2
    <2>3. CASE Post
        <3>1. PICK c \in Posts : Preserve(c)
            BY <2>3 DEF Post
        <3>2. wpc' = "save" => wrec' = With(c, Clear)
            BY <3>1 DEF Preserve, WebSave
        <3>3. With(c, Clear).abandoned = FALSE
            BY WithFacts DEF Clear, Lock
        <3> QED BY <3>2, <3>3
    <2>4. CASE PreserveHash
        <3>1. wrec' = [wrec EXCEPT !.hash = StoredLockout.hash] /\ nvs' = nvs /\ wpc = "preserve"
            BY <2>4 DEF PreserveHash, WebSave
        <3>2. DOMAIN wrec = {"enabled", "caster", "tuning", "attempts", "abandoned", "hash"}
            BY KeyFacts DEF TypeOK
        <3>3. wrec'.hash = StoredLockout.hash /\ wrec'.abandoned = wrec.abandoned
            BY <3>1, <3>2
        <3> QED BY <1>b, <1>d, <3>1, <3>3
    <2>5. CASE WebPut
        <3>1. nvs' = Stored(Head(wleft), wrec[Head(wleft)]) /\ wrec' = wrec /\ wpc' = wpc
            BY <2>5 DEF WebPut
        <3> QED BY <1>b, <3>1, LockoutAfterPut
    <2>6. CASE MonitorPut
        BY <1>a, <2>6 DEF MonitorPut
    <2> QED BY <2>1, <2>2, <2>3, <2>4, <2>5, <2>6, Actions
            DEF Seed, WebSave, Start, Respond, WebPutFails,
                MonitorPutFails, MonitorSaved, Load, Read, Loaded, Rehash, Sync,
                HandleLockout, StartClient, StopClient, Client, TaskEnds, Reboot, vars
<1> QED BY <1>1, <1>2, <1>3

\* Without a fault, Rehash's save of the new hash is over before StartClient.
LEMMA HashFirstStep ==
    ASSUME TypeOK, Places, KeysThere, MonitorHolds, WebAlone, PutsStay, Preserved, HashFirst,
           [Next]_vars
    PROVE  HashFirst'
<1> USE DEF web, monitor, library, bounds, hist, Begin, BeginRefuses
<1> SUFFICES ASSUME ~met', faults' = 0
             PROVE  /\ mpc' \in {"start", "sync"} => StoredLockout'.hash = gLock'.hash
                    /\ mpc' = "save" /\ gLock'.abandoned = TRUE =>
                           StoredLockout'.hash = gLock'.hash
    BY DEF HashFirst
<1>a. /\ ~met /\ (wpc \in {"preserve", "save"} => mpc = "lockout")
      /\ faults' = faults \/ faults' = faults + 1
    BY Alone
<1>b. faults = 0 /\ ~torn
    <2>1. faults \in Nat
        BY BoundsAssumption DEF TypeOK
    <2>2. faults = 0
        BY <1>a, <2>1
    <2>3. ~(faults > 0)
        BY <2>2
    <2> QED BY <2>2, <2>3 DEF Places
<1>c. /\ mpc \in {"start", "sync"} => StoredLockout.hash = gLock.hash
      /\ mpc = "save" /\ gLock.abandoned = TRUE => StoredLockout.hash = gLock.hash
    BY <1>a, <1>b DEF HashFirst
<1>d. nvs' = nvs => StoredLockout' = StoredLockout
    BY NvsStays
<1>e. mpc = "off" <=> wpc \in {"boot", "seed"}
    BY DEF Places
<1>f. faults' # faults + 1
    BY <1>b
<1>1. mpc' \in {"start", "sync"} => StoredLockout'.hash = gLock'.hash
    <2>1. CASE mpc \in {"start", "sync"} /\ UNCHANGED <<gLock, nvs>>
        BY <1>c, <1>d, <2>1
    <2>2. CASE mpc' \notin {"start", "sync"}
        BY <2>2
    <2>3. CASE Rehash
        <3>1. nvs' = nvs /\ (mpc = "rehash") /\ StoredLockout.hash = gLock.hash
            BY <1>a, <2>3 DEF Rehash, Preserved
        <3>2. mpc' \in {"start", "sync"} => gLock' = gLock
            BY <2>3, SaveLockoutFacts DEF Rehash, SaveLockout
        <3> QED BY <1>d, <3>1, <3>2
    <2>4. CASE MonitorSaved
        <3>1. mpc = "save" /\ mleft = <<>> /\ gLock' = gLock /\ nvs' = nvs
            BY <2>4 DEF MonitorSaved
        <3>2. Done(<<>>, Record)
            BY <1>a, <1>b, <3>1 DEF PutsStay
        <3>3. "hash" \in DOMAIN nvs /\ nvs.hash = Record.hash
            BY <3>2, AllDone, KeyFacts
        <3>4. StoredLockout.hash = gLock.hash
            BY <3>3, StoredFacts, WithFacts DEF Record
        <3> QED BY <1>d, <3>1, <3>4
    <2>5. CASE WebPut
        BY <1>a, <1>e, <2>5 DEF WebPut
    <2> QED BY <1>f, <2>1, <2>2, <2>3, <2>4, <2>5, Actions
            DEF Seed, Start, Respond, Post, PreserveHash, WebPutFails, MonitorPut,
                MonitorPutFails, Load, Read, Loaded, Sync, SaveLockout,
                HandleLockout, StartClient, StopClient, Client, TaskEnds, Reboot, vars
<1>2. mpc' = "save" /\ gLock'.abandoned = TRUE => StoredLockout'.hash = gLock'.hash
    <2>1. CASE mpc = "save" /\ UNCHANGED <<gLock, nvs>>
        BY <1>c, <1>d, <2>1
    <2>2. CASE mpc' # "save"
        BY <2>2
    <2>3. CASE Rehash \/ HandleLockout
        <3>1. SaveLockout(Lock(FALSE, configHash(gCfg)), "start") => gLock'.abandoned = FALSE
            BY SaveLockoutFacts
        <3>2. SaveLockout(Lock(FALSE, configHash(gCfg)), "load") => gLock'.abandoned = FALSE
            BY SaveLockoutFacts
        <3> QED BY <2>3, <3>1, <3>2 DEF Rehash, HandleLockout
    <2>4. CASE Sync
        <3>1. mpc = "sync" /\ nvs' = nvs
            BY <2>4 DEF Sync
        <3>2. StoredLockout.hash = configHash(gCfg)
            BY <1>c, <3>1 DEF MonitorHolds
        <3>3. /\ SaveLockout(Lock(FALSE, configHash(gCfg)), "lockout")
                     => gLock'.hash = configHash(gCfg)
              /\ SaveLockout(Lock(TRUE, configHash(gCfg)), "lockout")
                     => gLock'.hash = configHash(gCfg)
            BY SaveLockoutFacts
        <3>4. \/ SaveLockout(Lock(FALSE, configHash(gCfg)), "lockout")
              \/ SaveLockout(Lock(TRUE, configHash(gCfg)), "lockout")
              \/ mpc' = "lockout"
            BY <2>4 DEF Sync
        <3> QED BY <1>d, <3>1, <3>2, <3>3, <3>4
    <2>5. CASE MonitorPut
        <3>1. nvs' = Stored(Head(mleft), Record[Head(mleft)]) /\ gLock' = gLock
              /\ mpc = "save"
            BY <2>5 DEF MonitorPut, Record
        <3>2. Record.hash = gLock.hash
            BY WithFacts DEF Record
        <3>3. StoredLockout'.hash = Record.hash \/ StoredLockout'.hash = StoredLockout.hash
            BY <3>1, LockoutAfterPut
        <3> QED BY <1>c, <3>1, <3>2, <3>3
    <2>6. CASE WebPut
        BY <1>a, <1>e, <2>6 DEF WebPut
    <2> QED BY <1>f, <2>1, <2>2, <2>3, <2>4, <2>5, <2>6, Actions
            DEF Seed, Start, Respond, Post, PreserveHash, WebPutFails, TypeOK,
                MonitorPutFails, MonitorSaved, Load, Read, Loaded,
                StartClient, StopClient, Client, TaskEnds, Reboot, vars
<1> QED BY <1>1, <1>2

\* The flag is put by a save after a lockout, or by a request that preserves it;
\* either way the hash next to it, put after it, is that of a caster it can name.
LEMMA FlagEarnedStep ==
    ASSUME TypeOK, Places, KeysThere, MonitorHolds, WebAlone, PutsStay, Preserved, HashFirst,
           FlagEarned, [Next]_vars
    PROVE  FlagEarned'
<1> USE DEF web, monitor, library, bounds, hist, Begin, BeginRefuses
<1> DEFINE Tolerated == mpc = "save" /\ gLock.abandoned = TRUE /\ faults = 1 /\ Len(mleft) = 1
           Earned == \/ StoredLockout.hash = NoHash
                     \/ StoredLockout.hash[1] \in Blamed
                     \/ Tolerated
<1> SUFFICES ASSUME ~met', faults' <= 1, StoredLockout'.abandoned = TRUE
             PROVE  Earned'
    BY DEF FlagEarned
<1>a. /\ ~met /\ (wpc \in {"preserve", "save"} => mpc = "lockout")
      /\ faults' = faults \/ faults' = faults + 1
      /\ Blamed \subseteq Blamed'
    BY Alone
<1>b. faults \in Nat /\ faults <= 1 /\ (faults = 1 => faults' = 1) /\ (faults = 0 \/ faults = 1)
    <2>1. faults \in Nat
        BY BoundsAssumption DEF TypeOK
    <2> QED BY <1>a, <2>1
<1>c. StoredLockout.abandoned = TRUE => Earned
    BY <1>a, <1>b DEF FlagEarned
<1>d. nvs' = nvs => StoredLockout' = StoredLockout
    BY NvsStays
<1>e. /\ mpc = "off" <=> wpc \in {"boot", "seed"}
      /\ Left(wleft) /\ Left(mleft)
    BY DEF Places
<1>1. CASE nvs' = nvs /\ ~Tolerated
    BY <1>a, <1>c, <1>d, <1>1
<1>2. CASE nvs' = nvs /\ Tolerated
    <2>1. mleft # <<>>
        <3>1. 0 # 1
          OBVIOUS
        <3> QED BY <1>2, <3>1, LeftEnds
    <2>2. \/ mpc' = mpc /\ gLock' = gLock /\ faults' = faults /\ mleft' = mleft
          \/ faults' = faults + 1
          \/ MonitorPut
        BY <1>2, <1>e, <2>1, Actions
        DEF Seed, Start, Respond, Post, PreserveHash, WebPut, WebPutFails, MonitorPutFails,
            MonitorSaved, Load, Read, Loaded, Rehash, Sync, HandleLockout,
            StartClient, StopClient, Client, TaskEnds, Reboot, vars
    <2>3. faults' # faults + 1
        BY <1>2, <1>b
    <2>4. CASE mpc' = mpc /\ gLock' = gLock /\ faults' = faults /\ mleft' = mleft
        BY <1>2, <2>4
    <2>5. CASE MonitorPut
        <3>1. Head(mleft) = "hash" /\ gLock' = gLock
              /\ nvs' = Stored(Head(mleft), Record[Head(mleft)])
            BY <1>2, <1>e, <2>1, <2>5, WhichKey DEF MonitorPut, Record
        <3>2. StoredLockout'.hash = Record.hash
            BY <3>1, LockoutAfterPut
        <3>3. Record.hash = configHash(gCfg)
            BY <1>2, WithFacts DEF Record, MonitorHolds
        <3>4. gCfg.caster \in Blamed
            BY <1>2 DEF MonitorHolds
        <3>5. StoredLockout'.hash[1] = gCfg.caster
            BY <3>2, <3>3 DEF configHash
        <3> QED BY <1>a, <3>4, <3>5
    <2> QED BY <2>2, <2>3, <2>4, <2>5
<1>3. CASE WebPut
    <2>1. /\ wpc \in {"seed", "save"} /\ wleft # <<>> /\ wleft' = Tail(wleft)
          /\ nvs' = Stored(Head(wleft), wrec[Head(wleft)])
          /\ mpc' = mpc /\ mpc # "save"
        BY <1>3, <1>a, <1>e DEF WebPut
    <2>2. /\ StoredLockout'.abandoned =
                IF Head(wleft) = "abandoned" THEN wrec.abandoned ELSE StoredLockout.abandoned
          /\ StoredLockout'.hash = IF Head(wleft) = "hash" THEN wrec.hash ELSE StoredLockout.hash
        BY <2>1, LockoutAfterPut
    <2>3. Done(wleft, wrec)
        BY <1>a, <2>1 DEF PutsStay
    <2>4. CASE wrec.abandoned = TRUE
        <3>1. wpc = "save"
            BY <2>1, <2>4 DEF MonitorHolds
        <3>2. StoredLockout.abandoned = TRUE /\ wrec.hash = StoredLockout.hash
            BY <1>a, <2>4, <3>1 DEF Preserved
        <3>3. StoredLockout'.hash = StoredLockout.hash
            BY <2>2, <3>2
        <3> QED BY <1>a, <1>c, <2>1, <3>2, <3>3
    <2>5. CASE wrec.abandoned # TRUE
        <3>1. Head(wleft) # "abandoned" /\ StoredLockout.abandoned = TRUE
            BY <2>2, <2>5
        <3>2. Head(wleft) # "hash"
            BY <1>e, <2>1, <2>3, <2>5, <3>1, WhichKey, FlagBeforeHash
        <3>3. StoredLockout'.hash = StoredLockout.hash
            BY <2>2, <3>2
        <3> QED BY <1>a, <1>c, <2>1, <3>1, <3>3
    <2> QED BY <2>4, <2>5
<1>4. CASE MonitorPut
    <2>1. /\ mpc = "save" /\ mleft # <<>> /\ mleft' = Tail(mleft)
          /\ nvs' = Stored(Head(mleft), Record[Head(mleft)])
          /\ mpc' = mpc /\ gLock' = gLock /\ faults' = faults
        BY <1>4 DEF MonitorPut, Record
    <2>2. /\ StoredLockout'.abandoned =
                IF Head(mleft) = "abandoned" THEN Record.abandoned ELSE StoredLockout.abandoned
          /\ StoredLockout'.hash = IF Head(mleft) = "hash" THEN Record.hash ELSE StoredLockout.hash
        BY <2>1, LockoutAfterPut
    <2>3. Done(mleft, Record)
        BY <1>a, <2>1 DEF PutsStay
    <2>4. Record.abandoned = gLock.abandoned /\ Record.hash = gLock.hash
        BY WithFacts DEF Record
    <2>5. CASE gLock.abandoned = TRUE
        <3>1. gCfg.caster \in Blamed /\ gLock.hash[1] = gCfg.caster
            BY <2>1, <2>5 DEF MonitorHolds, configHash
        <3>2. CASE Head(mleft) = "hash"
            BY <1>a, <2>2, <2>4, <3>1, <3>2
        <3>3. CASE Head(mleft) = "abandoned"
            <4>1. Len(mleft') = 1 /\ StoredLockout'.hash = StoredLockout.hash
                BY <1>e, <2>1, <2>2, <3>3, WhichKey, LeftHead
            <4>2. CASE faults = 1
                BY <2>1, <2>5, <4>1, <4>2
            <4>3. CASE faults = 0
                <5>1. StoredLockout.hash = gLock.hash
                    BY <1>a, <2>1, <2>5, <4>3 DEF HashFirst
                <5> QED BY <1>a, <3>1, <4>1, <5>1
            <4> QED BY <1>b, <4>2, <4>3
        <3>4. CASE Head(mleft) \notin {"abandoned", "hash"}
            <4>1. /\ StoredLockout.abandoned = TRUE
                  /\ StoredLockout'.hash = StoredLockout.hash
                BY <2>2, <3>4
            <4>2. Len(mleft) # 1
                BY <1>e, <2>1, <3>4, WhichKey
            <4> QED BY <1>a, <1>c, <4>1, <4>2
        <3> QED BY <3>2, <3>3, <3>4
    <2>6. CASE gLock.abandoned # TRUE
        <3>1. Head(mleft) # "abandoned" /\ StoredLockout.abandoned = TRUE
            BY <2>2, <2>4, <2>6
        <3>2. Head(mleft) # "hash"
            BY <1>e, <2>1, <2>3, <2>4, <2>6, <3>1, WhichKey, FlagBeforeHash
        <3>3. StoredLockout'.hash = StoredLockout.hash
            BY <2>2, <3>2
        <3> QED BY <1>a, <1>c, <2>6, <3>1, <3>3
    <2> QED BY <2>5, <2>6
<1> QED BY <1>1, <1>2, <1>3, <1>4, Actions
        DEF Seed, Start, Respond, Post, PreserveHash, WebPutFails, MonitorPutFails,
            MonitorSaved, Load, Read, Loaded, Rehash, Sync, HandleLockout,
            StartClient, StopClient, Client, TaskEnds, Reboot, vars

--------------------------------------------------------------------------------
(* The theorems.                                                           *)

\* The invariant holds initially.
LEMMA InitInv ==
    ASSUME Init
    PROVE  IInv
<1>1. TypeOK
    BY InitTyped
<1>2. /\ wpc = "boot" /\ mpc = "off" /\ wleft = <<>> /\ mleft = <<>>
      /\ wasConfigured = FALSE /\ gCfg = Nothing /\ torn = FALSE
    BY DEF Init
<1>3. Places /\ MonitorHolds /\ WebAlone
    BY <1>2, LeftEnds DEF Places, MonitorHolds, WebAlone
<1>4. KeysThere
    BY <1>2 DEF KeysThere
<1>5. PutsStay /\ Preserved /\ HashFirst
    BY <1>2 DEF PutsStay, Preserved, HashFirst
<1>6. nvs \in {[k \in {} |-> 0]} \cup {With(c, Lock(FALSE, configHash(c))) : c \in Posts}
    BY DEF Init
<1>7. CASE nvs = [k \in {} |-> 0]
    <2>1. DOMAIN nvs = {}
        BY <1>7
    <2>2. ~HasData
        BY <2>1, KeyFacts DEF HasData
    <2>3. StoredLockout.abandoned = FALSE
        BY <2>1, StoredFacts
    <2>4. FlagEarned
        BY <2>3 DEF FlagEarned
    <2>5. WholeParts
        BY <1>2, <2>2, PostedWhole DEF WholeParts
    <2> QED BY <1>1, <1>3, <1>4, <1>5, <2>4, <2>5 DEF IInv
<1>8. CASE \E c \in Posts : nvs = With(c, Lock(FALSE, configHash(c)))
    <2>1. PICK c \in Posts : nvs = With(c, Lock(FALSE, configHash(c)))
        BY <1>8
    <2>2. /\ DOMAIN nvs = Set(Keys) /\ nvs.abandoned = FALSE
          /\ nvs.enabled = c.enabled /\ nvs.caster = c.caster /\ nvs.tuning = c.tuning
        <3> DEFINE lock == Lock(FALSE, configHash(c))
        <3>1. lock.abandoned = FALSE
            BY DEF Lock
        <3> HIDE DEF lock
        <3>2. nvs = With(c, lock)
            BY <2>1 DEF lock
        <3> QED BY <3>1, <3>2, WithFacts
    <2>3. StoredLockout.abandoned = FALSE
        BY <2>2, StoredFacts
    <2>4. FlagEarned
        BY <2>3 DEF FlagEarned
    <2>5. Whole(nvs)
        BY <2>2, PostedWhole, WholeEqual
    <2>6. WholeParts
        BY <1>2, <2>5, PostedWhole DEF WholeParts
    <2> QED BY <1>1, <1>3, <1>4, <1>5, <2>4, <2>6 DEF IInv
<1> QED BY <1>6, <1>7, <1>8

\* Every step keeps the invariant.
LEMMA InvStep ==
    ASSUME IInv, [Next]_vars
    PROVE  IInv'
<1> USE DEF IInv
<1>1. Places' /\ KeysThere'
    BY PlacesStep, KeysThereStep
<1>2. TypeOK' /\ MonitorHolds' /\ WebAlone'
    BY <1>1, TypeStep, MonitorHoldsStep, WebAloneStep
<1>3. PutsStay' /\ Preserved' /\ HashFirst' /\ FlagEarned'
    BY PutsStayStep, PreservedStep, HashFirstStep, FlagEarnedStep
<1>4. WholeParts'
    BY <1>3, WholePartsStep
<1> QED BY <1>1, <1>2, <1>3, <1>4

\* The lockout that NVS gives is the one that is in NVS.
LEMMA EarnedFromFlag ==
    ASSUME IInv
    PROVE  LockoutIsEarned
<1> SUFFICES ASSUME HasData, nvs.abandoned, nvs.hash = configHash(nvs), ~met, faults <= 1
             PROVE  nvs.caster \in Blamed
    BY DEF LockoutIsEarned, Blamed
<1>1. {"caster", "tuning", "abandoned", "hash"} \subseteq DOMAIN nvs
    BY KeyFacts DEF HasData
<1>2. nvs.abandoned \in BOOLEAN
    BY <1>1, ValueFacts DEF IInv, TypeOK
<1>3. StoredLockout.abandoned = TRUE /\ StoredLockout.hash = nvs.hash
    BY <1>1, <1>2, StoredFacts
<1>4. nvs.hash # NoHash /\ nvs.hash[1] = nvs.caster
    BY DEF configHash, NoHash
<1>5. CASE mpc = "save" /\ gLock.abandoned = TRUE /\ Len(mleft) = 1
    <2>1. mleft # <<>>
        <3>1. 0 # 1
          OBVIOUS
        <3> QED BY <1>5, <3>1, LeftEnds
    <2>2. Done(mleft, Record)
        BY <1>5, <2>1 DEF IInv, PutsStay
    <2>3. 2 \in 1..6 - 1
      OBVIOUS
    <2>4. nvs.caster = Record.caster
        BY <1>5, <2>2, <2>3, KeyFacts DEF Done
    <2>5. gCfg.caster \in Blamed
        BY <1>5 DEF IInv, MonitorHolds
    <2> QED BY <2>4, <2>5, WithFacts DEF Record
<1> QED BY <1>3, <1>4, <1>5 DEF IInv, FlagEarned

\* With no save under way, what is stored is one configuration.
LEMMA WholeFromParts ==
    ASSUME IInv
    PROVE  WholeUnlessMet
<1> SUFFICES ASSUME wpc = "idle", mpc # "save", ~torn, ~met
             PROVE  Whole(nvs)
    BY DEF WholeUnlessMet, Whole
<1>1. wleft = <<>> /\ mpc # "off"
    BY DEF IInv, Places
<1>2. HasData
    BY <1>1 DEF IInv, KeysThere
<1> QED BY <1>1, <1>2 DEF IInv, WholeParts

\* The invariant holds throughout every behaviour of the two writers of the namespace.
THEOREM Invariance == Spec => []IInv
<1>1. Init => IInv
    BY InitInv
<1>2. IInv /\ [Next]_vars => IInv'
    BY InvStep
<1> QED BY <1>1, <1>2, PTL DEF Spec

\* Whatever is posted and however often a put fails or the power does, what the
\* loop task and configMonitorTask hold and store are configurations and lockouts,
\* and a device that has had no fault runs its monitor on a complete namespace.
THEOREM TypeCorrect == Spec => []TypeOK
<1>1. IInv => TypeOK
    BY DEF IInv
<1> QED BY <1>1, Invariance, PTL

\* A stored lockout that keeps the client off was earned on the stored caster, or is
\* that of a client stopped for a configuration which begin() then refused, as long
\* as no POST met a config check and at most one save was torn.
THEOREM LockoutsAreEarned == Spec => []LockoutIsEarned
<1>1. IInv => LockoutIsEarned
    BY EarnedFromFlag
<1> QED BY <1>1, Invariance, PTL

\* saveLockout writes the whole configuration again, and yet NVS never holds parts
\* of two, unless a save was torn or met a config check.
THEOREM StoredWhole == Spec => []WholeUnlessMet
<1>1. IInv => WholeUnlessMet
    BY WholeFromParts
<1> QED BY <1>1, Invariance, PTL
================================================================================
