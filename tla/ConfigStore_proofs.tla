--------------------------- MODULE ConfigStore_proofs ---------------------------
(***************************************************************************)
(* Proofs about ConfigStore for every set of bodies and every number of    *)
(* requests.  A save has put the keys before the ones left to put, so a    *)
(* completed one has made NVS equal to its configuration; and since keys   *)
(* are never removed, what was complete once stays complete.               *)
(***************************************************************************)
EXTENDS ConfigStore, SequenceTheorems, TLAPS

KeySeq(ns) == IF ns = "gnss" THEN GnssKeys ELSE WifiKeys

\* A configuration that wifi_config_save accepts and wifi_config_load gives back.
WifiGood(cfg) ==
    /\ cfg = [k \in KeysOf(WifiKeys) |-> cfg[k]]
    /\ cfg.ssid # Empty
    /\ cfg.dhcp => \A k \in AddrKeys : cfg[k] = ZeroIp

\* A save is the seeding of a namespace or that of a POST.
SaveShape ==
    pc = "save" =>
        /\ DOMAIN save = {"ns", "cfg", "after", "left"}
        /\ \/ save.ns = "gnss" /\ save.after \in {"wifi", "serve"}
           \/ save.ns = "wifi" /\ save.after \in {"accesspoint", "serve"}

SaveCfg ==
    pc = "save" =>
        /\ save.ns = "gnss" => save.cfg = [k \in KeysOf(GnssKeys) |-> save.cfg[k]]
        /\ save.ns = "wifi" => /\ WifiGood(save.cfg)
                               /\ failed.wifi = "never" => save.cfg.pass # Mask
        /\ save.after = "accesspoint" => save.cfg = WifiDefaults

\* The keys before the ones left are in NVS.
PutsDone(i) ==
    \A j \in 1..i - 1 :
        /\ KeySeq(save.ns)[j] \in DOMAIN nvs[save.ns]
        /\ nvs[save.ns][KeySeq(save.ns)[j]] = save.cfg[KeySeq(save.ns)[j]]

SavePuts ==
    pc = "save" =>
        \E i \in 1..Len(KeySeq(save.ns)) :
            /\ save.left = SubSeq(KeySeq(save.ns), i, Len(KeySeq(save.ns)))
            /\ PutsDone(i)

\* Single keys that no save stores, or only a POST does.
NvsGood ==
    /\ "ssid" \in DOMAIN nvs.wifi => nvs.wifi.ssid # Empty
    /\ "accesspoint" \in DOMAIN nvs.wifi /\ ~nvs.wifi.accesspoint => apOffPosted
    /\ MaskNotStored

Seeding == pc = "accesspoint" \/ (pc = "save" /\ save.after = "accesspoint")

SavedIsStored ==
    /\ saved.gnss # NoConfig => saved.gnss = nvs.gnss /\ DOMAIN nvs.gnss = KeysOf(GnssKeys)
    /\ saved.wifi # NoConfig => saved.wifi = nvs.wifi /\ WifiGood(nvs.wifi)
    /\ Seeding => saved.wifi \in {NoConfig, WifiDefaults}

Serving == pc = "serve" \/ (pc = "save" /\ save.after = "serve")

\* What setup() has found or made stays true while requests are served.
HasWifi ==
    (pc \in {"accesspoint", "uart", "station"} \/ Serving) /\ failed.wifi # "now"
        => WifiHasData

ApShown == Serving /\ ~softAp => apOffPosted

UartAgrees == IF uart \in {NoConfig, CorePins} THEN ~Configured(GnssLoad) ELSE uart = GnssLoad

UartKnown ==
    failed.gnss # "now" =>
        /\ pc \in {"station", "serve"} => UartAgrees
        /\ pc = "save" /\ save.after = "serve" /\ save.ns = "wifi" => UartAgrees
        /\ pc = "save" /\ save.after = "serve" /\ save.ns = "gnss" => uart = Begun(save.cfg)

Inv == /\ SaveShape /\ SaveCfg /\ SavePuts
       /\ NvsGood /\ SavedIsStored
       /\ HasWifi /\ ApShown /\ UartKnown

IInv == TypeOK /\ Inv

--------------------------------------------------------------------------------
(* Keys and configurations.                                                *)

\* The names of the keys.
LEMMA KeyNames ==
    /\ KeysOf(GnssKeys) = {"rx_pin", "tx_pin", "baud"}
    /\ KeysOf(WifiKeys) = {"ssid", "pass", "dhcp", "accesspoint", "ip", "gw", "subnet", "dns"}
<1>1. Len(GnssKeys) = 3 /\ 1..3 = {1, 2, 3}
    BY DEF GnssKeys
<1>2. Len(WifiKeys) = 8 /\ 1..8 = {1, 2, 3, 4, 5, 6, 7, 8}
    BY DEF WifiKeys
<1>3. KeysOf(GnssKeys) = {GnssKeys[1], GnssKeys[2], GnssKeys[3]}
    BY <1>1 DEF KeysOf
<1>4. KeysOf(WifiKeys) = {WifiKeys[1], WifiKeys[2], WifiKeys[3], WifiKeys[4],
                          WifiKeys[5], WifiKeys[6], WifiKeys[7], WifiKeys[8]}
    BY <1>2 DEF KeysOf
<1> QED BY <1>3, <1>4 DEF GnssKeys, WifiKeys

\* What has a key is a configuration.
LEMMA SomeConfig ==
    ASSUME NEW f, DOMAIN f # {}
    PROVE  f # NoConfig
<1>1. DOMAIN << >> = {}
  OBVIOUS
<1> QED BY <1>1 DEF NoConfig

\* A wiring is neither no configuration nor what the core takes without one.
LEMMA SomeWiring ==
    ASSUME NEW f, DOMAIN f = KeysOf(GnssKeys)
    PROVE  f \notin {NoConfig, CorePins}
<1>1. "baud" \in DOMAIN f
    BY KeyNames
<1>2. DOMAIN CorePins = {"pins"}
    BY DEF CorePins
<1> QED BY <1>1, <1>2, SomeConfig

\* The keys of a namespace, in the order of the puts.
LEMMA KeySeqType ==
    ASSUME NEW ns \in Namespace
    PROVE  /\ KeySeq(ns) \in Seq(KeysOf(KeySeq(ns)))
           /\ Len(KeySeq(ns)) \in Nat /\ Len(KeySeq(ns)) > 0
           /\ KeysOf(KeySeq(ns)) = {KeySeq(ns)[i] : i \in 1..Len(KeySeq(ns))}
<1>1. GnssKeys \in Seq({"rx_pin", "tx_pin", "baud"})
    BY DEF GnssKeys
<1>2. WifiKeys \in Seq({"ssid", "pass", "dhcp", "accesspoint", "ip", "gw", "subnet", "dns"})
    BY DEF WifiKeys
<1>3. Len(GnssKeys) = 3 /\ Len(WifiKeys) = 8
    BY DEF GnssKeys, WifiKeys
<1>4. KeySeq(ns) \in Seq(KeysOf(KeySeq(ns)))
    BY <1>1, <1>2, KeyNames DEF KeySeq
<1>5. Len(KeySeq(ns)) \in {3, 8}
    <2>1. KeySeq(ns) = GnssKeys \/ KeySeq(ns) = WifiKeys
        BY DEF KeySeq
    <2> QED BY <1>3, <2>1
<1>6. Len(KeySeq(ns)) \in Nat /\ Len(KeySeq(ns)) > 0
    <2>1. \A n \in {3, 8} : n \in Nat /\ n > 0
        OBVIOUS
    <2> QED BY <1>5, <2>1, Zenon
<1> QED BY <1>6, <1>4, <1>5, Zenon DEF KeysOf

\* A put stores one key and leaves the others.
LEMMA StoredType ==
    ASSUME NEW ns \in Namespace, NEW k, NEW v, DOMAIN nvs = Namespace,
           nvs' = Stored(ns, k, v)
    PROVE  /\ DOMAIN nvs' = Namespace
           /\ DOMAIN nvs'[ns] = DOMAIN nvs[ns] \cup {k}
           /\ nvs'[ns][k] = v
           /\ \A j \in DOMAIN nvs[ns] : j # k => nvs'[ns][j] = nvs[ns][j]
           /\ \A n \in Namespace \ {ns} : nvs'[n] = nvs[n]
<1>1. DOMAIN nvs' = Namespace
    BY DEF Stored
<1>2. nvs'[ns] = [j \in DOMAIN nvs[ns] \cup {k} |-> IF j = k THEN v ELSE nvs[ns][j]]
    BY DEF Stored
<1>3. \A n \in Namespace \ {ns} : nvs'[n] = nvs[n]
    BY DEF Stored
<1> QED BY <1>1, <1>2, <1>3

\* What a put made equal to a configuration, key by key, is that configuration.
LEMMA StoredEqual ==
    ASSUME NEW ns \in Namespace, NEW k, NEW v, DOMAIN nvs = Namespace,
           nvs' = Stored(ns, k, v), NEW K, NEW cfg, cfg = [j \in K |-> cfg[j]],
           DOMAIN nvs[ns] \subseteq K, k \in K,
           \A j \in K : j \in DOMAIN nvs'[ns] /\ nvs'[ns][j] = cfg[j]
    PROVE  nvs'[ns] = cfg
<1>1. nvs'[ns] = [j \in DOMAIN nvs[ns] \cup {k} |-> IF j = k THEN v ELSE nvs[ns][j]]
    BY DEF Stored
<1>2. DOMAIN nvs'[ns] = K
    BY <1>1
<1>3. nvs'[ns] = [j \in K |-> nvs'[ns][j]]
    BY <1>1, <1>2
<1> QED BY <1>3

\* The defaults are configurations.
LEMMA Defaults ==
    /\ GnssDefaults = [k \in KeysOf(GnssKeys) |-> GnssDefaults[k]]
    /\ WifiDefaults = [k \in KeysOf(WifiKeys) |-> WifiDefaults[k]]
<1>1. GnssDefaults = [k \in KeysOf(GnssKeys) |-> GnssDefaults[k]]
    BY KeyNames DEF GnssDefaults
<1>2. WifiDefaults = [k \in KeysOf(WifiKeys) |-> WifiDefaults[k]]
    BY KeyNames DEF WifiDefaults
<1> QED BY <1>1, <1>2

\* What a stored configuration loads as.
LEMMA Loads ==
    /\ DOMAIN nvs.gnss = KeysOf(GnssKeys) => GnssLoad = nvs.gnss
    /\ WifiGood(nvs.wifi) => WifiLoad = nvs.wifi
    /\ WifiHasData /\ nvs.wifi.ssid # Empty =>
        /\ WifiLoad # NoConfig
        /\ WifiLoad.pass = nvs.wifi.pass
    /\ WifiLoad # NoConfig => /\ DOMAIN WifiLoad = KeysOf(WifiKeys)
                              /\ "pass" \in DOMAIN nvs.wifi /\ WifiLoad.pass = nvs.wifi.pass
<1> DEFINE Value(k) == CASE k = "accesspoint" /\ k \notin DOMAIN nvs.wifi -> TRUE
                         [] k \in AddrKeys /\ nvs.wifi.dhcp -> ZeroIp
                         [] OTHER -> nvs.wifi[k]
           Loaded == [k \in KeysOf(WifiKeys) |-> Value(k)]
<1>1. DOMAIN nvs.gnss = KeysOf(GnssKeys) => GnssLoad = nvs.gnss
    BY DEF GnssLoad, GnssHasData
<1>2. WifiLoad = IF /\ {"ssid", "pass", "dhcp"} \subseteq DOMAIN nvs.wifi
                    /\ nvs.wifi.dhcp \/ AddrKeys \subseteq DOMAIN nvs.wifi
                    /\ nvs.wifi.ssid # Empty
                 THEN Loaded ELSE NoConfig
    BY DEF WifiLoad
<1>3. DOMAIN Loaded = KeysOf(WifiKeys) /\ Loaded # NoConfig
    <2>1. DOMAIN Loaded = KeysOf(WifiKeys)
        OBVIOUS
    <2>2. DOMAIN Loaded # {}
        BY <2>1, KeyNames
    <2> QED BY <2>1, <2>2, SomeConfig
<1>4. Loaded.pass = nvs.wifi.pass
    BY KeyNames DEF AddrKeys
<1>5. ASSUME WifiGood(nvs.wifi) PROVE Loaded = nvs.wifi
    <2>1. DOMAIN nvs.wifi = KeysOf(WifiKeys)
        BY <1>5 DEF WifiGood
    <2>2. ASSUME NEW k \in KeysOf(WifiKeys) PROVE Value(k) = nvs.wifi[k]
        BY <1>5, <2>1 DEF WifiGood
    <2>3. nvs.wifi = [k \in KeysOf(WifiKeys) |-> nvs.wifi[k]]
        BY <1>5 DEF WifiGood
    <2> QED BY <2>2, <2>3
<1> HIDE DEF Loaded
<1>6. WifiGood(nvs.wifi) => WifiLoad = nvs.wifi
    <2>1. WifiGood(nvs.wifi) => /\ {"ssid", "pass", "dhcp"} \subseteq DOMAIN nvs.wifi
                                /\ AddrKeys \subseteq DOMAIN nvs.wifi
                                /\ nvs.wifi.ssid # Empty
        BY KeyNames DEF WifiGood, AddrKeys
    <2> QED BY <1>2, <1>5, <2>1, Zenon
<1>7. WifiHasData /\ nvs.wifi.ssid # Empty => WifiLoad = Loaded
    <2>1. WifiHasData => /\ {"ssid", "pass", "dhcp"} \subseteq DOMAIN nvs.wifi
                         /\ AddrKeys \subseteq DOMAIN nvs.wifi
        BY KeyNames DEF WifiHasData, AddrKeys
    <2> QED BY <1>2, <2>1, Zenon
<1>8. WifiLoad # NoConfig => WifiLoad = Loaded /\ "pass" \in DOMAIN nvs.wifi
    <2>1. {"ssid", "pass", "dhcp"} \subseteq DOMAIN nvs.wifi => "pass" \in DOMAIN nvs.wifi
        OBVIOUS
    <2> QED BY <1>2, <2>1, Zenon
<1> QED BY <1>1, <1>3, <1>4, <1>6, <1>7, <1>8, Zenon

\* The defaults can be saved and reported as saved.
LEMMA DefaultsGood ==
    /\ WifiGood(WifiDefaults) /\ Savable("wifi", WifiDefaults)
    /\ WifiDefaults.pass # Mask /\ WifiDefaults.accesspoint = TRUE
    /\ \A k \in KeysOf(WifiKeys) : ReportsSuccess(k, WifiDefaults[k])
<1>1. Factory # Empty /\ Factory # Mask
    BY FactoryAssumption
<1>2. \A k \in AddrKeys : WifiDefaults[k] = ZeroIp
    BY DEF WifiDefaults, AddrKeys
<1>3. /\ WifiDefaults.ssid = Factory /\ WifiDefaults.pass = Factory
      /\ WifiDefaults.dhcp = TRUE /\ WifiDefaults.accesspoint = TRUE
    BY DEF WifiDefaults
<1>4. WifiGood(WifiDefaults)
    BY <1>1, <1>2, <1>3, Defaults DEF WifiGood
<1>5. Savable("wifi", WifiDefaults)
    BY <1>1, <1>3 DEF Savable
<1> QED BY <1>1, <1>3, <1>4, <1>5 DEF ReportsSuccess

--------------------------------------------------------------------------------
(* Saves.                                                                  *)

\* A save that is accepted begins with all its keys left to put.
LEMMA SaveStarts ==
    ASSUME NEW ns \in Namespace, NEW cfg, NEW after, Save(ns, cfg, after)
    PROVE  \/ ~Savable(ns, cfg) /\ pc' = after /\ save' = save
           \/ /\ Savable(ns, cfg) /\ pc' = "save" /\ save' # NoConfig
              /\ DOMAIN save' = {"ns", "cfg", "after", "left"}
              /\ save'.ns = ns /\ save'.cfg = cfg /\ save'.after = after
              /\ save'.left # <<>> /\ SavePuts'
<1>1. CASE ~Savable(ns, cfg)
    BY <1>1 DEF Save
<1>2. CASE Savable(ns, cfg)
    <2>1. pc' = "save" /\ save' = [ns |-> ns, cfg |-> cfg, after |-> after, left |-> KeySeq(ns)]
        BY <1>2 DEF Save, KeySeq
    <2>2. /\ DOMAIN save' = {"ns", "cfg", "after", "left"}
          /\ save'.ns = ns /\ save'.cfg = cfg /\ save'.after = after /\ save'.left = KeySeq(ns)
        BY <2>1
    <2>3. save' # NoConfig
        BY <2>2, SomeConfig
    <2>4. /\ KeySeq(ns) \in Seq(KeysOf(KeySeq(ns)))
          /\ Len(KeySeq(ns)) \in Nat /\ Len(KeySeq(ns)) > 0
        BY KeySeqType
    <2>5. save'.left # <<>>
        BY <2>2, <2>4, EmptySeq
    <2>6. KeySeq(ns) = SubSeq(KeySeq(ns), 1, Len(KeySeq(ns)))
        BY <2>4, SubSeqFull
    <2>7. PutsDone(1)'
        BY DEF PutsDone
    <2>8. 1 \in 1..Len(KeySeq(ns))
        BY <2>4
    <2>9. SavePuts'
        BY <2>2, <2>6, <2>7, <2>8 DEF SavePuts
    <2> QED BY <1>2, <2>1, <2>2, <2>3, <2>5, <2>9
<1> QED BY <1>1, <1>2

\* What a step that does not put leaves of a save.
LEMMA FinishEnds == Finish => pc' = save.after /\ save' = NoConfig
BY DEF Finish

\* A put stores the next key.  It is the last one, or a string that reports no
\* success, or the save goes on.
LEMMA PutCases ==
    ASSUME TypeOK, Inv, Put
    PROVE  \E k \in KeysOf(KeySeq(save.ns)) :
            LET v == save.cfg[k] IN
            /\ nvs' = Stored(save.ns, k, v)
            /\ apOffPosted' = (apOffPosted \/ (k = "accesspoint" /\ ~v))
            /\ \A ns \in Namespace \ {save.ns} : saved'[ns] = saved[ns]
            /\ DOMAIN saved' = Namespace
            /\ \/ /\ ReportsSuccess(k, v) /\ pc' = save.after /\ save' = NoConfig
                  /\ saved'[save.ns] = save.cfg
                  /\ \A j \in KeysOf(KeySeq(save.ns)) :
                        j \in DOMAIN nvs'[save.ns] /\ nvs'[save.ns][j] = save.cfg[j]
               \/ /\ ~ReportsSuccess(k, v) /\ pc' = save.after /\ save' = NoConfig
                  /\ saved'[save.ns] = NoConfig
               \/ /\ pc' = "save" /\ save' # NoConfig /\ saved'[save.ns] = NoConfig
                  /\ DOMAIN save' = {"ns", "cfg", "after", "left"}
                  /\ save'.ns = save.ns /\ save'.cfg = save.cfg /\ save'.after = save.after
                  /\ save'.left # <<>> /\ SavePuts'
<1> DEFINE q == KeySeq(save.ns)
           k == Head(save.left)
           v == save.cfg[k]
           done == Len(save.left) = 1 /\ ReportsSuccess(k, v)
<1>1. pc = "save" /\ save.ns \in Namespace /\ DOMAIN save = {"ns", "cfg", "after", "left"}
    BY DEF Put, TypeOK, Inv, SaveShape
<1>2. /\ nvs' = Stored(save.ns, k, v)
      /\ saved' = [saved EXCEPT ![save.ns] = IF done THEN save.cfg ELSE NoConfig]
      /\ apOffPosted' = (apOffPosted \/ (k = "accesspoint" /\ ~v))
      /\ IF done \/ ~ReportsSuccess(k, v) THEN Finish
         ELSE save' = [save EXCEPT !.left = Tail(@)] /\ UNCHANGED pc
    BY DEF Put
<1>3. PICK i \in 1..Len(q) : save.left = SubSeq(q, i, Len(q)) /\ PutsDone(i)
    BY <1>1 DEF Inv, SavePuts
<1>4. /\ q \in Seq(KeysOf(q)) /\ Len(q) \in Nat /\ i \in Nat /\ Len(q) \in i..Len(q)
      /\ KeysOf(q) = {q[j] : j \in 1..Len(q)}
      /\ \A j \in i..Len(q) : q[j] \in KeysOf(q)
    <2>1. /\ q \in Seq(KeysOf(q)) /\ Len(q) \in Nat
          /\ KeysOf(q) = {q[j] : j \in 1..Len(q)}
        BY <1>1, KeySeqType
    <2> HIDE DEF q
    <2>2. i \in Nat /\ Len(q) \in i..Len(q)
        BY <1>3, <2>1
    <2>3. \A j \in i..Len(q) : j \in 1..Len(q)
        BY <1>3, <2>1
    <2> QED BY <2>1, <2>2, <2>3
<1>5. /\ k = q[i] /\ Tail(save.left) = SubSeq(q, i + 1, Len(q))
      /\ Len(save.left) = Len(q) - i + 1 /\ k \in KeysOf(q)
    <2>1. k = q[i] /\ Tail(save.left) = SubSeq(q, i + 1, Len(q))
        BY <1>3, <1>4, HeadTailOfSubSeq
    <2>2. Len(save.left) = Len(q) - i + 1
        <3> HIDE DEF q
        <3>1. i \in Int /\ Len(q) \in Int /\ i <= Len(q)
            BY <1>4
        <3>2. Len(SubSeq(q, i, Len(q))) = Len(q) - i + 1
            BY <1>4, <3>1, SubSeqProperties
        <3> QED BY <1>3, <3>2
    <2> QED BY <1>3, <1>4, <2>1, <2>2
<1> HIDE DEF q, k, v
<1>6. /\ DOMAIN nvs' = Namespace
      /\ DOMAIN nvs'[save.ns] = DOMAIN nvs[save.ns] \cup {k}
      /\ nvs'[save.ns][k] = v
      /\ \A j \in DOMAIN nvs[save.ns] : j # k => nvs'[save.ns][j] = nvs[save.ns][j]
    <2>1. DOMAIN nvs = Namespace
        BY DEF TypeOK
    <2> QED BY <1>1, <1>2, <2>1, StoredType
<1>7. \A j \in 1..i : q[j] \in DOMAIN nvs'[save.ns] /\ nvs'[save.ns][q[j]] = save.cfg[q[j]]
    <2> TAKE j \in 1..i
    <2>1. CASE q[j] = k
        BY <1>6, <2>1 DEF v
    <2>2. CASE q[j] # k
        <3>1. j \in 1..i - 1
            BY <1>3, <1>4, <1>5, <2>2
        <3>2. q[j] \in DOMAIN nvs[save.ns] /\ nvs[save.ns][q[j]] = save.cfg[q[j]]
            BY <1>3, <3>1 DEF PutsDone, q
        <3> QED BY <1>6, <2>2, <3>2
    <2> QED BY <2>1, <2>2
<1>8. /\ \A ns \in Namespace \ {save.ns} : saved'[ns] = saved[ns]
      /\ DOMAIN saved' = Namespace
      /\ saved'[save.ns] = IF done THEN save.cfg ELSE NoConfig
    BY <1>1, <1>2 DEF TypeOK
<1>9. CASE done
    <2>1. i = Len(q)
        BY <1>3, <1>4, <1>5, <1>9
    <2>2. \A j \in KeysOf(q) : j \in DOMAIN nvs'[save.ns] /\ nvs'[save.ns][j] = save.cfg[j]
        BY <1>4, <1>7, <2>1
    <2>3. ReportsSuccess(k, v) /\ pc' = save.after /\ save' = NoConfig /\ saved'[save.ns] = save.cfg
        BY <1>2, <1>8, <1>9, FinishEnds
    <2> QED BY <1>2, <1>5, <1>8, <2>2, <2>3 DEF v, q
<1>10. CASE ~ReportsSuccess(k, v)
    <2>1. pc' = save.after /\ save' = NoConfig /\ saved'[save.ns] = NoConfig
        BY <1>2, <1>8, <1>10, FinishEnds
    <2> QED BY <1>2, <1>5, <1>8, <1>10, <2>1 DEF v, q
<1>11. CASE ~done /\ ReportsSuccess(k, v)
    <2>1. save' = [save EXCEPT !.left = Tail(@)] /\ pc' = pc /\ saved'[save.ns] = NoConfig
        BY <1>2, <1>8, <1>11
    <2>2. /\ DOMAIN save' = {"ns", "cfg", "after", "left"}
          /\ save'.ns = save.ns /\ save'.cfg = save.cfg /\ save'.after = save.after
          /\ save'.left = SubSeq(q, i + 1, Len(q))
        BY <1>1, <1>5, <2>1
    <2>3. i + 1 \in 1..Len(q) /\ i + 1 - 1 = i
        BY <1>3, <1>4, <1>5, <1>11
    <2>4. save'.left # <<>>
        <3>1. \A j \in i + 1 .. Len(q) : q[j] \in KeysOf(q)
            BY <1>4
        <3>2. Len(SubSeq(q, i + 1, Len(q))) = Len(q) - (i + 1) + 1
            BY <1>4, <2>3, <3>1, SubSeqProperties
        <3>3. Len(q) - (i + 1) + 1 # 0
            BY <1>4, <2>3
        <3> QED BY <2>2, <3>2, <3>3, EmptySeq
    <2>5. PutsDone(i + 1)'
        BY <1>7, <2>2, <2>3 DEF PutsDone, q
    <2>6. SavePuts'
        BY <2>2, <2>3, <2>5 DEF SavePuts, q
    <2>7. save' # NoConfig
        BY <2>2, SomeConfig
    <2> QED BY <1>1, <1>2, <1>5, <1>8, <2>1, <2>2, <2>4, <2>6, <2>7 DEF v, q
<1> QED BY <1>9, <1>10, <1>11

\* Beginning a save keeps what is said of saves, of NVS and of saved.
LEMMA SaveKeeps ==
    ASSUME TypeOK, Inv, NEW ns \in Namespace, NEW cfg, NEW after,
           pc \in {"gnss", "wifi", "serve"}, Save(ns, cfg, after),
           UNCHANGED <<nvs, saved, failed, apOffPosted>>,
           \/ ns = "gnss" /\ after \in {"wifi", "serve"}
           \/ ns = "wifi" /\ after \in {"accesspoint", "serve"},
           ns = "gnss" => cfg = [k \in KeysOf(GnssKeys) |-> cfg[k]],
           ns = "wifi" /\ Savable(ns, cfg) => /\ WifiGood(cfg)
                                              /\ failed.wifi = "never" => cfg.pass # Mask,
           after = "accesspoint" => cfg = WifiDefaults /\ saved.wifi \in {NoConfig, WifiDefaults}
    PROVE  /\ SaveShape' /\ SaveCfg' /\ SavePuts' /\ NvsGood' /\ SavedIsStored'
           /\ pc' \in {after, "save"} /\ (pc' = "save" <=> save' # NoConfig)
           /\ pc' = "save" => save'.ns = ns /\ save'.cfg = cfg /\ save'.after = after
                              /\ save'.left # <<>>
           /\ ~Savable(ns, cfg) => pc' = after /\ save' = save
<1>1. NvsGood'
    BY DEF Inv, NvsGood, MaskNotStored
<1>2. /\ saved'.gnss # NoConfig => saved'.gnss = nvs'.gnss /\ DOMAIN nvs'.gnss = KeysOf(GnssKeys)
      /\ saved'.wifi # NoConfig => saved'.wifi = nvs'.wifi /\ WifiGood(nvs'.wifi)
    BY DEF Inv, SavedIsStored
<1>3. CASE ~Savable(ns, cfg) /\ pc' = after /\ save' = save
    <2>1. pc' # "save" /\ save' = NoConfig /\ (after = "accesspoint" <=> pc' = "accesspoint")
        BY <1>3 DEF TypeOK
    <2>2. SaveShape' /\ SaveCfg' /\ SavePuts'
        BY <2>1 DEF SaveShape, SaveCfg, SavePuts
    <2>3. SavedIsStored'
        BY <1>2, <2>1 DEF SavedIsStored, Seeding
    <2> QED BY <1>1, <1>3, <2>1, <2>2, <2>3
<1>4. CASE /\ Savable(ns, cfg) /\ pc' = "save" /\ save' # NoConfig
           /\ DOMAIN save' = {"ns", "cfg", "after", "left"}
           /\ save'.ns = ns /\ save'.cfg = cfg /\ save'.after = after
           /\ save'.left # <<>> /\ SavePuts'
    <2>1. SaveShape'
        BY <1>4 DEF SaveShape
    <2>2. SaveCfg'
        BY <1>4 DEF SaveCfg
    <2>3. SavedIsStored'
        BY <1>2, <1>4 DEF SavedIsStored, Seeding
    <2> QED BY <1>1, <1>4, <2>1, <2>2, <2>3
<1> QED BY <1>3, <1>4, SaveStarts

\* GnssLoad is a configuration.
LEMMA GnssLoadType ==
    ASSUME TypeOK
    PROVE  DOMAIN GnssLoad = KeysOf(GnssKeys) /\ GnssLoad # NoConfig
<1>1. DOMAIN GnssDefaults = KeysOf(GnssKeys)
    BY KeyNames DEF GnssDefaults
<1>2. GnssHasData => DOMAIN nvs.gnss = KeysOf(GnssKeys)
    BY DEF TypeOK, GnssHasData
<1>3. DOMAIN GnssLoad = KeysOf(GnssKeys)
    BY <1>1, <1>2 DEF GnssLoad
<1>4. KeysOf(GnssKeys) # {}
    BY KeyNames
<1> QED BY <1>3, <1>4, SomeConfig

\* An erased NVS.
LEMMA InitIInv == Init => IInv
<1> SUFFICES ASSUME Init PROVE IInv
    OBVIOUS
<1>1. /\ DOMAIN nvs = Namespace /\ nvs.gnss = <<>> /\ nvs.wifi = <<>>
      /\ DOMAIN saved = Namespace /\ saved.gnss = NoConfig /\ saved.wifi = NoConfig
      /\ DOMAIN <<>> = {}
    BY DEF Init, Namespace
<1>2. {softAp, apOffPosted} \subseteq BOOLEAN
    BY Zenon DEF Init
<1>3. failed \in [Namespace -> {"never", "now", "before"}] /\ posts \in 0..MaxPosts
    BY MaxPostsAssumption DEF Init
<1>4. TypeOK
    BY <1>1, <1>2, <1>3 DEF Init, TypeOK
<1>5. SaveShape /\ SaveCfg /\ SavePuts
    BY DEF Init, SaveShape, SaveCfg, SavePuts
<1>6. NvsGood
    BY <1>1 DEF NvsGood, MaskNotStored
<1>7. SavedIsStored
    BY <1>1 DEF Init, SavedIsStored, Seeding
<1>8. HasWifi /\ ApShown /\ UartKnown
    BY DEF Init, HasWifi, ApShown, UartKnown, Serving
<1> QED BY <1>4, <1>5, <1>6, <1>7, <1>8 DEF IInv, Inv

--------------------------------------------------------------------------------
(* setup().                                                                *)

\* Seeding the GNSS namespace.
LEMMA BootGnssIInv == IInv /\ BootGnss => IInv'
<1> SUFFICES ASSUME TypeOK, Inv, BootGnss PROVE TypeOK' /\ Inv'
    BY DEF IInv
<1>1. pc = "gnss" /\ UNCHANGED <<nvs, uart, station, softAp, saved, failed, apOffPosted, posts>>
    BY DEF BootGnss, ram, ghost
<1>2. save = NoConfig
    BY <1>1 DEF TypeOK
<1>3. CASE pc' = "wifi" /\ save' = save
    <2>1. TypeOK'
        BY <1>1, <1>2, <1>3 DEF TypeOK
    <2>2. SaveShape' /\ SaveCfg' /\ SavePuts'
        BY <1>3 DEF SaveShape, SaveCfg, SavePuts
    <2>3. NvsGood' /\ SavedIsStored'
        BY <1>1, <1>3 DEF Inv, NvsGood, MaskNotStored, SavedIsStored, Seeding
    <2>4. HasWifi' /\ ApShown' /\ UartKnown'
        BY <1>3 DEF HasWifi, ApShown, UartKnown, Serving
    <2> QED BY <2>1, <2>2, <2>3, <2>4 DEF Inv
<1>4. CASE Save("gnss", GnssDefaults, "wifi")
    <2>1. /\ SaveShape' /\ SaveCfg' /\ SavePuts' /\ NvsGood' /\ SavedIsStored'
          /\ pc' \in {"wifi", "save"} /\ (pc' = "save" <=> save' # NoConfig)
          /\ pc' = "save" => save'.ns = "gnss" /\ save'.after = "wifi" /\ save'.left # <<>>
        BY <1>1, <1>4, SaveKeeps, Defaults DEF Namespace
    <2>2. TypeOK'
        BY <1>1, <2>1 DEF TypeOK, Namespace
    <2>3. HasWifi' /\ ApShown' /\ UartKnown'
        BY <2>1 DEF HasWifi, ApShown, UartKnown, Serving
    <2> QED BY <2>1, <2>2, <2>3 DEF Inv
<1> QED BY <1>3, <1>4 DEF BootGnss

\* Seeding the WiFi namespace.
LEMMA BootWifiIInv == IInv /\ BootWifi => IInv'
<1> SUFFICES ASSUME TypeOK, Inv, BootWifi PROVE TypeOK' /\ Inv'
    BY DEF IInv
<1>1. pc = "wifi" /\ UNCHANGED <<nvs, uart, station, softAp, saved, failed, apOffPosted, posts>>
    BY DEF BootWifi, ram, ghost
<1>2. save = NoConfig
    BY <1>1 DEF TypeOK
<1>3. CASE WifiHasData /\ pc' = "uart" /\ save' = save
    <2>1. TypeOK'
        BY <1>1, <1>2, <1>3 DEF TypeOK
    <2>2. SaveShape' /\ SaveCfg' /\ SavePuts'
        BY <1>3 DEF SaveShape, SaveCfg, SavePuts
    <2>3. NvsGood' /\ SavedIsStored'
        BY <1>1, <1>3 DEF Inv, NvsGood, MaskNotStored, SavedIsStored, Seeding
    <2>4. HasWifi'
        BY <1>1, <1>3 DEF HasWifi, WifiHasData
    <2>5. ApShown' /\ UartKnown'
        BY <1>3 DEF ApShown, UartKnown, Serving
    <2> QED BY <2>1, <2>2, <2>3, <2>4, <2>5 DEF Inv
<1>4. CASE ~WifiHasData /\ Save("wifi", WifiDefaults, "accesspoint")
    <2>1. saved.wifi = NoConfig
        <3>1. WifiGood(nvs.wifi) => WifiHasData
            BY DEF WifiGood, WifiHasData
        <3> QED BY <1>4, <3>1 DEF Inv, SavedIsStored
    <2>2. /\ SaveShape' /\ SaveCfg' /\ SavePuts' /\ NvsGood' /\ SavedIsStored'
          /\ pc' \in {"accesspoint", "save"} /\ (pc' = "save" <=> save' # NoConfig)
          /\ pc' = "save" => save'.ns = "wifi" /\ save'.after = "accesspoint" /\ save'.left # <<>>
        BY <1>1, <1>4, <2>1, SaveKeeps, DefaultsGood DEF Namespace
    <2>3. pc' = "save"
        BY <1>4, DefaultsGood DEF Save
    <2>4. TypeOK'
        BY <1>1, <2>2 DEF TypeOK, Namespace
    <2>5. HasWifi' /\ ApShown' /\ UartKnown'
        BY <2>2, <2>3 DEF HasWifi, ApShown, UartKnown, Serving
    <2> QED BY <2>2, <2>4, <2>5 DEF Inv
<1> QED BY <1>3, <1>4 DEF BootWifi

\* The additional put of accesspoint does not change what was saved.
LEMMA SeedAccessPointIInv == IInv /\ SeedAccessPoint => IInv'
<1> SUFFICES ASSUME TypeOK, Inv, SeedAccessPoint PROVE TypeOK' /\ Inv'
    BY DEF IInv
<1>1. /\ pc = "accesspoint" /\ pc' = "uart" /\ save = NoConfig
      /\ UNCHANGED <<save, uart, station, softAp, saved, apOffPosted, posts>>
    BY DEF SeedAccessPoint, ram, TypeOK
<1>2. SaveShape' /\ SaveCfg' /\ SavePuts' /\ ApShown' /\ UartKnown'
    BY <1>1 DEF SaveShape, SaveCfg, SavePuts, ApShown, UartKnown, Serving
<1>3. CASE nvs' = Stored("wifi", "accesspoint", TRUE) /\ failed' = failed
    <2>1. /\ DOMAIN nvs' = Namespace /\ nvs'.gnss = nvs.gnss
          /\ DOMAIN nvs'.wifi = DOMAIN nvs.wifi \cup {"accesspoint"}
          /\ nvs'.wifi.accesspoint = TRUE
          /\ \A j \in DOMAIN nvs.wifi : j # "accesspoint" => nvs'.wifi[j] = nvs.wifi[j]
        <3>1. DOMAIN nvs = Namespace /\ Namespace = {"gnss", "wifi"}
            BY DEF TypeOK, Namespace
        <3>2. /\ "wifi" \in Namespace /\ "gnss" \in Namespace \ {"wifi"}
            BY <3>1
        <3>3. nvs' = Stored("wifi", "accesspoint", TRUE)
            BY <1>3
        <3>4. /\ DOMAIN nvs' = Namespace
              /\ DOMAIN nvs'["wifi"] = DOMAIN nvs["wifi"] \cup {"accesspoint"}
              /\ nvs'["wifi"]["accesspoint"] = TRUE
              /\ \A j \in DOMAIN nvs["wifi"] :
                    j # "accesspoint" => nvs'["wifi"][j] = nvs["wifi"][j]
              /\ \A n \in Namespace \ {"wifi"} : nvs'[n] = nvs[n]
            BY <3>1, <3>2, <3>3, StoredType
        <3> QED BY <3>2, <3>4
    <2>2. TypeOK'
        BY <1>1, <1>3, <2>1, KeyNames DEF TypeOK
    <2>3. NvsGood'
        BY <1>1, <1>3, <2>1 DEF Inv, NvsGood, MaskNotStored
    <2>4. saved.wifi # NoConfig => nvs'.wifi = saved.wifi
        <3> SUFFICES ASSUME saved.wifi # NoConfig PROVE nvs'.wifi = saved.wifi
            OBVIOUS
        <3>1. saved.wifi = WifiDefaults /\ saved.wifi = nvs.wifi /\ WifiGood(nvs.wifi)
            BY <1>1 DEF Inv, SavedIsStored, Seeding
        <3>2. /\ nvs.wifi.accesspoint = TRUE /\ DOMAIN nvs.wifi = KeysOf(WifiKeys)
              /\ nvs.wifi = [k \in KeysOf(WifiKeys) |-> nvs.wifi[k]]
              /\ "accesspoint" \in KeysOf(WifiKeys)
            BY <3>1, DefaultsGood, KeyNames DEF WifiGood
        <3>3. \A j \in KeysOf(WifiKeys) : j \in DOMAIN nvs'.wifi /\ nvs'.wifi[j] = nvs.wifi[j]
            BY <2>1, <3>2
        <3>4. DOMAIN nvs = Namespace /\ "wifi" \in Namespace
            BY DEF TypeOK, Namespace
        <3>5. DOMAIN nvs'.wifi = KeysOf(WifiKeys)
            BY <2>1, <3>2
        <3>6. nvs'.wifi = [j \in KeysOf(WifiKeys) |-> nvs'.wifi[j]]
            <4>1. nvs'.wifi = [j \in DOMAIN nvs.wifi \cup {"accesspoint"} |->
                                 IF j = "accesspoint" THEN TRUE ELSE nvs.wifi[j]]
                BY <1>3, <3>4 DEF Stored
            <4> QED BY <3>5, <4>1
        <3> QED BY <3>1, <3>2, <3>3, <3>6
    <2>5. SavedIsStored'
        BY <1>1, <2>1, <2>4 DEF Inv, SavedIsStored, Seeding
    <2>6. HasWifi'
        BY <1>1, <1>3, <2>1 DEF Inv, HasWifi, WifiHasData
    <2> QED BY <1>2, <2>2, <2>3, <2>5, <2>6 DEF Inv
<1>4. CASE nvs' = nvs /\ failed' = [failed EXCEPT !.wifi = "now"]
    <2>1. failed' \in [Namespace -> {"never", "now", "before"}] /\ failed'.wifi = "now"
        BY <1>4 DEF TypeOK, Namespace
    <2>2. TypeOK'
        BY <1>1, <1>4, <2>1 DEF TypeOK
    <2>3. NvsGood' /\ SavedIsStored'
        BY <1>1, <1>4, <2>1 DEF Inv, NvsGood, MaskNotStored, SavedIsStored, Seeding
    <2>4. HasWifi'
        BY <2>1 DEF HasWifi
    <2> QED BY <1>2, <2>2, <2>3, <2>4 DEF Inv
<1> QED BY <1>3, <1>4 DEF SeedAccessPoint

\* setupUART takes what is stored, if it is a configuration.
LEMMA SetupUartIInv == IInv /\ SetupUart => IInv'
<1> SUFFICES ASSUME TypeOK, Inv, SetupUart PROVE TypeOK' /\ Inv'
    BY DEF IInv
<1>1. /\ pc = "uart" /\ pc' = "station" /\ save = NoConfig
      /\ uart' = IF Configured(GnssLoad) THEN GnssLoad ELSE NoConfig
      /\ UNCHANGED <<nvs, save, station, softAp, saved, failed, apOffPosted, posts>>
    BY DEF SetupUart, ghost, TypeOK
<1>2. TypeOK'
    BY <1>1, GnssLoadType DEF TypeOK
<1>3. SaveShape' /\ SaveCfg' /\ SavePuts' /\ ApShown'
    BY <1>1 DEF SaveShape, SaveCfg, SavePuts, ApShown, Serving
<1>4. NvsGood' /\ SavedIsStored'
    BY <1>1 DEF Inv, NvsGood, MaskNotStored, SavedIsStored, Seeding
<1>5. HasWifi'
    BY <1>1 DEF Inv, HasWifi, WifiHasData
<1>6. UartKnown'
    <2>1. GnssLoad' = GnssLoad
        BY <1>1 DEF GnssLoad, GnssHasData
    <2>2. GnssLoad \notin {NoConfig, CorePins}
        BY GnssLoadType, SomeWiring
    <2>3. UartAgrees'
        BY <1>1, <2>1, <2>2 DEF UartAgrees, Configured
    <2> QED BY <1>1, <2>3 DEF UartKnown
<1> QED BY <1>2, <1>3, <1>4, <1>5, <1>6 DEF Inv

\* setupWiFi takes what is stored and shows the softAP unless a POST hid it.
LEMMA SetupWifiIInv == IInv /\ SetupWifi => IInv'
<1> SUFFICES ASSUME TypeOK, Inv, SetupWifi PROVE TypeOK' /\ Inv'
    BY DEF IInv
<1>1. /\ pc = "station" /\ pc' = "serve" /\ save = NoConfig
      /\ softAp' = SoftApEnabled
      /\ station' = IF WifiLoad # NoConfig THEN WifiLoad ELSE BuiltIn
      /\ UNCHANGED <<nvs, save, uart, saved, failed, apOffPosted, posts>>
    BY DEF SetupWifi, ghost, TypeOK
<1>2. {softAp', apOffPosted'} \subseteq BOOLEAN
    BY <1>1 DEF SoftApEnabled, TypeOK
<1>3. DOMAIN station' = KeysOf(WifiKeys)
    BY <1>1, Loads, BodiesAssumption
<1>4. TypeOK'
    BY <1>1, <1>2, <1>3 DEF TypeOK
<1>5. SaveShape' /\ SaveCfg' /\ SavePuts'
    BY <1>1 DEF SaveShape, SaveCfg, SavePuts
<1>6. NvsGood' /\ SavedIsStored'
    BY <1>1 DEF Inv, NvsGood, MaskNotStored, SavedIsStored, Seeding
<1>7. HasWifi'
    BY <1>1 DEF Inv, HasWifi, WifiHasData
<1>8. ApShown'
    BY <1>1 DEF Inv, NvsGood, ApShown, SoftApEnabled
<1>9. UartKnown'
    BY <1>1 DEF Inv, UartKnown, UartAgrees, GnssLoad, GnssHasData
<1> QED BY <1>4, <1>5, <1>6, <1>7, <1>8, <1>9 DEF Inv

\* A reboot keeps NVS and forgets the rest.
LEMMA RebootIInv == IInv /\ Reboot => IInv'
<1> SUFFICES ASSUME TypeOK, Inv, Reboot PROVE TypeOK' /\ Inv'
    BY DEF IInv
<1>1. /\ pc' = "gnss" /\ save' = NoConfig /\ uart' = NoConfig /\ station' = NoConfig
      /\ softAp' = FALSE /\ UNCHANGED <<nvs, saved, apOffPosted, posts>>
      /\ failed' = [ns \in Namespace |-> IF failed[ns] = "never" THEN "never" ELSE "before"]
    BY DEF Reboot
<1>2. failed' \in [Namespace -> {"never", "now", "before"}]
      /\ (failed'.wifi = "never" => failed.wifi = "never")
    BY <1>1 DEF Namespace
<1>3. {softAp', apOffPosted'} \subseteq BOOLEAN
    BY <1>1, Zenon DEF TypeOK
<1>4. TypeOK'
    BY <1>1, <1>2, <1>3 DEF TypeOK
<1>5. SaveShape' /\ SaveCfg' /\ SavePuts'
    BY <1>1 DEF SaveShape, SaveCfg, SavePuts
<1>6. NvsGood' /\ SavedIsStored'
    BY <1>1, <1>2 DEF Inv, NvsGood, MaskNotStored, SavedIsStored, Seeding
<1>7. HasWifi' /\ ApShown' /\ UartKnown'
    BY <1>1 DEF HasWifi, ApShown, UartKnown, Serving
<1> QED BY <1>4, <1>5, <1>6, <1>7 DEF Inv

--------------------------------------------------------------------------------
(* Saves and requests.                                                     *)

\* A failed put ends the save and leaves NVS.
LEMMA PutFailsIInv == IInv /\ PutFails => IInv'
<1> SUFFICES ASSUME TypeOK, Inv, PutFails PROVE TypeOK' /\ Inv'
    BY DEF IInv
<1>1. /\ pc = "save" /\ pc' = save.after /\ save' = NoConfig
      /\ failed' = [failed EXCEPT ![save.ns] = "now"]
      /\ UNCHANGED <<nvs, uart, station, softAp, saved, apOffPosted, posts>>
    BY DEF PutFails, Finish, ram
<1>2. \/ save.ns = "gnss" /\ save.after \in {"wifi", "serve"}
      \/ save.ns = "wifi" /\ save.after \in {"accesspoint", "serve"}
    BY <1>1 DEF Inv, SaveShape
<1>3. /\ failed' \in [Namespace -> {"never", "now", "before"}]
      /\ failed'.wifi = "never" => failed.wifi = "never"
      /\ failed'.wifi # "now" => save.ns = "gnss" /\ failed.wifi # "now"
      /\ failed'.gnss # "now" => save.ns = "wifi" /\ failed.gnss # "now"
    BY <1>1, <1>2 DEF TypeOK, Namespace
<1>4. pc' \in {"wifi", "accesspoint", "serve"} /\ (Seeding' => Seeding) /\ (Serving' => Serving)
    BY <1>1, <1>2 DEF Seeding, Serving
<1>5. TypeOK'
    BY <1>1, <1>3, <1>4 DEF TypeOK
<1>6. SaveShape' /\ SaveCfg' /\ SavePuts'
    BY <1>4 DEF SaveShape, SaveCfg, SavePuts
<1>7. NvsGood'
    BY <1>1, <1>3 DEF Inv, NvsGood, MaskNotStored
<1>8. SavedIsStored'
    BY <1>1, <1>4 DEF Inv, SavedIsStored
<1>9. HasWifi'
    BY <1>1, <1>2, <1>3, <1>4 DEF Inv, HasWifi, WifiHasData
<1>10. ApShown'
    BY <1>1, <1>4 DEF Inv, ApShown
<1>11. UartKnown'
    BY <1>1, <1>3, <1>4 DEF Inv, UartKnown, UartAgrees, GnssLoad, GnssHasData
<1> QED BY <1>5, <1>6, <1>7, <1>8, <1>9, <1>10, <1>11 DEF Inv

\* POST /api/config: what Serial1 is switched to is what the save will store.
LEMMA PostUartIInv ==
    ASSUME NEW body \in UartBodies
    PROVE  IInv /\ PostUart(body) => IInv'
<1> SUFFICES ASSUME TypeOK, Inv, PostUart(body) PROVE TypeOK' /\ Inv'
    BY DEF IInv
<1>1. /\ pc = "serve" /\ Counted /\ uart' = Begun(body) /\ Save("gnss", body, "serve")
      /\ UNCHANGED <<nvs, station, softAp, saved, failed, apOffPosted>>
    BY DEF PostUart, ghost
<1>2. body = [k \in KeysOf(GnssKeys) |-> body[k]] /\ DOMAIN body = KeysOf(GnssKeys)
    BY BodiesAssumption
<1>3. /\ SaveShape' /\ SaveCfg' /\ SavePuts' /\ NvsGood' /\ SavedIsStored'
      /\ pc' \in {"serve", "save"} /\ (pc' = "save" <=> save' # NoConfig)
      /\ pc' = "save" => save'.ns = "gnss" /\ save'.cfg = body /\ save'.after = "serve"
                         /\ save'.left # <<>>
      /\ ~Savable("gnss", body) => pc' = "serve" /\ save' = save
    BY <1>1, <1>2, SaveKeeps DEF Namespace
<1>4. pc' = "save"
    BY <1>1 DEF Save, Savable
<1>5. posts' \in 0..MaxPosts
    BY <1>1, MaxPostsAssumption DEF Counted, TypeOK
<1>6. TypeOK'
    <2>1. uart' \notin {NoConfig, CorePins} => DOMAIN uart' = KeysOf(GnssKeys)
        BY <1>1, <1>2 DEF Begun
    <2> QED BY <1>1, <1>2, <1>3, <1>5, <2>1 DEF TypeOK, Namespace
<1>7. HasWifi'
    BY <1>1, <1>3 DEF Inv, HasWifi, WifiHasData, Serving
<1>8. ApShown' /\ UartKnown'
    BY <1>1, <1>3, <1>4 DEF Inv, ApShown, UartKnown, Serving
<1> QED BY <1>3, <1>6, <1>7, <1>8 DEF Inv

\* POST /api/wifi_config: what the save will store can be loaded again, and its
\* password is not the mask.
LEMMA PostWifiIInv ==
    ASSUME NEW body \in WifiBodies
    PROVE  IInv /\ PostWifi(body) => IInv'
<1> SUFFICES ASSUME TypeOK, Inv, PostWifi(body) PROVE TypeOK' /\ Inv'
    BY DEF IInv
<1> DEFINE cfg == [k \in KeysOf(WifiKeys) |->
                     CASE k = "pass"                    -> KeptPass(body)
                       [] k \in AddrKeys /\ body.dhcp -> ZeroIp
                       [] OTHER                         -> body[k]]
<1>1. /\ pc = "serve" /\ Counted /\ cfg.ssid # Empty /\ Save("wifi", cfg, "serve")
      /\ UNCHANGED <<nvs, uart, station, softAp, saved, failed, apOffPosted>>
    BY DEF PostWifi, ram, ghost
<1>2. cfg = [k \in KeysOf(WifiKeys) |-> cfg[k]]
    OBVIOUS
<1>3. cfg.pass = KeptPass(body) /\ cfg.dhcp = body.dhcp
    BY KeyNames DEF AddrKeys
<1>4. ASSUME body.dhcp, NEW k \in AddrKeys PROVE cfg[k] = ZeroIp
    <2>1. k \in KeysOf(WifiKeys) /\ k # "pass"
        BY KeyNames DEF AddrKeys
    <2> QED BY <1>4, <2>1
<1> HIDE DEF cfg
<1>5. WifiGood(cfg)
    BY <1>1, <1>2, <1>3, <1>4 DEF WifiGood
<1>6. failed.wifi = "never" => cfg.pass # Mask
    <2> SUFFICES ASSUME failed.wifi = "never", body.pass = Mask PROVE KeptPass(body) # Mask
        BY <1>3 DEF KeptPass
    <2>1. WifiHasData
        BY <1>1 DEF Inv, HasWifi, Serving
    <2>2. "ssid" \in DOMAIN nvs.wifi /\ "pass" \in DOMAIN nvs.wifi
        BY <2>1, KeyNames DEF WifiHasData
    <2>3. nvs.wifi.ssid # Empty /\ nvs.wifi.pass # Mask
        BY <2>2 DEF Inv, NvsGood, MaskNotStored
    <2>4. WifiLoad # NoConfig /\ WifiLoad.pass = nvs.wifi.pass
        BY <2>1, <2>3, Loads
    <2> QED BY <2>3, <2>4 DEF KeptPass
<1>7. /\ SaveShape' /\ SaveCfg' /\ SavePuts' /\ NvsGood' /\ SavedIsStored'
      /\ pc' \in {"serve", "save"} /\ (pc' = "save" <=> save' # NoConfig)
      /\ pc' = "save" => save'.ns = "wifi" /\ save'.cfg = cfg /\ save'.after = "serve"
                         /\ save'.left # <<>>
    BY <1>1, <1>5, <1>6, SaveKeeps DEF Namespace
<1>8. posts' \in 0..MaxPosts
    BY <1>1, MaxPostsAssumption DEF Counted, TypeOK
<1>9. TypeOK'
    BY <1>1, <1>7, <1>8 DEF TypeOK, Namespace
<1>10. HasWifi'
    BY <1>1, <1>7 DEF Inv, HasWifi, WifiHasData, Serving
<1>11. ApShown' /\ UartKnown'
    BY <1>1, <1>7 DEF Inv, ApShown, UartKnown, UartAgrees, GnssLoad, GnssHasData, Serving
<1> QED BY <1>7, <1>9, <1>10, <1>11 DEF Inv

\* A put of a GNSS key.
LEMMA PutGnssIInv == IInv /\ Put /\ save.ns = "gnss" => IInv'
<1> SUFFICES ASSUME TypeOK, Inv, Put, save.ns = "gnss" PROVE TypeOK' /\ Inv'
    BY DEF IInv
<1>1. /\ pc = "save" /\ save.after \in {"wifi", "serve"}
      /\ save.cfg = [j \in KeysOf(GnssKeys) |-> save.cfg[j]]
      /\ UNCHANGED <<uart, station, softAp, failed, posts>>
    BY DEF Put, ram, Inv, SaveShape, SaveCfg
<1>2. PICK k \in KeysOf(GnssKeys) :
        /\ nvs' = Stored("gnss", k, save.cfg[k])
        /\ apOffPosted' = (apOffPosted \/ (k = "accesspoint" /\ ~save.cfg[k]))
        /\ \A ns \in Namespace \ {"gnss"} : saved'[ns] = saved[ns]
        /\ DOMAIN saved' = Namespace
        /\ \/ /\ pc' = save.after /\ save' = NoConfig /\ saved'.gnss = save.cfg
              /\ \A j \in KeysOf(GnssKeys) : j \in DOMAIN nvs'.gnss /\ nvs'.gnss[j] = save.cfg[j]
           \/ ~ReportsSuccess(k, save.cfg[k])
           \/ /\ pc' = "save" /\ save' # NoConfig /\ saved'.gnss = NoConfig
              /\ DOMAIN save' = {"ns", "cfg", "after", "left"}
              /\ save'.ns = "gnss" /\ save'.cfg = save.cfg /\ save'.after = save.after
              /\ save'.left # <<>> /\ SavePuts'
    <2>1. KeySeq(save.ns) = GnssKeys
        BY DEF KeySeq
    <2> QED BY <2>1, PutCases
<1>3. k # "accesspoint" /\ ReportsSuccess(k, save.cfg[k])
    BY KeyNames DEF ReportsSuccess
<1>4. /\ DOMAIN nvs' = Namespace /\ nvs'.wifi = nvs.wifi
      /\ DOMAIN nvs'.gnss \subseteq KeysOf(GnssKeys)
    <2>1. /\ DOMAIN nvs = Namespace /\ DOMAIN nvs.gnss \subseteq KeysOf(GnssKeys)
          /\ "gnss" \in Namespace /\ "wifi" \in Namespace \ {"gnss"}
        BY DEF TypeOK, Namespace
    <2> QED BY <1>2, <2>1, StoredType
<1>5. apOffPosted' = apOffPosted /\ {softAp', apOffPosted'} \subseteq BOOLEAN
    <2>1. apOffPosted \in BOOLEAN /\ softAp \in BOOLEAN
        BY DEF TypeOK
    <2> QED BY <1>1, <1>2, <1>3, <2>1, Zenon
<1>6. saved'.wifi = saved.wifi
    BY <1>2 DEF Namespace
<1>7. /\ NvsGood'
      /\ saved'.wifi # NoConfig => saved'.wifi = nvs'.wifi /\ WifiGood(nvs'.wifi)
    BY <1>1, <1>4, <1>5, <1>6 DEF Inv, NvsGood, MaskNotStored, SavedIsStored
<1>8. pc' \in {"wifi", "serve", "save"} /\ (Serving' => Serving) => HasWifi' /\ ApShown'
    BY <1>1, <1>4, <1>5 DEF Inv, HasWifi, WifiHasData, ApShown, Serving
<1>9. CASE /\ pc' = save.after /\ save' = NoConfig /\ saved'.gnss = save.cfg
           /\ \A j \in KeysOf(GnssKeys) : j \in DOMAIN nvs'.gnss /\ nvs'.gnss[j] = save.cfg[j]
    <2>1. nvs'.gnss = save.cfg /\ DOMAIN nvs'.gnss = KeysOf(GnssKeys)
        <3>1. DOMAIN nvs'.gnss = KeysOf(GnssKeys)
            BY <1>4, <1>9
        <3>2. nvs'.gnss = [j \in KeysOf(GnssKeys) |-> nvs'.gnss[j]]
            <4>1. DOMAIN nvs = Namespace /\ "gnss" \in Namespace
                BY DEF TypeOK, Namespace
            <4>2. nvs'.gnss = [j \in DOMAIN nvs.gnss \cup {k} |->
                                 IF j = k THEN save.cfg[k] ELSE nvs.gnss[j]]
                BY <1>2, <4>1 DEF Stored
            <4> QED BY <3>1, <4>2
        <3> QED BY <1>1, <1>9, <3>1, <3>2
    <2>2. pc' \in {"wifi", "serve"} /\ (Serving' => Serving) /\ ~Seeding'
        BY <1>1, <1>9 DEF Serving, Seeding
    <2>3. TypeOK'
        BY <1>1, <1>2, <1>4, <1>5, <1>9, <2>2 DEF TypeOK
    <2>4. SaveShape' /\ SaveCfg' /\ SavePuts'
        BY <2>2 DEF SaveShape, SaveCfg, SavePuts
    <2>5. SavedIsStored'
        BY <1>7, <1>9, <2>1, <2>2 DEF SavedIsStored
    <2>6. UartKnown'
        <3>1. GnssLoad' = save.cfg
            BY <2>1 DEF GnssLoad, GnssHasData
        <3>2. save.cfg \notin {NoConfig, CorePins} /\ CorePins # NoConfig
            <4>1. "pins" \in DOMAIN CorePins
                BY DEF CorePins
            <4> QED BY <2>1, <4>1, KeyNames, SomeConfig, SomeWiring
        <3>3. failed.gnss # "now" /\ save.after = "serve" => uart = Begun(save.cfg)
            BY <1>1 DEF Inv, UartKnown
        <3> QED BY <1>1, <1>9, <2>2, <3>1, <3>2, <3>3
                DEF UartKnown, UartAgrees, Begun, Configured
    <2> QED BY <1>7, <1>8, <2>2, <2>3, <2>4, <2>5, <2>6 DEF Inv
<1>10. CASE /\ pc' = "save" /\ save' # NoConfig /\ saved'.gnss = NoConfig
            /\ DOMAIN save' = {"ns", "cfg", "after", "left"}
            /\ save'.ns = "gnss" /\ save'.cfg = save.cfg /\ save'.after = save.after
            /\ save'.left # <<>> /\ SavePuts'
    <2>1. (Serving' => Serving) /\ ~Seeding'
        BY <1>1, <1>10 DEF Serving, Seeding
    <2>2. TypeOK'
        BY <1>1, <1>2, <1>4, <1>5, <1>10 DEF TypeOK, Namespace
    <2>3. SaveShape' /\ SaveCfg'
        BY <1>1, <1>10 DEF Inv, SaveShape, SaveCfg
    <2>4. SavedIsStored'
        BY <1>7, <1>10, <2>1 DEF SavedIsStored
    <2>5. UartKnown'
        BY <1>1, <1>10 DEF Inv, UartKnown
    <2> QED BY <1>7, <1>8, <1>10, <2>1, <2>2, <2>3, <2>4, <2>5 DEF Inv
<1> QED BY <1>2, <1>3, <1>9, <1>10

\* A put of a WiFi key.
LEMMA PutWifiIInv == IInv /\ Put /\ save.ns = "wifi" => IInv'
<1> SUFFICES ASSUME TypeOK, Inv, Put, save.ns = "wifi" PROVE TypeOK' /\ Inv'
    BY DEF IInv
<1>1. /\ pc = "save" /\ save.after \in {"accesspoint", "serve"} /\ WifiGood(save.cfg)
      /\ failed.wifi = "never" => save.cfg.pass # Mask
      /\ save.after = "accesspoint" => save.cfg = WifiDefaults
      /\ UNCHANGED <<uart, station, softAp, failed, posts>>
    <2>1. pc = "save" /\ UNCHANGED <<uart, station, softAp, failed, posts>>
        BY DEF Put, ram
    <2>2. save.after \in {"accesspoint", "serve"}
        BY <2>1 DEF Inv, SaveShape
    <2>3. SaveCfg
        BY DEF Inv
    <2>4. WifiGood(save.cfg) /\ (failed.wifi = "never" => save.cfg.pass # Mask)
        BY <2>1, <2>3 DEF SaveCfg
    <2>5. save.after = "accesspoint" => save.cfg = WifiDefaults
        BY <2>1, <2>3 DEF SaveCfg
    <2> QED BY <2>1, <2>2, <2>4, <2>5, Zenon
<1>2. PICK k \in KeysOf(WifiKeys) :
        /\ nvs' = Stored("wifi", k, save.cfg[k])
        /\ apOffPosted' = (apOffPosted \/ (k = "accesspoint" /\ ~save.cfg[k]))
        /\ \A ns \in Namespace \ {"wifi"} : saved'[ns] = saved[ns]
        /\ DOMAIN saved' = Namespace
        /\ \/ /\ pc' = save.after /\ save' = NoConfig /\ saved'.wifi = save.cfg
              /\ \A j \in KeysOf(WifiKeys) : j \in DOMAIN nvs'.wifi /\ nvs'.wifi[j] = save.cfg[j]
           \/ /\ ~ReportsSuccess(k, save.cfg[k]) /\ pc' = save.after /\ save' = NoConfig
              /\ saved'.wifi = NoConfig
           \/ /\ pc' = "save" /\ save' # NoConfig /\ saved'.wifi = NoConfig
              /\ DOMAIN save' = {"ns", "cfg", "after", "left"}
              /\ save'.ns = "wifi" /\ save'.cfg = save.cfg /\ save'.after = save.after
              /\ save'.left # <<>> /\ SavePuts'
    <2>1. KeySeq(save.ns) = WifiKeys
        BY DEF KeySeq
    <2> QED BY <2>1, PutCases
<1>3. /\ DOMAIN nvs = Namespace /\ "wifi" \in Namespace /\ "gnss" \in Namespace \ {"wifi"}
      /\ DOMAIN nvs.wifi \subseteq KeysOf(WifiKeys)
    BY DEF TypeOK, Namespace
<1>4. /\ DOMAIN nvs' = Namespace /\ nvs'.gnss = nvs.gnss
      /\ DOMAIN nvs'.wifi = DOMAIN nvs.wifi \cup {k}
      /\ nvs'.wifi[k] = save.cfg[k]
      /\ \A j \in DOMAIN nvs.wifi : j # k => nvs'.wifi[j] = nvs.wifi[j]
    BY <1>2, <1>3, StoredType
<1>5. {softAp', apOffPosted'} \subseteq BOOLEAN /\ (apOffPosted => apOffPosted')
    <2>1. apOffPosted \in BOOLEAN /\ softAp \in BOOLEAN
        BY DEF TypeOK
    <2> QED BY <1>1, <1>2, <2>1, Zenon
<1>6. saved'.gnss = saved.gnss /\ GnssLoad' = GnssLoad
    BY <1>2, <1>3, <1>4 DEF GnssLoad, GnssHasData
<1>7. NvsGood'
    <2>1. "ssid" \in DOMAIN nvs'.wifi => nvs'.wifi.ssid # Empty
        BY <1>1, <1>4 DEF WifiGood, Inv, NvsGood
    <2>2. "accesspoint" \in DOMAIN nvs'.wifi /\ ~nvs'.wifi.accesspoint => apOffPosted'
        <3>1. CASE k = "accesspoint"
            BY <1>2, <1>4, <3>1
        <3>2. CASE k # "accesspoint"
            BY <1>4, <1>5, <3>2 DEF Inv, NvsGood
        <3> QED BY <3>1, <3>2
    <2>3. MaskNotStored'
        BY <1>1, <1>4 DEF Inv, NvsGood, MaskNotStored
    <2> QED BY <2>1, <2>2, <2>3 DEF NvsGood
<1>8. saved'.gnss # NoConfig => saved'.gnss = nvs'.gnss /\ DOMAIN nvs'.gnss = KeysOf(GnssKeys)
    BY <1>4, <1>6 DEF Inv, SavedIsStored
<1>9. Serving => HasWifi' /\ ApShown'
    <2>1. Serving /\ failed.wifi # "now" => WifiHasData'
        BY <1>4 DEF Inv, HasWifi, WifiHasData
    <2>2. Serving /\ ~softAp => apOffPosted'
        BY <1>5 DEF Inv, ApShown
    <2> QED BY <1>1, <2>1, <2>2 DEF HasWifi, ApShown
<1>10. ASSUME Serving PROVE failed'.gnss # "now" => UartAgrees'
    <2>1. save.after = "serve"
        BY <1>1, <1>10 DEF Serving
    <2> QED BY <1>1, <1>6, <2>1 DEF Inv, UartKnown, UartAgrees
<1>11. ASSUME pc' = save.after, save' = NoConfig
       PROVE  TypeOK' /\ SaveShape' /\ SaveCfg' /\ SavePuts'
    <2>1. TypeOK'
        BY <1>1, <1>2, <1>3, <1>4, <1>5, <1>11 DEF TypeOK
    <2> QED BY <1>1, <1>11, <2>1 DEF SaveShape, SaveCfg, SavePuts
<1>12. ASSUME pc' = save.after, save.after = "serve" PROVE HasWifi' /\ ApShown' /\ UartKnown'
    <2>1. Serving /\ pc' = "serve"
        BY <1>1, <1>12 DEF Serving
    <2> QED BY <1>9, <1>10, <2>1 DEF UartKnown
<1>13. CASE /\ pc' = save.after /\ save' = NoConfig /\ saved'.wifi = save.cfg
            /\ \A j \in KeysOf(WifiKeys) : j \in DOMAIN nvs'.wifi /\ nvs'.wifi[j] = save.cfg[j]
    <2>1. nvs'.wifi = save.cfg /\ DOMAIN nvs'.wifi = KeysOf(WifiKeys)
        <3>1. DOMAIN nvs'.wifi = KeysOf(WifiKeys)
            BY <1>3, <1>4, <1>13
        <3>2. nvs'.wifi = [j \in KeysOf(WifiKeys) |-> nvs'.wifi[j]]
            <4>1. nvs'.wifi = [j \in DOMAIN nvs.wifi \cup {k} |->
                                 IF j = k THEN save.cfg[k] ELSE nvs.wifi[j]]
                BY <1>2, <1>3 DEF Stored
            <4> QED BY <3>1, <4>1
        <3> QED BY <1>1, <1>13, <3>1, <3>2 DEF WifiGood
    <2>2. SavedIsStored'
        BY <1>1, <1>8, <1>13, <2>1 DEF SavedIsStored, Seeding
    <2>3. save.after = "accesspoint" => HasWifi' /\ ApShown' /\ UartKnown'
        BY <1>13, <2>1 DEF HasWifi, WifiHasData, ApShown, UartKnown, Serving
    <2> QED BY <1>1, <1>7, <1>11, <1>12, <1>13, <2>2, <2>3 DEF Inv
<1>14. CASE /\ ~ReportsSuccess(k, save.cfg[k]) /\ pc' = save.after /\ save' = NoConfig
            /\ saved'.wifi = NoConfig
    <2>1. save.after = "serve"
        BY <1>1, <1>14, DefaultsGood
    <2>2. SavedIsStored'
        BY <1>8, <1>14, <2>1 DEF SavedIsStored, Seeding
    <2> QED BY <1>7, <1>11, <1>12, <1>14, <2>1, <2>2 DEF Inv
<1>15. CASE /\ pc' = "save" /\ save' # NoConfig /\ saved'.wifi = NoConfig
            /\ DOMAIN save' = {"ns", "cfg", "after", "left"}
            /\ save'.ns = "wifi" /\ save'.cfg = save.cfg /\ save'.after = save.after
            /\ save'.left # <<>> /\ SavePuts'
    <2>1. TypeOK'
        BY <1>1, <1>2, <1>3, <1>4, <1>5, <1>15 DEF TypeOK
    <2>2. SaveShape' /\ SaveCfg'
        BY <1>1, <1>15 DEF SaveShape, SaveCfg
    <2>3. SavedIsStored'
        BY <1>8, <1>15 DEF SavedIsStored
    <2>4. HasWifi' /\ ApShown' /\ UartKnown'
        <3>1. Serving' => Serving
            BY <1>1, <1>15 DEF Serving
        <3> QED BY <1>9, <1>10, <1>15, <3>1 DEF HasWifi, ApShown, UartKnown, Serving
    <2> QED BY <1>7, <1>15, <2>1, <2>2, <2>3, <2>4 DEF Inv
<1> QED BY <1>2, <1>13, <1>14, <1>15

--------------------------------------------------------------------------------
(* The invariant and what follows from it.                                 *)

\* Every step of the set-up, the web requests and the faults keeps the invariant.
LEMMA NextIInv == IInv /\ [Next]_vars => IInv'
<1> SUFFICES ASSUME IInv, [Next]_vars PROVE IInv'
    OBVIOUS
<1>1. CASE BootGnss
    BY <1>1, BootGnssIInv
<1>2. CASE BootWifi
    BY <1>2, BootWifiIInv
<1>3. CASE SeedAccessPoint
    BY <1>3, SeedAccessPointIInv
<1>4. CASE SetupUart
    BY <1>4, SetupUartIInv
<1>5. CASE SetupWifi
    BY <1>5, SetupWifiIInv
<1>6. CASE Put
    <2>1. save.ns = "gnss" \/ save.ns = "wifi"
        BY <1>6 DEF IInv, TypeOK, Namespace, Put
    <2> QED BY <1>6, <2>1, PutGnssIInv, PutWifiIInv
<1>7. CASE PutFails
    BY <1>7, PutFailsIInv
<1>8. CASE Reboot
    BY <1>8, RebootIInv
<1>9. CASE \E body \in UartBodies : PostUart(body)
    BY <1>9, PostUartIInv
<1>10. CASE \E body \in WifiBodies : PostWifi(body)
    BY <1>10, PostWifiIInv
<1>11. CASE UNCHANGED vars
    <2>1. TypeOK'
        BY <1>11 DEF vars, IInv, TypeOK
    <2>2. SaveShape' /\ SaveCfg' /\ SavePuts'
        BY <1>11 DEF vars, IInv, Inv, SaveShape, SaveCfg, SavePuts, PutsDone
    <2>3. NvsGood' /\ SavedIsStored'
        BY <1>11 DEF vars, IInv, Inv, NvsGood, MaskNotStored, SavedIsStored, Seeding
    <2>4. HasWifi' /\ ApShown'
        BY <1>11 DEF vars, IInv, Inv, HasWifi, WifiHasData, ApShown, Serving
    <2>5. UartKnown'
        BY <1>11 DEF vars, IInv, Inv, UartKnown, UartAgrees, GnssLoad, GnssHasData
    <2> QED BY <2>1, <2>2, <2>3, <2>4, <2>5 DEF IInv, Inv
<1> QED BY <1>1, <1>2, <1>3, <1>4, <1>5, <1>6, <1>7, <1>8, <1>9, <1>10, <1>11 DEF Next

\* The invariant holds throughout every behaviour.
LEMMA SpecIInv == Spec => []IInv
BY InitIInv, NextIInv, PTL DEF Spec

\* A save is open exactly while its puts run, and what runs is whole or nothing.
THEOREM TypeCorrect == Spec => []TypeOK
<1>1. IInv => TypeOK
    BY DEF IInv
<1> QED BY <1>1, SpecIInv, PTL

\* What a completed save has stored is what NVS loads, through reboots, seeding
\* and failed puts, until the next save of its namespace puts something.
THEOREM CompletedSavesSurvive == Spec => []SavedSurvives
<1>1. IInv => SavedSurvives
    BY Loads DEF IInv, Inv, SavedIsStored, SavedSurvives
<1> QED BY <1>1, SpecIInv, PTL

\* Serial1, the station and the softAP are as NVS has them, unless a put failed.
THEOREM DeviceRunsOnStored == Spec => []RunsOnStored
<1>1. IInv => StationFromNvs
    <2> SUFFICES ASSUME IInv, pc = "station", failed.wifi # "now" PROVE WifiLoad # NoConfig
        BY DEF StationFromNvs
    <2>1. WifiHasData
        BY DEF IInv, Inv, HasWifi
    <2>2. "ssid" \in DOMAIN nvs.wifi
        BY <2>1, KeyNames DEF WifiHasData
    <2> QED BY <2>1, <2>2, Loads DEF IInv, Inv, NvsGood
<1>2. IInv => UartIsStored
    BY DEF IInv, Inv, UartKnown, UartAgrees, UartIsStored
<1>3. IInv => SoftApOffOnlyByPost
    BY DEF IInv, Inv, ApShown, Serving, SoftApOffOnlyByPost
<1>4. IInv => RunsOnStored
    BY <1>1, <1>2, <1>3 DEF RunsOnStored
<1> QED BY <1>4, SpecIInv, PTL

\* The mask of the password is never stored as the password.
THEOREM MaskIsNeverStored == Spec => []MaskNotStored
<1>1. IInv => MaskNotStored
    BY DEF IInv, Inv, NvsGood
<1> QED BY <1>1, SpecIInv, PTL
================================================================================
