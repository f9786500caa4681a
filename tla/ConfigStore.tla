------------------------------ MODULE ConfigStore ------------------------------
(***************************************************************************)
(* The GNSS and WiFi settings in NVS, from the first boot on: seeding,     *)
(* set-up from what is stored, and the two POST handlers that change it.   *)
(*                                                                         *)
(* All of it runs in the loop task, one request at a time.  NVS writes one *)
(* key at a time and a put is atomic, so power can go between any two      *)
(* puts, and a put can fail.  A configuration is a function on the keys of *)
(* its namespace; a namespace holds a part of one, or of several.  The     *)
(* NTRIP namespace, which a second task writes too, is in NtripStore.      *)
(***************************************************************************)
EXTENDS Integers, Sequences

CONSTANTS
    UartBodies,  \* bodies of POST /api/config
    WifiBodies,  \* bodies of POST /api/wifi_config that have all the fields
    Empty,       \* the empty string
    Mask,        \* kPassMask
    ZeroIp,      \* 0.0.0.0
    BadIp,       \* text that is not an address
    BuiltIn,     \* STA_SSID, STA_PASS, ...: the compile-time station
    Factory,     \* the "CHANGEME" of wifi_config_defaults
    MaxPosts     \* bound: requests that get as far as a save

AddrKeys == {"ip", "gw", "subnet", "dns"}
\* The keys in the order in which the save functions put them.
GnssKeys == <<"rx_pin", "tx_pin", "baud">>
WifiKeys == <<"ssid", "pass", "dhcp", "accesspoint", "ip", "gw", "subnet", "dns">>
KeysOf(keys) == {keys[i] : i \in 1..Len(keys)}

\* No configuration: it has no keys.
NoConfig == << >>

ASSUME BodiesAssumption ==
    /\ UartBodies \subseteq [KeysOf(GnssKeys) -> Int]
    /\ \A b \in WifiBodies \cup {BuiltIn} : DOMAIN b = KeysOf(WifiKeys)

\* What the defaults are seeded with is neither empty nor the mask.
ASSUME FactoryAssumption == Factory \notin {Empty, Mask}

ASSUME MaxPostsAssumption == MaxPosts \in Nat

VARIABLES
    nvs,         \* nvs[ns]: the stored keys of namespace ns
    pc,          \* where the loop task is
    save,        \* the save in progress: ns, cfg, keys left to put, pc after it
    uart,        \* what Serial1 runs with, NoConfig when it is off
    station,     \* what WiFi.begin was called with
    softAp,      \* the softAP runs
    \* for the properties only
    saved,       \* saved[ns]: the last save, if it completed and none began since
    failed,      \* failed[ns]: a put has failed "never", since boot ("now"), "before"
    apOffPosted, \* a POST has stored accesspoint = FALSE
    posts        \* requests so far

vars == <<nvs, pc, save, uart, station, softAp, saved, failed, apOffPosted, posts>>
ram   == <<uart, station, softAp>>
ghost == <<saved, failed, apOffPosted>>

Namespace == {"gnss", "wifi"}

--------------------------------------------------------------------------------
(* What the modules read.                                                  *)

GnssDefaults == [rx_pin |-> -1, tx_pin |-> -1, baud |-> 0]
WifiDefaults == [ssid |-> Factory, pass |-> Factory, dhcp |-> TRUE, accesspoint |-> TRUE,
                 ip |-> ZeroIp, gw |-> ZeroIp, subnet |-> ZeroIp, dns |-> ZeroIp]

GnssHasData == KeysOf(GnssKeys) \subseteq DOMAIN nvs.gnss

WifiHasData == KeysOf(WifiKeys) \subseteq DOMAIN nvs.wifi

\* gnss_config_load over gnss_config_defaults, as every caller has it.
GnssLoad == IF GnssHasData THEN nvs.gnss ELSE GnssDefaults

\* wifi_config_load: accesspoint may be missing, addresses are read without DHCP only.
WifiLoad ==
    LET s == nvs.wifi
        Value(k) == CASE k = "accesspoint" /\ k \notin DOMAIN s -> TRUE
                      [] k \in AddrKeys /\ s.dhcp               -> ZeroIp
                      [] OTHER                                  -> s[k]
    IN  IF /\ {"ssid", "pass", "dhcp"} \subseteq DOMAIN s
           /\ s.dhcp \/ AddrKeys \subseteq DOMAIN s
           /\ s.ssid # Empty
        THEN [k \in KeysOf(WifiKeys) |-> Value(k)] ELSE NoConfig

Configured(cfg) == cfg.rx_pin # -1 /\ cfg.tx_pin # -1 /\ cfg.baud # 0

\* Serial1.begin without pins and baud: the core takes the default pins of UART1
\* and detects the baud rate.
CorePins == [pins |-> "default"]
Begun(cfg) == IF Configured(cfg) THEN cfg ELSE CorePins

GnssValid(cfg) ==
    \/ cfg = GnssDefaults
    \/ /\ cfg.rx_pin >= 0 /\ cfg.tx_pin >= 0 /\ cfg.rx_pin # cfg.tx_pin
       /\ cfg.baud \in 1200..2000000

--------------------------------------------------------------------------------
(* Saving.                                                                 *)

\* The checks of wifi_config_save; gnss_config_save has none.
Savable(ns, cfg) ==
    ns = "wifi" => /\ cfg.ssid # Empty
                   /\ cfg.dhcp \/ \A k \in AddrKeys : cfg[k] # ZeroIp

Save(ns, cfg, after) ==
    IF Savable(ns, cfg)
    THEN /\ pc' = "save"
         /\ save' = [ns |-> ns, cfg |-> cfg, after |-> after,
                     left |-> IF ns = "gnss" THEN GnssKeys ELSE WifiKeys]
    ELSE pc' = after /\ UNCHANGED save

\* Variant: the save is left open.
FinishOpen == pc' = save.after /\ UNCHANGED save

Finish == pc' = save.after /\ save' = NoConfig

\* putString returns the length written, 0 for the empty string, and 0 ends
\* the save just as a failure does.
ReportsSuccess(k, v) == k \in {"ssid", "pass"} => v # Empty

Stored(ns, k, v) ==
    [nvs EXCEPT ![ns] = [j \in DOMAIN nvs[ns] \cup {k} |-> IF j = k THEN v ELSE nvs[ns][j]]]

Put ==
    /\ pc = "save"
    /\ LET k    == Head(save.left)
           v    == save.cfg[k]
           done == Len(save.left) = 1 /\ ReportsSuccess(k, v)
       IN  /\ nvs' = Stored(save.ns, k, v)
           /\ saved' = [saved EXCEPT ![save.ns] = IF done THEN save.cfg ELSE NoConfig]
           /\ apOffPosted' = (apOffPosted \/ (k = "accesspoint" /\ ~v))
           /\ IF done \/ ~ReportsSuccess(k, v) THEN Finish
              ELSE save' = [save EXCEPT !.left = Tail(@)] /\ UNCHANGED pc
    /\ UNCHANGED <<ram, failed, posts>>

\* The put writes nothing and returns 0.
PutFails ==
    /\ pc = "save" /\ Finish
    /\ failed' = [failed EXCEPT ![save.ns] = "now"]
    /\ UNCHANGED <<nvs, ram, saved, apOffPosted, posts>>

--------------------------------------------------------------------------------
(* setup().                                                                *)

BootGnss ==
    /\ pc = "gnss"
    /\ IF GnssHasData THEN pc' = "wifi" /\ UNCHANGED save
       ELSE Save("gnss", GnssDefaults, "wifi")
    /\ UNCHANGED <<nvs, ram, ghost, posts>>

\* Variant: the defaults are written at every boot.
BootWifiAlways ==
    /\ pc = "wifi" /\ Save("wifi", WifiDefaults, "accesspoint")
    /\ UNCHANGED <<nvs, ram, ghost, posts>>

BootWifi ==
    /\ pc = "wifi"
    /\ IF WifiHasData THEN pc' = "uart" /\ UNCHANGED save
       ELSE Save("wifi", WifiDefaults, "accesspoint")
    /\ UNCHANGED <<nvs, ram, ghost, posts>>

\* config_bootstrap puts accesspoint once more, whatever the save returned.
SeedAccessPoint ==
    /\ pc = "accesspoint" /\ pc' = "uart"
    /\ \/ nvs' = Stored("wifi", "accesspoint", TRUE) /\ UNCHANGED failed
       \/ failed' = [failed EXCEPT !.wifi = "now"] /\ UNCHANGED nvs
    /\ UNCHANGED <<save, ram, saved, apOffPosted, posts>>

SetupUart ==
    /\ pc = "uart" /\ pc' = "station"
    /\ uart' = IF Configured(GnssLoad) THEN GnssLoad ELSE NoConfig
    /\ UNCHANGED <<nvs, save, station, softAp, ghost, posts>>

\* isSoftApEnabledFromNvs in a dual-mode build.
SoftApEnabled == "accesspoint" \in DOMAIN nvs.wifi => nvs.wifi.accesspoint

SetupWifi ==
    /\ pc = "station" /\ pc' = "serve"
    /\ softAp' = SoftApEnabled
    /\ station' = IF WifiLoad # NoConfig THEN WifiLoad ELSE BuiltIn
    /\ UNCHANGED <<nvs, save, uart, ghost, posts>>

Init ==
    /\ nvs = [ns \in Namespace |-> << >>]
    /\ pc = "gnss" /\ save = NoConfig
    /\ uart = NoConfig /\ station = NoConfig /\ softAp = FALSE
    /\ saved = [ns \in Namespace |-> NoConfig]
    /\ failed = [ns \in Namespace |-> "never"] /\ apOffPosted = FALSE
    /\ posts = 0

\* POST /api/restart, a reset or a loss of power, between any two steps.
Reboot ==
    /\ pc' = "gnss" /\ save' = NoConfig
    /\ uart' = NoConfig /\ station' = NoConfig /\ softAp' = FALSE
    /\ failed' = [ns \in Namespace |-> IF failed[ns] = "never" THEN "never" ELSE "before"]
    /\ UNCHANGED <<nvs, saved, apOffPosted, posts>>

--------------------------------------------------------------------------------
(* The requests.  One that is refused before anything is written is a      *)
(* stuttering step.                                                        *)

Counted == posts < MaxPosts /\ posts' = posts + 1

\* Variant: the new pins are left to the next boot.
PostUartLater(body) ==
    /\ pc = "serve" /\ GnssValid(body) /\ Counted
    /\ Save("gnss", body, "serve")
    /\ UNCHANGED <<nvs, ram, ghost>>

\* gnss_apply_runtime_config: Serial1 first, NVS second.  It begins Serial1 with
\* the unset body too.
PostUart(body) ==
    /\ pc = "serve" /\ GnssValid(body) /\ Counted
    /\ uart' = Begun(body)
    /\ Save("gnss", body, "serve")
    /\ UNCHANGED <<nvs, station, softAp, ghost>>

\* Variant: the password is taken as it was posted.
PostedPass(body) == body.pass

\* The masked password of GET, posted back, stands for the stored one.
KeptPass(body) ==
    IF body.pass = Mask /\ WifiLoad # NoConfig THEN WifiLoad.pass ELSE body.pass

PostWifi(body) ==
    LET cfg == [k \in KeysOf(WifiKeys) |->
                  CASE k = "pass"                    -> KeptPass(body)
                    [] k \in AddrKeys /\ body.dhcp -> ZeroIp
                    [] OTHER                         -> body[k]]
    IN  /\ pc = "serve" /\ Counted
        /\ cfg.ssid # Empty
        /\ \A k \in AddrKeys : cfg[k] # BadIp
        /\ Save("wifi", cfg, "serve")
        /\ UNCHANGED <<nvs, ram, ghost>>

Next ==
    \/ BootGnss \/ BootWifi \/ SeedAccessPoint \/ SetupUart \/ SetupWifi
    \/ Put \/ PutFails \/ Reboot
    \/ \E body \in UartBodies : PostUart(body)
    \/ \E body \in WifiBodies : PostWifi(body)

Spec == Init /\ [][Next]_vars

--------------------------------------------------------------------------------
(* Properties.                                                             *)

\* A save is open exactly while its puts run, namespaces hold their own keys,
\* and what runs is a whole configuration or none.
TypeOK ==
    /\ pc \in {"gnss", "wifi", "accesspoint", "uart", "station", "serve", "save"}
    /\ (pc = "save") <=> (save # NoConfig)
    /\ pc = "save" => /\ save.ns \in Namespace /\ save.left # <<>>
                      /\ save.after \in {"wifi", "accesspoint", "serve"}
    /\ DOMAIN nvs = Namespace /\ DOMAIN saved = Namespace
    /\ DOMAIN nvs.gnss \subseteq KeysOf(GnssKeys) /\ DOMAIN nvs.wifi \subseteq KeysOf(WifiKeys)
    /\ uart \notin {NoConfig, CorePins} => DOMAIN uart = KeysOf(GnssKeys)
    /\ station # NoConfig => DOMAIN station = KeysOf(WifiKeys)
    /\ {softAp, apOffPosted} \subseteq BOOLEAN
    /\ failed \in [Namespace -> {"never", "now", "before"}]
    /\ posts \in 0..MaxPosts

\* A configuration whose save completed (the POST was answered with ok, or the
\* seeding reported no error) is what NVS loads, through every reboot, seeding
\* and failure, until the next save of its namespace writes something.
SavedSurvives ==
    /\ saved.gnss # NoConfig => GnssLoad = saved.gnss
    /\ saved.wifi # NoConfig => WifiLoad = saved.wifi

\* Whenever power was lost, during seeding too, setupWiFi finds WiFi settings in
\* NVS and never takes the compile-time ones, unless a put failed in this boot.
StationFromNvs == pc = "station" /\ failed.wifi # "now" => WifiLoad # NoConfig

\* Between requests Serial1 runs with the configuration the next boot will load,
\* unless a put failed in between; it is off, or on the default pins that a POST
\* of the unset body leaves it on, only when none is stored.
UartIsStored ==
    pc = "serve" /\ failed.gnss # "now" =>
        IF uart \in {NoConfig, CorePins} THEN ~Configured(GnssLoad) ELSE uart = GnssLoad

\* The softAP, the way back to a device with wrong WiFi settings, is never
\* turned off by a torn save, a failed put or a reseeding, only by a POST.
SoftApOffOnlyByPost == pc = "serve" /\ ~softAp => apOffPosted

\* What the device runs on is what is stored, and it stays reachable.
RunsOnStored == StationFromNvs /\ UartIsStored /\ SoftApOffOnlyByPost

\* The mask that GET shows never replaces the password, as long as no put fails.
MaskNotStored == failed.wifi = "never" /\ "pass" \in DOMAIN nvs.wifi => nvs.wifi.pass # Mask
================================================================================
