# A verification of the GNSS bridge firmware

The firmware (ESP32, Arduino and FreeRTOS) sits between a GNSS receiver on
`Serial1` and its users: it mirrors the receiver's stream to a phone (BLE) and to
a TCP client, feeds the receiver correction data (RTCM) from the phone, the TCP
client and an NTRIP caster, keeps the NTRIP client alive over outages and
reconfigurations, and shows telemetry in a web UI. This directory holds TLA+
models of these parts, TLC runs that check them on small instances, and proofs
that TLAPS checks for every instance.

Paths below are relative to the repository (`src/main.cpp` is `src/src/main.cpp`
in `PROJECT.json`).

## 1. Inventory

| component | code | state | operations |
|---|---|---|---|
| Corrections path | `src/main.cpp`, `NtripStreamWriter` in `src/ntrip_client.cpp` | three StreamBuffers, `rxBytes`, drop counters | `onWrite`, `task_tcp_io` (read), `NtripStreamWriter::write`, `task_uart_tx` |
| GNSS stream path | `src/main.cpp` | two StreamBuffers, `g_connected`, `g_notifyEn`, `g_tcpClient`, drop counters | `task_uart_rx`, `task_ble_tx`, `task_tcp_io` (accept, write), the four NimBLE callbacks |
| NTRIP client library | `lib/ntrip-client` | `_state`, `_healthy`, `failures`, `_running`, `_taskHandle`, socket, `lastAttempt`, `lastHealth`, the task's locals | `begin`, `startTask`, `stopTask`, `stop`, `reset`, `reconnect`, `taskLoop` |
| NTRIP service | `src/ntrip_client.cpp`, `src/config_ntrip.cpp` | the monitor's locals, `g_ntripCfg`, `g_lockout`, `g_ntripTaskStarted`, `lockoutLogged`, `lockoutStart`, NVS namespace `ntrip` | a pass of `configMonitorTask`: probe, config check, lockout sync, auto-reset |
| NMEA telemetry | `src/parsing_nmea.cpp` | line collector, `g_gsv_buf`, `g_gps`, `g_last_gga` | `nmea_feed_bytes`, `nmea_get_snapshot`, `nmea_get_last_gga` |
| RTCM parser | `lib/ntrip-client/src/RtcmParser.cpp` | frame under construction | `feed`, `reset` |
| Internet probe | `src/internet_probe.cpp` | cached answer and its time | `internet_probe_is_reachable`, called by the monitor and by `loop` (for `GET /api/status` and the status log) |
| NVS configuration | `src/config_*.cpp` | NVS namespaces `gnss`, `wifi`, `ntrip` | load, save (key by key), bootstrap at boot |
| Web UI and HTTP API | `src/web_ui.cpp` | none of its own | `GET /api/status`, `POST /api/ntrip_config`, `/api/config`, `/api/wifi_config`, `/api/restart` |
| WiFi, set-up, loop | `src/main.cpp` | WiFi mode, station settings, what `Serial1` runs with | `setup`, `gnss_apply_runtime_config`, `loop` (reconnects WiFi every five seconds) |

How they interact. Data moves through FreeRTOS StreamBuffers that are written
and read without blocking. Flags are shared without locks: the BLE callbacks run
in the NimBLE host task and change `g_connected` and `g_notifyEn` under
`task_uart_rx` and `task_ble_tx`; the NTRIP service and its user call methods of
the client object while `taskLoop` runs in a task of its own. NVS is shared by
the monitor (config check, `saveLockout`) and the web server (`POST /api/ntrip_config`)
without a transaction. The parser runs in `task_uart_rx` and is read by the web
server and the monitor.

What is hard: producers and consumers at full buffers, control methods that fall
between two accesses of the client task, a lockout that has to be persisted and
taken back across outages, posts and reboots, peers that come and go while bytes
are in the path, sentences lost on the UART, and clocks read before a preemption.
`PROJECT.json` lists each such place with its line under "hazards", with the
properties that cover it or the reason why none does.

What makes each component correct:

- Corrections path: bytes of a source are handed to `Serial1.write` in order, once;
  losses before that happen only at a full buffer and are counted exactly; no source
  starves.
- GNSS stream path: a peer sees the stream in order and nothing twice (the phone,
  unless a reset met a send or a receive); a TCP client sees nothing from before it
  came, and a zero drop counter means that its stream is unbroken.
- NTRIP client: dials no faster than the retry delay, locks out after exactly
  `maxTries` failures, streams healthy only on a validated stream, notices silence.
- NTRIP service: a lockout ends, NVS and client agree in the end, flash is not
  written for ever, a client that runs streams whenever it can.
- NVS configuration: a save that was acknowledged is what every later boot loads,
  a save or a seeding torn by a power loss leaves the device reachable, what runs
  and what is stored agree.
  The `ntrip` namespace has two writers and one reader that goes key by key:
  a lockout kept in it must be one that was earned on the configuration next to it
  (or come from a configuration that `begin()` refused), and store, hash and the
  configuration last begun must agree in the end.
- NMEA telemetry: the satellite list is bounded, has nothing twice and nothing
  stale, and what is staged at the last message of a GSV sequence is all it told;
  position, date, time, quality and accuracy shown belong together.
- RTCM parser: only whole frames count, every whole frame that is met between
  frames does, and the parser finds its way back after noise or a cut.
- Internet probe: an answer is never older than a bound, probes are paced, and
  when the network's troubles are over the firmware learns the truth.

## 2. Modules

| module | models | proofs |
|---|---|---|
| `CorrectionsPath` | sources, buffers and `task_uart_tx` | `CorrectionsPath_proofs` |
| `LossyFifo` | what such a path promises; abstract | `CorrectionsPath_proofs` (implemented) |
| `GnssOutPath` | `task_uart_rx`, the BLE callbacks, `task_ble_tx`, `task_tcp_io` (outbound) | `GnssOutPath_proofs` |
| `NtripClient` | the client object: `taskLoop` and the control methods | `NtripClient_proofs` |
| `NtripLifecycle` | what a client left alone promises; abstract | `NtripClient_proofs` (implemented) |
| `NtripMonitor` | monitor, NVS, web posts, reboots and a coarse client | `InternetProbe_proofs` (last part) |
| `NtripStore` | NVS namespace `ntrip` key by key: seeding, posts, `saveLockout`, config checks | `NtripStore_proofs` |
| `InternetProbe` | the cached probe with its two callers, `maybeReconnectWiFi` | `InternetProbe_proofs` |
| `RtcmParser` | `feed` byte by byte, on a wire with noise, cuts and a second source | `RtcmParser_proofs` |
| `NmeaTelemetry` | GSV staging, the live list, snapshots; RMC, GGA, GSA and GST | `NmeaTelemetry_proofs` |
| `ConfigStore` | NVS namespaces `gnss` and `wifi`: seeding, set-up, key-by-key saves | `ConfigStore_proofs` |
| `MC...` | instances for TLC | |

### CorrectionsPath

A byte is its position in its source's input. `Arrive` counts a payload in
`rxBytes`, `Push` is `xStreamBufferSend` with timeout 0 (the free space takes a
prefix), `CountDrops` adds the shortfall to the source's counter; the three are
separate because other tasks run in between. `Poll`, `PollEmpty` and `WriteUart`
are `task_uart_tx`: one buffer at a time, in the order BLE, TCP, NTRIP, at most
`UART_CHUNK` bytes, and the write to `Serial1` after the take. `wire[s]` is what
of source `s` was written. The interleaving of sources on the wire is left out.

`LossyFifo` states the promise without tasks: a family of FIFOs that lose only
what is offered to a full one. `CorrectionsPath` implements it under the mapping
at its end (`queue` is the chunk in `task_uart_tx`'s hands followed by the
buffer), checked as the property `LossyFifoSpec` and proved (`ImplementsLossyFifo`).

### GnssOutPath

A byte is its position in the GNSS stream. `task_uart_rx` reads, looks at the BLE
flags, pushes to BLE, pushes to TCP; each is a step. A NimBLE callback is the
sequence of its writes (`OnSubscribe` is `enable`, then `flush`), each a step, so
every other task may run between two of them. A phone may subscribe again while it is
subscribed. `uart2tcpDrops` is added to by two tasks, so an addition is a load and a
store. `backlog` remembers what was in the TCP buffer when its client came: the byte
numbers a live stream must not contain.

The BLE StreamBuffer is the ring it is in FreeRTOS (`mem`, `head`, `tail`). A send reads
the space (`SendSpace`), reads `xHead` (`SendAim`), copies (`SendFill`) and stores `xHead`
(`SendPublish`); a receive counts the bytes, waits when there are none, reads `xTail`
(`TxAim`), copies and stores `xTail` (`TxCommit`). For one writer and one reader that
is harmless. But `xStreamBufferReset` is called by the NimBLE host task, whose priority
(about 21) is above that of `task_uart_rx` (3) and `task_ble_tx` (2), so `Flush` may fall
inside either: the index read before it is stored after it. `torn` remembers that this
happened, until a reset that meets neither finds nothing given to the phone or taken
for it. `Flush` does nothing while a task waits in the receive, as in FreeRTOS, and
may leave the cells or overwrite them (`configASSERT` builds do). The TCP buffer is a
sequence: it is reset and read by `task_tcp_io` alone, whose priority (2) does not let it
run inside the send of `task_uart_rx` on the one core of the board in `platformio.ini`.

### NtripClient

Every access of `taskLoop` to a member another task may write is a step (`pc`
names the place), and a control method is the sequence of the shared writes it
makes (`Body`), so a method can fall between any two accesses of the task. The
network is `caster` (up, silent, down) and the socket, which may close at any
time. Time is two flags: the retry window is open (`cooled`), the health timeout
has passed (`stale`). A won handshake is four steps in the code's order, `Won` (failures),
`Fresh` (frames, phase), `Renew` (`_healthy`) and `Enter` (`_state`). `Expire` is `stopTask()`
giving up after five seconds, which only a handshake can cause; the task may go on while
`Check` looks at `_taskHandle`, `Load` reads it again for `vTaskDelete` (null names the
caller, which is then `"deleted"` and makes no more calls), `Delete` ends the task
wherever it stands and `Clear` clears the handle. The contract of `NtripClient.h` (`begin()`
only when no task runs) is the guard `MayCall`.

`NtripLifecycle` is the five-step machine the library's README describes.
`NtripClient` implements it while nobody calls a control method
(`LifecycleSpec`, checked in `client_alone` and proved as `ImplementsLifecycle`); where
the task has decided and not yet written `_state`, the mapping takes the decision.

### NtripMonitor

The steps of `configMonitorTask` in the code's order: `Probe` (losing the internet
stops the client, a due check is skipped), `Load`, `Rehash`, `Apply`,
`BeginRefused` or `BeginOk` (500 ms after the `stop()`), `Sync`, `HandleLockout`.
The client is coarse: `NtripClient` has its interleavings, here a method is one
step and a handshake is two (`Dial`, then `Connected` or `Failed`, which
overwrites whatever `_state` has become, as in the library). A configuration is
its identity and its `enabled` flag, and its hash is its identity. The monitor
writes the namespace in one step; a post reads the lockout, writes the
configuration and writes the lockout back in three. `Reboot` loses RAM and keeps
NVS. `startTask()` may fail, and its result is ignored, as in the code.

### NtripStore

The same monitor at another grain: outages and the client's life are `NtripMonitor`'s,
here a client is what was last begun (`current`), its state (`client`) and whether its
task runs, is to end, or is not there (`task`), and NVS is the set of keys that have been put. Fields the code treats alike are one key: `caster`
stands for the six `configChanged` compares, `tuning` for the seven that are only in
`configHash`. `Seed` is the bootstrap's save, `Post` a request, which reads the
stored lockout first (`Preserve`, `PreserveHash`) and then puts every key (`WebPut`);
`SaveLockout` puts every key again from `g_ntripCfg` (`MonitorPut`); a config check
reads key by key (`Read`). Between any two puts or reads the other task may run, a
put may fail (`WebPutFails`, `MonitorPutFails`) or the device restart (`Reboot`).
`torn` and `met` remember whether a save was cut short or met a config check.

`StartClient` is `stop()` and `begin()` in one step. `BeginRefuses` is a configuration
whose `tuning` is in `RefusedTunings`: the web UI accepts it and `validateConfig` does
not (`health_timeout_ms` = 0, say). The client is then left `LOCKED_OUT` by the `stop()`,
the configuration before stays `currentConfig`, and if the client was configured the
sync stores the lockout. `Begin` takes the others; the first starts the task, which may
fail, any later one ends it (`TaskEnds`), as in `NtripMonitor`. `earned` remembers the
casters on which a running task locked out, `refused` those of refused configurations and
of the ones they were to replace, which the pending lockout may be stored next to.

`LockoutIsEarned` is asked while there has been at most one fault. With two, TLC finds it
violated: the save of a new hash is torn, so that the hash of the configuration before
stays; the client is locked out and that save is torn at the same put, which leaves
the flag next to the old hash; then the configuration before is posted again, its hash
agrees, and it is off although no client was ever locked out on it.

`BeginsWhatIsStored` is about the configuration `begin()` took last, not about a client
that lives: after a second `begin()` its task is dead, which is `StreamsAgain`'s subject.

### InternetProbe

Each access of `internet_probe_is_reachable` to the two shared variables is a step:
`Call` (reads the clock), `Decide`, `Probe`, `StoreAnswer`, `StoreTime`, `Answer`.
Two tasks go through it. Times are ages, counted up to the last value anything
depends on, so that the state space is finite without an end of time. `Expired` is
the comparison in `uint32_t`: a stamp later than `now` counts as very old. `Reconnect`
is `maybeReconnectWiFi`, which aborts a join of the driver that is still under way;
`LinkLost` and `World` are the access point and the net behind it.

### RtcmParser

One action feeds one byte. `state`, `length` and `index` are the code's; `crc` is what
has been read since the preamble as long as it begins a frame that somebody sends,
and `Garbled` from then on: a checksum is taken to be right exactly for the frames
sent. `Send` is the caster, `Reconnect` a new connection in the middle of a frame
(`taskLoop` resets the parser), `Noise` a stray byte, `SendForeign` a chunk of
another source: on the UART the corrections of three sources are laid on one wire
(`task_uart_tx`), and a receiver frames that wire as this parser does.

### NmeaTelemetry

The receiver sends each constellation's GSV sequences message by message; a
message arrives (`Gsv`) or is lost on the way (`Lose`: a line too long, a bad
checksum). `GsvStage` and `GsvReject` are the code's sequence validation,
`BufferSat` its `buffer_sat` and `Buffered` the loop over a message's satellites,
`Copied` and `Rebuilt` its `rebuild_live_sat_list`; both loops are recursive functions. A snapshot
reads the clock, rebuilds the list and copies it in three steps, and the parser
may preempt it between them. `millis()` is the true time modulo `2^w`. The parser
itself is not preempted by readers: its task has the higher priority and the
board in `platformio.ini` has one core.

Each second the receiver sends `Sentences`, any of which may be lost. `Rmc`, `Gga`,
`Gsa` and `Gst` write the fields of `g_gps` as the code does (`Estimate` is the accuracy
from HDOP); a value is the second it was measured in, so that a property can ask
whether two fields are of the same second. `known` is the receiver's own clock: before
it is set, RMC comes with an empty time. Satellites and fix share no variable, and
the run explores them one at a time (`MCSpec`).

### ConfigStore

A configuration is a function on the keys of its namespace (`NoConfig` has no keys), a
namespace in NVS any part of one, or a mixture of several. `Factory` is what
`wifi_config_defaults` seeds, "CHANGEME", and so neither empty nor the mask
(`FactoryAssumption`). `Put` writes one key; a save goes on with
the next or ends, and `ReportsSuccess` is the quirk of `putString`, which returns 0
for an empty string, so that the save of an open network stops after `pass`.
`PutFails` is a put that fails, `Reboot` a restart or a power loss between any two
steps. `BootGnss`, `BootWifi` and `SeedAccessPoint` are `config_bootstrap`, with the
second put of `accesspoint` after the save; `SetupUart` and `SetupWifi` are the steps
of `setup()` that read NVS. `PostUart` switches `Serial1` first and saves second, as
`gnss_apply_runtime_config` does; for the unset wiring `Serial1.begin` runs with the core's
own choice of pins (`Begun`, `CorePins`), where `SetupUart` leaves it off. `PostWifi` replaces the masked password. All of
it runs in the loop task, so requests do not overlap. `saved` remembers the last
save that completed, `failed` whether a put has failed, in this boot or before.

## 3. Runs

Each run checks every property it lists; each property has a mutant of the model
(a plausible bug, kept beside the definition as a "variant") that breaks it.

| run | question | bounds |
|---|---|---|
| `corrections` | are bytes lost only when counted, kept in order, and delivered? | buffers of 3, 1, 1; chunks of 2; writes up to 3; 5, 2 and 1 bytes |
| `client_alone` | does the client alone keep its lifecycle, end every outage and notice silence? | 2 tries, 2 frames |
| `client_control` | health, pacing and the end of a task under every control method at any point | 2 tries, 2 frames, all five methods, unlimited calls |
| `monitor` | do lockouts end, does the monitor stop writing flash, does a running client stream again? | 2 configurations (one refused by `begin()`), 1 try, 1 outage, 1 post, 1 reboot |
| `ntrip_store` | does the `ntrip` namespace stay one configuration with its own lockout, and do store, hash and begun configuration agree in the end? | 3 configurations (one refused by `begin()`), 1 post, 1 fault (reboot or failed put) |
| `internet_probe` | how old, how often and how true is the probe's answer? | window 3, call 1, reconnection 1, join 1 |
| `rtcm` | which frames count, and does the parser find its way back? | 4 kinds of frame of up to 3 bytes of payload, 1 noise byte, 1 cut, 1 frame of another source |
| `gnss_out` | are the phone's and the TCP client's streams in order, wherever a callback falls, and is the latter live and unbroken? | buffers of 2 (BLE) and 3 (TCP), chunks of 2 (UART) and 1 (BLE), 5 bytes, 3 connections or subscriptions (with a phone 5 of both together) |
| `config_store` | what do power losses and failed puts leave in NVS, and what does the device come up with? | 4 UART bodies, 6 WiFi bodies, 4 posts, unlimited reboots and failures |
| `nmea` | bounded list, nothing twice, nothing stale, whole commits; a fix that belongs together | 2 constellations, sequences of up to 3 messages, list of 3, 3 clock ticks; 4 seconds, days of 2 |
| `stop_undone` | `LockoutHolds` fails | 2 tries |
| `second_begin` | `StreamsAgain` fails | 1 outage |

Why the bounds are enough to be interesting: a buffer smaller than a write can
accept, cut and reject it, and a chunk smaller than a buffer leaves a rest behind.
Two tries and two frames are the smallest numbers a count can be off by one in.
The monitor needs one outage to lose a running client, a post to change a
configuration in use or to meet a lockout, and a reboot between a persisted lockout
and its reset. In the store one post already meets `saveLockout` and a config check at
every key, and one fault tears either save; a second of each
exceeds what TLC explores in minutes, so behaviours that need two are not checked. Its
instance starts new or on caster 1 and is posted caster 2, with a tuning that `begin()`
takes or one that it refuses; every configuration in it is enabled, disabling is
`NtripMonitor`'s. Two mirrors of the GNSS stream share only `task_uart_rx`, which waits for
neither, so peers of one kind come at a time (`MCSpec`); the theorems hold with both. Three
connections or subscriptions are a first one, one that meets what it left, and one after
a reset that met a send or a receive; three bytes are more than the BLE buffer holds, and
TLC finds the phone's bytes repeated in this instance as soon as `StreamOrder` is asked
of `torn` states too. The probe's bounds keep the order of the code's times (a call
shorter than the window, a join no longer than the pause between attempts). A byte of the RTCM
instance has four bits, so that a misread length ends soon; the frames include one
too short for a message type, one without payload and one that contains a
preamble. Three messages have a middle one to lose. Four
posts are enough to tear one save and then another over it, and to post a
masked password after both. Four seconds and days of two cross midnight twice. The
proofs of section 5 hold without any of these bounds.

Several properties name a conjunction whose parts are defined beside it, for
instance `OutageEnds == OutageResolved /\ UnreachableLocksOut`, or
`RunsOnStored == StationFromNvs /\ UartIsStored /\ SoftApOffOnlyByPost`: one promise to
the user, in the parts a step can break.

Deadlock is checked in every run but `nmea`, whose receiver stops after `MaxUtc` seconds.

### Fairness

- `CorrectionsPath`: weak fairness of the tasks' own steps. FreeRTOS schedules them (each
  blocks or delays in its loop). The sources owe nothing.
- `NtripClient`: weak fairness of the task, of the steps of a method in progress
  and of time (`Cool`, `GoStale`). None for calls, for the network, or for `Expire`.
  Since a handshake ends (its socket operations have timeouts), fairness of
  `Task` includes it; how it ends is the network's choice.
- `NtripMonitor`: weak fairness of the monitor, of time (`Due`, `Expire`) and of a
  request that has begun. The client's steps are fair except that a healthy
  stream whose caster is reachable may stay as it is: then the only steps it
  could take would end it.
- `NtripStore`: weak fairness of the web server's request in progress and of the
  monitor. None for the client, which may lock out or not, for posts and faults.
- `InternetProbe`: weak fairness of the two tasks and of time, and of a join whose
  time is up while the access point is there. Nothing is assumed of the network;
  `TruthIsLearned` says what follows once it stays as it is.
- `RtcmParser`: weak fairness of the caster's next byte.
- `GnssOutPath`, `NmeaTelemetry`, `ConfigStore`: none; their properties are safety
  properties.

## 4. Where code and documentation disagree

These are runs that TLC refutes; `PROJECT.json` quotes the lines.

1. `stop_undone`: the client task writes `_state` at the end of a handshake without
   looking at it. A `stop()` during the handshake is undone.
2. `second_begin`: a second `begin()` clears `_running`, the client task ends, and
   `startTask()` is only called the first time. After an internet outage or a
   changed configuration the client is dead until a reboot.

Further deviations are in the models, as behaviours that the properties have to
leave room for; most are listed as hazards.

- NTRIP service: an abandoned lockout read at boot keeps the client off, and the code
  that would reset it only looks at a client that is locked out, so it waits for
  another configuration (`LockoutEnds` stops at a reboot). Disabling NTRIP lasts two
  minutes, and the two-minute timer can be left over from an earlier lockout.
  `begin()` is called while the task runs (against `NtripClient.h:102`).
- `ntrip` namespace: `saveLockout` writes the configuration the monitor last read over
  one posted since (against `README.md:95`). A POST that meets a config check can leave the
  old lockout flag next to the new hash, so that a configuration nobody has tried is
  off until the two-minute reset, or a mixture of two configurations, which the check
  persists. A changed retry delay or health timeout enters the hash and not the
  running client.
  A configuration that the web UI accepts and `begin()` refuses is stored as locked
  out, though nothing was tried (against `docs/DIAGRAM.md:138`).
- Internet probe: with two callers there can be two probes in one window (against
  `internet_probe.h:8`), and an answer stored late is stamped as fresh.
- RTCM parser: a frame without payload takes a byte of its checksum as payload, and
  after a checksum error the parser does not look again at what it has eaten, so a
  filler or a false preamble costs the good frames behind it.
- Client library: the task sets `_healthy` after its check of `_state`, so a `stop()` while a
  chunk is judged leaves a client that is locked out, its socket closed, healthy until
  something else clears the flag (against the library's `README.md:59`). `stopTask()` reads
  `_taskHandle` twice, and the task may clear it in between: `vTaskDelete(nullptr)` deletes
  the caller (against `NtripClient.h:121`; no code of the firmware calls it).
  `reconnect()` does not leave a lockout, a `reset()` between the test
  of `failures` and the write of `LOCKED_OUT` is lost, a deleted task leaks its buffer.
- GNSS stream: `onSubscribe` enables notifications before it drops the backlog (against
  `main.cpp:345`), and a failed notification loses its bytes. The NimBLE host task resets the
  BLE StreamBuffer inside a send or a receive of another task, and the phone gets bytes
  twice (against "lock-free byte FIFOs", `main.cpp:521`).
- NMEA: the satellite list is rebuilt from the staging buffers, so a snapshot in the middle
  of a sequence, or another constellation's commit, lists a part of it (against
  `parsing_nmea.cpp:57` and `117`); an RMC with an empty time counts as a captured time
  (255 in each field), so that a later GGA no longer gives the time (`parsing_nmea.cpp:35`); an accuracy once
  taken from GST is never replaced by an estimate, however old; `lastMs` is stamped
  before the sentence is parsed (against `parsing_nmea.cpp:62`); an age computed with
  a clock read before a preemption wraps.
- Configuration: a POST of the unset wiring opens UART1 on default pins until the next
  boot (against `INSTALL.md:36`); an open network cannot be saved and leaves its `ssid` and `pass`
  behind the refusal (against `README.md:95` and the remark at `config_ntrip.cpp:14`).

## 5. Proofs

TLAPS checks every theorem below for all values of the constants that satisfy the
named assumptions of the module. An invariant of this list is seldom inductive; each
proof module states the inductive one (`IInv`, in parts where the parts stand alone)
and goes through the actions one by one. The inductive invariants of the run's
properties were confirmed by TLC on the run's instance before they were proved.

| theorem | property |
|---|---|
| `CorrectionsPath`: `TypeCorrect`, `ConservationCorrect`, `SourceStreamCorrect` | `TypeOK`, `Conservation`, `SourceStream` |
| `CorrectionsPath`: `ImplementsLossyFifo` | `LossyFifoSpec` (refinement) |
| `NtripClient`: `TypeCorrect`, `HealthyIsValidatedCorrect`, `RetryPacedCorrect` | `TypeOK`, `HealthyIsValidated`, `RetryPaced` |
| `NtripClient`: `ImplementsLifecycle` | `LifecycleSpec` (refinement) |
| `GnssOutPath`: `TypeCorrect`, `StreamsInOrder`, `TcpStreamLiveAndWhole` | `TypeOK`, `StreamOrder`, `TcpLiveUnbroken` |
| `ConfigStore`: `TypeCorrect`, `CompletedSavesSurvive`, `DeviceRunsOnStored`, `MaskIsNeverStored` | `TypeOK`, `SavedSurvives`, `RunsOnStored`, `MaskNotStored` |
| `NtripStore`: `TypeCorrect`, `LockoutsAreEarned`, `StoredWhole` | `TypeOK`, `LockoutIsEarned`, `WholeUnlessMet` |
| `InternetProbe`: `TypeCorrect`, `AnswersAreRecent`, `ProbesPaced` | `TypeOK`, `AnswerIsRecent`, `ProbesArePaced` |
| `RtcmParser`: `TypeCorrect`, `ValidFramesWereSent`, `WholeFramesCount` | `TypeOK`, `ValidIsAFrame`, `WholeFrameCounts` |
| `NmeaTelemetry`: `TypeCorrect`, `ListIsSound`, `CommitsAreWhole`, `TheFixCoheres` | `TypeOK`, `ListSound`, `CommittedIsWhole`, `FixCoheres` |
| `NmeaTelemetry`: `NoSatelliteTwice`, `FreshIsListed` | a conjunct of `ListSound` without a bound on the uptime; its converse |
| `NtripMonitor`: `ServiceTypeCorrect` | `TypeOK` |
| `NtripMonitor`: `DeadUntilReboot` | the reason why `StreamsAgain` fails, for every instance |

**CorrectionsPath**, for any buffer sizes, chunk size, writes and set of sources. The
three invariants rest on the sequence `Stream[s]` of everything of `s` that is not
lost (written, taken, buffered, pending, in this order): it is strictly increasing
and bounded by `rx[s]`, and while nothing was lost it is exactly `1..rx[s]`. A poll
moves bytes along the stream without changing it, a send cuts its tail, an arrival
appends fresh bytes; one lemma each (`UartTxStream`, `PushStream`, `ArriveStream`).
Order and intactness on the wire follow because the wire is a prefix of it.
For `ImplementsLossyFifo` the invariant is `PendingIsLast`: what a writer has
still to send is the last of what its source received. `FifoStep` maps `Push` to
the FIFO's enqueue, `WriteUart` to its dequeue and everything else to a stutter; it
needs that taking a chunk from the buffer leaves chunk and buffer together as they
were (`SplitJoin`, `JoinSplit`).

**NtripClient**, for any `MaxTries`, `Required` and set of methods. `failures` never
exceeds `MaxTries + 1`. The invariant is `Core` and `Pending`. `Counted` ties the
frames to the phase and, while the client streams, the health flag to the frames of the
connection, which the four writes of a won handshake pass in an order that keeps it; `Dialling` says where a dial in
progress can stand, that its retry window was open and its tries were left; `Owned`
ties `_taskHandle` to the task; `Pending` says that what remains of a method is a
tail of its body and that a start in progress has no task, and what it has already
written, which is what a new task finds. `ImplementsLifecycle` assumes
`Calls \subseteq {"start"}`, as `client_alone` does: any other method may change the
state under the task, which the lifecycle does not promise anything about. Its
invariant adds `Alone` (such a task, once created, runs for ever, and it was created
over the initial values) and `Staged` (which `_state` each place of `taskLoop` stands
for, and that a dial in progress has a try left, so that the count stops at
`MaxTries` exactly).

**GnssOutPath**, for any buffer sizes, chunk sizes and bounds. For the BLE ring `BleSound`
says, while not `torn`, that the index read by a send (`SendSound`) and the count and index read by a
receive (`TakeSound`) still fit the ring, and that phone, chunk and ring are one stream
(`BleInOrder`, where `Underway` of the property counts a copied chunk once).
What a peer got, what its
task holds and what its buffer holds are three parts of one stream (`Stream`). A step
adds the bytes just read at the end, moves bytes to the part before, or drops the end
or the whole of a part. `TcpWhole` says, for as long as `NoneDropped`, that the parts
end exactly where `task_uart_rx` has pushed to; `Owing` ties the counts not yet added to
the places of the two additions, so that a lost `+=` cannot make the counter return to
zero.

**ConfigStore**, for any bodies and any number of posts, restarts and failed puts. `SavePuts`
says that a save has put the keys before those left, `SaveCfg` and `NvsGood` what
such values can be, `SavedIsStored` that a save that completed is what is in NVS;
keys are never removed, so `HasWifi` survives a torn save. `UartKnown` follows a
`POST /api/config` from the switch of `Serial1` through its save.

**NtripStore**, for any configurations, requests and faults. A writer has put the keys
before those it has left (`KeysThere`); as long as no request met a config check
(`WebAlone`) it finds what it has put (`PutsStay`), so that what the check reads is what
a whole save left there (`WholeParts`). `LockoutIsEarned` needs three more: what a
request preserves is what is stored (`Preserved`), a new hash is stored before the
client runs (`HashFirst`), and hence a flag that is stored was earned on the
configuration with the hash next to it, or comes from a refusal (`Blamed`, in `FlagEarned`), with the one exception of a save
of a lockout that is at its last put. That invariant is also why the property is asked
for one fault: `HashFirst` is false after one, and a second then breaks the claim.

**InternetProbe**, for any `Window`, `CallMax`, `Gap` and `JoinMax` with the code's order.
Both properties relate ages of different clocks: the answer's against its stamp
(`Said`), a task's last probe against a stamp the other may have stored (`Paced`). The
invariant bounds each of these differences by the length of a call.

**RtcmParser**, for any set of frames, any bytes between them and any number of cuts and
foreign chunks. While the checksum is that of the beginning of a frame, `crc` and `crcBuf`
hold just what has been read (`ReadIsFed`), and `length` and `payloadBuf` come from it
(`Candidate`). `Uncut` follows a frame that found the parser between frames: the parser
is exactly as far into it as the source is, so the last byte completes it.

**NmeaTelemetry**, the list, for any constellations, any sequences the receiver may send,
any loss and any place of the preemption. What the two loops of the code compute is proved
by induction over their steps. The theorems of the library that state induction take an operator
as a parameter and cannot be used; `Induction` says it with a set instead (a set that holds
0 and every successor is `Nat`) and follows from `LeastOf`, the well-foundedness of `<`. It gives
that the recursive functions exist (`StagingRuns`, `ListingRuns`), that staging a message keeps
the buffer bounded and without duplicates and adds all it can (`BufferedAdds`), and that a
rebuilt list is bounded, without duplicates, fresh, and full or complete (`RebuiltLists`).
On these rest two invariants. `ListInv`: a constellation whose first message arrived
has either staged all it was told so far, or its `last_msg_nr` has fallen behind and takes
nothing before the next first message (`StagedWhole`); `CommittedIsWhole` alone is not
inductive, because it looks at completed sequences only. `Recent`: what is listed was fresh
when the reader read the clock, and nothing that happens before the copy makes it older. It
needs a clock that has not wrapped, so `ListIsSound` assumes `MaxTime < Wrap`: once
`millis()` has wrapped, a constellation that fell silent 2^32 ms ago looks fresh again. `FreshIsListed` is the
other direction: until `millis()` wraps, what a snapshot with room leaves out is stale, or was
committed after the snapshot read the clock.

**NmeaTelemetry**, the fix, for any order of the four sentences in a second, any of them lost.
A field is of this second once its sentence is no longer due (`Shown`), and a time is
taken from a GGA only while there is no date (`DateNeedsTime`). For the types, `FixTypes` adds
that sentences are due only in a second that counts and that what is due is the end of `Sentences`.

**NtripMonitor**, for any configurations, tries and bounds, as an instance in `InternetProbe_proofs`
(its `reachable` is the monitor's last answer there; the theorems are about the instance's own
`Spec`, under the assumptions of `NtripMonitor`). A dial in progress has
at most used up its tries (`ClientTypes`), although `stop()` sets `failures` to `max_tries`
under a handshake that may then add one. `Stored` says that only configurations and
lockouts somebody had go round between NVS, monitor and web. `DeadUntilReboot`
shows that the outcome of `second_begin` is no accident of one behaviour: no step but a reboot leads
out of `Dead`.

Only model-checked:

- all liveness properties (`AcceptedIsDelivered`, `OutageEnds`, `SilenceIsNoticed`,
  `StopTaskEndsTask`, `LockoutEnds`, `NvsSettles`, `KeepsStreaming`, `SettlesOnStored`,
  `TruthIsLearned`, `FindsItsWayBack`): fairness and ENABLED are
  beyond the prover.

Every safety invariant and every action property of a passing run is stated by a theorem.

## 6. Abstractions

- The BLE StreamBuffer is a ring at the grain of its indices, because the NimBLE host task resets
  it. The other StreamBuffers are sequences whose send and receive are single steps: each
  has one writer and one reader, for whom FreeRTOS makes them so, and the one that is reset
  (TCP) is reset by its reader, which cannot run inside the writer's send.
- 32-bit byte and drop counters do not wrap in the models of the paths: `/status`
  shows them, nothing decides on them.
- Statistics of the client and their mutex, what a deleted task leaks, the GGA line, logging and the status
  documents are left out.
- In `NtripMonitor` a client method is one step, and a configuration has one
  identity; `NtripStore` has the two groups of fields (the six that `configChanged`
  compares, the seven that only the hash has) and no outages.
- In `NtripStore` a put and a read of one key are atomic, as NVS makes them, and of the
  number of failed attempts only whether there were any is kept. The 500 ms between
  `stop()` and `begin()` are in one step; that a handshake then overwrites the state of a
  stopped client is in `NtripClient` and `NtripMonitor` only.
- In `InternetProbe` what `HTTPClient` answers is true at some point during the probe, and a
  call is at most `CallMax` long: its timeouts, and the preemption of a task by those
  of higher priority.
- In `RtcmParser` the CRC is modelled by what it certifies: two different frames never
  have the same checksum, and no noise has a right one.
- In `NmeaTelemetry` the ages (`lastMs`, `accLastMs`), the stored GGA line and the line
  collector are left out; what `minmea` parses is taken to be what was sent. `MaxTime` is
  smaller than `Wrap`, so a silence of 2^32 ms, after which old satellites would
  come back for ten seconds, is not reached.
- In `ConfigStore` the four addresses of a posted configuration are one value, the
  build is the one of `platformio.ini` (dual mode, nothing immutable), opening a
  namespace fails only as its first put does, and NVS's own guarantee that a
  put is atomic is assumed.

Not modelled: the calls into the WiFi and BLE stacks at set-up, the logger, the vendored `minmea`, build and board scripts, the web pages.

## 7. Plan

1. (done) `CorrectionsPath`, `NtripClient`, `NtripMonitor`, `GnssOutPath`,
   `NmeaTelemetry`, `ConfigStore`; proofs of the first two.
2. (done) `InternetProbe`, `RtcmParser`, `NtripStore`, the fix of `NmeaTelemetry`.
3. (done) Proofs of `GnssOutPath`, `ConfigStore`, `NtripStore`, `InternetProbe`, `RtcmParser`,
   `NmeaTelemetry` (the fix, then the satellite list) and `NtripMonitor`, and of the
   refinements of `LossyFifo` and `NtripLifecycle`.
4. The handshake of the client library (`connectCasterWithVersion`): two protocol versions,
   a status line and header lines that may arrive in pieces, and data behind them.
5. The line collector of `parsing_nmea.cpp` (`feed_byte`) and its ages.
