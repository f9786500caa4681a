------------------------------ MODULE GnssOutPath ------------------------------
(***************************************************************************)
(* The outbound path of the bridge: task_uart_rx reads the GNSS stream and *)
(* mirrors it, without blocking, into a StreamBuffer for BLE (while a      *)
(* phone is subscribed) and one for TCP; task_ble_tx notifies the phone,   *)
(* task_tcp_io writes to its one client.  The NimBLE callbacks run in the  *)
(* BLE host task and change the flags the other tasks read.                *)
(*                                                                         *)
(* A byte is its position in the GNSS stream; 0 is a cell never written or *)
(* overwritten by a reset.  The BLE StreamBuffer is the ring it is in      *)
(* FreeRTOS, since the host task may reset it inside a send or a receive,  *)
(* each of which reads an index, copies and stores the index.  The TCP one *)
(* is a sequence: its reset and its receive are of one task, which cannot  *)
(* run inside the send of task_uart_rx, of a higher priority.  What TCP    *)
(* brings in is in CorrectionsPath, what the parser does with the bytes is *)
(* not here.                                                               *)
(***************************************************************************)
EXTENDS Integers, Sequences

CONSTANTS
    Enabled,     \* outputs compiled in (BLE_ENABLE, TCP_ENABLE)
    Capacity,    \* Capacity[o]: bytes the stream buffer of output o can hold
    UartChunk,   \* UART_CHUNK
    NotifyChunk, \* BLE_NOTIFY_CHUNK: the largest payload task_ble_tx takes
    MaxRead,     \* bound: bytes the GNSS receiver sends
    MaxLinks     \* bound: connections and subscriptions of phones and clients

Output == {"ble", "tcp"}

ASSUME EnabledAssumption == Enabled \subseteq Output
ASSUME CapacityAssumption == Capacity \in [Output -> Nat]
ASSUME ChunkAssumption == {UartChunk, NotifyChunk} \subseteq Nat \ {0}
ASSUME BoundsAssumption == {MaxRead, MaxLinks} \subseteq Nat

VARIABLES
    \* task_uart_rx
    read,        \* bytes read from Serial1
    chunk,       \* the bytes of the last read
    rpc,         \* where the task is
    fit, at,     \* its send to BLE: bytes that fit, index where they go
    \* the BLE stream buffer
    mem,         \* its cells
    head, tail,  \* xHead, xTail
    torn,        \* history: a reset met a send or a receive (see Flush)
    \* BLE
    link,        \* "off", "up", "subscribed": the phone
    cb,          \* writes the running callback has still to make
    connected,   \* g_connected
    notifyEn,    \* g_notifyEn
    bpc,         \* where task_ble_tx is
    avail, from, \* its receive: bytes counted, index where they are
    out,         \* the chunk it took
    phone,       \* bytes the phone got since it connected
    \* TCP
    client,      \* g_tcpClient.connected()
    tpc,         \* where task_tcp_io is
    tout,        \* the chunk it took
    got,         \* bytes the client got
    buf,         \* content of the TCP stream buffer
    backlog,     \* content of buf when the client came
    \* both
    drops,       \* uart2bleDrops, uart2tcpDrops
    loaded,      \* the value of uart2tcpDrops each += has loaded
    short,       \* bytes each task has still to count as dropped
    links        \* peers so far

uart  == <<read, chunk, rpc, fit, at>>
ring  == <<mem, head, tail, torn>>
ble   == <<link, cb, connected, notifyEn, bpc, avail, from, out, phone>>
tcp   == <<client, tpc, tout, got>>
count == <<drops, loaded, short>>
vars  == <<uart, ring, ble, tcp, buf, backlog, count, links>>

Counter == {"rx", "io"}   \* the two tasks that add to uart2tcpDrops

\* The ring has a cell more than it can hold bytes.
Cells == 0..Capacity["ble"]
Size == Capacity["ble"] + 1
Wrap(c) == IF c >= Size THEN c - Size ELSE c

Count == Wrap(head + Size - tail)
Held == [i \in 1..Count |-> mem[Wrap(tail + i - 1)]]
Blank == [c \in Cells |-> 0]

Init ==
    /\ read = 0 /\ chunk = <<>> /\ rpc = "read" /\ fit = 0 /\ at = 0
    /\ mem = Blank /\ head = 0 /\ tail = 0 /\ torn = FALSE
    /\ link = "off" /\ cb = <<>>
    /\ connected = FALSE /\ notifyEn = FALSE
    /\ bpc = "gate" /\ avail = 0 /\ from = 0 /\ out = <<>> /\ phone = <<>>
    /\ client = FALSE /\ tpc = "accept" /\ tout = <<>> /\ got = <<>>
    /\ buf = <<>> /\ backlog = <<>>
    /\ drops = [o \in Output |-> 0]
    /\ loaded = [t \in Counter |-> 0] /\ short = [t \in Counter |-> 0]
    /\ links = 0

Least(a, b) == IF a <= b THEN a ELSE b

--------------------------------------------------------------------------------
(* task_uart_rx.                                                           *)

ReadUart(n) ==
    /\ rpc = "read" /\ read + n <= MaxRead
    /\ read' = read + n /\ chunk' = [i \in 1..n |-> read + i]
    /\ rpc' = "gate"
    /\ UNCHANGED <<fit, at, ring, ble, tcp, buf, backlog, count, links>>

\* Nothing available: look again in 2 ms.
RxIdle == rpc = "read" /\ UNCHANGED vars

\* Only a phone that is connected and subscribed gets the chunk.
BleGate ==
    /\ rpc = "gate"
    /\ rpc' = IF "ble" \in Enabled /\ connected /\ notifyEn THEN "space" ELSE "tcp"
    /\ UNCHANGED <<read, chunk, fit, at, ring, ble, tcp, buf, backlog, count, links>>

\* xStreamBufferSend with timeout 0: the free space takes a prefix.  It reads
\* the space, reads xHead, copies, and stores xHead.
SendSpace ==
    /\ rpc = "space"
    /\ fit' = Least(Len(chunk), Capacity["ble"] - Count)
    /\ rpc' = IF fit' = 0 THEN "tally" ELSE "aim"
    /\ UNCHANGED <<read, chunk, at, ring, ble, tcp, buf, backlog, count, links>>

SendAim ==
    /\ rpc = "aim" /\ rpc' = "fill"
    /\ at' = head
    /\ UNCHANGED <<read, chunk, fit, ring, ble, tcp, buf, backlog, count, links>>

\* The position in the chunk of the byte that goes to cell c.
Offset(c) == IF c >= at THEN c - at + 1 ELSE c + Size - at + 1

SendFill ==
    /\ rpc = "fill" /\ rpc' = "publish"
    /\ mem' = [c \in Cells |-> IF Offset(c) <= fit THEN chunk[Offset(c)] ELSE mem[c]]
    /\ UNCHANGED <<read, chunk, fit, at, head, tail, torn, ble, tcp, buf, backlog, count, links>>

SendPublish ==
    /\ rpc = "publish" /\ rpc' = "tally"
    /\ head' = Wrap(at + fit) /\ at' = 0
    /\ UNCHANGED <<read, chunk, fit, mem, tail, torn, ble, tcp, buf, backlog, count, links>>

\* uart2bleDrops += what did not fit.
BleCount ==
    /\ rpc = "tally" /\ rpc' = "tcp"
    /\ drops' = [drops EXCEPT !["ble"] = @ + Len(chunk) - fit]
    /\ fit' = 0
    /\ UNCHANGED <<read, chunk, at, ring, ble, tcp, buf, backlog, loaded, short, links>>

BlePush == SendSpace \/ SendAim \/ SendFill \/ SendPublish \/ BleCount

Room == Least(Len(chunk), Capacity["tcp"] - Len(buf))

TcpPush ==
    /\ rpc = "tcp"
    /\ IF "tcp" \in Enabled
       THEN /\ buf' = buf \o SubSeq(chunk, 1, Room)
            /\ short' = [short EXCEPT !["rx"] = Len(chunk) - Room]
       ELSE UNCHANGED <<buf, short>>
    /\ rpc' = IF short'["rx"] > 0 THEN "load" ELSE "read"
    /\ chunk' = <<>>
    /\ UNCHANGED <<read, fit, at, ring, ble, tcp, backlog, drops, loaded, links>>

\* uart2tcpDrops += short, on a volatile: a load and a store.
Load(t) ==
    /\ loaded' = [loaded EXCEPT ![t] = drops["tcp"]]
    /\ UNCHANGED <<drops, short>>

Store(t) ==
    /\ drops' = [drops EXCEPT !["tcp"] = loaded[t] + short[t]]
    /\ short' = [short EXCEPT ![t] = 0]
    /\ loaded' = [loaded EXCEPT ![t] = 0]

RxCount ==
    /\ \/ rpc = "load" /\ rpc' = "store" /\ Load("rx")
       \/ rpc = "store" /\ rpc' = "read" /\ Store("rx")
    /\ UNCHANGED <<read, chunk, fit, at, ring, ble, tcp, buf, backlog, links>>

UartRx == BleGate \/ BlePush \/ TcpPush \/ RxCount

--------------------------------------------------------------------------------
(* The phone, and the callbacks it causes.  A callback is the sequence of  *)
(* its writes.                                                             *)

Peer(l, writes) ==
    /\ "ble" \in Enabled /\ cb = <<>>
    /\ link' = l /\ cb' = writes
    /\ UNCHANGED <<uart, ring, connected, notifyEn, bpc, avail, from, out, tcp, buf,
                   backlog, count>>

OnConnect ==
    /\ link = "off" /\ links < MaxLinks /\ links' = links + 1
    /\ Peer("up", <<"up", "mute">>)
    /\ phone' = <<>>

\* A phone may write the same subscription again.
OnSubscribe ==
    /\ link # "off" /\ links < MaxLinks /\ links' = links + 1
    /\ Peer("subscribed", <<"enable", "flush">>)
    /\ UNCHANGED phone

OnUnsubscribe ==
    /\ link = "subscribed"
    /\ Peer("up", <<"mute">>)
    /\ UNCHANGED <<phone, links>>

OnDisconnect ==
    /\ link # "off"
    /\ Peer("off", <<"down", "mute", "flush">>)
    /\ UNCHANGED <<phone, links>>

\* xStreamBufferReset, in a critical section; a build with assertions
\* overwrites the cells.  It refuses while a task waits to receive.  One that
\* meets the index of a send or of a receive tears the buffer, until a reset
\* that meets neither, before the phone got or a task holds a byte.
Inside == rpc \in {"fill", "publish"} \/ bpc \in {"take", "copy", "commit"}

Flush ==
    IF bpc = "wait" THEN UNCHANGED ring
    ELSE /\ head' = 0 /\ tail' = 0 /\ mem' \in {mem, Blank}
         /\ torn' = (Inside \/ (torn /\ (phone # <<>> \/ out # <<>>)))

Callback ==
    /\ cb # <<>> /\ cb' = Tail(cb)
    /\ \/ Head(cb) = "up" /\ connected' = TRUE /\ UNCHANGED <<notifyEn, ring>>
       \/ Head(cb) = "down" /\ connected' = FALSE /\ UNCHANGED <<notifyEn, ring>>
       \/ Head(cb) = "mute" /\ notifyEn' = FALSE /\ UNCHANGED <<connected, ring>>
       \/ Head(cb) = "enable" /\ notifyEn' = TRUE /\ UNCHANGED <<connected, ring>>
       \/ Head(cb) = "flush" /\ Flush /\ UNCHANGED <<connected, notifyEn>>
    /\ UNCHANGED <<uart, link, bpc, avail, from, out, phone, tcp, buf, backlog, count, links>>

Phone == OnConnect \/ OnSubscribe \/ OnUnsubscribe \/ OnDisconnect

--------------------------------------------------------------------------------
(* task_ble_tx.                                                            *)

\* What none of its steps changes.
Elsewhere == <<uart, link, cb, connected, notifyEn, tcp, buf, backlog, count, links>>

TxGate ==
    /\ bpc = "gate" /\ connected /\ notifyEn /\ bpc' = "receive"
    /\ UNCHANGED <<avail, from, out, phone, ring, Elsewhere>>

\* xStreamBufferReceive counts the bytes; with none it registers as waiting,
\* sleeps until a send or BLE_TX_WAIT_TICKS wakes it, and counts again.
TxCount ==
    /\ bpc = "receive"
    /\ avail' = Count /\ bpc' = IF avail' = 0 THEN "wait" ELSE "take"
    /\ UNCHANGED <<from, out, phone, ring, Elsewhere>>

TxWake ==
    /\ bpc = "wait" /\ bpc' = "recount"
    /\ UNCHANGED <<avail, from, out, phone, ring, Elsewhere>>

TxRecount ==
    /\ bpc = "recount"
    /\ avail' = Count /\ bpc' = IF avail' = 0 THEN "gate" ELSE "take"
    /\ UNCHANGED <<from, out, phone, ring, Elsewhere>>

\* It reads xTail, copies, and stores xTail.
TxAim ==
    /\ bpc = "take" /\ bpc' = "copy"
    /\ from' = tail
    /\ UNCHANGED <<avail, out, phone, ring, Elsewhere>>

\* Variant: the copy is not limited to max_payload.
TxCopyAll ==
    /\ bpc = "copy" /\ bpc' = "commit"
    /\ out' = [i \in 1..avail |-> mem[Wrap(from + i - 1)]]
    /\ UNCHANGED <<avail, from, phone, ring, Elsewhere>>

\* max_payload: computed once, when the task starts and g_ble_mtu still is
\* BLE_MTU.
TxCopy ==
    /\ bpc = "copy" /\ bpc' = "commit"
    /\ out' = [i \in 1..Least(avail, NotifyChunk) |-> mem[Wrap(from + i - 1)]]
    /\ UNCHANGED <<avail, from, phone, ring, Elsewhere>>

\* Variant: the bytes stay in the buffer.
TxPeek ==
    /\ bpc = "commit" /\ bpc' = "notify"
    /\ avail' = 0 /\ from' = 0
    /\ UNCHANGED <<out, phone, ring, Elsewhere>>

TxCommit ==
    /\ bpc = "commit" /\ bpc' = "notify"
    /\ tail' = Wrap(from + Len(out)) /\ avail' = 0 /\ from' = 0
    /\ UNCHANGED <<mem, head, torn, out, phone, Elsewhere>>

\* The stack takes the notification, which reaches a subscribed phone, or not.
Notify ==
    /\ bpc = "notify" /\ bpc' = "gate" /\ out' = <<>>
    /\ \/ phone' = IF link = "subscribed" THEN phone \o out ELSE phone
       \/ UNCHANGED phone
    /\ UNCHANGED <<avail, from, ring, Elsewhere>>

BleTx ==
    \/ TxGate \/ TxCount \/ TxWake \/ TxRecount \/ TxAim \/ TxCopy \/ TxCommit
    \/ Notify

--------------------------------------------------------------------------------
(* task_tcp_io, outbound.                                                  *)

\* Variant: the buffer is not reset for a new client.
AcceptUnflushed ==
    /\ "tcp" \in Enabled /\ tpc = "accept" /\ ~client /\ links < MaxLinks
    /\ links' = links + 1
    /\ client' = TRUE /\ tpc' = "pull" /\ got' = <<>>
    /\ backlog' = buf
    /\ UNCHANGED <<uart, ring, ble, tout, buf, count>>

\* A client when none is connected starts on an empty buffer.
Accept ==
    /\ "tcp" \in Enabled /\ tpc = "accept" /\ ~client /\ links < MaxLinks
    /\ links' = links + 1
    /\ client' = TRUE /\ tpc' = "pull" /\ got' = <<>>
    /\ buf' = <<>> /\ backlog' = buf
    /\ UNCHANGED <<uart, ring, ble, tout, count>>

Serve ==
    /\ tpc = "accept" /\ client /\ tpc' = "pull"
    /\ UNCHANGED <<uart, ring, ble, client, tout, got, buf, backlog, count, links>>

Pull ==
    /\ tpc = "pull"
    /\ LET n == Least(Len(buf), UartChunk)
       IN  buf' = SubSeq(buf, n + 1, Len(buf)) /\ tout' = SubSeq(buf, 1, n)
    /\ tpc' = IF buf = <<>> THEN "accept" ELSE "write"
    /\ UNCHANGED <<uart, ring, ble, client, got, backlog, count, links>>

\* The socket takes a prefix, nothing when it is closed.
WriteTcp ==
    /\ tpc = "write"
    /\ \E w \in IF client THEN 0..Len(tout) ELSE {0} :
        /\ got' = got \o SubSeq(tout, 1, w)
        /\ short' = [short EXCEPT !["io"] = Len(tout) - w]
    /\ tpc' = IF short'["io"] > 0 THEN "load" ELSE "accept"
    /\ tout' = <<>>
    /\ UNCHANGED <<uart, ring, ble, client, buf, backlog, drops, loaded, links>>

IoCount ==
    /\ \/ tpc = "load" /\ tpc' = "store" /\ Load("io")
       \/ tpc = "store" /\ tpc' = "accept" /\ Store("io")
    /\ UNCHANGED <<uart, ring, ble, client, tout, got, buf, backlog, links>>

TcpIo == Serve \/ Pull \/ WriteTcp \/ IoCount

ClientGone ==
    /\ client /\ client' = FALSE
    /\ UNCHANGED <<uart, ring, ble, tpc, tout, got, buf, backlog, count, links>>

Next ==
    \/ \E n \in 1..UartChunk : ReadUart(n)
    \/ RxIdle \/ UartRx \/ Phone \/ Callback \/ BleTx \/ Accept \/ TcpIo \/ ClientGone

Spec == Init /\ [][Next]_vars

--------------------------------------------------------------------------------
(* Properties.                                                             *)

TypeOK ==
    /\ read \in 0..MaxRead /\ Len(chunk) <= UartChunk
    /\ rpc \in {"read", "gate", "space", "aim", "fill", "publish", "tally", "tcp", "load", "store"}
    /\ fit \in 0..Least(Len(chunk), Capacity["ble"]) /\ at \in Cells
    /\ mem \in [Cells -> 0..MaxRead] /\ {head, tail} \subseteq Cells
    /\ link \in {"off", "up", "subscribed"}
    /\ {torn, connected, notifyEn, client} \subseteq BOOLEAN
    /\ cb \in Seq({"up", "down", "mute", "enable", "flush"})
    /\ bpc \in {"gate", "receive", "wait", "recount", "take", "copy", "commit", "notify"}
    /\ {avail, from} \subseteq Cells /\ Len(out) <= NotifyChunk
    /\ tpc \in {"accept", "pull", "write", "load", "store"} /\ Len(tout) <= UartChunk
    /\ {chunk, tout, got, buf, backlog} \subseteq Seq(1..MaxRead)
    /\ {out, phone} \subseteq Seq(0..MaxRead)
    /\ Len(buf) <= Capacity["tcp"]
    /\ drops \in [Output -> Nat]
    /\ loaded \in [Counter -> Nat] /\ short \in [Counter -> Nat]
    /\ links \in 0..MaxLinks

In(n, s) == \E i \in 1..Len(s) : s[i] = n
Disjoint(s, t) == \A i \in 1..Len(s) : ~In(s[i], t)
Increasing(s) == \A i \in 1..Len(s) - 1 : s[i] < s[i + 1]

\* What is on its way to the phone; a chunk copied is still in the buffer
\* until xTail is stored.
Underway == IF bpc = "commit" THEN Held ELSE out \o Held

\* Whatever connects, subscribes and disconnects meanwhile, what a peer has
\* received and what is under way to it is in the order of the GNSS stream,
\* nothing twice: for the phone, as long as no reset of its buffer met a send
\* or a receive.
StreamOrder ==
    /\ ~torn => Increasing(phone \o Underway)
    /\ Increasing(got \o tout \o buf)

\* A TCP client starts live (task_tcp_io resets the buffer when it accepts):
\* it gets no byte that was in the buffer when it came.
TcpStartsLive == Disjoint(got, backlog)

\* uart2tcpDrops at zero, as GET /status reports it, means that a client has
\* an unbroken piece of the GNSS stream, from its first byte on.
TcpIntactWhenNoDrops ==
    drops["tcp"] + short["rx"] + short["io"] = 0 =>
        \A i \in 1..Len(got) : got[i] = got[1] + i - 1

\* A TCP client's stream is live and, while the counter is zero, unbroken.
TcpLiveUnbroken == TcpStartsLive /\ TcpIntactWhenNoDrops
================================================================================
