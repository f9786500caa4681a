---------------------------- MODULE CorrectionsPath ----------------------------
(***************************************************************************)
(* The inbound path of the bridge: correction bytes (RTCM) arrive from a   *)
(* BLE central (onWrite), a TCP client (task_tcp_io) and the NTRIP caster  *)
(* (NtripStreamWriter), each source pushes them without blocking into a    *)
(* StreamBuffer of its own, and task_uart_tx polls the three buffers in    *)
(* turn and writes what it finds to the GNSS receiver on Serial1.          *)
(*                                                                         *)
(* A byte is its position in its source's input.  The interleaving of the  *)
(* three sources on the UART is left out: wire[s] is the bytes of s that   *)
(* were handed to Serial1.write, in that order.  Its result is ignored in  *)
(* the code, and what the driver then does with them is not in the model.  *)
(***************************************************************************)
EXTENDS Integers, Sequences

CONSTANTS
    Enabled,     \* sources compiled in (BLE_ENABLE, TCP_ENABLE, NTRIP_CLIENT_ENABLE)
    Capacity,    \* Capacity[s]: size of the stream buffer of source s
    UartChunk,   \* UART_CHUNK: bytes task_uart_tx takes from a buffer at once
    MaxWrite,    \* bound: bytes in one write of a source
    MaxBytes     \* bound: MaxBytes[s] bytes arrive from source s

Source == {"ble", "tcp", "ntrip"}

ASSUME EnabledAssumption == Enabled \subseteq Source
ASSUME CapacityAssumption == Capacity \in [Source -> Nat]
ASSUME UartChunkAssumption == UartChunk \in Nat \ {0}
ASSUME MaxAssumption == MaxWrite \in Nat /\ MaxBytes \in [Source -> Nat]

VARIABLES
    rx,       \* rx[s]: bytes received from s (rxBytes)
    pend,     \* pend[s]: payload counted but not yet offered to the buffer
    buf,      \* buf[s]: content of the stream buffer of s
    short,    \* short[s]: bytes the last send rejected, not yet counted
    drops,    \* drops[s]: ble2uartDrops, tcp2uartDrops, NtripStreamWriter::drops_
    turn,     \* the source task_uart_tx polls next or holds a chunk of
    tmp,      \* the chunk task_uart_tx took and has not written yet
    wire      \* wire[s]: bytes of s handed to Serial1.write

vars == <<rx, pend, buf, short, drops, turn, tmp, wire>>

Least(a, b) == IF a <= b THEN a ELSE b
\* Variant for mutation: task_uart_tx forgets the NTRIP buffer.
NextTurnTwo == [ble |-> "tcp", tcp |-> "ble", ntrip |-> "ble"]

NextTurn == [ble |-> "tcp", tcp |-> "ntrip", ntrip |-> "ble"]

Init ==
    /\ rx = [s \in Source |-> 0]
    /\ pend = [s \in Source |-> <<>>]
    /\ buf = [s \in Source |-> <<>>]
    /\ short = [s \in Source |-> 0]
    /\ drops = [s \in Source |-> 0]
    /\ turn = "ble"
    /\ tmp = <<>>
    /\ wire = [s \in Source |-> <<>>]

--------------------------------------------------------------------------------
(* A source's side: onWrite, task_tcp_io's read, NtripStreamWriter::write. *)

\* A non-empty payload of n bytes arrives and is counted in rxBytes.
Arrive(s, n) ==
    /\ pend[s] = <<>> /\ short[s] = 0
    /\ rx[s] + n <= MaxBytes[s]
    /\ rx' = [rx EXCEPT ![s] = @ + n]
    /\ pend' = [pend EXCEPT ![s] = [i \in 1..n |-> rx[s] + i]]
    /\ UNCHANGED <<buf, short, drops, turn, tmp, wire>>

\* xStreamBufferSend with timeout 0: the free space takes a prefix.
Room(s) == Least(Len(pend[s]), Capacity[s] - Len(buf[s]))

\* Variant: a payload that does not fit as a whole is dropped.
PushWhole(s) ==
    LET fits == Room(s) = Len(pend[s])
    IN  /\ pend[s] # <<>>
        /\ buf' = [buf EXCEPT ![s] = IF fits THEN @ \o pend[s] ELSE @]
        /\ short' = [short EXCEPT ![s] = IF fits THEN 0 ELSE Len(pend[s])]
        /\ pend' = [pend EXCEPT ![s] = <<>>]
        /\ UNCHANGED <<rx, drops, turn, tmp, wire>>

Push(s) ==
    /\ pend[s] # <<>>
    /\ buf' = [buf EXCEPT ![s] = @ \o SubSeq(pend[s], 1, Room(s))]
    /\ short' = [short EXCEPT ![s] = Len(pend[s]) - Room(s)]
    /\ pend' = [pend EXCEPT ![s] = <<>>]
    /\ UNCHANGED <<rx, drops, turn, tmp, wire>>

\* Variant: rejected writes are counted instead of their bytes.
CountWrites(s) ==
    /\ short[s] > 0
    /\ drops' = [drops EXCEPT ![s] = @ + 1]
    /\ short' = [short EXCEPT ![s] = 0]
    /\ UNCHANGED <<rx, pend, buf, turn, tmp, wire>>

\* sent < size: the shortfall is added to the source's drop counter.
CountDrops(s) ==
    /\ short[s] > 0
    /\ drops' = [drops EXCEPT ![s] = @ + short[s]]
    /\ short' = [short EXCEPT ![s] = 0]
    /\ UNCHANGED <<rx, pend, buf, turn, tmp, wire>>

--------------------------------------------------------------------------------
(* task_uart_tx: poll ble, tcp, ntrip in turn; write each chunk taken.     *)

\* xStreamBufferReceive with timeout 0 finds nothing.
PollEmpty ==
    /\ tmp = <<>> /\ buf[turn] = <<>>
    /\ turn' = NextTurn[turn]
    /\ UNCHANGED <<rx, pend, buf, short, drops, tmp, wire>>

\* xStreamBufferReceive takes at most UART_CHUNK bytes.
Taken == Least(Len(buf[turn]), UartChunk)

\* Variant: the last byte taken stays in the buffer.
PollOverlap ==
    /\ tmp = <<>> /\ buf[turn] # <<>>
    /\ tmp' = SubSeq(buf[turn], 1, Taken)
    /\ buf' = [buf EXCEPT ![turn] = SubSeq(@, Taken, Len(@))]
    /\ UNCHANGED <<rx, pend, short, drops, turn, wire>>

\* Variant: the whole buffer is taken.
PollAll ==
    /\ tmp = <<>> /\ buf[turn] # <<>>
    /\ tmp' = buf[turn]
    /\ buf' = [buf EXCEPT ![turn] = <<>>]
    /\ UNCHANGED <<rx, pend, short, drops, turn, wire>>

Poll ==
    /\ tmp = <<>> /\ buf[turn] # <<>>
    /\ tmp' = SubSeq(buf[turn], 1, Taken)
    /\ buf' = [buf EXCEPT ![turn] = SubSeq(@, Taken + 1, Len(@))]
    /\ UNCHANGED <<rx, pend, short, drops, turn, wire>>

\* Serial1.write(tmp, got), whose result is ignored, then the next buffer.
WriteUart ==
    /\ tmp # <<>>
    /\ wire' = [wire EXCEPT ![turn] = @ \o tmp]
    /\ tmp' = <<>>
    /\ turn' = NextTurn[turn]
    /\ UNCHANGED <<rx, pend, buf, short, drops>>

UartTx == PollEmpty \/ Poll \/ WriteUart

Receive(s) == Push(s) \/ CountDrops(s)

Next ==
    \/ \E s \in Enabled : (\E n \in 1..MaxWrite : Arrive(s, n)) \/ Receive(s)
    \/ UartTx

\* The tasks are scheduled; nobody has to send corrections.
Fairness == WF_vars(UartTx) /\ \A s \in Source : WF_vars(s \in Enabled /\ Receive(s))

Spec == Init /\ [][Next]_vars /\ Fairness

--------------------------------------------------------------------------------
(* Properties. *)

\* The bytes of s accepted and not written: in task_uart_tx's chunk, buffered.
Accepted == [s \in Source |-> (IF s = turn THEN tmp ELSE <<>>) \o buf[s]]

\* Everything of s that is not lost, oldest byte first.
Stream == [s \in Source |-> wire[s] \o Accepted[s] \o pend[s]]

TypeOK ==
    /\ rx \in [Source -> Nat]
    /\ pend \in [Source -> Seq(Nat)]
    /\ buf \in [Source -> Seq(Nat)]
    /\ \A s \in Source : Len(buf[s]) <= Capacity[s]
    /\ short \in [Source -> Nat]
    /\ drops \in [Source -> Nat]
    /\ turn \in Source
    /\ tmp \in Seq(Nat) /\ Len(tmp) <= UartChunk
    /\ wire \in [Source -> Seq(Nat)]

\* Byte accounting of main.cpp: every byte counted in rxBytes was handed to
\* Serial1.write, is in the path, or is counted (or about to be) as dropped.
Conservation ==
    \A s \in Source : rx[s] = Len(Stream[s]) + short[s] + drops[s]

\* Each source's bytes are handed to Serial1.write in order and never twice,
\* whatever the interleaving of callbacks, tasks and full buffers.
SourceOrder ==
    \A s \in Source : \A i, j \in 1..Len(wire[s]) : i < j => wire[s][i] < wire[s][j]

\* A drop counter at zero, as GET /status reports it, is a guarantee: what
\* was handed to Serial1.write is an unbroken prefix of what arrived.
IntactWhenNoDrops ==
    \A s \in Source : short[s] + drops[s] = 0 =>
        \A i \in 1..Len(wire[s]) : wire[s][i] = i

\* What is written of a source is its stream: in order, nothing twice, and
\* without a gap as long as its drop counter is zero.
SourceStream == SourceOrder /\ IntactWhenNoDrops

\* The bytes of s that were offered to its buffer: all but the pending ones.
Offered == [s \in Source |-> rx[s] - Len(pend[s])]

\* Refinement: each source's path is a FIFO that loses a byte only when it is
\* full, whatever the other two sources and task_uart_tx do.
Fifo == INSTANCE LossyFifo WITH
    Path      <- Source,
    offered   <- Offered,
    queue     <- Accepted,
    delivered <- wire

LossyFifoSpec == Fifo!Spec

\* A byte a stream buffer accepted is written to Serial1: no source
\* starves another in task_uart_tx's rotation.
In(n, seq) == \E i \in 1..Len(seq) : seq[i] = n

AcceptedIsDelivered ==
    \A s \in Source : \A n \in 1..MaxBytes[s] :
        In(n, buf[s]) ~> In(n, wire[s])
================================================================================
