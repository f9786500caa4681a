------------------------------- MODULE RtcmParser -------------------------------
(***************************************************************************)
(* RtcmParser: RTCM 3 frames out of a byte stream, one byte per feed().    *)
(* The stream is what a caster sends on a connection that may be cut and   *)
(* made anew, with noise in it, or, with several sources, the wire on      *)
(* which task_uart_tx lays the corrections of BLE, TCP and NTRIP chunk by  *)
(* chunk: there a receiver frames what comes as this parser does.          *)
(*                                                                         *)
(* The CRC is modelled by what it certifies.  crc is what has been read    *)
(* since the preamble while that is the beginning of a frame somebody      *)
(* sends, and Garbled otherwise; Garbled matches no checksum.  Reading a   *)
(* checksum on into the CRC shifts it out, which leaves zeros.             *)
(***************************************************************************)
EXTENDS Integers, Sequences, SequencesExt, FiniteSetsExt

CONSTANTS
    Nibble,      \* values of half a byte, 16 in the code
    Preamble,    \* 0xD3
    Frames,      \* the frames that are sent, as sequences of bytes
    NoiseBytes,  \* the bytes of noise
    Foreign,     \* sources on the wire besides the first
    ForeignFrames, \* what those send
    MaxForeign,  \* bound: frames of all of those
    MaxNoise,    \* bound: bytes of noise
    MaxCuts      \* bound: connections lost

Bytes == Nibble * Nibble
Byte  == 0..Bytes - 1

\* Ten bits of the two bytes after the preamble.
PayloadLength(f) == (f[2] % 4) * Bytes + f[3]

ASSUME FramesAssumption ==
    /\ Nibble \in Nat /\ Nibble >= 2 /\ Preamble \in Byte
    /\ Frames # {}
    /\ \A f \in Frames : /\ f \in Seq(Byte) /\ Len(f) >= 6 /\ f[1] = Preamble
                         /\ Len(f) = PayloadLength(f) + 6
ASSUME StreamAssumption ==
    /\ NoiseBytes \subseteq Byte /\ Foreign \subseteq Nat \ {0, 1}
    /\ ForeignFrames \subseteq Frames
    /\ {MaxForeign, MaxNoise, MaxCuts} \subseteq Nat

Sources == {1} \cup Foreign

VARIABLES
    \* RtcmParser
    state, length, index, crc, payloadBuf, crcBuf,
    result,    \* what feed() returned
    \* the stream
    rest,      \* rest[s]: what remains of the frame source s is sending
    foreign, noise, cuts,
    \* history: what was fed since the last preamble found in SYNC (Garbled once
    \* it is not a frame and the byte after it), and the source (0: none) whose
    \* frame found the parser in SYNC and has not been cut since
    read, intact

parser == <<state, length, index, crc, payloadBuf, crcBuf>>
stream == <<rest, foreign, noise, cuts>>
vars   == <<parser, result, stream, read, intact>>

NoResult == [valid |-> FALSE, crcError |-> FALSE, messageType |-> 0, length |-> 0]
Garbled  == <<-1>>

crc24q(c, b) ==
    IF \E f \in Frames : IsPrefix(Append(c, b), f) THEN Append(c, b) ELSE Garbled

\* A byte kept for later.  What a garbled candidate keeps decides nothing: its
\* checksum fails, and a valid frame has overwritten what it reads.
Kept(b) == IF crc = Garbled THEN 0 ELSE b

\* crc == recv
Matches(c, recv) ==
    \E f \in Frames :
        /\ IsPrefix(c, f) /\ Len(c) >= Len(f) - 3
        /\ recv = SubSeq(f \o <<0, 0, 0>>, Len(c) + 1, Len(c) + 3)

Init ==
    /\ state = "SYNC" /\ length = 0 /\ index = 0 /\ crc = <<>>
    /\ payloadBuf = <<0, 0>> /\ crcBuf = <<>>
    /\ result = NoResult
    /\ rest = [s \in Sources |-> <<>>] /\ foreign = 0 /\ noise = 0 /\ cuts = 0
    /\ read = <<>> /\ intact = 0

\* crcBuf is overwritten, not cleared, and payloadBuf keeps old bytes.
reset ==
    /\ state' = "SYNC" /\ length' = 0 /\ index' = 0 /\ crc' = <<>>
    /\ crcBuf' = <<>> /\ UNCHANGED payloadBuf

\* Variant: a type is read from any payload.
TypeOfAnyPayload == payloadBuf[1] * Nibble + payloadBuf[2] \div Nibble

extractMessageType ==
    IF length >= 2 THEN payloadBuf[1] * Nibble + payloadBuf[2] \div Nibble ELSE 0

--------------------------------------------------------------------------------
(* feed(b), by state.                                                      *)

Sync(b) ==
    /\ state = "SYNC"
    /\ IF b = Preamble
       THEN state' = "LEN1" /\ crc' = crc24q(<<>>, b)
       ELSE UNCHANGED <<state, crc>>
    /\ result' = NoResult
    /\ UNCHANGED <<length, index, payloadBuf, crcBuf>>

Len1(b) ==
    /\ state = "LEN1" /\ state' = "LEN2"
    /\ length' = (b % 4) * Bytes
    /\ crc' = crc24q(crc, b)
    /\ result' = NoResult
    /\ UNCHANGED <<index, payloadBuf, crcBuf>>

Len2(b) ==
    /\ state = "LEN2" /\ state' = "PAYLOAD"
    /\ length' = length + b
    /\ crc' = crc24q(crc, b) /\ index' = 0
    /\ result' = NoResult
    /\ UNCHANGED <<payloadBuf, crcBuf>>

\* Variants: the last byte is left out of the CRC; one byte too many.
PayloadUnchecked(b) ==
    /\ state = "PAYLOAD"
    /\ payloadBuf' = IF index < 2 THEN [payloadBuf EXCEPT ![index + 1] = Kept(b)]
                                  ELSE payloadBuf
    /\ IF index + 1 >= length
       THEN state' = "CRC" /\ index' = 0 /\ UNCHANGED crc
       ELSE index' = index + 1 /\ crc' = crc24q(crc, b) /\ UNCHANGED state
    /\ result' = NoResult
    /\ UNCHANGED <<length, crcBuf>>

PayloadOneMore(b) ==
    /\ state = "PAYLOAD"
    /\ payloadBuf' = IF index < 2 THEN [payloadBuf EXCEPT ![index + 1] = Kept(b)]
                                  ELSE payloadBuf
    /\ crc' = crc24q(crc, b)
    /\ IF index + 1 > length
       THEN state' = "CRC" /\ index' = 0
       ELSE index' = index + 1 /\ UNCHANGED state
    /\ result' = NoResult
    /\ UNCHANGED <<length, crcBuf>>

\* Of the twelve bytes kept two are read.  An empty payload takes a byte, too.
Payload(b) ==
    /\ state = "PAYLOAD"
    /\ payloadBuf' = IF index < 2 THEN [payloadBuf EXCEPT ![index + 1] = Kept(b)]
                                  ELSE payloadBuf
    /\ crc' = crc24q(crc, b)
    /\ IF index + 1 >= length
       THEN state' = "CRC" /\ index' = 0
       ELSE index' = index + 1 /\ UNCHANGED state
    /\ result' = NoResult
    /\ UNCHANGED <<length, crcBuf>>

CrcMore(b) ==
    /\ state = "CRC" /\ index < 2
    /\ crcBuf' = Append(crcBuf, Kept(b)) /\ index' = index + 1
    /\ result' = NoResult
    /\ UNCHANGED <<state, length, crc, payloadBuf>>

\* Variant: an error leaves the parser where it is.
CrcLastStuck(b) ==
    /\ state = "CRC" /\ index = 2
    /\ LET ok == Matches(crc, Append(crcBuf, b))
       IN  /\ result' = [valid |-> ok, crcError |-> ~ok, length |-> length,
                         messageType |-> IF ok THEN extractMessageType ELSE 0]
           /\ IF ok THEN reset ELSE UNCHANGED parser

CrcLast(b) ==
    /\ state = "CRC" /\ index = 2
    /\ LET ok == Matches(crc, Append(crcBuf, b))
       IN  result' = [valid |-> ok, crcError |-> ~ok, length |-> length,
                      messageType |-> IF ok THEN extractMessageType ELSE 0]
    /\ reset

feed(b) ==
    /\ Sync(b) \/ Len1(b) \/ Len2(b) \/ Payload(b) \/ CrcMore(b) \/ CrcLast(b)
    /\ LET r == IF state = "SYNC" THEN <<b>> ELSE Append(read, b)
       IN  read' = IF \E f \in Frames : IsPrefix(r, Append(f, 0)) THEN r ELSE Garbled

--------------------------------------------------------------------------------
(* The stream.                                                             *)

Begin(s) ==
    /\ rest[s] = <<>>
    /\ \E f \in IF s = 1 THEN Frames ELSE ForeignFrames :
          feed(f[1]) /\ rest' = [rest EXCEPT ![s] = Tail(f)]
    /\ intact' = IF state = "SYNC" THEN s ELSE 0

Continue(s) ==
    /\ rest[s] # <<>>
    /\ feed(Head(rest[s])) /\ rest' = [rest EXCEPT ![s] = Tail(@)]
    /\ intact' = IF intact = s THEN s ELSE 0

\* The caster.
Send == (Begin(1) \/ Continue(1)) /\ UNCHANGED <<foreign, noise, cuts>>

\* Another source gets a chunk in between.
SendForeign(s) ==
    /\ \/ Begin(s) /\ foreign < MaxForeign /\ foreign' = foreign + 1
       \/ Continue(s) /\ UNCHANGED foreign
    /\ UNCHANGED <<noise, cuts>>

Noise ==
    /\ noise < MaxNoise /\ noise' = noise + 1
    /\ \E b \in NoiseBytes : feed(b)
    /\ intact' = 0
    /\ UNCHANGED <<rest, foreign, cuts>>

\* taskLoop connects again and resets the parser; the caster goes on anywhere
\* in a frame.
Reconnect ==
    /\ cuts < MaxCuts /\ cuts' = cuts + 1
    /\ reset
    /\ result' = NoResult /\ read' = <<>> /\ intact' = 0
    /\ \E f \in Frames : \E k \in 1..Len(f) :
          rest' = [s \in Sources |-> IF s = 1 THEN SubSeq(f, k + 1, Len(f)) ELSE <<>>]
    /\ UNCHANGED <<foreign, noise>>

Next == Send \/ (\E s \in Foreign : SendForeign(s)) \/ Noise \/ Reconnect

\* The caster goes on sending.
Spec == Init /\ [][Next]_vars /\ WF_vars(Send)

--------------------------------------------------------------------------------
(* Properties.                                                             *)

\* Types and the bounds of the parser's buffers (crcBuf, the 10-bit length).
TypeOK ==
    /\ state \in {"SYNC", "LEN1", "LEN2", "PAYLOAD", "CRC"}
    /\ length \in 0..4 * Bytes - 1
    /\ index \in 0..4 * Bytes - 2
    /\ state = "PAYLOAD" => index < Max({1, length})
    /\ state = "CRC" => index < 3 /\ Len(crcBuf) = index
    /\ state # "CRC" => crcBuf = <<>>
    /\ payloadBuf \in [1..2 -> Byte]
    /\ foreign \in 0..MaxForeign /\ noise \in 0..MaxNoise /\ cuts \in 0..MaxCuts

\* What feed() calls valid is a frame that was sent, read from its preamble to
\* its checksum and nothing else, with its length and its message type:
\* never two pieces of different frames, never the type of an earlier one.
ValidIsAFrame ==
    result.valid =>
        \E f \in Frames :
            /\ read = IF PayloadLength(f) > 0 THEN f ELSE Append(f, 0)
            /\ result.length = PayloadLength(f)
            /\ result.messageType =
                  IF Len(f) < 8 THEN 0 ELSE (f[4] * Bytes + f[5]) \div Nibble

\* A frame with a payload that finds the parser between frames and that nothing
\* cuts is valid at its last byte, whatever was read before it.
WholeFrameCounts ==
    [][\A s \in Sources :
          intact = s /\ Len(rest[s]) = 1 /\ rest'[s] = <<>> /\ length > 0
              /\ intact' = s
          => result'.valid]_vars

\* Frames in which the preamble occurs once, and that carry something.
Plain == {f \in Frames : PayloadLength(f) > 0 /\ \A i \in 2..Len(f) : f[i] # Preamble}

\* After noise, foreign chunks and lost connections the parser finds its way
\* back: while the caster sends plain frames, frames count again and again.
\* (After a checksum error the parser does not go back to look for a preamble
\* in what it has read; plain frames are what makes up for that.)
FindsItsWayBack ==
    <>[](\E f \in Plain : IsSuffix(rest[1], f)) => []<>(result.valid)
================================================================================
