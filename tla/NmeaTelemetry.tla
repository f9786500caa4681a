----------------------------- MODULE NmeaTelemetry -----------------------------
(***************************************************************************)
(* The NMEA parser behind the web UI's position and satellite list.        *)
(* task_uart_rx feeds it the receiver's sentences.  RMC, GGA, GSA and GST  *)
(* of each second overwrite parts of one record; GSV sentences come in     *)
(* numbered messages per constellation, are staged, and go into the live   *)
(* list when the last message of a sequence arrives.  The web UI takes     *)
(* snapshots of both.                                                      *)
(*                                                                         *)
(* task_uart_rx has a higher priority than every reader and the board has  *)
(* one core, so a reader sees a sentence whole, but the task preempts a    *)
(* snapshot anywhere outside its critical sections.  A line is a sentence  *)
(* that reached process_line intact, or one that was lost on the way       *)
(* (overflow, checksum).  `time` is the true time, millis() what the code  *)
(* sees of it.  A value of the record is the second it was measured in;    *)
(* lastMs and accLastMs are left out.                                      *)
(***************************************************************************)
EXTENDS Integers, Sequences, SequencesExt, FiniteSets

CONSTANTS
    N,           \* constellations 1..N, in the order of the live list
    Wrap,        \* 2^w: millis() is a w-bit counter
    StaleMs,     \* NMEA_GSV_STALE_MS
    MaxSats,     \* NMEA_MAX_SATS
    Epochs,      \* Epochs[c]: GSV sequences of c, each message its tracked satellites
    MaxTime,     \* bound: clock ticks
    Sentences,   \* the order in which the receiver sends them each second
    Day,         \* seconds of a day
    MaxUtc       \* bound: seconds of UTC

Constellation == 1..N

ASSUME SizesAssumption == {N, Wrap, StaleMs, MaxSats} \subseteq Nat \ {0}
ASSUME EpochsAssumption ==
    \A c \in Constellation : \A e \in Epochs[c] : e \in Seq(Seq(Nat)) \ {<<>>}
ASSUME MaxTimeAssumption == MaxTime \in Nat \ {0}
\* Every kind of sentence is sent each second, in an order of the receiver's own.
ASSUME SentencesAssumption ==
    /\ Sentences \in Seq({"GGA", "RMC", "GSA", "GST"})
    /\ ToSet(Sentences) = {"GGA", "RMC", "GSA", "GST"}
    /\ {Day, MaxUtc} \subseteq Nat \ {0}

VARIABLES
    time,        \* milliseconds since boot
    \* the receiver
    epoch,       \* epoch[c]: the GSV sequence of c it sends
    sent,        \* sent[c]: messages of it sent so far
    first,       \* first[c]: its first message was not lost
    \* parsing_nmea.cpp
    gsv,         \* g_gsv_buf: sats (with count), total_msgs, last_msg_nr, lastUpdateMs
    live,        \* g_gps.sats with satCount
    \* nmea_get_snapshot
    rpc, now,    \* where the reader is, and the millis() it read
    \* the receiver's second: UTC (known from some second on), what is left to
    \* send, whether hdop and the deviations of GST are there; no sentence lost
    utc, known, due, hasHdop, hasGst, whole,
    fix          \* the fields of g_gps that RMC, GGA, GSA and GST write

receiver == <<epoch, sent, first>>
reader   == <<rpc, now>>
list     == <<time, receiver, gsv, live, reader>>
second   == <<utc, known, due, hasHdop, hasGst, whole>>
vars     == <<list, second, fix>>

Never == 0      \* not measured yet
Empty == 255    \* what an empty time or date field is read as

Millis == time % Wrap
Least(a, b) == IF a <= b THEN a ELSE b

\* nmea_begin(): nothing staged, nothing listed.
Init ==
    /\ time = 1
    /\ epoch = [c \in Constellation |-> <<>>]
    /\ sent = [c \in Constellation |-> 0] /\ first = [c \in Constellation |-> FALSE]
    /\ gsv = [c \in Constellation |->
                [sats |-> <<>>, total |-> 0, last |-> 0, updated |-> 0]]
    /\ live = <<>>
    /\ rpc = "idle" /\ now = 0
    /\ utc = 0 /\ known = FALSE /\ due = <<>> /\ hasHdop = FALSE /\ hasGst = FALSE
    /\ whole = FALSE
    /\ fix = [pos |-> Never, timeValid |-> FALSE, clock |-> 0, date |-> Never,
              quality |-> Never, type |-> Never, hdop |-> Never,
              acc |-> Never, accSource |-> "none"]

--------------------------------------------------------------------------------
(* Staging and the live list.                                              *)

\* Variant for mutation: a satellite is not looked up.
BufferSatBlind(sats, s) == IF Len(sats) = MaxSats THEN sats ELSE Append(sats, s)

\* buffer_sat: a satellite that is staged is updated in place, a new one is
\* appended while there is room.
BufferSat(sats, s) ==
    IF s \in ToSet(sats) \/ Len(sats) = MaxSats THEN sats ELSE Append(sats, s)

\* The satellites of a message, one after the other.
Buffered(sats, message) ==
    LET staged[i \in 0..Len(message)] ==
            IF i = 0 THEN sats ELSE BufferSat(staged[i - 1], message[i])
    IN  staged[Len(message)]

\* A staged constellation whose age, a w-bit difference, is within the window.
Fresh(s, t) == s.updated # 0 /\ (t - s.updated) % Wrap <= StaleMs

\* Variant: the live list is not cut.
CopiedUncut(listed, c, sats) == listed \o [i \in 1..Len(sats) |-> <<c, sats[i]>>]

\* can_copy of the staged satellites of c, behind those listed.
Copied(listed, c, sats) ==
    listed \o [i \in 1..Least(Len(sats), MaxSats - Len(listed)) |-> <<c, sats[i]>>]

\* rebuild_live_sat_list: the fresh constellations, in order.
Rebuilt(g, t) ==
    LET listed[c \in 0..N] ==
            IF c = 0 THEN <<>>
            ELSE IF Fresh(g[c], t) THEN Copied(listed[c - 1], c, g[c].sats)
            ELSE listed[c - 1]
    IN  listed[N]

--------------------------------------------------------------------------------
(* task_uart_rx: process_line.                                             *)

\* Variant: the sequence is not validated.
InSequenceAny(s, n, of) == TRUE

\* NMEA_VALIDATE_GSV_SEQUENCE: a first message, or the next of the same total.
InSequence(s, n, of) == n = 1 \/ (n = s.last + 1 /\ of = s.total)

\* Message n of `of`, staged; the first starts from nothing, the last is dated.
Stage(s, n, of, message) ==
    [sats    |-> Buffered(IF n = 1 THEN <<>> ELSE s.sats, message),
     total   |-> of,
     last    |-> n,
     updated |-> IF n = of THEN Millis ELSE s.updated]

\* A message in sequence is staged, and the last one commits.
GsvStage(c, n, of, message) ==
    /\ InSequence(gsv[c], n, of)
    /\ gsv' = [gsv EXCEPT ![c] = Stage(@, n, of, message)]
    /\ live' = IF n = of THEN Rebuilt(gsv', Millis) ELSE live

\* One out of sequence empties the staging buffer, and nothing else.
GsvReject(c, n, of) ==
    /\ ~InSequence(gsv[c], n, of)
    /\ gsv' = [gsv EXCEPT ![c].sats = <<>>]
    /\ UNCHANGED live

\* The receiver sends message n of sequence e of c: the next of the sequence
\* it is in, or the first of another.
Send(c, e, n) ==
    /\ IF sent[c] < Len(epoch[c]) THEN e = epoch[c] /\ n = sent[c] + 1
                                  ELSE e \in Epochs[c] /\ n = 1
    /\ epoch' = [epoch EXCEPT ![c] = e]
    /\ sent' = [sent EXCEPT ![c] = n]

Gsv(c, e, n) ==
    /\ Send(c, e, n)
    /\ first' = [first EXCEPT ![c] = n = 1 \/ @]
    /\ GsvStage(c, n, Len(e), e[n]) \/ GsvReject(c, n, Len(e))
    /\ UNCHANGED <<time, reader, second, fix>>

Lose(c, e, n) ==
    /\ Send(c, e, n)
    /\ first' = [first EXCEPT ![c] = n # 1 /\ @]
    /\ UNCHANGED <<time, gsv, live, reader, second, fix>>

--------------------------------------------------------------------------------
(* task_uart_rx: RMC, GGA, GSA and GST.                                    *)

\* The receiver's next second.
NextSecond ==
    /\ due = <<>> /\ utc < MaxUtc /\ utc' = utc + 1
    /\ due' = Sentences /\ whole' = TRUE
    /\ known' \in {known, TRUE} /\ hasHdop' \in BOOLEAN /\ hasGst' \in BOOLEAN
    /\ UNCHANGED <<list, fix>>

SendNext(sentence) ==
    /\ due # <<>> /\ Head(due) = sentence /\ due' = Tail(due)
    /\ UNCHANGED <<list, utc, known, hasHdop, hasGst>>

Clock == IF known THEN utc % Day ELSE Empty
Date  == IF known THEN 1 + utc \div Day ELSE Empty

\* Variant: an estimate is made once.
EstimateOnce(f) ==
    IF hasHdop /\ f.accSource = "none"
    THEN [f EXCEPT !.hdop = utc, !.acc = utc, !.accSource = "HDOP"]
    ELSE [f EXCEPT !.hdop = IF hasHdop THEN utc ELSE @]

\* A positive hdop is kept and, while there has been no GST, gives the accuracy.
Estimate(f) ==
    IF hasHdop /\ f.accSource # "GST"
    THEN [f EXCEPT !.hdop = utc, !.acc = utc, !.accSource = "HDOP"]
    ELSE [f EXCEPT !.hdop = IF hasHdop THEN utc ELSE @]

Rmc ==
    /\ SendNext("RMC") /\ UNCHANGED whole
    /\ fix' = [fix EXCEPT !.pos = utc, !.timeValid = TRUE, !.clock = Clock, !.date = Date]

\* The time of a GGA is taken while there is none.
Gga ==
    /\ SendNext("GGA") /\ UNCHANGED whole
    /\ fix' = [Estimate(fix) EXCEPT !.quality = utc, !.timeValid = TRUE,
                                    !.clock = IF fix.timeValid THEN @ ELSE Clock]

Gsa ==
    /\ SendNext("GSA") /\ UNCHANGED whole
    /\ fix' = [Estimate(fix) EXCEPT !.type = utc]

Gst ==
    /\ SendNext("GST") /\ UNCHANGED whole
    /\ fix' = IF hasGst THEN [fix EXCEPT !.acc = utc, !.accSource = "GST"] ELSE fix

LoseSentence ==
    /\ \E sentence \in ToSet(Sentences) : SendNext(sentence)
    /\ whole' = FALSE /\ UNCHANGED fix

Navigation == NextSecond \/ Rmc \/ Gga \/ Gsa \/ Gst \/ LoseSentence

--------------------------------------------------------------------------------
(* nmea_get_snapshot: read the clock, rebuild, copy.                       *)

SnapNow ==
    /\ rpc = "idle" /\ rpc' = "rebuild" /\ now' = Millis
    /\ UNCHANGED <<time, receiver, gsv, live, second, fix>>

SnapRebuild ==
    /\ rpc = "rebuild" /\ rpc' = "copy"
    /\ live' = Rebuilt(gsv, now)
    /\ UNCHANGED <<time, receiver, gsv, now, second, fix>>

SnapCopy ==
    /\ rpc = "copy" /\ rpc' = "idle" /\ now' = 0
    /\ UNCHANGED <<time, receiver, gsv, live, second, fix>>

Snapshot == SnapNow \/ SnapRebuild \/ SnapCopy

Tick ==
    /\ time < MaxTime /\ time' = time + 1
    /\ UNCHANGED <<receiver, gsv, live, reader, second, fix>>

Satellites ==
    \/ \E c \in Constellation : \E e \in Epochs[c] : \E n \in 1..Len(e) :
        Gsv(c, e, n) \/ Lose(c, e, n)
    \/ Snapshot \/ Tick

Next == Satellites \/ Navigation

Spec == Init /\ [][Next]_vars

--------------------------------------------------------------------------------
(* Properties.                                                             *)

TypeOK ==
    /\ time \in Nat /\ now \in 0..Wrap - 1
    /\ \A c \in Constellation :
        /\ epoch[c] \in Epochs[c] \cup {<<>>} /\ sent[c] \in 0..Len(epoch[c])
        /\ first[c] \in BOOLEAN
        /\ gsv[c].sats \in Seq(Nat) /\ Len(gsv[c].sats) <= MaxSats
        /\ gsv[c].total \in Nat /\ gsv[c].last \in 0..gsv[c].total
        /\ gsv[c].updated \in 0..Wrap - 1
    /\ live \in Seq(Constellation \X Nat) /\ Len(live) <= MaxSats
    /\ rpc \in {"idle", "rebuild", "copy"}
    /\ {known, hasHdop, hasGst, whole, fix.timeValid} \subseteq BOOLEAN
    /\ {fix.pos, fix.quality, fix.type, fix.hdop, fix.acc} \subseteq 0..utc
    /\ utc \in 0..MaxUtc /\ IsSuffix(due, Sentences)
    /\ fix.accSource = "none" <=> fix.acc = Never

\* No satellite is listed twice, however sequences repeat satellites, lose
\* messages and restart.
NoSatTwice == \A i, j \in 1..Len(live) : live[i] = live[j] => i = j

Told(e) == UNION {ToSet(e[n]) : n \in 1..Len(e)}

\* NMEA_VALIDATE_GSV_SEQUENCE: when the last message of a sequence whose first
\* message arrived is accepted, which dates the staging buffer and commits it,
\* the buffer holds all the sequence told, or as much as it has room for: no
\* loss in between, and nothing of another sequence, is committed unseen.  Of
\* what is listed before the last message it says nothing.
CommittedIsWhole ==
    \A c \in Constellation :
        first[c] /\ sent[c] = Len(epoch[c]) /\ gsv[c].last = gsv[c].total
            => \/ ToSet(gsv[c].sats) = Told(epoch[c])
               \/ Len(gsv[c].sats) = MaxSats

\* NMEA_GSV_STALE_MS: what a snapshot lists completed a sequence at most
\* StaleMs before the request, whenever the parser preempts it (until millis()
\* wraps, which MaxTime < Wrap leaves out).
NothingStale ==
    rpc = "copy" =>
        \A i \in 1..Len(live) : now - gsv[live[i][1]].updated <= StaleMs

\* What the page lists as satellites: none twice, none stale.
ListSound == NoSatTwice /\ NothingStale

\* Position, date and time shown are those of one RMC as soon as there is a date,
\* whatever is lost and in whatever order sentences come: a GGA never puts the
\* time of a new day next to the date of the old one.
OneRmc ==
    fix.date \notin {Never, Empty} => /\ fix.date = 1 + fix.pos \div Day
                                    /\ fix.clock = fix.pos % Day

\* When a second is over of which nothing was lost, all that is shown is of that
\* second: position, quality, fix type, hdop if there was one, and the accuracy if
\* there was a GST or, while there has never been a GST, an hdop.
SecondIsShown ==
    (whole /\ due = <<>> /\ utc > 0) =>
        /\ {fix.pos, fix.quality, fix.type} = {utc}
        /\ hasHdop => fix.hdop = utc
        /\ hasGst \/ (hasHdop /\ fix.accSource # "GST") => fix.acc = utc

\* What the page shows as the fix belongs together.
FixCoheres == OneRmc /\ SecondIsShown
================================================================================
