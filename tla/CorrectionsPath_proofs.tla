------------------------- MODULE CorrectionsPath_proofs -------------------------
(***************************************************************************)
(* Proofs about CorrectionsPath for every buffer capacity, chunk size and  *)
(* input.  The argument looks at one sequence per source, Stream[s]: what  *)
(* was written, held, buffered and is pending, oldest byte first.  Every   *)
(* step leaves it alone, appends fresh bytes to it, or cuts its tail and   *)
(* accounts for the cut, so order and accounting are inductive over it.    *)
(***************************************************************************)
EXTENDS CorrectionsPath, SequenceTheorems, TLAPS

\* The bytes of a stream are distinct, in order, and were received.
Ordered(q, m) ==
    /\ \A i \in 1..Len(q) : q[i] <= m
    /\ \A i, j \in 1..Len(q) : i < j => q[i] < q[j]

\* Nothing is missing from a stream.
Unbroken(q) == \A i \in 1..Len(q) : q[i] = i

\* What is true of a stream q when m bytes were received and l of them lost.
Sound(q, m, l) ==
    /\ Ordered(q, m)
    /\ m = Len(q) + l
    /\ l = 0 => Unbroken(q)

IInv ==
    /\ TypeOK
    /\ \A s \in Source :
        /\ pend[s] # <<>> => short[s] = 0
        /\ Sound(Stream[s], rx[s], short[s] + drops[s])

--------------------------------------------------------------------------------
(* Sequences.                                                              *)

\* Concatenation is associative.
LEMMA Assoc == \A a, b, c \in Seq(Nat) : (a \o b) \o c = a \o (b \o c)
BY SMTT(30)

\* Cutting a sequence in two and joining the parts gives it back.
LEMMA SplitJoin ==
    ASSUME NEW q \in Seq(Nat), NEW k \in 0..Len(q)
    PROVE  /\ SubSeq(q, 1, k) \in Seq(Nat) /\ Len(SubSeq(q, 1, k)) = k
           /\ SubSeq(q, k + 1, Len(q)) \in Seq(Nat)
           /\ Len(SubSeq(q, k + 1, Len(q))) = Len(q) - k
           /\ SubSeq(q, 1, k) \o SubSeq(q, k + 1, Len(q)) = q
<1>1. Len(q) \in Nat /\ \A i \in 1..Len(q) : q[i] \in Nat
    BY ElementOfSeq, LenProperties
<1>2. SubSeq(q, 1, k) \in Seq(Nat) /\ Len(SubSeq(q, 1, k)) = k
    BY <1>1, SubSeqProperties
<1>3. /\ SubSeq(q, k + 1, Len(q)) \in Seq(Nat)
      /\ Len(SubSeq(q, k + 1, Len(q))) = Len(q) - k
    <2>1. \A i \in k + 1 .. Len(q) : q[i] \in Nat
        BY <1>1
    <2> QED BY <1>1, <2>1, SubSeqProperties
<1>4. SubSeq(q, 1, k) \o SubSeq(q, k + 1, Len(q)) = SubSeq(q, 1, Len(q))
    <2>1. 1 \in 1 .. Len(q) + 1 /\ k \in 1 - 1 .. Len(q) /\ Len(q) \in k .. Len(q)
        BY <1>1
    <2> QED BY <2>1, ConcatAdjacentSubSeq
<1> QED BY <1>2, <1>3, <1>4, SubSeqFull

\* Joining two sequences and cutting the result gives them back.
LEMMA JoinSplit ==
    ASSUME NEW a \in Seq(Nat), NEW b \in Seq(Nat)
    PROVE  /\ Len(a \o b) = Len(a) + Len(b)
           /\ SubSeq(a \o b, 1, Len(a)) = a
           /\ SubSeq(a \o b, Len(a) + 1, Len(a \o b)) = b
<1> DEFINE c == a \o b
           x == SubSeq(c, 1, Len(a))
           y == SubSeq(c, Len(a) + 1, Len(c))
<1>1. /\ c \in Seq(Nat) /\ Len(c) = Len(a) + Len(b) /\ Len(a) \in Nat /\ Len(b) \in Nat
      /\ \A i \in 1..Len(c) : c[i] = IF i <= Len(a) THEN a[i] ELSE b[i - Len(a)]
    BY ConcatProperties, LenProperties
<1>2. Len(a) \in 0..Len(c)
    BY <1>1
<1>3. /\ x \in Seq(Nat) /\ Len(x) = Len(a)
      /\ \A i \in 1..Len(a) : x[i] = c[i]
    <2>1. \A i \in 1..Len(a) : c[i] \in Nat
        BY <1>1, ElementOfSeq
    <2> QED BY <1>1, <2>1, SubSeqProperties
<1>4. /\ y \in Seq(Nat) /\ Len(y) = Len(b)
      /\ \A i \in 1..Len(b) : y[i] = c[Len(a) + i]
    <2>1. \A i \in Len(a) + 1 .. Len(c) : c[i] \in Nat
        BY <1>1, ElementOfSeq
    <2> QED BY <1>1, <2>1, SubSeqProperties
<1> HIDE DEF c, x, y
<1>5. x = a
    <2>1. \A i \in 1..Len(a) : x[i] = a[i]
        BY <1>1, <1>3
    <2> QED BY <1>3, <2>1, SeqEqual
<1>6. y = b
    <2>1. ASSUME NEW i \in 1..Len(b) PROVE y[i] = b[i]
        <3>1. /\ Len(a) + i \in 1..Len(c) /\ ~(Len(a) + i <= Len(a))
              /\ Len(a) + i - Len(a) = i
            BY <1>1
        <3>2. c[Len(a) + i] = b[Len(a) + i - Len(a)]
            <4>1. \A j \in 1..Len(c) : ~(j <= Len(a)) => c[j] = b[j - Len(a)]
                BY <1>1
            <4> QED BY <3>1, <4>1
        <3> QED BY <1>4, <3>1, <3>2
    <2> QED BY <1>4, <2>1, SeqEqual
<1> QED BY <1>1, <1>5, <1>6 DEF c, x, y

\* Fresh bytes at the end keep a stream ordered, and unbroken if it was.
LEMMA AppendFresh ==
    ASSUME NEW q \in Seq(Nat), NEW m \in Nat, NEW n \in Nat, Ordered(q, m),
           NEW r, r = q \o [i \in 1..n |-> m + i]
    PROVE  /\ Len(r) = Len(q) + n
           /\ Ordered(r, m + n)
           /\ Len(q) = m /\ Unbroken(q) => Unbroken(r)
<1> DEFINE f == [i \in 1..n |-> m + i]
<1>1. f \in Seq(Nat) /\ Len(f) = n
    <2>1. \A i \in 1..n : m + i \in Nat
        OBVIOUS
    <2> QED BY <2>1
<1>2. /\ r \in Seq(Nat) /\ Len(r) = Len(q) + n
      /\ \A i \in 1..Len(q) + n :
            r[i] = IF i <= Len(q) THEN q[i] ELSE f[i - Len(q)]
    BY <1>1, ConcatProperties
<1>3. /\ \A i \in 1..Len(q) : r[i] = q[i] /\ q[i] \in Nat
      /\ \A i \in Len(q) + 1 .. Len(q) + n : r[i] = m + (i - Len(q))
      /\ Len(q) \in Nat
    BY <1>2, LenProperties, ElementOfSeq
<1> HIDE DEF f
<1>4. Ordered(r, m + n)
    BY <1>2, <1>3, SMTT(30) DEF Ordered
<1>5. Len(q) = m /\ Unbroken(q) => Unbroken(r)
    BY <1>2, <1>3 DEF Unbroken
<1> QED BY <1>2, <1>4, <1>5

\* Cutting the tail of a stream keeps it ordered, and unbroken if it was.
LEMMA CutTail ==
    ASSUME NEW q \in Seq(Nat), NEW t \in Seq(Nat), NEW m \in Nat,
           Ordered(q \o t, m)
    PROVE  /\ Len(q \o t) = Len(q) + Len(t)
           /\ Ordered(q, m)
           /\ Unbroken(q \o t) => Unbroken(q)
<1> DEFINE r == q \o t
<1>1. /\ Len(r) = Len(q) + Len(t)
      /\ \A i \in 1..Len(r) : r[i] = IF i <= Len(q) THEN q[i] ELSE t[i - Len(q)]
    BY ConcatProperties
<1>2. Len(q) \in Nat /\ Len(t) \in Nat
    BY LenProperties
<1> HIDE DEF r
<1>3. \A i \in 1..Len(q) : i \in 1..Len(r) /\ r[i] = q[i]
    BY <1>1, <1>2
<1>4. Ordered(r, m) => Ordered(q, m)
    BY <1>3 DEF Ordered
<1>5. Unbroken(r) => Unbroken(q)
    BY <1>3 DEF Unbroken
<1> QED BY <1>1, <1>4, <1>5 DEF r

--------------------------------------------------------------------------------
(* Types.                                                                  *)

\* The initial state has the declared types.
LEMMA InitType == Init => TypeOK
BY CapacityAssumption, UartChunkAssumption DEF Init, TypeOK, Source

\* The rotation of task_uart_tx stays among the sources.
LEMMA NextTurnType == \A s \in Source : NextTurn[s] \in Source
BY DEF NextTurn, Source

\* The room for a pending payload never exceeds the payload or the free space.
LEMMA RoomType ==
    ASSUME TypeOK, NEW s \in Source
    PROVE  /\ Room(s) \in 0..Len(pend[s])
           /\ Len(buf[s]) + Room(s) <= Capacity[s]
<1>1. Len(pend[s]) \in Nat /\ Len(buf[s]) \in Nat
    BY DEF TypeOK
<1>2. Capacity[s] \in Nat /\ Capacity[s] - Len(buf[s]) \in Nat
    BY <1>1, CapacityAssumption DEF TypeOK
<1> QED BY <1>1, <1>2 DEF Room, Least

\* What task_uart_tx takes fits its chunk and is there to be taken.
LEMMA TakenType ==
    ASSUME TypeOK
    PROVE  Taken \in 0..Len(buf[turn]) /\ Taken <= UartChunk
<1>1. Len(buf[turn]) \in Nat /\ UartChunk \in Nat
    BY UartChunkAssumption DEF TypeOK
<1> QED BY <1>1 DEF Taken, Least

\* Every step of the sources and of task_uart_tx keeps the types.
LEMMA NextType == TypeOK /\ [Next]_vars => TypeOK'
<1> SUFFICES ASSUME TypeOK, [Next]_vars PROVE TypeOK'
    OBVIOUS
<1>1. ASSUME NEW s \in Enabled, NEW n \in 1..MaxWrite, Arrive(s, n) PROVE TypeOK'
    <2>1. s \in Source /\ n \in Nat /\ rx[s] \in Nat
        BY EnabledAssumption, MaxAssumption DEF TypeOK
    <2>2. [i \in 1..n |-> rx[s] + i] \in Seq(Nat)
        <3>1. \A i \in 1..n : rx[s] + i \in Nat
            BY <2>1
        <3> QED BY <2>1, <3>1, IsASeq
    <2>3. rx' \in [Source -> Nat]
        BY <1>1, <2>1, SMTT(30) DEF TypeOK, Arrive
    <2>4. pend' \in [Source -> Seq(Nat)]
        BY <1>1, <2>1, <2>2 DEF TypeOK, Arrive
    <2> QED BY <1>1, <2>3, <2>4 DEF TypeOK, Arrive
<1>2. ASSUME NEW s \in Enabled, Push(s) PROVE TypeOK'
    <2> DEFINE p == SubSeq(pend[s], 1, Room(s))
    <2>1. s \in Source /\ pend[s] \in Seq(Nat) /\ buf[s] \in Seq(Nat)
        BY EnabledAssumption DEF TypeOK
    <2>2. Room(s) \in 0..Len(pend[s]) /\ Len(buf[s]) + Room(s) <= Capacity[s]
        BY <2>1, RoomType
    <2>3. p \in Seq(Nat) /\ Len(p) = Room(s)
        BY <2>1, <2>2, SplitJoin
    <2>4. buf[s] \o p \in Seq(Nat) /\ Len(buf[s] \o p) = Len(buf[s]) + Room(s)
        BY <2>1, <2>3, ConcatProperties
    <2>5. buf' \in [Source -> Seq(Nat)] /\ \A t \in Source : Len(buf'[t]) <= Capacity[t]
        BY <1>2, <2>1, <2>2, <2>4 DEF TypeOK, Push
    <2>6. short' \in [Source -> Nat]
        <3>1. Len(pend[s]) - Room(s) \in Nat
            BY <2>1, <2>2, LenProperties
        <3> QED BY <1>2, <2>1, <3>1 DEF TypeOK, Push
    <2>7. pend' \in [Source -> Seq(Nat)]
        BY <1>2, <2>1 DEF TypeOK, Push
    <2> QED BY <1>2, <2>5, <2>6, <2>7 DEF TypeOK, Push
<1>3. ASSUME NEW s \in Enabled, CountDrops(s) PROVE TypeOK'
    <2>1. s \in Source
        BY EnabledAssumption
    <2>2. drops' \in [Source -> Nat] /\ short' \in [Source -> Nat]
        BY <1>3, <2>1, SMTT(30) DEF TypeOK, CountDrops
    <2>3. UNCHANGED <<rx, pend, buf, turn, tmp, wire>>
        BY <1>3 DEF CountDrops
    <2> QED BY <2>2, <2>3 DEF TypeOK
<1>4. CASE PollEmpty
    BY <1>4, NextTurnType DEF TypeOK, PollEmpty
<1>5. CASE Poll
    <2>1. turn \in Source /\ buf[turn] \in Seq(Nat)
        BY DEF TypeOK
    <2>2. Taken \in 0..Len(buf[turn]) /\ Taken <= UartChunk
        BY TakenType
    <2>3. tmp' \in Seq(Nat) /\ Len(tmp') <= UartChunk
        BY <1>5, <2>1, <2>2, SplitJoin DEF Poll
    <2>4. /\ SubSeq(buf[turn], Taken + 1, Len(buf[turn])) \in Seq(Nat)
          /\ Len(SubSeq(buf[turn], Taken + 1, Len(buf[turn]))) <= Len(buf[turn])
        BY <2>1, <2>2, SplitJoin
    <2>5. buf' \in [Source -> Seq(Nat)] /\ \A t \in Source : Len(buf'[t]) <= Capacity[t]
        <3>1. buf' = [buf EXCEPT ![turn] = SubSeq(buf[turn], Taken + 1, Len(buf[turn]))]
            BY <1>5 DEF Poll
        <3>2. buf' \in [Source -> Seq(Nat)]
            BY <2>1, <2>4, <3>1 DEF TypeOK
        <3>3. ASSUME NEW t \in Source PROVE Len(buf'[t]) <= Capacity[t]
            <4>1. /\ Len(buf[t]) \in Nat /\ Len(buf[t]) <= Capacity[t]
                  /\ Len(buf'[t]) \in Nat /\ Capacity[t] \in Nat
                BY <3>2, CapacityAssumption, SMTT(30) DEF TypeOK
            <4>2. Len(buf'[t]) <= Len(buf[t])
                BY <2>1, <2>4, <3>1, <4>1 DEF TypeOK
            <4> QED BY <4>1, <4>2
        <3> QED BY <3>2, <3>3
    <2> QED BY <1>5, <2>3, <2>5 DEF TypeOK, Poll
<1>6. CASE WriteUart
    <2>1. wire[turn] \o tmp \in Seq(Nat)
        BY ConcatProperties DEF TypeOK
    <2>2. <<>> \in Seq(Nat) /\ Len(<<>>) <= UartChunk
        BY UartChunkAssumption, EmptySeq
    <2>3. turn' \in Source
        BY <1>6, NextTurnType DEF TypeOK, WriteUart
    <2>4. wire' \in [Source -> Seq(Nat)]
        BY <1>6, <2>1 DEF TypeOK, WriteUart
    <2> QED BY <1>6, <2>2, <2>3, <2>4 DEF TypeOK, WriteUart
<1>7. CASE UNCHANGED vars
    BY <1>7 DEF TypeOK, vars
<1> QED BY <1>1, <1>2, <1>3, <1>4, <1>5, <1>6, <1>7 DEF Next, Receive, UartTx

\* The bytes, counters and chunks of CorrectionsPath have their types, and no
\* stream buffer ever holds more than its size.
THEOREM TypeCorrect == Spec => []TypeOK
BY InitType, NextType, PTL DEF Spec

--------------------------------------------------------------------------------
(* How each step changes the streams.                                      *)

\* The parts of a source's stream and their lengths.
LEMMA StreamParts ==
    ASSUME TypeOK, NEW s \in Source
    PROVE  /\ Accepted[s] \in Seq(Nat)
           /\ wire[s] \o Accepted[s] \in Seq(Nat)
           /\ Stream[s] = (wire[s] \o Accepted[s]) \o pend[s]
           /\ Stream[s] \in Seq(Nat)
<1>1. wire[s] \in Seq(Nat) /\ pend[s] \in Seq(Nat) /\ buf[s] \in Seq(Nat)
    BY DEF TypeOK
<1>2. (IF s = turn THEN tmp ELSE <<>>) \in Seq(Nat)
    BY EmptySeq DEF TypeOK
<1>3. Accepted[s] \in Seq(Nat)
    BY <1>1, <1>2, ConcatProperties DEF Accepted
<1>4. wire[s] \o Accepted[s] \in Seq(Nat)
    BY <1>1, <1>3, ConcatProperties
<1>5. (wire[s] \o Accepted[s]) \o pend[s] \in Seq(Nat)
    BY <1>1, <1>4, ConcatProperties
<1> QED BY <1>3, <1>4, <1>5 DEF Stream

\* A step that leaves wire, Accepted and pend of a source leaves its stream.
LEMMA StreamUnchanged ==
    ASSUME NEW s \in Source, wire'[s] = wire[s],
           Accepted'[s] = Accepted[s], pend'[s] = pend[s]
    PROVE  Stream'[s] = Stream[s]
BY DEF Stream

\* An arriving payload extends its source's stream and no other.
LEMMA ArriveStream ==
    ASSUME TypeOK, NEW s \in Source, NEW n \in 1..MaxWrite, Arrive(s, n)
    PROVE  /\ Stream'[s] = Stream[s] \o [i \in 1..n |-> rx[s] + i]
           /\ \A t \in Source \ {s} : Stream'[t] = Stream[t]
<1>1. \A t \in Source : wire'[t] = wire[t] /\ Accepted'[t] = Accepted[t]
    BY DEF Arrive, Accepted
<1>2. \A t \in Source \ {s} : pend'[t] = pend[t]
    BY DEF Arrive, TypeOK
<1>3. Stream[s] = wire[s] \o Accepted[s]
    BY StreamParts, ConcatEmptySeq DEF Arrive
<1>4. pend'[s] = [i \in 1..n |-> rx[s] + i]
    BY DEF Arrive, TypeOK
<1>5. Stream'[s] = (wire[s] \o Accepted[s]) \o pend'[s]
    BY <1>1 DEF Stream
<1> QED BY <1>1, <1>2, <1>3, <1>4, <1>5, StreamUnchanged

\* A push cuts the tail the buffer had no room for.
LEMMA PushStream ==
    ASSUME TypeOK, NEW s \in Source, Push(s)
    PROVE  /\ Stream'[s] \in Seq(Nat)
           /\ \E t \in Seq(Nat) : Stream[s] = Stream'[s] \o t /\ Len(t) = short'[s]
           /\ \A t \in Source \ {s} : Stream'[t] = Stream[t]
<1> DEFINE p == SubSeq(pend[s], 1, Room(s))
           r == SubSeq(pend[s], Room(s) + 1, Len(pend[s]))
           h == IF s = turn THEN tmp ELSE <<>>
           w == wire[s] \o Accepted[s]
<1>1. /\ p \in Seq(Nat) /\ r \in Seq(Nat) /\ pend[s] = p \o r
      /\ Len(r) = Len(pend[s]) - Room(s)
    BY RoomType, SplitJoin DEF TypeOK
<1>2. h \in Seq(Nat) /\ buf[s] \in Seq(Nat) /\ wire[s] \in Seq(Nat)
    BY EmptySeq DEF TypeOK
<1>3. Accepted[s] = h \o buf[s] /\ Accepted[s] \in Seq(Nat)
    BY StreamParts DEF Accepted
<1>4. Accepted'[s] = h \o (buf[s] \o p)
    BY DEF Push, Accepted, TypeOK
<1> HIDE DEF p, r, h
<1>5. Accepted'[s] = Accepted[s] \o p
    <2>1. (h \o buf[s]) \o p = h \o (buf[s] \o p)
        BY <1>1, <1>2, Assoc, Zenon
    <2> QED BY <1>3, <1>4, <2>1
<1>6. w \in Seq(Nat) /\ w \o p \in Seq(Nat)
    BY <1>1, StreamParts, ConcatProperties
<1>7. Stream'[s] = w \o p
    <2>1. pend'[s] = <<>> /\ wire'[s] = wire[s]
        BY DEF Push, TypeOK
    <2>2. Stream'[s] = (wire[s] \o (Accepted[s] \o p)) \o <<>>
        BY <1>5, <2>1 DEF Stream
    <2>3. wire[s] \o (Accepted[s] \o p) = w \o p
        <3>1. wire[s] \in Seq(Nat) /\ Accepted[s] \in Seq(Nat) /\ p \in Seq(Nat)
            BY <1>1, <1>2, <1>3
        <3> QED BY <3>1, Assoc, Zenon
    <2> QED BY <1>6, <2>2, <2>3, ConcatEmptySeq
<1>8. Stream[s] = (w \o p) \o r
    <2>1. Stream[s] = w \o (p \o r)
        BY <1>1, StreamParts
    <2> QED BY <1>1, <1>6, <2>1, Assoc, Zenon
<1>9. short'[s] = Len(r)
    BY <1>1 DEF Push, TypeOK
<1>10. ASSUME NEW t \in Source \ {s} PROVE Stream'[t] = Stream[t]
    <2>1. wire'[t] = wire[t] /\ pend'[t] = pend[t] /\ buf'[t] = buf[t]
        BY DEF Push, TypeOK
    <2>2. turn' = turn /\ tmp' = tmp
        BY DEF Push
    <2>3. Accepted'[t] = Accepted[t]
        BY <2>1, <2>2 DEF Accepted
    <2> QED BY <2>1, <2>3, StreamUnchanged
<1> QED BY <1>1, <1>6, <1>7, <1>8, <1>9, <1>10

\* A chunk that is taken is accepted still.
LEMMA PollAccepted ==
    ASSUME TypeOK, NEW s \in Source, Poll
    PROVE  Accepted'[s] = Accepted[s]
<1> DEFINE x == SubSeq(buf[turn], 1, Taken)
           y == SubSeq(buf[turn], Taken + 1, Len(buf[turn]))
<1>1. turn \in Source /\ buf[turn] \in Seq(Nat)
    BY DEF TypeOK
<1>2. buf[turn] = x \o y
    BY <1>1, TakenType, SplitJoin
<1>3. CASE s = turn
    <2>1. Accepted[s] = <<>> \o buf[turn]
        BY <1>3 DEF Accepted, Poll
    <2>2. Accepted'[s] = x \o y
        BY <1>3 DEF Accepted, Poll, TypeOK
    <2> QED BY <1>1, <1>2, <2>1, <2>2, ConcatEmptySeq
<1>4. CASE s # turn
    BY <1>4 DEF Accepted, Poll, TypeOK
<1> QED BY <1>3, <1>4

\* task_uart_tx moves bytes along the streams and changes none.
LEMMA UartTxStream ==
    ASSUME TypeOK, NEW s \in Source, UartTx
    PROVE  Stream'[s] = Stream[s]
<1>1. CASE PollEmpty
    <2>1. Accepted'[s] = Accepted[s]
        BY <1>1 DEF PollEmpty, Accepted
    <2> QED BY <1>1, <2>1, StreamUnchanged DEF PollEmpty
<1>2. CASE Poll
    <2>1. Accepted'[s] = Accepted[s]
        BY <1>2, PollAccepted
    <2> QED BY <1>2, <2>1, StreamUnchanged DEF Poll
<1>3. CASE WriteUart
    <2>1. pend'[s] = pend[s] /\ buf'[s] = buf[s] /\ buf[s] \in Seq(Nat)
        BY <1>3 DEF WriteUart, TypeOK
    <2>2. Accepted'[s] = buf[s]
        <3>1. Accepted'[s] = <<>> \o buf[s]
            BY <1>3 DEF WriteUart, Accepted
        <3> QED BY <2>1, <3>1, ConcatEmptySeq
    <2>3. wire'[s] \o Accepted'[s] = wire[s] \o Accepted[s]
        <3>1. wire[s] \in Seq(Nat) /\ tmp \in Seq(Nat)
            BY DEF TypeOK
        <3>2. CASE s = turn
            <4>1. wire'[s] = wire[s] \o tmp /\ Accepted[s] = tmp \o buf[s]
                BY <1>3, <3>2 DEF WriteUart, Accepted, TypeOK
            <4>2. (wire[s] \o tmp) \o buf[s] = wire[s] \o (tmp \o buf[s])
                BY <2>1, <3>1, Assoc, Zenon
            <4> QED BY <2>2, <4>1, <4>2
        <3>3. CASE s # turn
            <4>1. wire'[s] = wire[s] /\ Accepted[s] = <<>> \o buf[s]
                BY <1>3, <3>3 DEF WriteUart, Accepted, TypeOK
            <4> QED BY <2>1, <2>2, <4>1, ConcatEmptySeq
        <3> QED BY <3>2, <3>3
    <2> QED BY <2>1, <2>3 DEF Stream
<1> QED BY <1>1, <1>2, <1>3 DEF UartTx

--------------------------------------------------------------------------------
(* The inductive invariant.                                                *)

\* The counters that the accounting reads are numbers.
LEMMA CounterTypes ==
    ASSUME TypeOK, NEW s \in Source
    PROVE  /\ rx[s] \in Nat /\ short[s] \in Nat /\ drops[s] \in Nat
           /\ Len(Stream[s]) \in Nat
BY StreamParts, LenProperties DEF TypeOK

\* The inductive invariant holds initially.
LEMMA InitIInv == Init => IInv
<1> SUFFICES ASSUME Init PROVE IInv
    OBVIOUS
<1>1. TypeOK
    BY InitType
<1>2. ASSUME NEW s \in Source PROVE Stream[s] = <<>>
    <2>1. Accepted[s] = <<>> /\ wire[s] = <<>> /\ pend[s] = <<>>
        BY EmptySeq, ConcatEmptySeq DEF Init, Accepted
    <2> QED BY <2>1, EmptySeq, ConcatEmptySeq DEF Stream
<1>3. ASSUME NEW s \in Source
      PROVE  Sound(Stream[s], rx[s], short[s] + drops[s]) /\ pend[s] = <<>>
    <2>1. rx[s] = 0 /\ short[s] + drops[s] = 0 /\ pend[s] = <<>>
        BY DEF Init
    <2> QED BY <1>2, <2>1, EmptySeq DEF Sound, Ordered, Unbroken
<1> QED BY <1>1, <1>3 DEF IInv

\* Every step of the sources and of task_uart_tx keeps it.
LEMMA NextIInv == IInv /\ [Next]_vars => IInv'
<1> SUFFICES ASSUME IInv, [Next]_vars
             PROVE  \A s \in Source :
                        /\ pend'[s] # <<>> => short'[s] = 0
                        /\ Sound(Stream'[s], rx'[s], short'[s] + drops'[s])
    BY NextType DEF IInv
<1> SUFFICES ASSUME NEW s \in Source
             PROVE  /\ pend'[s] # <<>> => short'[s] = 0
                    /\ Sound(Stream'[s], rx'[s], short'[s] + drops'[s])
    OBVIOUS
<1>t. /\ TypeOK
      /\ Stream[s] \in Seq(Nat) /\ Len(Stream[s]) \in Nat
      /\ rx[s] \in Nat /\ short[s] \in Nat /\ drops[s] \in Nat
    BY CounterTypes, StreamParts DEF IInv
<1>i. /\ pend[s] # <<>> => short[s] = 0
      /\ Sound(Stream[s], rx[s], short[s] + drops[s])
    BY DEF IInv
\* A step that changes nothing the invariant says of s.
<1>u. ASSUME Stream'[s] = Stream[s], rx'[s] = rx[s], pend'[s] = pend[s],
             short'[s] = short[s], drops'[s] = drops[s]
      PROVE  /\ pend'[s] # <<>> => short'[s] = 0
             /\ Sound(Stream'[s], rx'[s], short'[s] + drops'[s])
    BY <1>i, <1>u
<1>1. ASSUME NEW a \in Enabled, NEW n \in 1..MaxWrite, Arrive(a, n)
      PROVE  /\ pend'[s] # <<>> => short'[s] = 0
             /\ Sound(Stream'[s], rx'[s], short'[s] + drops'[s])
    <2>1. a \in Source /\ n \in Nat
        BY EnabledAssumption, MaxAssumption
    <2>2. CASE s # a
        <3>1. Stream'[s] = Stream[s]
            BY <1>1, <1>t, <2>1, <2>2, ArriveStream
        <3>2. rx'[s] = rx[s] /\ pend'[s] = pend[s]
              /\ short'[s] = short[s] /\ drops'[s] = drops[s]
            BY <1>1, <1>t, <2>2 DEF Arrive, TypeOK
        <3> QED BY <1>u, <3>1, <3>2
    <2>3. CASE s = a
        <3>1. Stream'[s] = Stream[s] \o [i \in 1..n |-> rx[s] + i]
            BY <1>1, <1>t, <2>3, ArriveStream
        <3>2. rx'[s] = rx[s] + n /\ short[s] = 0 /\ short' = short /\ drops' = drops
            BY <1>1, <1>t, <2>3 DEF Arrive, TypeOK
        <3>3. /\ Len(Stream'[s]) = Len(Stream[s]) + n
              /\ Ordered(Stream'[s], rx[s] + n)
              /\ Len(Stream[s]) = rx[s] /\ Unbroken(Stream[s]) => Unbroken(Stream'[s])
            BY <1>i, <1>t, <2>1, <3>1, AppendFresh DEF Sound
        <3> QED BY <1>i, <1>t, <2>1, <3>2, <3>3 DEF Sound
    <2> QED BY <2>2, <2>3
<1>2. ASSUME NEW a \in Enabled, Push(a)
      PROVE  /\ pend'[s] # <<>> => short'[s] = 0
             /\ Sound(Stream'[s], rx'[s], short'[s] + drops'[s])
    <2>1. a \in Source
        BY EnabledAssumption
    <2>2. CASE s # a
        <3>1. Stream'[s] = Stream[s]
            BY <1>2, <1>t, <2>1, <2>2, PushStream
        <3>2. rx'[s] = rx[s] /\ pend'[s] = pend[s]
              /\ short'[s] = short[s] /\ drops'[s] = drops[s]
            BY <1>2, <1>t, <2>2 DEF Push, TypeOK
        <3> QED BY <1>u, <3>1, <3>2
    <2>3. CASE s = a
        <3>1. /\ Stream'[s] \in Seq(Nat)
              /\ \E t \in Seq(Nat) : Stream[s] = Stream'[s] \o t /\ Len(t) = short'[s]
            BY <1>2, <1>t, <2>3, PushStream
        <3>2. PICK t \in Seq(Nat) : Stream[s] = Stream'[s] \o t /\ Len(t) = short'[s]
            BY <3>1
        <3>3. /\ Len(Stream[s]) = Len(Stream'[s]) + short'[s]
              /\ Ordered(Stream'[s], rx[s])
              /\ Unbroken(Stream[s]) => Unbroken(Stream'[s])
            <4>1. Ordered(Stream'[s] \o t, rx[s])
                BY <1>i, <3>2 DEF Sound
            <4>2. /\ Len(Stream'[s] \o t) = Len(Stream'[s]) + Len(t)
                  /\ Ordered(Stream'[s], rx[s])
                  /\ Unbroken(Stream'[s] \o t) => Unbroken(Stream'[s])
                BY <1>t, <3>1, <4>1, CutTail
            <4> QED BY <3>2, <4>2
        <3>4. rx' = rx /\ drops' = drops /\ short[s] = 0 /\ pend'[s] = <<>>
            BY <1>2, <1>i, <1>t, <2>3 DEF Push, TypeOK
        <3>5. Len(Stream'[s]) \in Nat /\ short'[s] \in Nat
            BY <3>1, <3>2, LenProperties
        <3>6. rx[s] = Len(Stream'[s]) + (short'[s] + drops[s])
            <4>1. rx[s] = Len(Stream[s]) + (short[s] + drops[s])
                BY <1>i DEF Sound
            <4> QED BY <1>t, <3>3, <3>4, <3>5, <4>1
        <3>7. short'[s] + drops[s] = 0 => Unbroken(Stream'[s])
            <4>1. short[s] + drops[s] = 0 => Unbroken(Stream[s])
                BY <1>i DEF Sound
            <4> QED BY <1>t, <3>3, <3>4, <3>5, <4>1
        <3> QED BY <3>3, <3>4, <3>6, <3>7 DEF Sound
    <2> QED BY <2>2, <2>3
<1>3. ASSUME NEW a \in Enabled, CountDrops(a)
      PROVE  /\ pend'[s] # <<>> => short'[s] = 0
             /\ Sound(Stream'[s], rx'[s], short'[s] + drops'[s])
    <2>1. a \in Source
        BY EnabledAssumption
    <2>2. Stream'[s] = Stream[s] /\ rx'[s] = rx[s] /\ pend'[s] = pend[s]
        <3>1. UNCHANGED <<rx, pend, buf, turn, tmp, wire>>
            BY <1>3 DEF CountDrops
        <3>2. Accepted'[s] = Accepted[s]
            BY <3>1 DEF Accepted
        <3> QED BY <3>1, <3>2, StreamUnchanged
    <2>3. /\ short'[s] + drops'[s] = short[s] + drops[s]
          /\ short[s] = 0 => short'[s] = 0
        BY <1>3, <1>t, <2>1 DEF CountDrops, TypeOK
    <2> QED BY <1>i, <2>2, <2>3
<1>4. CASE UartTx
    <2>1. Stream'[s] = Stream[s]
        BY <1>4, <1>t, UartTxStream
    <2>2. rx' = rx /\ pend' = pend /\ short' = short /\ drops' = drops
        BY <1>4 DEF UartTx, PollEmpty, Poll, WriteUart
    <2> QED BY <1>u, <2>1, <2>2
<1>5. CASE UNCHANGED vars
    <2>1. Accepted'[s] = Accepted[s]
        BY <1>5 DEF vars, Accepted
    <2>2. Stream'[s] = Stream[s]
        BY <1>5, <2>1, StreamUnchanged DEF vars
    <2> QED BY <1>5, <1>u, <2>2 DEF vars
<1> QED BY <1>1, <1>2, <1>3, <1>4, <1>5 DEF Next, Receive

\* It holds throughout every behaviour of the corrections path.
THEOREM Invariance == Spec => []IInv
BY InitIInv, NextIInv, PTL DEF Spec

\* Byte accounting: what a source sent was handed to Serial1, is on its way, or dropped
\* and counted, at every moment and for every interleaving of the tasks.
THEOREM ConservationCorrect == Spec => []Conservation
<1>1. IInv => Conservation
    <2> SUFFICES ASSUME IInv, NEW s \in Source
                 PROVE  rx[s] = Len(Stream[s]) + short[s] + drops[s]
        BY DEF Conservation
    <2>1. Sound(Stream[s], rx[s], short[s] + drops[s])
        BY DEF IInv
    <2> QED BY <2>1, CounterTypes DEF IInv, Sound
<1> QED BY <1>1, Invariance, PTL

\* The bytes on the wire are the oldest bytes of the stream.
LEMMA WirePrefix ==
    ASSUME TypeOK, NEW s \in Source
    PROVE  /\ Len(wire[s]) \in Nat /\ Len(wire[s]) <= Len(Stream[s])
           /\ \A i \in 1..Len(wire[s]) :
                i \in 1..Len(Stream[s]) /\ Stream[s][i] = wire[s][i]
<1> DEFINE a == Accepted[s]
           b == pend[s]
           w == wire[s]
<1>1. a \in Seq(Nat) /\ b \in Seq(Nat) /\ w \in Seq(Nat) /\ w \o a \in Seq(Nat)
    BY StreamParts DEF TypeOK
<1>2. Stream[s] = (w \o a) \o b
    BY StreamParts
<1> HIDE DEF a, b, w
<1>3. /\ Len(w) \in Nat /\ Len(a) \in Nat /\ Len(b) \in Nat
      /\ Len(w \o a) = Len(w) + Len(a)
      /\ Len((w \o a) \o b) = Len(w) + Len(a) + Len(b)
    BY <1>1, ConcatProperties, LenProperties
<1>4. \A i \in 1..Len(w) : (w \o a)[i] = w[i]
    BY <1>1, <1>3, ConcatProperties
<1>5. \A i \in 1..Len(w) : ((w \o a) \o b)[i] = (w \o a)[i]
    BY <1>1, <1>3, ConcatProperties
<1>6. /\ Len(w) \in Nat /\ Len(w) <= Len(Stream[s])
      /\ \A i \in 1..Len(w) : i \in 1..Len(Stream[s]) /\ Stream[s][i] = w[i]
    BY <1>2, <1>3, <1>4, <1>5
<1> QED BY <1>6 DEF w

\* Each source's bytes are written in the order they came, none twice.
THEOREM SourceOrderCorrect == Spec => []SourceOrder
<1>1. IInv => SourceOrder
    <2> SUFFICES ASSUME IInv, NEW s \in Source,
                        NEW i \in 1..Len(wire[s]), NEW j \in 1..Len(wire[s]), i < j
                 PROVE  wire[s][i] < wire[s][j]
        BY DEF SourceOrder
    <2>1. Ordered(Stream[s], rx[s])
        BY DEF IInv, Sound
    <2>2. /\ i \in 1..Len(Stream[s]) /\ Stream[s][i] = wire[s][i]
          /\ j \in 1..Len(Stream[s]) /\ Stream[s][j] = wire[s][j]
        BY WirePrefix DEF IInv
    <2>3. Stream[s][i] < Stream[s][j]
        BY <2>1, <2>2 DEF Ordered
    <2> QED BY <2>2, <2>3
<1> QED BY <1>1, Invariance, PTL

\* A source whose drop counter is zero was written without a gap.
THEOREM IntactCorrect == Spec => []IntactWhenNoDrops
<1>1. IInv => IntactWhenNoDrops
    <2> SUFFICES ASSUME IInv, NEW s \in Source, short[s] + drops[s] = 0,
                        NEW i \in 1..Len(wire[s])
                 PROVE  wire[s][i] = i
        BY DEF IntactWhenNoDrops
    <2>1. Unbroken(Stream[s])
        BY DEF IInv, Sound
    <2>2. i \in 1..Len(Stream[s]) /\ Stream[s][i] = wire[s][i]
        BY WirePrefix DEF IInv
    <2> QED BY <2>1, <2>2 DEF Unbroken
<1> QED BY <1>1, Invariance, PTL

\* What is written of a source is its stream: ordered, nothing twice, and
\* without a gap as long as nothing is counted as dropped.
THEOREM SourceStreamCorrect == Spec => []SourceStream
<1>1. SourceOrder /\ IntactWhenNoDrops => SourceStream
    BY DEF SourceStream
<1> QED BY <1>1, SourceOrderCorrect, IntactCorrect, PTL

--------------------------------------------------------------------------------
(* The refinement of LossyFifo.                                            *)

\* A pending payload is what was received last.
PendingIsLast ==
    \A s \in Source : pend[s] = [i \in 1..Len(pend[s]) |-> Offered[s] + i]

\* The numbers of the mapping.
LEMMA OfferedType ==
    ASSUME TypeOK, NEW s \in Source
    PROVE  /\ Offered[s] = rx[s] - Len(pend[s]) /\ Offered[s] \in Int
           /\ rx[s] \in Nat /\ Len(pend[s]) \in Nat
BY LenProperties DEF Offered, TypeOK

\* A payload of m bytes that were received after the first k.
LEMMA FreshBytes ==
    ASSUME NEW k \in Int, NEW m \in Nat, NEW f, f = [i \in 1..m |-> k + i]
    PROVE  /\ f \in Seq(Int) /\ Len(f) = m
           /\ \A j \in 0..m : SubSeq(f, 1, j) = [i \in 1..j |-> k + i]
<1>1. f \in Seq(Int) /\ Len(f) = m
    <2>1. \A i \in 1..m : k + i \in Int
        OBVIOUS
    <2> QED BY <2>1
<1>2. ASSUME NEW j \in 0..m
      PROVE  SubSeq(f, 1, j) = [i \in 1..j |-> k + i]
    <2> DEFINE g == [i \in 1..j |-> k + i]
               h == SubSeq(f, 1, j)
    <2>1. \A i \in 1..j : f[i] \in Int
        OBVIOUS
    <2>2. h \in Seq(Int) /\ Len(h) = j /\ \A i \in 1..j : h[i] = f[i]
        BY <1>1, <2>1, SubSeqProperties
    <2>3. g \in Seq(Int) /\ Len(g) = j
        <3>1. \A i \in 1..j : k + i \in Int
            OBVIOUS
        <3> QED BY <3>1
    <2>4. \A i \in 1..j : h[i] = g[i]
        BY <2>2
    <2> HIDE DEF g, h
    <2>5. h = g
        BY <2>2, <2>3, <2>4, SeqEqual
    <2> QED BY <2>5 DEF g, h
<1> QED BY <1>1, <1>2

\* Nothing is pending but what has just arrived.
LEMMA PendingStep ==
    ASSUME TypeOK, PendingIsLast, [Next]_vars
    PROVE  PendingIsLast'
<1> SUFFICES ASSUME NEW s \in Source
             PROVE  pend'[s] = [i \in 1..Len(pend'[s]) |-> Offered'[s] + i]
    BY DEF PendingIsLast
<1>a. Offered'[s] = rx'[s] - Len(pend'[s])
    BY DEF Offered
<1>1. CASE pend'[s] = pend[s] /\ rx'[s] = rx[s]
    BY <1>a, <1>1, OfferedType DEF PendingIsLast
<1>2. CASE pend'[s] = <<>>
    <2>1. Len(<<>>) = 0 /\ 1..0 = {} /\ <<>> = [i \in {} |-> Offered'[s] + i]
        OBVIOUS
    <2> QED BY <1>2, <2>1
<1>3. ASSUME NEW t \in Source, NEW n \in 1..MaxWrite, Arrive(t, n)
      PROVE  pend'[s] = [i \in 1..Len(pend'[s]) |-> Offered'[s] + i]
    <2>1. CASE t = s
        <3>1. pend'[s] = [i \in 1..n |-> rx[s] + i] /\ rx'[s] = rx[s] + n
            BY <1>3, <2>1 DEF Arrive, TypeOK
        <3>2. n \in Nat /\ rx[s] \in Nat
            BY MaxAssumption, OfferedType
        <3>3. Len(pend'[s]) = n
            BY <3>1, <3>2, FreshBytes
        <3>4. Offered'[s] = rx[s]
            BY <1>a, <3>1, <3>2, <3>3
        <3> QED BY <3>1, <3>3, <3>4
    <2>2. CASE t # s
        BY <1>1, <1>3, <2>2 DEF Arrive, TypeOK
    <2> QED BY <2>1, <2>2
<1>4. ASSUME NEW t \in Source, Receive(t)
      PROVE  pend'[s] = [i \in 1..Len(pend'[s]) |-> Offered'[s] + i]
    <2>1. rx' = rx /\ (pend' = pend \/ pend' = [pend EXCEPT ![t] = <<>>])
        BY <1>4 DEF Receive, Push, CountDrops
    <2> QED BY <1>1, <1>2, <2>1 DEF TypeOK
<1>5. ASSUME UartTx \/ UNCHANGED vars
      PROVE  pend'[s] = [i \in 1..Len(pend'[s]) |-> Offered'[s] + i]
    BY <1>1, <1>5 DEF UartTx, PollEmpty, Poll, WriteUart, vars
<1> QED BY <1>3, <1>4, <1>5, EnabledAssumption DEF Next

\* A step that moves no byte past an end of a path is a stutter of it.
LEMMA FifoStutters ==
    ASSUME \A s \in Source : Offered'[s] = Offered[s] /\ Accepted'[s] = Accepted[s],
           wire' = wire
    PROVE  UNCHANGED Fifo!vars
<1>1. /\ Offered = [s \in Source |-> Offered[s]] /\ Offered' = [s \in Source |-> Offered'[s]]
      /\ Accepted = [s \in Source |-> Accepted[s]] /\ Accepted' = [s \in Source |-> Accepted'[s]]
    BY DEF Offered, Accepted
<1>2. Offered' = Offered /\ Accepted' = Accepted
    BY <1>1
<1> QED BY <1>2 DEF Fifo!vars

\* What arrives is not offered yet.
LEMMA ArriveFifo ==
    ASSUME TypeOK, NEW s \in Source, NEW n \in 1..MaxWrite, Arrive(s, n)
    PROVE  UNCHANGED Fifo!vars
<1>1. \A t \in Source : Accepted'[t] = Accepted[t]
    BY DEF Arrive, Accepted
<1>2. ASSUME NEW t \in Source PROVE Offered'[t] = Offered[t]
    <2>1. Offered'[t] = rx'[t] - Len(pend'[t])
        BY DEF Offered
    <2>2. CASE t = s
        <3>1. pend[s] = <<>> /\ pend'[s] = [i \in 1..n |-> rx[s] + i] /\ rx'[s] = rx[s] + n
            BY DEF Arrive, TypeOK
        <3>2. n \in Nat /\ rx[s] \in Nat
            BY MaxAssumption, OfferedType
        <3>3. Len(pend'[s]) = n /\ Len(<<>>) = 0
            BY <3>1, <3>2, FreshBytes
        <3> QED BY <2>1, <2>2, <3>1, <3>2, <3>3, OfferedType
    <2>3. CASE t # s
        BY <2>1, <2>3, OfferedType DEF Arrive, TypeOK
    <2> QED BY <2>2, <2>3
<1> QED BY <1>1, <1>2, FifoStutters DEF Arrive

\* xStreamBufferSend offers the payload; what it rejects, it rejects for want of room.
LEMMA PushFifo ==
    ASSUME TypeOK, PendingIsLast, NEW s \in Source, Push(s)
    PROVE  Fifo!Next
<1> DEFINE n == Len(pend[s])
           k == Room(s)
           p == SubSeq(pend[s], 1, k)
           h == IF s = turn THEN tmp ELSE <<>>
<1>1. n \in Nat /\ n # 0 /\ k \in 0..n /\ rx[s] \in Nat /\ Offered[s] = rx[s] - n
    <2>1. pend[s] # <<>> /\ pend[s] \in Seq(Nat)
        BY DEF Push, TypeOK
    <2>2. n # 0
        BY <2>1, EmptySeq
    <2> QED BY <2>2, OfferedType, RoomType
<1>2. p = [i \in 1..k |-> Offered[s] + i] /\ p \in Seq(Nat) /\ Len(p) = k
    <2>1. pend[s] = [i \in 1..n |-> Offered[s] + i]
        BY DEF PendingIsLast
    <2>2. p = [i \in 1..k |-> Offered[s] + i]
        BY <1>1, <2>1, FreshBytes, OfferedType
    <2>3. p \in Seq(Nat) /\ Len(p) = k
        BY RoomType, SplitJoin DEF TypeOK
    <2> QED BY <2>2, <2>3
<1>3. h \in Seq(Nat) /\ buf[s] \in Seq(Nat) /\ Accepted[s] = h \o buf[s]
    BY EmptySeq DEF TypeOK, Accepted
<1>4. Accepted'[s] = h \o (buf[s] \o p)
    BY DEF Push, Accepted, TypeOK
<1>5. /\ Accepted'[s] = Accepted[s] \o p
      /\ Len(Accepted[s]) \in Nat /\ Len(Accepted'[s]) = Len(Accepted[s]) + k
      /\ Len(Accepted[s]) >= Len(buf[s])
    <2> HIDE DEF p, h
    <2>1. (h \o buf[s]) \o p = h \o (buf[s] \o p)
        BY <1>2, <1>3, Assoc, Zenon
    <2>2. Len(Accepted[s]) = Len(h) + Len(buf[s]) /\ Len(h) \in Nat /\ Len(buf[s]) \in Nat
        BY <1>3, ConcatProperties, LenProperties
    <2>3. Len(Accepted[s] \o p) = Len(Accepted[s]) + Len(p)
        BY <1>2, StreamParts, ConcatProperties
    <2>4. Accepted'[s] = Accepted[s] \o p
        BY <1>3, <1>4, <2>1
    <2>5. Len(Accepted[s]) \in Nat /\ Len(Accepted[s]) >= Len(buf[s])
        BY <2>2
    <2> QED BY <1>2, <2>3, <2>4, <2>5
<1>6. Offered'[s] = rx[s]
    <2>1. pend'[s] = <<>> /\ rx' = rx /\ Len(<<>>) = 0
        BY DEF Push, TypeOK
    <2> QED BY <1>1, <2>1 DEF Offered
<1>7. k < n => Len(Accepted[s]) + k >= Capacity[s]
    <2>1. Capacity[s] \in Nat /\ Len(buf[s]) \in Nat
        BY <1>3, CapacityAssumption, LenProperties
    <2>2. k < n => k = Capacity[s] - Len(buf[s])
        BY <1>1, <2>1 DEF Room, Least
    <2> QED BY <1>1, <1>5, <2>1, <2>2
<1> HIDE DEF p, h, n, k
<1>8. ASSUME NEW t \in Source, t # s
      PROVE  Offered'[t] = Offered[t] /\ Accepted'[t] = Accepted[t]
    <2>1. pend'[t] = pend[t] /\ buf'[t] = buf[t] /\ rx' = rx /\ turn' = turn /\ tmp' = tmp
        BY <1>8 DEF Push, TypeOK
    <2> QED BY <2>1 DEF Offered, Accepted
<1>9. /\ Offered' = [Offered EXCEPT ![s] = @ + n]
      /\ Accepted' = [Accepted EXCEPT ![s] = @ \o [i \in 1..k |-> Offered[s] + i]]
    <2>1. /\ Offered = [t \in Source |-> Offered[t]] /\ Offered' = [t \in Source |-> Offered'[t]]
          /\ Accepted = [t \in Source |-> Accepted[t]]
          /\ Accepted' = [t \in Source |-> Accepted'[t]]
        BY DEF Offered, Accepted
    <2>2. Offered'[s] = Offered[s] + n
        BY <1>1, <1>6
    <2>3. Accepted'[s] = Accepted[s] \o [i \in 1..k |-> Offered[s] + i]
        BY <1>2, <1>5
    <2> QED BY <1>8, <2>1, <2>2, <2>3
<1>10. wire' = wire /\ n > 0
    BY <1>1 DEF Push
<1>11. Offered'[s] - Offered[s] = n /\ Len(Accepted'[s]) - Len(Accepted[s]) = k
    BY <1>1, <1>5, <1>6
<1>12. Fifo!OfferStep(s)
    BY <1>1, <1>7, <1>9, <1>10, <1>11 DEF Fifo!OfferStep, Fifo!Offer
<1> QED BY <1>12 DEF Fifo!Next

\* A chunk that is written is delivered.
LEMMA WriteFifo ==
    ASSUME TypeOK, WriteUart
    PROVE  Fifo!Next
<1> DEFINE k == Len(tmp)
<1>1. turn \in Source /\ tmp \in Seq(Nat) /\ tmp # <<>> /\ buf[turn] \in Seq(Nat)
      /\ wire[turn] \in Seq(Nat)
    BY DEF WriteUart, TypeOK
<1>2. k \in Nat /\ k # 0
    BY <1>1, EmptySeq, LenProperties
<1>3. Accepted[turn] = tmp \o buf[turn]
    BY <1>1 DEF Accepted
<1>4. Accepted'[turn] = buf[turn]
    <2>1. Accepted'[turn] = <<>> \o buf[turn]
        BY <1>1 DEF WriteUart, Accepted
    <2> QED BY <1>1, <2>1, ConcatEmptySeq
<1>5. /\ Len(Accepted[turn]) = k + Len(buf[turn]) /\ Len(buf[turn]) \in Nat
      /\ SubSeq(Accepted[turn], 1, k) = tmp
      /\ SubSeq(Accepted[turn], k + 1, Len(Accepted[turn])) = buf[turn]
    BY <1>1, <1>2, <1>3, JoinSplit, LenProperties
<1>6. wire'[turn] = wire[turn] \o tmp /\ Len(wire'[turn]) - Len(wire[turn]) = k
    <2>1. wire'[turn] = wire[turn] \o tmp
        BY <1>1 DEF WriteUart, TypeOK
    <2>2. Len(wire[turn] \o tmp) = Len(wire[turn]) + k /\ Len(wire[turn]) \in Nat
        BY <1>1, ConcatProperties, LenProperties
    <2> QED BY <1>2, <2>1, <2>2
<1>7. ASSUME NEW t \in Source, t # turn
      PROVE  wire'[t] = wire[t] /\ Accepted'[t] = Accepted[t]
    <2>1. wire'[t] = wire[t] /\ buf' = buf /\ tmp' = <<>>
        BY <1>7 DEF WriteUart, TypeOK
    <2> QED BY <1>7, <2>1 DEF Accepted
<1> HIDE DEF k
<1>8. /\ wire' = [wire EXCEPT ![turn] = @ \o SubSeq(Accepted[turn], 1, k)]
      /\ Accepted' = [Accepted EXCEPT ![turn] = SubSeq(@, k + 1, Len(@))]
    <2>1. wire' = [wire EXCEPT ![turn] = @ \o SubSeq(Accepted[turn], 1, k)]
        BY <1>5 DEF WriteUart
    <2>2. /\ Accepted = [t \in Source |-> Accepted[t]]
          /\ Accepted' = [t \in Source |-> Accepted'[t]]
        BY DEF Accepted
    <2>3. Accepted' = [Accepted EXCEPT ![turn] = SubSeq(@, k + 1, Len(@))]
        BY <1>4, <1>5, <1>7, <2>2
    <2> QED BY <2>1, <2>3
<1>9. Offered' = Offered
    BY DEF WriteUart, Offered
<1>10. Fifo!Deliver(turn, k)
    BY <1>8, <1>9 DEF Fifo!Deliver
<1>11. k \in 1..Len(Accepted[turn])
    BY <1>2, <1>5
<1>12. Fifo!DeliverStep(turn)
    BY <1>6, <1>10, <1>11 DEF Fifo!DeliverStep
<1> QED BY <1>1, <1>12 DEF Fifo!Next

\* Every other step is one inside the path.
LEMMA FifoStep ==
    ASSUME TypeOK, PendingIsLast, [Next]_vars
    PROVE  [Fifo!Next]_(Fifo!vars)
<1>1. ASSUME NEW s \in Source, NEW n \in 1..MaxWrite, Arrive(s, n)
      PROVE  UNCHANGED Fifo!vars
    BY <1>1, ArriveFifo
<1>2. ASSUME NEW s \in Source, Push(s)
      PROVE  Fifo!Next
    BY <1>2, PushFifo
<1>3. ASSUME NEW s \in Source, CountDrops(s)
      PROVE  UNCHANGED Fifo!vars
    BY <1>3, FifoStutters DEF CountDrops, Offered, Accepted
<1>4. CASE PollEmpty
    <2>1. ASSUME NEW s \in Source PROVE Accepted'[s] = Accepted[s]
        BY <1>4 DEF PollEmpty, Accepted
    <2>2. \A s \in Source : Offered'[s] = Offered[s]
        BY <1>4 DEF PollEmpty, Offered
    <2> QED BY <1>4, <2>1, <2>2, FifoStutters DEF PollEmpty
<1>5. CASE Poll
    <2>1. ASSUME NEW s \in Source PROVE Accepted'[s] = Accepted[s]
        BY <1>5, PollAccepted
    <2>2. \A s \in Source : Offered'[s] = Offered[s]
        BY <1>5 DEF Poll, Offered
    <2> QED BY <1>5, <2>1, <2>2, FifoStutters DEF Poll
<1>6. CASE WriteUart
    BY <1>6, WriteFifo
<1>7. CASE UNCHANGED vars
    BY <1>7, FifoStutters DEF vars, Offered, Accepted
<1> QED BY <1>1, <1>2, <1>3, <1>4, <1>5, <1>6, <1>7, EnabledAssumption
        DEF Next, Receive, UartTx

\* A new device has offered nothing.
LEMMA InitFifo ==
    ASSUME Init
    PROVE  Fifo!Init /\ PendingIsLast
<1>1. Len(<<>>) = 0 /\ 1..0 = {}
  OBVIOUS
<1>2. ASSUME NEW s \in Source
      PROVE  Offered[s] = 0 /\ Accepted[s] = <<>>
    <2>1. rx[s] = 0 /\ pend[s] = <<>> /\ buf[s] = <<>> /\ tmp = <<>>
        BY DEF Init
    <2>2. <<>> \o <<>> = <<>>
        BY EmptySeq, ConcatEmptySeq
    <2> QED BY <1>1, <2>1, <2>2 DEF Offered, Accepted
<1>3. /\ Offered = [s \in Source |-> Offered[s]]
      /\ Accepted = [s \in Source |-> Accepted[s]]
    BY DEF Offered, Accepted
<1>4. Offered = [s \in Source |-> 0] /\ Accepted = [s \in Source |-> <<>>]
    BY <1>2, <1>3
<1>5. wire = [s \in Source |-> <<>>]
    BY DEF Init
<1>6. Fifo!Init
    BY <1>4, <1>5 DEF Fifo!Init
<1>7. ASSUME NEW s \in Source
      PROVE  pend[s] = [i \in 1..Len(pend[s]) |-> Offered[s] + i]
    <2>1. pend[s] = <<>>
        BY DEF Init
    <2>2. <<>> = [i \in {} |-> Offered[s] + i]
      OBVIOUS
    <2> QED BY <1>1, <2>1, <2>2
<1> QED BY <1>6, <1>7 DEF PendingIsLast

\* For every capacity, chunk and input, each source's way to Serial1 is a FIFO
\* that loses a byte only when it is full, whatever the other two sources do.
THEOREM ImplementsLossyFifo == Spec => LossyFifoSpec
<1>1. Init => Fifo!Init /\ PendingIsLast
    BY InitFifo
<1>2. TypeOK /\ PendingIsLast /\ [Next]_vars => PendingIsLast'
    BY PendingStep
<1>3. TypeOK /\ PendingIsLast /\ [Next]_vars => [Fifo!Next]_(Fifo!vars)
    BY FifoStep
<1> QED BY <1>1, <1>2, <1>3, TypeCorrect, PTL DEF Spec, LossyFifoSpec, Fifo!Spec
================================================================================
