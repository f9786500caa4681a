--------------------------- MODULE GnssOutPath_proofs ---------------------------
(***************************************************************************)
(* Proofs about GnssOutPath for every buffer capacity, chunk size and      *)
(* bound.  What a peer got, what its task holds and what its buffer holds  *)
(* are three parts of one stream.  A step adds the bytes just read at its  *)
(* end, moves bytes from one part to the part before it, or drops the end  *)
(* or the whole of a part: the order of the rest stays.                    *)
(*                                                                         *)
(* The BLE buffer is such a part while the index a send or a receive works *)
(* with is the buffer's own, which only a reset inside of one undoes.      *)
(***************************************************************************)
EXTENDS GnssOutPath, SequenceTheorems, TLAPS

Ordered(q) == \A i, j \in 1..Len(q) : i < j => q[i] < q[j]
Before(q, r) == \A i \in 1..Len(q), j \in 1..Len(r) : q[i] < r[j]
Below(q, m) == \A i \in 1..Len(q) : q[i] <= m

\* Three parts of a stream of which the bytes up to m were pushed.
Stream(a, b, c, m) ==
    /\ Ordered(a) /\ Ordered(b) /\ Ordered(c)
    /\ Before(a, b) /\ Before(a, c) /\ Before(b, c)
    /\ Below(a, m) /\ Below(b, m) /\ Below(c, m)

\* A piece of the GNSS stream that ends at byte m, without a gap.
Ends(q, m) == \A i \in 1..Len(q) : q[i] = m - Len(q) + i

\* Up to where the bytes read were pushed: to both buffers, to the BLE one.
Base == read - Len(chunk)
BleBase == IF rpc \in {"gate", "space", "aim", "fill", "publish"} THEN Base ELSE read

\* The chunk is the last piece read; a task holds bytes, or owes a count, only
\* between the steps that need it.
ChunkIsRead == Len(chunk) <= read /\ \A i \in 1..Len(chunk) : chunk[i] = Base + i

Holding ==
    /\ rpc \in {"read", "load", "store"} => chunk = <<>>
    /\ bpc \notin {"commit", "notify"} => out = <<>>
    /\ tpc # "write" => tout = <<>>

Owing ==
    /\ rpc \in {"load", "store"} <=> short["rx"] > 0
    /\ tpc \in {"load", "store"} <=> short["io"] > 0

\* Without TCP_ENABLE nothing is on its way to a client.
NoTcp == "tcp" \notin Enabled => ~client /\ tpc = "accept" /\ got = <<>> /\ buf = <<>>

\* A send has a length, and a copy no more than was counted, only inside.
Sizes ==
    /\ rpc \notin {"aim", "fill", "publish", "tally"} => fit = 0
    /\ bpc = "commit" => Len(out) <= avail

\* A send goes behind what the buffer holds, into free cells.
SendSound ==
    /\ rpc \in {"aim", "fill", "publish"} => fit <= Capacity["ble"] - Count
    /\ rpc \in {"fill", "publish"} => at = head
    /\ rpc = "publish" => \A i \in 1..fit : mem[Wrap(head + i - 1)] = chunk[i]

\* A receive takes the oldest bytes the buffer holds.
TakeSound ==
    /\ bpc \in {"take", "copy", "commit"} => avail <= Count
    /\ bpc \in {"copy", "commit"} => from = tail
    /\ bpc = "commit" => \A i \in 1..Len(out) : out[i] = mem[Wrap(tail + i - 1)]

Taken == IF bpc = "commit" THEN <<>> ELSE out

BleInOrder == Stream(phone, Taken, Held, BleBase)

BleSound == ~torn => SendSound /\ TakeSound /\ BleInOrder

\* What was in the buffer when the client came is before what it gets.
TcpInOrder == Stream(backlog \o got, tout, buf, Base)

NoneDropped == drops["tcp"] = 0 /\ short["rx"] = 0 /\ short["io"] = 0

TcpWhole ==
    NoneDropped =>
        /\ Ends(buf, Base)
        /\ Ends(tout, Base - Len(buf))
        /\ Ends(got, Base - Len(buf) - Len(tout))

Inv == ChunkIsRead /\ Holding /\ Owing /\ NoTcp /\ BleSound /\ TcpInOrder /\ TcpWhole

IInv == TypeOK /\ Sizes /\ Inv

--------------------------------------------------------------------------------
(* Sequences.                                                              *)

\* Concatenation is associative.
LEMMA Assoc == \A a, b, c \in Seq(Nat) : (a \o b) \o c = a \o (b \o c)
BY SMTT(30)

\* Cutting a sequence in two and joining the parts gives it back.
LEMMA SplitJoin ==
    ASSUME NEW S, NEW q \in Seq(S), NEW k \in 0..Len(q)
    PROVE  /\ SubSeq(q, 1, k) \in Seq(S) /\ Len(SubSeq(q, 1, k)) = k
           /\ SubSeq(q, k + 1, Len(q)) \in Seq(S)
           /\ Len(SubSeq(q, k + 1, Len(q))) = Len(q) - k
           /\ SubSeq(q, 1, k) \o SubSeq(q, k + 1, Len(q)) = q
<1>1. Len(q) \in Nat /\ \A i \in 1..Len(q) : q[i] \in S
    BY ElementOfSeq, LenProperties
<1>2. SubSeq(q, 1, k) \in Seq(S) /\ Len(SubSeq(q, 1, k)) = k
    BY <1>1, SubSeqProperties
<1>3. /\ SubSeq(q, k + 1, Len(q)) \in Seq(S)
      /\ Len(SubSeq(q, k + 1, Len(q))) = Len(q) - k
    <2>1. \A i \in k + 1 .. Len(q) : q[i] \in S
        BY <1>1
    <2> QED BY <1>1, <2>1, SubSeqProperties
<1>4. SubSeq(q, 1, k) \o SubSeq(q, k + 1, Len(q)) = SubSeq(q, 1, Len(q))
    <2>1. 1 \in 1 .. Len(q) + 1 /\ k \in 1 - 1 .. Len(q) /\ Len(q) \in k .. Len(q)
        BY <1>1
    <2> QED BY <2>1, ConcatAdjacentSubSeq
<1> QED BY <1>2, <1>3, <1>4, SubSeqFull

\* The elements of a concatenation are those of its two parts.
LEMMA ConcatElements ==
    ASSUME NEW a \in Seq(Nat), NEW b \in Seq(Nat)
    PROVE  /\ a \o b \in Seq(Nat)
           /\ Len(a) \in Nat /\ Len(b) \in Nat /\ Len(a \o b) = Len(a) + Len(b)
           /\ \A i \in 1..Len(a) : (a \o b)[i] = a[i] /\ a[i] \in Nat
           /\ \A j \in 1..Len(b) : (a \o b)[Len(a) + j] = b[j] /\ b[j] \in Nat
           /\ \A i \in 1..Len(a \o b) :
                i \in 1..Len(a) \/ \E j \in 1..Len(b) : i = Len(a) + j
<1>1. /\ a \o b \in Seq(Nat) /\ Len(a \o b) = Len(a) + Len(b)
      /\ \A i \in 1..Len(a) + Len(b) :
            (a \o b)[i] = IF i <= Len(a) THEN a[i] ELSE b[i - Len(a)]
    BY ConcatProperties
<1>2. Len(a) \in Nat /\ Len(b) \in Nat
    BY LenProperties
<1>3. (\A i \in 1..Len(a) : a[i] \in Nat) /\ (\A j \in 1..Len(b) : b[j] \in Nat)
    BY ElementOfSeq
<1>4. \A i \in 1..Len(a) : (a \o b)[i] = a[i]
    BY <1>1, <1>2
<1>5. \A j \in 1..Len(b) : (a \o b)[Len(a) + j] = b[j]
    <2> TAKE j \in 1..Len(b)
    <2>1. Len(a) + j \in 1..Len(a) + Len(b) /\ ~(Len(a) + j <= Len(a)) /\ Len(a) + j - Len(a) = j
        BY <1>2
    <2> QED BY <1>1, <2>1
<1>6. \A i \in 1..Len(a \o b) : i \in 1..Len(a) \/ \E j \in 1..Len(b) : i = Len(a) + j
    <2> TAKE i \in 1..Len(a \o b)
    <2>1. i \in 1..Len(a) \/ (i - Len(a) \in 1..Len(b) /\ i = Len(a) + (i - Len(a)))
        BY <1>1, <1>2
    <2> QED BY <2>1
<1> QED BY <1>1, <1>2, <1>3, <1>4, <1>5, <1>6

\* A concatenation is before what both its parts are before.
LEMMA BeforeConcat ==
    ASSUME NEW a \in Seq(Nat), NEW b \in Seq(Nat), NEW c \in Seq(Nat)
    PROVE  /\ Before(a \o b, c) <=> Before(a, c) /\ Before(b, c)
           /\ Before(c, a \o b) <=> Before(c, a) /\ Before(c, b)
<1> DEFINE r == a \o b
<1>1. /\ Len(a) \in Nat /\ Len(b) \in Nat /\ Len(r) = Len(a) + Len(b)
      /\ \A i \in 1..Len(a) : r[i] = a[i] /\ i \in 1..Len(r)
      /\ \A j \in 1..Len(b) : r[Len(a) + j] = b[j] /\ Len(a) + j \in 1..Len(r)
      /\ \A i \in 1..Len(r) : i \in 1..Len(a) \/ \E j \in 1..Len(b) : i = Len(a) + j
    BY ConcatElements
<1> HIDE DEF r
<1>2. Before(r, c) => Before(a, c)
    BY <1>1 DEF Before
<1>3. Before(r, c) => Before(b, c)
    BY <1>1 DEF Before
<1>4. Before(a, c) /\ Before(b, c) => Before(r, c)
    BY <1>1 DEF Before
<1>5. Before(c, r) => Before(c, a)
    BY <1>1 DEF Before
<1>6. Before(c, r) => Before(c, b)
    BY <1>1 DEF Before
<1>7. Before(c, a) /\ Before(c, b) => Before(c, r)
    BY <1>1 DEF Before
<1> QED BY <1>2, <1>3, <1>4, <1>5, <1>6, <1>7 DEF r

\* A concatenation is below a bound exactly when its parts are.
LEMMA BelowConcat ==
    ASSUME NEW a \in Seq(Nat), NEW b \in Seq(Nat), NEW m
    PROVE  Below(a \o b, m) <=> Below(a, m) /\ Below(b, m)
<1> DEFINE r == a \o b
<1>1. /\ \A i \in 1..Len(a) : r[i] = a[i] /\ i \in 1..Len(r)
      /\ \A j \in 1..Len(b) : r[Len(a) + j] = b[j] /\ Len(a) + j \in 1..Len(r)
      /\ \A i \in 1..Len(r) : i \in 1..Len(a) \/ \E j \in 1..Len(b) : i = Len(a) + j
    BY ConcatElements
<1> HIDE DEF r
<1>2. Below(r, m) => Below(a, m)
    BY <1>1 DEF Below
<1>3. Below(r, m) => Below(b, m)
    BY <1>1 DEF Below
<1>4. Below(a, m) /\ Below(b, m) => Below(r, m)
    BY <1>1 DEF Below
<1> QED BY <1>2, <1>3, <1>4 DEF r

\* A concatenation is in order exactly when its parts are, one before the other.
LEMMA OrderedConcat ==
    ASSUME NEW a \in Seq(Nat), NEW b \in Seq(Nat)
    PROVE  Ordered(a \o b) <=> Ordered(a) /\ Ordered(b) /\ Before(a, b)
<1> DEFINE r == a \o b
<1>1. /\ Len(a) \in Nat /\ Len(b) \in Nat /\ Len(r) = Len(a) + Len(b)
      /\ \A i \in 1..Len(a) : r[i] = a[i] /\ i \in 1..Len(r)
      /\ \A j \in 1..Len(b) : r[Len(a) + j] = b[j] /\ Len(a) + j \in 1..Len(r)
      /\ \A i \in 1..Len(r) : i \in 1..Len(a) \/ \E j \in 1..Len(b) : i = Len(a) + j
    BY ConcatElements
<1> HIDE DEF r
<1>2. Ordered(r) => Ordered(a)
    BY <1>1 DEF Ordered
<1>3. ASSUME Ordered(r) PROVE Ordered(b)
    <2> SUFFICES ASSUME NEW i \in 1..Len(b), NEW j \in 1..Len(b), i < j
                 PROVE  b[i] < b[j]
        BY DEF Ordered
    <2>1. Len(a) + i < Len(a) + j
        BY <1>1
    <2> QED BY <1>1, <1>3, <2>1 DEF Ordered
<1>4. ASSUME Ordered(r) PROVE Before(a, b)
    <2> SUFFICES ASSUME NEW i \in 1..Len(a), NEW j \in 1..Len(b)
                 PROVE  a[i] < b[j]
        BY DEF Before
    <2>1. i < Len(a) + j
        BY <1>1
    <2> QED BY <1>1, <1>4, <2>1 DEF Ordered
<1>5. ASSUME Ordered(a), Ordered(b), Before(a, b) PROVE Ordered(r)
    <2> SUFFICES ASSUME NEW i \in 1..Len(r), NEW j \in 1..Len(r), i < j
                 PROVE  r[i] < r[j]
        BY DEF Ordered
    <2>1. CASE i \in 1..Len(a) /\ j \in 1..Len(a)
        BY <1>1, <1>5, <2>1 DEF Ordered
    <2>2. CASE i \in 1..Len(a) /\ j \notin 1..Len(a)
        BY <1>1, <1>5, <2>2 DEF Before
    <2>3. CASE i \notin 1..Len(a)
        <3>1. PICK k \in 1..Len(b) : i = Len(a) + k
            BY <1>1, <2>3
        <3>2. j \notin 1..Len(a)
            BY <1>1, <3>1
        <3>3. PICK l \in 1..Len(b) : j = Len(a) + l
            BY <1>1, <3>2
        <3>4. k < l
            BY <1>1, <3>1, <3>3
        <3> QED BY <1>1, <1>5, <3>1, <3>3, <3>4 DEF Ordered
    <2> QED BY <2>1, <2>2, <2>3
<1> QED BY <1>2, <1>3, <1>4, <1>5 DEF r

\* The empty sequence is in order, before and below everything.
LEMMA EmptyOrdered ==
    /\ Ordered(<<>>)
    /\ \A q : Before(<<>>, q) /\ Before(q, <<>>)
    /\ \A m : Below(<<>>, m) /\ Ends(<<>>, m)
BY EmptySeq DEF Ordered, Before, Below, Ends

\* A piece without a gap consists of two that follow each other.
LEMMA EndsConcat ==
    ASSUME NEW a \in Seq(Nat), NEW b \in Seq(Nat), NEW m \in Int
    PROVE  Ends(a \o b, m) <=> Ends(b, m) /\ Ends(a, m - Len(b))
<1> DEFINE r == a \o b
<1>1. /\ Len(a) \in Nat /\ Len(b) \in Nat /\ Len(r) = Len(a) + Len(b)
      /\ \A i \in 1..Len(a) : r[i] = a[i] /\ i \in 1..Len(r)
      /\ \A j \in 1..Len(b) : r[Len(a) + j] = b[j] /\ Len(a) + j \in 1..Len(r)
      /\ \A i \in 1..Len(r) : i \in 1..Len(a) \/ \E j \in 1..Len(b) : i = Len(a) + j
    BY ConcatElements
<1> HIDE DEF r
<1>2. ASSUME Ends(r, m) PROVE Ends(b, m)
    <2> SUFFICES ASSUME NEW j \in 1..Len(b) PROVE b[j] = m - Len(b) + j
        BY DEF Ends
    <2>1. r[Len(a) + j] = m - Len(r) + (Len(a) + j)
        BY <1>1, <1>2 DEF Ends
    <2> QED BY <1>1, <2>1
<1>3. Ends(r, m) => Ends(a, m - Len(b))
    BY <1>1 DEF Ends
<1>4. ASSUME Ends(b, m), Ends(a, m - Len(b)) PROVE Ends(r, m)
    <2> SUFFICES ASSUME NEW i \in 1..Len(r) PROVE r[i] = m - Len(r) + i
        BY DEF Ends
    <2>1. CASE i \in 1..Len(a)
        BY <1>1, <1>4, <2>1 DEF Ends
    <2>2. CASE i \notin 1..Len(a)
        <3>1. PICK j \in 1..Len(b) : i = Len(a) + j
            BY <1>1, <2>2
        <3>2. r[i] = m - Len(b) + j
            BY <1>1, <1>4, <3>1 DEF Ends
        <3> QED BY <1>1, <3>1, <3>2
    <2> QED BY <2>1, <2>2
<1> QED BY <1>2, <1>3, <1>4 DEF r

--------------------------------------------------------------------------------
(* Streams.                                                                *)

\* Bytes that were read but not pushed leave a stream below the new bound.
LEMMA StreamRaise ==
    ASSUME NEW a \in Seq(Nat), NEW b \in Seq(Nat), NEW c \in Seq(Nat),
           NEW m \in Nat, NEW n \in Nat, m <= n, Stream(a, b, c, m)
    PROVE  Stream(a, b, c, n)
<1>1. ASSUME NEW q \in Seq(Nat), Below(q, m) PROVE Below(q, n)
    <2>1. \A i \in 1..Len(q) : q[i] \in Nat
        BY ElementOfSeq
    <2> QED BY <1>1, <2>1 DEF Below
<1> QED BY <1>1 DEF Stream

\* Pushing a part of what was just read keeps the order.
LEMMA StreamPush ==
    ASSUME NEW a \in Seq(Nat), NEW b \in Seq(Nat), NEW c \in Seq(Nat),
           NEW f \in Seq(Nat), NEW m \in Nat, NEW k \in 0..Len(f),
           \A i \in 1..Len(f) : f[i] = m + i,
           Stream(a, b, c, m)
    PROVE  Stream(a, b, c \o SubSeq(f, 1, k), m + Len(f))
<1> DEFINE p == SubSeq(f, 1, k)
<1>1. Len(f) \in Nat /\ m + Len(f) \in Nat /\ m <= m + Len(f)
    BY LenProperties
<1>2. p \in Seq(Nat) /\ Len(p) = k /\ \A i \in 1..k : p[i] = m + i
    <2>1. \A i \in 1..k : f[i] \in Nat /\ f[i] = m + i
        BY <1>1, SMTT(30)
    <2>2. k - 1 + 1 = k /\ \A i \in 1..k : 1 + i - 1 = i
        OBVIOUS
    <2> QED BY <2>1, <2>2, SubSeqProperties, SplitJoin
<1> HIDE DEF p
<1>3. Ordered(p) /\ Below(p, m + Len(f))
    BY <1>1, <1>2 DEF Ordered, Below
<1>4. ASSUME NEW q \in Seq(Nat), Below(q, m) PROVE Before(q, p)
    <2>1. \A i \in 1..Len(q) : q[i] \in Nat
        BY ElementOfSeq
    <2> QED BY <1>2, <1>4, <2>1, SMTT(30) DEF Below, Before
<1>5. Stream(a, b, c, m + Len(f))
    BY <1>1, StreamRaise
<1>6. Ordered(c \o p)
    BY <1>2, <1>3, <1>4, OrderedConcat DEF Stream
<1>7. Before(a, c \o p) /\ Before(b, c \o p)
    BY <1>2, <1>4, BeforeConcat DEF Stream
<1>8. Below(c \o p, m + Len(f))
    BY <1>2, <1>3, <1>5, BelowConcat DEF Stream
<1> QED BY <1>5, <1>6, <1>7, <1>8 DEF Stream, p

\* Taking the oldest bytes of the buffer keeps the order.
LEMMA StreamTake ==
    ASSUME NEW a \in Seq(Nat), NEW c \in Seq(Nat), NEW m \in Nat, NEW k \in 0..Len(c),
           Stream(a, <<>>, c, m)
    PROVE  Stream(a, SubSeq(c, 1, k), SubSeq(c, k + 1, Len(c)), m)
<1> DEFINE x == SubSeq(c, 1, k)
           y == SubSeq(c, k + 1, Len(c))
<1>1. x \in Seq(Nat) /\ y \in Seq(Nat) /\ c = x \o y
    BY SplitJoin
<1> HIDE DEF x, y
<1>2. Ordered(x) /\ Ordered(y) /\ Before(x, y)
    BY <1>1, OrderedConcat DEF Stream
<1>3. Before(a, x) /\ Before(a, y)
    BY <1>1, BeforeConcat DEF Stream
<1>4. Below(x, m) /\ Below(y, m)
    BY <1>1, BelowConcat DEF Stream
<1> QED BY <1>2, <1>3, <1>4 DEF Stream, x, y

\* Delivering a prefix of what is held and losing the rest keeps the order.
LEMMA StreamDeliver ==
    ASSUME NEW a \in Seq(Nat), NEW b \in Seq(Nat), NEW c \in Seq(Nat), NEW m \in Nat,
           NEW k \in 0..Len(b), Stream(a, b, c, m)
    PROVE  Stream(a \o SubSeq(b, 1, k), <<>>, c, m)
<1> DEFINE x == SubSeq(b, 1, k)
           y == SubSeq(b, k + 1, Len(b))
<1>1. x \in Seq(Nat) /\ y \in Seq(Nat) /\ b = x \o y
    BY SplitJoin
<1> HIDE DEF x, y
<1>2. Ordered(x) /\ Before(a, x) /\ Before(x, c) /\ Below(x, m)
    BY <1>1, OrderedConcat, BeforeConcat, BelowConcat DEF Stream
<1>3. Ordered(a \o x) /\ Before(a \o x, c) /\ Below(a \o x, m)
    BY <1>1, <1>2, OrderedConcat, BeforeConcat, BelowConcat DEF Stream
<1> QED BY <1>3, EmptyOrdered DEF Stream, x

\* Losing a part keeps the order of the others.
LEMMA StreamDrop ==
    ASSUME NEW a, NEW b, NEW c, NEW m, Stream(a, b, c, m)
    PROVE  Stream(<<>>, b, c, m) /\ Stream(a, <<>>, c, m) /\ Stream(a, b, <<>>, m)
BY EmptyOrdered DEF Stream

\* A stream, its parts joined, is in order.
LEMMA StreamIncreasing ==
    ASSUME NEW a \in Seq(Nat), NEW b \in Seq(Nat), NEW c \in Seq(Nat), NEW m,
           Stream(a, b, c, m)
    PROVE  Increasing((a \o b) \o c)
<1>1. a \o b \in Seq(Nat)
    BY ConcatElements
<1>2. Ordered((a \o b) \o c)
    BY <1>1, OrderedConcat, BeforeConcat DEF Stream
<1>3. Len((a \o b) \o c) \in Nat
    BY <1>1, ConcatElements, LenProperties
<1> DEFINE r == (a \o b) \o c
<1> HIDE DEF r
<1>4. ASSUME Ordered(r), Len(r) \in Nat, NEW i \in 1..Len(r) - 1 PROVE r[i] < r[i + 1]
    <2>1. i \in 1..Len(r) /\ i + 1 \in 1..Len(r) /\ i < i + 1
        BY <1>4
    <2> QED BY <1>4, <2>1 DEF Ordered
<1>5. Ordered(r) /\ Len(r) \in Nat => Increasing(r)
    BY <1>4 DEF Increasing
<1> QED BY <1>2, <1>3, <1>5 DEF r

--------------------------------------------------------------------------------
(* Types.                                                                  *)

\* What the type invariant says of the sequences.
LEMMA Parts ==
    ASSUME TypeOK
    PROVE  /\ \A q \in {chunk, tout, got, buf, backlog} : q \in Seq(1..MaxRead)
           /\ \A q \in {chunk, out, phone, tout, got, buf, backlog} :
                q \in Seq(Nat) /\ Len(q) \in Nat
           /\ backlog \o got \in Seq(Nat)
           /\ read \in Nat
<1>1. \A q \in {chunk, tout, got, buf, backlog} : q \in Seq(1..MaxRead)
    BY DEF TypeOK
<1>2. \A q \in {out, phone} : q \in Seq(0..MaxRead)
    BY DEF TypeOK
<1>3. /\ \A q \in Seq(1..MaxRead) : q \in Seq(Nat) /\ Len(q) \in Nat
      /\ \A q \in Seq(0..MaxRead) : q \in Seq(Nat) /\ Len(q) \in Nat
    <2>1. 1..MaxRead \subseteq Nat /\ 0..MaxRead \subseteq Nat
        BY BoundsAssumption
    <2> QED BY <2>1, SeqMonotonic, LenProperties
<1>4. backlog \o got \in Seq(Nat)
    BY <1>1, <1>3, ConcatElements
<1>5. read \in Nat
    BY DEF TypeOK
<1> QED BY <1>1, <1>2, <1>3, <1>4, <1>5

\* The room for a chunk never exceeds the chunk or the free space.
LEMMA RoomType ==
    ASSUME TypeOK
    PROVE  Room \in 0..Len(chunk) /\ Len(buf) + Room <= Capacity["tcp"]
<1>1. Len(chunk) \in Nat /\ Len(buf) \in Nat
    BY Parts
<1>2. Capacity["tcp"] \in Nat /\ Len(buf) <= Capacity["tcp"]
    BY CapacityAssumption DEF TypeOK, Output
<1> QED BY <1>1, <1>2 DEF Room, Least

\* The indices of the ring, and what it holds.
LEMMA RingType ==
    ASSUME TypeOK
    PROVE  /\ Capacity["ble"] \in Nat /\ Size = Capacity["ble"] + 1
           /\ head \in 0..Capacity["ble"] /\ tail \in 0..Capacity["ble"]
           /\ Count \in 0..Capacity["ble"]
           /\ \A c \in 0..2 * Capacity["ble"] + 1 : Wrap(c) \in Cells
           /\ \A c \in Cells : mem[c] \in 0..MaxRead /\ mem[c] \in Nat
<1>1. Capacity["ble"] \in Nat
    BY CapacityAssumption DEF Output
<1>2. head \in 0..Capacity["ble"] /\ tail \in 0..Capacity["ble"]
    BY DEF TypeOK, Cells
<1>3. Count \in 0..Capacity["ble"]
    BY <1>1, <1>2 DEF Count, Wrap, Size
<1>4. \A c \in 0..2 * Capacity["ble"] + 1 : Wrap(c) \in Cells
    BY <1>1 DEF Wrap, Size, Cells
<1>5. \A c \in Cells : mem[c] \in 0..MaxRead /\ mem[c] \in Nat
    BY BoundsAssumption DEF TypeOK
<1> QED BY <1>1, <1>2, <1>3, <1>4, <1>5 DEF Size

\* What the ring holds is a sequence of as many bytes as it counts.
LEMMA HeldType ==
    ASSUME TypeOK
    PROVE  /\ Held \in Seq(Nat) /\ Len(Held) = Count
           /\ \A i \in 1..Count : Held[i] = mem[Wrap(tail + i - 1)]
<1>1. Count \in Nat /\ \A i \in 1..Count : Wrap(tail + i - 1) \in Cells
    <2>1. \A i \in 1..Count : tail + i - 1 \in 0..2 * Capacity["ble"] + 1
        BY RingType
    <2> QED BY <2>1, RingType
<1>2. \A i \in 1..Count : mem[Wrap(tail + i - 1)] \in Nat
    BY <1>1, RingType
<1>3. Held \in Seq(Nat)
    BY <1>1, <1>2, IsASeq DEF Held
<1> QED BY <1>1, <1>3 DEF Held

\* The initial state has the declared types.
LEMMA InitType == Init => TypeOK /\ Sizes
<1> SUFFICES ASSUME Init PROVE TypeOK /\ Sizes
    OBVIOUS
<1>1. <<>> \in Seq(1..MaxRead) /\ <<>> \in Seq(0..MaxRead) /\ Len(<<>>) = 0
    BY EmptySeq
<1>2. {torn, connected, notifyEn, client} \subseteq BOOLEAN
    BY Zenon DEF Init
<1>3. cb \in Seq({"up", "down", "mute", "enable", "flush"})
    BY EmptySeq DEF Init
<1>4. /\ {chunk, tout, got, buf, backlog} \subseteq Seq(1..MaxRead)
      /\ {out, phone} \subseteq Seq(0..MaxRead)
    BY <1>1 DEF Init
<1>5. Capacity["ble"] \in Nat /\ Capacity["tcp"] \in Nat
    BY CapacityAssumption DEF Output
<1>6. Len(chunk) <= UartChunk /\ Len(out) <= NotifyChunk /\ Len(tout) <= UartChunk
      /\ Len(buf) <= Capacity["tcp"]
    BY <1>1, <1>5, ChunkAssumption DEF Init
<1>7. read \in 0..MaxRead /\ links \in 0..MaxLinks
    BY BoundsAssumption DEF Init
<1>8. /\ drops \in [Output -> Nat]
      /\ loaded \in [Counter -> Nat] /\ short \in [Counter -> Nat]
    BY DEF Init
<1>9. mem \in [Cells -> 0..MaxRead] /\ {head, tail, avail, from, at} \subseteq Cells
    BY <1>5, BoundsAssumption DEF Init, Blank, Cells
<1>10. fit \in 0..Least(Len(chunk), Capacity["ble"])
    BY <1>1, <1>5 DEF Init, Least
<1>11. Sizes
    BY DEF Init, Sizes
<1> QED BY <1>2, <1>3, <1>4, <1>6, <1>7, <1>8, <1>9, <1>10, <1>11 DEF Init, TypeOK

\* What the type invariant says of the numbers.
LEMMA Numbers ==
    ASSUME TypeOK
    PROVE  /\ drops["ble"] \in Nat /\ drops["tcp"] \in Nat
           /\ \A t \in Counter : loaded[t] \in Nat /\ short[t] \in Nat
           /\ fit \in 0..Least(Len(chunk), Capacity["ble"])
           /\ at \in 0..Capacity["ble"] /\ from \in 0..Capacity["ble"]
           /\ avail \in 0..Capacity["ble"]
           /\ links \in 0..MaxLinks
           /\ Len(buf) <= Capacity["tcp"] /\ Len(chunk) <= UartChunk
<1>1. "ble" \in Output /\ "tcp" \in Output
    BY DEF Output
<1>2. drops \in [Output -> Nat] /\ loaded \in [Counter -> Nat] /\ short \in [Counter -> Nat]
    BY DEF TypeOK
<1>3. drops["ble"] \in Nat /\ drops["tcp"] \in Nat
    BY <1>1, <1>2
<1>4. \A t \in Counter : loaded[t] \in Nat /\ short[t] \in Nat
    BY <1>2
<1>5. at \in Cells /\ {avail, from} \subseteq Cells /\ links \in 0..MaxLinks
      /\ fit \in 0..Least(Len(chunk), Capacity["ble"])
      /\ Len(buf) <= Capacity["tcp"] /\ Len(chunk) <= UartChunk
    BY DEF TypeOK
<1>6. at \in Cells /\ avail \in Cells /\ from \in Cells
    BY <1>5
<1> QED BY <1>3, <1>4, <1>5, <1>6 DEF Cells

\* The load and the store of += keep the counters numbers.
LEMMA CountType ==
    ASSUME TypeOK, NEW t \in Counter, Load(t) \/ Store(t)
    PROVE  drops' \in [Output -> Nat] /\ loaded' \in [Counter -> Nat] /\ short' \in [Counter -> Nat]
<1>1. "tcp" \in Output
    BY DEF Output
<1>2. drops["tcp"] \in Nat /\ loaded[t] + short[t] \in Nat
    BY Numbers
<1>3. CASE Load(t)
    BY <1>2, <1>3 DEF TypeOK, Load
<1>4. CASE Store(t)
    BY <1>2, <1>4 DEF TypeOK, Store
<1> QED BY <1>3, <1>4

\* The length of a send that fits.
LEMMA FitType ==
    ASSUME TypeOK
    PROVE  /\ fit \in Nat /\ fit <= Len(chunk) /\ fit <= Capacity["ble"] /\ Len(chunk) \in Nat
           /\ \A n \in Nat : n <= Len(chunk) /\ n <= Capacity["ble"]
                => n \in 0..Least(Len(chunk), Capacity["ble"])
<1>1. fit \in 0..Least(Len(chunk), Capacity["ble"])
    BY Numbers
<1>2. Len(chunk) \in Nat /\ Capacity["ble"] \in Nat
    BY Parts, RingType
<1> QED BY <1>1, <1>2 DEF Least

\* Every step of task_uart_rx keeps the types.
LEMMA UartType ==
    ASSUME TypeOK, Sizes, (\E n \in 1..UartChunk : ReadUart(n)) \/ UartRx
    PROVE  TypeOK' /\ Sizes'
<1> USE DEF uart, ring, ble, tcp, count
<1>1. ASSUME NEW n \in 1..UartChunk, ReadUart(n) PROVE TypeOK' /\ Sizes'
    <2>1. n \in Nat /\ n <= UartChunk /\ read + n <= MaxRead /\ read \in Nat
        BY <1>1, Parts, ChunkAssumption DEF ReadUart
    <2>2. \A i \in 1..n : read + i \in 1..MaxRead
        BY <2>1, BoundsAssumption
    <2>3. chunk' \in Seq(1..MaxRead) /\ Len(chunk') = n
        <3>1. [i \in 1..n |-> read + i] \in Seq(1..MaxRead)
            BY <2>1, <2>2, IsASeq
        <3>2. chunk' = [i \in 1..n |-> read + i] /\ Len(chunk') = n
            BY <1>1, <2>1 DEF ReadUart
        <3> QED BY <3>1, <3>2
    <2>4. read' \in 0..MaxRead
        BY <1>1, <2>1, BoundsAssumption DEF ReadUart
    <2>5. fit' = 0 /\ fit' \in 0..Least(Len(chunk'), Capacity["ble"])
        BY <1>1, <2>1, <2>3, RingType DEF ReadUart, Sizes, Least
    <2> QED BY <1>1, <2>1, <2>3, <2>4, <2>5 DEF TypeOK, Sizes, ReadUart
<1>2. CASE BleGate
    BY <1>2 DEF TypeOK, Sizes, BleGate
<1>3. CASE SendSpace
    <2>1. /\ Count \in Nat /\ Count <= Capacity["ble"] /\ Len(chunk) \in Nat
          /\ fit' = Least(Len(chunk), Capacity["ble"] - Count) /\ Capacity["ble"] \in Nat
        BY <1>3, RingType, FitType DEF SendSpace
    <2>2. fit' \in Nat /\ fit' <= Len(chunk) /\ fit' <= Capacity["ble"]
        BY <2>1 DEF Least
    <2>3. fit' \in 0..Least(Len(chunk), Capacity["ble"])
        BY <2>2, FitType
    <2> QED BY <1>3, <2>3 DEF TypeOK, Sizes, SendSpace
<1>4. CASE SendAim
    BY <1>4 DEF TypeOK, Sizes, SendAim
<1>5. CASE SendFill
    <2>1. ASSUME NEW c \in Cells, Offset(c) <= fit PROVE chunk[Offset(c)] \in 0..MaxRead
        <3>1. at \in 0..Capacity["ble"] /\ c \in 0..Capacity["ble"] /\ Capacity["ble"] \in Nat
            BY RingType DEF TypeOK, Cells
        <3>2. Offset(c) \in 1..Len(chunk)
            BY <2>1, <3>1, FitType DEF Offset, Size
        <3>3. chunk[Offset(c)] \in 1..MaxRead
            BY <3>2, Parts, ElementOfSeq
        <3> QED BY <3>3, BoundsAssumption
    <2>2. mem' \in [Cells -> 0..MaxRead]
        BY <1>5, <2>1 DEF TypeOK, SendFill
    <2> QED BY <1>5, <2>2 DEF TypeOK, Sizes, SendFill
<1>6. CASE SendPublish
    <2>1. at + fit \in 0..2 * Capacity["ble"] + 1 /\ 0 \in Cells
        <3>1. at \in 0..Capacity["ble"] /\ Capacity["ble"] \in Nat
            BY Numbers, RingType
        <3>2. fit \in Nat /\ fit <= Capacity["ble"]
            BY FitType
        <3> QED BY <3>1, <3>2 DEF Cells
    <2>2. head' \in Cells /\ at' \in Cells
        BY <1>6, <2>1, RingType DEF SendPublish
    <2> QED BY <1>6, <2>2 DEF TypeOK, Sizes, SendPublish
<1>7. CASE BleCount
    <2>1. drops' \in [Output -> Nat]
        <3>1. drops["ble"] + Len(chunk) - fit \in Nat
            BY FitType, Numbers
        <3> QED BY <1>7, <3>1 DEF TypeOK, BleCount
    <2>2. fit' = 0 /\ fit' \in 0..Least(Len(chunk), Capacity["ble"])
        BY <1>7, FitType, RingType DEF BleCount
    <2> QED BY <1>7, <2>1, <2>2 DEF TypeOK, Sizes, BleCount
<1>8. CASE TcpPush
    <2>1. "rx" \in Counter
        BY DEF Counter
    <2>2. /\ <<>> \in Seq(1..MaxRead) /\ Len(<<>>) <= UartChunk
          /\ 0 \in 0..Least(Len(<<>>), Capacity["ble"])
        BY EmptySeq, ChunkAssumption, RingType DEF Least
    <2>3. short' \in [Counter -> Nat]
        <3>1. Len(chunk) - Room \in Nat
            BY Parts, RoomType
        <3> QED BY <1>8, <3>1 DEF TypeOK, TcpPush
    <2>4. buf' \in Seq(1..MaxRead) /\ Len(buf') <= Capacity["tcp"]
        <3>1. /\ SubSeq(chunk, 1, Room) \in Seq(1..MaxRead)
              /\ Len(SubSeq(chunk, 1, Room)) = Room
            BY RoomType, Parts, SplitJoin
        <3>2. buf' = buf \/ buf' = buf \o SubSeq(chunk, 1, Room)
            BY <1>8 DEF TcpPush
        <3>3. buf \in Seq(1..MaxRead) /\ Len(buf) <= Capacity["tcp"]
            BY Parts, Numbers
        <3> QED BY <3>1, <3>2, <3>3, RoomType, ConcatProperties
    <2>5. fit = 0 /\ fit' = 0 /\ chunk' = <<>> /\ rpc' \in {"load", "read"}
        BY <1>8 DEF TcpPush, Sizes
    <2> QED BY <1>8, <2>2, <2>3, <2>4, <2>5 DEF TypeOK, Sizes, TcpPush
<1>9. CASE RxCount
    <2>1. Load("rx") \/ Store("rx")
        BY <1>9 DEF RxCount
    <2>2. drops' \in [Output -> Nat] /\ loaded' \in [Counter -> Nat] /\ short' \in [Counter -> Nat]
        BY <2>1, CountType DEF Counter
    <2> QED BY <1>9, <2>2 DEF TypeOK, Sizes, RxCount
<1> QED BY <1>1, <1>2, <1>3, <1>4, <1>5, <1>6, <1>7, <1>8, <1>9 DEF UartRx, BlePush

\* A reset leaves indices, cells and a flag.
LEMMA FlushType ==
    ASSUME TypeOK, Flush
    PROVE  mem' \in [Cells -> 0..MaxRead] /\ {head', tail'} \subseteq Cells /\ torn' \in BOOLEAN
<1>1. 0 \in Cells /\ Blank \in [Cells -> 0..MaxRead]
    BY RingType, BoundsAssumption DEF Cells, Blank
<1>2. mem' \in [Cells -> 0..MaxRead] /\ {head', tail'} \subseteq Cells
    BY <1>1 DEF Flush, TypeOK, ring
<1>3. torn' \in BOOLEAN
    BY Zenon DEF Flush, TypeOK, ring, Inside
<1> QED BY <1>2, <1>3

\* The phone and its callbacks keep the types.
LEMMA PhoneType ==
    ASSUME TypeOK, Sizes, Phone \/ Callback
    PROVE  TypeOK' /\ Sizes'
<1> DEFINE Writes == {"up", "down", "mute", "enable", "flush"}
<1>1. <<>> \in Seq(0..MaxRead) /\ Len(<<>>) = 0
    BY EmptySeq
<1>2. ASSUME Phone PROVE TypeOK' /\ Sizes'
    <2>1. \A l, w : Peer(l, w) /\ l \in {"off", "up", "subscribed"} /\ w \in Seq(Writes)
                    /\ phone' \in {phone, <<>>} /\ links' \in 0..MaxLinks
                    => TypeOK' /\ Sizes'
        BY <1>1, Zenon DEF TypeOK, Sizes, Peer, uart, ring, tcp, count
    <2>2. /\ <<"up", "mute">> \in Seq(Writes) /\ <<"enable", "flush">> \in Seq(Writes)
          /\ <<"mute">> \in Seq(Writes) /\ <<"down", "mute", "flush">> \in Seq(Writes)
        OBVIOUS
    <2>3. links' \in 0..MaxLinks
        <3>1. links' = links \/ (links' = links + 1 /\ links < MaxLinks)
            BY <1>2 DEF Phone, OnConnect, OnSubscribe, OnUnsubscribe, OnDisconnect
        <3> QED BY <3>1, BoundsAssumption DEF TypeOK
    <2> QED BY <1>2, <2>1, <2>2, <2>3
            DEF Phone, OnConnect, OnSubscribe, OnUnsubscribe, OnDisconnect
<1>3. ASSUME Callback PROVE TypeOK' /\ Sizes'
    <2>1. cb' \in Seq(Writes)
        BY <1>3, HeadTailProperties DEF TypeOK, Callback
    <2>2. Flush \/ UNCHANGED ring
        BY <1>3 DEF Callback
    <2>3. mem' \in [Cells -> 0..MaxRead] /\ {head', tail'} \subseteq Cells /\ torn' \in BOOLEAN
        <3>1. torn \in BOOLEAN
            BY DEF TypeOK
        <3> QED BY <2>2, <3>1, FlushType DEF TypeOK, ring
    <2>4. {torn', connected', notifyEn', client'} \subseteq BOOLEAN
        <3>1. connected \in BOOLEAN /\ notifyEn \in BOOLEAN /\ client \in BOOLEAN
            BY DEF TypeOK
        <3>2. /\ connected' \in {connected, TRUE, FALSE} /\ notifyEn' \in {notifyEn, TRUE, FALSE}
              /\ client' = client
            BY <1>3, Zenon DEF Callback, tcp
        <3> QED BY <2>3, <3>1, <3>2, Zenon
    <2>5. UNCHANGED <<uart, link, bpc, avail, from, out, phone, tcp, buf, backlog, count, links>>
        BY <1>3 DEF Callback
    <2>6. TypeOK'
        BY <2>1, <2>3, <2>4, <2>5, Zenon DEF TypeOK, uart, tcp, count
    <2>7. Sizes'
        BY <2>5 DEF Sizes, uart
    <2> QED BY <2>6, <2>7
<1> QED BY <1>2, <1>3

\* task_ble_tx keeps the types.
LEMMA BleTxType ==
    ASSUME TypeOK, Sizes, BleTx
    PROVE  TypeOK' /\ Sizes'
<1> USE DEF Elsewhere, uart, ring, tcp, count
<1>1. Count \in Cells /\ 0 \in Cells
    BY RingType DEF Cells
<1>2. CASE TxGate \/ TxCount \/ TxWake \/ TxRecount \/ TxAim
    BY <1>1, <1>2 DEF TypeOK, Sizes, TxGate, TxCount, TxWake, TxRecount, TxAim
<1>3. CASE TxCopy
    <2> DEFINE n == Least(avail, NotifyChunk)
    <2>1. n \in Nat /\ n <= avail /\ n <= NotifyChunk /\ avail \in 0..Capacity["ble"]
          /\ from \in 0..Capacity["ble"]
        BY ChunkAssumption, Numbers DEF Least
    <2>2. \A i \in 1..n : mem[Wrap(from + i - 1)] \in 0..MaxRead
        <3> TAKE i \in 1..n
        <3>1. from + i - 1 \in 0..2 * Capacity["ble"] + 1
            BY <2>1, RingType
        <3> QED BY <3>1, RingType
    <2>3. out' = [i \in 1..n |-> mem[Wrap(from + i - 1)]]
        BY <1>3 DEF TxCopy
    <2> HIDE DEF n
    <2>4. out' \in Seq(0..MaxRead) /\ Len(out') = n
        BY <2>1, <2>2, <2>3, IsASeq
    <2> QED BY <1>3, <2>1, <2>4 DEF TypeOK, Sizes, TxCopy
<1>4. CASE TxCommit
    <2>1. Len(out) \in Nat /\ Len(out) <= avail /\ avail \in 0..Capacity["ble"]
          /\ from \in 0..Capacity["ble"]
        BY <1>4, Parts DEF TypeOK, Cells, Sizes, TxCommit
    <2>2. from + Len(out) \in 0..2 * Capacity["ble"] + 1
        BY <2>1, RingType
    <2>3. tail' \in Cells
        BY <1>4, <2>2, RingType DEF TxCommit
    <2> QED BY <1>1, <1>4, <2>3 DEF TypeOK, Sizes, TxCommit
<1>5. CASE Notify
    <2>1. <<>> \in Seq(0..MaxRead) /\ Len(<<>>) <= NotifyChunk
        BY EmptySeq, ChunkAssumption
    <2>2. phone' \in Seq(0..MaxRead)
        <3>1. phone \in Seq(0..MaxRead) /\ phone \o out \in Seq(0..MaxRead)
            BY ConcatProperties DEF TypeOK
        <3> QED BY <1>5, <3>1 DEF Notify
    <2> QED BY <1>5, <2>1, <2>2 DEF TypeOK, Sizes, Notify
<1> QED BY <1>2, <1>3, <1>4, <1>5 DEF BleTx

\* The client and task_tcp_io keep the types.
LEMMA TcpType ==
    ASSUME TypeOK, Sizes, Accept \/ TcpIo \/ ClientGone
    PROVE  TypeOK' /\ Sizes'
<1> USE DEF uart, ring, ble, count
<1>1. <<>> \in Seq(1..MaxRead) /\ Len(<<>>) = 0 /\ UartChunk \in Nat /\ Capacity["tcp"] \in Nat
    BY EmptySeq, ChunkAssumption, CapacityAssumption DEF Output
<1>2. CASE Accept
    <2>1. {torn', connected', notifyEn', client'} \subseteq BOOLEAN
        BY <1>2, Zenon DEF TypeOK, Accept
    <2>2. links' \in 0..MaxLinks
        BY <1>2, BoundsAssumption, Numbers DEF Accept
    <2> QED BY <1>1, <1>2, <2>1, <2>2, SMTT(30) DEF TypeOK, Sizes, Accept
<1>3. CASE Serve
    BY <1>3 DEF TypeOK, Sizes, Serve
<1>4. CASE Pull
    <2> DEFINE n == Least(Len(buf), UartChunk)
    <2>1. n \in 0..Len(buf) /\ n <= UartChunk
        BY <1>1, Parts DEF Least
    <2>2. buf' = SubSeq(buf, n + 1, Len(buf)) /\ tout' = SubSeq(buf, 1, n)
        BY <1>4 DEF Pull
    <2> HIDE DEF n
    <2>3. /\ buf' \in Seq(1..MaxRead) /\ Len(buf') <= Capacity["tcp"]
          /\ tout' \in Seq(1..MaxRead) /\ Len(tout') <= UartChunk
        <3>1. buf \in Seq(1..MaxRead) /\ Len(buf) \in Nat /\ Len(buf) <= Capacity["tcp"]
            BY Parts, Numbers
        <3>2. /\ tout' \in Seq(1..MaxRead) /\ Len(tout') = n
              /\ buf' \in Seq(1..MaxRead) /\ Len(buf') = Len(buf) - n
            BY <2>1, <2>2, <3>1, SplitJoin
        <3> QED BY <1>1, <2>1, <3>1, <3>2
    <2> QED BY <1>4, <2>3 DEF TypeOK, Sizes, Pull
<1>5. CASE WriteTcp
    <2>1. PICK w \in IF client THEN 0..Len(tout) ELSE {0} :
                /\ got' = got \o SubSeq(tout, 1, w)
                /\ short' = [short EXCEPT !["io"] = Len(tout) - w]
        BY <1>5 DEF WriteTcp
    <2>2. w \in 0..Len(tout) /\ Len(tout) - w \in Nat
        BY <2>1, Parts
    <2>3. got' \in Seq(1..MaxRead)
        BY <2>1, <2>2, Parts, SplitJoin, ConcatProperties
    <2>4. short' \in [Counter -> Nat]
        BY <2>1, <2>2 DEF TypeOK
    <2>5. tpc' \in {"load", "accept"} /\ tout' = <<>> /\ Len(tout') <= UartChunk
        BY <1>1, <1>5 DEF WriteTcp
    <2>6. UNCHANGED <<uart, ring, ble, client, buf, backlog, drops, loaded, links>>
        BY <1>5 DEF WriteTcp
    <2> QED BY <1>1, <2>3, <2>4, <2>5, <2>6 DEF TypeOK, Sizes
<1>6. CASE IoCount
    <2>1. Load("io") \/ Store("io")
        BY <1>6 DEF IoCount
    <2>2. drops' \in [Output -> Nat] /\ loaded' \in [Counter -> Nat] /\ short' \in [Counter -> Nat]
        BY <2>1, CountType DEF Counter
    <2> QED BY <1>6, <2>2 DEF TypeOK, Sizes, IoCount
<1>7. CASE ClientGone
    <2>1. {torn', connected', notifyEn', client'} \subseteq BOOLEAN
        BY <1>7, Zenon DEF TypeOK, ClientGone
    <2> QED BY <1>7, <2>1 DEF TypeOK, Sizes, ClientGone
<1> QED BY <1>2, <1>3, <1>4, <1>5, <1>6, <1>7 DEF TcpIo

\* Every step keeps the types.
LEMMA NextType == TypeOK /\ Sizes /\ [Next]_vars => TypeOK' /\ Sizes'
<1>1. ASSUME TypeOK, Sizes, UNCHANGED vars PROVE TypeOK' /\ Sizes'
    BY <1>1 DEF TypeOK, Sizes, vars, uart, ring, ble, tcp, count
<1> QED BY <1>1, UartType, PhoneType, BleTxType, TcpType DEF Next, RxIdle

\* No stream buffer ever holds more than its size, no task more than its chunk,
\* and no index leaves its ring, resets inside sends and receives included.
THEOREM TypeCorrect == Spec => []TypeOK
BY InitType, NextType, PTL DEF Spec

--------------------------------------------------------------------------------
(* The ring.                                                               *)

\* Storing xHead adds what was copied behind what the ring held.
LEMMA RingPublish ==
    ASSUME TypeOK, fit <= Capacity["ble"] - Count,
           \A i \in 1..fit : mem[Wrap(head + i - 1)] = chunk[i],
           head' = Wrap(head + fit), tail' = tail, mem' = mem
    PROVE  Count' = Count + fit /\ Held' = Held \o SubSeq(chunk, 1, fit)
<1> DEFINE C == Capacity["ble"]
           x == SubSeq(chunk, 1, fit)
<1>1. C \in Nat /\ Size = C + 1 /\ head \in 0..C /\ tail \in 0..C /\ Count \in 0..C
    BY RingType
<1>2. fit \in Nat /\ fit <= Len(chunk) /\ fit <= C - Count
    BY FitType
<1>3. Count = Wrap(head + Size - tail) /\ Count' = Wrap(head' + Size - tail')
    BY DEF Count, Wrap, Size
<1>5. Count' = Count + fit
    <2> HIDE DEF C
    <2>1. Count = IF head >= tail THEN head - tail ELSE head + (C + 1) - tail
        BY <1>1, <1>3 DEF Wrap
    <2>2. head' = IF head + fit >= C + 1 THEN head + fit - (C + 1) ELSE head + fit
        BY <1>1, <1>2 DEF Wrap
    <2>3. head' \in 0..C
        BY <1>1, <1>2, <2>2
    <2>4. Count' = IF head' >= tail THEN head' - tail ELSE head' + (C + 1) - tail
        BY <1>1, <1>3, <2>3 DEF Wrap
    <2> QED BY <1>1, <1>2, <2>1, <2>2, <2>4
<1>6. /\ x \in Seq(Nat) /\ Len(x) = fit
      /\ \A i \in 1..fit : x[i] = chunk[i]
    <2>1. chunk \in Seq(Nat) /\ fit \in 0..Len(chunk)
        BY <1>2, Parts
    <2>2. \A i \in 1..fit : chunk[i] \in Nat
        BY <2>1, ElementOfSeq, FitType
    <2>3. fit - 1 + 1 = fit /\ \A i \in 1..fit : 1 + i - 1 = i
        BY <1>2
    <2> QED BY <2>1, <2>2, <2>3, SplitJoin, SubSeqProperties
<1>7. /\ Held \in Seq(Nat) /\ Len(Held) = Count
      /\ \A i \in 1..Count : Held[i] = mem[Wrap(tail + i - 1)]
    BY HeldType
<1> HIDE DEF x, C
<1>8. ASSUME NEW i \in 1..Count + fit
      PROVE  mem[Wrap(tail + i - 1)] = IF i <= Count THEN Held[i] ELSE x[i - Count]
    <2>1. CASE i <= Count
        BY <1>1, <1>7, <2>1
    <2>2. CASE i > Count
        <3>1. i - Count \in 1..fit
            BY <1>1, <1>2, <2>2
        <3>2. Wrap(tail + i - 1) = Wrap(head + (i - Count) - 1)
            <4>1. Count = IF head >= tail THEN head - tail ELSE head + (C + 1) - tail
                BY <1>1, <1>3 DEF Wrap
            <4> QED BY <1>1, <1>2, <2>2, <4>1 DEF Wrap
        <3>3. ~(i <= Count) /\ x[i - Count] = chunk[i - Count]
            BY <1>1, <1>6, <2>2, <3>1
        <3> QED BY <3>1, <3>2, <3>3
    <2> QED BY <1>1, <2>1, <2>2
<1>9. /\ Held \o x \in Seq(Nat) /\ Len(Held \o x) = Count + fit
      /\ \A i \in 1..Count + fit :
            (Held \o x)[i] = IF i <= Count THEN Held[i] ELSE x[i - Count]
    BY <1>6, <1>7, ConcatProperties
<1>10. Held' = [i \in 1..Count + fit |-> mem[Wrap(tail + i - 1)]]
    BY <1>5 DEF Held, Wrap, Size
<1>11. /\ Held' \in Seq(Nat) /\ Len(Held') = Count + fit
    <2>1. Count + fit \in Nat
        BY <1>1, <1>2
    <2>2. \A i \in 1..Count + fit : (Held \o x)[i] \in Nat
        BY <1>9, ElementOfSeq
    <2>3. \A i \in 1..Count + fit : mem[Wrap(tail + i - 1)] \in Nat
        BY <1>8, <1>9, <2>2
    <2>4. [i \in 1..Count + fit |-> mem[Wrap(tail + i - 1)]] \in Seq(Nat)
        BY <2>1, <2>3, IsASeq
    <2> QED BY <1>10, <2>1, <2>4
<1>12. Held' = Held \o x
    <2>1. \A i \in 1..Len(Held') : Held'[i] = (Held \o x)[i]
        BY <1>8, <1>9, <1>10, <1>11
    <2> QED BY <1>9, <1>11, <2>1, SeqEqual
<1> QED BY <1>5, <1>12 DEF x

\* Copying into free cells leaves what the ring holds, and puts the chunk
\* where xHead will make it visible.
LEMMA RingFill ==
    ASSUME TypeOK, fit <= Capacity["ble"] - Count, at = head,
           head' = head, tail' = tail,
           mem' = [c \in Cells |-> IF Offset(c) <= fit THEN chunk[Offset(c)] ELSE mem[c]]
    PROVE  /\ Count' = Count
           /\ \A i \in 1..Count : mem'[Wrap(tail + i - 1)] = mem[Wrap(tail + i - 1)]
           /\ Held' = Held
           /\ \A i \in 1..fit : mem'[Wrap(head + i - 1)] = chunk[i]
<1> DEFINE C == Capacity["ble"]
<1>1. C \in Nat /\ Size = C + 1 /\ head \in 0..C /\ tail \in 0..C /\ Count \in 0..C
    BY RingType
<1>2. fit \in Nat /\ fit <= C - Count
    BY FitType
<1>3. Count = Wrap(head + Size - tail)
    BY DEF Count
<1>5. \A c \in Int : Offset(c) = IF c >= head THEN c - head + 1 ELSE c + (C + 1) - head + 1
    BY <1>1 DEF Offset
<1>6. Cells = 0..C
    BY DEF Cells
<1> HIDE DEF C
<1>7. ASSUME NEW i \in 1..Count
      PROVE  Wrap(tail + i - 1) \in Cells /\ ~(Offset(Wrap(tail + i - 1)) <= fit)
    <2> DEFINE c == Wrap(tail + i - 1)
    <2>1. c = (IF tail + i - 1 >= C + 1 THEN tail + i - 1 - (C + 1) ELSE tail + i - 1)
        BY <1>1 DEF Wrap
    <2>2. Count = IF head >= tail THEN head - tail ELSE head + (C + 1) - tail
        BY <1>1, <1>3 DEF Wrap
    <2>3. Offset(c) = IF c >= head THEN c - head + 1 ELSE c + (C + 1) - head + 1
        <3>1. c \in Int
            <4>1. tail + i - 1 \in Int /\ tail + i - 1 - (C + 1) \in Int
                BY <1>1
            <4> QED BY <2>1, <4>1
        <3> QED BY <1>5, <3>1
    <2> HIDE DEF c
    <2>4. c \in 0..C /\ ~(Offset(c) <= fit)
        BY <1>1, <1>2, <2>1, <2>2, <2>3
    <2> QED BY <1>6, <2>4 DEF c
<1>8. ASSUME NEW i \in 1..fit
      PROVE  Wrap(head + i - 1) \in Cells /\ Offset(Wrap(head + i - 1)) = i
    <2> DEFINE c == Wrap(head + i - 1)
    <2>1. c = (IF head + i - 1 >= C + 1 THEN head + i - 1 - (C + 1) ELSE head + i - 1)
        BY <1>1 DEF Wrap
    <2> HIDE DEF c
    <2>2. c \in 0..C
        BY <1>1, <1>2, <2>1
    <2>3. Offset(c) = IF c >= head THEN c - head + 1 ELSE c + (C + 1) - head + 1
        BY <1>1, <1>5, <2>2
    <2>4. Offset(c) = i
        BY <1>1, <1>2, <2>1, <2>2, <2>3
    <2> QED BY <1>6, <2>2, <2>4 DEF c
<1>9. \A i \in 1..Count : mem'[Wrap(tail + i - 1)] = mem[Wrap(tail + i - 1)]
    BY <1>7
<1>10. \A i \in 1..fit : mem'[Wrap(head + i - 1)] = chunk[i]
    BY <1>2, <1>8
<1>11. Count' = Count
    BY DEF Count, Wrap, Size
<1>12. Held' = Held
    BY <1>9, <1>11 DEF Held, Wrap, Size
<1> QED BY <1>9, <1>10, <1>11, <1>12

\* Storing xTail removes the oldest bytes.
LEMMA RingTake ==
    ASSUME TypeOK, NEW n \in 0..Count, tail' = Wrap(tail + n), head' = head, mem' = mem
    PROVE  Count' = Count - n /\ Held' = SubSeq(Held, n + 1, Len(Held))
<1> DEFINE C == Capacity["ble"]
           y == SubSeq(Held, n + 1, Len(Held))
<1>1. C \in Nat /\ Size = C + 1 /\ head \in 0..C /\ tail \in 0..C /\ Count \in 0..C
    BY RingType
<1>2. Count = Wrap(head + Size - tail) /\ Count' = Wrap(head' + Size - tail')
    BY DEF Count, Wrap, Size
<1>4. Count' = Count - n
    <2> HIDE DEF C
    <2>1. Count = IF head >= tail THEN head - tail ELSE head + (C + 1) - tail
        BY <1>1, <1>2 DEF Wrap
    <2>2. tail' = IF tail + n >= C + 1 THEN tail + n - (C + 1) ELSE tail + n
        BY <1>1 DEF Wrap
    <2>3. tail' \in 0..C
        BY <1>1, <2>2
    <2>4. Count' = IF head >= tail' THEN head - tail' ELSE head + (C + 1) - tail'
        BY <1>1, <1>2, <2>3 DEF Wrap
    <2> QED BY <1>1, <2>1, <2>2, <2>4
<1>5. /\ Held \in Seq(Nat) /\ Len(Held) = Count
      /\ \A i \in 1..Count : Held[i] = mem[Wrap(tail + i - 1)]
    BY HeldType
<1>6. y = [i \in 1..Count - n |-> Held[n + 1 + i - 1]]
    <2>1. Len(Held) - (n + 1) + 1 = Count - n
        BY <1>1, <1>5
    <2> QED BY <2>1
<1>7. Held' = [i \in 1..Count - n |-> mem[Wrap(tail' + i - 1)]]
    BY <1>4 DEF Held, Wrap, Size
<1> HIDE DEF y, C
<1>8. ASSUME NEW i \in 1..Count - n PROVE mem[Wrap(tail' + i - 1)] = Held[n + 1 + i - 1]
    <2>1. n + 1 + i - 1 \in 1..Count
        BY <1>1
    <2>2. Wrap(tail' + i - 1) = Wrap(tail + (n + 1 + i - 1) - 1)
        BY <1>1, <2>1 DEF Wrap
    <2> QED BY <1>5, <2>1, <2>2
<1> QED BY <1>4, <1>6, <1>7, <1>8 DEF y

\* A reset empties the ring.
LEMMA RingReset ==
    ASSUME TypeOK, head' = 0, tail' = 0
    PROVE  Count' = 0 /\ Held' = <<>>
<1>1. Count' = 0
    <2>1. Capacity["ble"] \in Nat
        BY RingType
    <2> QED BY <2>1 DEF Count, Wrap, Size
<1> QED BY <1>1 DEF Held

\* Nothing changes while nothing is stored.
LEMMA RingSame ==
    ASSUME UNCHANGED <<mem, head, tail>>
    PROVE  Count' = Count /\ Held' = Held
BY DEF Count, Held, Wrap, Size

--------------------------------------------------------------------------------
(* Order.                                                                  *)

\* Nothing was read, pushed or dropped yet.
LEMMA InitInv == Init => Inv
<1> SUFFICES ASSUME Init PROVE Inv
    OBVIOUS
<1>1. <<>> \in Seq(Nat) /\ Len(<<>>) = 0 /\ <<>> \o <<>> = <<>>
    BY EmptySeq, ConcatEmptySeq
<1>2. short["rx"] = 0 /\ short["io"] = 0
    BY DEF Init, Counter
<1>3. \A m : Stream(<<>>, <<>>, <<>>, m)
    BY EmptyOrdered DEF Stream
<1>4. Held = <<>>
    <2>1. Count = 0
        BY CapacityAssumption DEF Init, Count, Wrap, Size, Output
    <2> QED BY <2>1 DEF Held
<1>5. ChunkIsRead /\ Holding /\ Owing /\ NoTcp
    BY <1>1, <1>2 DEF Init, ChunkIsRead, Holding, Owing, NoTcp
<1>6. BleSound
    BY <1>3, <1>4 DEF Init, BleSound, SendSound, TakeSound, BleInOrder, Taken
<1>7. TcpInOrder
    BY <1>1, <1>3 DEF Init, TcpInOrder
<1>8. TcpWhole
    BY <1>2, EmptyOrdered DEF Init, TcpWhole
<1> QED BY <1>5, <1>6, <1>7, <1>8 DEF Inv

\* What the parts of the BLE stream are made of.
LEMMA BleParts ==
    ASSUME TypeOK, Inv
    PROVE  /\ phone \in Seq(Nat) /\ Taken \in Seq(Nat) /\ Held \in Seq(Nat) /\ chunk \in Seq(Nat)
           /\ read \in Nat /\ Len(chunk) \in Nat /\ Base \in Nat /\ Base + Len(chunk) = read
           /\ BleBase \in {Base, read} /\ BleBase \in Nat
           /\ \A i \in 1..Len(chunk) : chunk[i] = Base + i
           /\ ~torn => Stream(phone, Taken, Held, BleBase)
<1>1. <<>> \in Seq(Nat)
    BY EmptySeq
<1>2. read \in Nat /\ Len(chunk) \in Nat /\ Base \in Nat /\ Base + Len(chunk) = read
      /\ \A i \in 1..Len(chunk) : chunk[i] = Base + i
    BY Parts DEF Inv, ChunkIsRead, Base
<1>3. ~torn => Stream(phone, Taken, Held, BleBase)
    BY DEF Inv, BleSound, BleInOrder
<1> QED BY <1>1, <1>2, <1>3, Parts, HeldType DEF Taken, BleBase

\* A step of task_uart_rx that leaves the TCP half alone.
LEMMA RxElsewhere ==
    ASSUME TypeOK, Inv, UNCHANGED <<read, chunk, tcp, buf, backlog, loaded, short>>,
           drops'["tcp"] = drops["tcp"], bpc' = bpc, out' = out,
           rpc \in {"gate", "space", "aim", "fill", "publish", "tally"},
           rpc' \notin {"read", "load", "store"}
    PROVE  /\ Base' = Base
           /\ ChunkIsRead' /\ Holding' /\ Owing' /\ NoTcp' /\ TcpInOrder' /\ TcpWhole'
<1>1. Base' = Base
    BY DEF Base
<1>2. ChunkIsRead' /\ Holding' /\ Owing' /\ NoTcp'
    BY <1>1 DEF Inv, ChunkIsRead, Holding, Owing, NoTcp, tcp
<1>3. TcpInOrder' /\ TcpWhole'
    BY <1>1 DEF Inv, TcpInOrder, TcpWhole, NoneDropped, tcp
<1> QED BY <1>1, <1>2, <1>3

\* The gate, and a send to the BLE buffer, keep its stream in order.
LEMMA BlePushInv ==
    ASSUME TypeOK, Sizes, Inv, BleGate \/ BlePush
    PROVE  Inv'
<1> USE DEF BlePush
<1>1. /\ UNCHANGED <<read, chunk, tcp, buf, backlog, loaded, short, torn, tail, ble>>
      /\ rpc \in {"gate", "space", "aim", "fill", "publish", "tally"}
      /\ rpc' \notin {"read", "load", "store"}
    BY DEF BleGate, SendSpace, SendAim, SendFill, SendPublish, BleCount, ring, count
<1>2. drops'["tcp"] = drops["tcp"]
    <2>1. drops' = drops \/ drops' = [drops EXCEPT !["ble"] = @ + Len(chunk) - fit]
        BY DEF BleGate, SendSpace, SendAim, SendFill, SendPublish, BleCount, count
    <2>2. drops \in [Output -> Nat]
        BY DEF TypeOK
    <2> QED BY <2>1, <2>2 DEF Output
<1>3. UNCHANGED <<bpc, avail, from, out, phone>> /\ Taken' = Taken
    BY <1>1 DEF ble, Taken
<1>4. Base' = Base /\ (BleSound' => Inv')
    BY <1>1, <1>2, <1>3, RxElsewhere DEF Inv
<1> SUFFICES ASSUME ~torn PROVE SendSound' /\ TakeSound' /\ BleInOrder'
    BY <1>1, <1>4 DEF BleSound
<1>5. SendSound /\ TakeSound /\ Stream(phone, Taken, Held, BleBase)
    BY DEF Inv, BleSound, BleInOrder
<1>6. Stream(phone, Taken, Held, read)
    <2>1. BleBase <= read
        BY BleParts
    <2> QED BY <1>5, <2>1, BleParts, StreamRaise
<1>7. BleBase' \in {Base, read} /\ Base \in Nat
    BY <1>1, <1>4, BleParts DEF BleBase
<1>8. ASSUME UNCHANGED <<mem, head>>
      PROVE  /\ Count' = Count /\ Held' = Held /\ TakeSound'
             /\ rpc \in {"gate", "space", "aim", "fill", "publish"} \/ BleBase' = read
                    => BleInOrder'
    <2>1. Count' = Count /\ Held' = Held
        BY <1>1, <1>8, RingSame
    <2>2. TakeSound'
        BY <1>1, <1>3, <1>5, <1>8, <2>1 DEF TakeSound, Wrap, Size
    <2>3. ASSUME rpc \in {"gate", "space", "aim", "fill", "publish"} \/ BleBase' = read
          PROVE  BleInOrder'
        <3>1. Stream(phone, Taken, Held, BleBase')
            BY <1>5, <1>6, <1>7, <2>3 DEF BleBase
        <3> QED BY <1>3, <2>1, <3>1 DEF BleInOrder
    <2> QED BY <2>1, <2>2, <2>3
<1>9. CASE BleGate
    <2>1. UNCHANGED <<mem, head>> /\ rpc = "gate" /\ rpc' \in {"space", "tcp"}
        BY <1>9 DEF BleGate, ring
    <2> QED BY <1>8, <2>1 DEF SendSound
<1>10. CASE SendSpace
    <2>1. UNCHANGED <<mem, head>> /\ rpc = "space" /\ rpc' \in {"aim", "tally"}
          /\ fit' = Least(Len(chunk), Capacity["ble"] - Count)
        BY <1>10 DEF SendSpace, ring
    <2>2. fit' <= Capacity["ble"] - Count
        <3>1. Len(chunk) \in Nat /\ Count \in Nat /\ Capacity["ble"] \in Nat
            BY RingType, Parts
        <3> QED BY <2>1, <3>1 DEF Least
    <2> QED BY <1>8, <2>1, <2>2 DEF SendSound
<1>11. CASE SendAim
    <2>1. UNCHANGED <<mem, head, fit>> /\ rpc = "aim" /\ rpc' = "fill" /\ at' = head
        BY <1>11 DEF SendAim, ring
    <2> QED BY <1>5, <1>8, <2>1 DEF SendSound
<1>12. CASE SendFill
    <2>1. /\ UNCHANGED <<head, tail, fit, at, chunk>> /\ rpc = "fill" /\ rpc' = "publish"
          /\ mem' = [c \in Cells |-> IF Offset(c) <= fit THEN chunk[Offset(c)] ELSE mem[c]]
        BY <1>12 DEF SendFill
    <2>2. fit <= Capacity["ble"] - Count /\ at = head
        BY <1>5, <2>1 DEF SendSound
    <2>3. /\ Count' = Count /\ Held' = Held
          /\ \A i \in 1..Count : mem'[Wrap(tail + i - 1)] = mem[Wrap(tail + i - 1)]
          /\ \A i \in 1..fit : mem'[Wrap(head + i - 1)] = chunk[i]
        BY <2>1, <2>2, RingFill
    <2>4. SendSound'
        BY <2>1, <2>2, <2>3 DEF SendSound, Wrap, Size
    <2>5. TakeSound'
        <3>1. /\ bpc \in {"take", "copy", "commit"} => avail <= Count
              /\ bpc \in {"copy", "commit"} => from = tail
            BY <1>5 DEF TakeSound
        <3>2. ASSUME bpc = "commit", NEW i \in 1..Len(out)
              PROVE  out[i] = mem'[Wrap(tail + i - 1)]
            <4>1. i \in 1..Count
                <5>1. Len(out) <= avail /\ avail <= Count
                    BY <3>1, <3>2 DEF Sizes
                <5>2. Len(out) \in Nat /\ avail \in Nat /\ Count \in Nat
                    BY Parts, Numbers, RingType
                <5> QED BY <5>1, <5>2
            <4>2. out[i] = mem[Wrap(tail + i - 1)]
                BY <1>5, <3>2 DEF TakeSound
            <4> QED BY <2>3, <4>1, <4>2
        <3> QED BY <1>3, <2>1, <2>3, <3>1, <3>2 DEF TakeSound, Wrap, Size
    <2>6. BleInOrder'
        <3>1. BleBase = Base /\ BleBase' = Base
            BY <1>4, <2>1 DEF BleBase
        <3> QED BY <1>3, <1>5, <2>3, <3>1 DEF BleInOrder
    <2> QED BY <2>4, <2>5, <2>6
<1>13. CASE SendPublish
    <2>1. /\ UNCHANGED <<mem, tail, fit, chunk>> /\ rpc = "publish" /\ rpc' = "tally"
          /\ head' = Wrap(at + fit)
        BY <1>13 DEF SendPublish
    <2>2. /\ fit <= Capacity["ble"] - Count /\ at = head
          /\ \A i \in 1..fit : mem[Wrap(head + i - 1)] = chunk[i]
        BY <1>5, <2>1 DEF SendSound
    <2>3. Count' = Count + fit /\ Held' = Held \o SubSeq(chunk, 1, fit)
        BY <2>1, <2>2, RingPublish
    <2>4. SendSound'
        BY <2>1 DEF SendSound
    <2>5. TakeSound'
        <3>1. bpc \in {"take", "copy", "commit"} => avail <= Count'
            <4>1. avail \in Nat /\ Count \in Nat /\ fit \in Nat
                BY Numbers, RingType, FitType
            <4> QED BY <1>5, <2>3, <4>1 DEF TakeSound
        <3> QED BY <1>3, <1>5, <2>1, <3>1 DEF TakeSound, Wrap, Size
    <2>6. BleInOrder'
        <3>1. BleBase = Base /\ BleBase' = Base + Len(chunk)
            BY <1>1, <2>1, BleParts DEF BleBase
        <3>2. fit \in 0..Len(chunk)
            BY FitType
        <3>3. Stream(phone, Taken, Held \o SubSeq(chunk, 1, fit), Base + Len(chunk))
            BY <1>5, <3>1, <3>2, BleParts, StreamPush
        <3> QED BY <1>3, <2>3, <3>1, <3>3 DEF BleInOrder
    <2> QED BY <2>4, <2>5, <2>6
<1>14. CASE BleCount
    <2>1. UNCHANGED <<mem, head>> /\ rpc' = "tcp"
        BY <1>14 DEF BleCount, ring
    <2>2. BleBase' = read
        BY <1>1, <2>1 DEF BleBase
    <2> QED BY <1>8, <2>1, <2>2 DEF SendSound
<1> QED BY <1>9, <1>10, <1>11, <1>12, <1>13, <1>14

\* What task_uart_rx reads and pushes to TCP, and what it counts.
LEMMA UartInv ==
    ASSUME TypeOK, Sizes, Inv, (\E n \in 1..UartChunk : ReadUart(n)) \/ UartRx
    PROVE  Inv'
<1>1. /\ read \in Nat /\ Len(chunk) \in Nat /\ Base \in Nat /\ Base + Len(chunk) = read
      /\ chunk \in Seq(Nat) /\ \A i \in 1..Len(chunk) : chunk[i] = Base + i
    BY BleParts
<1>2. /\ tout \in Seq(Nat) /\ got \in Seq(Nat) /\ buf \in Seq(Nat)
      /\ backlog \o got \in Seq(Nat)
    BY Parts
<1>3. <<>> \in Seq(Nat) /\ Len(<<>>) = 0
    BY EmptySeq
<1>4. ASSUME UNCHANGED <<ring, ble, fit, at>>, BleBase' = BleBase,
             rpc \in {"read", "tcp", "load", "store"},
             rpc' \in {"gate", "read", "load", "store"}
      PROVE  BleSound' /\ bpc' = bpc /\ out' = out
    <2>1. /\ UNCHANGED <<mem, head, tail, torn>> /\ Count' = Count /\ Held' = Held
          /\ UNCHANGED <<bpc, avail, from, out, phone>> /\ Taken' = Taken
        BY <1>4, RingSame DEF ring, ble, Taken
    <2>2. SendSound'
        BY <1>4 DEF SendSound
    <2>3. TakeSound => TakeSound'
        BY <2>1 DEF TakeSound, Wrap, Size
    <2>4. BleInOrder => BleInOrder'
        BY <1>4, <2>1 DEF BleInOrder
    <2> QED BY <2>1, <2>2, <2>3, <2>4 DEF Inv, BleSound
<1>5. ASSUME NEW n \in 1..UartChunk, ReadUart(n) PROVE Inv'
    <2>1. chunk = <<>> /\ Base = read /\ n \in Nat
        BY <1>1, <1>3, <1>5, ChunkAssumption DEF ReadUart, Inv, Holding, Base
    <2>2. /\ chunk' = [i \in 1..n |-> read + i] /\ Len(chunk') = n /\ read' = read + n
          /\ rpc = "read" /\ rpc' = "gate"
          /\ UNCHANGED <<fit, at, ring, ble, tcp, buf, backlog, count, links>>
        BY <1>5, <2>1 DEF ReadUart
    <2>3. Base' = Base /\ ChunkIsRead'
        BY <1>1, <2>1, <2>2 DEF Base, ChunkIsRead
    <2>4. BleBase = read /\ BleBase' = read
        BY <2>1, <2>2, <2>3 DEF BleBase
    <2>5. BleSound' /\ bpc' = bpc /\ out' = out
        BY <1>4, <2>2, <2>4
    <2>6. Holding' /\ Owing' /\ NoTcp'
        BY <2>2, <2>5 DEF Inv, Holding, Owing, NoTcp, tcp, count
    <2>7. TcpInOrder' /\ TcpWhole'
        BY <2>2, <2>3 DEF Inv, TcpInOrder, TcpWhole, NoneDropped, tcp, count
    <2> QED BY <2>3, <2>5, <2>6, <2>7 DEF Inv
<1>6. CASE TcpPush
    <2>1. /\ rpc = "tcp" /\ rpc' \in {"load", "read"} /\ chunk' = <<>>
          /\ UNCHANGED <<read, fit, at, ring, ble, tcp, backlog, drops, loaded, links>>
        BY <1>6 DEF TcpPush
    <2>2. Base' = read /\ ChunkIsRead'
        BY <1>1, <1>3, <2>1 DEF Base, ChunkIsRead
    <2>3. short'["io"] = short["io"]
        <3>1. short' = short \/ short' = [short EXCEPT !["rx"] = Len(chunk) - Room]
            BY <1>6 DEF TcpPush
        <3> QED BY <3>1 DEF TypeOK, Counter
    <2>4. BleSound' /\ bpc' = bpc /\ out' = out
        <3>1. BleBase' = BleBase
            BY <2>1 DEF BleBase
        <3> QED BY <1>4, <2>1, <3>1
    <2>5. Holding' /\ Owing'
        <3>1. short["rx"] \in Nat /\ ~(short["rx"] > 0)
            BY <2>1 DEF TypeOK, Counter, Inv, Owing
        <3>2. rpc' = IF short'["rx"] > 0 THEN "load" ELSE "read"
            BY <1>6 DEF TcpPush
        <3> QED BY <2>1, <2>3, <2>4, <3>2 DEF Inv, Holding, Owing, tcp
    <2>6. CASE "tcp" \in Enabled
        <3>1. buf' = buf \o SubSeq(chunk, 1, Room) /\ short'["rx"] = Len(chunk) - Room
            BY <1>3, <1>6, <2>6 DEF TcpPush, TypeOK, Counter
        <3>2. TcpInOrder'
            <4>1. Stream(backlog \o got, tout, buf \o SubSeq(chunk, 1, Room), Base + Len(chunk))
                BY <1>1, <1>2, RoomType, StreamPush DEF Inv, TcpInOrder
            <4> QED BY <1>1, <2>1, <2>2, <3>1, <4>1 DEF TcpInOrder, tcp
        <3>3. ASSUME NoneDropped' PROVE TcpWhole'
            <4>1. Room = Len(chunk)
                BY <1>1, <3>1, <3>3, RoomType DEF NoneDropped
            <4>2. buf' = buf \o chunk
                BY <1>1, <3>1, <4>1, SubSeqFull
            <4>3. NoneDropped
                <5>1. short["rx"] = 0
                    BY <2>1 DEF TypeOK, Counter, Inv, Owing
                <5> QED BY <2>1, <2>3, <3>3, <5>1 DEF NoneDropped
            <4>4. Ends(chunk, read)
                BY <1>1 DEF Ends
            <4>5. /\ Len(buf) \in Nat /\ Len(tout) \in Nat
                  /\ Len(buf') = Len(buf) + Len(chunk)
                BY <1>1, <1>2, <4>2, ConcatElements
            <4>6. Ends(buf', read)
                <5>1. Ends(buf, read - Len(chunk))
                    BY <4>3 DEF Inv, TcpWhole, Base
                <5> QED BY <1>1, <1>2, <4>2, <4>4, <5>1, EndsConcat
            <4>7. read - Len(buf') = Base - Len(buf)
                BY <1>1, <4>5
            <4> QED BY <2>1, <2>2, <4>3, <4>6, <4>7 DEF Inv, TcpWhole, tcp
        <3> QED BY <2>1, <2>2, <2>4, <2>5, <2>6, <3>2, <3>3 DEF Inv, NoTcp, TcpWhole
    <2>7. CASE "tcp" \notin Enabled
        <3>1. /\ buf' = buf /\ got = <<>> /\ buf = <<>> /\ tout = <<>>
            BY <1>6, <2>7 DEF TcpPush, Inv, NoTcp, Holding
        <3>2. NoTcp'
            BY <2>1, <3>1 DEF Inv, NoTcp, tcp
        <3>3. TcpWhole'
            BY <2>1, <3>1, EmptyOrdered DEF TcpWhole, tcp
        <3>4. Stream(backlog \o got, tout, buf, read)
            <4>1. Base <= read
                BY <1>1
            <4> QED BY <1>1, <1>2, <4>1, StreamRaise DEF Inv, TcpInOrder
        <3>5. TcpInOrder'
            BY <2>1, <2>2, <3>1, <3>4 DEF TcpInOrder, tcp
        <3> QED BY <2>2, <2>4, <2>5, <3>2, <3>3, <3>5 DEF Inv
    <2> QED BY <2>6, <2>7
<1>7. CASE RxCount
    <2>1. UNCHANGED <<read, chunk, fit, at, ring, ble, tcp, buf, backlog, links>>
        BY <1>7 DEF RxCount
    <2>2. /\ rpc \in {"load", "store"} /\ rpc' \in {"store", "read"}
          /\ chunk = <<>> /\ short["rx"] > 0
        BY <1>7 DEF RxCount, Inv, Holding, Owing
    <2>3. short'["io"] = short["io"] /\ (rpc' = "store" <=> short'["rx"] > 0) /\ ~NoneDropped'
        <3>1. CASE rpc = "load"
            BY <1>7, <2>2, <3>1 DEF RxCount, Load, NoneDropped
        <3>2. CASE rpc = "store"
            <4>1. rpc' = "read" /\ Store("rx")
                BY <1>7, <3>2 DEF RxCount
            <4>2. short'["rx"] = 0 /\ short'["io"] = short["io"]
                BY <4>1 DEF TypeOK, Store, Counter
            <4>3. drops'["tcp"] = loaded["rx"] + short["rx"]
                BY <4>1 DEF TypeOK, Store, Output
            <4>4. loaded["rx"] \in Nat /\ short["rx"] \in Nat
                BY DEF TypeOK, Counter
            <4> QED BY <2>2, <4>1, <4>2, <4>3, <4>4 DEF NoneDropped
        <3> QED BY <2>2, <3>1, <3>2
    <2>4. Base' = Base /\ BleBase' = BleBase
        BY <2>1, <2>2 DEF Base, BleBase
    <2>5. BleSound' /\ bpc' = bpc /\ out' = out
        BY <1>4, <2>1, <2>2, <2>4
    <2>6. ChunkIsRead' /\ Holding' /\ Owing' /\ NoTcp'
        BY <2>1, <2>2, <2>3, <2>4, <2>5 DEF Inv, ChunkIsRead, Holding, Owing, NoTcp, tcp
    <2>7. TcpInOrder' /\ TcpWhole'
        BY <2>1, <2>3, <2>4 DEF Inv, TcpInOrder, TcpWhole, tcp
    <2> QED BY <2>5, <2>6, <2>7 DEF Inv
<1> QED BY <1>5, <1>6, <1>7, BlePushInv DEF UartRx

\* The phone, its callbacks and task_ble_tx move and drop bytes of the BLE
\* stream only, and never change their order; a reset that meets a send or a
\* receive is told.
LEMMA BleInv ==
    ASSUME TypeOK, Sizes, Inv, Phone \/ Callback \/ BleTx
    PROVE  Inv'
<1>1. UNCHANGED <<uart, tcp, buf, backlog, count>>
    BY DEF Phone, OnConnect, OnSubscribe, OnUnsubscribe, OnDisconnect, Peer, Callback,
           BleTx, TxGate, TxCount, TxWake, TxRecount, TxAim, TxCopy, TxCommit, Notify, Elsewhere
<1>2. /\ Base' = Base /\ BleBase' = BleBase
      /\ ChunkIsRead' /\ Owing' /\ NoTcp' /\ TcpInOrder' /\ TcpWhole'
    <2>1. Base' = Base /\ BleBase' = BleBase
        BY <1>1 DEF Base, BleBase, uart
    <2> QED BY <1>1, <2>1 DEF Inv, ChunkIsRead, Owing, NoTcp, TcpInOrder, TcpWhole,
                NoneDropped, uart, tcp, count
<1>3. (bpc' \notin {"commit", "notify"} => out' = <<>>) /\ BleSound' => Inv'
    BY <1>1, <1>2 DEF Inv, Holding, uart, tcp
<1>4. /\ phone \in Seq(Nat) /\ out \in Seq(Nat) /\ Held \in Seq(Nat) /\ Taken \in Seq(Nat)
      /\ BleBase \in Nat
      /\ Len(out) \in Nat /\ avail \in Nat /\ Count \in 0..Capacity["ble"]
      /\ bpc \notin {"commit", "notify"} => out = <<>>
      /\ ~torn => SendSound /\ TakeSound /\ Stream(phone, Taken, Held, BleBase)
    BY Parts, BleParts, Numbers, RingType DEF Inv, Holding, BleSound
<1>5. ASSUME UNCHANGED ring, SendSound
      PROVE  Count' = Count /\ Held' = Held /\ torn' = torn /\ SendSound'
    <2>1. UNCHANGED <<mem, head, tail, torn, fit, at, chunk, rpc>> /\ Count' = Count /\ Held' = Held
        BY <1>1, <1>5, RingSame DEF ring, uart
    <2> QED BY <1>5, <2>1 DEF SendSound, Wrap, Size
<1>6. ASSUME UNCHANGED <<ring, bpc, avail, from, out>>, phone' \in {phone, <<>>} PROVE Inv'
    <2>1. ASSUME ~torn PROVE SendSound' /\ TakeSound' /\ BleInOrder'
        <3>1. Count' = Count /\ Held' = Held /\ SendSound' /\ Taken' = Taken
            BY <1>4, <1>5, <1>6, <2>1 DEF Taken
        <3>2. TakeSound'
            BY <1>4, <1>6, <2>1, <3>1 DEF TakeSound, ring, Wrap, Size
        <3>3. BleInOrder'
            BY <1>2, <1>4, <1>6, <2>1, <3>1, StreamDrop DEF BleInOrder
        <3> QED BY <3>1, <3>2, <3>3
    <2>2. BleSound'
        BY <1>6, <2>1 DEF BleSound, ring
    <2> QED BY <1>3, <1>4, <1>6, <2>2
<1>7. CASE Phone
    BY <1>6, <1>7 DEF Phone, OnConnect, OnSubscribe, OnUnsubscribe, OnDisconnect, Peer
<1>8. CASE Callback
    <2>1. UNCHANGED <<bpc, avail, from, out, phone, rpc, fit>> /\ (Flush \/ UNCHANGED ring)
        BY <1>8, <1>1 DEF Callback, uart
    <2>2. CASE UNCHANGED ring
        BY <1>6, <2>1, <2>2
    <2>3. CASE ~UNCHANGED ring
        <3>1. /\ head' = 0 /\ tail' = 0 /\ Count' = 0 /\ Held' = <<>>
              /\ torn' = (Inside \/ (torn /\ (phone # <<>> \/ out # <<>>)))
            BY <2>1, <2>3, RingReset DEF Flush
        <3>2. ASSUME ~torn' PROVE SendSound' /\ TakeSound' /\ BleInOrder'
            <4>1. ~Inside /\ (~torn \/ (phone = <<>> /\ out = <<>>))
                BY <3>1, <3>2
            <4>2. /\ rpc \notin {"fill", "publish"}
                  /\ bpc \notin {"take", "copy", "commit"}
                BY <4>1 DEF Inside
            <4>3. SendSound'
                BY <2>1, <3>1, <4>2, FitType, RingType DEF SendSound
            <4>4. TakeSound'
                BY <2>1, <4>2 DEF TakeSound
            <4>5. Taken = out /\ Taken' = out
                BY <2>1, <4>2 DEF Taken
            <4>6. Stream(phone, out, <<>>, BleBase)
                <5>1. CASE ~torn
                    BY <1>4, <4>5, <5>1, StreamDrop
                <5>2. CASE phone = <<>> /\ out = <<>>
                    BY <5>2, EmptyOrdered DEF Stream
                <5> QED BY <4>1, <5>1, <5>2
            <4>7. BleInOrder'
                BY <1>2, <2>1, <3>1, <4>5, <4>6 DEF BleInOrder
            <4> QED BY <4>3, <4>4, <4>7
        <3>3. BleSound'
            BY <3>2 DEF BleSound
        <3> QED BY <1>3, <1>4, <2>1, <3>3
    <2> QED BY <2>2, <2>3
<1>9. CASE TxGate \/ TxCount \/ TxWake \/ TxRecount \/ TxAim
    <2>1. /\ UNCHANGED <<out, phone, ring>> /\ bpc \notin {"copy", "commit", "notify"}
          /\ bpc' \notin {"commit", "notify"}
        BY <1>9 DEF TxGate, TxCount, TxWake, TxRecount, TxAim
    <2>2. ASSUME ~torn PROVE SendSound' /\ TakeSound' /\ BleInOrder'
        <3>1. Count' = Count /\ Held' = Held /\ SendSound' /\ Taken = out /\ Taken' = out
            BY <1>4, <1>5, <2>1, <2>2 DEF Taken
        <3>2. /\ bpc' \in {"take", "copy"} => avail' <= Count
              /\ bpc' = "copy" => from' = tail
            BY <1>4, <1>9, <2>2 DEF TxGate, TxCount, TxWake, TxRecount, TxAim, TakeSound
        <3>3. TakeSound'
            BY <2>1, <3>1, <3>2 DEF TakeSound, ring
        <3>4. BleInOrder'
            BY <1>2, <1>4, <2>1, <2>2, <3>1 DEF BleInOrder
        <3> QED BY <3>1, <3>3, <3>4
    <2>3. BleSound'
        BY <2>1, <2>2 DEF BleSound, ring
    <2> QED BY <1>3, <1>4, <2>1, <2>3
<1>10. CASE TxCopy
    <2>1. /\ UNCHANGED <<avail, from, phone, ring>> /\ bpc = "copy" /\ bpc' = "commit"
          /\ out' = [i \in 1..Least(avail, NotifyChunk) |-> mem[Wrap(from + i - 1)]]
        BY <1>10 DEF TxCopy
    <2>2. ASSUME ~torn PROVE SendSound' /\ TakeSound' /\ BleInOrder'
        <3>1. /\ Count' = Count /\ Held' = Held /\ SendSound'
              /\ out = <<>> /\ Taken = <<>> /\ Taken' = <<>>
            BY <1>4, <1>5, <2>1, <2>2 DEF Taken
        <3>2. avail <= Count /\ from = tail
            BY <1>4, <2>1, <2>2 DEF TakeSound
        <3>3. \A i \in 1..Len(out') : out'[i] = mem[Wrap(tail + i - 1)]
            <4>1. Least(avail, NotifyChunk) \in Nat
                BY <1>4, ChunkAssumption DEF Least
            <4> DEFINE n == Least(avail, NotifyChunk)
            <4> HIDE DEF n
            <4>2. n \in Nat /\ out' = [i \in 1..n |-> mem[Wrap(tail + i - 1)]]
                BY <2>1, <3>2, <4>1 DEF n
            <4> QED BY <4>2
        <3>4. TakeSound'
            BY <2>1, <3>1, <3>2, <3>3 DEF TakeSound, ring, Wrap, Size
        <3>5. BleInOrder'
            BY <1>2, <1>4, <2>1, <2>2, <3>1 DEF BleInOrder
        <3> QED BY <3>1, <3>4, <3>5
    <2>3. BleSound'
        BY <2>1, <2>2 DEF BleSound, ring
    <2> QED BY <1>3, <2>1, <2>3
<1>11. CASE TxCommit
    <2>1. /\ UNCHANGED <<mem, head, torn, out, phone>> /\ bpc = "commit" /\ bpc' = "notify"
          /\ tail' = Wrap(from + Len(out))
        BY <1>11 DEF TxCommit
    <2>2. ASSUME ~torn PROVE SendSound' /\ TakeSound' /\ BleInOrder'
        <3>1. /\ avail <= Count /\ from = tail /\ Len(out) <= avail
              /\ \A i \in 1..Len(out) : out[i] = mem[Wrap(tail + i - 1)]
              /\ Taken = <<>> /\ Taken' = out /\ SendSound
            BY <1>4, <2>1, <2>2 DEF TakeSound, Taken, Sizes
        <3>2. Len(out) \in 0..Count
            BY <1>4, <3>1
        <3>3. Count' = Count - Len(out) /\ Held' = SubSeq(Held, Len(out) + 1, Len(Held))
            BY <2>1, <3>1, <3>2, RingTake
        <3>4. /\ Len(Held) = Count /\ Len(out) \in 0..Len(Held)
              /\ \A i \in 1..Count : Held[i] = mem[Wrap(tail + i - 1)]
            BY <3>2, HeldType
        <3>5. out = SubSeq(Held, 1, Len(out))
            <4> DEFINE x == SubSeq(Held, 1, Len(out))
            <4>1. x \in Seq(Nat) /\ Len(x) = Len(out)
                BY <1>4, <3>4, SplitJoin
            <4>2. \A i \in 1..Len(out) : x[i] = Held[i]
                <5>1. /\ \A i \in 1..Len(out) : Held[i] \in Nat
                      /\ Len(out) - 1 + 1 = Len(out)
                      /\ \A i \in 1..Len(out) : 1 + i - 1 = i
                    BY <1>4, <3>4, ElementOfSeq
                <5> QED BY <1>4, <5>1, SubSeqProperties
            <4> HIDE DEF x
            <4>3. \A i \in 1..Len(out) : i \in 1..Count
                BY <1>4, <3>2
            <4>4. \A i \in 1..Len(out) : out[i] = x[i]
                BY <3>1, <3>4, <4>2, <4>3
            <4>5. out = x
                BY <1>4, <4>1, <4>4, SeqEqual
            <4> QED BY <4>5 DEF x
        <3>6. SendSound'
            <4>1. /\ UNCHANGED <<rpc, fit, at, chunk>> /\ fit \in Nat /\ Capacity["ble"] \in Nat
                BY <1>1, FitType, RingType DEF uart
            <4>2. fit <= Capacity["ble"] - Count => fit <= Capacity["ble"] - Count'
                BY <1>4, <3>2, <3>3, <4>1
            <4> QED BY <2>1, <3>1, <4>1, <4>2 DEF SendSound, Wrap, Size
        <3>7. BleInOrder'
            <4>1. Stream(phone, <<>>, Held, BleBase)
                BY <1>4, <2>2, <3>1
            <4>2. Stream(phone, SubSeq(Held, 1, Len(out)),
                         SubSeq(Held, Len(out) + 1, Len(Held)), BleBase)
                BY <1>4, <3>4, <4>1, StreamTake
            <4> QED BY <1>2, <2>1, <3>1, <3>3, <3>5, <4>2 DEF BleInOrder
        <3> QED BY <2>1, <3>6, <3>7 DEF TakeSound
    <2>3. BleSound'
        BY <2>1, <2>2 DEF BleSound
    <2> QED BY <1>3, <2>1, <2>3
<1>12. CASE Notify
    <2>1. /\ bpc = "notify" /\ bpc' = "gate" /\ out' = <<>> /\ UNCHANGED ring
          /\ phone' = phone \/ phone' = phone \o out
        BY <1>12 DEF Notify
    <2>2. ASSUME ~torn PROVE SendSound' /\ TakeSound' /\ BleInOrder'
        <3>1. Count' = Count /\ Held' = Held /\ SendSound' /\ Taken = out /\ Taken' = <<>>
            BY <1>4, <1>5, <2>1, <2>2 DEF Taken
        <3>2. Stream(phone \o out, <<>>, Held, BleBase)
            <4>1. Len(out) \in 0..Len(out) /\ SubSeq(out, 1, Len(out)) = out
                BY <1>4, SubSeqFull
            <4> QED BY <1>4, <2>2, <3>1, <4>1, StreamDeliver
        <3>3. Stream(phone, <<>>, Held, BleBase)
            BY <1>4, <2>2, StreamDrop
        <3>4. BleInOrder'
            BY <1>2, <2>1, <3>1, <3>2, <3>3 DEF BleInOrder
        <3> QED BY <2>1, <3>1, <3>4 DEF TakeSound
    <2>3. BleSound'
        BY <2>1, <2>2 DEF BleSound, ring
    <2> QED BY <1>3, <2>1, <2>3
<1> QED BY <1>7, <1>8, <1>9, <1>10, <1>11, <1>12 DEF BleTx

\* A client that comes or goes and task_tcp_io move and drop bytes of the TCP
\* stream only; what is dropped while a client is served is owed to the counter.
LEMMA TcpInv ==
    ASSUME TypeOK, Sizes, Inv, Accept \/ TcpIo \/ ClientGone
    PROVE  Inv'
<1>1. UNCHANGED <<uart, ring, ble>> /\ short'["rx"] = short["rx"]
    <2>1. UNCHANGED <<uart, ring, ble>>
        BY DEF Accept, TcpIo, Serve, Pull, WriteTcp, IoCount, ClientGone
    <2>2. short' = short \/ \E x : short' = [short EXCEPT !["io"] = x]
        BY DEF Accept, TcpIo, Serve, Pull, WriteTcp, IoCount, ClientGone, count, Load, Store
    <2> QED BY <2>1, <2>2 DEF TypeOK, Counter
<1>2. /\ Base' = Base /\ ChunkIsRead' /\ BleSound'
      /\ rpc \in {"load", "store"} <=> short["rx"] > 0
      /\ (rpc \in {"load", "store"} <=> short["rx"] > 0)'
    <2>1. Base' = Base /\ BleBase' = BleBase
        BY <1>1 DEF Base, BleBase, uart
    <2>2. Count' = Count /\ Held' = Held /\ Taken' = Taken
        BY <1>1, RingSame DEF ring, ble, Taken
    <2>3. BleSound'
        BY <1>1, <2>1, <2>2 DEF Inv, BleSound, SendSound, TakeSound, BleInOrder, uart, ring, ble,
                                Wrap, Size
    <2> QED BY <1>1, <2>1, <2>3 DEF Inv, ChunkIsRead, Owing, uart
<1>3. /\ tpc' # "write" => tout' = <<>>
      /\ tpc' \in {"load", "store"} <=> short'["io"] > 0
      /\ NoTcp' /\ TcpInOrder' /\ TcpWhole'
      => Inv'
    BY <1>1, <1>2 DEF Inv, Holding, Owing, uart, ble
<1>4. /\ got \in Seq(Nat) /\ tout \in Seq(Nat) /\ buf \in Seq(Nat)
      /\ backlog \in Seq(Nat) /\ backlog \o got \in Seq(Nat)
      /\ Base \in Nat /\ Stream(backlog \o got, tout, buf, Base)
      /\ Len(tout) \in Nat /\ Len(buf) \in Nat
    BY Parts DEF Inv, ChunkIsRead, Base, TcpInOrder
<1>5. short["rx"] \in Nat /\ short["io"] \in Nat /\ drops["tcp"] \in Nat /\ loaded["io"] \in Nat
    BY Numbers DEF Counter
<1>6. <<>> \in Seq(Nat) /\ Len(<<>>) = 0
    BY EmptySeq
<1>7. CASE Accept
    <2>1. /\ tpc = "accept" /\ tpc' = "pull" /\ got' = <<>> /\ backlog' = buf
          /\ tout' = tout /\ tout = <<>> /\ "tcp" \in Enabled /\ short' = short
        BY <1>7 DEF Accept, Inv, Holding, count
    <2>2. buf' = <<>>
        BY <1>7 DEF Accept
    <2>3. Stream(buf, <<>>, <<>>, Base)
        BY <1>4, EmptyOrdered DEF Stream
    <2>4. TcpInOrder'
        BY <1>2, <1>4, <2>1, <2>2, <2>3, ConcatEmptySeq DEF TcpInOrder
    <2>5. TcpWhole'
        BY <2>1, <2>2, EmptyOrdered DEF TcpWhole
    <2> QED BY <1>3, <2>1, <2>4, <2>5 DEF NoTcp, Inv, Owing
<1>8. CASE Serve
    <2>1. UNCHANGED <<client, tout, got, buf, backlog, count>> /\ tpc = "accept" /\ tpc' = "pull" /\ client
        BY <1>8 DEF Serve
    <2> QED BY <1>2, <1>3, <2>1
            DEF Inv, Holding, Owing, NoTcp, TcpInOrder, TcpWhole, NoneDropped, count
<1>9. CASE Pull
    <2> DEFINE k == Least(Len(buf), UartChunk)
               x == SubSeq(buf, 1, k)
               y == SubSeq(buf, k + 1, Len(buf))
    <2>1. k \in 0..Len(buf)
        BY <1>4, ChunkAssumption DEF Least
    <2>2. /\ tpc = "pull" /\ tout = <<>> /\ tout' = x
          /\ tpc' = IF buf = <<>> THEN "accept" ELSE "write"
          /\ buf' = y /\ UNCHANGED <<client, got, backlog, count>>
        BY <1>9 DEF Pull, Inv, Holding
    <2>3. buf' = y
        BY <2>2
    <2>4. x \in Seq(Nat) /\ y \in Seq(Nat) /\ x \o y = buf
        BY <1>4, <2>1, SplitJoin
    <2>5. tpc' # "write" => tout' = <<>>
        <3> SUFFICES ASSUME buf = <<>> PROVE x = <<>>
            BY <2>2
        <3>1. k = 0
            BY <1>6, <2>1
        <3> QED BY <3>1, SubSeqEmpty
    <2>6. TcpInOrder'
        <3>1. Stream(backlog \o got, <<>>, buf, Base)
            BY <1>4, <2>2
        <3>2. Stream(backlog \o got, x, y, Base)
            BY <1>4, <2>1, <3>1, StreamTake
        <3> QED BY <1>2, <2>2, <2>3, <3>2 DEF TcpInOrder
    <2> HIDE DEF x, y
    <2>7. TcpWhole'
        <3> SUFFICES ASSUME NoneDropped
                     PROVE  /\ Ends(y, Base) /\ Ends(x, Base - Len(y))
                            /\ Ends(got, Base - Len(y) - Len(x))
            BY <1>2, <2>2, <2>3 DEF TcpWhole, NoneDropped, count
        <3>1. Ends(buf, Base) /\ Ends(got, Base - Len(buf) - Len(tout))
            BY DEF Inv, TcpWhole
        <3>2. Ends(y, Base) /\ Ends(x, Base - Len(y))
            <4>1. Ends(x \o y, Base) /\ Base \in Int
                BY <1>4, <2>4, <3>1
            <4> QED BY <2>4, <4>1, EndsConcat
        <3>3. Base - Len(buf) - Len(tout) = Base - Len(y) - Len(x)
            <4>1. Len(x) \in Nat /\ Len(y) \in Nat /\ Len(buf) = Len(x) + Len(y)
                BY <2>4, ConcatElements
            <4>2. Len(tout) = 0
                BY <1>6, <2>2
            <4> QED BY <1>4, <4>1, <4>2
        <3> QED BY <3>1, <3>2, <3>3
    <2>8. NoTcp'
        BY <2>2 DEF Inv, NoTcp
    <2>9. tpc' \in {"load", "store"} <=> short'["io"] > 0
        BY <2>2 DEF Inv, Owing, count
    <2> QED BY <1>3, <2>5, <2>6, <2>7, <2>8, <2>9
<1>10. CASE WriteTcp
    <2>1. PICK w \in IF client THEN 0..Len(tout) ELSE {0} :
                /\ got' = got \o SubSeq(tout, 1, w)
                /\ short' = [short EXCEPT !["io"] = Len(tout) - w]
        BY <1>10 DEF WriteTcp
    <2>2. w \in 0..Len(tout)
        BY <1>4, <2>1
    <2>3. /\ tpc = "write" /\ tpc' = (IF short'["io"] > 0 THEN "load" ELSE "accept")
          /\ tout' = <<>> /\ UNCHANGED <<client, buf, backlog, drops>>
        BY <1>10 DEF WriteTcp
    <2>4. short'["io"] = Len(tout) - w
        BY <2>1 DEF TypeOK, Counter
    <2>5. TcpInOrder'
        <3> DEFINE x == SubSeq(tout, 1, w)
        <3>1. x \in Seq(Nat)
            BY <1>4, <2>2, SplitJoin
        <3>2. Stream((backlog \o got) \o x, <<>>, buf, Base)
            BY <1>4, <2>2, StreamDeliver
        <3> HIDE DEF x
        <3>3. (backlog \o got) \o x = backlog \o (got \o x)
            <4>1. backlog \in Seq(Nat) /\ got \in Seq(Nat)
                BY <1>4
            <4> QED BY <3>1, <4>1, Assoc, Zenon
        <3> QED BY <1>2, <2>1, <2>3, <3>2, <3>3 DEF TcpInOrder, x
    <2>6. ASSUME NoneDropped' PROVE TcpWhole'
        <3>1. w = Len(tout)
            BY <1>4, <2>2, <2>4, <2>6 DEF NoneDropped
        <3>2. got' = got \o tout
            BY <1>4, <2>1, <3>1, SubSeqFull
        <3>3. NoneDropped
            BY <1>1, <1>5, <2>3, <2>6 DEF NoneDropped, Inv, Owing
        <3>4. Ends(got \o tout, Base - Len(buf))
            <4>1. Base - Len(buf) \in Int
                BY <1>4
            <4> QED BY <1>4, <3>3, <4>1, EndsConcat DEF Inv, TcpWhole
        <3>5. Base - Len(buf) - Len(tout') = Base - Len(buf)
            BY <1>4, <1>6, <2>3
        <3> QED BY <1>2, <2>3, <3>2, <3>3, <3>4, <3>5, EmptyOrdered DEF Inv, TcpWhole
    <2>7. NoTcp'
        BY <2>3 DEF Inv, NoTcp
    <2> QED BY <1>3, <2>3, <2>5, <2>6, <2>7 DEF TcpWhole
<1>11. CASE IoCount
    <2>1. UNCHANGED <<client, tout, got, buf, backlog>>
          /\ tpc \in {"load", "store"} /\ tpc' \in {"store", "accept"}
        BY <1>11 DEF IoCount
    <2>2. tout = <<>> /\ short["io"] > 0
        BY <2>1 DEF Inv, Holding, Owing
    <2>3. (tpc' = "store" <=> short'["io"] > 0) /\ ~NoneDropped'
        <3>1. CASE tpc = "load"
            BY <1>5, <1>11, <2>2, <3>1 DEF IoCount, Load, NoneDropped
        <3>2. CASE tpc = "store"
            <4>1. tpc' = "accept" /\ Store("io")
                BY <1>11, <3>2 DEF IoCount
            <4>2. short'["io"] = 0
                BY <4>1 DEF TypeOK, Store, Counter
            <4>3. drops'["tcp"] = loaded["io"] + short["io"]
                BY <4>1 DEF TypeOK, Store, Output
            <4> QED BY <1>5, <2>2, <4>1, <4>2, <4>3 DEF NoneDropped
        <3> QED BY <2>1, <3>1, <3>2
    <2>4. NoTcp'
        BY <2>1 DEF Inv, NoTcp
    <2> QED BY <1>2, <1>3, <2>1, <2>2, <2>3, <2>4 DEF Inv, TcpInOrder, TcpWhole
<1>12. CASE ClientGone
    <2>1. UNCHANGED <<tpc, tout, got, buf, backlog, count>> /\ client /\ client' = FALSE
        BY <1>12 DEF ClientGone
    <2> QED BY <1>2, <1>3, <2>1
            DEF Inv, Holding, Owing, NoTcp, TcpInOrder, TcpWhole, NoneDropped, count
<1> QED BY <1>7, <1>8, <1>9, <1>10, <1>11, <1>12 DEF TcpIo

\* Every step keeps the invariant.
LEMMA NextIInv == IInv /\ [Next]_vars => IInv'
<1>1. ASSUME TypeOK, Inv, UNCHANGED vars PROVE Inv'
    <2>1. UNCHANGED <<uart, ring, ble, tcp, buf, backlog, count>>
        BY <1>1 DEF vars
    <2>2. Base' = Base /\ BleBase' = BleBase
        BY <2>1 DEF Base, BleBase, uart
    <2>3. Count' = Count /\ Held' = Held /\ Taken' = Taken
        BY <2>1, RingSame DEF ring, ble, Taken
    <2>4. BleSound'
        BY <1>1, <2>1, <2>2, <2>3 DEF Inv, BleSound, SendSound, TakeSound, BleInOrder, uart,
                                      ring, ble, Wrap, Size
    <2> QED BY <1>1, <2>1, <2>2, <2>4 DEF Inv, ChunkIsRead, Holding, Owing, NoTcp, TcpInOrder,
                                          TcpWhole, NoneDropped, uart, ble, tcp, count
<1>2. TypeOK /\ Sizes /\ Inv /\ [Next]_vars => Inv'
    BY <1>1, UartInv, BleInv, TcpInv DEF Next, RxIdle
<1> QED BY <1>2, NextType DEF IInv

\* The invariant holds in every reachable state.
LEMMA SpecIInv == Spec => []IInv
<1>1. Init => IInv
    BY InitType, InitInv DEF IInv
<1> QED BY <1>1, NextIInv, PTL DEF Spec

--------------------------------------------------------------------------------
(* The theorems.                                                           *)

\* Whatever connects, subscribes and disconnects, whichever callback runs
\* between two steps of a send or of a receive: what a phone and a client got,
\* and what is under way to them, is in the order of the GNSS stream, nothing
\* twice; for the phone, as long as no reset met the copying of a send or of a
\* receive, and again once a reset found the path empty.
THEOREM StreamsInOrder == Spec => []StreamOrder
<1>1. ASSUME IInv PROVE StreamOrder
    <2>1. /\ phone \in Seq(Nat) /\ Taken \in Seq(Nat) /\ Held \in Seq(Nat)
          /\ got \in Seq(Nat) /\ tout \in Seq(Nat) /\ buf \in Seq(Nat)
          /\ backlog \in Seq(Nat)
        BY <1>1, Parts, BleParts DEF IInv
    <2>2. ASSUME ~torn PROVE Increasing(phone \o Underway)
        <3>1. Stream(phone, Taken, Held, BleBase)
            BY <1>1, <2>2 DEF IInv, Inv, BleSound, BleInOrder
        <3>2. Increasing((phone \o Taken) \o Held)
            BY <2>1, <3>1, StreamIncreasing
        <3>3. (phone \o Taken) \o Held = phone \o (Taken \o Held)
            <4>1. phone \in Seq(Nat) /\ Taken \in Seq(Nat) /\ Held \in Seq(Nat)
                BY <2>1
            <4> QED BY <4>1, Assoc, Zenon
        <3>4. Taken \o Held = Underway
            BY <2>1, ConcatEmptySeq DEF Taken, Underway
        <3> QED BY <3>2, <3>3, <3>4
    <2>3. Stream(backlog \o got, tout, buf, Base)
        BY <1>1 DEF IInv, Inv, TcpInOrder
    <2>4. Stream(got, tout, buf, Base)
        BY <2>1, <2>3, OrderedConcat, BeforeConcat, BelowConcat DEF Stream
    <2>5. Increasing((got \o tout) \o buf)
        BY <2>1, <2>4, StreamIncreasing
    <2> QED BY <2>2, <2>5 DEF StreamOrder
<1> QED BY <1>1, SpecIInv, PTL

\* task_tcp_io's reset makes a client start live, and uart2tcpDrops at zero
\* means that the client's stream has no gap: no lost count of += hides one.
THEOREM TcpStreamLiveAndWhole == Spec => []TcpLiveUnbroken
<1>1. ASSUME IInv PROVE TcpStartsLive
    <2>1. backlog \in Seq(Nat) /\ got \in Seq(Nat)
        BY <1>1, Parts DEF IInv
    <2>2. Before(backlog, got)
        BY <1>1, <2>1, OrderedConcat DEF IInv, Inv, TcpInOrder, Stream
    <2>3. \A i \in 1..Len(got), j \in 1..Len(backlog) :
            got[i] \in Nat /\ backlog[j] \in Nat /\ backlog[j] < got[i]
        BY <2>1, <2>2, ElementOfSeq DEF Before
    <2>4. \A i \in 1..Len(got), j \in 1..Len(backlog) : backlog[j] # got[i]
        BY <2>3
    <2> QED BY <2>4 DEF TcpStartsLive, Disjoint, In
<1>2. ASSUME IInv PROVE TcpIntactWhenNoDrops
    <2> SUFFICES ASSUME drops["tcp"] + short["rx"] + short["io"] = 0,
                        NEW i \in 1..Len(got)
                 PROVE  got[i] = got[1] + i - 1
        BY DEF TcpIntactWhenNoDrops
    <2>1. drops["tcp"] \in Nat /\ short["rx"] \in Nat /\ short["io"] \in Nat
        BY <1>2, Numbers DEF IInv, Counter
    <2>2. NoneDropped
        BY <2>1 DEF NoneDropped
    <2>3. PICK m \in Int : Ends(got, m)
        <3>1. /\ read \in Nat /\ Len(chunk) \in Nat
              /\ Len(buf) \in Nat /\ Len(tout) \in Nat
            BY <1>2, Parts DEF IInv
        <3>2. Base - Len(buf) - Len(tout) \in Int
            BY <3>1 DEF Base
        <3> QED BY <1>2, <2>2, <3>2 DEF IInv, Inv, TcpWhole
    <2>4. Len(got) \in Nat
        BY <1>2, Parts DEF IInv
    <2>5. got[i] = m - Len(got) + i /\ got[1] = m - Len(got) + 1
        BY <2>3, <2>4 DEF Ends
    <2> QED BY <2>3, <2>4, <2>5
<1> QED BY <1>1, <1>2, SpecIInv, PTL DEF TcpLiveUnbroken

================================================================================
