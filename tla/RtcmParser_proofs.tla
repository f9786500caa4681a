---------------------------- MODULE RtcmParser_proofs ----------------------------
(***************************************************************************)
(* Proofs about RtcmParser for every set of frames, every source on the    *)
(* wire and all noise.  While the CRC is that of the beginning of a frame, *)
(* it and crcBuf hold just what has been read, and what length and         *)
(* payloadBuf hold comes from it.                                          *)
(***************************************************************************)
EXTENDS RtcmParser, SequenceTheorems, TLAPS

PayloadTaken == IF length > 0 THEN length ELSE 1

\* What has been read of a candidate whose CRC is not garbled.
Fed == crc \o crcBuf

\* TypeOK of the parser's own variables.
ParserTypes ==
    /\ state \in {"SYNC", "LEN1", "LEN2", "PAYLOAD", "CRC"}
    /\ length \in 0..4 * Bytes - 1
    /\ index \in 0..4 * Bytes - 2
    /\ state = "PAYLOAD" => index < Max({1, length})
    /\ state = "CRC" => index < 3 /\ Len(crcBuf) = index
    /\ state # "CRC" => crcBuf = <<>>
    /\ payloadBuf \in [1..2 -> Byte]

Shape ==
    /\ crc \in Seq(Int) /\ crcBuf \in Seq(Byte) /\ read \in Seq(Int)
    /\ state = "LEN2" => length <= 3 * Bytes

\* What the CRC covers, by state, and what was taken from it.
Announced == length = (crc[2] % 4) * Bytes + crc[3]

Candidate ==
    crc # Garbled =>
        /\ state = "SYNC" => crc = <<>>
        /\ state = "LEN1" => Len(crc) = 1
        /\ state = "LEN2" => Len(crc) = 2 /\ length = (crc[2] % 4) * Bytes
        /\ state = "PAYLOAD" => /\ Len(crc) = 3 + index /\ Announced
                                /\ \A i \in 1..2 : i <= index => payloadBuf[i] = crc[3 + i]
        /\ state = "CRC" => /\ Len(crc) = 3 + PayloadTaken /\ Announced
                            /\ \A i \in 1..2 : i <= length => payloadBuf[i] = crc[3 + i]

\* read is what was fed, as long as that is a frame or the beginning of one.
ReadIsFed ==
    /\ state # "SYNC" /\ crc # Garbled
    /\ \E f \in Frames : IsPrefix(Fed, Append(f, 0))
    => read = Fed

ParserInv == ParserTypes /\ Shape /\ Candidate /\ ReadIsFed

StreamTypes ==
    /\ rest \in [Sources -> Seq(Byte)]
    /\ foreign \in 0..MaxForeign /\ noise \in 0..MaxNoise /\ cuts \in 0..MaxCuts

\* The parser is k bytes into f.
Into(f, k) ==
    /\ state # "SYNC" /\ crc # Garbled
    /\ Len(crc) + Len(crcBuf) = k /\ k <= Len(f)
    /\ \A i \in 1..k : Fed[i] = f[i]

Uncut ==
    intact # 0 =>
        /\ intact \in Sources
        /\ \E f \in Frames : \E k \in 1..Len(f) :
              /\ rest[intact] = SubSeq(f, k + 1, Len(f))
              /\ k < Len(f) => Into(f, k)

IInv == ParserInv /\ StreamTypes /\ ValidIsAFrame /\ Uncut

--------------------------------------------------------------------------------
(* Bytes, frames and their beginnings.                                     *)

\* The numbers a byte is made of, from the assumption on the frames.
LEMMA BytesType ==
    /\ Bytes \in Nat /\ Bytes >= 4 /\ Nibble \in Nat /\ Nibble >= 2
    /\ Byte = 0..Bytes - 1 /\ Byte \subseteq Int /\ 0 \in Byte /\ Preamble \in Byte
<1>1. Nibble \in Nat /\ Nibble >= 2 /\ Preamble \in Byte
    BY FramesAssumption
<1>2. Bytes \in Nat /\ Bytes >= 4
    BY <1>1 DEF Bytes
<1> QED BY <1>1, <1>2 DEF Byte

\* A sequence of bytes is a sequence of numbers.
LEMMA ByteSeqs == \A q \in Seq(Byte) : q \in Seq(Int)
BY BytesType, SeqMonotonic

\* Joining sequences of numbers is associative.
LEMMA Assoc == \A p, q, r \in Seq(Int) : (p \o q) \o r = p \o (q \o r)
BY SMTT(30)

\* What every frame is.
LEMMA FrameType ==
    ASSUME NEW f \in Frames
    PROVE  /\ f \in Seq(Byte) /\ f \in Seq(Int) /\ Len(f) \in Nat /\ Len(f) >= 6
           /\ f[1] = Preamble /\ Len(f) = PayloadLength(f) + 6
           /\ PayloadLength(f) \in Nat
           /\ \A i \in 1..Len(f) : f[i] \in Byte
<1>1. f \in Seq(Byte) /\ Len(f) >= 6 /\ f[1] = Preamble /\ Len(f) = PayloadLength(f) + 6
    BY FramesAssumption
<1>2. f \in Seq(Int) /\ Len(f) \in Nat /\ \A i \in 1..Len(f) : f[i] \in Byte
    BY <1>1, ByteSeqs
<1>3. PayloadLength(f) \in Int
    <2>1. f[2] \in Int /\ f[3] \in Int
        BY <1>1, <1>2, BytesType
    <2>2. f[2] % 4 \in Int
        BY <2>1
    <2> QED BY <2>1, <2>2, BytesType DEF PayloadLength
<1> QED BY <1>1, <1>2, <1>3

\* Being a prefix, element by element.
LEMMA PrefixIs ==
    ASSUME NEW s \in Seq(Int), NEW t \in Seq(Int)
    PROVE  IsPrefix(s, t) <=> Len(s) <= Len(t) /\ \A i \in 1..Len(s) : s[i] = t[i]
<1>1. SubSeq(s, 1, Len(s)) = s
    BY SubSeqFull
<1>2. CASE ~(Len(s) <= Len(t))
    BY <1>2 DEF IsPrefix
<1>3. CASE Len(s) <= Len(t)
    <2>1. Len(s) \in Nat /\ Len(t) \in Nat
        OBVIOUS
    <2>2. /\ SubSeq(t, 1, Len(s)) \in Seq(Int) /\ Len(SubSeq(t, 1, Len(s))) = Len(s)
          /\ \A i \in 1..Len(s) : SubSeq(t, 1, Len(s))[i] = t[i]
        BY <1>3, <2>1
    <2>3. (\A i \in 1..Len(s) : s[i] = t[i]) => s = SubSeq(t, 1, Len(s))
        BY <2>2, SeqEqual
    <2> QED BY <1>1, <1>3, <2>2, <2>3 DEF IsPrefix
<1> QED BY <1>2, <1>3

\* A sequence one element longer.
LEMMA AppendIs ==
    ASSUME NEW s \in Seq(Int), NEW b \in Int
    PROVE  /\ Append(s, b) \in Seq(Int) /\ Len(s) \in Nat /\ Len(Append(s, b)) = Len(s) + 1
           /\ \A i \in 1..Len(s) : Append(s, b)[i] = s[i]
           /\ Append(s, b)[Len(s) + 1] = b
OBVIOUS

\* The beginning of a frame is one of the frame with a zero after it.
LEMMA ZeroAfter ==
    ASSUME NEW s \in Seq(Int), NEW t \in Seq(Int), IsPrefix(s, t)
    PROVE  IsPrefix(s, Append(t, 0))
<1>1. /\ Append(t, 0) \in Seq(Int) /\ Len(Append(t, 0)) = Len(t) + 1
      /\ \A i \in 1..Len(t) : Append(t, 0)[i] = t[i]
    BY AppendIs
<1>2. Len(s) \in Nat /\ Len(t) \in Nat
    OBVIOUS
<1>3. Len(s) <= Len(t) /\ \A i \in 1..Len(s) : s[i] = t[i]
    BY PrefixIs
<1>4. IsPrefix(s, Append(t, 0)) <=>
        Len(s) <= Len(t) + 1 /\ \A i \in 1..Len(s) : s[i] = Append(t, 0)[i]
    BY <1>1, PrefixIs
<1> QED BY <1>1, <1>2, <1>3, <1>4

\* The beginning of a beginning is one.
LEMMA Shorter ==
    ASSUME NEW s \in Seq(Int), NEW t \in Seq(Int), NEW b \in Int, IsPrefix(Append(s, b), t)
    PROVE  IsPrefix(s, t)
<1>1. /\ Append(s, b) \in Seq(Int) /\ Len(Append(s, b)) = Len(s) + 1 /\ Len(s) \in Nat
      /\ \A i \in 1..Len(s) : Append(s, b)[i] = s[i]
    BY AppendIs
<1>2. Len(s) + 1 <= Len(t) /\ \A i \in 1..Len(s) + 1 : Append(s, b)[i] = t[i]
    BY <1>1, PrefixIs
<1>3. \A i \in 1..Len(s) : i \in 1..Len(s) + 1
    BY <1>1
<1>4. Len(s) <= Len(t) /\ \A i \in 1..Len(s) : s[i] = t[i]
    BY <1>1, <1>2, <1>3
<1> QED BY <1>4, PrefixIs

\* No frame begins with what is garbled.
LEMMA GarbledIsNone ==
    ASSUME NEW c \in Seq(Int), NEW f \in Frames, Len(c) > 0, IsPrefix(c, f)
    PROVE  c # Garbled /\ c[1] = Preamble
<1>1. c[1] = f[1]
    BY PrefixIs, FrameType
<1>2. c[1] = Preamble /\ Preamble # -1
    BY <1>1, FrameType, BytesType
<1> QED BY <1>2 DEF Garbled

\* The CRC goes on only along a frame, and never gets well again.
LEMMA CrcGoesOn ==
    ASSUME NEW c \in Seq(Int), NEW b \in Byte
    PROVE  /\ crc24q(c, b) \in Seq(Int)
           /\ crc24q(c, b) # Garbled => /\ crc24q(c, b) = Append(c, b) /\ c # Garbled
                                        /\ \E f \in Frames : IsPrefix(Append(c, b), f)
           /\ \A f \in Frames : IsPrefix(Append(c, b), f) =>
                    crc24q(c, b) = Append(c, b) /\ crc24q(c, b) # Garbled
<1>1. Garbled \in Seq(Int) /\ Garbled[1] = -1 /\ Len(Garbled) = 1
    BY DEF Garbled
<1>2. b \in Int /\ Append(c, b) \in Seq(Int) /\ Len(Append(c, b)) > 0
    BY BytesType, AppendIs
<1>3. \A f \in Frames : IsPrefix(Append(c, b), f) => Append(c, b) # Garbled
    BY <1>2, GarbledIsNone
<1>4. (\E f \in Frames : IsPrefix(Append(c, b), f)) => c # Garbled
    <2> SUFFICES ASSUME NEW f \in Frames, IsPrefix(Append(c, b), f), c = Garbled PROVE FALSE
        OBVIOUS
    <2>1. f \in Seq(Int)
        BY FrameType
    <2>2. IsPrefix(c, f)
        BY <1>2, <2>1, Shorter
    <2>3. Len(c) > 0
        BY <1>1
    <2> QED BY <2>2, <2>3, GarbledIsNone
<1> QED BY <1>1, <1>2, <1>3, <1>4 DEF crc24q

--------------------------------------------------------------------------------
(* Types.                                                                  *)

\* An empty payload takes a byte, too.
LEMMA PayloadTakenIs ==
    ASSUME ParserTypes
    PROVE  /\ Max({1, length}) = PayloadTaken
           /\ PayloadTaken \in 1..4 * Bytes - 1
           /\ length \in Nat /\ index \in Nat
<1>1. length \in Nat /\ index \in Nat /\ 4 * Bytes \in Int /\ length < 4 * Bytes /\ 4 * Bytes > 1
    BY BytesType DEF ParserTypes
<1>2. Max({1, length}) = PayloadTaken
    BY <1>1 DEF Max, PayloadTaken
<1>3. PayloadTaken \in 1..4 * Bytes - 1
    BY <1>1 DEF PayloadTaken
<1> QED BY <1>1, <1>2, <1>3

\* What a payload byte does to payloadBuf.
LEMMA PayloadKept ==
    ASSUME ParserTypes, NEW b \in Byte, Payload(b)
    PROVE  /\ payloadBuf' \in [1..2 -> Byte]
           /\ \A i \in 1..2 : i # index + 1 => payloadBuf'[i] = payloadBuf[i]
           /\ \A i \in 1..2 : i = index + 1 => payloadBuf'[i] = Kept(b)
<1>1. index \in Nat /\ payloadBuf \in [1..2 -> Byte] /\ Kept(b) \in Byte
    BY PayloadTakenIs, BytesType DEF ParserTypes, Kept
<1>2. payloadBuf' = IF index < 2 THEN [payloadBuf EXCEPT ![index + 1] = Kept(b)] ELSE payloadBuf
    BY DEF Payload
<1>3. CASE index < 2
    <2>1. index + 1 \in 1..2
        BY <1>1, <1>3
    <2> QED BY <1>1, <1>2, <1>3, <2>1
<1>4. CASE ~(index < 2)
    BY <1>1, <1>2, <1>4
<1> QED BY <1>3, <1>4

\* feed() stays within the buffers and the length field.
LEMMA FeedTypes ==
    ASSUME ParserTypes, Shape, NEW b \in Byte, feed(b)
    PROVE  ParserTypes' /\ Shape'
<1>0. /\ Bytes \in Nat /\ Bytes >= 4 /\ b \in Int /\ b >= 0 /\ b < Bytes
      /\ 4 * Bytes \in Int /\ 3 * Bytes \in Int /\ 3 * Bytes + Bytes = 4 * Bytes
    BY BytesType
<1>1. read' \in Seq(Int)
    <2>1. <<b>> \in Seq(Int) /\ Append(read, b) \in Seq(Int) /\ Garbled \in Seq(Int)
        BY <1>0 DEF Shape, Garbled
    <2> QED BY <2>1 DEF feed
<1>2. crc24q(crc, b) \in Seq(Int) /\ crc24q(<<>>, b) \in Seq(Int)
    <2>1. crc \in Seq(Int) /\ <<>> \in Seq(Int)
        BY DEF Shape
    <2>2. crc24q(crc, b) \in Seq(Int)
        BY <2>1, CrcGoesOn
    <2>3. crc24q(<<>>, b) \in Seq(Int)
        BY <2>1, CrcGoesOn
    <2> QED BY <2>2, <2>3
<1>3. <<>> \in Seq(Byte) /\ <<>> \in Seq(Int) /\ Len(<<>>) = 0
    OBVIOUS
<1>4. CASE Sync(b)
    BY <1>1, <1>2, <1>4 DEF Sync, ParserTypes, Shape
<1>5. CASE Len1(b)
    <2>1. (b % 4) * Bytes \in 0..3 * Bytes
        <3>1. b % 4 \in 0..3
            BY <1>0
        <3>2. b % 4 \in {0, 1, 2, 3}
            BY <3>1
        <3> QED BY <1>0, <3>2
    <2>2. length' \in 0..4 * Bytes - 1 /\ length' <= 3 * Bytes
        BY <1>0, <1>5, <2>1 DEF Len1
    <2> QED BY <1>1, <1>2, <1>5, <2>2 DEF Len1, ParserTypes, Shape
<1>6. CASE Len2(b)
    <2>1. length' \in 0..4 * Bytes - 1
        BY <1>0, <1>6 DEF Len2, ParserTypes, Shape
    <2>2. 0 < Max({1, length})'
        <3>1. length' \in Nat
            BY <1>0, <2>1
        <3> QED BY <3>1 DEF Max
    <2>3. index' = 0 /\ 0 \in 0..4 * Bytes - 2
        BY <1>0, <1>6 DEF Len2
    <2> QED BY <1>1, <1>2, <1>6, <2>1, <2>2, <2>3 DEF Len2, ParserTypes, Shape
<1>7. CASE Payload(b)
    <2>1. payloadBuf' \in [1..2 -> Byte]
        BY <1>7, PayloadKept
    <2>2. /\ state = "PAYLOAD" /\ crc' = crc24q(crc, b) /\ length' = length
          /\ crcBuf' = <<>> /\ crcBuf = <<>>
          /\ IF index + 1 >= length THEN state' = "CRC" /\ index' = 0
             ELSE index' = index + 1 /\ state' = state
        BY <1>7 DEF Payload, ParserTypes
    <2>3. length \in 0..4 * Bytes - 1 /\ index \in 0..4 * Bytes - 2
        BY DEF ParserTypes
    <2>4. CASE index + 1 >= length
        <3>1. index' \in 0..4 * Bytes - 2 /\ index' < 3
            BY <1>0, <2>2, <2>4
        <3> QED BY <1>1, <1>2, <1>3, <2>1, <2>2, <2>3, <2>4, <3>1 DEF ParserTypes, Shape
    <2>5. CASE ~(index + 1 >= length)
        <3>1. index' \in 0..4 * Bytes - 2 /\ index' < length' /\ length' > 0
            BY <1>0, <2>2, <2>3, <2>5
        <3>2. index' < Max({1, length})'
            <4>1. length' \in Nat
                BY <1>0, <2>2, <2>3
            <4> QED BY <3>1, <4>1 DEF Max
        <3> QED BY <1>1, <1>2, <1>3, <2>1, <2>2, <2>3, <2>5, <3>1, <3>2 DEF ParserTypes, Shape
    <2> QED BY <2>4, <2>5
<1>8. CASE CrcMore(b)
    <2>1. Kept(b) \in Byte
        BY BytesType DEF Kept
    <2>2. /\ crcBuf' \in Seq(Byte) /\ Len(crcBuf') = index + 1
          /\ index' = index + 1 /\ index' < 3 /\ index' \in 0..4 * Bytes - 2
        BY <1>0, <1>8, <2>1 DEF CrcMore, ParserTypes, Shape
    <2> QED BY <1>1, <1>8, <2>2 DEF CrcMore, ParserTypes, Shape
<1>9. CASE CrcLast(b)
    BY <1>0, <1>1, <1>3, <1>9 DEF CrcLast, reset, ParserTypes, Shape
<1> QED BY <1>4, <1>5, <1>6, <1>7, <1>8, <1>9 DEF feed

--------------------------------------------------------------------------------
(* The candidate.                                                          *)

\* The elements of Fed are those of crc, then those of crcBuf.
LEMMA FedType ==
    ASSUME Shape
    PROVE  /\ Fed \in Seq(Int) /\ Len(Fed) = Len(crc) + Len(crcBuf)
           /\ Len(crc) \in Nat /\ Len(crcBuf) \in Nat /\ Len(Fed) \in Nat
           /\ \A i \in 1..Len(crc) : Fed[i] = crc[i]
           /\ \A i \in 1..Len(crcBuf) : Fed[Len(crc) + i] = crcBuf[i]
           /\ crcBuf = <<>> => Fed = crc
<1>1. crc \in Seq(Int) /\ crcBuf \in Seq(Int)
    BY ByteSeqs DEF Shape
<1>2. crcBuf = <<>> => Fed = crc
    BY <1>1, ConcatEmptySeq DEF Fed
<1> QED BY <1>1, <1>2 DEF Fed

\* A byte that goes into the CRC, and what was there before.
LEMMA CrcTakes ==
    ASSUME Shape, NEW b \in Byte, crc' = crc24q(crc, b), crc' # Garbled
    PROVE  /\ crc # Garbled /\ crc' = Append(crc, b) /\ Len(crc') = Len(crc) + 1
           /\ \A i \in 1..Len(crc) : crc'[i] = crc[i]
           /\ crc'[Len(crc) + 1] = b /\ Len(crc) \in Nat
           /\ \E f \in Frames : IsPrefix(Append(crc, b), f)
<1>1. crc \in Seq(Int) /\ b \in Int
    BY BytesType DEF Shape
<1>2. /\ crc # Garbled /\ crc' = Append(crc, b)
      /\ \E f \in Frames : IsPrefix(Append(crc, b), f)
    BY <1>1, CrcGoesOn
<1>3. /\ Len(crc) \in Nat /\ Len(Append(crc, b)) = Len(crc) + 1
      /\ \A i \in 1..Len(crc) : Append(crc, b)[i] = crc[i]
      /\ Append(crc, b)[Len(crc) + 1] = b
    BY <1>1, AppendIs
<1> QED BY <1>2, <1>3

\* The CRC stays the beginning of a frame as long as it is not garbled.
LEMMA FeedCandidate ==
    ASSUME ParserInv, NEW b \in Byte, feed(b)
    PROVE  Candidate'
<1>0. ParserTypes /\ Shape /\ Candidate
    BY DEF ParserInv
<1> SUFFICES ASSUME crc' # Garbled PROVE Candidate'
    BY DEF Candidate
<1>1. CASE Sync(b)
    <2>1. CASE b = Preamble
        <3>1. state' = "LEN1" /\ crc' = crc24q(<<>>, b)
            BY <1>1, <2>1 DEF Sync
        <3>2. <<>> \in Seq(Int) /\ Len(<<>>) = 0 /\ b \in Int
            BY BytesType
        <3>3. crc' = Append(<<>>, b)
            BY <3>1, <3>2, CrcGoesOn
        <3>4. Len(crc') = 1
            BY <3>2, <3>3
        <3> QED BY <3>1, <3>4 DEF Candidate
    <2>2. CASE b # Preamble
        BY <1>0, <1>1, <2>2 DEF Sync, Candidate
    <2> QED BY <2>1, <2>2
<1>2. CASE Len1(b)
    <2>1. crc' = crc24q(crc, b) /\ state = "LEN1" /\ state' = "LEN2" /\ length' = (b % 4) * Bytes
        BY <1>2 DEF Len1
    <2>2. Len(crc) = 1
        BY <1>0, <2>1, CrcTakes DEF Candidate
    <2>3. Len(crc') = 2 /\ crc'[2] = b
        BY <1>0, <2>1, <2>2, CrcTakes
    <2> QED BY <2>1, <2>3 DEF Candidate
<1>3. CASE Len2(b)
    <2>1. /\ crc' = crc24q(crc, b) /\ state = "LEN2" /\ state' = "PAYLOAD"
          /\ length' = length + b /\ index' = 0
        BY <1>3 DEF Len2
    <2>2. Len(crc) = 2 /\ length = (crc[2] % 4) * Bytes
        BY <1>0, <2>1, CrcTakes DEF Candidate
    <2>3. Len(crc') = 3 /\ crc'[2] = crc[2] /\ crc'[3] = b
        BY <1>0, <2>1, <2>2, CrcTakes
    <2>4. Announced'
        BY <2>1, <2>2, <2>3 DEF Announced
    <2> QED BY <2>1, <2>3, <2>4 DEF Candidate
<1>4. CASE Payload(b)
    <2>1. /\ crc' = crc24q(crc, b) /\ state = "PAYLOAD" /\ length' = length
          /\ IF index + 1 >= length THEN state' = "CRC" /\ index' = 0
             ELSE index' = index + 1 /\ state' = state
        BY <1>4 DEF Payload
    <2>2. /\ crc # Garbled /\ Len(crc) = 3 + index /\ Announced
          /\ \A i \in 1..2 : i <= index => payloadBuf[i] = crc[3 + i]
        BY <1>0, <2>1, CrcTakes DEF Candidate
    <2>3. /\ index \in Nat /\ length \in Nat /\ index < PayloadTaken
          /\ Len(crc) \in Nat
        BY <1>0, <2>1, PayloadTakenIs, FedType DEF ParserTypes
    <2>4. /\ Len(crc') = 4 + index /\ crc'[4 + index] = b
          /\ \A i \in 1..3 + index : crc'[i] = crc[i]
        BY <1>0, <2>1, <2>2, <2>3, CrcTakes
    <2>5. Announced'
        BY <2>1, <2>2, <2>3, <2>4 DEF Announced
    <2>6. \A i \in 1..2 : i <= index + 1 => payloadBuf'[i] = crc'[3 + i]
        <3> SUFFICES ASSUME NEW i \in 1..2, i <= index + 1 PROVE payloadBuf'[i] = crc'[3 + i]
            OBVIOUS
        <3>1. CASE i = index + 1
            <4>1. payloadBuf'[i] = b
                BY <1>0, <1>4, <2>2, <3>1, PayloadKept DEF Kept
            <4> QED BY <2>3, <2>4, <3>1, <4>1
        <3>2. CASE i # index + 1
            <4>1. payloadBuf'[i] = payloadBuf[i] /\ i <= index
                BY <1>0, <1>4, <2>3, <3>2, PayloadKept
            <4> QED BY <2>2, <2>3, <2>4, <4>1
        <3> QED BY <3>1, <3>2
    <2>7. CASE index + 1 >= length
        <3>1. index + 1 = PayloadTaken /\ PayloadTaken' = PayloadTaken
            BY <2>1, <2>3, <2>7 DEF PayloadTaken
        <3>2. Len(crc') = 3 + PayloadTaken'
            BY <2>3, <2>4, <3>1
        <3>3. \A i \in 1..2 : i <= length' => payloadBuf'[i] = crc'[3 + i]
            BY <2>1, <2>3, <2>6, <2>7
        <3> QED BY <2>1, <2>5, <2>7, <3>2, <3>3 DEF Candidate
    <2>8. CASE ~(index + 1 >= length)
        BY <2>1, <2>3, <2>4, <2>5, <2>6, <2>8 DEF Candidate
    <2> QED BY <2>7, <2>8
<1>5. CASE CrcMore(b)
    BY <1>0, <1>5 DEF CrcMore, Candidate, Announced, PayloadTaken
<1>6. CASE CrcLast(b)
    BY <1>6 DEF CrcLast, reset, Candidate
<1> QED BY <1>1, <1>2, <1>3, <1>4, <1>5, <1>6 DEF feed

\* While what has been read is a frame or the beginning of one, read has it all.
LEMMA ReadGoesOn ==
    ASSUME ParserInv, NEW b \in Byte, feed(b), state # "SYNC", crc # Garbled,
           NEW f \in Frames, IsPrefix(Append(Fed, b), Append(f, 0))
    PROVE  read' = Append(Fed, b)
<1>1. Fed \in Seq(Int) /\ b \in Int /\ f \in Seq(Int) /\ Append(f, 0) \in Seq(Int)
    BY FedType, BytesType, FrameType, AppendIs DEF ParserInv
<1>2. IsPrefix(Fed, Append(f, 0))
    BY <1>1, Shorter
<1>3. read = Fed
    BY <1>2 DEF ParserInv, ReadIsFed
<1> QED BY <1>3 DEF feed

\* A byte that continues a frame is appended to both, Fed and read.
LEMMA FeedRead ==
    ASSUME ParserInv, NEW b \in Byte, feed(b)
    PROVE  ReadIsFed'
<1>0. ParserTypes /\ Shape /\ Candidate /\ ParserTypes' /\ Shape'
    BY FeedTypes DEF ParserInv
<1> SUFFICES ASSUME state' # "SYNC", crc' # Garbled, NEW f \in Frames,
                    IsPrefix(Fed', Append(f, 0))
             PROVE  read' = Fed'
    BY DEF ReadIsFed
<1>1. CASE Sync(b)
    <2>1. state = "SYNC" /\ state' = "LEN1" /\ crc' = crc24q(<<>>, b) /\ crcBuf' = <<>>
        BY <1>0, <1>1 DEF Sync, ParserTypes
    <2>2. crc' = Append(<<>>, b)
        BY <2>1, CrcGoesOn, EmptySeq
    <2>3. Append(<<>>, b) = <<b>>
        OBVIOUS
    <2>4. Fed' = <<b>>
        BY <1>0, <2>1, <2>2, <2>3, FedType DEF Fed, Shape
    <2> QED BY <2>1, <2>4 DEF feed
<1>2. CASE Len1(b) \/ Len2(b) \/ Payload(b)
    <2>1. /\ state # "SYNC" /\ state # "CRC" /\ crc' = crc24q(crc, b) /\ crcBuf' = crcBuf
        BY <1>2 DEF Len1, Len2, Payload
    <2>2. crcBuf = <<>> /\ crcBuf' = <<>>
        BY <1>0, <2>1 DEF ParserTypes
    <2>3. /\ crc # Garbled /\ crc' = Append(crc, b)
          /\ \E g \in Frames : IsPrefix(Append(crc, b), g)
        BY <1>0, <2>1, CrcTakes
    <2>4. Fed = crc /\ Fed' = crc'
        BY <1>0, <2>2, ConcatEmptySeq DEF Fed, Shape
    <2>5. PICK g \in Frames : IsPrefix(Append(Fed, b), g)
        BY <2>3, <2>4
    <2>6. IsPrefix(Append(Fed, b), Append(g, 0))
        <3>1. Append(Fed, b) \in Seq(Int) /\ g \in Seq(Int)
            BY <1>0, <2>3, <2>4, FrameType DEF Shape
        <3> QED BY <2>5, <3>1, ZeroAfter
    <2> QED BY <2>1, <2>3, <2>4, <2>6, ReadGoesOn
<1>3. CASE CrcMore(b)
    <2>1. /\ state = "CRC" /\ crc' = crc /\ crcBuf' = Append(crcBuf, b)
        BY <1>3 DEF CrcMore, Kept
    <2>2. Fed' = Append(Fed, b)
        <3>1. crc \in Seq(Int) /\ crcBuf \in Seq(Int) /\ b \in Int
            BY <1>0, ByteSeqs, BytesType DEF Shape
        <3> QED BY <2>1, <3>1 DEF Fed
    <2> QED BY <2>1, <2>2, ReadGoesOn
<1>4. CASE CrcLast(b)
    BY <1>4 DEF CrcLast, reset
<1> QED BY <1>1, <1>2, <1>3, <1>4 DEF feed

--------------------------------------------------------------------------------
(* Checksums.                                                              *)

\* A frame and the zeros the CRC is left with after its checksum.
LEMMA PaddedIs ==
    ASSUME NEW f \in Frames
    PROVE  /\ f \o <<0, 0, 0>> \in Seq(Int) /\ Len(f \o <<0, 0, 0>>) = Len(f) + 3
           /\ \A i \in 1..Len(f) : (f \o <<0, 0, 0>>)[i] = f[i]
           /\ (f \o <<0, 0, 0>>)[Len(f) + 1] = 0
<1>1. <<0, 0, 0>> \in Seq(Int) /\ Len(<<0, 0, 0>>) = 3 /\ <<0, 0, 0>>[1] = 0
    OBVIOUS
<1>2. f \in Seq(Int) /\ Len(f) \in Nat
    BY FrameType
<1> HIDE DEF PayloadLength
<1> QED BY <1>1, <1>2

\* What matches a checksum goes on as the frame does.
LEMMA MatchIs ==
    ASSUME Shape, state = "CRC", Len(crcBuf) = 2, NEW b \in Byte, NEW f \in Frames,
           IsPrefix(crc, f), Len(crc) >= Len(f) - 3,
           Append(crcBuf, b) = SubSeq(f \o <<0, 0, 0>>, Len(crc) + 1, Len(crc) + 3)
    PROVE  /\ Append(Fed, b) \in Seq(Int) /\ Len(Append(Fed, b)) = Len(crc) + 3
           /\ Len(crc) <= Len(f) /\ \A i \in 1..Len(crc) : crc[i] = f[i]
           /\ \A i \in 1..Len(crc) + 3 : Append(Fed, b)[i] = (f \o <<0, 0, 0>>)[i]
<1> DEFINE padded == f \o <<0, 0, 0>>
           full == Append(Fed, b)
<1>1. /\ crc \in Seq(Int) /\ crcBuf \in Seq(Int) /\ b \in Int /\ Fed \in Seq(Int)
      /\ Len(crc) \in Nat /\ Len(Fed) = Len(crc) + 2
    BY FedType, ByteSeqs, BytesType DEF Shape
<1>2. Len(crc) <= Len(f) /\ \A i \in 1..Len(crc) : crc[i] = f[i]
    BY <1>1, FrameType, PrefixIs
<1>3. /\ padded \in Seq(Int) /\ Len(padded) = Len(f) + 3 /\ Len(f) \in Nat
      /\ \A i \in 1..Len(f) : padded[i] = f[i]
    BY PaddedIs, FrameType
<1>4. /\ full \in Seq(Int) /\ Len(full) = Len(crc) + 3
      /\ \A i \in 1..Len(crc) + 2 : full[i] = Fed[i]
      /\ full[Len(crc) + 3] = b
    BY <1>1, AppendIs
<1>5. \A i \in 1..Len(crc) : full[i] = crc[i]
    <2>1. \A i \in 1..Len(crc) : Fed[i] = crc[i] /\ i \in 1..Len(crc) + 2
        BY <1>1, FedType
    <2> QED BY <1>4, <2>1
<1>6. /\ full[Len(crc) + 1] = Append(crcBuf, b)[1]
      /\ full[Len(crc) + 2] = Append(crcBuf, b)[2]
      /\ full[Len(crc) + 3] = Append(crcBuf, b)[3]
    <2>1. Fed[Len(crc) + 1] = crcBuf[1] /\ Fed[Len(crc) + 2] = crcBuf[2]
        BY FedType
    <2>2. Len(crc) + 1 \in 1..Len(crc) + 2 /\ Len(crc) + 2 \in 1..Len(crc) + 2
        BY <1>1
    <2>3. /\ Append(crcBuf, b)[1] = crcBuf[1] /\ Append(crcBuf, b)[2] = crcBuf[2]
          /\ Append(crcBuf, b)[3] = b
        <3>1. /\ \A i \in 1..Len(crcBuf) : Append(crcBuf, b)[i] = crcBuf[i]
              /\ Append(crcBuf, b)[Len(crcBuf) + 1] = b
            BY <1>1, AppendIs
        <3>2. 1 \in 1..Len(crcBuf) /\ 2 \in 1..Len(crcBuf) /\ Len(crcBuf) + 1 = 3
            OBVIOUS
        <3> QED BY <3>1, <3>2, Zenon
    <2> QED BY <1>4, <2>1, <2>2, <2>3
<1>7. /\ Append(crcBuf, b)[1] = padded[Len(crc) + 1]
      /\ Append(crcBuf, b)[2] = padded[Len(crc) + 2]
      /\ Append(crcBuf, b)[3] = padded[Len(crc) + 3]
    <2> HIDE DEF padded
    <2>1. Append(crcBuf, b) = SubSeq(padded, Len(crc) + 1, Len(crc) + 3)
        BY DEF padded
    <2>2. \A j \in 1..3 : SubSeq(padded, Len(crc) + 1, Len(crc) + 3)[j] = padded[Len(crc) + j]
        <3> DEFINE m == Len(crc) + 1
                   n == Len(crc) + 3
        <3>1. /\ m \in Int /\ n \in Int /\ n - m + 1 = 3
              /\ \A i \in m..n : i \in 1..Len(padded)
            BY <1>1, <1>2, <1>3
        <3>2. \A i \in m..n : padded[i] \in Int
            BY <1>3, <3>1
        <3> HIDE DEF m, n
        <3>3. \A j \in 1..3 : SubSeq(padded, m, n)[j] = padded[m + j - 1]
            BY <1>3, <3>1, <3>2, SubSeqProperties
        <3>4. \A j \in 1..3 : m + j - 1 = Len(crc) + j
            BY <1>1 DEF m
        <3> QED BY <3>3, <3>4 DEF m, n
    <2>3. 1 \in 1..3 /\ 2 \in 1..3 /\ 3 \in 1..3
        OBVIOUS
    <2> QED BY <2>1, <2>2, <2>3, Zenon
<1> HIDE DEF padded, full
<1>8. ASSUME NEW i \in 1..Len(crc) + 3 PROVE full[i] = padded[i]
    <2>1. CASE i \in 1..Len(crc)
        <3>1. i \in 1..Len(f)
            BY <1>1, <1>2, <1>3, <2>1
        <3> QED BY <1>2, <1>3, <1>5, <2>1, <3>1
    <2>2. CASE i \in {Len(crc) + 1, Len(crc) + 2, Len(crc) + 3}
        BY <1>6, <1>7, <2>2
    <2>3. i \in 1..Len(crc) \/ i \in {Len(crc) + 1, Len(crc) + 2, Len(crc) + 3}
        <3> DEFINE n == Len(crc)
        <3>1. n \in Nat /\ i \in Int /\ 1 <= i /\ i <= n + 3
            BY <1>1
        <3> HIDE DEF n
        <3>2. i <= n \/ i = n + 1 \/ i = n + 2 \/ i = n + 3
            BY <3>1
        <3> QED BY <3>1, <3>2 DEF n
    <2> QED BY <2>1, <2>2, <2>3
<1> QED BY <1>2, <1>4, <1>8 DEF full, padded

\* The message type is that of the frame.
LEMMA TypeOfFrame ==
    ASSUME NEW f \in Frames, Len(f) >= 8
    PROVE  f[4] * Nibble + f[5] \div Nibble = (f[4] * Bytes + f[5]) \div Nibble
<1> DEFINE n == Nibble
           x == f[4]
           y == f[5]
<1>1. n \in Nat /\ n > 0 /\ x \in Int /\ y \in Int /\ Bytes = n * n
    <2>1. Len(f) \in Nat /\ f[4] \in Byte /\ f[5] \in Byte
        BY FrameType
    <2> QED BY <2>1, BytesType DEF Bytes
<1> HIDE DEF n, x, y
<1>2. y \div n \in Int /\ y % n \in Int /\ 0 <= y % n /\ y % n < n /\ y = n * (y \div n) + (y % n)
    BY <1>1
<1> DEFINE q == y \div n
           r == y % n
<1>3. x * (n * n) + y = n * (x * n + q) + r
    BY <1>1, <1>2
<1>4. x * n + q \in Int
    BY <1>1, <1>2
<1>5. ASSUME NEW z \in Int, NEW k \in Int, z = n * k + r PROVE z \div n = k
    <2> HIDE DEF q, r
    <2>1. r \in Int /\ 0 <= r /\ r < n
        BY <1>2 DEF r
    <2>2. z \div n \in Int /\ z % n \in Int /\ 0 <= z % n /\ z % n < n /\ z = n * (z \div n) + (z % n)
        BY <1>1
    <2> DEFINE d == z \div n
    <2> HIDE DEF d
    <2>3. d \in Int /\ n * (d - k) = r - (z % n)
        BY <1>1, <1>5, <2>1, <2>2 DEF d
    <2>4. -n < r - (z % n) /\ r - (z % n) < n
        BY <1>1, <2>1, <2>2
    <2>5. ASSUME d - k >= 1 PROVE FALSE
        <3>1. n * (d - k) >= n
            BY <1>1, <2>3, <2>5
        <3> QED BY <1>1, <2>1, <2>2, <2>3, <2>4, <3>1
    <2>6. ASSUME d - k <= -1 PROVE FALSE
        <3>1. n * (d - k) <= -n
            BY <1>1, <2>3, <2>6
        <3> QED BY <1>1, <2>1, <2>2, <2>3, <2>4, <3>1
    <2>7. d = k
        BY <2>3, <2>5, <2>6
    <2> QED BY <2>7 DEF d
<1>6. x * (n * n) + y \in Int
    BY <1>1
<1>7. (x * (n * n) + y) \div n = x * n + q
    BY <1>3, <1>4, <1>5, <1>6
<1> QED BY <1>1, <1>7 DEF n, x, y

\* A checksum that matches is that of a frame, which is what has been read.
LEMMA ValidRead ==
    ASSUME ParserInv, NEW b \in Byte, feed(b), CrcLast(b), Matches(crc, Append(crcBuf, b))
    PROVE  ValidIsAFrame'
<1>0. ParserTypes /\ Shape /\ Candidate
    BY DEF ParserInv
<1>1. /\ state = "CRC" /\ index = 2 /\ Len(crcBuf) = 2
      /\ result' = [valid |-> TRUE, crcError |-> FALSE, length |-> length,
                    messageType |-> extractMessageType]
    BY <1>0 DEF CrcLast, ParserTypes
<1>2. PICK f \in Frames :
        /\ IsPrefix(crc, f) /\ Len(crc) >= Len(f) - 3
        /\ Append(crcBuf, b) = SubSeq(f \o <<0, 0, 0>>, Len(crc) + 1, Len(crc) + 3)
    BY DEF Matches
<1>3. crc # Garbled
    <2>1. crc \in Seq(Int) /\ Len(crc) > 0
        BY <1>0, <1>2, FrameType DEF Shape
    <2> QED BY <1>2, <2>1, GarbledIsNone
<1>4. /\ Len(crc) = 3 + PayloadTaken /\ Announced
      /\ \A i \in 1..2 : i <= length => payloadBuf[i] = crc[3 + i]
    BY <1>0, <1>1, <1>3 DEF Candidate
<1>5. length \in Nat /\ PayloadTaken \in Nat /\ PayloadTaken >= 1
    BY <1>0, PayloadTakenIs
<1> DEFINE padded == f \o <<0, 0, 0>>
           full == Append(Fed, b)
<1>6. /\ full \in Seq(Int) /\ Len(full) = Len(crc) + 3
      /\ Len(crc) <= Len(f) /\ \A i \in 1..Len(crc) : crc[i] = f[i]
      /\ \A i \in 1..Len(crc) + 3 : full[i] = padded[i]
    BY <1>0, <1>1, <1>2, MatchIs
<1>7. length = PayloadLength(f)
    <2>1. crc[2] = f[2] /\ crc[3] = f[3]
        BY <1>4, <1>5, <1>6
    <2> QED BY <1>4, <2>1 DEF Announced, PayloadLength
<1>8. /\ f \in Seq(Int) /\ Len(f) = length + 6
      /\ Append(f, 0) \in Seq(Int) /\ Len(Append(f, 0)) = Len(f) + 1
      /\ \A i \in 1..Len(f) : Append(f, 0)[i] = f[i]
      /\ Append(f, 0)[Len(f) + 1] = 0
      /\ \A i \in 1..Len(f) : padded[i] = f[i]
      /\ padded[Len(f) + 1] = 0
    BY <1>7, FrameType, AppendIs, PaddedIs
<1> HIDE DEF padded, full
<1>9. full = IF length > 0 THEN f ELSE Append(f, 0)
    <2>1. CASE length > 0
        <3>1. Len(full) = Len(f) /\ \A i \in 1..Len(f) : i \in 1..Len(crc) + 3
            BY <1>4, <1>5, <1>6, <1>8, <2>1 DEF PayloadTaken
        <3>2. \A i \in 1..Len(full) : full[i] = f[i]
            BY <1>6, <1>8, <3>1
        <3> QED BY <1>6, <1>8, <2>1, <3>1, <3>2, SeqEqual
    <2>2. CASE ~(length > 0)
        <3>1. length = 0 /\ Len(crc) + 3 = 7 /\ Len(f) = 6
            BY <1>4, <1>5, <1>8, <2>2 DEF PayloadTaken
        <3>2. Len(full) = Len(Append(f, 0))
            BY <1>6, <1>8, <3>1
        <3>3. \A i \in 1..7 : full[i] = Append(f, 0)[i]
            <4>1. ASSUME NEW i \in 1..7 PROVE i \in 1..6 \/ i = 7
                OBVIOUS
            <4>2. \A i \in 1..6 : full[i] = Append(f, 0)[i]
                <5>1. \A i \in 1..6 : i \in 1..Len(f) /\ i \in 1..Len(crc) + 3
                    BY <3>1
                <5>2. /\ \A i \in 1..Len(crc) + 3 : full[i] = padded[i]
                      /\ \A i \in 1..Len(f) : padded[i] = f[i] /\ Append(f, 0)[i] = f[i]
                    BY <1>6, <1>8
                <5> QED BY <5>1, <5>2, Zenon
            <4>3. full[7] = Append(f, 0)[7]
                BY <1>6, <1>8, <3>1
            <4> QED BY <4>1, <4>2, <4>3
        <3>4. Len(full) = 7
            BY <1>6, <3>1
        <3> QED BY <1>6, <1>8, <2>2, <3>2, <3>3, <3>4, SeqEqual
    <2> QED BY <2>1, <2>2
<1>10. read' = full
    <2>1. IsPrefix(f, Append(f, 0)) /\ IsPrefix(Append(f, 0), Append(f, 0))
        <3>1. IsPrefix(f, f)
            BY <1>8, PrefixIs
        <3>2. IsPrefix(f, Append(f, 0))
            BY <1>8, <3>1, ZeroAfter
        <3>3. IsPrefix(Append(f, 0), Append(f, 0))
            <4> DEFINE g == Append(f, 0)
            <4>1. g \in Seq(Int) /\ Len(g) \in Nat
                BY <1>8
            <4> HIDE DEF g
            <4>2. IsPrefix(g, g)
                BY <4>1, PrefixIs
            <4> QED BY <4>2 DEF g
        <3> QED BY <3>2, <3>3
    <2>2. IsPrefix(full, Append(f, 0))
        BY <1>9, <2>1
    <2>3. state # "SYNC"
        BY <1>1
    <2> QED BY <1>3, <2>2, <2>3, ReadGoesOn DEF full
<1>11. extractMessageType = IF Len(f) < 8 THEN 0 ELSE (f[4] * Bytes + f[5]) \div Nibble
    <2>1. CASE length >= 2
        <3>1. /\ 4 \in 1..Len(crc) /\ 5 \in 1..Len(crc)
            BY <1>4, <1>5, <2>1 DEF PayloadTaken
        <3>2. payloadBuf[1] = f[4] /\ payloadBuf[2] = f[5]
            BY <1>4, <1>5, <1>6, <2>1, <3>1
        <3>3. Len(f) >= 8 /\ ~(Len(f) < 8)
            BY <1>5, <1>8, <2>1
        <3> QED BY <2>1, <3>2, <3>3, TypeOfFrame DEF extractMessageType
    <2>2. CASE ~(length >= 2)
        BY <1>5, <1>8, <2>2 DEF extractMessageType
    <2> QED BY <2>1, <2>2
<1> QED BY <1>1, <1>7, <1>9, <1>10, <1>11 DEF ValidIsAFrame

\* feed() calls nothing else valid.
LEMMA FeedParser ==
    ASSUME ParserInv, NEW b \in Byte, feed(b)
    PROVE  ParserInv' /\ ValidIsAFrame'
<1>1. ParserInv'
    BY FeedTypes, FeedCandidate, FeedRead DEF ParserInv
<1>2. CASE Sync(b) \/ Len1(b) \/ Len2(b) \/ Payload(b) \/ CrcMore(b)
    <2>1. ~result'.valid
        BY <1>2 DEF Sync, Len1, Len2, Payload, CrcMore, NoResult
    <2> QED BY <1>1, <2>1 DEF ValidIsAFrame
<1>3. CASE CrcLast(b)
    <2>1. CASE Matches(crc, Append(crcBuf, b))
        BY <1>1, <1>3, <2>1, ValidRead
    <2>2. CASE ~Matches(crc, Append(crcBuf, b))
        <3>1. ~result'.valid
            BY <1>3, <2>2 DEF CrcLast
        <3> QED BY <1>1, <3>1 DEF ValidIsAFrame
    <2> QED BY <2>1, <2>2
<1> QED BY <1>2, <1>3 DEF feed

--------------------------------------------------------------------------------
(* A frame that nothing cuts.                                              *)

\* The first byte of a frame finds the parser between frames.
LEMMA IntoBegins ==
    ASSUME ParserInv, NEW f \in Frames, feed(f[1]), state = "SYNC"
    PROVE  Into(f, 1)'
<1>0. /\ f \in Seq(Int) /\ Len(f) \in Nat /\ Len(f) >= 6 /\ f[1] = Preamble /\ f[1] \in Byte
      /\ f[1] \in Int
    BY FrameType, BytesType
<1>1. state' = "LEN1" /\ crc' = crc24q(<<>>, f[1]) /\ crcBuf' = <<>>
    BY <1>0 DEF feed, Sync, Len1, Len2, Payload, CrcMore, CrcLast, ParserInv, ParserTypes
<1>2. /\ <<>> \in Seq(Int) /\ Append(<<>>, f[1]) \in Seq(Int) /\ Len(Append(<<>>, f[1])) = 1
      /\ Append(<<>>, f[1])[1] = f[1]
    BY <1>0
<1>3. IsPrefix(Append(<<>>, f[1]), f)
    <2>1. Len(Append(<<>>, f[1])) <= Len(f)
        BY <1>0, <1>2
    <2>2. \A i \in 1..1 : Append(<<>>, f[1])[i] = f[i]
        BY <1>2
    <2> QED BY <1>0, <1>2, <2>1, <2>2, PrefixIs
<1>4. crc' = Append(<<>>, f[1]) /\ crc' # Garbled
    BY <1>0, <1>1, <1>2, <1>3, CrcGoesOn
<1>5. Fed' = crc'
    BY <1>1, <1>2, <1>4, ConcatEmptySeq DEF Fed
<1>6. Len(crc') + Len(crcBuf') = 1 /\ \A i \in 1..1 : Fed'[i] = f[i]
    BY <1>1, <1>2, <1>4, <1>5
<1> QED BY <1>0, <1>1, <1>4, <1>6 DEF Into

\* Each byte of it goes on with it.
LEMMA IntoFed ==
    ASSUME ParserInv, NEW f \in Frames, NEW k \in 1..Len(f) - 1, Into(f, k), feed(f[k + 1])
    PROVE  /\ k + 1 < Len(f) => Into(f, k + 1)'
           /\ k + 1 = Len(f) /\ length > 0 => result'.valid
<1>0. ParserTypes /\ Shape /\ Candidate /\ ParserTypes' /\ Shape' /\ f[k + 1] \in Byte
    <2>1. k + 1 \in 1..Len(f)
        BY FrameType
    <2> QED BY <2>1, FeedTypes, FrameType DEF ParserInv
<1> DEFINE b == f[k + 1]
<1>1. /\ f \in Seq(Int) /\ Len(f) \in Nat /\ b \in Int /\ k \in Nat /\ k + 1 <= Len(f)
      /\ crc \in Seq(Int) /\ crcBuf \in Seq(Int)
      /\ state # "SYNC" /\ crc # Garbled /\ Len(crc) + Len(crcBuf) = k
      /\ \A i \in 1..k : Fed[i] = f[i]
      /\ b = f[k + 1] /\ b \in Byte /\ feed(b)
    BY <1>0, FrameType, BytesType, ByteSeqs DEF Into, Shape
<1> HIDE DEF b
<1>2. CASE Len1(b) \/ Len2(b) \/ Payload(b)
    <2>1. /\ state # "CRC" /\ state' # "SYNC" /\ crc' = crc24q(crc, b) /\ crcBuf' = crcBuf
        BY <1>2 DEF Len1, Len2, Payload
    <2>2. crcBuf = <<>> /\ crcBuf' = <<>> /\ Fed = crc /\ Len(crc) = k
        <3>1. crcBuf = <<>>
            BY <1>0, <2>1 DEF ParserTypes
        <3> QED BY <1>0, <1>1, <2>1, <3>1, FedType
    <2>3. /\ Append(crc, b) \in Seq(Int) /\ Len(Append(crc, b)) = k + 1
          /\ \A i \in 1..k : Append(crc, b)[i] = crc[i]
          /\ Append(crc, b)[k + 1] = b
        BY <1>1, <2>2, AppendIs
    <2>4. \A i \in 1..k + 1 : Append(crc, b)[i] = f[i]
        <3>1. ASSUME NEW i \in 1..k + 1 PROVE i \in 1..k \/ i = k + 1
            BY <1>1
        <3> QED BY <1>1, <2>2, <2>3, <3>1
    <2>5. IsPrefix(Append(crc, b), f)
        BY <1>1, <2>3, <2>4, PrefixIs
    <2>6. crc' = Append(crc, b) /\ crc' # Garbled
        BY <1>0, <1>1, <2>1, <2>5, CrcGoesOn
    <2>7. Fed' = crc'
        BY <2>2, <2>3, <2>6, ConcatEmptySeq DEF Fed
    <2>8. Into(f, k + 1)'
        <3>1. Len(crc') + Len(crcBuf') = k + 1
            BY <1>1, <2>2, <2>3, <2>6
        <3>2. \A i \in 1..k + 1 : Fed'[i] = f[i]
            BY <2>4, <2>6, <2>7
        <3> QED BY <1>1, <2>1, <2>6, <3>1, <3>2 DEF Into
    <2>9. k + 1 # Len(f)
        <3>1. Len(f) = PayloadLength(f) + 6 /\ PayloadLength(f) \in Nat
            BY FrameType
        <3>2. CASE state \in {"LEN1", "LEN2"}
            <4>1. k <= 2
                BY <1>0, <1>1, <2>2, <3>2 DEF Candidate
            <4> QED BY <1>1, <3>1, <4>1
        <3>3. CASE state = "PAYLOAD"
            <4>1. k = 3 + index /\ Announced /\ index < PayloadTaken
                BY <1>0, <1>1, <2>2, <3>3, PayloadTakenIs DEF Candidate, ParserTypes
            <4>2. crc[2] = f[2] /\ crc[3] = f[3]
                <5>1. index \in Nat
                    BY <1>0, PayloadTakenIs
                <5>2. 2 \in 1..k /\ 3 \in 1..k
                    BY <1>1, <4>1, <5>1
                <5> QED BY <1>1, <2>2, <5>2
            <4>3. length = PayloadLength(f)
                BY <4>1, <4>2 DEF Announced, PayloadLength
            <4>4. length \in Nat /\ index \in Nat /\ Len(f) = length + 6
                BY <1>0, <3>1, <4>3, PayloadTakenIs
            <4> QED BY <1>1, <4>1, <4>4 DEF PayloadTaken
        <3> QED BY <1>0, <1>1, <2>1, <3>2, <3>3 DEF ParserTypes
    <2> QED BY <2>8, <2>9
<1>3. CASE state = "CRC"
    <2>1. /\ Len(crc) = 3 + PayloadTaken /\ Announced /\ length \in Nat /\ index \in Nat
          /\ PayloadTaken \in Nat /\ PayloadTaken >= 1 /\ index < 3 /\ Len(crcBuf) = index
        BY <1>0, <1>1, <1>3, PayloadTakenIs, SMTT(30) DEF Candidate, ParserTypes
    <2>2. /\ Len(Fed) = k /\ Fed \in Seq(Int)
          /\ \A i \in 1..Len(crc) : Fed[i] = crc[i] /\ i \in 1..k
          /\ \A i \in 1..Len(crcBuf) : Fed[Len(crc) + i] = crcBuf[i] /\ Len(crc) + i \in 1..k
        BY <1>0, <1>1, FedType, SMTT(30)
    <2>3. /\ \A i \in 1..Len(crc) : crc[i] = f[i]
          /\ \A i \in 1..Len(crcBuf) : crcBuf[i] = f[Len(crc) + i]
        <3>1. \A i \in 1..k : Fed[i] = f[i]
            BY <1>1
        <3>2. ASSUME NEW i \in 1..Len(crc) PROVE crc[i] = f[i]
            <4>1. Fed[i] = crc[i] /\ i \in 1..k
                BY <2>2
            <4> QED BY <3>1, <4>1, Zenon
        <3>3. ASSUME NEW i \in 1..Len(crcBuf) PROVE crcBuf[i] = f[Len(crc) + i]
            <4>1. Fed[Len(crc) + i] = crcBuf[i] /\ Len(crc) + i \in 1..k
                BY <2>2
            <4> QED BY <3>1, <4>1, Zenon
        <3> QED BY <3>2, <3>3, Zenon
    <2>4. length = PayloadLength(f) /\ Len(f) = length + 6
        <3>1. 2 \in 1..Len(crc) /\ 3 \in 1..Len(crc)
            BY <2>1
        <3>2. crc[2] = f[2] /\ crc[3] = f[3]
            BY <2>3, <3>1
        <3>3. length = PayloadLength(f)
            BY <2>1, <3>2 DEF Announced, PayloadLength
        <3> QED BY <3>3, FrameType
    <2>5. CASE index < 2
        <3>1. CrcMore(b)
            BY <1>1, <1>3, <2>5 DEF feed, Sync, Len1, Len2, Payload, CrcMore, CrcLast
        <3>2. state' = "CRC" /\ crc' = crc /\ crcBuf' = Append(crcBuf, b)
            BY <1>1, <1>3, <3>1 DEF CrcMore, Kept
        <3>3. Fed' = Append(Fed, b)
            <4>1. crc \o Append(crcBuf, b) = Append(crc \o crcBuf, b)
                <5>1. <<b>> \in Seq(Int) /\ crc \o crcBuf \in Seq(Int)
                    BY <1>1
                <5>2. /\ Append(crcBuf, b) = crcBuf \o <<b>>
                      /\ Append(crc \o crcBuf, b) = (crc \o crcBuf) \o <<b>>
                    BY <1>1, <5>1, AppendIsConcat
                <5>3. (crc \o crcBuf) \o <<b>> = crc \o (crcBuf \o <<b>>)
                    <6>1. crc \in Seq(Int) /\ crcBuf \in Seq(Int)
                        BY <1>1
                    <6> QED BY <5>1, <6>1, Assoc, Zenon
                <5> QED BY <5>2, <5>3
            <4> QED BY <3>2, <4>1 DEF Fed
        <3>4. /\ Len(Fed') = k + 1 /\ Fed'[k + 1] = b
              /\ \A i \in 1..k : Fed'[i] = Fed[i]
            BY <1>1, <2>2, <3>3, AppendIs
        <3>5. \A i \in 1..k + 1 : Fed'[i] = f[i]
            <4>1. ASSUME NEW i \in 1..k + 1 PROVE i \in 1..k \/ i = k + 1
                BY <1>1
            <4> QED BY <1>1, <3>4, <4>1
        <3>6. Len(crc') + Len(crcBuf') = k + 1
            BY <1>1, <3>2, AppendIs
        <3>7. Into(f, k + 1)'
            BY <1>1, <3>2, <3>5, <3>6 DEF Into
        <3>8. k + 1 = Len(f) => length = 0
            BY <1>1, <2>1, <2>4, <2>5, SMTT(30) DEF PayloadTaken
        <3> QED BY <2>1, <3>7, <3>8
    <2>6. CASE index = 2
        <3>1. CrcLast(b)
            BY <1>1, <1>3, <2>6 DEF feed, Sync, Len1, Len2, Payload, CrcMore, CrcLast
        <3>2. k = PayloadTaken + 5
            BY <1>1, <2>1, <2>6
        <3>3. k + 1 = Len(f) /\ length > 0
            <4>1. length # 0
                BY <1>1, <2>1, <2>4, <3>2 DEF PayloadTaken
            <4>2. length > 0 /\ PayloadTaken = length
                BY <2>1, <4>1 DEF PayloadTaken
            <4> QED BY <1>1, <2>1, <2>4, <3>2, <4>2
        <3>4. Len(crc) = Len(f) - 3 /\ Len(crcBuf) = 2
            BY <1>1, <2>1, <2>6, <3>3
        <3>5. IsPrefix(crc, f)
            <4>1. Len(crc) <= Len(f)
                BY <1>1, <3>4
            <4> QED BY <1>1, <2>3, <4>1, PrefixIs
        <3> DEFINE padded == f \o <<0, 0, 0>>
                   m == Len(crc) + 1
                   n == Len(crc) + 3
                   recv == SubSeq(padded, m, n)
        <3>6. /\ padded \in Seq(Int) /\ Len(padded) = Len(f) + 3
              /\ \A i \in 1..Len(f) : padded[i] = f[i]
            BY PaddedIs
        <3>7. /\ m \in Int /\ n \in Int /\ n - m + 1 = 3 /\ m <= n
              /\ \A i \in m..n : i \in 1..Len(f) /\ padded[i] = f[i] /\ f[i] \in Int
            BY <1>1, <3>4, <3>6, SMTT(30)
        <3> HIDE DEF padded, m, n
        <3>8. \A i \in m..n : padded[i] \in Int
            BY <3>7
        <3>9. /\ recv \in Seq(Int) /\ Len(recv) = 3
              /\ \A i \in 1..3 : recv[i] = padded[m + i - 1]
            BY <3>7, <3>8, SubSeqProperties
        <3>10. \A i \in 1..3 : m + i - 1 \in m..n /\ m + i - 1 = Len(crc) + i
            BY <1>1, <2>1, <3>7 DEF m, n
        <3>11. \A i \in 1..3 : recv[i] = f[Len(crc) + i]
            BY <3>7, <3>9, <3>10, Zenon
        <3>12. /\ Append(crcBuf, b) \in Seq(Int) /\ Len(Append(crcBuf, b)) = 3
               /\ \A i \in 1..2 : Append(crcBuf, b)[i] = crcBuf[i]
               /\ Append(crcBuf, b)[3] = b
            <4>1. /\ Append(crcBuf, b) \in Seq(Int) /\ Len(Append(crcBuf, b)) = Len(crcBuf) + 1
                  /\ \A i \in 1..Len(crcBuf) : Append(crcBuf, b)[i] = crcBuf[i]
                  /\ Append(crcBuf, b)[Len(crcBuf) + 1] = b
                BY <1>1, AppendIs
            <4>2. Len(crcBuf) + 1 = 3 /\ 1..Len(crcBuf) = 1..2
                BY <3>4
            <4> QED BY <4>1, <4>2, Zenon
        <3>13. \A i \in 1..3 : Append(crcBuf, b)[i] = recv[i]
            <4>1. \A i \in 1..3 : i \in 1..2 \/ i = 3
                OBVIOUS
            <4>2. \A i \in 1..2 : crcBuf[i] = f[Len(crc) + i] /\ i \in 1..3
                BY <2>3, <3>4
            <4>3. b = f[Len(crc) + 3] /\ 3 \in 1..3
                BY <1>1, <2>1, <3>2, <3>3
            <4> HIDE DEF recv
            <4> QED BY <3>11, <3>12, <4>1, <4>2, <4>3, Zenon
        <3>14. Append(crcBuf, b) = recv
            <4> HIDE DEF recv
            <4> QED BY <3>9, <3>12, <3>13, SeqEqual
        <3>15. Matches(crc, Append(crcBuf, b))
            <4>1. Len(crc) >= Len(f) - 3
                BY <1>1, <3>4
            <4>2. Append(crcBuf, b) = SubSeq(f \o <<0, 0, 0>>, Len(crc) + 1, Len(crc) + 3)
                BY <3>14 DEF padded, m, n
            <4> QED BY <3>5, <4>1, <4>2 DEF Matches
        <3> QED BY <1>1, <3>1, <3>3, <3>15 DEF CrcLast
    <2> QED BY <2>1, <2>5, <2>6
<1> QED BY <1>1, <1>2, <1>3 DEF feed, Sync, CrcMore, CrcLast

--------------------------------------------------------------------------------
(* The stream.                                                             *)

\* The rest of a frame, byte by byte.
LEMMA RestOf ==
    ASSUME NEW f \in Frames, NEW k \in 1..Len(f)
    PROVE  LET q == SubSeq(f, k + 1, Len(f)) IN
           /\ q \in Seq(Byte) /\ Len(q) = Len(f) - k
           /\ k < Len(f) => /\ q # <<>> /\ Head(q) = f[k + 1]
                            /\ Tail(q) = SubSeq(f, k + 2, Len(f)) /\ Tail(q) \in Seq(Byte)
           /\ k = Len(f) => q = <<>>
<1> DEFINE q == SubSeq(f, k + 1, Len(f))
<1>1. /\ f \in Seq(Byte) /\ Len(f) \in Nat /\ k \in Nat /\ k <= Len(f)
      /\ \A i \in k + 1..Len(f) : f[i] \in Byte
    BY FrameType
<1>2. q \in Seq(Byte) /\ Len(q) = Len(f) - k
    <2> HIDE DEF q
    <2>1. k + 1 \in Int /\ Len(f) \in Int
        BY <1>1
    <2>2. /\ SubSeq(f, k + 1, Len(f)) \in Seq(Byte)
          /\ Len(SubSeq(f, k + 1, Len(f))) =
                IF k + 1 <= Len(f) THEN Len(f) - (k + 1) + 1 ELSE 0
        BY <1>1, <2>1, SubSeqProperties
    <2>3. (IF k + 1 <= Len(f) THEN Len(f) - (k + 1) + 1 ELSE 0) = Len(f) - k
        BY <1>1
    <2> QED BY <2>2, <2>3 DEF q
<1>3. CASE k < Len(f)
    <2>1. q # <<>>
        <3>1. Len(q) # 0
            BY <1>1, <1>2, <1>3
        <3> QED BY <3>1, EmptySeq
    <2>2. k + 1 \in 1..Len(f) /\ Len(f) \in k + 1..Len(f) /\ k + 1 + 1 = k + 2
        BY <1>1, <1>3
    <2>3. Head(q) = f[k + 1] /\ Tail(q) = SubSeq(f, k + 1 + 1, Len(f))
        BY <1>1, <2>2, HeadTailOfSubSeq
    <2>4. Tail(q) \in Seq(Byte)
        BY <1>2, <2>1, HeadTailProperties
    <2> QED BY <1>1, <1>2, <1>3, <2>1, <2>2, <2>3, <2>4
<1>4. CASE k = Len(f)
    BY <1>1, <1>2, <1>4, EmptySeq
<1> QED BY <1>1, <1>2, <1>3, <1>4

\* The caster is source 1; the others have other numbers.
LEMMA SourcesType == 1 \in Sources /\ 0 \notin Sources /\ Sources \subseteq Nat
BY StreamAssumption DEF Sources

\* A parser that has just been made or reset.
LEMMA ParserReset ==
    ASSUME state = "SYNC", index = 0, length = 0, crc = <<>>, crcBuf = <<>>,
           payloadBuf \in [1..2 -> Byte], read = <<>>
    PROVE  ParserInv
<1>1. <<>> \in Seq(Int) /\ <<>> \in Seq(Byte) /\ 0 \in 0..4 * Bytes - 1 /\ 0 \in 0..4 * Bytes - 2
    BY BytesType
<1>2. ParserTypes /\ Shape
    BY <1>1 DEF ParserTypes, Shape
<1> QED BY <1>2 DEF ParserInv, Candidate, ReadIsFed

\* The invariant holds initially.
LEMMA InitIInv == Init => IInv
<1> SUFFICES ASSUME Init PROVE IInv
    OBVIOUS
<1>1. payloadBuf \in [1..2 -> Byte]
    BY BytesType DEF Init
<1>2. ParserInv
    BY <1>1, ParserReset DEF Init
<1>3. StreamTypes
    BY StreamAssumption DEF Init, StreamTypes
<1>4. ValidIsAFrame /\ Uncut
    BY DEF Init, NoResult, ValidIsAFrame, Uncut
<1> QED BY <1>2, <1>3, <1>4 DEF IInv

\* A source begins a frame.
LEMMA BeginIInv ==
    ASSUME NEW s \in Sources, IInv, Begin(s)
    PROVE  /\ ParserInv' /\ ValidIsAFrame' /\ Uncut'
           /\ rest' \in [Sources -> Seq(Byte)]
<1>1. PICK f \in Frames : feed(f[1]) /\ rest' = [rest EXCEPT ![s] = Tail(f)]
    <2>1. \E f \in IF s = 1 THEN Frames ELSE ForeignFrames :
            feed(f[1]) /\ rest' = [rest EXCEPT ![s] = Tail(f)]
        BY DEF Begin
    <2> QED BY <2>1, StreamAssumption
<1>2. intact' = IF state = "SYNC" THEN s ELSE 0
    BY DEF Begin
<1>3. f \in Seq(Byte) /\ f # <<>> /\ f[1] \in Byte /\ Len(f) \in Nat /\ Len(f) >= 6
    BY FrameType, EmptySeq
<1>4. Tail(f) = SubSeq(f, 1 + 1, Len(f)) /\ Tail(f) \in Seq(Byte)
    BY <1>3
<1>5. ParserInv' /\ ValidIsAFrame'
    BY <1>1, <1>3, FeedParser DEF IInv
<1>6. rest' \in [Sources -> Seq(Byte)] /\ rest'[s] = Tail(f)
    BY <1>1, <1>4 DEF IInv, StreamTypes
<1>7. Uncut'
    <2> SUFFICES ASSUME state = "SYNC", intact' = s PROVE Uncut'
        BY <1>2 DEF Uncut
    <2>1. Into(f, 1)'
        BY <1>1, IntoBegins DEF IInv
    <2>2. 1 \in 1..Len(f)
        BY <1>3
    <2> QED BY <1>4, <1>6, <2>1, <2>2 DEF Uncut
<1> QED BY <1>5, <1>6, <1>7

\* A source continues one: what is fed is the next byte of it, and if it is the
\* last byte of a frame with a payload, the frame is valid.
LEMMA ContinueIInv ==
    ASSUME NEW s \in Sources, IInv, Continue(s)
    PROVE  /\ ParserInv' /\ ValidIsAFrame' /\ Uncut'
           /\ rest' \in [Sources -> Seq(Byte)]
           /\ \A t \in Sources \ {s} : rest'[t] = rest[t]
           /\ intact = s /\ Len(rest[s]) = 1 /\ length > 0 => result'.valid
<1>1. /\ rest[s] # <<>> /\ feed(Head(rest[s])) /\ rest' = [rest EXCEPT ![s] = Tail(rest[s])]
      /\ intact' = IF intact = s THEN s ELSE 0
    BY DEF Continue
<1>2. rest \in [Sources -> Seq(Byte)] /\ rest[s] \in Seq(Byte) /\ Head(rest[s]) \in Byte
      /\ Tail(rest[s]) \in Seq(Byte)
    BY <1>1, HeadTailProperties DEF IInv, StreamTypes
<1>3. /\ rest' \in [Sources -> Seq(Byte)] /\ rest'[s] = Tail(rest[s])
      /\ \A t \in Sources \ {s} : rest'[t] = rest[t]
    BY <1>1, <1>2
<1>4. ParserInv' /\ ValidIsAFrame'
    BY <1>1, <1>2, FeedParser DEF IInv
<1>5. ASSUME intact = s
      PROVE  Uncut' /\ (Len(rest[s]) = 1 /\ length > 0 => result'.valid)
    <2>1. PICK f \in Frames : \E k \in 1..Len(f) :
            rest[s] = SubSeq(f, k + 1, Len(f)) /\ (k < Len(f) => Into(f, k))
        BY <1>5, SourcesType DEF IInv, Uncut
    <2>2. PICK k \in 1..Len(f) :
            rest[s] = SubSeq(f, k + 1, Len(f)) /\ (k < Len(f) => Into(f, k))
        BY <2>1
    <2>3. /\ k < Len(f) /\ Len(rest[s]) = Len(f) - k /\ Head(rest[s]) = f[k + 1]
          /\ Tail(rest[s]) = SubSeq(f, k + 2, Len(f))
        <3>1. k < Len(f) \/ k = Len(f)
            BY FrameType
        <3> QED BY <1>1, <2>2, <3>1, RestOf
    <2>4. /\ Len(f) \in Nat /\ k \in 1..Len(f) - 1 /\ k + 1 \in 1..Len(f)
          /\ k + 1 + 1 = k + 2
        BY <2>3, FrameType
    <2>5. /\ k + 1 < Len(f) => Into(f, k + 1)'
          /\ k + 1 = Len(f) /\ length > 0 => result'.valid
        BY <1>1, <2>2, <2>3, <2>4, IntoFed DEF IInv
    <2>6. Uncut'
        BY <1>1, <1>3, <1>5, <2>3, <2>4, <2>5 DEF Uncut
    <2>7. Len(rest[s]) = 1 => k + 1 = Len(f)
        BY <2>3, <2>4
    <2> QED BY <2>5, <2>6, <2>7
<1>6. intact # s => Uncut'
    BY <1>1 DEF Uncut
<1> QED BY <1>3, <1>4, <1>5, <1>6, Zenon

\* A new connection: the parser is reset and the caster is anywhere in a frame.
LEMMA ReconnectIInv ==
    ASSUME IInv, Reconnect
    PROVE  IInv' /\ intact' = 0
<1>1. /\ cuts < MaxCuts /\ cuts' = cuts + 1 /\ reset /\ result' = NoResult
      /\ read' = <<>> /\ intact' = 0 /\ foreign' = foreign /\ noise' = noise
    BY DEF Reconnect
<1>2. PICK f \in Frames : \E k \in 1..Len(f) :
        rest' = [s \in Sources |-> IF s = 1 THEN SubSeq(f, k + 1, Len(f)) ELSE <<>>]
    BY DEF Reconnect
<1>3. rest' \in [Sources -> Seq(Byte)]
    <2>1. \A k \in 1..Len(f) : SubSeq(f, k + 1, Len(f)) \in Seq(Byte)
        BY RestOf
    <2> QED BY <1>2, <2>1
<1>4. ParserInv'
    <2>1. /\ state' = "SYNC" /\ index' = 0 /\ length' = 0 /\ crc' = <<>> /\ crcBuf' = <<>>
          /\ payloadBuf' \in [1..2 -> Byte]
        BY <1>1 DEF reset, IInv, ParserInv, ParserTypes
    <2>2. <<>> \in Seq(Int) /\ <<>> \in Seq(Byte)
          /\ 0 \in 0..4 * Bytes - 1 /\ 0 \in 0..4 * Bytes - 2
        BY BytesType
    <2>3. ParserTypes' /\ Shape'
        BY <1>1, <2>1, <2>2 DEF ParserTypes, Shape
    <2> QED BY <2>1, <2>3 DEF ParserInv, Candidate, ReadIsFed
<1>5. StreamTypes'
    BY <1>1, <1>3, StreamAssumption DEF IInv, StreamTypes
<1>6. ValidIsAFrame' /\ Uncut'
    BY <1>1 DEF NoResult, ValidIsAFrame, Uncut
<1> QED BY <1>1, <1>4, <1>5, <1>6 DEF IInv

\* Every byte fed, and every step of the sources, keeps the invariant.
LEMMA NextIInv == IInv /\ [Next]_vars => IInv'
<1> SUFFICES ASSUME IInv, [Next]_vars PROVE IInv'
    OBVIOUS
<1>1. CASE Send
    <2>1. UNCHANGED <<foreign, noise, cuts>> /\ (Begin(1) \/ Continue(1))
        BY <1>1 DEF Send
    <2>2. ParserInv' /\ ValidIsAFrame' /\ Uncut' /\ rest' \in [Sources -> Seq(Byte)]
        BY <2>1, BeginIInv, ContinueIInv, SourcesType
    <2> QED BY <2>1, <2>2 DEF IInv, StreamTypes
<1>2. ASSUME NEW s \in Foreign, SendForeign(s) PROVE IInv'
    <2>1. /\ UNCHANGED <<noise, cuts>> /\ (Begin(s) \/ Continue(s))
          /\ foreign' = foreign \/ (foreign < MaxForeign /\ foreign' = foreign + 1)
        BY <1>2 DEF SendForeign
    <2>2. s \in Sources
        BY DEF Sources
    <2>3. ParserInv' /\ ValidIsAFrame' /\ Uncut' /\ rest' \in [Sources -> Seq(Byte)]
        BY <2>1, <2>2, BeginIInv, ContinueIInv
    <2>4. foreign' \in 0..MaxForeign
        BY <2>1, StreamAssumption DEF IInv, StreamTypes
    <2> QED BY <2>1, <2>3, <2>4 DEF IInv, StreamTypes
<1>3. CASE Noise
    <2>1. /\ noise < MaxNoise /\ noise' = noise + 1 /\ intact' = 0
          /\ UNCHANGED <<rest, foreign, cuts>>
        BY <1>3 DEF Noise
    <2>2. PICK b \in Byte : feed(b)
        BY <1>3, StreamAssumption DEF Noise
    <2>3. ParserInv' /\ ValidIsAFrame'
        BY <2>2, FeedParser DEF IInv
    <2>4. Uncut' /\ StreamTypes'
        BY <2>1, StreamAssumption DEF IInv, Uncut, StreamTypes
    <2> QED BY <2>3, <2>4 DEF IInv
<1>4. CASE Reconnect
    BY <1>4, ReconnectIInv
<1>5. CASE UNCHANGED vars
    <2>1. ParserInv'
        BY <1>5 DEF vars, parser, IInv, ParserInv, ParserTypes, Shape, Candidate, Announced,
                    PayloadTaken, ReadIsFed, Fed
    <2>2. StreamTypes' /\ ValidIsAFrame'
        BY <1>5 DEF vars, stream, IInv, StreamTypes, ValidIsAFrame
    <2>3. Uncut'
        BY <1>5 DEF vars, parser, stream, IInv, Uncut, Into, Fed
    <2> QED BY <2>1, <2>2, <2>3 DEF IInv
<1> QED BY <1>1, <1>2, <1>3, <1>4, <1>5 DEF Next

\* The invariant holds throughout every behaviour.
LEMMA SpecIInv == Spec => []IInv
BY InitIInv, NextIInv, PTL DEF Spec

\* The parser stays within its buffers and the length field within ten bits.
THEOREM TypeCorrect == Spec => []TypeOK
<1>1. IInv => TypeOK
    BY DEF IInv, ParserInv, ParserTypes, StreamTypes, TypeOK
<1> QED BY <1>1, SpecIInv, PTL

\* What feed() calls valid is one frame that was sent, with its length and type.
THEOREM ValidFramesWereSent == Spec => []ValidIsAFrame
<1>1. IInv => ValidIsAFrame
    BY DEF IInv
<1> QED BY <1>1, SpecIInv, PTL

\* A frame with a payload that finds the parser between frames and is not cut is
\* valid at its last byte.
THEOREM WholeFramesCount == Spec => WholeFrameCounts
<1>1. ASSUME IInv, [Next]_vars
      PROVE  [\A s \in Sources :
                intact = s /\ Len(rest[s]) = 1 /\ rest'[s] = <<>> /\ length > 0
                    /\ intact' = s
                => result'.valid]_vars
    <2> SUFFICES ASSUME NEW s \in Sources, intact = s, Len(rest[s]) = 1, rest'[s] = <<>>,
                        length > 0, intact' = s
                 PROVE  result'.valid
        OBVIOUS
    <2>1. rest[s] # rest'[s] /\ s # 0
        BY SourcesType, EmptySeq
    <2>2. ASSUME NEW t \in Sources, Begin(t) PROVE FALSE
        <3>1. t # s
            BY <2>1, <2>2 DEF Begin
        <3>2. rest'[s] = rest[s]
            BY <2>2, <3>1 DEF Begin, IInv, StreamTypes
        <3> QED BY <2>1, <3>2
    <2>3. ASSUME NEW t \in Sources, Continue(t) PROVE result'.valid
        <3>1. t = s
            BY <2>1, <2>3, <1>1, ContinueIInv
        <3> QED BY <2>3, <3>1, <1>1, ContinueIInv
    <2>4. CASE Send
        BY <2>2, <2>3, <2>4, SourcesType DEF Send
    <2>5. CASE \E t \in Foreign : SendForeign(t)
        BY <2>2, <2>3, <2>5 DEF SendForeign, Sources
    <2>6. ~Noise /\ ~Reconnect /\ ~UNCHANGED vars
        BY <1>1, <2>1, ReconnectIInv DEF Noise, vars, stream
    <2> QED BY <1>1, <2>4, <2>5, <2>6 DEF Next
<1> QED BY <1>1, SpecIInv, PTL DEF Spec, WholeFrameCounts
================================================================================
