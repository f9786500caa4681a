-------------------------- MODULE NmeaTelemetry_proofs --------------------------
(***************************************************************************)
(* Proofs about NmeaTelemetry: the satellite list, for any sequences of    *)
(* the receiver, whatever is lost and wherever a snapshot is preempted,    *)
(* and the fix, for every order of the sentences of a second.              *)
(*                                                                         *)
(* The list.  What is staged and what is listed are recursive functions.   *)
(* That these exist and what they compute is proved by induction, in the   *)
(* form of Induction: the set of the numbers that satisfy a statement holds*)
(* 0 and every successor, so it is Nat.  The invariant of the list says    *)
(* that a constellation whose first message arrived has staged what it was *)
(* told, or has fallen behind and takes nothing before the next first one. *)
(*                                                                         *)
(* The fix.  A field is of this second when the sentence that writes it is *)
(* no longer due, and the time can be taken from a GGA only while there is *)
(* no date.                                                                *)
(***************************************************************************)
EXTENDS NmeaTelemetry, SequenceTheorems, WellFoundedInduction, TLAPS

--------------------------------------------------------------------------------
(* Induction, by the least natural number of a set.                        *)

\* A nonempty set of natural numbers has a least element.
LEMMA LeastOf ==
    ASSUME NEW S \in SUBSET Nat, S # {}
    PROVE  \E n \in S : \A m \in S : n <= m
<1> DEFINE R == OpToRel(<, Nat)
<1>1. IsWellFoundedOn(R, Nat)
    BY NatLessThanWellFounded
<1>2. \A m, n \in Nat : m < n => <<m, n>> \in R
    BY DEF OpToRel
<1> HIDE DEF R
<1>3. PICK n \in S : \A m \in S : <<m, n>> \notin R
    BY <1>1, WFMin
<1>4. ASSUME NEW m \in S PROVE n <= m
    <2>1. m \in Nat /\ n \in Nat /\ ~(m < n)
        BY <1>2, <1>3
    <2> QED BY <2>1
<1> QED BY <1>4

\* A set that holds 0 and every successor of its members is Nat.
LEMMA Induction ==
    ASSUME NEW S \in SUBSET Nat, 0 \in S, \A n \in S : n + 1 \in S
    PROVE  S = Nat
<1> SUFFICES ASSUME S # Nat PROVE FALSE
    OBVIOUS
<1>1. PICK n \in Nat \ S : \A m \in Nat \ S : n <= m
    BY LeastOf
<1>2. n - 1 \in S
    BY <1>1
<1> QED BY <1>1, <1>2

--------------------------------------------------------------------------------
(* What buffer_sat and rebuild_live_sat_list compute.                      *)

Distinct(s) == \A i, j \in 1..Len(s) : s[i] = s[j] => i = j

IsStaging(f, sats, message, n) ==
    f = [i \in 0..n |-> IF i = 0 THEN sats ELSE BufferSat(f[i - 1], message[i])]

\* The satellites of a message can be staged one after the other.
LEMMA StagingRuns ==
    ASSUME NEW sats, NEW message, NEW len \in Nat
    PROVE  \E f : IsStaging(f, sats, message, len)
<1> DEFINE S == {n \in Nat : \E f : IsStaging(f, sats, message, n)}
<1>1. 0 \in S
    <2>1. IsStaging([i \in 0..0 |-> sats], sats, message, 0)
        BY DEF IsStaging
    <2> QED BY <2>1
<1>2. ASSUME NEW n \in S PROVE n + 1 \in S
    <2>1. PICK b : IsStaging(b, sats, message, n)
        OBVIOUS
    <2> DEFINE c == [i \in 0..n + 1 |->
                        IF i <= n THEN b[i] ELSE BufferSat(b[n], message[n + 1])]
    <2>2. ASSUME NEW i \in 0..n + 1
          PROVE  c[i] = IF i = 0 THEN sats ELSE BufferSat(c[i - 1], message[i])
        <3>1. CASE i <= n
            BY <2>1, <3>1 DEF IsStaging
        <3>2. CASE i = n + 1
            BY <2>1, <3>2 DEF IsStaging
        <3> QED BY <3>1, <3>2
    <2>3. IsStaging(c, sats, message, n + 1)
        BY <2>2 DEF IsStaging
    <2> QED BY <2>3
<1>3. S \in SUBSET Nat
    OBVIOUS
<1> HIDE DEF S
<1>4. len \in S
    BY <1>1, <1>2, <1>3, Induction
<1> QED BY <1>4 DEF S

\* Buffered is the last step of such a run.
LEMMA BufferedRun ==
    ASSUME NEW sats, NEW message \in Seq(Nat)
    PROVE  \E staged :
               /\ staged[0] = sats
               /\ \A i \in 1..Len(message) :
                    staged[i] = BufferSat(staged[i - 1], message[i])
               /\ Buffered(sats, message) = staged[Len(message)]
<1> DEFINE b == CHOOSE f : IsStaging(f, sats, message, Len(message))
<1>1. Len(message) \in Nat
    OBVIOUS
<1>2. IsStaging(b, sats, message, Len(message))
    BY <1>1, StagingRuns, Zenon
<1>3. b = [i \in 0..Len(message) |->
               IF i = 0 THEN sats ELSE BufferSat(b[i - 1], message[i])]
    BY <1>2 DEF IsStaging
<1>4. Buffered(sats, message) = b[Len(message)]
    BY DEF Buffered, IsStaging
<1> HIDE DEF b
<1>5. b[0] = sats
    BY <1>1, <1>3
<1>6. ASSUME NEW i \in 1..Len(message)
      PROVE  b[i] = BufferSat(b[i - 1], message[i])
    <2>1. i \in 0..Len(message) /\ i # 0
        BY <1>1
    <2> QED BY <1>3, <2>1
<1> QED BY <1>4, <1>5, <1>6

\* One satellite is staged, unless it is already or there is no room.
LEMMA BufferSatAdds ==
    ASSUME NEW sats \in Seq(Nat), Distinct(sats), Len(sats) <= MaxSats, NEW s \in Nat
    PROVE  LET b == BufferSat(sats, s) IN
           /\ b \in Seq(Nat) /\ Distinct(b) /\ Len(b) <= MaxSats
           /\ Len(sats) = MaxSats => b = sats
           /\ Len(b) = MaxSats \/ ToSet(b) = ToSet(sats) \cup {s}
<1> DEFINE b == BufferSat(sats, s)
<1>0. MaxSats \in Nat /\ Len(sats) \in Nat
    BY SizesAssumption
<1>1. CASE s \in ToSet(sats) \/ Len(sats) = MaxSats
    BY <1>1 DEF BufferSat
<1>2. CASE ~(s \in ToSet(sats) \/ Len(sats) = MaxSats)
    <2>1. b = Append(sats, s)
        BY <1>2 DEF BufferSat
    <2>2. /\ b \in Seq(Nat) /\ Len(b) = Len(sats) + 1 /\ b[Len(sats) + 1] = s
          /\ \A i \in 1..Len(sats) : b[i] = sats[i]
        BY <2>1, AppendProperties
    <2>3. \A i \in 1..Len(sats) : sats[i] # s
        BY <1>2 DEF ToSet
    <2> HIDE DEF b
    <2>4. Distinct(b)
        <3>1. SUFFICES ASSUME NEW i \in 1..Len(b), NEW j \in 1..Len(b), b[i] = b[j]
                       PROVE  i = j
            BY DEF Distinct
        <3>2. \A k \in 1..Len(b) : k \in 1..Len(sats) \/ k = Len(sats) + 1
            BY <1>0, <2>2
        <3>3. CASE i \in 1..Len(sats) /\ j \in 1..Len(sats)
            BY <2>2, <3>1, <3>3 DEF Distinct
        <3>4. CASE i \in 1..Len(sats) /\ j = Len(sats) + 1
            BY <2>2, <2>3, <3>1, <3>4
        <3>5. CASE i = Len(sats) + 1 /\ j \in 1..Len(sats)
            BY <2>2, <2>3, <3>1, <3>5
        <3> QED BY <3>2, <3>3, <3>4, <3>5
    <2>5. ToSet(b) = ToSet(sats) \cup {s}
        <3>1. DOMAIN b = 1..Len(sats) + 1 /\ DOMAIN sats = 1..Len(sats)
            BY <2>2
        <3>2. \A i \in DOMAIN b : b[i] = s \/ (i \in DOMAIN sats /\ b[i] = sats[i])
            BY <1>0, <2>2, <3>1
        <3>3. Len(sats) + 1 \in DOMAIN b /\ \A i \in DOMAIN sats : i \in DOMAIN b
            BY <1>0, <3>1
        <3>4. \A i \in DOMAIN sats : b[i] = sats[i]
            BY <2>2, <3>1
        <3>5. \A x : x \in ToSet(b) <=> x \in ToSet(sats) \/ x = s
            BY <2>2, <3>2, <3>3, <3>4 DEF ToSet
        <3> QED BY <3>5
    <2>6. Len(b) <= MaxSats /\ Len(sats) # MaxSats
        BY <1>0, <1>2, <2>2
    <2> QED BY <2>2, <2>4, <2>5, <2>6 DEF b
<1> QED BY <1>1, <1>2

\* What a message leaves staged: no satellite twice, never more than there is
\* room for, and all of the old and the new unless the room is full.
LEMMA BufferedAdds ==
    ASSUME NEW sats \in Seq(Nat), Distinct(sats), Len(sats) <= MaxSats,
           NEW message \in Seq(Nat)
    PROVE  LET b == Buffered(sats, message) IN
           /\ b \in Seq(Nat) /\ Distinct(b) /\ Len(b) <= MaxSats
           /\ Len(sats) = MaxSats => b = sats
           /\ Len(b) = MaxSats \/ ToSet(b) = ToSet(sats) \cup ToSet(message)
<1>1. PICK staged :
          /\ staged[0] = sats
          /\ \A i \in 1..Len(message) : staged[i] = BufferSat(staged[i - 1], message[i])
          /\ Buffered(sats, message) = staged[Len(message)]
    BY BufferedRun
<1> DEFINE Good(b, n) ==
        /\ b \in Seq(Nat) /\ Distinct(b) /\ Len(b) <= MaxSats
        /\ Len(sats) = MaxSats => b = sats
        /\ Len(b) = MaxSats \/ ToSet(b) = ToSet(sats) \cup {message[i] : i \in 1..n}
    S == {n \in Nat : n <= Len(message) => Good(staged[n], n)}
<1>2. Len(message) \in Nat
    OBVIOUS
<1>3. 0 \in S
    BY <1>1
<1> HIDE DEF Good
<1>4. ASSUME NEW n \in S PROVE n + 1 \in S
    <2>0. n \in Nat
        OBVIOUS
    <2> SUFFICES ASSUME n + 1 <= Len(message) PROVE Good(staged[n + 1], n + 1)
        BY <2>0 DEF S
    <2>1. Good(staged[n], n) /\ n \in Nat
        <3>1. n <= Len(message)
            BY <1>2, <2>0
        <3> QED BY <2>0, <3>1
    <2> USE DEF Good
    <2>2. staged[n + 1] = BufferSat(staged[n], message[n + 1]) /\ message[n + 1] \in Nat
        <3>1. n + 1 \in 1..Len(message) /\ (n + 1) - 1 = n
            BY <1>2, <2>0
        <3>2. message[n + 1] \in Nat
            BY <3>1
        <3> QED BY <1>1, <3>1, <3>2
    <2>3. /\ staged[n + 1] \in Seq(Nat) /\ Distinct(staged[n + 1])
          /\ Len(staged[n + 1]) <= MaxSats
          /\ Len(staged[n]) = MaxSats => staged[n + 1] = staged[n]
          /\ \/ Len(staged[n + 1]) = MaxSats
             \/ ToSet(staged[n + 1]) = ToSet(staged[n]) \cup {message[n + 1]}
        BY <2>1, <2>2, BufferSatAdds
    <2>4. {message[i] : i \in 1..n + 1} = {message[i] : i \in 1..n} \cup {message[n + 1]}
        BY <2>1
    <2> QED BY <2>1, <2>3, <2>4
<1>5. S \in SUBSET Nat
    OBVIOUS
<1> HIDE DEF S
<1>6. Len(message) \in S
    BY <1>2, <1>3, <1>4, <1>5, Induction
<1>7. Good(staged[Len(message)], Len(message))
    BY <1>2, <1>6 DEF S
<1>8. ToSet(message) = {message[i] : i \in 1..Len(message)}
    BY DEF ToSet
<1> QED BY <1>1, <1>7, <1>8 DEF Good

Satellite == Constellation \X Nat

\* The list l has every satellite of sats as one of c.
Lists(l, c, sats) == \A s \in ToSet(sats) : \E i \in 1..Len(l) : l[i] = <<c, s>>

\* Copying a constellation behind the earlier ones lists none of its satellites
\* twice, never more than there is room for, and all of them if there is.
LEMMA CopiedAdds ==
    ASSUME NEW listed \in Seq(Satellite), Distinct(listed), Len(listed) <= MaxSats,
           NEW c \in Constellation, \A i \in 1..Len(listed) : listed[i][1] < c,
           NEW sats \in Seq(Nat), Distinct(sats)
    PROVE  LET l == Copied(listed, c, sats) IN
           /\ l \in Seq(Satellite) /\ Distinct(l) /\ Len(l) <= MaxSats
           /\ \A i \in 1..Len(l) : l[i][1] = c \/ \E j \in 1..Len(listed) : l[i] = listed[j]
           /\ Len(listed) <= Len(l) /\ \A i \in 1..Len(listed) : l[i] = listed[i]
           /\ Len(l) = MaxSats \/ Lists(l, c, sats)
<1> DEFINE room == Least(Len(sats), MaxSats - Len(listed))
           copy == [i \in 1..room |-> <<c, sats[i]>>]
           l == listed \o copy
<1>1. /\ Len(listed) \in Nat /\ Len(sats) \in Nat /\ MaxSats \in Nat /\ c \in Int
      /\ \A i \in 1..Len(sats) : sats[i] \in Nat
    BY SizesAssumption DEF Constellation
<1>2. room \in Nat /\ room <= Len(sats) /\ Len(listed) + room <= MaxSats
    BY <1>1 DEF Least
<1>3. Copied(listed, c, sats) = l
    BY DEF Copied
<1> HIDE DEF room
<1>4. \A k \in 1..room : k \in 1..Len(sats)
    BY <1>1, <1>2
<1>5. copy \in Seq(Satellite) /\ Len(copy) = room
    BY <1>1, <1>2 DEF Satellite
<1>6. \A i \in 1..room : copy[i] = <<c, sats[i]>>
    OBVIOUS
<1> HIDE DEF copy
<1>7. /\ l \in Seq(Satellite) /\ Len(l) = Len(listed) + room
      /\ \A i \in 1..Len(listed) + room :
            l[i] = IF i <= Len(listed) THEN listed[i] ELSE copy[i - Len(listed)]
    BY <1>5, ConcatProperties
<1> HIDE DEF l
<1>8. ASSUME NEW i \in 1..Len(l)
      PROVE  \/ i \in 1..Len(listed) /\ l[i] = listed[i]
             \/ \E k \in 1..room : i = Len(listed) + k /\ l[i] = <<c, sats[k]>>
    <2>1. CASE i <= Len(listed)
        BY <1>1, <1>2, <1>7, <2>1
    <2>2. CASE i > Len(listed)
        <3>1. i - Len(listed) \in 1..room /\ i = Len(listed) + (i - Len(listed))
            BY <1>1, <1>2, <1>7, <2>2
        <3>2. l[i] = copy[i - Len(listed)]
            BY <1>1, <1>2, <1>7, <2>2
        <3> QED BY <1>6, <3>1, <3>2
    <2> QED BY <1>1, <1>2, <1>7, <2>1, <2>2
<1>9. ASSUME NEW i \in 1..Len(l), NEW j \in 1..Len(l), l[i] = l[j] PROVE i = j
    <2>1. CASE i \in 1..Len(listed) /\ j \in 1..Len(listed) /\ l[i] = listed[i] /\ l[j] = listed[j]
        BY <1>9, <2>1 DEF Distinct
    <2>2. ASSUME NEW k \in 1..room, i = Len(listed) + k, l[i] = <<c, sats[k]>>,
                 NEW m \in 1..room, j = Len(listed) + m, l[j] = <<c, sats[m]>>
          PROVE  i = j
        <3>1. sats[k] = sats[m]
            BY <1>9, <2>2
        <3>2. k \in 1..Len(sats) /\ m \in 1..Len(sats)
            BY <1>4
        <3> QED BY <2>2, <3>1, <3>2 DEF Distinct
    <2>3. ASSUME NEW m \in 1..Len(listed), NEW k \in 1..room,
                 listed[m] = <<c, sats[k]>>
          PROVE  FALSE
        BY <1>1, <2>3
    <2>4. CASE i \in 1..Len(listed) /\ l[i] = listed[i]
        BY <1>8, <1>9, <2>1, <2>3, <2>4
    <2>5. CASE \E k \in 1..room : i = Len(listed) + k /\ l[i] = <<c, sats[k]>>
        BY <1>8, <1>9, <2>2, <2>3, <2>5
    <2> QED BY <1>8, <2>4, <2>5
<1>10. Len(listed) <= Len(l) /\ \A i \in 1..Len(listed) : l[i] = listed[i]
    BY <1>1, <1>2, <1>7
<1>11. ASSUME room = Len(sats) PROVE Lists(l, c, sats)
    <2>1. ASSUME NEW k \in 1..Len(sats)
          PROVE  \E i \in 1..Len(l) : l[i] = <<c, sats[k]>>
        <3>1. Len(listed) + k \in 1..Len(l) /\ ~(Len(listed) + k <= Len(listed))
            BY <1>1, <1>7, <1>11
        <3>2. l[Len(listed) + k] = copy[k]
            BY <1>1, <1>7, <3>1
        <3>3. copy[k] = <<c, sats[k]>>
            BY <1>6, <1>11
        <3> QED BY <3>1, <3>2, <3>3
    <2>2. ToSet(sats) = {sats[k] : k \in 1..Len(sats)}
        BY DEF ToSet
    <2>3. ASSUME NEW s \in ToSet(sats) PROVE \E i \in 1..Len(l) : l[i] = <<c, s>>
        BY <2>1, <2>2
    <2> QED BY <2>3 DEF Lists
<1>12. room = Len(sats) \/ Len(l) = MaxSats
    BY <1>1, <1>7 DEF room, Least
<1>14. \A i \in 1..Len(l) : l[i][1] = c \/ \E j \in 1..Len(listed) : l[i] = listed[j]
    BY <1>8
<1>15. Distinct(l)
    BY <1>9 DEF Distinct
<1>13. Len(l) = MaxSats \/ Lists(l, c, sats)
    BY <1>11, <1>12
<1>16. l \in Seq(Satellite) /\ Len(l) <= MaxSats
    BY <1>1, <1>2, <1>7
<1> QED BY <1>3, <1>14, <1>15, <1>10, <1>13, <1>16, Zenon

IsListing(f, g, t, n) ==
    f = [c \in 0..n |->
            IF c = 0 THEN <<>>
            ELSE IF Fresh(g[c], t) THEN Copied(f[c - 1], c, g[c].sats)
            ELSE f[c - 1]]

\* The constellations can be listed one after the other.
LEMMA ListingRuns ==
    ASSUME NEW g, NEW t, NEW len \in Nat
    PROVE  \E f : IsListing(f, g, t, len)
<1> DEFINE S == {n \in Nat : \E f : IsListing(f, g, t, n)}
<1>1. 0 \in S
    <2>1. IsListing([c \in 0..0 |-> <<>>], g, t, 0)
        BY DEF IsListing
    <2> QED BY <2>1
<1>2. ASSUME NEW n \in S PROVE n + 1 \in S
    <2>1. PICK b : IsListing(b, g, t, n)
        OBVIOUS
    <2> DEFINE new == IF Fresh(g[n + 1], t) THEN Copied(b[n], n + 1, g[n + 1].sats) ELSE b[n]
               f == [c \in 0..n + 1 |-> IF c <= n THEN b[c] ELSE new]
    <2>2. ASSUME NEW c \in 0..n + 1
          PROVE  f[c] = IF c = 0 THEN <<>>
                        ELSE IF Fresh(g[c], t) THEN Copied(f[c - 1], c, g[c].sats)
                        ELSE f[c - 1]
        <3>1. CASE c <= n
            BY <2>1, <3>1 DEF IsListing
        <3>2. CASE c = n + 1
            BY <2>1, <3>2 DEF IsListing
        <3> QED BY <3>1, <3>2
    <2>3. IsListing(f, g, t, n + 1)
        BY <2>2 DEF IsListing
    <2> QED BY <2>3
<1>3. S \in SUBSET Nat
    OBVIOUS
<1> HIDE DEF S
<1>4. len \in S
    BY <1>1, <1>2, <1>3, Induction
<1> QED BY <1>4 DEF S

\* Rebuilt is the last step of such a run.
LEMMA RebuiltRun ==
    ASSUME NEW g, NEW t
    PROVE  \E f : /\ f[0] = <<>>
                  /\ \A c \in Constellation :
                        f[c] = IF Fresh(g[c], t) THEN Copied(f[c - 1], c, g[c].sats)
                                                 ELSE f[c - 1]
                  /\ Rebuilt(g, t) = f[N]
<1> DEFINE b == CHOOSE f : IsListing(f, g, t, N)
<1>1. N \in Nat
    BY SizesAssumption
<1>2. IsListing(b, g, t, N)
    BY <1>1, ListingRuns, Zenon
<1>3. Rebuilt(g, t) = b[N]
    BY DEF Rebuilt, IsListing
<1> HIDE DEF b
<1>4. b[0] = <<>>
    BY <1>1, <1>2 DEF IsListing
<1>5. \A c \in Constellation :
        b[c] = IF Fresh(g[c], t) THEN Copied(b[c - 1], c, g[c].sats) ELSE b[c - 1]
    BY <1>1, <1>2 DEF IsListing, Constellation
<1> QED BY <1>3, <1>4, <1>5

\* A longer list still has what the shorter one had.
LEMMA ListsMore ==
    ASSUME NEW l, NEW k, NEW c, NEW sats, Lists(l, c, sats), Len(l) \in Nat,
           Len(k) \in Nat, Len(l) <= Len(k), \A i \in 1..Len(l) : k[i] = l[i]
    PROVE  Lists(k, c, sats)
<1>1. ASSUME NEW s \in ToSet(sats) PROVE \E i \in 1..Len(k) : k[i] = <<c, s>>
    <2>1. PICK i \in 1..Len(l) : l[i] = <<c, s>>
        BY DEF Lists
    <2>2. i \in 1..Len(k)
        OBVIOUS
    <2> QED BY <2>1, <2>2
<1> QED BY <1>1 DEF Lists

\* A rebuilt list has no satellite twice, is not longer than the page's, holds
\* fresh constellations only and, unless it is full, all of these.
LEMMA RebuiltLists ==
    ASSUME NEW g, NEW t,
           \A c \in Constellation : g[c].sats \in Seq(Nat) /\ Distinct(g[c].sats)
    PROVE  LET l == Rebuilt(g, t) IN
           /\ l \in Seq(Satellite) /\ Distinct(l) /\ Len(l) <= MaxSats
           /\ \A i \in 1..Len(l) : Fresh(g[l[i][1]], t)
           /\ Len(l) = MaxSats \/ \A c \in Constellation :
                                    Fresh(g[c], t) => Lists(l, c, g[c].sats)
<1>1. PICK f : /\ f[0] = <<>>
               /\ \A c \in Constellation :
                    f[c] = IF Fresh(g[c], t) THEN Copied(f[c - 1], c, g[c].sats)
                                             ELSE f[c - 1]
               /\ Rebuilt(g, t) = f[N]
    BY RebuiltRun
<1> DEFINE Good(l, n) ==
        /\ l \in Seq(Satellite) /\ Distinct(l) /\ Len(l) <= MaxSats
        /\ \A i \in 1..Len(l) : l[i][1] <= n /\ Fresh(g[l[i][1]], t)
        /\ Len(l) = MaxSats \/ \A c \in 1..n : Fresh(g[c], t) => Lists(l, c, g[c].sats)
    S == {n \in Nat : n <= N => Good(f[n], n)}
<1>2. N \in Nat /\ MaxSats \in Nat
    BY SizesAssumption
<1>3. 0 \in S
    <2>1. Good(<<>>, 0)
        BY <1>2 DEF Distinct
    <2> QED BY <1>1, <2>1, Zenon
<1> HIDE DEF Good
<1>4. ASSUME NEW n \in S PROVE n + 1 \in S
    <2>0. n \in Nat
        OBVIOUS
    <2> SUFFICES ASSUME n + 1 <= N PROVE Good(f[n + 1], n + 1)
        BY <2>0 DEF S
    <2>1. Good(f[n], n) /\ n + 1 \in Constellation /\ (n + 1) - 1 = n
        BY <1>2, <2>0 DEF Constellation
    <2>2. f[n + 1] = IF Fresh(g[n + 1], t) THEN Copied(f[n], n + 1, g[n + 1].sats) ELSE f[n]
        BY <1>1, <2>1
    <2>3. ASSUME NEW i \in 1..Len(f[n])
          PROVE  f[n][i][1] \in Nat /\ f[n][i][1] <= n
        <3>1. f[n] \in Seq(Satellite) /\ f[n][i][1] <= n
            BY <2>1 DEF Good
        <3>2. f[n][i] \in Satellite
            BY <3>1
        <3> QED BY <1>2, <3>1, <3>2 DEF Satellite, Constellation
    <2>4. CASE Fresh(g[n + 1], t)
        <3>1. f[n + 1] = Copied(f[n], n + 1, g[n + 1].sats)
            BY <2>2, <2>4
        <3>2. \A i \in 1..Len(f[n]) : f[n][i][1] < n + 1
            BY <2>0, <2>3
        <3> DEFINE l == f[n]
                   new == g[n + 1].sats
                   d == n + 1
        <3>3. /\ l \in Seq(Satellite) /\ Distinct(l) /\ Len(l) <= MaxSats
              /\ d \in Constellation /\ new \in Seq(Nat) /\ Distinct(new)
              /\ \A i \in 1..Len(l) : l[i][1] < d
            BY <2>1, <3>2 DEF Good
        <3> HIDE DEF l, new, d
        <3>4. LET k == Copied(l, d, new) IN
              /\ k \in Seq(Satellite) /\ Distinct(k) /\ Len(k) <= MaxSats
              /\ \A i \in 1..Len(k) : k[i][1] = d \/ \E j \in 1..Len(l) : k[i] = l[j]
              /\ Len(l) <= Len(k) /\ \A i \in 1..Len(l) : k[i] = l[i]
              /\ Len(k) = MaxSats \/ Lists(k, d, new)
            BY <3>3, CopiedAdds
        <3>5. /\ f[n + 1] \in Seq(Satellite) /\ Distinct(f[n + 1]) /\ Len(f[n + 1]) <= MaxSats
              /\ \A i \in 1..Len(f[n + 1]) :
                    f[n + 1][i][1] = n + 1 \/ \E j \in 1..Len(f[n]) : f[n + 1][i] = f[n][j]
              /\ Len(f[n]) <= Len(f[n + 1])
              /\ \A i \in 1..Len(f[n]) : f[n + 1][i] = f[n][i]
              /\ Len(f[n + 1]) = MaxSats \/ Lists(f[n + 1], n + 1, g[n + 1].sats)
            BY <3>1, <3>4 DEF l, new, d
        <3>6. \A i \in 1..Len(f[n + 1]) :
                f[n + 1][i][1] <= n + 1 /\ Fresh(g[f[n + 1][i][1]], t)
            <4> TAKE i \in 1..Len(f[n + 1])
            <4>1. CASE f[n + 1][i][1] = n + 1
                BY <2>0, <2>4, <4>1
            <4>2. CASE \E j \in 1..Len(f[n]) : f[n + 1][i] = f[n][j]
                <5>1. PICK j \in 1..Len(f[n]) : f[n + 1][i] = f[n][j]
                    BY <4>2
                <5>2. f[n][j][1] <= n /\ Fresh(g[f[n][j][1]], t)
                    BY <2>1 DEF Good
                <5>3. f[n + 1][i][1] = f[n][j][1]
                    BY <5>1
                <5>4. f[n][j][1] <= n + 1
                    BY <2>0, <2>3, <5>2
                <5> QED BY <5>2, <5>3, <5>4, Zenon
            <4> QED BY <3>5, <4>1, <4>2
        <3>7. ASSUME Len(f[n + 1]) # MaxSats, NEW c \in 1..n + 1, Fresh(g[c], t)
              PROVE  Lists(f[n + 1], c, g[c].sats)
            <4>1. CASE c = n + 1
                BY <3>5, <3>7, <4>1
            <4>2. CASE c # n + 1
                <5>1. c \in 1..n
                    BY <2>0, <4>2
                <5>2. /\ Len(f[n]) \in Nat /\ Len(f[n]) <= MaxSats
                      /\ Len(f[n + 1]) \in Nat /\ Len(f[n + 1]) <= MaxSats
                    BY <2>1, <3>5 DEF Good
                <5>3. Len(f[n]) # MaxSats
                    BY <1>2, <3>5, <3>7, <5>2
                <5>4. Lists(f[n], c, g[c].sats)
                    BY <2>1, <3>7, <5>1, <5>3 DEF Good
                <5> QED BY <3>5, <5>2, <5>4, ListsMore
            <4> QED BY <4>1, <4>2
        <3> QED BY <3>5, <3>6, <3>7 DEF Good
    <2>5. CASE ~Fresh(g[n + 1], t)
        <3>1. f[n + 1] = f[n]
            BY <2>2, <2>5
        <3>2. \A i \in 1..Len(f[n]) : f[n][i][1] <= n + 1
            BY <2>0, <2>3
        <3>3. \A c \in 1..n + 1 : Fresh(g[c], t) => c \in 1..n
            BY <2>0, <2>5
        <3> QED BY <2>1, <3>1, <3>2, <3>3 DEF Good
    <2> QED BY <2>4, <2>5
<1>5. S \in SUBSET Nat
    OBVIOUS
<1> HIDE DEF S
<1>6. N \in S
    BY <1>2, <1>3, <1>4, <1>5, Induction
<1>7. Good(f[N], N)
    BY <1>2, <1>6 DEF S
<1> QED BY <1>1, <1>7 DEF Good, Constellation

--------------------------------------------------------------------------------
(* The satellite list.                                                     *)

Staging == [sats : Seq(Nat), total : Nat, last : Nat, updated : 0..Wrap - 1]

StagingFits(s) ==
    s \in Staging /\ Distinct(s.sats) /\ Len(s.sats) <= MaxSats /\ s.last <= s.total

ListFits(l) == l \in Seq(Satellite) /\ Distinct(l) /\ Len(l) <= MaxSats

ListShape ==
    /\ time \in Nat /\ rpc \in {"idle", "rebuild", "copy"} /\ now \in 0..Wrap - 1
    /\ epoch \in [Constellation -> Seq(Seq(Nat))] /\ sent \in [Constellation -> Nat]
    /\ first \in [Constellation -> BOOLEAN] /\ gsv \in [Constellation -> Staging]
    /\ \A c \in Constellation :
        /\ epoch[c] \in Epochs[c] \cup {<<>>} /\ sent[c] <= Len(epoch[c])
        /\ StagingFits(gsv[c])
    /\ ListFits(live)

\* The satellites of the first k messages of a sequence.
ToldBy(e, k) == UNION {ToSet(e[n]) : n \in 1..k}

\* Since the first message of its sequence arrived, a constellation has staged
\* what it was told, or has missed a message and takes no other before the next
\* first one.
StagedWhole(s, e, k) ==
    /\ s.last <= k /\ s.total = Len(e)
    /\ s.last = k => ToSet(s.sats) = ToldBy(e, k) \/ Len(s.sats) = MaxSats

Followed == \A c \in Constellation : first[c] => StagedWhole(gsv[c], epoch[c], sent[c])

ListInv == ListShape /\ Followed

\* Before millis() wraps, a constellation was updated in the past; and what is
\* listed for a snapshot was fresh when the snapshot read the clock.
Recent ==
    /\ time <= MaxTime
    /\ rpc # "idle" => now <= time
    /\ \A c \in Constellation : gsv[c].updated <= time
    /\ NothingStale

\* One more message tells its satellites.
LEMMA ToldByNext ==
    ASSUME NEW e, NEW k \in Nat
    PROVE  /\ ToldBy(e, 1) = ToSet(e[1])
           /\ ToldBy(e, k + 1) = ToldBy(e, k) \cup ToSet(e[k + 1])
<1>1. 1..1 = {1} /\ 1..k + 1 = (1..k) \cup {k + 1}
    OBVIOUS
<1>2. ToldBy(e, 1) = ToSet(e[1])
    BY <1>1 DEF ToldBy
<1>3. \A x : x \in ToldBy(e, k + 1) <=> x \in ToldBy(e, k) \/ x \in ToSet(e[k + 1])
    BY <1>1, Zenon DEF ToldBy
<1> QED BY <1>2, <1>3

\* The staging buffer of a constellation is emptied.
LEMMA Emptied ==
    ASSUME NEW s \in Staging
    PROVE  LET r == [s EXCEPT !.sats = <<>>] IN
           /\ r \in Staging /\ r.sats = <<>> /\ r.total = s.total
           /\ r.last = s.last /\ r.updated = s.updated
<1>1. DOMAIN s = {"sats", "total", "last", "updated"}
    BY DEF Staging
<1>2. [s EXCEPT !.sats = <<>>]
        = [sats |-> <<>>, total |-> s.total, last |-> s.last, updated |-> s.updated]
    BY <1>1
<1>3. <<>> \in Seq(Nat) /\ s.total \in Nat /\ s.last \in Nat /\ s.updated \in 0..Wrap - 1
    BY DEF Staging
<1> QED BY <1>2, <1>3 DEF Staging

\* r is what staging message n of `of` has to make of s.
IsStaged(r, s, n, of, message) ==
    /\ StagingFits(r) /\ r.last = n /\ r.total = of
    /\ r.updated = IF n = of THEN Millis ELSE s.updated
    /\ n = 1 => ToSet(r.sats) = ToSet(message) \/ Len(r.sats) = MaxSats
    /\ n # 1 => /\ n = s.last + 1 /\ of = s.total
                /\ Len(s.sats) = MaxSats => Len(r.sats) = MaxSats
                /\ \/ ToSet(r.sats) = ToSet(s.sats) \cup ToSet(message)
                   \/ Len(r.sats) = MaxSats

\* Stage does make that of a message in sequence.
LEMMA StageFits ==
    ASSUME NEW s, StagingFits(s), NEW of \in Nat, NEW n \in 1..of, NEW message \in Seq(Nat),
           InSequence(s, n, of), time \in Nat, NEW r, r = Stage(s, n, of, message)
    PROVE  IsStaged(r, s, n, of, message)
<1> DEFINE old == IF n = 1 THEN <<>> ELSE s.sats
<1>1. /\ s \in Staging /\ Distinct(s.sats) /\ Len(s.sats) <= MaxSats
      /\ s.sats \in Seq(Nat) /\ s.updated \in 0..Wrap - 1
    BY DEF StagingFits, Staging
<1>2. Millis \in 0..Wrap - 1
    BY SizesAssumption DEF Millis
<1>3. /\ r.sats = Buffered(old, message) /\ r.total = of /\ r.last = n
      /\ r.updated = IF n = of THEN Millis ELSE s.updated
      /\ r = [sats |-> r.sats, total |-> of, last |-> n, updated |-> r.updated]
    BY DEF Stage
<1>4. /\ old \in Seq(Nat) /\ Distinct(old) /\ Len(old) <= MaxSats
    <2>1. <<>> \in Seq(Nat) /\ Distinct(<<>>) /\ Len(<<>>) <= MaxSats
        BY SizesAssumption DEF Distinct
    <2> QED BY <1>1, <2>1
<1>5. n = 1 => ToSet(old) = {}
    BY DEF ToSet
<1>6. n # 1 => old = s.sats
    OBVIOUS
<1> HIDE DEF old
<1>7. /\ r.sats \in Seq(Nat) /\ Distinct(r.sats) /\ Len(r.sats) <= MaxSats
      /\ Len(old) = MaxSats => r.sats = old
      /\ Len(r.sats) = MaxSats \/ ToSet(r.sats) = ToSet(old) \cup ToSet(message)
    BY <1>3, <1>4, BufferedAdds
<1>8. r.updated \in 0..Wrap - 1
    BY <1>1, <1>2, <1>3
<1>9. StagingFits(r)
    BY <1>3, <1>7, <1>8 DEF StagingFits, Staging
<1>10. n # 1 => n = s.last + 1 /\ of = s.total
    BY DEF InSequence
<1> QED BY <1>3, <1>5, <1>6, <1>7, <1>9, <1>10 DEF IsStaged

\* A rebuilt list.
LEMMA RebuiltFits ==
    ASSUME NEW g, NEW t, \A c \in Constellation : StagingFits(g[c])
    PROVE  /\ ListFits(Rebuilt(g, t))
           /\ \A i \in 1..Len(Rebuilt(g, t)) : Fresh(g[Rebuilt(g, t)[i][1]], t)
<1>1. \A c \in Constellation : g[c].sats \in Seq(Nat) /\ Distinct(g[c].sats)
    BY DEF StagingFits, Staging
<1> QED BY <1>1, RebuiltLists DEF ListFits

\* What the receiver sends next.
LEMMA SendFits ==
    ASSUME ListShape, NEW c \in Constellation, NEW e \in Epochs[c], NEW n \in 1..Len(e),
           Send(c, e, n)
    PROVE  /\ e \in Seq(Seq(Nat)) /\ Len(e) \in Nat /\ e[n] \in Seq(Nat)
           /\ epoch' = [epoch EXCEPT ![c] = e] /\ sent' = [sent EXCEPT ![c] = n]
           /\ epoch' \in [Constellation -> Seq(Seq(Nat))] /\ sent' \in [Constellation -> Nat]
           /\ \A d \in Constellation :
                 epoch'[d] \in Epochs[d] \cup {<<>>} /\ sent'[d] <= Len(epoch'[d])
           /\ n # 1 => e = epoch[c] /\ n = sent[c] + 1
<1>1. e \in Seq(Seq(Nat)) /\ Len(e) \in Nat /\ e[n] \in Seq(Nat)
    BY EpochsAssumption
<1>2. epoch' = [epoch EXCEPT ![c] = e] /\ sent' = [sent EXCEPT ![c] = n]
    BY DEF Send
<1>3. n # 1 => e = epoch[c] /\ n = sent[c] + 1
    BY DEF Send
<1>4. epoch' \in [Constellation -> Seq(Seq(Nat))] /\ sent' \in [Constellation -> Nat]
    BY <1>1, <1>2 DEF ListShape
<1>5. ASSUME NEW d \in Constellation
      PROVE  epoch'[d] \in Epochs[d] \cup {<<>>} /\ sent'[d] <= Len(epoch'[d])
    <2>1. CASE d = c
        BY <1>1, <1>2, <2>1 DEF ListShape
    <2>2. CASE d # c
        BY <1>2, <2>2 DEF ListShape
    <2> QED BY <2>1, <2>2
<1> QED BY <1>1, <1>2, <1>3, <1>4, <1>5

\* A message that arrives is staged or rejected; either way what is staged of
\* its constellation fits and is whole if it was followed.
LEMMA GsvStages ==
    ASSUME ListInv, NEW c \in Constellation, NEW e \in Epochs[c], NEW n \in 1..Len(e),
           Gsv(c, e, n)
    PROVE  \E s : /\ gsv' = [gsv EXCEPT ![c] = s] /\ StagingFits(s)
                  /\ \/ s.updated = gsv[c].updated /\ live' = live
                     \/ s.updated = Millis /\ live' = Rebuilt(gsv', Millis)
                  /\ first'[c] => StagedWhole(s, e, n)
<1>1. /\ e \in Seq(Seq(Nat)) /\ Len(e) \in Nat /\ e[n] \in Seq(Nat)
      /\ n # 1 => e = epoch[c] /\ n = sent[c] + 1
    BY SendFits DEF Gsv, ListInv
<1>2. /\ StagingFits(gsv[c]) /\ gsv[c] \in Staging /\ DOMAIN gsv = Constellation
      /\ sent[c] \in Nat /\ time \in Nat /\ first \in [Constellation -> BOOLEAN]
    BY DEF ListInv, ListShape
<1>3. first'[c] => n = 1 \/ first[c]
    BY <1>2 DEF Gsv
<1>4. first[c] => StagedWhole(gsv[c], epoch[c], sent[c])
    BY DEF ListInv, Followed
<1>5. CASE GsvStage(c, n, Len(e), e[n])
    <2> DEFINE s == Stage(gsv[c], n, Len(e), e[n])
    <2>1. InSequence(gsv[c], n, Len(e)) /\ gsv' = [gsv EXCEPT ![c] = s]
        BY <1>5 DEF GsvStage
    <2>2. live' = IF n = Len(e) THEN Rebuilt(gsv', Millis) ELSE live
        BY <1>5 DEF GsvStage
    <2> HIDE DEF s
    <2>3. IsStaged(s, gsv[c], n, Len(e), e[n])
        <3> DEFINE old == gsv[c]
                   of == Len(e)
                   message == e[n]
        <3>1. /\ StagingFits(old) /\ of \in Nat /\ n \in 1..of /\ message \in Seq(Nat)
              /\ InSequence(old, n, of) /\ time \in Nat
            BY <1>1, <1>2, <2>1
        <3>2. s = Stage(old, n, of, message)
            BY DEF s
        <3> HIDE DEF old, of, message
        <3>3. IsStaged(s, old, n, of, message)
            BY <3>1, <3>2, StageFits
        <3> QED BY <3>3 DEF old, of, message
    <2>4. ASSUME n = 1 PROVE StagedWhole(s, e, n)
        <3>1. ToldBy(e, 1) = ToSet(e[1])
            BY <1>2, ToldByNext
        <3> QED BY <2>3, <2>4, <3>1 DEF StagedWhole, IsStaged
    <2>5. ASSUME n # 1, first[c] PROVE StagedWhole(s, e, n)
        <3>0. gsv[c].last \in Nat
            BY <1>2 DEF Staging
        <3>1. n = gsv[c].last + 1
            BY <2>3, <2>5 DEF IsStaged
        <3>2. e = epoch[c] /\ n = sent[c] + 1
            BY <1>1, <2>5
        <3>3. gsv[c].last = sent[c]
            BY <1>2, <3>0, <3>1, <3>2
        <3>4. ToSet(gsv[c].sats) = ToldBy(e, sent[c]) \/ Len(gsv[c].sats) = MaxSats
            BY <1>4, <2>5, <3>2, <3>3 DEF StagedWhole
        <3>5. ToldBy(e, n) = ToldBy(e, sent[c]) \cup ToSet(e[n])
            BY <1>2, <3>2, ToldByNext
        <3>6. /\ s.last = n /\ s.total = Len(e)
              /\ Len(gsv[c].sats) = MaxSats => Len(s.sats) = MaxSats
              /\ \/ ToSet(s.sats) = ToSet(gsv[c].sats) \cup ToSet(e[n])
                 \/ Len(s.sats) = MaxSats
            BY <2>3, <2>5 DEF IsStaged
        <3>7. ToSet(s.sats) = ToldBy(e, n) \/ Len(s.sats) = MaxSats
            BY <3>4, <3>5, <3>6
        <3> QED BY <3>6, <3>7 DEF StagedWhole
    <2> QED BY <1>3, <2>1, <2>2, <2>3, <2>4, <2>5 DEF IsStaged
<1>6. CASE GsvReject(c, n, Len(e))
    <2> DEFINE s == [gsv[c] EXCEPT !.sats = <<>>]
    <2>1. /\ gsv' = [gsv EXCEPT ![c] = s] /\ live' = live
          /\ ~InSequence(gsv[c], n, Len(e))
        BY <1>6 DEF GsvReject
    <2>2. /\ s \in Staging /\ s.sats = <<>> /\ s.total = gsv[c].total
          /\ s.last = gsv[c].last /\ s.updated = gsv[c].updated
        BY <1>2, Emptied
    <2> HIDE DEF s
    <2>3. StagingFits(s)
        BY <1>2, <2>2, SizesAssumption DEF StagingFits, Distinct
    <2>4. ASSUME first[c] PROVE StagedWhole(s, e, n)
        <3>1. e = epoch[c] /\ n = sent[c] + 1
            BY <1>1, <2>1 DEF InSequence
        <3>2. gsv[c].last <= sent[c] /\ gsv[c].total = Len(e) /\ gsv[c].last \in Nat
            BY <1>2, <1>4, <2>4, <3>1 DEF StagedWhole, Staging
        <3> QED BY <1>2, <2>2, <3>1, <3>2 DEF StagedWhole
    <2>5. n # 1
        BY <2>1 DEF InSequence
    <2> QED BY <1>3, <2>1, <2>2, <2>3, <2>4, <2>5
<1> QED BY <1>5, <1>6 DEF Gsv

\* A message that arrives keeps the invariant of the list.
LEMMA GsvListInv ==
    ASSUME ListInv, NEW c \in Constellation, NEW e \in Epochs[c], NEW n \in 1..Len(e),
           Gsv(c, e, n)
    PROVE  ListInv'
<1>1. PICK s : /\ gsv' = [gsv EXCEPT ![c] = s] /\ StagingFits(s)
               /\ \/ s.updated = gsv[c].updated /\ live' = live
                  \/ s.updated = Millis /\ live' = Rebuilt(gsv', Millis)
               /\ first'[c] => StagedWhole(s, e, n)
    BY GsvStages
<1>2. /\ epoch' = [epoch EXCEPT ![c] = e] /\ sent' = [sent EXCEPT ![c] = n]
      /\ epoch' \in [Constellation -> Seq(Seq(Nat))] /\ sent' \in [Constellation -> Nat]
      /\ \A d \in Constellation :
            epoch'[d] \in Epochs[d] \cup {<<>>} /\ sent'[d] <= Len(epoch'[d])
    BY SendFits DEF Gsv, ListInv
<1>3. /\ first' = [first EXCEPT ![c] = n = 1 \/ first[c]]
      /\ UNCHANGED <<time, rpc, now>>
    BY DEF Gsv, reader
<1>4. first' \in [Constellation -> BOOLEAN] /\ gsv' \in [Constellation -> Staging]
    BY <1>1, <1>3 DEF ListInv, ListShape, StagingFits
<1>5. \A d \in Constellation : StagingFits(gsv'[d])
    BY <1>1 DEF ListInv, ListShape
<1>6. ListFits(live')
    <2>1. CASE live' = live
        BY <2>1 DEF ListInv, ListShape
    <2>2. CASE live' = Rebuilt(gsv', Millis)
        BY <1>5, <2>2, RebuiltFits
    <2> QED BY <1>1, <2>1, <2>2
<1>7. ListShape'
    <2>1. \A d \in Constellation : StagingFits(gsv[d])'
        BY <1>5 DEF StagingFits
    <2>2. ListFits(live)'
        BY <1>6 DEF ListFits
    <2> QED BY <1>2, <1>3, <1>4, <2>1, <2>2 DEF ListInv, ListShape
<1>8. ASSUME NEW d \in Constellation, first'[d]
      PROVE  StagedWhole(gsv'[d], epoch'[d], sent'[d])
    <2>1. CASE d = c
        BY <1>1, <1>2, <1>8, <2>1 DEF ListInv, ListShape
    <2>2. CASE d # c
        BY <1>1, <1>2, <1>3, <1>8, <2>2 DEF ListInv, ListShape, Followed
    <2> QED BY <2>1, <2>2
<1>9. Followed'
    BY <1>8 DEF Followed, StagedWhole
<1> QED BY <1>7, <1>9 DEF ListInv

\* A lost message leaves a constellation behind.
LEMMA LoseListInv ==
    ASSUME ListInv, NEW c \in Constellation, NEW e \in Epochs[c], NEW n \in 1..Len(e),
           Lose(c, e, n)
    PROVE  ListInv'
<1>1. /\ epoch' = [epoch EXCEPT ![c] = e] /\ sent' = [sent EXCEPT ![c] = n]
      /\ epoch' \in [Constellation -> Seq(Seq(Nat))] /\ sent' \in [Constellation -> Nat]
      /\ \A d \in Constellation :
            epoch'[d] \in Epochs[d] \cup {<<>>} /\ sent'[d] <= Len(epoch'[d])
      /\ n # 1 => e = epoch[c] /\ n = sent[c] + 1
    BY SendFits DEF Lose, ListInv
<1>2. /\ first' = [first EXCEPT ![c] = n # 1 /\ first[c]]
      /\ UNCHANGED <<time, rpc, now, gsv, live>>
    BY DEF Lose, reader
<1>3. first' \in [Constellation -> BOOLEAN]
    BY <1>2 DEF ListInv, ListShape
<1>4. ListShape'
    BY <1>1, <1>2, <1>3 DEF ListInv, ListShape, StagingFits, ListFits
<1>5. ASSUME NEW d \in Constellation, first'[d]
      PROVE  StagedWhole(gsv[d], epoch'[d], sent'[d])
    <2>1. CASE d = c
        <3>1. first[c] /\ e = epoch[c] /\ n = sent[c] + 1
            BY <1>1, <1>2, <1>5, <2>1 DEF ListInv, ListShape
        <3>2. gsv[c].last <= sent[c] /\ gsv[c].total = Len(e) /\ gsv[c].last \in Nat
              /\ sent[c] \in Nat
            BY <3>1 DEF ListInv, ListShape, Followed, StagedWhole, Staging
        <3>3. epoch'[c] = e /\ sent'[c] = n
            BY <1>1 DEF ListInv, ListShape
        <3> QED BY <2>1, <3>1, <3>2, <3>3 DEF StagedWhole
    <2>2. CASE d # c
        BY <1>1, <1>2, <1>5, <2>2 DEF ListInv, ListShape, Followed
    <2> QED BY <2>1, <2>2
<1>6. Followed'
    BY <1>2, <1>5 DEF Followed, StagedWhole
<1> QED BY <1>4, <1>6 DEF ListInv

\* A snapshot rebuilds the list from what is staged.
LEMMA SnapshotListInv == ListInv /\ Snapshot => ListInv'
<1> SUFFICES ASSUME ListInv, Snapshot PROVE ListInv'
    OBVIOUS
<1>1. UNCHANGED <<time, receiver, gsv>> /\ rpc' \in {"idle", "rebuild", "copy"}
    BY DEF Snapshot, SnapNow, SnapRebuild, SnapCopy
<1>2. now' \in 0..Wrap - 1
    BY SizesAssumption
       DEF Snapshot, SnapNow, SnapRebuild, SnapCopy, ListInv, ListShape, Millis
<1>3. live' = live \/ live' = Rebuilt(gsv, now)
    BY DEF Snapshot, SnapNow, SnapRebuild, SnapCopy
<1>4. ListFits(live')
    BY <1>3, RebuiltFits DEF ListInv, ListShape
<1>5. ListShape'
    BY <1>1, <1>2, <1>4 DEF ListInv, ListShape, ListFits, StagingFits, receiver
<1>6. Followed'
    BY <1>1 DEF ListInv, Followed, StagedWhole, receiver
<1> QED BY <1>5, <1>6 DEF ListInv

\* Nothing is staged or listed at first.
LEMMA InitListInv == Init => ListInv
<1> SUFFICES ASSUME Init PROVE ListInv
    OBVIOUS
<1> DEFINE none == [sats |-> <<>>, total |-> 0, last |-> 0, updated |-> 0]
<1>1. StagingFits(none) /\ none \in Staging /\ ListFits(<<>>)
    BY SizesAssumption DEF StagingFits, Staging, ListFits, Distinct
<1>2. gsv = [c \in Constellation |-> none] /\ time = 1 /\ live = <<>>
    BY DEF Init
<1> HIDE DEF none
<1>3. ListShape
    BY <1>1, <1>2, SizesAssumption DEF Init, ListShape
<1> QED BY <1>3 DEF Init, ListInv, Followed

\* Every step keeps the invariant of the list.
LEMMA NextListInv == ListInv /\ [Next]_vars => ListInv'
<1> SUFFICES ASSUME ListInv, [Next]_vars PROVE ListInv'
    OBVIOUS
<1>1. CASE UNCHANGED list
    BY <1>1 DEF list, receiver, reader, ListInv, ListShape, Followed, StagedWhole,
                StagingFits, ListFits
<1>2. CASE Tick
    BY <1>2 DEF Tick, receiver, reader, ListInv, ListShape, Followed, StagedWhole,
                StagingFits, ListFits
<1>3. CASE Satellites
    BY <1>2, <1>3, GsvListInv, LoseListInv, SnapshotListInv DEF Satellites
<1>4. CASE Navigation
    BY <1>1, <1>4 DEF Navigation, NextSecond, Rmc, Gga, Gsa, Gst, LoseSentence, SendNext
<1> QED BY <1>1, <1>3, <1>4 DEF Next, vars

\* The list invariant holds throughout every behaviour.
LEMMA SpecListInv == Spec => []ListInv
BY InitListInv, NextListInv, PTL DEF Spec

\* Before the clock wraps, what Fresh lets through completed a sequence at most
\* StaleMs ago, or after the clock was read.
LEMMA FreshIsRecent ==
    ASSUME MaxTime < Wrap, NEW t \in 0..MaxTime, NEW s \in Staging, Fresh(s, t)
    PROVE  t - s.updated <= StaleMs
<1>1. /\ Wrap \in Nat \ {0} /\ StaleMs \in Nat /\ MaxTime \in Nat /\ t \in Nat /\ t < Wrap
      /\ s.updated \in Nat /\ (t - s.updated) % Wrap <= StaleMs
    BY SizesAssumption, MaxTimeAssumption DEF Staging, Fresh
<1>2. CASE s.updated <= t
    <2> DEFINE age == t - s.updated
    <2>1. age \in Nat /\ age < Wrap /\ age % Wrap <= StaleMs
        BY <1>1, <1>2
    <2> HIDE DEF age
    <2>2. age % Wrap = age
        BY <1>1, <2>1
    <2> QED BY <2>1, <2>2 DEF age
<1>3. CASE s.updated > t
    BY <1>1, <1>3
<1> QED BY <1>1, <1>2, <1>3

\* A rebuilt list is recent for every reader that read the clock before.
LEMMA RebuiltIsRecent ==
    ASSUME MaxTime < Wrap, NEW g, \A c \in Constellation : StagingFits(g[c]),
           NEW t \in 0..MaxTime, NEW r \in 0..t
    PROVE  \A i \in 1..Len(Rebuilt(g, t)) :
                r - g[Rebuilt(g, t)[i][1]].updated <= StaleMs
<1> DEFINE l == Rebuilt(g, t)
<1>1. l \in Seq(Satellite) /\ \A i \in 1..Len(l) : Fresh(g[l[i][1]], t)
    BY RebuiltFits DEF ListFits
<1> HIDE DEF l
<1>2. ASSUME NEW i \in 1..Len(l) PROVE r - g[l[i][1]].updated <= StaleMs
    <2> DEFINE s == g[l[i][1]]
    <2>1. l[i][1] \in Constellation
        BY <1>1 DEF Satellite
    <2>2. s \in Staging /\ Fresh(s, t)
        BY <1>1, <2>1 DEF StagingFits
    <2> HIDE DEF s
    <2>3. t - s.updated <= StaleMs
        BY <2>2, FreshIsRecent
    <2>4. s.updated \in Int /\ t \in Int /\ r \in Int /\ r <= t /\ StaleMs \in Int
        BY <2>2, SizesAssumption, MaxTimeAssumption DEF Staging
    <2>5. r - s.updated <= StaleMs
        BY <2>3, <2>4
    <2> QED BY <2>5 DEF s
<1> QED BY <1>2 DEF l

\* Nothing is listed at first.
LEMMA InitRecent == Init => Recent
<1> SUFFICES ASSUME Init PROVE Recent
    OBVIOUS
<1>1. 1 <= MaxTime
    BY MaxTimeAssumption
<1> QED BY <1>1, MaxTimeAssumption DEF Init, Recent, NothingStale

\* Before it wraps, millis() is the time.
LEMMA MillisIsTime ==
    ASSUME MaxTime < Wrap, ListInv, Recent
    PROVE  time \in 0..MaxTime /\ Millis = time
<1>1. /\ Wrap \in Nat \ {0} /\ MaxTime \in Nat /\ time \in Nat /\ time <= MaxTime
    BY SizesAssumption, MaxTimeAssumption DEF ListInv, ListShape, Recent
<1>2. time < Wrap
    BY <1>1
<1>3. time % Wrap = time
    BY <1>1, <1>2
<1> QED BY <1>1, <1>3 DEF Millis

\* A message that arrives is dated with the time it arrives at.
LEMMA GsvRecent ==
    ASSUME MaxTime < Wrap, ListInv, Recent, NEW c \in Constellation,
           NEW e \in Epochs[c], NEW n \in 1..Len(e), Gsv(c, e, n)
    PROVE  Recent'
<1>1. PICK s : /\ gsv' = [gsv EXCEPT ![c] = s] /\ StagingFits(s)
               /\ \/ s.updated = gsv[c].updated /\ live' = live
                  \/ s.updated = Millis /\ live' = Rebuilt(gsv', Millis)
               /\ first'[c] => StagedWhole(s, e, n)
    BY GsvStages
<1>2. time' = time /\ rpc' = rpc /\ now' = now
    BY DEF Gsv, reader
<1>3. /\ time \in 0..MaxTime /\ Millis = time /\ DOMAIN gsv = Constellation
      /\ now \in Nat /\ \A d \in Constellation : gsv[d].updated <= time
      /\ rpc # "idle" => now <= time
    BY MillisIsTime DEF ListInv, ListShape, Recent
<1>4. \A d \in Constellation : StagingFits(gsv'[d])
    BY <1>1 DEF ListInv, ListShape
<1>5. \A d \in Constellation : gsv'[d].updated <= time
    BY <1>1, <1>3
<1>6. ASSUME rpc = "copy", NEW i \in 1..Len(live')
      PROVE  now - gsv'[live'[i][1]].updated <= StaleMs
    <2>1. CASE s.updated = gsv[c].updated /\ live' = live
        <3>1. i \in 1..Len(live) /\ live \in Seq(Satellite)
            BY <1>6, <2>1 DEF ListInv, ListShape, ListFits
        <3>2. live[i][1] \in Constellation
            BY <3>1 DEF Satellite
        <3>3. now - gsv[live[i][1]].updated <= StaleMs
            BY <1>6, <3>1 DEF Recent, NothingStale
        <3>4. gsv'[live[i][1]].updated = gsv[live[i][1]].updated
            BY <1>1, <1>3, <2>1, <3>2
        <3> QED BY <2>1, <3>3, <3>4
    <2>2. CASE live' = Rebuilt(gsv', Millis)
        <3>1. now \in 0..time
            BY <1>3, <1>6
        <3>2. \A j \in 1..Len(Rebuilt(gsv', time)) :
                now - gsv'[Rebuilt(gsv', time)[j][1]].updated <= StaleMs
            BY <1>3, <1>4, <3>1, RebuiltIsRecent
        <3> QED BY <1>3, <2>2, <3>2
    <2> QED BY <1>1, <2>1, <2>2
<1>7. NothingStale'
    BY <1>2, <1>6 DEF NothingStale
<1> QED BY <1>2, <1>3, <1>5, <1>7 DEF Recent

\* A snapshot lists what is fresh at the time it read.
LEMMA SnapshotRecent ==
    ASSUME MaxTime < Wrap, ListInv, Recent, Snapshot
    PROVE  Recent'
<1>1. /\ time \in 0..MaxTime /\ Millis = time /\ now \in Nat
      /\ \A d \in Constellation : StagingFits(gsv[d])
    BY MillisIsTime DEF ListInv, ListShape
<1>2. CASE SnapNow
    BY <1>1, <1>2 DEF SnapNow, Recent, NothingStale
<1>3. CASE SnapRebuild
    <2>1. rpc # "idle"
        BY <1>3 DEF SnapRebuild
    <2>2. now <= time /\ time <= MaxTime /\ MaxTime \in Nat /\ time \in Nat
        BY <1>1, <2>1, MaxTimeAssumption DEF Recent
    <2>3. now \in 0..MaxTime /\ now \in 0..now
        BY <1>1, <2>2
    <2>4. \A i \in 1..Len(Rebuilt(gsv, now)) :
            now - gsv[Rebuilt(gsv, now)[i][1]].updated <= StaleMs
        BY <1>1, <2>3, RebuiltIsRecent
    <2> QED BY <1>3, <2>2, <2>4 DEF SnapRebuild, Recent, NothingStale
<1>4. CASE SnapCopy
    BY <1>4 DEF SnapCopy, Recent, NothingStale
<1> QED BY <1>2, <1>3, <1>4 DEF Snapshot

\* Every step keeps the list recent while the clock does not wrap.
LEMMA NextRecent ==
    ASSUME MaxTime < Wrap
    PROVE  ListInv /\ Recent /\ [Next]_vars => Recent'
<1> SUFFICES ASSUME ListInv, Recent, [Next]_vars PROVE Recent'
    OBVIOUS
<1>1. CASE UNCHANGED list
    BY <1>1 DEF list, reader, Recent, NothingStale
<1>2. CASE Tick
    <2>1. /\ time \in Nat /\ time < MaxTime /\ time' = time + 1
          /\ UNCHANGED <<gsv, live, rpc, now>> /\ now \in Nat
          /\ \A c \in Constellation : gsv[c].updated \in Nat
        BY <1>2 DEF Tick, reader, ListInv, ListShape, StagingFits, Staging
    <2> QED BY <2>1, MaxTimeAssumption DEF Recent, NothingStale
<1>3. \A c \in Constellation : \A e \in Epochs[c] : \A n \in 1..Len(e) :
        Gsv(c, e, n) => Recent'
    BY GsvRecent
<1>4. \A c \in Constellation : \A e \in Epochs[c] : \A n \in 1..Len(e) :
        Lose(c, e, n) => Recent'
    BY DEF Lose, reader, Recent, NothingStale
<1>5. CASE Satellites
    BY <1>2, <1>3, <1>4, <1>5, SnapshotRecent DEF Satellites
<1>6. CASE Navigation
    BY <1>1, <1>6 DEF Navigation, NextSecond, Rmc, Gga, Gsa, Gst, LoseSentence, SendNext
<1> QED BY <1>1, <1>5, <1>6 DEF Next, vars

--------------------------------------------------------------------------------
(* What is promised of the list.                                           *)

\* GSV validation: when the last message of a sequence whose first message arrived
\* is accepted, all the sequence told is staged, or as much as there is room for.
THEOREM CommitsAreWhole == Spec => []CommittedIsWhole
<1>1. ListInv => CommittedIsWhole
    <2> SUFFICES ASSUME ListInv, NEW c \in Constellation, first[c],
                        sent[c] = Len(epoch[c]), gsv[c].last = gsv[c].total
                 PROVE  \/ ToSet(gsv[c].sats) = Told(epoch[c])
                        \/ Len(gsv[c].sats) = MaxSats
        BY DEF CommittedIsWhole
    <2>1. StagedWhole(gsv[c], epoch[c], sent[c])
        BY DEF ListInv, Followed
    <2> QED BY <2>1 DEF StagedWhole, ToldBy, Told
<1> QED BY <1>1, SpecListInv, PTL

\* No satellite is listed twice, however long the device is up.
THEOREM NoSatelliteTwice == Spec => []NoSatTwice
<1>1. ListInv => NoSatTwice
    BY DEF ListInv, ListShape, ListFits, Distinct, NoSatTwice
<1> QED BY <1>1, SpecListInv, PTL

\* Until millis() wraps, no satellite is listed twice and none whose constellation
\* is stale, wherever the parser preempts a snapshot.
THEOREM ListIsSound ==
    ASSUME MaxTime < Wrap
    PROVE  Spec => []ListSound
<1>1. ListInv /\ Recent => ListSound
    BY DEF ListInv, ListShape, ListFits, Distinct, NoSatTwice, Recent, ListSound
<1>2. ListInv /\ Recent /\ [Next]_vars => Recent'
    BY NextRecent
<1> QED BY <1>1, <1>2, InitRecent, SpecListInv, PTL DEF Spec

\* l is full or has all of the constellations that are fresh for the snapshot.
ListsFresh(l) ==
    \/ Len(l) = MaxSats
    \/ \A c \in Constellation :
        gsv[c].updated \in 1..now /\ now - gsv[c].updated <= StaleMs
            => Lists(l, c, gsv[c].sats)

\* rebuild_live_sat_list leaves out nothing: a snapshot lists every satellite of a
\* constellation that completed a sequence at most StaleMs before the snapshot read
\* the clock, and not after it, as long as there is room.
THEOREM FreshIsListed == Spec => [][SnapRebuild => ListsFresh(live')]_vars
<1>1. ASSUME ListInv, SnapRebuild, Len(live') # MaxSats, NEW c \in Constellation,
             gsv[c].updated \in 1..now, now - gsv[c].updated <= StaleMs
      PROVE  Lists(live', c, gsv[c].sats)
    <2>1. live' = Rebuilt(gsv, now)
        BY <1>1 DEF SnapRebuild
    <2>2. \A d \in Constellation : gsv[d].sats \in Seq(Nat) /\ Distinct(gsv[d].sats)
        BY <1>1 DEF ListInv, ListShape, StagingFits, Staging
    <2>3. now \in 0..Wrap - 1 /\ Wrap \in Nat \ {0}
        BY <1>1, SizesAssumption DEF ListInv, ListShape
    <2> DEFINE age == now - gsv[c].updated
    <2>4. age \in Nat /\ age < Wrap /\ age <= StaleMs /\ gsv[c].updated # 0
        BY <1>1, <2>3
    <2> HIDE DEF age
    <2>5. age % Wrap = age
        BY <2>3, <2>4
    <2>6. Fresh(gsv[c], now)
        BY <2>4, <2>5 DEF Fresh, age
    <2> QED BY <1>1, <2>1, <2>2, <2>6, RebuiltLists
<1>2. ListInv => (SnapRebuild => ListsFresh(live'))
    BY <1>1 DEF ListsFresh
<1>3. ListInv /\ [Next]_vars => [SnapRebuild => ListsFresh(live')]_vars
    BY <1>2
<1> QED BY <1>3, SpecListInv, PTL DEF Spec

--------------------------------------------------------------------------------
(* The fix.                                                                *)

Kinds == {"GGA", "RMC", "GSA", "GST"}

Over(kind) == kind \notin ToSet(due)

FixShape ==
    /\ DOMAIN fix = {"pos", "timeValid", "clock", "date", "quality", "type",
                     "hdop", "acc", "accSource"}
    /\ utc \in Nat /\ due \in Seq(Kinds)

\* There is no date before the first RMC, which sets timeValid.
DateNeedsTime == ~fix.timeValid => fix.date = Never

\* While nothing of this second is lost, what is over has been shown.
Shown ==
    whole /\ utc > 0 =>
        /\ Over("RMC") => fix.pos = utc
        /\ Over("GGA") => fix.quality = utc
        /\ Over("GSA") => fix.type = utc
        /\ hasHdop /\ Over("GGA") => fix.hdop = utc
        /\ hasHdop /\ Over("GGA") /\ fix.accSource # "GST" => fix.acc = utc
        /\ hasGst /\ Over("GST") => fix.acc = utc

FixInv == FixShape /\ DateNeedsTime /\ OneRmc /\ Shown

--------------------------------------------------------------------------------
(* The sentences of a second.                                              *)

\* What is over after a sentence was over before, or is that sentence.
LEMMA NextIsOver ==
    ASSUME NEW sentence \in Kinds, FixShape, SendNext(sentence)
    PROVE  /\ due' \in Seq(Kinds) /\ utc' = utc /\ hasHdop' = hasHdop /\ hasGst' = hasGst
           /\ \A kind \in Kinds : Over(kind)' => Over(kind) \/ kind = sentence
<1>1. /\ due # <<>> /\ due \in Seq(Kinds) /\ Head(due) = sentence /\ due' = Tail(due)
      /\ utc' = utc /\ hasHdop' = hasHdop /\ hasGst' = hasGst
    BY DEF SendNext, FixShape
<1>2. due' \in Seq(Kinds)
    BY <1>1
<1>3. /\ Len(due) \in Nat \ {0} /\ Len(due') = Len(due) - 1
      /\ \A i \in 1..Len(due') : due'[i] = due[i + 1]
    BY <1>1
<1>4. ASSUME NEW kind \in Kinds, kind # sentence, NEW i \in 1..Len(due), due[i] = kind
      PROVE  ~Over(kind)'
    <2>1. i # 1
        BY <1>1, <1>4
    <2>2. i - 1 \in 1..Len(due') /\ (i - 1) + 1 = i
        BY <1>3, <2>1
    <2>3. due'[i - 1] = kind
        BY <1>3, <1>4, <2>2
    <2> QED BY <2>2, <2>3 DEF Over, ToSet
<1> QED BY <1>1, <1>2, <1>4 DEF Over, ToSet

\* What Estimate writes.
LEMMA EstimateWrites ==
    ASSUME FixShape
    PROVE  LET f == Estimate(fix) IN
           /\ DOMAIN f = DOMAIN fix
           /\ f.pos = fix.pos /\ f.timeValid = fix.timeValid /\ f.clock = fix.clock
           /\ f.date = fix.date /\ f.quality = fix.quality /\ f.type = fix.type
           /\ f.accSource = "GST" <=> fix.accSource = "GST"
           /\ f.hdop = IF hasHdop THEN utc ELSE fix.hdop
           /\ f.acc = IF hasHdop /\ fix.accSource # "GST" THEN utc ELSE fix.acc
           /\ f.accSource = IF hasHdop /\ fix.accSource # "GST" THEN "HDOP"
                                                              ELSE fix.accSource
<1>1. CASE hasHdop /\ fix.accSource # "GST"
    BY <1>1 DEF Estimate, FixShape
<1>2. CASE ~(hasHdop /\ fix.accSource # "GST")
    BY <1>2 DEF Estimate, FixShape
<1> QED BY <1>1, <1>2

\* Nothing is shown before the first second.
LEMMA InitFixInv == Init => FixInv
BY DEF Init, FixInv, FixShape, DateNeedsTime, OneRmc, Shown, Never

\* In a new second every kind of sentence is due.
LEMMA NextSecondFixInv == FixInv /\ NextSecond => FixInv'
<1> SUFFICES ASSUME FixInv, NextSecond PROVE FixInv'
    OBVIOUS
<1>1. utc' = utc + 1 /\ due' = Sentences /\ fix' = fix
    BY DEF NextSecond
<1>2. FixShape' /\ DateNeedsTime' /\ OneRmc'
    BY <1>1, SentencesAssumption DEF FixInv, FixShape, DateNeedsTime, OneRmc, Kinds
<1>3. \A kind \in Kinds : ~Over(kind)'
    BY <1>1, SentencesAssumption DEF Over, Kinds
<1>4. Shown'
    BY <1>3 DEF Shown, Kinds
<1> QED BY <1>2, <1>4 DEF FixInv

\* An RMC sets position, time and date together.
LEMMA RmcFixInv == FixInv /\ Rmc => FixInv'
<1> SUFFICES ASSUME FixInv, Rmc PROVE FixInv'
    OBVIOUS
<1>1. SendNext("RMC") /\ whole' = whole
    BY DEF Rmc
<1>2. /\ DOMAIN fix' = DOMAIN fix /\ fix'.pos = utc /\ fix'.timeValid = TRUE
      /\ fix'.clock = Clock /\ fix'.date = Date
      /\ fix'.quality = fix.quality /\ fix'.type = fix.type /\ fix'.hdop = fix.hdop
      /\ fix'.acc = fix.acc /\ fix'.accSource = fix.accSource
    BY DEF Rmc, FixInv, FixShape
<1>3. /\ due' \in Seq(Kinds) /\ utc' = utc /\ hasHdop' = hasHdop /\ hasGst' = hasGst
      /\ \A kind \in Kinds : Over(kind)' => Over(kind) \/ kind = "RMC"
    BY <1>1, NextIsOver DEF FixInv, Kinds
<1>4. FixShape' /\ DateNeedsTime'
    BY <1>2, <1>3 DEF FixInv, FixShape, DateNeedsTime
<1>5. OneRmc'
    BY <1>2 DEF OneRmc, Clock, Date
<1>6. Shown'
    BY <1>1, <1>2, <1>3 DEF FixInv, Shown, Kinds
<1> QED BY <1>4, <1>5, <1>6 DEF FixInv

\* A GGA takes the time only while there is none, so while there is no date.
LEMMA GgaFixInv == FixInv /\ Gga => FixInv'
<1> SUFFICES ASSUME FixInv, Gga PROVE FixInv'
    OBVIOUS
<1>1. SendNext("GGA") /\ whole' = whole
    BY DEF Gga
<1>2. /\ DOMAIN fix' = DOMAIN fix /\ fix'.pos = fix.pos /\ fix'.timeValid = TRUE
      /\ fix'.clock = IF fix.timeValid THEN fix.clock ELSE Clock
      /\ fix'.date = fix.date /\ fix'.quality = utc /\ fix'.type = fix.type
      /\ fix'.accSource = "GST" <=> fix.accSource = "GST"
      /\ fix'.hdop = IF hasHdop THEN utc ELSE fix.hdop
      /\ fix'.acc = IF hasHdop /\ fix.accSource # "GST" THEN utc ELSE fix.acc
    <2> DEFINE f == Estimate(fix)
    <2>1. fix' = [f EXCEPT !.quality = utc, !.timeValid = TRUE,
                           !.clock = IF fix.timeValid THEN f.clock ELSE Clock]
        BY DEF Gga
    <2>2. /\ DOMAIN f = DOMAIN fix
          /\ f.pos = fix.pos /\ f.timeValid = fix.timeValid /\ f.clock = fix.clock
          /\ f.date = fix.date /\ f.quality = fix.quality /\ f.type = fix.type
          /\ f.accSource = "GST" <=> fix.accSource = "GST"
          /\ f.hdop = IF hasHdop THEN utc ELSE fix.hdop
          /\ f.acc = IF hasHdop /\ fix.accSource # "GST" THEN utc ELSE fix.acc
        BY EstimateWrites DEF FixInv
    <2> HIDE DEF f
    <2> QED BY <2>1, <2>2 DEF FixInv, FixShape
<1>3. /\ due' \in Seq(Kinds) /\ utc' = utc /\ hasHdop' = hasHdop /\ hasGst' = hasGst
      /\ \A kind \in Kinds : Over(kind)' => Over(kind) \/ kind = "GGA"
    BY <1>1, NextIsOver DEF FixInv, Kinds
<1>4. FixShape' /\ DateNeedsTime'
    BY <1>2, <1>3 DEF FixInv, FixShape, DateNeedsTime
<1>5. OneRmc'
    BY <1>2 DEF FixInv, DateNeedsTime, OneRmc
<1>6. Shown'
    BY <1>1, <1>2, <1>3 DEF FixInv, Shown, Kinds
<1> QED BY <1>4, <1>5, <1>6 DEF FixInv

\* A GSA estimates as a GGA does.
LEMMA GsaFixInv == FixInv /\ Gsa => FixInv'
<1> SUFFICES ASSUME FixInv, Gsa PROVE FixInv'
    OBVIOUS
<1>1. SendNext("GSA") /\ whole' = whole
    BY DEF Gsa
<1>2. /\ DOMAIN fix' = DOMAIN fix /\ fix'.pos = fix.pos
      /\ fix'.timeValid = fix.timeValid /\ fix'.clock = fix.clock
      /\ fix'.date = fix.date /\ fix'.quality = fix.quality /\ fix'.type = utc
      /\ fix'.accSource = "GST" <=> fix.accSource = "GST"
      /\ fix'.hdop = IF hasHdop THEN utc ELSE fix.hdop
      /\ fix'.acc = IF hasHdop /\ fix.accSource # "GST" THEN utc ELSE fix.acc
    <2> DEFINE f == Estimate(fix)
    <2>1. fix' = [f EXCEPT !.type = utc]
        BY DEF Gsa
    <2>2. /\ DOMAIN f = DOMAIN fix
          /\ f.pos = fix.pos /\ f.timeValid = fix.timeValid /\ f.clock = fix.clock
          /\ f.date = fix.date /\ f.quality = fix.quality /\ f.type = fix.type
          /\ f.accSource = "GST" <=> fix.accSource = "GST"
          /\ f.hdop = IF hasHdop THEN utc ELSE fix.hdop
          /\ f.acc = IF hasHdop /\ fix.accSource # "GST" THEN utc ELSE fix.acc
        BY EstimateWrites DEF FixInv
    <2> HIDE DEF f
    <2> QED BY <2>1, <2>2 DEF FixInv, FixShape
<1>3. /\ due' \in Seq(Kinds) /\ utc' = utc /\ hasHdop' = hasHdop /\ hasGst' = hasGst
      /\ \A kind \in Kinds : Over(kind)' => Over(kind) \/ kind = "GSA"
    BY <1>1, NextIsOver DEF FixInv, Kinds
<1>4. FixShape' /\ DateNeedsTime' /\ OneRmc'
    BY <1>2, <1>3 DEF FixInv, FixShape, DateNeedsTime, OneRmc
<1>5. Shown'
    BY <1>1, <1>2, <1>3 DEF FixInv, Shown, Kinds
<1> QED BY <1>4, <1>5 DEF FixInv

\* A GST with deviations replaces the estimate for good.
LEMMA GstFixInv == FixInv /\ Gst => FixInv'
<1> SUFFICES ASSUME FixInv, Gst PROVE FixInv'
    OBVIOUS
<1>1. SendNext("GST") /\ whole' = whole
    BY DEF Gst
<1>2. /\ DOMAIN fix' = DOMAIN fix /\ fix'.pos = fix.pos
      /\ fix'.timeValid = fix.timeValid /\ fix'.clock = fix.clock
      /\ fix'.date = fix.date /\ fix'.quality = fix.quality /\ fix'.type = fix.type
      /\ fix'.hdop = fix.hdop
      /\ hasGst => fix'.acc = utc
      /\ ~hasGst => fix'.acc = fix.acc /\ fix'.accSource = fix.accSource
    <2>1. CASE hasGst
        BY <2>1 DEF Gst, FixInv, FixShape
    <2>2. CASE ~hasGst
        BY <2>2 DEF Gst
    <2> QED BY <2>1, <2>2
<1>3. /\ due' \in Seq(Kinds) /\ utc' = utc /\ hasHdop' = hasHdop /\ hasGst' = hasGst
      /\ \A kind \in Kinds : Over(kind)' => Over(kind) \/ kind = "GST"
    BY <1>1, NextIsOver DEF FixInv, Kinds
<1>4. FixShape' /\ DateNeedsTime' /\ OneRmc'
    BY <1>2, <1>3 DEF FixInv, FixShape, DateNeedsTime, OneRmc
<1>5. Shown'
    BY <1>1, <1>2, <1>3 DEF FixInv, Shown, Kinds
<1> QED BY <1>4, <1>5 DEF FixInv

\* A second of which something was lost promises nothing.
LEMMA LoseSentenceFixInv == FixInv /\ LoseSentence => FixInv'
<1> SUFFICES ASSUME FixInv, LoseSentence PROVE FixInv'
    OBVIOUS
<1>1. PICK sentence \in ToSet(Sentences) : SendNext(sentence)
    BY DEF LoseSentence
<1>2. ~whole' /\ fix' = fix /\ sentence \in Kinds
    BY SentencesAssumption DEF LoseSentence, Kinds
<1>3. due' \in Seq(Kinds) /\ utc' = utc
    BY <1>1, <1>2, NextIsOver DEF FixInv
<1> QED BY <1>2, <1>3 DEF FixInv, FixShape, DateNeedsTime, OneRmc, Shown

\* Every step of the parser, the snapshot and the receiver keeps the invariant.
LEMMA NextFixInv == FixInv /\ [Next]_vars => FixInv'
<1> SUFFICES ASSUME FixInv, [Next]_vars PROVE FixInv'
    OBVIOUS
<1>1. CASE UNCHANGED <<second, fix>>
    BY <1>1 DEF second, FixInv, FixShape, DateNeedsTime, OneRmc, Shown, Over
<1>2. CASE Satellites
    BY <1>1, <1>2 DEF Satellites, Gsv, Lose, Snapshot, SnapNow, SnapRebuild, SnapCopy, Tick
<1>3. CASE Navigation
    BY <1>3, NextSecondFixInv, RmcFixInv, GgaFixInv, GsaFixInv, GstFixInv, LoseSentenceFixInv
       DEF Navigation
<1> QED BY <1>1, <1>2, <1>3 DEF Next, vars

\* The invariant holds throughout every behaviour.
LEMMA SpecFixInv == Spec => []FixInv
BY InitFixInv, NextFixInv, PTL DEF Spec

\* Position, date and time are those of one RMC, and a second of which nothing
\* was lost is shown whole when it is over.
THEOREM TheFixCoheres == Spec => []FixCoheres
<1>1. FixInv => OneRmc
    BY DEF FixInv
<1>2. FixInv => SecondIsShown
    <2> SUFFICES ASSUME FixInv, whole, due = <<>>, utc > 0
                 PROVE  /\ {fix.pos, fix.quality, fix.type} = {utc}
                        /\ hasHdop => fix.hdop = utc
                        /\ hasGst \/ (hasHdop /\ fix.accSource # "GST") => fix.acc = utc
        BY DEF SecondIsShown
    <2>1. \A kind \in Kinds : Over(kind)
        BY DEF Over, ToSet
    <2> QED BY <2>1 DEF FixInv, Shown, Kinds
<1>3. FixInv => FixCoheres
    BY <1>1, <1>2 DEF FixCoheres
<1> QED BY <1>3, SpecFixInv, PTL

--------------------------------------------------------------------------------
(* The types.                                                              *)

\* Each value of the fix was measured in a second that has been, 0 for never; a
\* source of the accuracy is there as soon as there is an accuracy.  Sentences
\* are due only in a second, the last ones of it.
FixTypes ==
    /\ {known, hasHdop, hasGst, whole, fix.timeValid} \subseteq BOOLEAN
    /\ {fix.pos, fix.quality, fix.type, fix.hdop, fix.acc} \subseteq 0..utc
    /\ utc \in 0..MaxUtc /\ IsSuffix(due, Sentences)
    /\ fix.accSource = "none" <=> fix.acc = Never
    /\ due # <<>> => utc > 0

\* IsSuffix compares two sequences from their ends.
LEMMA SuffixIs ==
    ASSUME NEW s \in Seq(Kinds), NEW t \in Seq(Kinds)
    PROVE  IsSuffix(s, t) <=> /\ Len(s) <= Len(t)
                              /\ \A i \in 1..Len(s) : s[Len(s) - i + 1] = t[Len(t) - i + 1]
<1>1. /\ Len(s) \in Nat /\ Len(t) \in Nat
      /\ Reverse(s) = [i \in 1..Len(s) |-> s[(Len(s) - i) + 1]]
      /\ Reverse(t) = [i \in 1..Len(t) |-> t[(Len(t) - i) + 1]]
    BY DEF Reverse
<1>2. Reverse(s) \in Seq(Kinds) /\ Len(Reverse(s)) = Len(s)
    BY <1>1
<1>3. Reverse(t) \in Seq(Kinds) /\ Len(Reverse(t)) = Len(t)
    BY <1>1
<1>4. CASE Len(s) <= Len(t)
    <2> DEFINE rs == SubSeq(Reverse(s), 1, Len(s))
               rt == SubSeq(Reverse(t), 1, Len(s))
    <2>1. rs = [i \in 1..Len(s) |-> s[Len(s) - i + 1]]
        BY <1>1, <1>2
    <2>2. rt = [i \in 1..Len(s) |-> t[Len(t) - i + 1]]
        BY <1>1, <1>3, <1>4
    <2>3. IsSuffix(s, t) <=> rs = rt
        BY <1>2, <1>3, <1>4 DEF IsSuffix, IsPrefix
    <2> HIDE DEF rs, rt
    <2>4. \A i \in 1..Len(s) : rs[i] = s[Len(s) - i + 1] /\ rt[i] = t[Len(t) - i + 1]
        BY <2>1, <2>2
    <2>5. rs = rt <=> \A i \in 1..Len(s) : rs[i] = rt[i]
        BY <2>1, <2>2
    <2>6. rs = rt <=> \A i \in 1..Len(s) : s[Len(s) - i + 1] = t[Len(t) - i + 1]
        BY <2>4, <2>5
    <2> QED BY <1>4, <2>3, <2>6
<1>5. CASE ~(Len(s) <= Len(t))
    BY <1>2, <1>3, <1>5 DEF IsSuffix, IsPrefix
<1> QED BY <1>4, <1>5

\* What is left when one more was sent is still the end of the sequence.
LEMMA TailIsSuffix ==
    ASSUME NEW s \in Seq(Kinds), NEW t \in Seq(Kinds), s # <<>>, IsSuffix(s, t)
    PROVE  IsSuffix(Tail(s), t)
<1>1. /\ Len(s) \in Nat \ {0} /\ Len(t) \in Nat /\ Len(s) <= Len(t)
      /\ \A i \in 1..Len(s) : s[Len(s) - i + 1] = t[Len(t) - i + 1]
    BY SuffixIs
<1> DEFINE r == Tail(s)
<1>2. /\ r \in Seq(Kinds) /\ Len(r) = Len(s) - 1
      /\ \A i \in 1..Len(r) : r[i] = s[i + 1]
    BY <1>1
<1> HIDE DEF r
<1>3. ASSUME NEW i \in 1..Len(r)
      PROVE  r[Len(r) - i + 1] = t[Len(t) - i + 1]
    <2>1. i \in 1..Len(s) /\ Len(r) - i + 1 \in 1..Len(r)
        BY <1>1, <1>2
    <2>2. (Len(r) - i + 1) + 1 = Len(s) - i + 1
        BY <1>1, <1>2
    <2>3. r[Len(r) - i + 1] = s[Len(s) - i + 1]
        <3> DEFINE k == Len(r) - i + 1
        <3>1. k \in 1..Len(r) /\ k + 1 = Len(s) - i + 1
            BY <2>1, <2>2
        <3> HIDE DEF k
        <3>2. r[k] = s[k + 1]
            BY <1>2, <3>1
        <3> QED BY <3>1, <3>2 DEF k
    <2> QED BY <1>1, <2>1, <2>3
<1>4. Len(r) <= Len(t)
    BY <1>1, <1>2
<1>5. IsSuffix(r, t)
    BY <1>2, <1>3, <1>4, SuffixIs
<1> QED BY <1>5 DEF r

\* Nothing and everything is an end of the sequence.
LEMMA EndsAreSuffixes == IsSuffix(<<>>, Sentences) /\ IsSuffix(Sentences, Sentences)
<1>1. <<>> \in Seq(Kinds) /\ Sentences \in Seq(Kinds) /\ Len(Sentences) \in Nat
    BY SentencesAssumption DEF Kinds
<1> DEFINE none == <<>>
           all == Sentences
<1>2. none \in Seq(Kinds) /\ Len(none) = 0 /\ all \in Seq(Kinds) /\ Len(all) \in Nat
    BY <1>1
<1> HIDE DEF none, all
<1>3. IsSuffix(none, all)
    <2>1. /\ Len(none) <= Len(all)
          /\ \A i \in 1..Len(none) : none[Len(none) - i + 1] = all[Len(all) - i + 1]
        BY <1>2
    <2> QED BY <1>2, <2>1, SuffixIs, Zenon
<1>4. IsSuffix(all, all)
    BY <1>2, SuffixIs
<1> QED BY <1>3, <1>4 DEF none, all

\* A sentence dates what it writes with this second and leaves the rest.
LEMMA SentenceTypes ==
    ASSUME FixInv, FixTypes, NEW sentence \in Kinds, SendNext(sentence),
           whole' \in BOOLEAN, fix'.timeValid \in BOOLEAN,
           fix'.pos \in {fix.pos, utc}, fix'.quality \in {fix.quality, utc},
           fix'.type \in {fix.type, utc}, fix'.hdop \in {fix.hdop, utc},
           \/ fix'.acc = fix.acc /\ fix'.accSource = fix.accSource
           \/ fix'.acc = utc /\ fix'.accSource # "none"
    PROVE  FixTypes'
<1>1. /\ due # <<>> /\ due' = Tail(due)
      /\ utc' = utc /\ known' = known /\ hasHdop' = hasHdop /\ hasGst' = hasGst
    BY DEF SendNext
<1>2. utc \in Nat /\ utc > 0 /\ due \in Seq(Kinds) /\ Sentences \in Seq(Kinds)
    BY <1>1, SentencesAssumption DEF FixTypes, FixInv, FixShape, Kinds
<1>3. IsSuffix(due', Sentences)
    BY <1>1, <1>2, TailIsSuffix DEF FixTypes
<1>4. {fix'.pos, fix'.quality, fix'.type, fix'.hdop, fix'.acc} \subseteq 0..utc
    <2>1. {fix.pos, fix.quality, fix.type, fix.hdop, fix.acc} \subseteq 0..utc
        BY DEF FixTypes
    <2>2. utc \in 0..utc
        BY <1>2
    <2> QED BY <2>1, <2>2
<1>5. fix'.accSource = "none" <=> fix'.acc = Never
    BY <1>2 DEF FixTypes, Never
<1> QED BY <1>1, <1>2, <1>3, <1>4, <1>5 DEF FixTypes

\* Every step keeps the types of the fix.
LEMMA NextFixTypes == FixInv /\ FixTypes /\ [Next]_vars => FixTypes'
<1> SUFFICES ASSUME FixInv, FixTypes, [Next]_vars PROVE FixTypes'
    OBVIOUS
<1>1. CASE UNCHANGED <<second, fix>>
    BY <1>1 DEF second, FixTypes
<1>2. CASE Satellites
    BY <1>1, <1>2 DEF Satellites, Gsv, Lose, Snapshot, SnapNow, SnapRebuild, SnapCopy, Tick
<1>3. CASE NextSecond
    <2>1. /\ utc < MaxUtc /\ utc' = utc + 1 /\ due' = Sentences /\ fix' = fix
          /\ {known', hasHdop', hasGst', whole'} \subseteq BOOLEAN
        BY <1>3 DEF NextSecond, FixTypes
    <2>2. utc \in Nat /\ MaxUtc \in Nat /\ IsSuffix(due', Sentences)
        BY <2>1, SentencesAssumption, EndsAreSuffixes DEF FixInv, FixShape
    <2> QED BY <2>1, <2>2 DEF FixTypes
<1>4. CASE Rmc
    <2>1. /\ SendNext("RMC") /\ whole' = whole /\ fix'.pos = utc /\ fix'.timeValid = TRUE
          /\ fix'.quality = fix.quality /\ fix'.type = fix.type /\ fix'.hdop = fix.hdop
          /\ fix'.acc = fix.acc /\ fix'.accSource = fix.accSource
        BY <1>4 DEF Rmc, FixInv, FixShape
    <2>2. whole \in BOOLEAN
        BY DEF FixTypes
    <2> QED BY <2>1, <2>2, SentenceTypes DEF Kinds
<1>5. CASE Gga
    <2> DEFINE f == Estimate(fix)
    <2>1. /\ SendNext("GGA") /\ whole' = whole
          /\ fix' = [f EXCEPT !.quality = utc, !.timeValid = TRUE,
                              !.clock = IF fix.timeValid THEN f.clock ELSE Clock]
        BY <1>5 DEF Gga
    <2>2. /\ DOMAIN f = DOMAIN fix /\ f.pos = fix.pos /\ f.type = fix.type
          /\ f.hdop \in {fix.hdop, utc}
          /\ \/ f.acc = fix.acc /\ f.accSource = fix.accSource
             \/ f.acc = utc /\ f.accSource # "none"
        BY EstimateWrites DEF FixInv
    <2> HIDE DEF f
    <2>3. /\ fix'.pos = fix.pos /\ fix'.type = fix.type /\ fix'.quality = utc
          /\ fix'.timeValid = TRUE /\ fix'.hdop \in {fix.hdop, utc}
          /\ \/ fix'.acc = fix.acc /\ fix'.accSource = fix.accSource
             \/ fix'.acc = utc /\ fix'.accSource # "none"
        BY <2>1, <2>2 DEF FixInv, FixShape
    <2>4. whole \in BOOLEAN
        BY DEF FixTypes
    <2> QED BY <2>1, <2>3, <2>4, SentenceTypes DEF Kinds
<1>6. CASE Gsa
    <2> DEFINE f == Estimate(fix)
    <2>1. SendNext("GSA") /\ whole' = whole /\ fix' = [f EXCEPT !.type = utc]
        BY <1>6 DEF Gsa
    <2>2. /\ DOMAIN f = DOMAIN fix /\ f.pos = fix.pos /\ f.quality = fix.quality
          /\ f.timeValid = fix.timeValid /\ f.hdop \in {fix.hdop, utc}
          /\ \/ f.acc = fix.acc /\ f.accSource = fix.accSource
             \/ f.acc = utc /\ f.accSource # "none"
        BY EstimateWrites DEF FixInv
    <2> HIDE DEF f
    <2>3. /\ fix'.pos = fix.pos /\ fix'.type = utc /\ fix'.quality = fix.quality
          /\ fix'.timeValid = fix.timeValid /\ fix'.hdop \in {fix.hdop, utc}
          /\ \/ fix'.acc = fix.acc /\ fix'.accSource = fix.accSource
             \/ fix'.acc = utc /\ fix'.accSource # "none"
        BY <2>1, <2>2 DEF FixInv, FixShape
    <2>4. whole \in BOOLEAN /\ fix.timeValid \in BOOLEAN
        BY DEF FixTypes
    <2> QED BY <2>1, <2>3, <2>4, SentenceTypes DEF Kinds
<1>7. CASE Gst
    <2>1. /\ SendNext("GST") /\ whole' = whole /\ fix'.pos = fix.pos
          /\ fix'.quality = fix.quality /\ fix'.type = fix.type
          /\ fix'.timeValid = fix.timeValid /\ fix'.hdop = fix.hdop
          /\ \/ fix'.acc = fix.acc /\ fix'.accSource = fix.accSource
             \/ fix'.acc = utc /\ fix'.accSource # "none"
        <3>1. CASE hasGst
            BY <1>7, <3>1 DEF Gst, FixInv, FixShape
        <3>2. CASE ~hasGst
            BY <1>7, <3>2 DEF Gst
        <3> QED BY <3>1, <3>2
    <2>2. whole \in BOOLEAN /\ fix.timeValid \in BOOLEAN
        BY DEF FixTypes
    <2> QED BY <2>1, <2>2, SentenceTypes DEF Kinds
<1>8. CASE LoseSentence
    <2>1. PICK sentence \in ToSet(Sentences) : SendNext(sentence)
        BY <1>8 DEF LoseSentence
    <2>2. whole' = FALSE /\ fix' = fix /\ sentence \in Kinds
        BY <1>8, SentencesAssumption DEF LoseSentence, Kinds
    <2>3. fix.timeValid \in BOOLEAN
        BY DEF FixTypes
    <2> QED BY <2>1, <2>2, <2>3, SentenceTypes
<1> QED BY <1>1, <1>2, <1>3, <1>4, <1>5, <1>6, <1>7, <1>8 DEF Next, Navigation, vars

\* Types of the record, the staging buffers and the list, none larger than the
\* room the code has for it.
THEOREM TypeCorrect == Spec => []TypeOK
<1>1. Init => FixTypes
    <2> SUFFICES ASSUME Init PROVE FixTypes
        OBVIOUS
    <2>1. /\ utc = 0 /\ due = <<>> /\ fix.accSource = "none" /\ fix.acc = 0
          /\ fix.pos = 0 /\ fix.quality = 0 /\ fix.type = 0 /\ fix.hdop = 0
        BY DEF Init, Never
    <2>2. {known, hasHdop, hasGst, whole, fix.timeValid} \subseteq BOOLEAN
        <3>1. known = FALSE /\ hasHdop = FALSE /\ hasGst = FALSE /\ whole = FALSE
            BY DEF Init
        <3>2. fix.timeValid = FALSE
            BY DEF Init
        <3> QED BY <3>1, <3>2
    <2>3. {fix.pos, fix.quality, fix.type, fix.hdop, fix.acc} \subseteq 0..utc
        BY <2>1
    <2>4. utc \in 0..MaxUtc
        BY <2>1, SentencesAssumption
    <2>5. IsSuffix(due, Sentences)
        BY <2>1, EndsAreSuffixes
    <2> QED BY <2>1, <2>2, <2>3, <2>4, <2>5 DEF FixTypes, Never
<1>2. ListInv /\ FixTypes => TypeOK
    <2> SUFFICES ASSUME ListInv, FixTypes PROVE TypeOK
        OBVIOUS
    <2>1. ASSUME NEW c \in Constellation
          PROVE  /\ epoch[c] \in Epochs[c] \cup {<<>>} /\ sent[c] \in 0..Len(epoch[c])
                 /\ first[c] \in BOOLEAN
                 /\ gsv[c].sats \in Seq(Nat) /\ Len(gsv[c].sats) <= MaxSats
                 /\ gsv[c].total \in Nat /\ gsv[c].last \in 0..gsv[c].total
                 /\ gsv[c].updated \in 0..Wrap - 1
        <3>1. /\ gsv[c] \in Staging /\ Len(gsv[c].sats) <= MaxSats
              /\ gsv[c].last <= gsv[c].total
            BY DEF ListInv, ListShape, StagingFits
        <3>2. /\ gsv[c].sats \in Seq(Nat) /\ gsv[c].total \in Nat /\ gsv[c].last \in Nat
              /\ gsv[c].updated \in 0..Wrap - 1
            BY <3>1 DEF Staging
        <3>3. /\ epoch[c] \in Epochs[c] \cup {<<>>} /\ epoch[c] \in Seq(Seq(Nat))
              /\ sent[c] \in Nat /\ sent[c] <= Len(epoch[c]) /\ first[c] \in BOOLEAN
            BY DEF ListInv, ListShape
        <3> QED BY <3>1, <3>2, <3>3
    <2>2. /\ time \in Nat /\ now \in 0..Wrap - 1 /\ rpc \in {"idle", "rebuild", "copy"}
          /\ live \in Seq(Constellation \X Nat) /\ Len(live) <= MaxSats
        BY DEF ListInv, ListShape, ListFits, Satellite
    <2> QED BY <2>1, <2>2 DEF FixTypes, TypeOK
<1> QED BY <1>1, <1>2, InitFixInv, NextFixInv, NextFixTypes, SpecListInv, PTL DEF Spec
================================================================================
