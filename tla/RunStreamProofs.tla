--------------------------- MODULE RunStreamProofs ---------------------------
(***************************************************************************)
(* Proofs about RunStream, for any clients, sizes and run: what a page     *)
(* that reconnects, lags or is reloaded has shown of the run's events, and *)
(* which calls run after their question.                                   *)
(***************************************************************************)
EXTENDS RunStream, SequenceTheorems, FiniteSetTheorems, WellFoundedInduction, TLAPS

-----------------------------------------------------------------------------
(* The bounded sequences of the bus.                                        *)

\* Newest keeps the end of a sequence.
LEMMA NewestIsEnd ==
    ASSUME NEW S, NEW s \in Seq(S), NEW n \in Nat
    PROVE  /\ Newest(s, n) \in Seq(S)
           /\ Len(Newest(s, n)) = IF Len(s) <= n THEN Len(s) ELSE n
           /\ DOMAIN Newest(s, n) = 1..Len(Newest(s, n))
           /\ \A i \in DOMAIN Newest(s, n) :
                 Newest(s, n)[i] = s[i + Len(s) - Len(Newest(s, n))]
  <1>1. CASE Len(s) <= n
    BY <1>1 DEF Newest
  <1>2. CASE ~(Len(s) <= n)
    <2>1. Newest(s, n) = SubSeq(s, Len(s) - n + 1, Len(s))
      BY <1>2 DEF Newest
    <2>2. \A i \in Len(s) - n + 1 .. Len(s) : s[i] \in S
      BY <1>2
    <2>3. /\ SubSeq(s, Len(s) - n + 1, Len(s)) \in Seq(S)
          /\ Len(SubSeq(s, Len(s) - n + 1, Len(s))) = n
          /\ \A i \in 1..n : SubSeq(s, Len(s) - n + 1, Len(s))[i] = s[Len(s) - n + i]
      BY <1>2, <2>2, SubSeqProperties
    <2>4. DOMAIN Newest(s, n) = 1..n
      BY <2>1, <2>3, LenProperties
    <2> QED  BY <1>2, <2>1, <2>3, <2>4, SMTT(30)
  <1> QED  BY <1>1, <1>2

\* What is kept of a longer sequence, and its length.
LEMMA KeptLength ==
    ASSUME NEW S, NEW s \in Seq(S), NEW t \in Seq(S), NEW n \in Nat
    PROVE  /\ Newest(s \o t, n) \in Seq(S)
           /\ DOMAIN Newest(s \o t, n) = 1..Len(Newest(s \o t, n))
           /\ Len(Newest(s \o t, n)) \in Nat /\ Len(Newest(s \o t, n)) <= n
           /\ Len(Newest(s \o t, n)) <= Len(s) + Len(t)
           /\ Len(Newest(s \o t, n)) # n => Len(Newest(s \o t, n)) = Len(s) + Len(t)
  <1> DEFINE w == s \o t
  <1>1. w \in Seq(S) /\ Len(w) = Len(s) + Len(t) /\ Len(w) \in Nat
    BY ConcatProperties, LenProperties
  <1> HIDE DEF w
  <1>2. /\ Newest(w, n) \in Seq(S) /\ DOMAIN Newest(w, n) = 1..Len(Newest(w, n))
        /\ Len(Newest(w, n)) = IF Len(w) <= n THEN Len(w) ELSE n
    BY <1>1, NewestIsEnd
  <1>3. Len(Newest(w, n)) \in Nat /\ Len(Newest(w, n)) <= n
    BY <1>1, <1>2
  <1> QED  BY <1>1, <1>2, <1>3 DEF w

\* What is appended to s and kept is of s or of t, in its place.
LEMMA KeptIsOf ==
    ASSUME NEW S, NEW s \in Seq(S), NEW t \in Seq(S), NEW n \in Nat,
           NEW i \in DOMAIN Newest(s \o t, n)
    PROVE  LET p == i + Len(s) + Len(t) - Len(Newest(s \o t, n))
           IN  /\ p \in Nat /\ p >= i
               /\ \/ p \in DOMAIN s /\ Newest(s \o t, n)[i] = s[p]
                  \/ p - Len(s) \in DOMAIN t /\ Newest(s \o t, n)[i] = t[p - Len(s)]
  <1> DEFINE p == i + Len(s) + Len(t) - Len(Newest(s \o t, n))
  <1>1. /\ s \o t \in Seq(S) /\ Len(s \o t) = Len(s) + Len(t)
        /\ \A j \in 1 .. Len(s) + Len(t) :
              (s \o t)[j] = IF j <= Len(s) THEN s[j] ELSE t[j - Len(s)]
    BY ConcatProperties
  <1>2. /\ Len(Newest(s \o t, n)) \in Nat /\ Len(Newest(s \o t, n)) <= Len(s) + Len(t)
        /\ i \in 1..Len(Newest(s \o t, n))
        /\ Newest(s \o t, n)[i] = (s \o t)[p]
    <2> DEFINE w == s \o t
    <2>1. w \in Seq(S) /\ Len(w) = Len(s) + Len(t) /\ Len(s) \in Nat /\ Len(t) \in Nat
      BY <1>1, LenProperties
    <2> HIDE DEF w
    <2>2. /\ Len(Newest(w, n)) = IF Len(w) <= n THEN Len(w) ELSE n
          /\ DOMAIN Newest(w, n) = 1..Len(Newest(w, n))
          /\ \A j \in DOMAIN Newest(w, n) :
                Newest(w, n)[j] = w[j + Len(w) - Len(Newest(w, n))]
      BY <2>1, NewestIsEnd
    <2>3. i \in DOMAIN Newest(w, n)
      BY DEF w
    <2>4. i + Len(w) - Len(Newest(w, n)) = i + Len(s) + Len(t) - Len(Newest(w, n))
      BY <2>1, <2>2, <2>3
    <2>5. Len(Newest(w, n)) \in Nat /\ Len(Newest(w, n)) <= Len(s) + Len(t)
      BY <2>1, <2>2
    <2> QED  BY <2>2, <2>3, <2>4, <2>5 DEF w
  <1>3. p \in 1 .. Len(s) + Len(t) /\ p >= i
    BY <1>2, LenProperties
  <1> HIDE DEF p
  <1>4. p \in DOMAIN s \/ p - Len(s) \in DOMAIN t
    BY <1>3, LenProperties
  <1>5. p <= Len(s) <=> p \in DOMAIN s
    BY <1>3, LenProperties
  <1>6. /\ p \in Nat /\ p >= i
        /\ \/ p \in DOMAIN s /\ Newest(s \o t, n)[i] = s[p]
           \/ p - Len(s) \in DOMAIN t /\ Newest(s \o t, n)[i] = t[p - Len(s)]
    BY <1>1, <1>2, <1>3, <1>4, <1>5
  <1> QED  BY <1>6 DEF p

\* Events that come after all those kept leave them in order.
LEMMA KeptAscends ==
    ASSUME NEW s \in Seq(Events), NEW t \in Seq(Events), NEW n \in Nat,
           Ascending(s), Ascending(t),
           \A i \in DOMAIN s, j \in DOMAIN t : s[i].id < t[j].id
    PROVE  Ascending(Newest(s \o t, n))
  <1> DEFINE u == Newest(s \o t, n)
             P(i) == i + Len(s) + Len(t) - Len(u)
  <1> SUFFICES ASSUME NEW i \in DOMAIN u, NEW j \in DOMAIN u, i < j
               PROVE  u[i].id < u[j].id
    BY DEF Ascending
  <1>1. \A k \in DOMAIN u :
           /\ P(k) \in Nat
           /\ \/ P(k) \in DOMAIN s /\ u[k] = s[P(k)]
              \/ P(k) - Len(s) \in DOMAIN t /\ u[k] = t[P(k) - Len(s)]
    BY KeptIsOf
  <1>2. Len(u) \in Nat /\ i \in Nat /\ j \in Nat
    <2>1. s \o t \in Seq(Events)
      BY ConcatProperties
    <2>2. u \in Seq(Events)
      BY <2>1, NewestIsEnd
    <2> HIDE DEF u
    <2>3. Len(u) \in Nat /\ DOMAIN u = 1..Len(u)
      BY <2>2, LenProperties
    <2> QED  BY <2>3
  <1>3. Len(s) \in Nat /\ Len(t) \in Nat /\ DOMAIN s = 1..Len(s) /\ DOMAIN t = 1..Len(t)
    BY LenProperties
  <1> HIDE DEF u
  <1>4. P(i) < P(j) /\ P(i) \in Int /\ P(j) \in Int
    BY <1>2, <1>3
  <1>5. /\ \/ P(i) \in DOMAIN s /\ u[i] = s[P(i)]
           \/ P(i) - Len(s) \in DOMAIN t /\ u[i] = t[P(i) - Len(s)]
        /\ \/ P(j) \in DOMAIN s /\ u[j] = s[P(j)]
           \/ P(j) - Len(s) \in DOMAIN t /\ u[j] = t[P(j) - Len(s)]
    BY <1>1
  <1> HIDE DEF P
  <1>6. CASE P(i) \in DOMAIN s /\ P(j) \in DOMAIN s /\ u[i] = s[P(i)] /\ u[j] = s[P(j)]
    BY <1>4, <1>6 DEF Ascending
  <1>7. CASE P(i) \in DOMAIN s /\ P(j) - Len(s) \in DOMAIN t
             /\ u[i] = s[P(i)] /\ u[j] = t[P(j) - Len(s)]
    BY <1>7
  <1>8. CASE P(i) - Len(s) \in DOMAIN t /\ P(j) - Len(s) \in DOMAIN t
             /\ u[i] = t[P(i) - Len(s)] /\ u[j] = t[P(j) - Len(s)]
    <2>1. P(i) - Len(s) < P(j) - Len(s)
      BY <1>3, <1>4
    <2> QED  BY <1>8, <2>1 DEF Ascending
  <1>9. ~(P(i) - Len(s) \in DOMAIN t /\ P(j) \in DOMAIN s)
    BY <1>3, <1>4
  <1> QED  BY <1>5, <1>6, <1>7, <1>8, <1>9


-----------------------------------------------------------------------------
(* What a subscriber is given first, and what the loop publishes.           *)

\* The events after an id are the buffer without its first k.
LEMMA MissedIsEnd ==
    ASSUME buffer \in Seq(Events), Ascending(buffer), NEW after \in Nat
    PROVE  \E k \in 0..Len(buffer) :
              /\ Missed(after) \in Seq(Events)
              /\ Len(Missed(after)) = Len(buffer) - k
              /\ DOMAIN Missed(after) = 1 .. Len(buffer) - k
              /\ \A i \in DOMAIN Missed(after) : Missed(after)[i] = buffer[i + k]
              /\ \A i \in DOMAIN buffer : buffer[i].id <= after <=> i <= k
  <1> DEFINE L == Len(buffer)
             T == {i \in 1 .. L + 1 : i <= L => buffer[i].id > after}
             R == OpToRel(<, Nat)
             older == {i \in DOMAIN buffer : buffer[i].id <= after}
  <1>1. /\ L \in Nat /\ DOMAIN buffer = 1..L
        /\ \A i \in 1..L : buffer[i] \in Events /\ buffer[i].id \in Nat
    <2>1. \A i \in 1..L : buffer[i] \in Events
      BY ElementOfSeq
    <2> QED  BY <2>1, LenProperties DEF Events
  <1> HIDE DEF L
  <1>2. T \subseteq Nat /\ L + 1 \in T
    BY <1>1
  <1> HIDE DEF T
  <1>3. PICK m \in T : \A x \in T : <<x, m>> \notin R
    <2>1. IsWellFoundedOn(R, Nat)
      BY NatLessThanWellFounded
    <2> HIDE DEF R
    <2> QED  BY <1>2, <2>1, WFMin
  <1>4. \A x \in T : x >= m
    <2> SUFFICES ASSUME NEW x \in T, x < m PROVE FALSE
      BY <1>2
    <2>1. <<x, m>> \in R
      BY <1>2 DEF OpToRel
    <2> QED  BY <1>3, <2>1
  <1> HIDE DEF R
  <1>5. m \in 1 .. L + 1
    BY <1>3 DEF T
  <1>6. ASSUME NEW i \in 1..L PROVE buffer[i].id <= after <=> i <= m - 1
    <2>1. CASE i < m
      <3>1. i \notin T
        BY <1>4, <1>5, <2>1
      <3> QED  BY <1>1, <1>5, <2>1, <3>1 DEF T
    <2>2. CASE i >= m
      <3>1. m \in 1..L /\ buffer[m].id > after
        BY <1>1, <1>3, <1>5, <2>2 DEF T
      <3>2. i = m \/ buffer[m].id < buffer[i].id
        BY <1>1, <2>2, <3>1 DEF Ascending
      <3> QED  BY <1>1, <1>5, <2>2, <3>1, <3>2
    <2> QED  BY <1>5, <2>1, <2>2
  <1>7. Cardinality(older) = m - 1
    <2>1. older = 1 .. m - 1
      BY <1>1, <1>5, <1>6
    <2>2. Cardinality(1 .. m - 1) = m - 1
      BY <1>5, FS_Interval
    <2> QED  BY <2>1, <2>2
  <1> HIDE DEF older
  <1>8. Missed(after) = SubSeq(buffer, m, L)
    <2>1. Cardinality(older) + 1 = m
      BY <1>5, <1>7
    <2> QED  BY <2>1 DEF Missed, older, L
  <1>9. /\ SubSeq(buffer, m, L) \in Seq(Events)
        /\ Len(SubSeq(buffer, m, L)) = IF m <= L THEN L - m + 1 ELSE 0
        /\ \A i \in 1 .. L - m + 1 : SubSeq(buffer, m, L)[i] = buffer[m + i - 1]
    <2>1. \A i \in m..L : buffer[i] \in Events
      BY <1>1, <1>5
    <2> QED  BY <1>1, <1>5, <2>1, SubSeqProperties
  <1>10. Len(Missed(after)) = L - (m - 1) /\ DOMAIN Missed(after) = 1 .. L - (m - 1)
    BY <1>1, <1>5, <1>8, <1>9, LenProperties
  <1>11. ASSUME NEW i \in DOMAIN Missed(after) PROVE Missed(after)[i] = buffer[i + (m - 1)]
    <2>1. i \in 1 .. L - m + 1 /\ m + i - 1 = i + (m - 1)
      BY <1>1, <1>5, <1>10
    <2> QED  BY <1>8, <1>9, <2>1
  <1>12. m - 1 \in 0..L
    BY <1>1, <1>5
  <1> QED  BY <1>1, <1>6, <1>8, <1>9, <1>10, <1>11, <1>12 DEF L

\* The events of one emission carry the next ids.
LEMMA EmittedNext ==
    ASSUME seq \in Nat, NEW type \in Kinds
    PROVE  /\ Emitted(type) \in Seq(Events)
           /\ Emitted(type) # <<>> /\ Ascending(Emitted(type))
           /\ \A i \in DOMAIN Emitted(type) :
                 /\ 2 * (seq + 1) <= Emitted(type)[i].id
                 /\ Emitted(type)[i].id < 2 * (seq + 2)
                 /\ ~Notice => Emitted(type)[i].id % 2 = 0
  <1> DEFINE e == [id |-> 2 * (seq + 1), type |-> type]
             n == [id |-> e.id + 1, type |-> "notice"]
  <1>1. e \in Events /\ n \in Events /\ e.id = 2 * (seq + 1) /\ n.id = 2 * (seq + 1) + 1
    BY DEF Events, Kinds
  <1>2. e.id % 2 = 0
    BY <1>1
  <1>3. (Emitted(type) = <<e, n>> /\ Notice) \/ Emitted(type) = <<e>>
    BY DEF Emitted
  <1> HIDE DEF e, n
  <1>4. CASE Emitted(type) = <<e, n>> /\ Notice
    BY <1>1, <1>4 DEF Ascending
  <1>5. CASE Emitted(type) = <<e>>
    BY <1>1, <1>2, <1>5 DEF Ascending
  <1> QED  BY <1>3, <1>4, <1>5


-----------------------------------------------------------------------------
(* The bus publishes.                                                       *)

\* A sequence of events already given and those of an emission.
LEMMA KeptOrdered ==
    ASSUME seq \in Nat, seq' = seq + 1, NEW type \in Kinds, NEW n \in Nat,
           NEW s \in Seq(Events), Ordered(s)
    PROVE  LET u == Newest(s \o Emitted(type), n)
           IN  /\ u \in Seq(Events) /\ Len(u) <= n
               /\ Ascending(u)
               /\ \A i \in DOMAIN u : 0 < u[i].id /\ u[i].id < 2 * (seq' + 1)
               /\ \A i \in DOMAIN u : (\E j \in DOMAIN s : u[i] = s[j]) \/ 2 * (seq + 1) <= u[i].id
  <1> DEFINE t == Emitted(type)
             u == Newest(s \o t, n)
  <1>1. /\ t \in Seq(Events) /\ Ascending(t)
        /\ \A i \in DOMAIN t : 2 * (seq + 1) <= t[i].id /\ t[i].id < 2 * (seq + 2)
    BY EmittedNext
  <1>2. \A i \in DOMAIN s : s[i].id \in Nat /\ 0 < s[i].id /\ s[i].id < 2 * (seq + 1)
    <2>1. \A i \in DOMAIN s : s[i] \in Events
      BY ElementOfSeq, LenProperties
    <2> QED  BY <2>1 DEF Ordered, Given, Events
  <1>3. \A i \in DOMAIN t : t[i].id \in Nat
    <2>1. \A i \in DOMAIN t : t[i] \in Events
      BY <1>1, ElementOfSeq, LenProperties
    <2> QED  BY <2>1 DEF Events
  <1> HIDE DEF t
  <1>4. u \in Seq(Events) /\ Len(u) <= n
    BY <1>1, KeptLength
  <1>5. Ascending(u)
    <2>1. \A i \in DOMAIN s, j \in DOMAIN t : s[i].id < t[j].id
      BY <1>1, <1>2, <1>3
    <2> QED  BY <1>1, <2>1, KeptAscends DEF Ordered
  <1>6. \A i \in DOMAIN u : (\E j \in DOMAIN s : u[i] = s[j]) \/ (\E j \in DOMAIN t : u[i] = t[j])
    BY <1>1, KeptIsOf
  <1> HIDE DEF u
  <1>7. ASSUME NEW i \in DOMAIN u
        PROVE  /\ 0 < u[i].id /\ u[i].id < 2 * (seq' + 1)
               /\ (\E j \in DOMAIN s : u[i] = s[j]) \/ 2 * (seq + 1) <= u[i].id
    <2>1. CASE \E j \in DOMAIN s : u[i] = s[j]
      BY <1>2, <2>1
    <2>2. CASE \E j \in DOMAIN t : u[i] = t[j]
      BY <1>1, <1>3, <2>2
    <2> QED  BY <1>6, <2>1, <2>2
  <1> QED  BY <1>4, <1>5, <1>7 DEF u, t

\* What an emission does to one buffer and one queue that end alike.
LEMMA KeptAligned ==
    ASSUME NEW b \in Seq(Events), NEW q \in Seq(Events), NEW t \in Seq(Events),
           NEW shown, NEW m \in Nat, NEW n \in Nat, m <= n,
           EndAlike(b, q, shown)
    PROVE  EndAlike(Newest(b \o t, m), Newest(q \o t, n), shown)
  <1> DEFINE bb == Newest(b \o t, m)
             qq == Newest(q \o t, n)
  <1> SUFFICES ASSUME NEW i \in DOMAIN bb
               PROVE  IF i <= Len(bb) - Len(qq) THEN bb[i].id \in shown
                                                ELSE bb[i] = qq[i - (Len(bb) - Len(qq))]
    BY DEF EndAlike
  <1> DEFINE p == i + Len(b) + Len(t) - Len(bb)
  <1>1. /\ Len(b) \in Nat /\ Len(q) \in Nat /\ Len(t) \in Nat
        /\ DOMAIN b = 1..Len(b) /\ DOMAIN q = 1..Len(q) /\ DOMAIN t = 1..Len(t)
    BY LenProperties
  <1>2. DOMAIN bb = 1..Len(bb) /\ DOMAIN qq = 1..Len(qq)
    <2>1. DOMAIN bb = 1..Len(bb)
      BY KeptLength
    <2>2. DOMAIN qq = 1..Len(qq)
      BY KeptLength
    <2> QED  BY <2>1, <2>2
  <1>3. /\ Len(bb) \in Nat /\ Len(bb) <= m
        /\ Len(qq) \in Nat /\ Len(qq) <= n
    <2>1. Len(bb) \in Nat /\ Len(bb) <= m
      BY KeptLength
    <2>2. Len(qq) \in Nat /\ Len(qq) <= n
      BY KeptLength
    <2> QED  BY <2>1, <2>2
  <1>30. Len(qq) <= Len(q) + Len(t) /\ (Len(qq) # n => Len(qq) = Len(q) + Len(t))
    <2>1. Len(qq) <= Len(q) + Len(t)
      BY KeptLength
    <2>2. Len(qq) # n => Len(qq) = Len(q) + Len(t)
      BY KeptLength, ZenonT(60)
    <2> QED  BY <2>1, <2>2
  <1>4. /\ p \in Nat /\ p >= i
        /\ \/ p \in DOMAIN b /\ bb[i] = b[p]
           \/ p - Len(b) \in DOMAIN t /\ bb[i] = t[p - Len(b)]
    BY KeptIsOf
  <1>5. \A j \in DOMAIN qq :
           LET r == j + Len(q) + Len(t) - Len(qq)
           IN  \/ r \in DOMAIN q /\ qq[j] = q[r]
               \/ r - Len(q) \in DOMAIN t /\ qq[j] = t[r - Len(q)]
    BY KeptIsOf
  <1> HIDE DEF bb, qq
  <1>6. Len(bb) \in Nat /\ Len(qq) \in Nat /\ i \in 1..Len(bb)
    BY <1>2, <1>3
  <1>7. CASE i <= Len(bb) - Len(qq)
    <2>1. Len(qq) = Len(q) + Len(t)
      <3>1. Len(bb) <= m /\ Len(qq) < Len(bb)
        BY <1>3, <1>6, <1>7
      <3> QED  BY <1>1, <1>3, <1>30, <3>1
    <2>2. p <= Len(b) - Len(q)
      BY <1>1, <1>6, <1>7, <2>1
    <2>3. p \in DOMAIN b /\ bb[i] = b[p]
      BY <1>1, <1>4, <2>2
    <2> QED  BY <1>7, <2>2, <2>3 DEF EndAlike
  <1>8. CASE ~(i <= Len(bb) - Len(qq))
    <2> DEFINE j == i - (Len(bb) - Len(qq))
               r == j + Len(q) + Len(t) - Len(qq)
    <2>1. j \in DOMAIN qq
      BY <1>2, <1>6, <1>8
    <2>2. r = p - Len(b) + Len(q) /\ r >= 1
      <3>1. j \in 1..Len(qq) /\ Len(qq) <= Len(q) + Len(t)
        BY <1>2, <1>30, <2>1
      <3>2. r >= 1
        <4> HIDE DEF j
        <4> QED  BY <1>1, <1>6, <3>1
      <3>3. r = p - Len(b) + Len(q)
        BY <1>1, <1>6, SMTT(30)
      <3> QED  BY <3>2, <3>3
    <2>3. \/ r \in DOMAIN q /\ qq[j] = q[r]
          \/ r - Len(q) \in DOMAIN t /\ qq[j] = t[r - Len(q)]
      BY <1>5, <2>1
    <2> HIDE DEF j, r, p
    <2>4. CASE p \in DOMAIN b /\ bb[i] = b[p]
      <3>1. r \in DOMAIN q /\ qq[j] = q[r]
        BY <1>1, <1>4, <2>2, <2>3, <2>4
      <3>2. ~(p <= Len(b) - Len(q)) /\ r = p - (Len(b) - Len(q))
        BY <1>1, <1>4, <2>2
      <3> QED  BY <1>8, <2>4, <3>1, <3>2 DEF j, EndAlike
    <2>5. CASE p - Len(b) \in DOMAIN t /\ bb[i] = t[p - Len(b)]
      <3>1. r - Len(q) = p - Len(b)
        BY <1>1, <1>4, <2>2
      <3>2. qq[j] = t[r - Len(q)]
        BY <1>1, <1>4, <2>2, <2>3, <2>5
      <3> QED  BY <1>8, <2>5, <3>1, <3>2 DEF j
    <2> QED  BY <1>4, <2>4, <2>5 DEF p
  <1> QED  BY <1>7, <1>8 DEF bb, qq


-----------------------------------------------------------------------------
(* The invariant over the actions.                                          *)

\* Nothing was published, and no client has connected.
LEMMA InitIInv == Init => IInv
  <1> SUFFICES ASSUME Init PROVE IInv
    OBVIOUS
  <1>1. TypeOK
    BY SizesAssumption DEF Init, TypeOK, SizesAssumption, RunStates
  <1>2. InOrder
    BY DEF Init, InOrder, Ordered, Ascending
  <1>3. Published /\ Aligned /\ ResumeSafe
    BY DEF Init, Published, Aligned, ResumeSafe
  <1> QED  BY <1>1, <1>2, <1>3 DEF IInv

\* The types that the actions' steps need.
LEMMA Typed ==
    ASSUME TypeOK
    PROVE  /\ seq \in Nat /\ BufferSize \in Nat /\ MaxQueue \in Nat /\ BufferSize <= MaxQueue
           /\ buffer \in Seq(Events) /\ Len(buffer) \in Nat /\ Len(buffer) <= BufferSize
           /\ DOMAIN buffer = 1..Len(buffer)
           /\ \A i \in DOMAIN buffer : buffer[i] \in Events /\ buffer[i].id \in Nat
           /\ \A c \in Clients :
                 /\ queue[c] \in Seq(Events) /\ Len(queue[c]) \in Nat
                 /\ Len(queue[c]) <= MaxQueue
                 /\ DOMAIN queue[c] = 1..Len(queue[c])
                 /\ \A i \in DOMAIN queue[c] : queue[c][i] \in Events /\ queue[c][i].id \in Nat
                 /\ last[c] \in Nat /\ seen[c] \in Seq(Nat)
  <1>1. /\ buffer \in Seq(Events) /\ Len(buffer) <= BufferSize /\ seq \in Nat
        /\ \A c \in Clients : /\ queue[c] \in Seq(Events) /\ Len(queue[c]) <= MaxQueue
                              /\ last[c] \in Nat /\ seen[c] \in Seq(Nat)
    BY DEF TypeOK
  <1>2. \A s \in Seq(Events) :
           /\ Len(s) \in Nat /\ DOMAIN s = 1..Len(s)
           /\ \A i \in DOMAIN s : s[i] \in Events /\ s[i].id \in Nat
    <2> SUFFICES ASSUME NEW s \in Seq(Events)
                 PROVE  /\ Len(s) \in Nat /\ DOMAIN s = 1..Len(s)
                        /\ \A i \in DOMAIN s : s[i] \in Events /\ s[i].id \in Nat
      OBVIOUS
    <2>1. Len(s) \in Nat /\ DOMAIN s = 1..Len(s)
      BY LenProperties
    <2>2. \A i \in DOMAIN s : s[i] \in Events
      BY <2>1, ElementOfSeq
    <2> QED  BY <2>1, <2>2 DEF Events
  <1> QED  BY <1>1, <1>2, SizesAssumption DEF SizesAssumption

\* An emission.
LEMMA EmitKeeps ==
    ASSUME IInv, NEW type \in Kinds, Emit(type), UNCHANGED <<known, clientVars>>,
           run \notin {"finished", "lost"}
    PROVE  /\ seq' \in Nat /\ buffer' \in Seq(Events) /\ Len(buffer') <= BufferSize
           /\ subs' = subs /\ queue' \in [Clients -> Seq(Events)]
           /\ \A c \in Clients : Len(queue'[c]) <= MaxQueue
           /\ InOrder' /\ Published' /\ Aligned' /\ ResumeSafe'
  <1> USE Typed DEF IInv
  <1>1. /\ seq' = seq + 1 /\ subs' = subs
        /\ buffer' = Newest(buffer \o Emitted(type), BufferSize)
        /\ queue' = [c \in Clients |-> IF c \in subs
                                       THEN Newest(queue[c] \o Emitted(type), MaxQueue)
                                       ELSE queue[c]]
        /\ known' = known /\ stream' = stream /\ last' = last /\ seen' = seen
    BY DEF Emit, Publish, clientVars
  <1>2. known
    BY DEF Published
  <1>3. /\ Emitted(type) \in Seq(Events) /\ Emitted(type) # <<>>
    BY EmittedNext
  <1>4. /\ buffer' \in Seq(Events) /\ Len(buffer') <= BufferSize
        /\ Ascending(buffer')
        /\ \A i \in DOMAIN buffer' : 0 < buffer'[i].id /\ buffer'[i].id < 2 * (seq' + 1)
        /\ \A i \in DOMAIN buffer' :
              (\E j \in DOMAIN buffer : buffer'[i] = buffer[j]) \/ 2 * (seq + 1) <= buffer'[i].id
    BY <1>1, KeptOrdered DEF InOrder
  <1>5. ASSUME NEW c \in subs
        PROVE  /\ queue'[c] \in Seq(Events) /\ Len(queue'[c]) <= MaxQueue
               /\ Ascending(queue'[c])
               /\ \A i \in DOMAIN queue'[c] :
                     0 < queue'[c][i].id /\ queue'[c][i].id < 2 * (seq' + 1)
    <2>1. c \in Clients
      BY DEF TypeOK
    <2>2. queue'[c] = Newest(queue[c] \o Emitted(type), MaxQueue)
      BY <1>1, <2>1
    <2> QED  BY <1>1, <2>1, <2>2, KeptOrdered DEF InOrder
  <1>6. ASSUME NEW c \in Clients \ subs
        PROVE  queue'[c] = queue[c]
    BY <1>1
  <1>7. \A c \in Clients : last[c] \in Nat /\ last[c] < 2 * (seq + 1)
    BY DEF InOrder
  <1>8. InOrder'
    <2>1. \A c \in Clients : last'[c] < 2 * (seq' + 1)
      BY <1>1, <1>7
    <2>2. Ordered(buffer)'
      BY <1>4 DEF Ordered, Ascending, Given
    <2>3. ASSUME NEW c \in Clients PROVE Ordered(queue[c])'
      <3>1. CASE c \in subs
        BY <1>5, <3>1 DEF Ordered, Ascending, Given
      <3>2. CASE c \notin subs
        <4>1. queue'[c] = queue[c] /\ Ordered(queue[c])
          BY <1>6, <3>2 DEF InOrder
        <4>2. \A i \in DOMAIN queue[c] : queue[c][i].id < 2 * (seq' + 1)
          BY <1>1, <4>1 DEF Ordered, Given
        <4> QED  BY <4>1, <4>2 DEF Ordered, Ascending, Given
      <3> QED  BY <3>1, <3>2
    <2> QED  BY <2>1, <2>2, <2>3 DEF InOrder
  <1>9. Published'
    BY <1>1, <1>2 DEF Published
  <1>10. Aligned'
    <2> SUFFICES ASSUME NEW c \in subs
                 PROVE  EndAlike(buffer', queue'[c], ToSet(seen'[c]))
      BY <1>1 DEF Aligned, EndAlike, ToSet
    <2>1. c \in Clients
      BY DEF TypeOK
    <2>2. queue'[c] = Newest(queue[c] \o Emitted(type), MaxQueue)
      BY <1>1, <2>1
    <2>3. EndAlike(buffer, queue[c], ToSet(seen[c]))
      BY DEF Aligned
    <2>4. EndAlike(Newest(buffer \o Emitted(type), BufferSize),
                   Newest(queue[c] \o Emitted(type), MaxQueue), ToSet(seen[c]))
      BY <1>3, <2>1, <2>3, KeptAligned
    <2> QED  BY <1>1, <2>2, <2>4
  <1>11. ResumeSafe'
    <2> SUFFICES ASSUME NEW c \in Clients, NEW i \in DOMAIN buffer',
                        buffer'[i].id <= ResumeAfter(last[c])
                 PROVE  buffer'[i].id \in ToSet(seen[c])
      BY <1>1 DEF ResumeSafe, ResumeAfter, ToSet
    <2>1. ResumeAfter(last[c]) < 2 * (seq + 1) /\ ResumeAfter(last[c]) \in Nat
      BY <1>7 DEF ResumeAfter
    <2>2. buffer'[i].id \in Nat
      <3>1. buffer'[i] \in Events
        BY <1>4, ElementOfSeq, LenProperties
      <3> QED  BY <3>1 DEF Events
    <2>3. PICK j \in DOMAIN buffer : buffer'[i] = buffer[j]
      BY <1>4, <2>1, <2>2
    <2> QED  BY <2>3 DEF ResumeSafe
  <1>12. queue' \in [Clients -> Seq(Events)]
    <2>1. \A c \in Clients : queue'[c] \in Seq(Events)
      BY <1>5, <1>6
    <2> QED  BY <1>1, <2>1
  <1>13. \A c \in Clients : Len(queue'[c]) <= MaxQueue
    BY <1>5, <1>6
  <1> QED  BY <1>1, <1>4, <1>8, <1>9, <1>10, <1>11, <1>12, <1>13


\* A client connects.
LEMMA ConnectKeeps ==
    ASSUME IInv, NEW c \in Clients, NEW fresh \in BOOLEAN, Connect(c, fresh)
    PROVE  IInv'
  <1> USE Typed DEF IInv
  <1> DEFINE after == IF fresh THEN 0 ELSE ResumeAfter(last[c])
  <1>1. /\ queue' = [queue EXCEPT ![c] = Newest(Missed(after), MaxQueue)]
        /\ subs' = subs \cup {c} /\ buffer' = buffer
        /\ known /\ stream' = [stream EXCEPT ![c] = "open"]
        /\ UNCHANGED <<run, seq, known, askVars>>
    BY DEF Connect, Subscribe
  <1>2. /\ seen' = [seen EXCEPT ![c] = IF fresh THEN <<>> ELSE @]
        /\ last' = [last EXCEPT ![c] = IF fresh THEN 0 ELSE @]
    BY DEF Connect, TypeOK
  <1>3. after \in Nat
    BY DEF ResumeAfter
  <1> HIDE DEF after
  <1>4. PICK k \in 0..Len(buffer) :
           /\ Missed(after) \in Seq(Events)
           /\ Len(Missed(after)) = Len(buffer) - k
           /\ DOMAIN Missed(after) = 1 .. Len(buffer) - k
           /\ \A i \in DOMAIN Missed(after) : Missed(after)[i] = buffer[i + k]
           /\ \A i \in DOMAIN buffer : buffer[i].id <= after <=> i <= k
    BY <1>3, MissedIsEnd DEF InOrder, Ordered
  <1>5. Newest(Missed(after), MaxQueue) = Missed(after)
    BY <1>4 DEF Newest
  <1>6. queue'[c] = Missed(after) /\ \A d \in Clients \ {c} : queue'[d] = queue[d]
    BY <1>1, <1>5 DEF TypeOK
  <1>7. TypeOK'
    <2>1. queue' \in [Clients -> Seq(Events)] /\ \A d \in Clients : Len(queue'[d]) <= MaxQueue
      BY <1>1, <1>4, <1>5, <1>6 DEF TypeOK
    <2>2. seen' \in [Clients -> Seq(Nat)] /\ last' \in [Clients -> Nat]
      BY <1>2 DEF TypeOK
    <2> QED  BY <1>1, <2>1, <2>2 DEF TypeOK, askVars
  <1>8. InOrder'
    <2>1. Ordered(Missed(after))
      <3>1. ASSUME NEW i \in DOMAIN Missed(after)
            PROVE  i + k \in DOMAIN buffer /\ Missed(after)[i] = buffer[i + k] /\ i \in Nat
        BY <1>4
      <3>2. Ascending(buffer) /\ \A i \in DOMAIN buffer : Given(buffer[i].id)
        BY DEF InOrder, Ordered
      <3>3. Ascending(Missed(after))
        <4> SUFFICES ASSUME NEW i \in DOMAIN Missed(after), NEW j \in DOMAIN Missed(after), i < j
                     PROVE  Missed(after)[i].id < Missed(after)[j].id
          BY DEF Ascending
        <4>1. i + k < j + k
          BY <3>1
        <4> QED  BY <3>1, <3>2, <4>1 DEF Ascending
      <3>4. \A i \in DOMAIN Missed(after) : Given(Missed(after)[i].id)
        BY <3>1, <3>2
      <3> QED  BY <3>3, <3>4 DEF Ordered
    <2>2. \A d \in Clients : last'[d] < 2 * (seq + 1)
      BY <1>2 DEF InOrder, TypeOK
    <2>3. \A d \in Clients : Ordered(queue'[d])
      BY <1>6, <2>1 DEF InOrder
    <2> QED  BY <1>1, <2>2, <2>3 DEF InOrder, Ordered, Ascending, Given
  <1>9. Published'
    BY <1>1 DEF Published, TypeOK
  <1>10. ASSUME NEW i \in DOMAIN buffer, i <= k PROVE buffer[i].id \in ToSet(seen'[c])
    <2>1. buffer[i].id <= after /\ 0 < buffer[i].id
      BY <1>4, <1>10 DEF InOrder, Ordered, Given
    <2>2. ~fresh /\ buffer[i].id <= ResumeAfter(last[c])
      BY <2>1 DEF after
    <2>3. seen'[c] = seen[c]
      BY <1>2, <2>2 DEF TypeOK
    <2> QED  BY <2>2, <2>3 DEF ResumeSafe
  <1>11. Aligned'
    <2> SUFFICES ASSUME NEW d \in subs'
                 PROVE  EndAlike(buffer, queue'[d], ToSet(seen'[d]))
      <3>1. buffer' = buffer
        BY <1>1
      <3> QED  BY <3>1 DEF Aligned, EndAlike, ToSet
    <2>1. CASE d = c
      <3>1. Len(buffer) - Len(Missed(after)) = k
        BY <1>4
      <3>2. ASSUME NEW i \in DOMAIN buffer, ~(i <= k)
            PROVE  buffer[i] = Missed(after)[i - k]
        <4>1. i - k \in DOMAIN Missed(after) /\ (i - k) + k = i
          BY <1>4, <3>2
        <4> QED  BY <1>4, <4>1
      <3> QED  BY <1>6, <1>10, <2>1, <3>1, <3>2 DEF EndAlike
    <2>2. CASE d # c
      <3>1. d \in subs /\ d \in Clients
        BY <1>1, <2>2 DEF TypeOK
      <3>2. queue'[d] = queue[d] /\ seen'[d] = seen[d]
        BY <1>2, <1>6, <2>2, <3>1 DEF TypeOK
      <3> QED  BY <3>1, <3>2 DEF Aligned
    <2> QED  BY <2>1, <2>2
  <1>12. ResumeSafe'
    <2> SUFFICES ASSUME NEW d \in Clients, NEW i \in DOMAIN buffer,
                        buffer[i].id <= ResumeAfter(last'[d])
                 PROVE  buffer[i].id \in ToSet(seen'[d])
      BY <1>1 DEF ResumeSafe, ResumeAfter, ToSet
    <2>1. CASE d = c /\ fresh
      <3>1. ResumeAfter(last'[d]) = 0
        BY <1>2, <2>1 DEF TypeOK, ResumeAfter
      <3> QED  BY <3>1 DEF InOrder, Ordered, Given
    <2>2. CASE d # c \/ ~fresh
      <3>1. last'[d] = last[d] /\ seen'[d] = seen[d]
        BY <1>2, <2>2 DEF TypeOK
      <3> QED  BY <3>1 DEF ResumeSafe
    <2> QED  BY <2>1, <2>2
  <1> QED  BY <1>7, <1>8, <1>9, <1>11, <1>12

\* A client gets the next event.
LEMMA ReceiveKeeps ==
    ASSUME IInv, NEW c \in Clients, Receive(c)
    PROVE  IInv'
  <1> USE Typed DEF IInv
  <1> DEFINE e == Head(queue[c])
             ends == e.type = "run_finish"
             rest == IF ends THEN <<>> ELSE Tail(queue[c])
  <1>1. /\ stream[c] = "open" /\ queue[c] # <<>>
        /\ seen' = [seen EXCEPT ![c] = Append(@, e.id)]
        /\ last' = [last EXCEPT ![c] = e.id]
        /\ stream' = IF ends THEN [stream EXCEPT ![c] = "closed"] ELSE stream
        /\ subs' = IF ends THEN subs \ {c} ELSE subs
        /\ queue' = [queue EXCEPT ![c] = rest]
        /\ UNCHANGED <<run, seq, known, buffer, connects, askVars>>
    BY DEF Receive, TypeOK
  <1>2. /\ 1 \in DOMAIN queue[c] /\ e = queue[c][1] /\ e \in Events /\ e.id \in Nat
        /\ 0 < e.id /\ e.id < 2 * (seq + 1)
    <2>1. 1 \in DOMAIN queue[c] /\ e = queue[c][1]
      BY <1>1
    <2> HIDE DEF e
    <2> QED  BY <2>1 DEF InOrder, Ordered, Given
  <1>3. /\ Tail(queue[c]) \in Seq(Events) /\ Len(Tail(queue[c])) = Len(queue[c]) - 1
        /\ DOMAIN Tail(queue[c]) = 1 .. Len(queue[c]) - 1
        /\ \A i \in DOMAIN Tail(queue[c]) : Tail(queue[c])[i] = queue[c][i + 1]
    <2>1. /\ Tail(queue[c]) \in Seq(Events) /\ Len(Tail(queue[c])) = Len(queue[c]) - 1
          /\ \A i \in 1..Len(Tail(queue[c])) : Tail(queue[c])[i] = queue[c][i + 1]
      BY <1>1, HeadTailProperties
    <2>2. DOMAIN Tail(queue[c]) = 1..Len(Tail(queue[c]))
      BY <2>1, LenProperties
    <2> QED  BY <2>1, <2>2
  <1> HIDE DEF e
  <1>4. seen'[c] = Append(seen[c], e.id) /\ seen[c] \in Seq(Nat)
    BY <1>1 DEF TypeOK
  <1>5. /\ seen'[c] \in Seq(Nat)
        /\ ToSet(seen[c]) \cup {e.id} \subseteq ToSet(seen'[c])
    <2>1. /\ Append(seen[c], e.id) \in Seq(Nat) /\ Len(Append(seen[c], e.id)) = Len(seen[c]) + 1
          /\ \A i \in 1..Len(seen[c]) : Append(seen[c], e.id)[i] = seen[c][i]
          /\ Append(seen[c], e.id)[Len(seen[c]) + 1] = e.id
      BY <1>2, <1>4, AppendProperties
    <2>2. /\ Len(seen[c]) \in Nat /\ DOMAIN seen[c] = 1..Len(seen[c])
          /\ DOMAIN seen'[c] = 1 .. Len(seen[c]) + 1
      BY <1>4, <2>1, LenProperties
    <2>3. ASSUME NEW i \in DOMAIN seen[c] PROVE seen[c][i] \in ToSet(seen'[c])
      <3>1. i \in DOMAIN seen'[c] /\ seen'[c][i] = seen[c][i]
        BY <1>4, <2>1, <2>2
      <3> QED  BY <3>1 DEF ToSet
    <2>4. e.id \in ToSet(seen'[c])
      <3>1. Len(seen[c]) + 1 \in DOMAIN seen'[c] /\ seen'[c][Len(seen[c]) + 1] = e.id
        BY <1>4, <2>1, <2>2
      <3> QED  BY <3>1 DEF ToSet
    <2>5. seen'[c] \in Seq(Nat)
      BY <1>4, <2>1
    <2> QED  BY <2>3, <2>4, <2>5 DEF ToSet
  <1>6. queue'[c] = rest /\ \A d \in Clients \ {c} : queue'[d] = queue[d]
    BY <1>1 DEF TypeOK
  <1>7. rest \in Seq(Events) /\ Len(rest) <= MaxQueue
    BY <1>3
  <1>8. TypeOK'
    <2>1. queue' \in [Clients -> Seq(Events)] /\ \A d \in Clients : Len(queue'[d]) <= MaxQueue
      BY <1>1, <1>6, <1>7 DEF TypeOK
    <2>2. seen' \in [Clients -> Seq(Nat)] /\ last' \in [Clients -> Nat]
      BY <1>1, <1>2, <1>4, <1>5 DEF TypeOK
    <2>3. subs' \subseteq Clients /\ stream' \in [Clients -> {"away", "open", "closed"}]
      BY <1>1 DEF TypeOK
    <2> QED  BY <1>1, <2>1, <2>2, <2>3 DEF TypeOK, askVars
  <1>9. \A i \in DOMAIN Tail(queue[c]) : i + 1 \in DOMAIN queue[c] /\ i \in Nat
    BY <1>3
  <1>10. InOrder'
    <2>1. Ordered(Tail(queue[c]))
      <3>1. Ascending(queue[c]) /\ \A i \in DOMAIN queue[c] : Given(queue[c][i].id)
        BY DEF InOrder, Ordered
      <3>2. Ascending(Tail(queue[c]))
        <4> SUFFICES ASSUME NEW i \in DOMAIN Tail(queue[c]), NEW j \in DOMAIN Tail(queue[c]), i < j
                     PROVE  Tail(queue[c])[i].id < Tail(queue[c])[j].id
          BY DEF Ascending
        <4>1. i + 1 < j + 1
          BY <1>9
        <4> QED  BY <1>3, <1>9, <3>1, <4>1 DEF Ascending
      <3>3. \A i \in DOMAIN Tail(queue[c]) : Given(Tail(queue[c])[i].id)
        BY <1>3, <1>9, <3>1
      <3> QED  BY <3>2, <3>3 DEF Ordered
    <2>2. Ordered(<<>>)
      BY DEF Ordered, Ascending
    <2>3. \A d \in Clients : Ordered(queue'[d])
      BY <1>6, <2>1, <2>2 DEF InOrder
    <2>4. \A d \in Clients : last'[d] < 2 * (seq + 1)
      BY <1>1, <1>2 DEF InOrder, TypeOK
    <2> QED  BY <1>1, <2>3, <2>4 DEF InOrder, Ordered, Ascending, Given
  <1>11. Published'
    BY <1>1 DEF Published, TypeOK
  <1>12. Aligned'
    <2> SUFFICES ASSUME NEW d \in subs'
                 PROVE  EndAlike(buffer, queue'[d], ToSet(seen'[d]))
      <3>1. buffer' = buffer
        BY <1>1
      <3> QED  BY <3>1 DEF Aligned, EndAlike, ToSet
    <2>1. d \in subs /\ d \in Clients
      BY <1>1 DEF TypeOK
    <2>2. CASE d # c
      <3>1. queue'[d] = queue[d] /\ seen'[d] = seen[d]
        BY <1>1, <1>6, <2>1, <2>2 DEF TypeOK
      <3> QED  BY <2>1, <3>1 DEF Aligned
    <2>3. CASE d = c
      <3>1. queue'[c] = Tail(queue[c])
        BY <1>1, <1>6, <2>3
      <3> DEFINE gap == Len(buffer) - Len(queue[c])
      <3>2. Len(buffer) - Len(queue'[c]) = gap + 1
        <4>1. Len(queue'[c]) = Len(queue[c]) - 1 /\ Len(queue[c]) \in Nat /\ Len(buffer) \in Nat
          BY <1>3, <3>1
        <4> QED  BY <4>1
      <3>0. gap \in Int /\ DOMAIN buffer \subseteq Nat
        <4>1. Len(queue[c]) \in Nat /\ Len(buffer) \in Nat
          OBVIOUS
        <4> QED  BY <4>1
      <3>3. EndAlike(buffer, queue[c], ToSet(seen[c]))
        BY <2>1, <2>3 DEF Aligned
      <3>4. ASSUME NEW i \in DOMAIN buffer, i <= gap + 1 PROVE buffer[i].id \in ToSet(seen'[c])
        <4>1. CASE i <= gap
          <5>1. buffer[i].id \in ToSet(seen[c])
            BY <3>3, <4>1 DEF EndAlike
          <5> QED  BY <1>5, <5>1
        <4>2. CASE i = gap + 1
          <5>1. ~(i <= gap) /\ i - gap = 1
            BY <4>2
          <5>2. buffer[i] = queue[c][1]
            BY <3>3, <5>1 DEF EndAlike
          <5> QED  BY <1>2, <1>5, <5>2
        <4>3. i <= gap \/ i = gap + 1
          <5> HIDE DEF gap
          <5> QED  BY <3>0, <3>4
        <4> QED  BY <4>1, <4>2, <4>3
      <3>5. ASSUME NEW i \in DOMAIN buffer, ~(i <= gap + 1)
            PROVE  buffer[i] = queue'[c][i - (gap + 1)]
        <4>0. i \in 1..Len(buffer) /\ Len(queue[c]) \in Nat /\ Len(buffer) \in Nat
          OBVIOUS
        <4>1. ~(i <= gap) /\ i - (gap + 1) \in DOMAIN Tail(queue[c])
              /\ i - (gap + 1) + 1 = i - gap
          <5>1. gap \in Int /\ Len(buffer) = gap + Len(queue[c])
            BY <4>0
          <5> HIDE DEF gap
          <5>2. i - (gap + 1) \in 1 .. Len(queue[c]) - 1
            BY <3>5, <4>0, <5>1
          <5>3. ~(i <= gap) /\ i - (gap + 1) + 1 = i - gap
            BY <3>5, <4>0, <5>1
          <5> QED  BY <1>3, <5>2, <5>3
        <4>2. buffer[i] = queue[c][i - gap]
          BY <3>3, <4>1 DEF EndAlike
        <4> QED  BY <1>3, <3>1, <4>1, <4>2
      <3> QED  BY <2>3, <3>2, <3>4, <3>5 DEF EndAlike
    <2> QED  BY <2>2, <2>3
  <1>13. ResumeSafe'
    <2> SUFFICES ASSUME NEW d \in Clients, NEW i \in DOMAIN buffer,
                        buffer[i].id <= ResumeAfter(last'[d])
                 PROVE  buffer[i].id \in ToSet(seen'[d])
      BY <1>1 DEF ResumeSafe, ResumeAfter, ToSet
    <2>1. CASE d # c
      <3>1. last'[d] = last[d] /\ seen'[d] = seen[d]
        BY <1>1, <2>1 DEF TypeOK
      <3> QED  BY <3>1 DEF ResumeSafe
    <2>2. CASE d = c
      <3>1. buffer[i].id <= e.id
        BY <1>1, <1>2, <2>2, SMTT(30) DEF TypeOK, ResumeAfter
      <3>2. c \in subs
        BY <1>1 DEF Published
      <3> DEFINE gap == Len(buffer) - Len(queue[c])
      <3>3. EndAlike(buffer, queue[c], ToSet(seen[c]))
        BY <3>2 DEF Aligned
      <3>4. CASE i <= gap
        BY <1>5, <2>2, <3>3, <3>4 DEF EndAlike
      <3>5. CASE ~(i <= gap)
        <4>1. buffer[i] = queue[c][i - gap] /\ i - gap \in DOMAIN queue[c]
          BY <3>3, <3>5 DEF EndAlike
        <4>2. i - gap = 1 \/ e.id < queue[c][i - gap].id
          <5>1. Ascending(queue[c])
            BY DEF InOrder, Ordered
          <5> DEFINE j == i - gap
          <5>2. j \in DOMAIN queue[c] /\ j \in Nat /\ j >= 1
            BY <4>1
          <5> HIDE DEF j
          <5>3. j = 1 \/ queue[c][1].id < queue[c][j].id
            BY <1>2, <5>1, <5>2 DEF Ascending
          <5> QED  BY <1>2, <5>3 DEF j
        <4>3. buffer[i].id = e.id
          <5>1. buffer[i].id \in Nat /\ queue[c][i - gap].id = buffer[i].id
            BY <4>1
          <5>2. i - gap = 1 => buffer[i].id = e.id
            BY <1>2, <4>1
          <5> HIDE DEF gap
          <5> QED  BY <1>2, <3>1, <4>2, <5>1, <5>2, SMTT(30)
        <4> QED  BY <1>5, <2>2, <4>3
      <3> QED  BY <3>4, <3>5
    <2> QED  BY <2>1, <2>2
  <1> QED  BY <1>8, <1>10, <1>11, <1>12, <1>13


\* A client drops, and what was on its way is lost.
LEMMA DropKeeps ==
    ASSUME IInv, NEW c \in Clients, Drop(c)
    PROVE  IInv'
  <1> USE Typed DEF IInv
  <1>1. /\ stream[c] = "open" /\ stream' = [stream EXCEPT ![c] = "away"]
        /\ subs' = subs \ {c} /\ queue' = [queue EXCEPT ![c] = <<>>]
        /\ buffer' = buffer /\ seq' = seq /\ run' = run /\ known' = known
        /\ last' = last /\ seen' = seen /\ UNCHANGED askVars
    BY DEF Drop
  <1>2. queue'[c] = <<>> /\ \A d \in Clients \ {c} : queue'[d] = queue[d]
    BY <1>1 DEF TypeOK
  <1>3. TypeOK'
    <2>1. queue' \in [Clients -> Seq(Events)] /\ \A d \in Clients : Len(queue'[d]) <= MaxQueue
      BY <1>1, <1>2 DEF TypeOK
    <2> QED  BY <1>1, <2>1 DEF TypeOK, askVars
  <1>4. InOrder'
    <2>1. \A d \in Clients : Ordered(queue'[d])
      BY <1>2, SMTT(30) DEF InOrder, Ordered, Ascending
    <2> QED  BY <1>1, <2>1 DEF InOrder, Ordered, Ascending, Given
  <1>5. Published'
    BY <1>1 DEF Published, TypeOK
  <1>6. Aligned'
    <2> SUFFICES ASSUME NEW d \in subs'
                 PROVE  EndAlike(buffer, queue'[d], ToSet(seen'[d]))
      BY <1>1, SMTT(30) DEF Aligned, EndAlike, ToSet
    <2>1. d \in subs /\ d \in Clients /\ queue'[d] = queue[d]
      BY <1>1, <1>2 DEF TypeOK
    <2> QED  BY <1>1, <2>1 DEF Aligned
  <1>7. ResumeSafe'
    BY <1>1 DEF ResumeSafe, ResumeAfter, ToSet
  <1> QED  BY <1>3, <1>4, <1>5, <1>6, <1>7

\* The run goes on, ends, or is forgotten.
LEMMA RunKeeps ==
    ASSUME IInv,
           \/ Step \/ Finish \/ Ask \/ Forget \/ Lose \/ Answered \/ TimesOut \/ Cancel
           \/ \E approved \in BOOLEAN : Answer(approved)
           \/ \E c \in Clients : NotFound(c)
           \/ UNCHANGED vars
    PROVE  IInv'
  <1> USE Typed DEF IInv
  <1>1. ASSUME NEW type \in Kinds, Emit(type), UNCHANGED <<known, clientVars>>,
               run \in {"going", "ending"}, run' \in RunStates,
               future' \in {"none", "pending", "resolved"}, UNCHANGED <<said, verdict>>
        PROVE  IInv'
    <2>1. /\ seq' \in Nat /\ buffer' \in Seq(Events) /\ Len(buffer') <= BufferSize
          /\ subs' = subs /\ queue' \in [Clients -> Seq(Events)]
          /\ \A c \in Clients : Len(queue'[c]) <= MaxQueue
          /\ InOrder' /\ Published' /\ Aligned' /\ ResumeSafe'
      BY <1>1, EmitKeeps
    <2>2. /\ known' = known /\ stream' = stream /\ last' = last /\ seen' = seen
          /\ said' = said /\ verdict' = verdict
      BY <1>1 DEF clientVars
    <2>3. /\ known' \in BOOLEAN /\ subs' \subseteq Clients
          /\ stream' \in [Clients -> {"away", "open", "closed"}]
          /\ seen' \in [Clients -> Seq(Nat)] /\ last' \in [Clients -> Nat]
          /\ said' \in Seq(BOOLEAN) /\ verdict' \in {"none", "run", "refused"}
      BY <2>1, <2>2 DEF TypeOK
    <2>4. TypeOK'
      <3> HIDE Typed DEF IInv
      <3>1. run' \in RunStates /\ future' \in {"none", "pending", "resolved"}
        BY <1>1
      <3> QED  BY <2>1, <2>3, <3>1, Zenon DEF TypeOK
    <2> QED  BY <2>1, <2>4
  <1>2. CASE Step
    BY <1>1, <1>2 DEF Step, Kinds, RunStates, askVars, TypeOK
  <1>3. CASE Finish
    BY <1>1, <1>3 DEF Finish, Kinds, RunStates, askVars, TypeOK
  <1>4. CASE Ask
    BY <1>1, <1>4 DEF Ask, Kinds, RunStates, askVars, TypeOK
  <1>5. CASE Forget
    <2>1. /\ buffer' = <<>> /\ subs' = {} /\ known' = FALSE /\ run \in {"finished", "lost"}
          /\ UNCHANGED <<run, seq, queue, clientVars, askVars>>
      BY <1>5 DEF Forget
    <2>2. TypeOK'
      <3>1. /\ run' = run /\ seq' = seq /\ queue' = queue /\ stream' = stream
            /\ last' = last /\ seen' = seen /\ future' = future /\ said' = said
            /\ verdict' = verdict
        BY <2>1 DEF clientVars, askVars
      <3>2. buffer' \in Seq(Events) /\ Len(buffer') <= BufferSize
        BY <2>1, SizesAssumption
      <3>3. known' \in BOOLEAN /\ subs' \subseteq Clients
        BY <2>1
      <3> HIDE Typed
      <3> QED  BY <3>1, <3>2, <3>3, Zenon DEF TypeOK
    <2>3. InOrder'
      BY <2>1 DEF InOrder, Ordered, Ascending, Given, clientVars
    <2>4. Published' /\ Aligned' /\ ResumeSafe'
      BY <2>1 DEF Published, Aligned, ResumeSafe, clientVars
    <2> QED  BY <2>2, <2>3, <2>4
  <1>6. ASSUME UNCHANGED <<seq, known, busVars, last, seen>>, run' \in RunStates,
               \/ stream' = stream
               \/ \E c \in Clients : /\ stream[c] = "away" /\ ~known
                                     /\ stream' = [stream EXCEPT ![c] = "closed"],
               run \in {"finished", "lost"} => run' = run,
               future' \in {"none", "pending", "resolved"}, said' \in Seq(BOOLEAN),
               verdict' \in {"none", "run", "refused"}
        PROVE  IInv'
    <2>1. TypeOK'
      BY <1>6 DEF TypeOK, busVars
    <2>2. InOrder'
      BY <1>6 DEF InOrder, Ordered, Ascending, Given, busVars
    <2>3. Published'
      BY <1>6 DEF Published, busVars, TypeOK
    <2>4. Aligned'
      <3>1. subs' = subs /\ buffer' = buffer /\ queue' = queue /\ seen' = seen
        BY <1>6 DEF busVars
      <3> QED  BY <3>1, Zenon DEF Aligned
    <2>5. ResumeSafe'
      BY <1>6 DEF ResumeSafe, ResumeAfter, ToSet, busVars
    <2> QED  BY <2>1, <2>2, <2>3, <2>4, <2>5
  <1>7. CASE Lose
    BY <1>6, <1>7 DEF Lose, RunStates, clientVars, askVars, TypeOK
  <1>8. CASE Answered \/ TimesOut
    BY <1>6, <1>8 DEF Answered, TimesOut, Resume, RunStates, clientVars, TypeOK
  <1>9. CASE Cancel
    BY <1>6, <1>9 DEF Cancel, RunStates, clientVars, TypeOK
  <1>10. ASSUME NEW approved \in BOOLEAN, Answer(approved) PROVE IInv'
    <2>1. Append(said, approved) \in Seq(BOOLEAN)
      BY AppendProperties DEF TypeOK
    <2> QED  BY <1>6, <1>10, <2>1 DEF Answer, RunStates, clientVars, TypeOK
  <1>11. ASSUME NEW c \in Clients, NotFound(c) PROVE IInv'
    BY <1>6, <1>11 DEF NotFound, askVars, TypeOK
  <1>12. CASE UNCHANGED vars
    BY <1>6, <1>12 DEF vars, clientVars, askVars, TypeOK
  <1> QED  BY <1>2, <1>3, <1>4, <1>5, <1>7, <1>8, <1>9, <1>10, <1>11, <1>12

\* Every action keeps the invariant.
LEMMA NextIInv == IInv /\ [Next]_vars => IInv'
  BY ConnectKeeps, ReceiveKeeps, DropKeeps, RunKeeps DEF Next

\* Every reachable state of the streams satisfies the inductive invariant,
\* with or without notices.
THEOREM Invariance == Spec => []IInv
  BY InitIInv, NextIInv, PTL DEF Spec

\* The variables keep their types, the buffer and the queues their sizes.
THEOREM TypeCorrect == Spec => []TypeOK
  <1>1. IInv => TypeOK
    BY DEF IInv
  <1> QED  BY <1>1, Invariance, PTL

\* Whatever a page dropped, missed or was too slow for, everything that is
\* still buffered it has shown or will be sent.
THEOREM BufferedIsSeen == Spec => []NothingBufferedIsMissed
  <1>1. IInv => NothingBufferedIsMissed
    <2> SUFFICES ASSUME IInv, NEW c \in subs, NEW i \in DOMAIN buffer
                 PROVE  buffer[i].id \in ToSet(seen[c]) \/ buffer[i] \in ToSet(queue[c])
      BY DEF NothingBufferedIsMissed
    <2> DEFINE gap == Len(buffer) - Len(queue[c])
    <2>1. c \in Clients /\ EndAlike(buffer, queue[c], ToSet(seen[c]))
      BY DEF IInv, TypeOK, Aligned
    <2>2. CASE i <= gap
      BY <2>1, <2>2 DEF EndAlike
    <2>3. CASE ~(i <= gap)
      <3>1. buffer[i] = queue[c][i - gap]
        BY <2>1, <2>3 DEF EndAlike
      <3>2. i - gap \in DOMAIN queue[c]
        <4>1. /\ i \in 1..Len(buffer) /\ Len(buffer) \in Nat
              /\ DOMAIN queue[c] = 1..Len(queue[c]) /\ Len(queue[c]) \in Nat
          BY <2>1, Typed DEF IInv
        <4> QED  BY <2>3, <4>1
      <3> QED  BY <3>1, <3>2 DEF ToSet
    <2> QED  BY <2>2, <2>3
  <1> QED  BY <1>1, Invariance, PTL

-----------------------------------------------------------------------------
(* Without notices, which have no id to resume after, in order and once.    *)

\* The order of a page, strengthened: it resumes after the last event it has
\* shown (UpToLast), what it is sent next is newer (Even), and what it has
\* shown ascends (InOrderOnce).
OnceIInv == UpToLast /\ Even /\ InOrderOnce

\* The loop publishes: to a page that is behind, only what is newer.
LEMMA EmitOnce ==
    ASSUME ~Notice, IInv, OnceIInv, NEW type \in Kinds, Emit(type), UNCHANGED clientVars
    PROVE  OnceIInv'
  <1> USE Typed DEF IInv
  <1> DEFINE t == Emitted(type)
  <1>1. /\ buffer' = Newest(buffer \o t, BufferSize)
        /\ \A c \in Clients : queue'[c] = IF c \in subs THEN Newest(queue[c] \o t, MaxQueue)
                                                        ELSE queue[c]
        /\ last' = last /\ seen' = seen
    BY DEF Emit, Publish, clientVars
  <1>2. /\ t \in Seq(Events)
        /\ \A i \in DOMAIN t : 2 * (seq + 1) <= t[i].id /\ t[i].id % 2 = 0
    BY EmittedNext
  <1>3. \A i \in DOMAIN t : t[i].id \in Nat
    <2>1. \A i \in DOMAIN t : t[i] \in Events
      BY <1>2, ElementOfSeq, LenProperties
    <2> QED  BY <2>1 DEF Events
  <1> HIDE DEF t
  <1>4. \A c \in Clients : last[c] < 2 * (seq + 1) /\ last[c] % 2 = 0
    BY DEF InOrder, OnceIInv, UpToLast
  <1>5. ASSUME NEW i \in DOMAIN buffer' PROVE buffer'[i].id % 2 = 0
    <2>1. (\E j \in DOMAIN buffer : buffer'[i] = buffer[j]) \/ (\E j \in DOMAIN t : buffer'[i] = t[j])
      BY <1>1, <1>2, KeptIsOf, SMTT(30)
    <2> QED  BY <1>2, <2>1 DEF OnceIInv, Even
  <1>6. ASSUME NEW c \in Clients, NEW i \in DOMAIN queue'[c]
        PROVE  last[c] < queue'[c][i].id /\ queue'[c][i].id % 2 = 0
    <2>1. ASSUME NEW j \in DOMAIN queue[c], queue'[c][i] = queue[c][j]
          PROVE  last[c] < queue'[c][i].id /\ queue'[c][i].id % 2 = 0
      BY <2>1 DEF OnceIInv, UpToLast, Even
    <2>2. ASSUME NEW j \in DOMAIN t, queue'[c][i] = t[j]
          PROVE  last[c] < queue'[c][i].id /\ queue'[c][i].id % 2 = 0
      <3>1. /\ t[j].id \in Nat /\ 2 * (seq + 1) <= t[j].id /\ t[j].id % 2 = 0
            /\ last[c] < 2 * (seq + 1) /\ last[c] \in Nat /\ seq \in Nat
        BY <1>2, <1>3, <1>4
      <3> QED  BY <2>2, <3>1
    <2>3. CASE c \notin subs
      BY <1>1, <2>1, <2>3
    <2>4. CASE c \in subs
      <3>1. queue'[c] = Newest(queue[c] \o t, MaxQueue)
        BY <1>1, <2>4
      <3>2. (\E j \in DOMAIN queue[c] : queue'[c][i] = queue[c][j])
               \/ (\E j \in DOMAIN t : queue'[c][i] = t[j])
        <4>1. i \in DOMAIN Newest(queue[c] \o t, MaxQueue)
          BY <3>1
        <4>2. queue[c] \in Seq(Events) /\ MaxQueue \in Nat
          OBVIOUS
        <4>3. \/ \E j \in DOMAIN queue[c] : Newest(queue[c] \o t, MaxQueue)[i] = queue[c][j]
              \/ \E j \in DOMAIN t : Newest(queue[c] \o t, MaxQueue)[i] = t[j]
          <5> DEFINE q == queue[c]
          <5>1. q \in Seq(Events) /\ t \in Seq(Events) /\ i \in DOMAIN Newest(q \o t, MaxQueue)
            BY <1>2, <4>1, <4>2
          <5> HIDE Typed DEF q
          <5>2. (\E j \in DOMAIN q : Newest(q \o t, MaxQueue)[i] = q[j])
                  \/ (\E j \in DOMAIN t : Newest(q \o t, MaxQueue)[i] = t[j])
            BY <5>1, <4>2, KeptIsOf
          <5> QED  BY <5>2 DEF q
        <4> QED  BY <3>1, <4>3, Zenon
      <3> QED  BY <2>1, <2>2, <3>2
    <2> QED  BY <2>3, <2>4
  <1>7. UpToLast'
    BY <1>1, <1>6 DEF OnceIInv, UpToLast
  <1>8. Even'
    BY <1>5, <1>6 DEF Even
  <1>9. InOrderOnce'
    BY <1>1 DEF OnceIInv, InOrderOnce
  <1> QED  BY <1>7, <1>8, <1>9 DEF OnceIInv

\* A client connects: a page that resumes asks for what is newer than all it
\* has shown, a page that was reloaded has shown nothing.
LEMMA ConnectOnce ==
    ASSUME IInv, OnceIInv, NEW c \in Clients, NEW fresh \in BOOLEAN, Connect(c, fresh)
    PROVE  OnceIInv'
  <1> USE Typed DEF IInv
  <1> DEFINE after == IF fresh THEN 0 ELSE ResumeAfter(last[c])
  <1>1. /\ queue' = [queue EXCEPT ![c] = Newest(Missed(after), MaxQueue)]
        /\ buffer' = buffer
        /\ seen' = [seen EXCEPT ![c] = IF fresh THEN <<>> ELSE @]
        /\ last' = [last EXCEPT ![c] = IF fresh THEN 0 ELSE @]
    BY DEF Connect, Subscribe, TypeOK
  <1>2. after = last'[c] /\ after \in Nat /\ after % 2 = 0
    BY <1>1 DEF OnceIInv, UpToLast, ResumeAfter, TypeOK
  <1> HIDE DEF after
  <1>3. PICK k \in 0..Len(buffer) :
           /\ Missed(after) \in Seq(Events)
           /\ Len(Missed(after)) = Len(buffer) - k
           /\ DOMAIN Missed(after) = 1 .. Len(buffer) - k
           /\ \A i \in DOMAIN Missed(after) : Missed(after)[i] = buffer[i + k]
           /\ \A i \in DOMAIN buffer : buffer[i].id <= after <=> i <= k
    BY <1>2, MissedIsEnd DEF InOrder, Ordered
  <1>4. Newest(Missed(after), MaxQueue) = Missed(after)
    BY <1>3 DEF Newest
  <1>5. queue'[c] = Missed(after) /\ \A d \in Clients \ {c} : queue'[d] = queue[d]
    BY <1>1, <1>4 DEF TypeOK
  <1>6. ASSUME NEW i \in DOMAIN queue'[c]
        PROVE  after < queue'[c][i].id /\ queue'[c][i].id % 2 = 0
    <2>1. i + k \in DOMAIN buffer /\ ~(i + k <= k) /\ queue'[c][i] = buffer[i + k]
      BY <1>3, <1>5
    <2>2. ~(buffer[i + k].id <= after) /\ buffer[i + k].id \in Nat
      BY <1>3, <2>1
    <2>3. buffer[i + k].id % 2 = 0
      BY <2>1 DEF OnceIInv, Even
    <2> QED  BY <1>2, <2>1, <2>2, <2>3
  <1>7. \A d \in Clients \ {c} : seen'[d] = seen[d] /\ last'[d] = last[d]
    BY <1>1 DEF TypeOK
  <1>8. (seen'[c] = seen[c] /\ last'[c] = last[c]) \/ seen'[c] = <<>>
    BY <1>1 DEF TypeOK
  <1>9. UpToLast'
    <2> SUFFICES ASSUME NEW d \in Clients
                 PROVE  /\ \A i \in DOMAIN seen'[d] : seen'[d][i] <= last'[d]
                        /\ \A i \in DOMAIN queue'[d] : last'[d] < queue'[d][i].id
                        /\ last'[d] % 2 = 0
      BY DEF UpToLast
    <2>1. CASE d # c
      BY <1>5, <1>7, <2>1 DEF OnceIInv, UpToLast
    <2>2. CASE d = c
      <3>1. \A i \in DOMAIN seen'[c] : seen'[c][i] <= last'[c]
        BY <1>8 DEF OnceIInv, UpToLast
      <3> QED  BY <1>2, <1>6, <2>2, <3>1
    <2> QED  BY <2>1, <2>2
  <1>10. Even'
    BY <1>1, <1>5, <1>6 DEF OnceIInv, Even
  <1>11. InOrderOnce'
    BY <1>7, <1>8, SMTT(30) DEF OnceIInv, InOrderOnce
  <1> QED  BY <1>9, <1>10, <1>11 DEF OnceIInv

\* A client gets an event, which is newer than all its page has shown.
LEMMA ReceiveOnce ==
    ASSUME IInv, OnceIInv, NEW c \in Clients, Receive(c)
    PROVE  OnceIInv'
  <1> USE Typed DEF IInv
  <1> DEFINE e == Head(queue[c])
             rest == IF e.type = "run_finish" THEN <<>> ELSE Tail(queue[c])
  <1>1. /\ queue[c] # <<>>
        /\ seen' = [seen EXCEPT ![c] = Append(@, e.id)]
        /\ last' = [last EXCEPT ![c] = e.id]
        /\ queue' = [queue EXCEPT ![c] = rest]
        /\ buffer' = buffer
    BY DEF Receive, TypeOK
  <1>2. 1 \in DOMAIN queue[c] /\ e = queue[c][1]
    BY <1>1
  <1>3. /\ Tail(queue[c]) \in Seq(Events)
        /\ DOMAIN Tail(queue[c]) = 1 .. Len(queue[c]) - 1
        /\ \A i \in DOMAIN Tail(queue[c]) : Tail(queue[c])[i] = queue[c][i + 1]
    <2>1. /\ Tail(queue[c]) \in Seq(Events) /\ Len(Tail(queue[c])) = Len(queue[c]) - 1
          /\ \A i \in 1..Len(Tail(queue[c])) : Tail(queue[c])[i] = queue[c][i + 1]
      BY <1>1, HeadTailProperties
    <2>2. DOMAIN Tail(queue[c]) = 1..Len(Tail(queue[c]))
      BY <2>1, LenProperties
    <2> QED  BY <2>1, <2>2
  <1> HIDE DEF e
  <1>4. /\ e.id \in Nat /\ last[c] < e.id /\ e.id % 2 = 0 /\ last[c] \in Nat
        /\ \A i \in DOMAIN seen[c] : seen[c][i] <= last[c] /\ seen[c][i] \in Nat
    <2>1. \A i \in DOMAIN seen[c] : seen[c][i] \in Nat
      BY ElementOfSeq, LenProperties
    <2> QED  BY <1>2, <2>1 DEF OnceIInv, UpToLast, Even
  <1>5. \A d \in Clients \ {c} : seen'[d] = seen[d] /\ last'[d] = last[d] /\ queue'[d] = queue[d]
    BY <1>1 DEF TypeOK
  <1>6. seen'[c] = Append(seen[c], e.id) /\ last'[c] = e.id /\ queue'[c] = rest
    BY <1>1 DEF TypeOK
  <1>7. /\ DOMAIN seen'[c] = 1 .. Len(seen[c]) + 1 /\ Len(seen[c]) \in Nat
        /\ DOMAIN seen[c] = 1..Len(seen[c])
        /\ \A i \in DOMAIN seen[c] : seen'[c][i] = seen[c][i]
        /\ seen'[c][Len(seen[c]) + 1] = e.id
    <2>1. /\ Append(seen[c], e.id) \in Seq(Nat) /\ Len(Append(seen[c], e.id)) = Len(seen[c]) + 1
          /\ \A i \in 1..Len(seen[c]) : Append(seen[c], e.id)[i] = seen[c][i]
          /\ Append(seen[c], e.id)[Len(seen[c]) + 1] = e.id
      BY <1>4, AppendProperties
    <2>2. Len(seen[c]) \in Nat /\ DOMAIN seen[c] = 1..Len(seen[c])
      BY LenProperties
    <2>3. DOMAIN Append(seen[c], e.id) = 1 .. Len(seen[c]) + 1
      BY <2>1, LenProperties
    <2> QED  BY <1>6, <2>1, <2>2, <2>3
  <1>8. ASSUME NEW i \in DOMAIN Tail(queue[c])
        PROVE  e.id < Tail(queue[c])[i].id /\ Tail(queue[c])[i].id % 2 = 0
    <2>1. i + 1 \in DOMAIN queue[c] /\ 1 < i + 1 /\ Tail(queue[c])[i] = queue[c][i + 1]
      BY <1>3
    <2>2. Ascending(queue[c])
      BY DEF InOrder, Ordered
    <2>3. queue[c][1].id < queue[c][i + 1].id
      BY <1>2, <2>1, <2>2 DEF Ascending
    <2> QED  BY <1>2, <2>1, <2>3 DEF OnceIInv, Even
  <1>9. \A i \in DOMAIN rest : e.id < rest[i].id /\ rest[i].id % 2 = 0
    BY <1>8
  <1> HIDE DEF rest
  <1>10. ASSUME NEW i \in DOMAIN seen'[c]
         PROVE  \/ i = Len(seen[c]) + 1 /\ seen'[c][i] = e.id
                \/ i \in DOMAIN seen[c] /\ seen'[c][i] = seen[c][i] /\ seen'[c][i] < e.id
    <2>1. i \in DOMAIN seen[c] \/ i = Len(seen[c]) + 1
      BY <1>7
    <2>2. ASSUME i \in DOMAIN seen[c] PROVE seen'[c][i] = seen[c][i] /\ seen'[c][i] < e.id
      <3>1. seen'[c][i] = seen[c][i]
        BY <1>7, <2>2
      <3>2. seen[c][i] <= last[c] /\ seen[c][i] \in Nat
        BY <1>4, <2>2
      <3>3. seen[c][i] < e.id
        <4> HIDE Typed
        <4> QED  BY <1>4, <3>2
      <3> QED  BY <3>1, <3>3
    <2> QED  BY <1>7, <2>1, <2>2
  <1>11. UpToLast'
    <2> SUFFICES ASSUME NEW d \in Clients
                 PROVE  /\ \A i \in DOMAIN seen'[d] : seen'[d][i] <= last'[d]
                        /\ \A i \in DOMAIN queue'[d] : last'[d] < queue'[d][i].id
                        /\ last'[d] % 2 = 0
      BY DEF UpToLast
    <2>1. CASE d # c
      BY <1>5, <2>1 DEF OnceIInv, UpToLast
    <2>2. CASE d = c
      <3>1. ASSUME NEW i \in DOMAIN seen'[c] PROVE seen'[c][i] <= e.id
        <4>1. seen'[c][i] = e.id \/ (seen'[c][i] = seen[c][i] /\ i \in DOMAIN seen[c])
          BY <1>10
        <4>2. i \in DOMAIN seen[c] => seen[c][i] <= e.id
          BY <1>4
        <4> QED  BY <1>4, <4>1, <4>2
      <3> QED  BY <1>4, <1>6, <1>9, <2>2, <3>1
    <2> QED  BY <2>1, <2>2
  <1>12. Even'
    BY <1>1, <1>5, <1>6, <1>9 DEF OnceIInv, Even
  <1>13. InOrderOnce'
    <2> SUFFICES ASSUME NEW d \in Clients, NEW i \in DOMAIN seen'[d], NEW j \in DOMAIN seen'[d], i < j
                 PROVE  seen'[d][i] < seen'[d][j]
      BY DEF InOrderOnce
    <2>1. CASE d # c
      BY <1>5, <2>1 DEF OnceIInv, InOrderOnce
    <2>2. CASE d = c
      <3>1. i \in DOMAIN seen[c] /\ seen'[c][i] = seen[c][i] /\ seen'[c][i] < e.id
        <4>1. i # Len(seen[c]) + 1
          BY <1>7, <2>2
        <4> QED  BY <1>10, <2>2, <4>1
      <3>2. CASE j = Len(seen[c]) + 1
        BY <1>7, <2>2, <3>1, <3>2
      <3>3. CASE j \in DOMAIN seen[c] /\ seen'[c][j] = seen[c][j]
        BY <2>2, <3>1, <3>3 DEF OnceIInv, InOrderOnce
      <3> QED  BY <1>10, <2>2, <3>2, <3>3
    <2> QED  BY <2>1, <2>2
  <1> QED  BY <1>11, <1>12, <1>13 DEF OnceIInv

\* Every action keeps the order of a page, as long as no notice is published.
LEMMA OnceStep ==
    ASSUME ~Notice, IInv, OnceIInv, [Next]_vars
    PROVE  OnceIInv'
  <1>1. ASSUME NEW type \in Kinds, Emit(type), UNCHANGED clientVars PROVE OnceIInv'
    BY <1>1, EmitOnce
  <1>2. CASE Step \/ Finish \/ Ask
    BY <1>1, <1>2 DEF Step, Finish, Ask, Kinds
  <1>3. ASSUME UNCHANGED <<queue, last, seen>>, buffer' = buffer \/ buffer' = <<>>
        PROVE  OnceIInv'
    BY <1>3 DEF OnceIInv, UpToLast, Even, InOrderOnce
  <1>4. CASE Lose \/ Forget \/ Answered \/ TimesOut \/ Cancel \/ UNCHANGED vars
    BY <1>3, <1>4 DEF Lose, Forget, Answered, TimesOut, Resume, Cancel, vars, busVars, clientVars
  <1>5. ASSUME NEW approved \in BOOLEAN, Answer(approved) PROVE OnceIInv'
    BY <1>3, <1>5 DEF Answer, busVars, clientVars
  <1>6. ASSUME NEW c \in Clients, NotFound(c) PROVE OnceIInv'
    BY <1>3, <1>6 DEF NotFound, busVars
  <1>7. ASSUME NEW c \in Clients, Drop(c) PROVE OnceIInv'
    <2>1. /\ queue' = [queue EXCEPT ![c] = <<>>]
          /\ last' = last /\ seen' = seen /\ buffer' = buffer
      BY <1>7 DEF Drop
    <2>2. queue'[c] = <<>> /\ \A d \in Clients \ {c} : queue'[d] = queue[d]
      BY <2>1 DEF IInv, TypeOK
    <2> QED  BY <2>1, <2>2 DEF OnceIInv, UpToLast, Even, InOrderOnce
  <1> QED  BY <1>2, <1>4, <1>5, <1>6, <1>7, ConnectOnce, ReceiveOnce DEF Next

\* Unless a run clears its model override, and so has a notice in its stream,
\* no page gets an event twice or out of order.
THEOREM InOrderAndOnce == ASSUME ~Notice PROVE Spec => []InOrderOnce
  <1>1. Init => OnceIInv
    BY DEF Init, OnceIInv, UpToLast, Even, InOrderOnce
  <1>2. IInv /\ OnceIInv /\ [Next]_vars => OnceIInv'
    BY OnceStep
  <1>3. OnceIInv => InOrderOnce
    BY DEF OnceIInv
  <1> QED  BY <1>1, <1>2, <1>3, Invariance, PTL DEF Spec

-----------------------------------------------------------------------------
(* The question.                                                            *)

\* One answer at most is acknowledged, whatever the order of answer and time-out.
LEMMA OneAnswerStep ==
    ASSUME TypeOK, OneAnswer, [Next]_vars PROVE OneAnswer'
  <1>1. CASE Ask
    BY <1>1 DEF Ask, OneAnswer
  <1>2. ASSUME NEW approved \in BOOLEAN, Answer(approved) PROVE OneAnswer'
    <2>1. said = <<>>
      BY <1>2 DEF Answer, Answerable, OneAnswer
    <2>2. said' = <<approved>>
      BY <1>2, <2>1 DEF Answer
    <2> QED  BY <1>2, <2>2 DEF Answer, Answerable, OneAnswer
  <1>3. CASE Answered \/ TimesOut
    BY <1>3 DEF Answered, TimesOut, Resume, OneAnswer
  <1>4. CASE Cancel
    BY <1>4 DEF Cancel, OneAnswer
  <1>5. CASE Step \/ Finish \/ Lose \/ Forget
    BY <1>5 DEF Step, Finish, Lose, Forget, askVars, OneAnswer
  <1>6. ASSUME NEW c \in Clients,
               (\E fresh \in BOOLEAN : Connect(c, fresh)) \/ NotFound(c) \/ Receive(c) \/ Drop(c)
        PROVE  OneAnswer'
    BY <1>6 DEF Connect, NotFound, Receive, Drop, askVars, OneAnswer
  <1>7. CASE UNCHANGED vars
    BY <1>7 DEF vars, askVars, OneAnswer
  <1> QED  BY <1>1, <1>2, <1>3, <1>4, <1>5, <1>6, <1>7 DEF Next

\* The call runs on the answer that was acknowledged, if on any.
LEMMA ApprovedStep ==
    ASSUME ~OnTimeout, TypeOK, OneAnswer, RunsOnlyApproved, [Next]_vars
    PROVE  RunsOnlyApproved'
  <1>1. CASE Answered
    <2>1. run = "waiting" /\ future = "resolved" /\ Resume(Last(said))
      BY <1>1 DEF Answered
    <2>2. said \in Seq(BOOLEAN) /\ Len(said) <= 1 /\ said # <<>>
      BY <2>1 DEF OneAnswer, TypeOK
    <2>3. Len(said) = 1 /\ said[1] \in BOOLEAN /\ said = <<said[1]>>
      <3>1. Len(said) = 1 /\ DOMAIN said = 1..1
        BY <2>2, EmptySeq, LenProperties
      <3>2. said[1] \in BOOLEAN
        BY <2>2, <3>1, ElementOfSeq
      <3>3. /\ <<said[1]>> \in Seq(BOOLEAN) /\ Len(<<said[1]>>) = Len(said)
            /\ \A i \in 1..Len(said) : <<said[1]>>[i] = said[i]
        BY <3>1, <3>2
      <3>4. said = <<said[1]>>
        BY <2>2, <3>3, SeqEqual
      <3> QED  BY <3>1, <3>2, <3>4
    <2>4. Last(said) = said[1]
      BY <2>3 DEF Last
    <2>5. said' = said /\ verdict' = IF said[1] THEN "run" ELSE "refused"
      BY <2>1, <2>4 DEF Resume
    <2>6. verdict' = "run" => said[1] = TRUE
      BY <2>3, <2>5
    <2> QED  BY <2>3, <2>5, <2>6 DEF RunsOnlyApproved
  <1>2. CASE TimesOut
    BY <1>2 DEF TimesOut, Resume, RunsOnlyApproved
  <1>3. ASSUME NEW approved \in BOOLEAN, Answer(approved) PROVE RunsOnlyApproved'
    BY <1>3 DEF Answer, Answerable, OneAnswer, RunsOnlyApproved
  <1>4. CASE Step \/ Finish \/ Lose \/ Forget \/ Ask \/ Cancel
    BY <1>4 DEF Step, Finish, Lose, Forget, Ask, Cancel, askVars, RunsOnlyApproved
  <1>5. ASSUME NEW c \in Clients,
               (\E fresh \in BOOLEAN : Connect(c, fresh)) \/ NotFound(c) \/ Receive(c) \/ Drop(c)
        PROVE  RunsOnlyApproved'
    BY <1>5 DEF Connect, NotFound, Receive, Drop, askVars, RunsOnlyApproved
  <1>6. CASE UNCHANGED vars
    BY <1>6 DEF vars, askVars, RunsOnlyApproved
  <1> QED  BY <1>1, <1>2, <1>3, <1>4, <1>5, <1>6 DEF Next

\* Where an unanswered question is a no, a call that a person was asked about
\* runs only on the one acknowledged answer, and that was yes.
THEOREM ApprovedRuns == ASSUME ~OnTimeout PROVE Spec => []RunsOnlyApproved
  <1>1. Init => OneAnswer /\ RunsOnlyApproved
    BY DEF Init, OneAnswer, RunsOnlyApproved
  <1>2. TypeOK /\ OneAnswer /\ RunsOnlyApproved /\ [Next]_vars
           => OneAnswer' /\ RunsOnlyApproved'
    BY OneAnswerStep, ApprovedStep
  <1> QED  BY <1>1, <1>2, TypeCorrect, PTL DEF Spec
=============================================================================
