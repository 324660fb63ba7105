-------------------------- MODULE Dht22ParseProofs --------------------------
(***************************************************************************)
(* The decoder of Dht22Parse finds what the samples say, for any number of *)
(* samples and any lengths of pulses: it accepts exactly the signals that  *)
(* the reference calls proper, and gets their data.                        *)
(***************************************************************************)
EXTENDS Dht22Parse, SequenceTheorems, WellFoundedInduction, TLAPS

-----------------------------------------------------------------------------
(* Induction, in a form without an operator as parameter *)

LEMMA Least ==
  ASSUME NEW T, T \subseteq Nat, T # {}
  PROVE  \E x \in T : \A y \in T : x <= y
<1> DEFINE Below == {p \in Nat \X Nat : p[1] < p[2]}
<1>1. OpToRel(<, Nat) = Below
  BY Zenon DEF OpToRel
<1>2. IsWellFoundedOn(Below, Nat)
  BY <1>1, NatLessThanWellFounded, Zenon
<1> HIDE DEF Below
<1>3. PICK x \in T : \A y \in T : <<y, x>> \notin Below
  BY <1>2, WFMin, Zenon
<1>4. ASSUME NEW y \in T PROVE x <= y
  <2>1. <<y, x>> \in Nat \X Nat /\ ~(<<y, x>>[1] < <<y, x>>[2])
    BY <1>3 DEF Below
  <2>2. x \in Nat /\ y \in Nat
    OBVIOUS
  <2>3. QED
    BY <2>1, <2>2
<1>5. QED
  BY <1>4

LEMMA Counting ==
  ASSUME NEW n \in Nat, NEW T, 0 \in T, \A i \in 1 .. n : i - 1 \in T => i \in T
  PROVE  \A i \in 0 .. n : i \in T
<1> DEFINE Missing == {i \in 0 .. n : i \notin T}
<1> SUFFICES ASSUME Missing # {} PROVE FALSE
  OBVIOUS
<1>1. PICK i \in Missing : \A j \in Missing : i <= j
  <2>1. Missing \subseteq Nat
    OBVIOUS
  <2>2. QED
    BY <2>1, Least
<1>2. i \in 1 .. n /\ i - 1 \in 0 .. n /\ i - 1 \notin Missing
  BY <1>1
<1>3. QED
  BY <1>1, <1>2

-----------------------------------------------------------------------------
(* Samples and bytes *)

LEMMA ByEight ==
  ASSUME NEW m \in Int
  PROVE  m \div 8 \in Int /\ m % 8 \in 0 .. 7 /\ m = 8 * (m \div 8) + (m % 8)
  OBVIOUS

LEMMA PlaceInByte ==
  ASSUME NEW a \in Int, NEW r \in 0 .. 7
  PROVE  (8 * a + r) \div 8 = a /\ (8 * a + r) % 8 = r
  OBVIOUS

LEMMA TuplesAreSequences ==
  ASSUME NEW S, NEW n \in Nat, NEW f \in [1 .. n -> S]
  PROVE  f \in Seq(S) /\ Len(f) = n
<1>1. f \in Seq(S)
  BY SeqDef, Zenon
<1>2. QED
  BY <1>1, LenProperties

LEMMA BytesAreTuples ==
  ASSUME NEW byte \in Byte
  PROVE  byte \in Seq({0, 1}) /\ Len(byte) = 8
<1>1. byte \in [1 .. 8 -> {0, 1}]
  BY DEF Byte
<1>2. 8 \in Nat
  OBVIOUS
<1>3. QED
  BY <1>1, <1>2, TuplesAreSequences, Zenon

(* What is left of a byte when its first r bits are gone *)
LEMMA RestOfByte ==
  ASSUME NEW byte \in Byte, NEW r \in 0 .. 7
  PROVE  /\ SubSeq(byte, r + 1, 8) \in Seq({0, 1})
         /\ Len(SubSeq(byte, r + 1, 8)) = 8 - r
         /\ \A j \in 1 .. 8 - r : SubSeq(byte, r + 1, 8)[j] = byte[r + j]
<1>1. byte \in Seq({0, 1}) /\ Len(byte) = 8
  BY BytesAreTuples
<1>2. PICK n \in Nat : n = 8
  OBVIOUS
<1>3. byte \in Seq({0, 1}) /\ Len(byte) = n /\ r \in 0 .. n - 1
  BY <1>1, <1>2
<1>4. /\ SubSeq(byte, r + 1, n) \in Seq({0, 1})
      /\ Len(SubSeq(byte, r + 1, n)) = n - r
      /\ \A j \in 1 .. n - r : SubSeq(byte, r + 1, n)[j] = byte[r + j]
  BY <1>3
<1>5. QED
  BY <1>2, <1>4

-----------------------------------------------------------------------------
(* The decoder *)

IsDecoder(d, n) ==
  d \in [buffer : [0 .. n - 1 -> Byte], samples : {n}, nextByte : 0 .. n, shifting : Seq({0, 1}),
         bitsError : BOOLEAN, result : Nat]

(* The samples that d has not taken yet are those of w, from sample p on. *)
Follows(w, n, d, p) ==
  /\ IsDecoder(d, n)
  /\ p \in 0 .. 8 * n /\ p = 8 * d.nextByte - Len(d.shifting)
  /\ \A j \in 1 .. Len(d.shifting) : d.shifting[j] = SampleOf(w, p + j - 1)
  /\ \A b \in d.nextByte .. n - 1 : d.buffer[b] = w[b]

LEMMA DecoderFields ==
  ASSUME NEW n, NEW d, IsDecoder(d, n)
  PROVE  \E b \in [0 .. n - 1 -> Byte], i \in 0 .. n, s \in Seq({0, 1}), e \in BOOLEAN, r \in Nat :
           d = [buffer |-> b, samples |-> n, nextByte |-> i, shifting |-> s, bitsError |-> e, result |-> r]
BY DEF IsDecoder

(* d with its first samples taken: s is left of a byte, and i is the number of the next one. *)
Moved(d, s, i)  == [d EXCEPT !.shifting = s, !.nextByte = i]
MovedInByte(d, s) == [d EXCEPT !.shifting = s]

LEMMA ChangedDecoder ==
  ASSUME NEW n, NEW d, IsDecoder(d, n), NEW s \in Seq({0, 1}), NEW i \in 0 .. n,
         NEW e, e = Moved(d, s, i)
  PROVE  IsDecoder(e, n) /\ e.shifting = s /\ e.nextByte = i /\ e.buffer = d.buffer /\ e.bitsError = d.bitsError
BY DEF IsDecoder, Moved

LEMMA MovedInByteDecoder ==
  ASSUME NEW n, NEW d, IsDecoder(d, n), NEW s \in Seq({0, 1}),
         NEW e, e = MovedInByte(d, s)
  PROVE  /\ IsDecoder(e, n) /\ e.shifting = s
         /\ e.nextByte = d.nextByte /\ e.buffer = d.buffer /\ e.bitsError = d.bitsError
BY DEF IsDecoder, MovedInByte

LEMMA CountedDecoder ==
  ASSUME NEW n, NEW d, IsDecoder(d, n), NEW r \in Nat, NEW e \in BOOLEAN
  PROVE  /\ IsDecoder([d EXCEPT !.result = r, !.bitsError = e], n)
         /\ [d EXCEPT !.result = r, !.bitsError = e].shifting = d.shifting
         /\ [d EXCEPT !.result = r, !.bitsError = e].nextByte = d.nextByte
         /\ [d EXCEPT !.result = r, !.bitsError = e].buffer = d.buffer
         /\ [d EXCEPT !.result = r, !.bitsError = e].bitsError = e
         /\ [d EXCEPT !.result = r, !.bitsError = e].result = r
BY DEF IsDecoder

LEMMA FollowsTypes ==
  ASSUME NEW w, NEW n \in Nat, NEW d, NEW p, Follows(w, n, d, p)
  PROVE  /\ d.samples = n /\ d.nextByte \in 0 .. n /\ d.shifting \in Seq({0, 1})
         /\ Len(d.shifting) \in Nat /\ d.buffer \in [0 .. n - 1 -> Byte]
         /\ p \in 0 .. 8 * n /\ p = 8 * d.nextByte - Len(d.shifting)
BY DEF Follows, IsDecoder

LEMMA SampleIs ==
  ASSUME NEW w, NEW n \in Nat, NEW d, NEW p, Follows(w, n, d, p)
  PROVE  /\ Left(d) = 8 * n - p
         /\ \A k \in 0 .. 8 * n - p - 1 : Sample(d, k) = SampleOf(w, p + k)
<1>1. /\ d.samples = n /\ d.nextByte \in 0 .. n /\ Len(d.shifting) \in Nat
      /\ p \in 0 .. 8 * n /\ p = 8 * d.nextByte - Len(d.shifting)
  BY FollowsTypes
<1>2. Left(d) = 8 * n - p
  BY <1>1, SMTT(30) DEF Left
<1>3. ASSUME NEW k \in 0 .. 8 * n - p - 1
      PROVE  Sample(d, k) = SampleOf(w, p + k)
  <2> DEFINE l == Len(d.shifting)
             m == k - l
             i == d.nextByte
  <2>1. l \in Nat /\ i \in 0 .. n /\ k \in Nat /\ m \in Int /\ p = 8 * i - l
    BY <1>1
  <2>2. CASE m < 0
    <3>1. Sample(d, k) = d.shifting[k + 1]
      BY <2>2 DEF Sample
    <3>2. k + 1 \in 1 .. l /\ p + (k + 1) - 1 = p + k
      BY <1>1, <2>1, <2>2
    <3>3. QED
      BY <3>1, <3>2 DEF Follows
  <2>3. CASE ~(m < 0)
    <3>1. Sample(d, k) = d.buffer[i + m \div 8][(m % 8) + 1]
      BY <2>3 DEF Sample
    <3> HIDE DEF m, i, l
    <3>2. m = 8 * (m \div 8) + (m % 8) /\ m \div 8 \in Int /\ m % 8 \in 0 .. 7
      BY <2>1, ByEight
    <3>3. p + k = 8 * (i + m \div 8) + (m % 8)
      BY <1>1, <2>1, <3>2, SMTT(30) DEF m
    <3>4. (p + k) \div 8 = i + m \div 8 /\ (p + k) % 8 = m % 8
      BY <2>1, <3>2, <3>3, PlaceInByte
    <3>5. i + m \div 8 \in i .. n - 1
      BY <1>1, <2>1, <2>3, <3>2, <3>3, SMTT(30)
    <3>6. d.buffer[i + m \div 8] = w[i + m \div 8]
      BY <3>5 DEF Follows, i
    <3>7. QED
      BY <3>1, <3>4, <3>6 DEF SampleOf
  <2>4. QED
    BY <2>2, <2>3
<1>4. QED
  BY <1>2, <1>3

LEMMA SkipCases ==
  ASSUME NEW d, NEW q, NEW m, NEW a, NEW z, m = q - Len(d.shifting), a = d.nextByte + m \div 8, z = m % 8
  PROVE  /\ m < 0 /\ q # Left(d) => Skip(d, q) = MovedInByte(d, SubSeq(d.shifting, q + 1, Len(d.shifting)))
         /\ ~(m < 0) /\ q = Left(d) => Skip(d, q) = Moved(d, <<>>, d.samples)
         /\ ~(m < 0) /\ q # Left(d) => Skip(d, q) = Moved(d, SubSeq(d.buffer[a], z + 1, 8), a + 1)
<1>1. PICK u : u = MovedInByte(d, SubSeq(d.shifting, q + 1, Len(d.shifting)))
  OBVIOUS
<1>2. PICK v : v = Moved(d, <<>>, d.samples)
  OBVIOUS
<1>3. PICK w : w = Moved(d, SubSeq(d.buffer[a], z + 1, 8), a + 1)
  OBVIOUS
<1>4. Skip(d, q) = CASE m < 0 -> u [] q = Left(d) -> v [] OTHER -> w
  BY <1>1, <1>2, <1>3, Zenon DEF Skip, MovedInByte, Moved
<1>5. /\ m < 0 /\ q # Left(d) => Skip(d, q) = u
      /\ ~(m < 0) /\ q = Left(d) => Skip(d, q) = v
      /\ ~(m < 0) /\ q # Left(d) => Skip(d, q) = w
  BY <1>4
<1>6. QED
  BY <1>1, <1>2, <1>3, <1>5, Zenon

(* Skip takes q samples. *)
LEMMA SkipFollows ==
  ASSUME NEW w, NEW n \in Nat, NEW d, NEW p, Follows(w, n, d, p), NEW q \in 0 .. 8 * n - p
  PROVE  /\ Follows(w, n, Skip(d, q), p + q)
         /\ Skip(d, q).buffer = d.buffer /\ Skip(d, q).bitsError = d.bitsError
<1>0. PICK l, m, i, e, a, z : /\ l = Len(d.shifting) /\ m = q - l /\ i = d.nextByte
                              /\ e = Skip(d, q) /\ a = i + m \div 8 /\ z = m % 8
  OBVIOUS
<1>1. /\ n \in Nat /\ i \in 0 .. n /\ l \in Nat /\ p \in 0 .. 8 * n /\ p = 8 * i - l
      /\ m = q - l /\ q \in 0 .. 8 * n - p
  BY <1>0, FollowsTypes, ZenonT(60)
<1>2. q \in Nat /\ q <= 8 * n - p /\ m \in Int /\ p + q \in 0 .. 8 * n
  BY <1>1
<1>3. m = 8 * (m \div 8) + (m % 8) /\ m \div 8 \in Int /\ m % 8 \in 0 .. 7
  BY <1>2, ByEight, Zenon
<1>4. m = 8 * (a - i) + z /\ a \in Int /\ z \in 0 .. 7
  <2>1. PICK o : o = m \div 8
    OBVIOUS
  <2>2. o \in Int /\ a = i + o /\ m = 8 * o + z /\ z \in 0 .. 7
    BY <1>0, <1>3, <2>1, Zenon
  <2>3. QED
    BY <1>1, <2>2
<1>5. d.samples = n /\ d.shifting \in Seq({0, 1}) /\ d.buffer \in [0 .. n - 1 -> Byte] /\ IsDecoder(d, n)
  <2>1. IsDecoder(d, n)
    BY DEF Follows
  <2>2. QED
    BY <2>1, FollowsTypes
<1>6. Left(d) = 8 * n - p
  BY SampleIs
<1>7. m = q - Len(d.shifting) /\ a = d.nextByte + m \div 8 /\ z = m % 8
  BY <1>0, Zenon
<1>13. ~(m < 0) /\ q # Left(d) => Skip(d, q) = Moved(d, SubSeq(d.buffer[a], z + 1, 8), a + 1)
  BY <1>7, SkipCases, ZenonT(60)
<1>8. \A b \in i .. n - 1 : d.buffer[b] = w[b]
  BY <1>0 DEF Follows
<1>9. CASE m < 0
  <2>1. q # 8 * n - p
    BY <1>1, <1>2, <1>9
  <2>2. e = MovedInByte(d, SubSeq(d.shifting, q + 1, Len(d.shifting)))
    BY <1>0, <1>6, <1>7, <1>9, <2>1, SkipCases, Zenon
  <2>3. PICK s : s = SubSeq(d.shifting, q + 1, Len(d.shifting))
    OBVIOUS
  <2>4. s \in Seq({0, 1}) /\ Len(s) = l - q /\ \A j \in 1 .. l - q : s[j] = d.shifting[q + j]
    <3>1. q + 1 \in 1 .. l + 1
      BY <1>1, <1>2, <1>9
    <3>2. QED
      BY <1>0, <1>2, <1>5, <2>3, <3>1, SMTT(30)
  <2>5. e = MovedInByte(d, s)
    BY <2>2, <2>3, Zenon
  <2>6. IsDecoder(e, n) /\ e.shifting = s /\ e.nextByte = i /\ e.buffer = d.buffer /\ e.bitsError = d.bitsError
    BY <1>0, <1>5, <2>4, <2>5, MovedInByteDecoder
  <2>7. ASSUME NEW j \in 1 .. Len(e.shifting)
        PROVE  e.shifting[j] = SampleOf(w, (p + q) + j - 1)
    <3>1. j \in 1 .. l - q /\ e.shifting[j] = d.shifting[q + j]
      BY <2>4, <2>6
    <3>2. q + j \in 1 .. l /\ p + (q + j) - 1 = (p + q) + j - 1
      BY <1>1, <1>2, <3>1
    <3>3. d.shifting[q + j] = SampleOf(w, p + (q + j) - 1)
      BY <1>0, <3>2 DEF Follows
    <3>4. QED
      BY <3>1, <3>2, <3>3
  <2>8. p + q = 8 * e.nextByte - Len(e.shifting)
    <3>1. p + q = 8 * i - (l - q)
      BY <1>1, <1>2
    <3>2. QED
      BY <2>4, <2>6, <3>1, Zenon
  <2>9. \A b \in e.nextByte .. n - 1 : e.buffer[b] = w[b]
    BY <1>8, <2>6
  <2>10. Follows(w, n, e, p + q)
    BY <1>2, <2>6, <2>7, <2>8, <2>9 DEF Follows
  <2>11. QED
    BY <1>0, <2>6, <2>10
<1>10. CASE ~(m < 0) /\ q = 8 * n - p
  <2>1. e = Moved(d, <<>>, n)
    BY <1>0, <1>5, <1>6, <1>7, <1>10, SkipCases, Zenon
  <2>2. PICK s \in Seq({0, 1}) : s = <<>>
    BY EmptySeq, Zenon
  <2>3. e = Moved(d, s, n)
    BY <2>1, <2>2, Zenon
  <2>4. n \in 0 .. n /\ p + q = 8 * n /\ 8 * n - 0 = 8 * n
    BY <1>1, <1>2, <1>10
  <2>5. IsDecoder(e, n) /\ e.shifting = s /\ e.nextByte = n /\ e.buffer = d.buffer /\ e.bitsError = d.bitsError
    BY <1>5, <2>3, <2>4, ChangedDecoder, SMTT(30)
  <2>6. Len(e.shifting) = 0
    BY <2>2, <2>5, EmptySeq, Zenon
  <2>7. Follows(w, n, e, p + q)
    <3>1. p + q = 8 * e.nextByte - Len(e.shifting)
      BY <2>4, <2>5, <2>6, Zenon
    <3>2. \A j \in 1 .. Len(e.shifting) : e.shifting[j] = SampleOf(w, (p + q) + j - 1)
      BY <2>6
    <3>3. \A b \in e.nextByte .. n - 1 : e.buffer[b] = w[b]
      BY <1>1, <2>5
    <3>4. QED
      BY <1>2, <2>5, <3>1, <3>2, <3>3 DEF Follows
  <2>8. QED
    BY <1>0, <2>5, <2>7
<1>11. CASE ~(m < 0) /\ q # 8 * n - p
  <2>1. e = Moved(d, SubSeq(d.buffer[a], z + 1, 8), a + 1)
    BY <1>0, <1>6, <1>11, <1>13, Zenon
  <2>2. p + q = 8 * a + z /\ a \in i .. n - 1 /\ a + 1 \in 0 .. n
    <3>1. p + q = 8 * a + z
      BY <1>1, <1>2, <1>4
    <3>2. i <= a
      BY <1>1, <1>2, <1>4, <1>11
    <3>3. q < 8 * n - p
      BY <1>1, <1>2, <1>11
    <3>4. a < n
      BY <1>1, <1>2, <1>4, <3>1, <3>3
    <3>5. QED
      BY <1>1, <1>4, <3>1, <3>2, <3>4
  <2>3. d.buffer[a] \in Byte /\ d.buffer[a] = w[a]
    <3>1. a \in 0 .. n - 1
      BY <1>1, <2>2
    <3>2. QED
      BY <1>5, <1>8, <2>2, <3>1
  <2>4. PICK s : s = SubSeq(d.buffer[a], z + 1, 8)
    OBVIOUS
  <2>5. s \in Seq({0, 1}) /\ Len(s) = 8 - z /\ \A j \in 1 .. 8 - z : s[j] = d.buffer[a][z + j]
    BY <1>4, <2>3, <2>4, RestOfByte
  <2>6. e = Moved(d, s, a + 1)
    BY <2>1, <2>4, Zenon
  <2>7. /\ IsDecoder(e, n) /\ e.shifting = s /\ e.nextByte = a + 1
        /\ e.buffer = d.buffer /\ e.bitsError = d.bitsError
    BY <1>5, <2>2, <2>5, <2>6, ChangedDecoder, SMTT(30)
  <2>8. ASSUME NEW j \in 1 .. Len(e.shifting)
        PROVE  e.shifting[j] = SampleOf(w, (p + q) + j - 1)
    <3>1. j \in 1 .. 8 - z
      BY <2>5, <2>7
    <3>2. z + j - 1 \in 0 .. 7 /\ (p + q) + j - 1 = 8 * a + (z + j - 1) /\ (z + j - 1) + 1 = z + j
      <4>1. j \in Int /\ z \in Int /\ p + q \in Int /\ 1 <= j /\ j <= 8 - z /\ 0 <= z
        BY <1>2, <1>4, <3>1
      <4>2. PICK o \in Int : o = p + q
        BY <4>1
      <4>3. o = 8 * a + z
        BY <2>2, <4>2, Zenon
      <4>4. z + j - 1 \in 0 .. 7 /\ o + j - 1 = 8 * a + (z + j - 1) /\ (z + j - 1) + 1 = z + j
        BY <1>4, <4>1, <4>3
      <4>5. QED
        BY <4>2, <4>4, Zenon
    <3>3. ((p + q) + j - 1) \div 8 = a /\ ((p + q) + j - 1) % 8 = z + j - 1
      <4>1. PICK o \in 0 .. 7 : o = z + j - 1
        BY <3>2
      <4>2. (8 * a + o) \div 8 = a /\ (8 * a + o) % 8 = o
        BY <1>4, PlaceInByte, Zenon
      <4>3. (p + q) + j - 1 = 8 * a + o
        BY <3>2, <4>1, Zenon
      <4>4. QED
        BY <4>1, <4>2, <4>3, Zenon
    <3>4. e.shifting[j] = w[a][z + j]
      BY <2>3, <2>5, <2>7, <3>1
    <3>5. QED
      BY <3>2, <3>3, <3>4 DEF SampleOf
  <2>9. p + q = 8 * e.nextByte - Len(e.shifting)
    <3>1. p + q = 8 * (a + 1) - (8 - z)
      BY <1>4, <2>2
    <3>2. QED
      BY <2>5, <2>7, <3>1, Zenon
  <2>10. \A b \in e.nextByte .. n - 1 : e.buffer[b] = w[b]
    <3>1. \A b \in a + 1 .. n - 1 : b \in i .. n - 1
      BY <1>1, <2>2
    <3>2. QED
      BY <1>8, <2>7, <3>1, Zenon
  <2>11. Follows(w, n, e, p + q)
    BY <1>2, <2>7, <2>8, <2>9, <2>10 DEF Follows
  <2>12. QED
    BY <1>0, <2>7, <2>11
<1>12. QED
  BY <1>9, <1>10, <1>11


-----------------------------------------------------------------------------
(* The length of a pulse *)

(* q is the first number from n on that is not in H, or the limit l. *)
Stops(H, l, n, q) ==
  /\ q \in n .. l
  /\ \A k \in n .. q - 1 : k \in H
  /\ q = l \/ q \notin H

IsRun(H, l, f) == f = [n \in 0 .. l |-> IF n < l /\ n \in H THEN f[n + 1] ELSE n]

LEMMA StopExists ==
  ASSUME NEW H, NEW l \in Nat, NEW n \in 0 .. l
  PROVE  \E q \in n .. l : Stops(H, l, n, q)
<1> DEFINE T == {q \in n .. l : q = l \/ q \notin H}
<1>1. T \subseteq Nat /\ l \in T
  OBVIOUS
<1>2. PICK q \in T : \A y \in T : q <= y
  <2>1. T \subseteq Nat /\ T # {}
    BY <1>1
  <2> HIDE DEF T
  <2>2. QED
    BY <2>1, Least
<1>3. ASSUME NEW k \in n .. q - 1 PROVE k \in H
  <2>1. k \in n .. l /\ ~(q <= k)
    BY <1>1
  <2>2. QED
    BY <1>2, <2>1
<1>4. QED
  BY <1>2, <1>3 DEF Stops

LEMMA StopUnique ==
  ASSUME NEW H, NEW l \in Nat, NEW n \in 0 .. l, NEW q, NEW r, Stops(H, l, n, q), Stops(H, l, n, r)
  PROVE  q = r
<1>1. q \in n .. l /\ r \in n .. l
  BY DEF Stops
<1>2. ~(q < r)
  BY <1>1 DEF Stops
<1>3. ~(r < q)
  BY <1>1 DEF Stops
<1>4. QED
  BY <1>1, <1>2, <1>3

LEMMA RunStops ==
  ASSUME NEW H, NEW l \in Nat, NEW f, IsRun(H, l, f)
  PROVE  Stops(H, l, 0, f[0])
<1> DEFINE T == {i \in 0 .. l : Stops(H, l, l - i, f[l - i])}
<1>1. \A n \in 0 .. l : f[n] = IF n < l /\ n \in H THEN f[n + 1] ELSE n
  BY DEF IsRun
<1>2. 0 \in T
  <2>1. f[l] = l /\ l - 0 = l
    BY <1>1
  <2>2. QED
    BY <2>1 DEF Stops
<1>3. ASSUME NEW i \in 1 .. l, i - 1 \in T
      PROVE  i \in T
  <2>1. PICK n \in 0 .. l - 1 : n = l - i
    OBVIOUS
  <2>2. n + 1 = l - (i - 1) /\ n \in 0 .. l /\ n < l
    BY <2>1
  <2>3. Stops(H, l, n + 1, f[n + 1])
    BY <1>3, <2>2
  <2>4. Stops(H, l, n, f[n])
    <3>1. CASE n \in H
      <4>1. f[n] = f[n + 1]
        BY <1>1, <2>2, <3>1
      <4>2. PICK q : q = f[n + 1]
        OBVIOUS
      <4>3. q \in n + 1 .. l /\ (\A k \in n + 1 .. q - 1 : k \in H) /\ (q = l \/ q \notin H)
        BY <2>3, <4>2 DEF Stops
      <4>4. q \in n .. l /\ \A k \in n .. q - 1 : k \in H
        BY <2>2, <3>1, <4>3
      <4>5. QED
        BY <4>1, <4>2, <4>3, <4>4 DEF Stops
    <3>2. CASE n \notin H
      <4>1. f[n] = n
        BY <1>1, <2>2, <3>2
      <4>2. n \in n .. l /\ n .. n - 1 = {}
        BY <2>2
      <4>3. QED
        BY <3>2, <4>1, <4>2 DEF Stops
    <3>3. QED
      BY <3>1, <3>2
  <2>5. QED
    BY <2>1, <2>4
<1>4. l \in T
  <2> HIDE DEF T
  <2>1. \A i \in 0 .. l : i \in T
    BY <1>2, <1>3, Counting
  <2>2. QED
    BY <2>1
<1>5. QED
  BY <1>4

LEMMA RunExists ==
  ASSUME NEW H, NEW l \in Nat
  PROVE  \E f : IsRun(H, l, f)
<1> DEFINE End(n) == CHOOSE q \in n .. l : Stops(H, l, n, q)
           f == [n \in 0 .. l |-> End(n)]
<1>1. ASSUME NEW n \in 0 .. l PROVE Stops(H, l, n, f[n])
  <2>1. \E q \in n .. l : Stops(H, l, n, q)
    BY StopExists
  <2>2. QED
    BY <2>1
<1>2. ASSUME NEW n \in 0 .. l
      PROVE  f[n] = IF n < l /\ n \in H THEN f[n + 1] ELSE n
  <2> HIDE DEF f
  <2>1. PICK q : q = f[n]
    OBVIOUS
  <2>2. Stops(H, l, n, q)
    BY <1>1, <2>1
  <2>3. CASE n < l /\ n \in H
    <3>1. n + 1 \in 0 .. l
      BY <2>3
    <3>2. PICK r : r = f[n + 1]
      OBVIOUS
    <3>3. Stops(H, l, n + 1, r)
      BY <1>1, <3>1, <3>2
    <3>4. Stops(H, l, n, r)
      BY <2>3, <3>3 DEF Stops
    <3>5. q = r
      BY <2>2, <3>4, StopUnique
    <3>6. QED
      BY <2>1, <2>3, <3>2, <3>5
  <2>4. CASE ~(n < l /\ n \in H)
    <3>1. Stops(H, l, n, n)
      BY <2>4 DEF Stops
    <3>2. q = n
      BY <2>2, <3>1, StopUnique
    <3>3. QED
      BY <2>1, <2>4, <3>2
  <2>5. QED
    BY <2>3, <2>4
<1>3. f = [n \in 0 .. l |-> IF n < l /\ n \in H THEN f[n + 1] ELSE n]
  <2>1. f = [n \in 0 .. l |-> f[n]]
    OBVIOUS
  <2> HIDE DEF f
  <2>2. QED
    BY <1>2, <2>1
<1>4. QED
  BY <1>3 DEF IsRun

Hits(w, bit) == {k \in Nat : SampleOf(w, k) = bit}

(* A pulse ends at one place only. *)
LEMMA PulseEndIs ==
  ASSUME NEW w, NEW n \in Nat, NEW bit, NEW p \in 0 .. 8 * n
  PROVE  /\ PulseEnd(w, n, p, bit) \in p .. 8 * n
         /\ \A q : Stops(Hits(w, bit), 8 * n, p, q) <=> q = PulseEnd(w, n, p, bit)
<1>1. PICK l \in Nat : l = 8 * n
  OBVIOUS
<1>2. PICK H : H = Hits(w, bit)
  OBVIOUS
<1>3. p \in 0 .. l
  BY <1>1
<1>4. \A q \in p .. l : Stops(H, l, p, q) <=> /\ \A k \in p .. q - 1 : SampleOf(w, k) = bit
                                              /\ q = l \/ SampleOf(w, q) # bit
  <2>1. \A k \in Nat : k \in H <=> SampleOf(w, k) = bit
    BY <1>2 DEF Hits
  <2>2. ASSUME NEW q \in p .. l
        PROVE  Stops(H, l, p, q) <=> /\ \A k \in p .. q - 1 : SampleOf(w, k) = bit
                                     /\ q = l \/ SampleOf(w, q) # bit
    <3>1. q \in Nat /\ \A k \in p .. q - 1 : k \in Nat
      BY <1>3
    <3>2. QED
      BY <2>1, <3>1 DEF Stops
  <2>3. QED
    BY <2>2
<1>5. PICK r \in p .. l : Stops(H, l, p, r)
  BY <1>3, StopExists
<1>6. PICK e : e = PulseEnd(w, n, p, bit)
  OBVIOUS
<1>7. e \in p .. l /\ Stops(H, l, p, e)
  <2>1. e = CHOOSE q \in p .. l : /\ \A k \in p .. q - 1 : SampleOf(w, k) = bit
                                  /\ q = l \/ SampleOf(w, q) # bit
    BY <1>1, <1>6 DEF PulseEnd
  <2>2. \E q \in p .. l : /\ \A k \in p .. q - 1 : SampleOf(w, k) = bit
                          /\ q = l \/ SampleOf(w, q) # bit
    BY <1>4, <1>5
  <2>3. /\ e \in p .. l
        /\ \A k \in p .. e - 1 : SampleOf(w, k) = bit
        /\ e = l \/ SampleOf(w, e) # bit
    BY <2>1, <2>2, Zenon
  <2>4. QED
    BY <1>4, <2>3
<1>8. \A q : Stops(H, l, p, q) <=> q = e
  BY <1>3, <1>7, StopUnique
<1>9. QED
  BY <1>1, <1>2, <1>6, <1>7, <1>8

(* The count of getBits *)
Counted(d, bit) ==
  LET run[n \in 0 .. Left(d)] == IF n < Left(d) /\ Sample(d, n) = bit THEN run[n + 1] ELSE n
  IN  run[0]

LEMMA CountedIs ==
  ASSUME NEW w, NEW n \in Nat, NEW d, NEW p, Follows(w, n, d, p), NEW bit
  PROVE  /\ PulseEnd(w, n, p, bit) \in p .. 8 * n
         /\ Counted(d, bit) = PulseEnd(w, n, p, bit) - p
<1>1. PICK l : l = Left(d)
  OBVIOUS
<1>2. p \in 0 .. 8 * n /\ l = 8 * n - p /\ l \in Nat
  <2>1. Left(d) = 8 * n - p
    BY SampleIs
  <2>2. p \in 0 .. 8 * n
    BY FollowsTypes
  <2>3. QED
    BY <1>1, <2>1, <2>2
<1>3. PICK H : H = {k \in 0 .. l : Sample(d, k) = bit}
  OBVIOUS
<1>4. \A f : IsRun(H, l, f) <=>
               f = [n_1 \in 0 .. l |-> IF n_1 < l /\ Sample(d, n_1) = bit THEN f[n_1 + 1] ELSE n_1]
  <2>1. \A k \in 0 .. l : k \in H <=> Sample(d, k) = bit
    BY <1>3
  <2>2. ASSUME NEW f
        PROVE  [k \in 0 .. l |-> IF k < l /\ k \in H THEN f[k + 1] ELSE k]
             = [k \in 0 .. l |-> IF k < l /\ Sample(d, k) = bit THEN f[k + 1] ELSE k]
    BY <2>1
  <2>3. QED
    BY <2>2, Zenon DEF IsRun
<1>5. PICK f : IsRun(H, l, f) /\ Counted(d, bit) = f[0]
  <2>1. Counted(d, bit) =
          (CHOOSE f : f = [k \in 0 .. l |-> IF k < l /\ Sample(d, k) = bit THEN f[k + 1] ELSE k])[0]
    BY <1>1, Zenon DEF Counted
  <2>2. \E f : f = [k \in 0 .. l |-> IF k < l /\ Sample(d, k) = bit THEN f[k + 1] ELSE k]
    BY <1>2, <1>4, RunExists
  <2>3. QED
    BY <1>4, <2>1, <2>2, Zenon
<1>6. PICK c : c = f[0]
  OBVIOUS
<1>7. c \in 0 .. l /\ (\A k \in 0 .. c - 1 : Sample(d, k) = bit) /\ (c = l \/ Sample(d, c) # bit)
  <2>1. Stops(H, l, 0, c)
    BY <1>2, <1>5, <1>6, RunStops
  <2>2. QED
    BY <1>2, <1>3, <2>1 DEF Stops
<1>8. \A k \in 0 .. l - 1 : Sample(d, k) = SampleOf(w, p + k)
  <2>1. \A k \in 0 .. 8 * n - p - 1 : Sample(d, k) = SampleOf(w, p + k)
    BY SampleIs
  <2>2. QED
    BY <1>2, <2>1, Zenon
<1>9. Stops(Hits(w, bit), 8 * n, p, p + c)
  <2>1. p + c \in p .. 8 * n
    BY <1>2, <1>7
  <2>2. ASSUME NEW k \in p .. (p + c) - 1
        PROVE  k \in Hits(w, bit)
    <3>1. k - p \in 0 .. c - 1 /\ k - p \in 0 .. l - 1 /\ p + (k - p) = k /\ k \in Nat
      BY <1>2, <1>7
    <3>2. Sample(d, k - p) = bit /\ Sample(d, k - p) = SampleOf(w, p + (k - p))
      BY <1>7, <1>8, <3>1
    <3>3. QED
      BY <3>1, <3>2 DEF Hits
  <2>3. ASSUME p + c # 8 * n
        PROVE  p + c \notin Hits(w, bit)
    <3>1. c # l /\ c \in 0 .. l - 1
      BY <1>2, <1>7, <2>3
    <3>2. SampleOf(w, p + c) # bit
      BY <1>7, <1>8, <3>1
    <3>3. QED
      BY <3>2 DEF Hits
  <2>4. QED
    BY <2>1, <2>2, <2>3 DEF Stops
<1>10. p + c = PulseEnd(w, n, p, bit) /\ PulseEnd(w, n, p, bit) \in p .. 8 * n
  BY <1>2, <1>9, PulseEndIs
<1>11. QED
  BY <1>2, <1>5, <1>6, <1>7, <1>10

(* d, told its result and if it is one that is allowed *)
Told(d, r, e) == [d EXCEPT !.result = r, !.bitsError = e]

LEMMA ToldDecoder ==
  ASSUME NEW n, NEW d, IsDecoder(d, n), NEW r \in Nat, NEW e \in BOOLEAN, NEW f, f = Told(d, r, e)
  PROVE  /\ IsDecoder(f, n) /\ f.shifting = d.shifting /\ f.nextByte = d.nextByte
         /\ f.buffer = d.buffer /\ f.bitsError = e /\ f.result = r
BY DEF IsDecoder, Told

LEMMA getBitsIs ==
  ASSUME NEW d, NEW bit, NEW min, NEW max
  PROVE  /\ d.bitsError => getBits(d, bit, min, max) = [d EXCEPT !.result = 0]
         /\ ~d.bitsError => \E c : /\ c = Counted(d, bit)
                                   /\ getBits(d, bit, min, max) = Told(Skip(d, c), c, c < min \/ c > max)
<1>1. PICK c : c = Counted(d, bit)
  OBVIOUS
<1>2. d.bitsError => getBits(d, bit, min, max) = [d EXCEPT !.result = 0]
  BY Zenon DEF getBits
<1>3. ~d.bitsError => getBits(d, bit, min, max) = Told(Skip(d, c), c, c < min \/ c > max)
  BY <1>1, Zenon DEF getBits, Counted, Told
<1>4. QED
  BY <1>1, <1>2, <1>3, Zenon

(* getBits takes a pulse, *)
LEMMA getBitsTakes ==
  ASSUME NEW w, NEW n \in Nat, NEW d, NEW p, Follows(w, n, d, p), ~d.bitsError,
         NEW bit, NEW min \in Nat, NEW max \in Nat,
         NEW e, e = getBits(d, bit, min, max), NEW q, q = PulseEnd(w, n, p, bit)
  PROVE  /\ p \in 0 .. 8 * n /\ q \in p .. 8 * n
         /\ Follows(w, n, e, q) /\ e.buffer = d.buffer
         /\ e.result = q - p /\ (e.bitsError <=> q - p \notin min .. max)
<1>1. p \in 0 .. 8 * n /\ q \in p .. 8 * n /\ Counted(d, bit) = q - p
  <2>1. p \in 0 .. 8 * n
    BY FollowsTypes
  <2>2. PulseEnd(w, n, p, bit) \in p .. 8 * n /\ Counted(d, bit) = PulseEnd(w, n, p, bit) - p
    BY CountedIs
  <2>3. QED
    BY <2>1, <2>2, Zenon
<1>2. PICK c : c = Counted(d, bit) /\ e = Told(Skip(d, c), c, c < min \/ c > max)
  BY getBitsIs
<1>3. c = q - p /\ c \in 0 .. 8 * n - p /\ c \in Nat /\ p + c = q
  BY <1>1, <1>2
<1>4. PICK g : g = Skip(d, c)
  OBVIOUS
<1>5. Follows(w, n, g, q) /\ g.buffer = d.buffer
  <2>1. Follows(w, n, Skip(d, c), p + c) /\ Skip(d, c).buffer = d.buffer
    BY <1>3, SkipFollows
  <2>2. QED
    BY <1>3, <1>4, <2>1, Zenon
<1>6. PICK x \in BOOLEAN : x = (c < min \/ c > max)
  OBVIOUS
<1>7. e = Told(g, c, x)
  BY <1>2, <1>4, <1>6, Zenon
<1>8. IsDecoder(g, n)
  BY <1>5 DEF Follows
<1>9. /\ IsDecoder(e, n) /\ e.shifting = g.shifting /\ e.nextByte = g.nextByte
      /\ e.buffer = g.buffer /\ e.bitsError = x /\ e.result = c
  BY <1>3, <1>7, <1>8, ToldDecoder
<1>10. Follows(w, n, e, q)
  BY <1>5, <1>9 DEF Follows
<1>11. x <=> c \notin min .. max
  <2>1. (c < min \/ c > max) <=> c \notin min .. max
    BY <1>3
  <2>2. QED
    BY <1>6, <2>1, Zenon
<1>12. QED
  BY <1>1, <1>3, <1>5, <1>9, <1>10, <1>11

(* unless there was an error. *)
LEMMA getBitsKeepsError ==
  ASSUME NEW n, NEW d, IsDecoder(d, n), d.bitsError, NEW bit, NEW min, NEW max,
         NEW e, e = getBits(d, bit, min, max)
  PROVE  IsDecoder(e, n) /\ e.bitsError /\ e.buffer = d.buffer
<1>1. e = [d EXCEPT !.result = 0]
  BY getBitsIs
<1>2. QED
  BY <1>1 DEF IsDecoder

-----------------------------------------------------------------------------
(* The edges of the line *)

IsEdges(f, w, n, m) ==
  f = [k \in 0 .. m |-> IF k = 0 THEN 0 ELSE PulseEnd(w, n, f[k - 1], (k - 1) % 2)]

LEMMA EdgesExist ==
  ASSUME NEW w, NEW n \in Nat, NEW m \in Nat
  PROVE  \E f : IsEdges(f, w, n, m)
<1> DEFINE T == {k \in 0 .. m : \E f : IsEdges(f, w, n, k)}
<1>1. 0 \in T
  <2>1. IsEdges([k \in 0 .. 0 |-> 0], w, n, 0)
    BY DEF IsEdges
  <2>2. QED
    BY <2>1
<1>2. ASSUME NEW k \in 1 .. m, k - 1 \in T PROVE k \in T
  <2>1. PICK f : IsEdges(f, w, n, k - 1)
    BY <1>2
  <2>2. \A i \in 0 .. k - 1 : f[i] = IF i = 0 THEN 0 ELSE PulseEnd(w, n, f[i - 1], (i - 1) % 2)
    BY <2>1 DEF IsEdges
  <2> DEFINE g == [i \in 0 .. k |-> IF i < k THEN f[i] ELSE PulseEnd(w, n, f[i - 1], (i - 1) % 2)]
  <2>3. IsEdges(g, w, n, k)
    BY <2>2 DEF IsEdges
  <2>4. QED
    BY <2>3
<1> HIDE DEF T
<1>3. m \in T
  BY <1>1, <1>2, Counting, SMTT(30)
<1>4. QED
  BY <1>3 DEF T

LEMMA EdgesAre ==
  ASSUME NEW w, NEW n \in Nat, NEW at, at = Edges(w, n)
  PROVE  /\ at[0] = 0
         /\ \A k \in 0 .. 83 : at[k + 1] = PulseEnd(w, n, at[k], k % 2) /\ at[k + 1] \in at[k] .. 8 * n
         /\ \A k \in 0 .. 84 : at[k] \in 0 .. 8 * n
<1>1. PICK m \in Nat : m = 84
  OBVIOUS
<1>2. at = CHOOSE f : IsEdges(f, w, n, m)
  BY <1>1, Zenon DEF Edges, IsEdges
<1>3. IsEdges(at, w, n, m)
  BY <1>2, EdgesExist, Zenon
<1>4. \A k \in 0 .. m : at[k] = IF k = 0 THEN 0 ELSE PulseEnd(w, n, at[k - 1], (k - 1) % 2)
  BY <1>3 DEF IsEdges
<1>5. at[0] = 0
  BY <1>4
<1>6. ASSUME NEW k \in 0 .. m - 1
      PROVE  at[k + 1] = PulseEnd(w, n, at[k], k % 2)
  <2>1. PICK j \in 1 .. m : j = k + 1
    OBVIOUS
  <2>2. j \in 0 .. m /\ j # 0 /\ j - 1 = k
    BY <2>1
  <2>3. at[j] = PulseEnd(w, n, at[j - 1], (j - 1) % 2)
    BY <1>4, <2>2, Zenon
  <2>4. QED
    BY <2>1, <2>2, <2>3, Zenon
<1> DEFINE T == {k \in 0 .. m : at[k] \in 0 .. 8 * n}
<1>7. ASSUME NEW k \in 0 .. m - 1, at[k] \in 0 .. 8 * n
      PROVE  at[k + 1] \in at[k] .. 8 * n
  <2>1. PulseEnd(w, n, at[k], k % 2) \in at[k] .. 8 * n
    BY <1>7, PulseEndIs
  <2>2. QED
    BY <1>6, <2>1
<1>8. 0 \in T
  BY <1>5
<1>9. ASSUME NEW i \in 1 .. m, i - 1 \in T PROVE i \in T
  <2>1. PICK k \in 0 .. m - 1 : k = i - 1 /\ k + 1 = i
    OBVIOUS
  <2>2. at[k] \in 0 .. 8 * n
    BY <1>9, <2>1
  <2>3. at[k + 1] \in at[k] .. 8 * n
    BY <1>7, <2>2
  <2>4. QED
    BY <2>1, <2>2, <2>3
<1> HIDE DEF T
<1>10. \A i \in 0 .. m : i \in T
  BY <1>8, <1>9, Counting
<1>11. \A k \in 0 .. m : at[k] \in 0 .. 8 * n
  BY <1>10 DEF T
<1>12. \A k \in 0 .. m - 1 : at[k + 1] \in at[k] .. 8 * n
  BY <1>7, <1>11
<1>13. QED
  BY <1>1, <1>5, <1>6, <1>11, <1>12

(* The first k pulses have lengths that are allowed. *)
Good(w, n, k) == \A j \in 0 .. k - 1 : Length(w, n, j) \in Shortest(j) .. Longest(j)

LEMMA Limits ==
  ASSUME NEW k \in Nat
  PROVE  Shortest(k) \in Nat /\ Longest(k) \in Nat /\ (k > 0 => Shortest(k) >= 1)
BY DEF Shortest, Longest

LEMMA OneMoreGood ==
  ASSUME NEW w, NEW n, NEW k \in Nat
  PROVE  Good(w, n, k + 1) <=> Good(w, n, k) /\ Length(w, n, k) \in Shortest(k) .. Longest(k)
BY DEF Good

LEMMA FewerGood ==
  ASSUME NEW w, NEW n, NEW k \in Nat, NEW l \in 0 .. k, Good(w, n, k)
  PROVE  Good(w, n, l)
BY DEF Good

(* Pulses but the first one take time. *)
LEMMA EdgesRise ==
  ASSUME NEW w, NEW n \in Nat, NEW k \in 1 .. 84, Good(w, n, k)
  PROVE  Edges(w, n)[k] >= k - 1
<1>1. PICK at : at = Edges(w, n)
  OBVIOUS
<1> DEFINE T == {i \in 0 .. k : at[i] >= i - 1}
<1>2. at[0] = 0 /\ \A i \in 0 .. 84 : at[i] \in 0 .. 8 * n
  BY <1>1, EdgesAre, Zenon
<1>3. 0 \in T
  BY <1>2
<1>4. ASSUME NEW i \in 1 .. k, i - 1 \in T PROVE i \in T
  <2>1. PICK j \in 0 .. k - 1 : j = i - 1 /\ j + 1 = i
    OBVIOUS
  <2>2. at[j] \in Nat /\ at[j + 1] \in Nat /\ at[j] >= j - 1
    <3>1. j \in 0 .. 84 /\ j + 1 \in 0 .. 84 /\ at[j] >= j - 1
      BY <1>4, <2>1
    <3>2. at[j] \in 0 .. 8 * n /\ at[j + 1] \in 0 .. 8 * n
      BY <1>2, <3>1, Zenon
    <3>3. QED
      BY <3>1, <3>2
  <2>3. Length(w, n, j) = at[j + 1] - at[j]
    BY <1>1, Zenon DEF Length
  <2>4. Length(w, n, j) \in Shortest(j) .. Longest(j)
    BY DEF Good
  <2>5. Shortest(j) \in Nat /\ Longest(j) \in Nat /\ (j > 0 => Shortest(j) >= 1)
    BY Limits
  <2>6. at[j + 1] - at[j] >= Shortest(j)
    BY <2>2, <2>3, <2>4, <2>5
  <2>7. at[i] >= i - 1
    BY <2>1, <2>2, <2>5, <2>6
  <2>8. QED
    BY <2>7
<1> HIDE DEF T
<1>5. k \in T
  BY <1>3, <1>4, Counting
<1>6. QED
  BY <1>1, <1>5 DEF T

-----------------------------------------------------------------------------
(* The decoder after k pulses: in error if one of them had a length that is not allowed, *)
(* and else at their end                                                                 *)
After(w, n, d, k) ==
  /\ IsDecoder(d, n)
  /\ Good(w, n, k) => ~d.bitsError /\ Follows(w, n, d, Edges(w, n)[k])
  /\ ~Good(w, n, k) => d.bitsError

(* Pulse k, the one before pulse j, and what getBits is told of it *)
IsPulse(k, j, bit, min, max) ==
  k \in 0 .. 83 /\ j = k + 1 /\ bit = k % 2 /\ min = Shortest(k) /\ max = Longest(k)

LEMMA OnePulse ==
  ASSUME NEW w, NEW n \in Nat, NEW d, NEW k, After(w, n, d, k), NEW j, NEW bit, NEW min, NEW max,
         IsPulse(k, j, bit, min, max), NEW e, e = getBits(d, bit, min, max)
  PROVE  /\ After(w, n, e, j) /\ e.buffer = d.buffer
         /\ Good(w, n, j) => e.result = Length(w, n, k)
<1>1. PICK at : at = Edges(w, n)
  OBVIOUS
<1>0. k \in 0 .. 83 /\ j = k + 1 /\ bit = k % 2 /\ min = Shortest(k) /\ max = Longest(k)
  BY DEF IsPulse
<1>2. k \in Nat /\ min \in Nat /\ max \in Nat /\ IsDecoder(d, n)
  BY <1>0, Limits DEF After
<1>3. at[j] = PulseEnd(w, n, at[k], bit) /\ Length(w, n, k) = at[j] - at[k]
  <2>1. \A i \in 0 .. 83 : at[i + 1] = PulseEnd(w, n, at[i], i % 2)
    BY <1>1, EdgesAre, Zenon
  <2>2. QED
    BY <1>0, <1>1, <2>1, Zenon DEF Length
<1>4. Good(w, n, j) <=> Good(w, n, k) /\ Length(w, n, k) \in min .. max
  BY <1>0, <1>2, OneMoreGood, Zenon
<1>5. CASE Good(w, n, k)
  <2>1. ~d.bitsError /\ Follows(w, n, d, at[k])
    BY <1>1, <1>5 DEF After
  <2>2. /\ Follows(w, n, e, at[j]) /\ e.buffer = d.buffer
        /\ e.result = at[j] - at[k] /\ (e.bitsError <=> at[j] - at[k] \notin min .. max)
    <3>1. PICK p, q : p = at[k] /\ q = at[j]
      OBVIOUS
    <3>2. Follows(w, n, d, p) /\ q = PulseEnd(w, n, p, bit)
      BY <1>3, <2>1, <3>1, Zenon
    <3>3. /\ Follows(w, n, e, q) /\ e.buffer = d.buffer
          /\ e.result = q - p /\ (e.bitsError <=> q - p \notin min .. max)
      BY <1>2, <2>1, <3>2, getBitsTakes
    <3>4. QED
      BY <3>1, <3>3, Zenon
  <2>3. IsDecoder(e, n)
    BY <2>2 DEF Follows
  <2>4. QED
    BY <1>1, <1>3, <1>4, <1>5, <2>2, <2>3, Zenon DEF After
<1>6. CASE ~Good(w, n, k)
  <2>1. d.bitsError
    BY <1>6 DEF After
  <2>2. IsDecoder(e, n) /\ e.bitsError /\ e.buffer = d.buffer
    BY <1>2, <2>1, getBitsKeepsError
  <2>3. QED
    BY <1>4, <1>6, <2>2, Zenon DEF After
<1>7. QED
  BY <1>5, <1>6

LEMMA AtTheBeginning ==
  ASSUME NEW n \in Nat, NEW w \in [0 .. n - 1 -> Byte], NEW d, d = Decoder(w, n)
  PROVE  After(w, n, d, 0) /\ d.buffer = w
<1>1. PICK s \in Seq({0, 1}) : s = <<>> /\ Len(s) = 0
  BY EmptySeq
<1>2. d = [buffer |-> w, samples |-> n, nextByte |-> 0, shifting |-> s, bitsError |-> FALSE, result |-> 0]
  BY <1>1, Zenon DEF Decoder
<1>3. IsDecoder(d, n) /\ d.buffer = w /\ d.nextByte = 0 /\ d.shifting = s /\ ~d.bitsError
  BY <1>2 DEF IsDecoder
<1>4. Follows(w, n, d, 0)
  <2>1. Len(d.shifting) = 0 /\ 0 \in 0 .. 8 * n /\ 0 = 8 * 0 - 0 /\ 1 .. 0 = {}
    BY <1>1, <1>3
  <2>2. QED
    BY <1>3, <2>1, Zenon DEF Follows
<1>5. Edges(w, n)[0] = 0
  BY EdgesAre
<1>6. QED
  BY <1>3, <1>4, <1>5 DEF After, Good

LEMMA PreambleTakes ==
  ASSUME NEW n \in Nat, NEW w \in [0 .. n - 1 -> Byte], NEW e, e = Preamble(Decoder(w, n))
  PROVE  After(w, n, e, 4) /\ e.buffer = w
<1>1. PICK d : d = Decoder(w, n)
  OBVIOUS
<1>2. PICK a : a = getBits(d, 0, 0, 10)
  OBVIOUS
<1>3. PICK b : b = getBits(a, 1, 1, 10)
  OBVIOUS
<1>4. PICK c : c = getBits(b, 0, 2, 16)
  OBVIOUS
<1>5. e = getBits(c, 1, 2, 16)
  BY <1>1, <1>2, <1>3, <1>4, Zenon DEF Preamble, BITS_LO, BITS_HI
<1>6. After(w, n, d, 0) /\ d.buffer = w
  BY <1>1, AtTheBeginning
<1>7. IsPulse(0, 1, 0, 0, 10)
  BY DEF IsPulse, Shortest, Longest
<1>8. IsPulse(1, 2, 1, 1, 10)
  BY DEF IsPulse, Shortest, Longest
<1>9. IsPulse(2, 3, 0, 2, 16)
  BY DEF IsPulse, Shortest, Longest
<1>10. IsPulse(3, 4, 1, 2, 16)
  BY DEF IsPulse, Shortest, Longest
<1>11. After(w, n, a, 1) /\ a.buffer = w
  BY <1>2, <1>6, <1>7, OnePulse
<1>12. After(w, n, b, 2) /\ b.buffer = w
  BY <1>3, <1>8, <1>11, OnePulse
<1>13. After(w, n, c, 3) /\ c.buffer = w
  BY <1>4, <1>9, <1>12, OnePulse
<1>14. QED
  BY <1>5, <1>10, <1>13, OnePulse

-----------------------------------------------------------------------------
(* A byte of data *)

NextBit(r) ==
  LET after == getBits(getBits(r.d, BITS_LO, 2, 8), BITS_HI, 1, 10)
  IN  [d |-> after, byte |-> Append(Tail(r.byte), IF after.result >= 5 THEN 1 ELSE 0)]

NoBits(d) == [d |-> d, byte |-> [k \in 1 .. 8 |-> 0]]

IsRead(f, d, m) == f = [j \in 0 .. m |-> IF j = 0 THEN NoBits(d) ELSE NextBit(f[j - 1])]

LEMMA ReadExists ==
  ASSUME NEW d, NEW m \in Nat
  PROVE  \E f : IsRead(f, d, m)
<1> DEFINE T == {k \in 0 .. m : \E f : IsRead(f, d, k)}
<1>1. 0 \in T
  <2>1. IsRead([k \in 0 .. 0 |-> NoBits(d)], d, 0)
    BY DEF IsRead
  <2>2. QED
    BY <2>1
<1>2. ASSUME NEW k \in 1 .. m, k - 1 \in T PROVE k \in T
  <2>1. PICK f : IsRead(f, d, k - 1)
    BY <1>2
  <2>2. \A i \in 0 .. k - 1 : f[i] = IF i = 0 THEN NoBits(d) ELSE NextBit(f[i - 1])
    BY <2>1 DEF IsRead
  <2> DEFINE g == [i \in 0 .. k |-> IF i < k THEN f[i] ELSE NextBit(f[i - 1])]
  <2>3. IsRead(g, d, k)
    BY <2>2 DEF IsRead
  <2>4. QED
    BY <2>3
<1> HIDE DEF T
<1>3. m \in T
  BY <1>1, <1>2, Counting
<1>4. QED
  BY <1>3 DEF T

WithByte(d, i, byte) == [d EXCEPT !.buffer[i] = byte]

LEMMA WithByteDecoder ==
  ASSUME NEW n, NEW d, IsDecoder(d, n), NEW i \in Nat, NEW byte \in Byte, NEW e, e = WithByte(d, i, byte)
  PROVE  /\ IsDecoder(e, n) /\ e.shifting = d.shifting /\ e.nextByte = d.nextByte
         /\ e.bitsError = d.bitsError /\ e.buffer = [d.buffer EXCEPT ![i] = byte]
<1>1. PICK b : b = [d.buffer EXCEPT ![i] = byte]
  OBVIOUS
<1>2. d.buffer \in [0 .. n - 1 -> Byte]
  BY DEF IsDecoder
<1>3. b \in [0 .. n - 1 -> Byte]
  BY <1>1, <1>2
<1>4. e = [d EXCEPT !.buffer = b]
  BY <1>1 DEF WithByte
<1>5. /\ IsDecoder(e, n) /\ e.shifting = d.shifting /\ e.nextByte = d.nextByte
      /\ e.bitsError = d.bitsError /\ e.buffer = b
  BY <1>3, <1>4 DEF IsDecoder
<1>6. QED
  BY <1>1, <1>5

LEMMA DataByteIsRead ==
  ASSUME NEW d, NEW i
  PROVE  \E f : /\ f[0] = NoBits(d)
                /\ \A j \in 0 .. 7 : f[j + 1] = NextBit(f[j])
                /\ DataByte(d, i) = WithByte(f[8].d, i, f[8].byte)
<1>1. PICK m \in Nat : m = 8
  OBVIOUS
<1>2. PICK f : f = CHOOSE g : IsRead(g, d, m)
  OBVIOUS
<1>3. IsRead(f, d, m)
  BY <1>2, ReadExists, Zenon
<1>4. f = CHOOSE g : g = [j \in 0 .. 8 |->
              IF j = 0 THEN [d |-> d, byte |-> [k \in 1 .. 8 |-> 0]] ELSE NextBit(g[j - 1])]
  BY <1>1, <1>2, Zenon DEF IsRead, NoBits
<1>5. DataByte(d, i) = WithByte(f[8].d, i, f[8].byte)
  BY <1>4, Zenon DEF DataByte, WithByte, NextBit
<1>6. \A j \in 0 .. m : f[j] = IF j = 0 THEN NoBits(d) ELSE NextBit(f[j - 1])
  BY <1>3 DEF IsRead
<1>7. ASSUME NEW j \in 0 .. 7
      PROVE  f[j + 1] = NextBit(f[j])
  <2>1. PICK k \in 1 .. m : k = j + 1
    BY <1>1
  <2>2. k \in 0 .. m /\ k # 0 /\ k - 1 = j
    BY <2>1
  <2>3. QED
    BY <1>6, <2>1, <2>2, Zenon
<1>8. f[0] = NoBits(d)
  BY <1>6
<1>9. QED
  BY <1>5, <1>7, <1>8

Bit == {0, 1}

LEMMA LastAppended ==
  ASSUME NEW s \in Seq(Bit), NEW x \in Bit
  PROVE  Append(s, x) \in Seq(Bit) /\ Len(Append(s, x)) = Len(s) + 1 /\ Append(s, x)[Len(s) + 1] = x
OBVIOUS

LEMMA OthersAppended ==
  ASSUME NEW s \in Seq(Bit), NEW x \in Bit
  PROVE  \A m \in 1 .. Len(s) : Append(s, x)[m] = s[m]
OBVIOUS

LEMMA FirstDropped ==
  ASSUME NEW a \in Seq(Bit), Len(a) = 8, NEW s, s = Tail(a)
  PROVE  s \in Seq(Bit) /\ Len(s) = 7 /\ \A m \in 1 .. 7 : s[m] = a[m + 1]
<1>1. a # <<>>
  BY EmptySeq
<1>2. s \in Seq(Bit) /\ Len(s) = Len(a) - 1 /\ \A m \in 1 .. Len(s) : s[m] = a[m + 1]
  BY <1>1, HeadTailProperties, Zenon
<1>3. Len(s) = 7
  BY <1>2
<1>4. QED
  BY <1>2, <1>3, Zenon

LEMMA ByteShifted ==
  ASSUME NEW byte \in Byte, NEW x \in {0, 1}
  PROVE  /\ Append(Tail(byte), x) \in Byte /\ Append(Tail(byte), x)[8] = x
         /\ \A m \in 1 .. 7 : Append(Tail(byte), x)[m] = byte[m + 1]
<1>1. byte \in Seq(Bit) /\ Len(byte) = 8 /\ x \in Bit
  BY BytesAreTuples DEF Bit
<1>2. PICK s : s = Tail(byte)
  OBVIOUS
<1>3. s \in Seq(Bit) /\ Len(s) = 7 /\ \A m \in 1 .. 7 : s[m] = byte[m + 1]
  BY <1>1, <1>2, FirstDropped, Zenon
<1>4. Append(s, x) \in Seq(Bit) /\ Len(Append(s, x)) = Len(s) + 1 /\ Append(s, x)[Len(s) + 1] = x
  BY <1>1, <1>3, LastAppended, Zenon
<1>5. \A m \in 1 .. Len(s) : Append(s, x)[m] = s[m]
  BY <1>1, <1>3, OthersAppended, Zenon
<1>6. PICK c : c = Append(s, x)
  OBVIOUS
<1>7. c \in Seq(Bit) /\ Len(c) = 8 /\ c[8] = x /\ \A m \in 1 .. 7 : c[m] = byte[m + 1]
  <2>1. 7 + 1 = 8
    OBVIOUS
  <2>2. QED
    BY <1>3, <1>4, <1>5, <1>6, <2>1, Zenon
<1>8. c \in [1 .. 8 -> Bit]
  BY <1>7, LenProperties, Zenon
<1>9. c \in Byte
  BY <1>8 DEF Bit, Byte
<1>10. QED
  BY <1>2, <1>6, <1>7, <1>9, Zenon

(* j bits of byte i have been read, from d on. *)
HasRead(w, n, d, i, r, j) ==
  /\ After(w, n, r.d, 4 + 16 * i + 2 * j)
  /\ r.d.buffer = d.buffer
  /\ r.byte \in Byte
  /\ Good(w, n, 4 + 16 * i + 2 * j) => \A m \in 1 .. j : r.byte[8 - j + m] = DataOf(w, n, i)[m]

LEMMA Parity ==
  ASSUME NEW x \in Int
  PROVE  (2 * x) % 2 = 0 /\ (2 * x + 1) % 2 = 1
OBVIOUS

LEMMA DataPulses ==
  ASSUME NEW i \in 0 .. 4, NEW j \in 0 .. 7, NEW k, k = 4 + 16 * i + 2 * j
  PROVE  IsPulse(k, k + 1, 0, 2, 8) /\ IsPulse(k + 1, k + 2, 1, 1, 10)
<1>1. PICK x \in Int : x = 2 + 8 * i + j
  OBVIOUS
<1>2. k = 2 * x /\ k \in 4 .. 82
  BY <1>1
<1>3. k % 2 = 0 /\ (k + 1) % 2 = 1
  BY <1>2, Parity
<1>4. Shortest(k) = 2 /\ Longest(k) = 8
  <2>1. k # 0 /\ k # 1 /\ k \notin {2, 3} /\ k \notin {0, 1}
    BY <1>2
  <2>2. QED
    BY <1>3, <2>1 DEF Shortest, Longest
<1>5. PICK l : l = k + 1
  OBVIOUS
<1>6. Shortest(l) = 1 /\ Longest(l) = 10
  BY <1>2, <1>3, <1>5 DEF Shortest, Longest
<1>7. QED
  BY <1>2, <1>3, <1>4, <1>5, <1>6 DEF IsPulse

LEMMA OneBit ==
  ASSUME NEW w, NEW n \in Nat, NEW d, NEW i \in 0 .. 4, NEW r, NEW j \in 0 .. 7,
         HasRead(w, n, d, i, r, j), NEW s, s = NextBit(r)
  PROVE  HasRead(w, n, d, i, s, j + 1)
<1>1. PICK k : k = 4 + 16 * i + 2 * j
  OBVIOUS
<1>2. k \in Nat /\ k + 2 = 4 + 16 * i + 2 * (j + 1) /\ k + 1 = 16 * i + 2 * (j + 1) + 3 /\ j + 1 \in 1 .. 8
  BY <1>1
<1>3. PICK l, m : l = k + 1 /\ m = k + 2
  OBVIOUS
<1>4. IsPulse(k, l, 0, 2, 8) /\ IsPulse(l, m, 1, 1, 10)
  BY <1>1, <1>3, DataPulses, Zenon
<1>5. After(w, n, r.d, k) /\ r.d.buffer = d.buffer /\ r.byte \in Byte
  BY <1>1 DEF HasRead
<1>6. PICK a : a = getBits(r.d, 0, 2, 8)
  OBVIOUS
<1>7. After(w, n, a, l) /\ a.buffer = d.buffer
  <2>1. PICK c : c = r.d
    OBVIOUS
  <2>2. After(w, n, c, k) /\ c.buffer = d.buffer /\ a = getBits(c, 0, 2, 8)
    BY <1>5, <1>6, <2>1, Zenon
  <2>3. QED
    BY <1>4, <2>2, OnePulse
<1>8. PICK b : b = getBits(a, 1, 1, 10)
  OBVIOUS
<1>9. After(w, n, b, m) /\ b.buffer = d.buffer /\ (Good(w, n, m) => b.result = Length(w, n, l))
  BY <1>4, <1>7, <1>8, OnePulse
<1>10. PICK x \in {0, 1} : x = IF b.result >= 5 THEN 1 ELSE 0
  OBVIOUS
<1>11. PICK y : y = Append(Tail(r.byte), x)
  OBVIOUS
<1>12. s = [d |-> b, byte |-> y]
  BY <1>6, <1>8, <1>10, <1>11, Zenon DEF NextBit, BITS_LO, BITS_HI
<1>13. s.d = b /\ s.byte = y
  BY <1>12
<1>14. PICK z : z = r.byte
  OBVIOUS
<1>15. y \in Byte /\ y[8] = x /\ \A e \in 1 .. 7 : y[e] = z[e + 1]
  <2>1. z \in Byte /\ y = Append(Tail(z), x)
    BY <1>5, <1>11, <1>14, Zenon
  <2>2. QED
    BY <2>1, ByteShifted
<1>16. ASSUME Good(w, n, m)
       PROVE  \A e \in 1 .. j + 1 : y[8 - (j + 1) + e] = DataOf(w, n, i)[e]
  <2>1. Good(w, n, k)
    BY <1>2, <1>3, <1>16, FewerGood
  <2>2. \A e \in 1 .. j : z[8 - j + e] = DataOf(w, n, i)[e]
    BY <1>1, <1>14, <2>1 DEF HasRead
  <2>3. x = DataOf(w, n, i)[j + 1]
    <3>1. PICK g \in 1 .. 8 : g = j + 1
      OBVIOUS
    <3>2. l = 16 * i + 2 * g + 3
      BY <1>2, <1>3, <3>1
    <3>3. DataOf(w, n, i)[g] = IF Length(w, n, l) >= 5 THEN 1 ELSE 0
      BY <3>2 DEF DataOf
    <3>4. QED
      BY <1>9, <1>10, <1>16, <3>1, <3>3, Zenon
  <2>4. ASSUME NEW e \in 1 .. j
        PROVE  y[8 - (j + 1) + e] = DataOf(w, n, i)[e]
    <3>1. PICK g \in 1 .. 7 : g = 8 - (j + 1) + e /\ g + 1 = 8 - j + e
      OBVIOUS
    <3>2. y[g] = z[g + 1]
      BY <1>15
    <3>3. QED
      BY <2>2, <3>1, <3>2, Zenon
  <2>5. ASSUME NEW e \in 1 .. j + 1, e \notin 1 .. j
        PROVE  y[8 - (j + 1) + e] = DataOf(w, n, i)[e]
    <3>1. e = j + 1 /\ 8 - (j + 1) + e = 8
      BY <2>5
    <3>2. QED
      BY <1>15, <2>3, <3>1, Zenon
  <2>6. QED
    BY <2>4, <2>5
<1>17. After(w, n, s.d, m) /\ s.d.buffer = d.buffer /\ s.byte \in Byte
  BY <1>9, <1>13, <1>15, Zenon
<1>18. Good(w, n, m) => \A e \in 1 .. j + 1 : s.byte[8 - (j + 1) + e] = DataOf(w, n, i)[e]
  BY <1>13, <1>16, Zenon
<1>19. QED
  BY <1>2, <1>3, <1>17, <1>18, Zenon DEF HasRead

(* Byte i is read, and written to its place, whose samples have been taken. *)
LEMMA DataByteTakes ==
  ASSUME NEW w, NEW n \in Nat, NEW d, NEW i \in 0 .. 4, After(w, n, d, 4 + 16 * i),
         NEW e, e = DataByte(d, i)
  PROVE  /\ After(w, n, e, 4 + 16 * (i + 1))
         /\ \A b : b # i => e.buffer[b] = d.buffer[b]
         /\ Good(w, n, 4 + 16 * (i + 1)) => e.buffer[i] = DataOf(w, n, i)
<1>1. PICK f : /\ f[0] = NoBits(d)
               /\ \A j \in 0 .. 7 : f[j + 1] = NextBit(f[j])
               /\ e = WithByte(f[8].d, i, f[8].byte)
  BY DataByteIsRead
<1> DEFINE T == {j \in 0 .. 8 : HasRead(w, n, d, i, f[j], j)}
<1>2. 0 \in T
  <2>1. 4 + 16 * i + 2 * 0 = 4 + 16 * i /\ 1 .. 0 = {}
    OBVIOUS
  <2>2. f[0].d = d /\ f[0].byte \in Byte
    BY <1>1 DEF NoBits, Byte
  <2>3. HasRead(w, n, d, i, f[0], 0)
    BY <2>1, <2>2, Zenon DEF HasRead
  <2>4. QED
    BY <2>3
<1>3. ASSUME NEW k \in 1 .. 8, k - 1 \in T PROVE k \in T
  <2>1. PICK j \in 0 .. 7 : j = k - 1 /\ j + 1 = k
    OBVIOUS
  <2>2. PICK r, s : r = f[j] /\ s = f[k]
    OBVIOUS
  <2>3. HasRead(w, n, d, i, r, j)
    BY <1>3, <2>1, <2>2
  <2>4. s = NextBit(r)
    BY <1>1, <2>1, <2>2, Zenon
  <2>5. HasRead(w, n, d, i, s, j + 1)
    BY <2>3, <2>4, OneBit
  <2>6. QED
    BY <2>1, <2>2, <2>5
<1>4. HasRead(w, n, d, i, f[8], 8)
  <2> HIDE DEF T
  <2>1. PICK m \in Nat : m = 8
    OBVIOUS
  <2>2. \A k \in 1 .. m : k - 1 \in T => k \in T
    BY <1>3, <2>1
  <2>3. m \in 0 .. m /\ \A k \in 0 .. m : k \in T
    BY <1>2, <2>2, Counting
  <2>4. QED
    BY <2>1, <2>3 DEF T
<1>5. PICK g, y, k : g = f[8].d /\ y = f[8].byte /\ k = 4 + 16 * (i + 1)
  OBVIOUS
<1>6. k = 4 + 16 * i + 2 * 8 /\ k \in 1 .. 84 /\ k - 1 > 8 * i + 8
  BY <1>5
<1>7. After(w, n, g, k) /\ g.buffer = d.buffer /\ y \in Byte
  BY <1>4, <1>5, <1>6, Zenon DEF HasRead
<1>8. IsDecoder(g, n)
  BY <1>7 DEF After
<1>9. e = WithByte(g, i, y)
  BY <1>1, <1>5, Zenon
<1>10. /\ IsDecoder(e, n) /\ e.shifting = g.shifting /\ e.nextByte = g.nextByte
       /\ e.bitsError = g.bitsError /\ e.buffer = [g.buffer EXCEPT ![i] = y]
  BY <1>7, <1>8, <1>9, WithByteDecoder
<1>11. \A b : b # i => e.buffer[b] = d.buffer[b]
  BY <1>7, <1>8, <1>10 DEF IsDecoder
<1>12. ASSUME Good(w, n, k)
       PROVE  Follows(w, n, e, Edges(w, n)[k]) /\ e.buffer[i] = DataOf(w, n, i)
  <2>1. PICK p : p = Edges(w, n)[k]
    OBVIOUS
  <2>2. p >= k - 1
    BY <1>6, <1>12, <2>1, EdgesRise
  <2>3. Follows(w, n, g, p)
    BY <1>7, <1>12, <2>1, Zenon DEF After
  <2>4. /\ p \in 0 .. 8 * n /\ p = 8 * g.nextByte - Len(g.shifting) /\ g.nextByte \in 0 .. n
        /\ Len(g.shifting) \in Nat /\ g.buffer \in [0 .. n - 1 -> Byte]
    BY <2>3, FollowsTypes
  <2>5. i < g.nextByte /\ i \in 0 .. n - 1
    <3>1. PICK a, l : a = g.nextByte /\ l = Len(g.shifting)
      OBVIOUS
    <3>2. p \in 0 .. 8 * n /\ p = 8 * a - l /\ a \in 0 .. n /\ l \in Nat
      BY <2>4, <3>1, Zenon
    <3>3. k \in Int /\ i \in Nat
      BY <1>6
    <3>4. i < a /\ i \in 0 .. n - 1
      BY <1>6, <2>2, <3>2, <3>3
    <3>5. QED
      BY <3>1, <3>4, Zenon
  <2>6. e.buffer[i] = y
    BY <1>10, <2>4, <2>5
  <2>7. y = DataOf(w, n, i)
    <3>1. \A m \in 1 .. 8 : y[8 - 8 + m] = DataOf(w, n, i)[m]
      BY <1>4, <1>5, <1>6, <1>12, Zenon DEF HasRead
    <3>2. ASSUME NEW m \in 1 .. 8
          PROVE  y[m] = DataOf(w, n, i)[m]
      <4>1. 8 - 8 + m = m
        OBVIOUS
      <4>2. QED
        BY <3>1, <4>1, Zenon
    <3>3. y = [m \in 1 .. 8 |-> y[m]]
      BY <1>7 DEF Byte
    <3>4. DataOf(w, n, i) = [m \in 1 .. 8 |-> DataOf(w, n, i)[m]]
      BY DEF DataOf
    <3>5. QED
      BY <3>2, <3>3, <3>4, Zenon
  <2>8. \A b \in e.nextByte .. n - 1 : e.buffer[b] = w[b]
    <3>1. \A b \in g.nextByte .. n - 1 : b # i
      BY <2>4, <2>5
    <3>2. \A b \in g.nextByte .. n - 1 : g.buffer[b] = w[b]
      BY <2>3 DEF Follows
    <3>3. QED
      BY <1>7, <1>10, <1>11, <3>1, <3>2
  <2>9. Follows(w, n, e, p)
    BY <1>10, <2>3, <2>8 DEF Follows
  <2>10. QED
    BY <2>1, <2>6, <2>7, <2>9
<1>13. ~Good(w, n, k) => e.bitsError
  BY <1>7, <1>10 DEF After
<1>14. Good(w, n, k) => ~e.bitsError
  BY <1>7, <1>10 DEF After
<1>15. QED
  BY <1>5, <1>10, <1>11, <1>12, <1>13, <1>14, Zenon DEF After

-----------------------------------------------------------------------------
(* The five bytes *)

NextByte(d, i) == IF d.bitsError THEN d ELSE DataByte(d, i)

IsDecoding(f, w, n, m) ==
  f = [i \in 0 .. m |-> IF i = 0 THEN Preamble(Decoder(w, n)) ELSE NextByte(f[i - 1], i - 1)]

LEMMA DecodingExists ==
  ASSUME NEW w, NEW n, NEW m \in Nat
  PROVE  \E f : IsDecoding(f, w, n, m)
<1> DEFINE T == {k \in 0 .. m : \E f : IsDecoding(f, w, n, k)}
<1>1. 0 \in T
  <2>1. IsDecoding([k \in 0 .. 0 |-> Preamble(Decoder(w, n))], w, n, 0)
    BY DEF IsDecoding
  <2>2. QED
    BY <2>1
<1>2. ASSUME NEW k \in 1 .. m, k - 1 \in T PROVE k \in T
  <2>1. PICK f : IsDecoding(f, w, n, k - 1)
    BY <1>2
  <2>2. \A i \in 0 .. k - 1 : f[i] = IF i = 0 THEN Preamble(Decoder(w, n)) ELSE NextByte(f[i - 1], i - 1)
    BY <2>1 DEF IsDecoding
  <2> DEFINE g == [i \in 0 .. k |-> IF i < k THEN f[i] ELSE NextByte(f[i - 1], i - 1)]
  <2>3. IsDecoding(g, w, n, k)
    BY <2>2 DEF IsDecoding
  <2>4. QED
    BY <2>3
<1> HIDE DEF T
<1>3. m \in T
  BY <1>1, <1>2, Counting
<1>4. QED
  BY <1>3 DEF T

(* What parseSamples makes of the decoder at the end *)
Outcome(d) ==
  LET v(i) == Value(d.buffer[i])
  IN  IF d.bitsError \/ ~((v(0) + v(1) + v(2) + v(3)) % 256 = v(4))
      THEN [valid |-> FALSE, h |-> 0, t |-> 0]
      ELSE [valid |-> TRUE, h |-> 256 * v(0) + v(1), t |-> 256 * v(2) + v(3)]

LEMMA parseSamplesIsDecoding ==
  ASSUME NEW w, NEW n
  PROVE  \E f : /\ f[0] = Preamble(Decoder(w, n))
                /\ \A i \in 0 .. 4 : f[i + 1] = NextByte(f[i], i)
                /\ parseSamples(w, n) = Outcome(f[5])
<1>1. PICK m \in Nat : m = 5
  OBVIOUS
<1>2. PICK f : f = CHOOSE g : IsDecoding(g, w, n, m)
  OBVIOUS
<1>3. IsDecoding(f, w, n, m)
  BY <1>2, DecodingExists, Zenon
<1>4. f = CHOOSE g : g = [i \in 0 .. 5 |->
              IF i = 0 THEN Preamble(Decoder(w, n)) ELSE NextByte(g[i - 1], i - 1)]
  BY <1>1, <1>2, Zenon DEF IsDecoding
<1>5. parseSamples(w, n) = Outcome(f[5])
  BY <1>4, ZenonT(60) DEF parseSamples, Outcome, NextByte
<1>6. \A i \in 0 .. m : f[i] = IF i = 0 THEN Preamble(Decoder(w, n)) ELSE NextByte(f[i - 1], i - 1)
  BY <1>3 DEF IsDecoding
<1>7. ASSUME NEW i \in 0 .. 4
      PROVE  f[i + 1] = NextByte(f[i], i)
  <2>1. PICK k \in 1 .. m : k = i + 1
    BY <1>1
  <2>2. k \in 0 .. m /\ k # 0 /\ k - 1 = i
    BY <2>1
  <2>3. QED
    BY <1>6, <2>1, <2>2, Zenon
<1>8. f[0] = Preamble(Decoder(w, n))
  BY <1>6
<1>9. QED
  BY <1>5, <1>7, <1>8

(* i bytes have been decoded. *)
HasParsed(w, n, d, i) ==
  /\ After(w, n, d, 4 + 16 * i)
  /\ Good(w, n, 4 + 16 * i) => \A b \in 0 .. i - 1 : d.buffer[b] = DataOf(w, n, b)

LEMMA OneByte ==
  ASSUME NEW w, NEW n \in Nat, NEW i \in 0 .. 4, NEW d, HasParsed(w, n, d, i), NEW e, e = NextByte(d, i)
  PROVE  HasParsed(w, n, e, i + 1)
<1>1. PICK k, l : k = 4 + 16 * i /\ l = 4 + 16 * (i + 1)
  OBVIOUS
<1>2. k \in Nat /\ l \in Nat /\ k \in 0 .. l
  BY <1>1
<1>3. After(w, n, d, k) /\ (Good(w, n, k) => \A b \in 0 .. i - 1 : d.buffer[b] = DataOf(w, n, b))
  BY <1>1, Zenon DEF HasParsed
<1>4. Good(w, n, l) => Good(w, n, k)
  BY <1>2, FewerGood
<1>5. CASE d.bitsError
  <2>1. e = d /\ ~Good(w, n, k) /\ IsDecoder(d, n)
    BY <1>3, <1>5 DEF NextByte, After
  <2>2. ~Good(w, n, l)
    BY <1>4, <2>1
  <2>3. After(w, n, e, l)
    BY <1>5, <2>1, <2>2 DEF After
  <2>4. QED
    BY <1>1, <2>2, <2>3, Zenon DEF HasParsed
<1>6. CASE ~d.bitsError
  <2>1. e = DataByte(d, i) /\ After(w, n, d, 4 + 16 * i)
    BY <1>1, <1>3, <1>6 DEF NextByte
  <2>2. /\ After(w, n, e, 4 + 16 * (i + 1))
        /\ \A b : b # i => e.buffer[b] = d.buffer[b]
        /\ Good(w, n, 4 + 16 * (i + 1)) => e.buffer[i] = DataOf(w, n, i)
    BY <2>1, DataByteTakes
  <2>3. ASSUME Good(w, n, l), NEW b \in 0 .. (i + 1) - 1
        PROVE  e.buffer[b] = DataOf(w, n, b)
    <3>1. b = i \/ (b \in 0 .. i - 1 /\ b # i)
      OBVIOUS
    <3>2. QED
      BY <1>1, <1>3, <1>4, <2>2, <2>3, <3>1, Zenon
  <2>4. QED
    BY <1>1, <2>2, <2>3, Zenon DEF HasParsed
<1>7. QED
  BY <1>5, <1>6

LEMMA parseSamplesIs ==
  ASSUME NEW n \in Nat, NEW w \in [0 .. n - 1 -> Byte]
  PROVE  \E d : /\ parseSamples(w, n) = Outcome(d)
                /\ d.bitsError <=> ~Good(w, n, 84)
                /\ Good(w, n, 84) => \A b \in 0 .. 4 : d.buffer[b] = DataOf(w, n, b)
<1>1. PICK f : /\ f[0] = Preamble(Decoder(w, n))
               /\ \A i \in 0 .. 4 : f[i + 1] = NextByte(f[i], i)
               /\ parseSamples(w, n) = Outcome(f[5])
  BY parseSamplesIsDecoding
<1> DEFINE T == {i \in 0 .. 5 : HasParsed(w, n, f[i], i)}
<1>2. 0 \in T
  <2>1. After(w, n, f[0], 4)
    BY <1>1, PreambleTakes
  <2>2. 4 + 16 * 0 = 4 /\ 0 .. 0 - 1 = {}
    OBVIOUS
  <2>3. HasParsed(w, n, f[0], 0)
    BY <2>1, <2>2, Zenon DEF HasParsed
  <2>4. QED
    BY <2>3
<1>3. ASSUME NEW k \in 1 .. 5, k - 1 \in T PROVE k \in T
  <2>1. PICK i \in 0 .. 4 : i = k - 1 /\ i + 1 = k
    OBVIOUS
  <2>2. PICK d, e : d = f[i] /\ e = f[k]
    OBVIOUS
  <2>3. HasParsed(w, n, d, i)
    BY <1>3, <2>1, <2>2
  <2>4. e = NextByte(d, i)
    BY <1>1, <2>1, <2>2, Zenon
  <2>5. HasParsed(w, n, e, i + 1)
    BY <2>3, <2>4, OneByte
  <2>6. QED
    BY <2>1, <2>2, <2>5
<1>4. HasParsed(w, n, f[5], 5)
  <2> HIDE DEF T
  <2>1. PICK m \in Nat : m = 5
    OBVIOUS
  <2>2. \A k \in 1 .. m : k - 1 \in T => k \in T
    BY <1>3, <2>1
  <2>3. m \in 0 .. m /\ \A k \in 0 .. m : k \in T
    BY <1>2, <2>2, Counting, SMTT(30)
  <2>4. QED
    BY <2>1, <2>3 DEF T
<1>5. 4 + 16 * 5 = 84 /\ 5 - 1 = 4
  OBVIOUS
<1>6. After(w, n, f[5], 84) /\ (Good(w, n, 84) => \A b \in 0 .. 4 : f[5].buffer[b] = DataOf(w, n, b))
  BY <1>4, <1>5, ZenonT(60) DEF HasParsed
<1>7. f[5].bitsError <=> ~Good(w, n, 84)
  BY <1>6, Zenon DEF After
<1>8. QED
  BY <1>1, <1>6, <1>7, Zenon

-----------------------------------------------------------------------------
(* Numbers *)

IsUpTo(f, byte, m) == f = [k \in 0 .. m |-> IF k = 0 THEN 0 ELSE 2 * f[k - 1] + byte[k]]

LEMMA UpToExists ==
  ASSUME NEW byte, NEW m \in Nat
  PROVE  \E f : IsUpTo(f, byte, m)
<1> DEFINE T == {k \in 0 .. m : \E f : IsUpTo(f, byte, k)}
<1>1. 0 \in T
  <2>1. IsUpTo([k \in 0 .. 0 |-> 0], byte, 0)
    BY DEF IsUpTo
  <2>2. QED
    BY <2>1
<1>2. ASSUME NEW k \in 1 .. m, k - 1 \in T PROVE k \in T
  <2>1. PICK f : IsUpTo(f, byte, k - 1)
    BY <1>2
  <2>2. \A i \in 0 .. k - 1 : f[i] = IF i = 0 THEN 0 ELSE 2 * f[i - 1] + byte[i]
    BY <2>1 DEF IsUpTo
  <2> DEFINE g == [i \in 0 .. k |-> IF i < k THEN f[i] ELSE 2 * f[i - 1] + byte[i]]
  <2>3. IsUpTo(g, byte, k)
    BY <2>2 DEF IsUpTo
  <2>4. QED
    BY <2>3
<1> HIDE DEF T
<1>3. m \in T
  BY <1>1, <1>2, Counting
<1>4. QED
  BY <1>3 DEF T

LEMMA ValueIs ==
  ASSUME NEW byte \in Byte
  PROVE  Value(byte) = 128 * byte[1] + 64 * byte[2] + 32 * byte[3] + 16 * byte[4]
                       + 8 * byte[5] + 4 * byte[6] + 2 * byte[7] + byte[8]
<1>1. PICK m \in Nat : m = 8
  OBVIOUS
<1>2. PICK f : f = CHOOSE g : IsUpTo(g, byte, m)
  OBVIOUS
<1>3. IsUpTo(f, byte, m)
  BY <1>2, UpToExists, Zenon
<1>4. Value(byte) = f[8]
  BY <1>1, <1>2, Zenon DEF Value, IsUpTo
<1>5. \A k \in 0 .. m : f[k] = IF k = 0 THEN 0 ELSE 2 * f[k - 1] + byte[k]
  BY <1>3 DEF IsUpTo
<1>6. /\ f[0] = 0 /\ f[1] = 2 * f[0] + byte[1] /\ f[2] = 2 * f[1] + byte[2] /\ f[3] = 2 * f[2] + byte[3]
      /\ f[4] = 2 * f[3] + byte[4] /\ f[5] = 2 * f[4] + byte[5] /\ f[6] = 2 * f[5] + byte[6]
      /\ f[7] = 2 * f[6] + byte[7] /\ f[8] = 2 * f[7] + byte[8]
  BY <1>1, <1>5
<1>7. \A k \in 1 .. 8 : byte[k] \in Int
  BY DEF Byte
<1>8. PICK a, b, c, d, e, g, h, i : /\ a = byte[1] /\ b = byte[2] /\ c = byte[3] /\ d = byte[4]
                                    /\ e = byte[5] /\ g = byte[6] /\ h = byte[7] /\ i = byte[8]
  OBVIOUS
<1>9. a \in Int /\ b \in Int /\ c \in Int /\ d \in Int /\ e \in Int /\ g \in Int /\ h \in Int /\ i \in Int
  BY <1>7, <1>8
<1>10. PICK y1, y2, y3, y4 : /\ y1 = 2 * 0 + a /\ y2 = 2 * y1 + b
                             /\ y3 = 2 * y2 + c /\ y4 = 2 * y3 + d
  OBVIOUS
<1>11. PICK y5, y6, y7, y8 : /\ y5 = 2 * y4 + e /\ y6 = 2 * y5 + g
                             /\ y7 = 2 * y6 + h /\ y8 = 2 * y7 + i
  OBVIOUS
<1>12. f[4] = y4
  BY <1>6, <1>8, <1>10, Zenon
<1>13. f[8] = y8
  BY <1>6, <1>8, <1>11, <1>12, Zenon
<1>14. y4 = 8 * a + 4 * b + 2 * c + d /\ y4 \in Int
  BY <1>9, <1>10
<1>15. y8 = 128 * a + 64 * b + 32 * c + 16 * d + 8 * e + 4 * g + 2 * h + i
  BY <1>9, <1>11, <1>14
<1>16. QED
  BY <1>4, <1>8, <1>13, <1>15, Zenon

LEMMA ValueOfByte ==
  ASSUME NEW byte \in Byte
  PROVE  /\ Value(byte) \in 0 .. 255
         /\ \E r \in 0 .. 127 : Value(byte) = 128 * byte[1] + r
         /\ byte[1] \in {0, 1}
<1>1. \A k \in 1 .. 8 : byte[k] \in {0, 1}
  BY DEF Byte
<1>2. PICK r : r = 64 * byte[2] + 32 * byte[3] + 16 * byte[4] + 8 * byte[5] + 4 * byte[6] + 2 * byte[7] + byte[8]
  OBVIOUS
<1>3. PICK a, b, c, d, e, f, g, h : /\ a = byte[1] /\ b = byte[2] /\ c = byte[3] /\ d = byte[4]
                                    /\ e = byte[5] /\ f = byte[6] /\ g = byte[7] /\ h = byte[8]
  OBVIOUS
<1>4. /\ a \in 0 .. 1 /\ b \in 0 .. 1 /\ c \in 0 .. 1 /\ d \in 0 .. 1
      /\ e \in 0 .. 1 /\ f \in 0 .. 1 /\ g \in 0 .. 1 /\ h \in 0 .. 1
  BY <1>1, <1>3
<1>5. r = 64 * b + 32 * c + 16 * d + 8 * e + 4 * f + 2 * g + h
  BY <1>2, <1>3, Zenon
<1>6. r \in 0 .. 127
  BY <1>4, <1>5
<1>7. PICK v : v = Value(byte)
  OBVIOUS
<1>8. v = 128 * a + 64 * b + 32 * c + 16 * d + 8 * e + 4 * f + 2 * g + h
  BY <1>3, <1>7, ValueIs, ZenonT(60)
<1>9. v = 128 * a + r
  BY <1>4, <1>5, <1>8
<1>10. v \in 0 .. 255
  BY <1>4, <1>6, <1>9
<1>11. QED
  BY <1>1, <1>3, <1>6, <1>7, <1>9, <1>10

LEMMA TopBit ==
  ASSUME NEW q \in Int, NEW r \in Nat, r < 128 * 256, NEW x, x = 128 * 256 * q + r
  PROVE  x \div (128 * 256) = q
OBVIOUS

LEMMA LowBits ==
  ASSUME NEW q \in Int, NEW r \in Nat, r < 2048, NEW x, x = 2048 * q + r
  PROVE  x % 2048 = r
OBVIOUS

(* Two bytes make the number that they stand for. *)
LEMMA dht22ToFloatIs ==
  ASSUME NEW hi \in Byte, NEW lo \in Byte, NEW x, x = 256 * Value(hi) + Value(lo)
  PROVE  x \in Word /\ dht22ToFloat(x) = Signed(hi, lo)
<1>1. PICK v, u, s : v = Value(hi) /\ u = Value(lo) /\ s = hi[1]
  OBVIOUS
<1>2. v \in 0 .. 255 /\ u \in 0 .. 255 /\ s \in {0, 1}
  BY <1>1, ValueOfByte, Zenon
<1>3. PICK r \in 0 .. 127 : v = 128 * s + r
  BY <1>1, ValueOfByte, ZenonT(60)
<1>4. x = 256 * v + u
  BY <1>1, Zenon
<1>5. x \in Word
  BY <1>2, <1>4 DEF Word
<1>6. Bit15(x) <=> s = 1
  <2>1. PICK o \in Nat : o = 256 * r + u
    BY <1>2
  <2>2. o < 128 * 256 /\ x = 128 * 256 * s + o /\ s \in Int
    BY <1>2, <1>3, <1>4, <2>1
  <2>3. x \div (128 * 256) = s
    BY <2>2, TopBit
  <2>4. QED
    BY <2>3 DEF Bit15
<1>7. x % 2048 = 256 * (v % 8) + u
  <2>1. v = 8 * (v \div 8) + (v % 8) /\ v \div 8 \in Int /\ v % 8 \in 0 .. 7
    BY <1>2, ByEight
  <2>2. PICK a \in Int, b \in 0 .. 7 : a = v \div 8 /\ b = v % 8 /\ v = 8 * a + b
    BY <2>1
  <2>3. PICK c \in Nat : c = 256 * b + u
    BY <1>2
  <2>4. c < 2048 /\ x = 2048 * a + c
    BY <1>2, <1>4, <2>2, <2>3
  <2>5. x % 2048 = c
    BY <2>4, LowBits
  <2>6. QED
    BY <2>2, <2>3, <2>5
<1>8. dht22ToFloat(x) = IF s = 1 THEN -(x % 2048) ELSE x % 2048
  BY <1>6 DEF dht22ToFloat
<1>9. Signed(hi, lo) = IF s = 1 THEN -(256 * (v % 8) + u) ELSE 256 * (v % 8) + u
  BY <1>1, Zenon DEF Signed
<1>10. QED
  BY <1>5, <1>7, <1>8, <1>9

(* What parseSamples calls done with is what the reference reads in the samples. *)
THEOREM ParseIs ==
  ASSUME NEW n \in Nat, NEW w \in [0 .. n - 1 -> Byte], NEW r, r = parseSamples(w, n)
  PROVE  /\ r \in [valid : BOOLEAN, h : Word, t : Word]
         /\ r.valid <=> IsProper(w, n)
         /\ r.valid => /\ dht22ToFloat(r.h) = Signed(DataOf(w, n, 0), DataOf(w, n, 1))
                       /\ dht22ToFloat(r.t) = Signed(DataOf(w, n, 2), DataOf(w, n, 3))
<1>1. PICK d : /\ r = Outcome(d)
               /\ d.bitsError <=> ~Good(w, n, 84)
               /\ Good(w, n, 84) => \A b \in 0 .. 4 : d.buffer[b] = DataOf(w, n, b)
  BY parseSamplesIs, Zenon
<1>2. ASSUME NEW b PROVE DataOf(w, n, b) \in Byte
  BY DEF DataOf, Byte
<1>3. 0 \in Word
  BY DEF Word
<1>4. IsProper(w, n) <=>
        /\ Good(w, n, 84)
        /\ (Value(DataOf(w, n, 0)) + Value(DataOf(w, n, 1)) + Value(DataOf(w, n, 2))
            + Value(DataOf(w, n, 3))) % 256 = Value(DataOf(w, n, 4))
  <2>1. 84 - 1 = 83
    OBVIOUS
  <2>2. QED
    BY <2>1, Zenon DEF IsProper, Good
<1>5. CASE ~Good(w, n, 84)
  <2>1. r = [valid |-> FALSE, h |-> 0, t |-> 0]
    BY <1>1, <1>5, Zenon DEF Outcome
  <2>2. QED
    BY <1>3, <1>4, <1>5, <2>1
<1>6. CASE Good(w, n, 84)
  <2>1. /\ d.buffer[0] = DataOf(w, n, 0) /\ d.buffer[1] = DataOf(w, n, 1)
        /\ d.buffer[2] = DataOf(w, n, 2) /\ d.buffer[3] = DataOf(w, n, 3)
        /\ d.buffer[4] = DataOf(w, n, 4)
    BY <1>1, <1>6
  <2>2. PICK a, b, c, e : /\ a = DataOf(w, n, 0) /\ b = DataOf(w, n, 1)
                          /\ c = DataOf(w, n, 2) /\ e = DataOf(w, n, 3)
    OBVIOUS
  <2>3. PICK x, y : x = 256 * Value(a) + Value(b) /\ y = 256 * Value(c) + Value(e)
    OBVIOUS
  <2>4. a \in Byte /\ b \in Byte /\ c \in Byte /\ e \in Byte
    BY <1>2, <2>2, Zenon
  <2>5. x \in Word /\ dht22ToFloat(x) = Signed(a, b) /\ y \in Word /\ dht22ToFloat(y) = Signed(c, e)
    BY <2>3, <2>4, dht22ToFloatIs
  <2>6. IsProper(w, n) => r = [valid |-> TRUE, h |-> x, t |-> y]
    BY <1>1, <1>4, <1>6, <2>1, <2>2, <2>3 DEF Outcome
  <2>7. ~IsProper(w, n) => r = [valid |-> FALSE, h |-> 0, t |-> 0]
    BY <1>1, <1>4, <1>6, <2>1 DEF Outcome
  <2>8. CASE ~IsProper(w, n)
    <3>1. ~r.valid /\ r \in [valid : BOOLEAN, h : Word, t : Word]
      <4>1. r = [valid |-> FALSE, h |-> 0, t |-> 0] /\ 0 \in Word
        BY <1>3, <2>7, <2>8, Zenon
      <4>2. QED
        BY <4>1
    <3>2. QED
      BY <2>8, <3>1, Zenon
  <2>9. CASE IsProper(w, n)
    <3>1. r.valid /\ r.h = x /\ r.t = y /\ r \in [valid : BOOLEAN, h : Word, t : Word]
      <4>1. r = [valid |-> TRUE, h |-> x, t |-> y] /\ x \in Word /\ y \in Word
        BY <2>5, <2>6, <2>9, Zenon
      <4>2. QED
        BY <4>1
    <3>2. QED
      BY <2>2, <2>5, <2>9, <3>1, Zenon
  <2>10. QED
    BY <2>8, <2>9
<1>7. QED
  BY <1>5, <1>6
=============================================================================
