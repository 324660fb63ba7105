--------------------------- MODULE TimerListProofs ---------------------------
(***************************************************************************)
(* Lemmas on TimerList: what inserting and removing do to the elements and *)
(* to the order of a list, and how times that wrap are compared.           *)
(***************************************************************************)
EXTENDS TimerList, FiniteSetTheorems, SequenceTheorems, TLAPS

-----------------------------------------------------------------------------
(* Sequences as lists of distinct elements *)

Elements(s) == {s[k] : k \in DOMAIN s}
Distinct(s) == \A j, k \in DOMAIN s : s[j] = s[k] => j = k

(* The leading positions are an initial interval, and none follows it. *)
LEMMA LeadingProperties ==
  ASSUME NEW S, NEW s \in Seq(S), NEW T
  PROVE  /\ Leading(s, T) \in 0 .. Len(s)
         /\ \A k \in 1 .. Leading(s, T) : s[k] \in T
         /\ Leading(s, T) < Len(s) => s[Leading(s, T) + 1] \notin T
<1> DEFINE P == {k \in DOMAIN s : \A j \in 1 .. k : s[j] \in T}
           n == Cardinality(P)
<1>1. Len(s) \in Nat /\ DOMAIN s = 1 .. Len(s)
  BY LenProperties
<1>2. IsFiniteSet(P) /\ n \in 0 .. Len(s)
  <2>1. IsFiniteSet(1 .. Len(s)) /\ Cardinality(1 .. Len(s)) = Len(s)
    BY <1>1, FS_Interval, SMTT(30)
  <2>2. P \in SUBSET (1 .. Len(s))
    BY <1>1
  <2>3. IsFiniteSet(P) /\ n <= Len(s)
    BY <2>1, <2>2, FS_Subset
  <2>4. n \in Nat
    BY <2>3, FS_CardinalityType
  <2>5. QED
    BY <2>3, <2>4, <1>1
<1>3. ASSUME NEW k \in P PROVE k \in 1 .. n
  <2>1. k \in 1 .. Len(s) /\ 1 .. k \in SUBSET P
    BY <1>1
  <2>2. Cardinality(1 .. k) = k
    BY <2>1, FS_Interval
  <2>3. k <= n
    BY <2>1, <2>2, <1>2, FS_Subset
  <2>4. QED
    BY <2>1, <2>3, <1>1, <1>2
<1>4. P = 1 .. n
  <2>1. IsFiniteSet(1 .. n) /\ Cardinality(1 .. n) = n
    BY <1>2, FS_Interval
  <2>2. P \in SUBSET (1 .. n)
    BY <1>3
  <2>3. QED
    BY <2>1, <2>2, FS_Subset
<1> HIDE DEF n
<1>5. \A k \in 1 .. n : s[k] \in T
  BY <1>4, <1>2
<1>6. n < Len(s) => s[n + 1] \notin T
  <2>1. SUFFICES ASSUME n < Len(s), s[n + 1] \in T PROVE FALSE
    OBVIOUS
  <2>2. n + 1 \in 1 .. Len(s) /\ \A j \in 1 .. n + 1 : s[j] \in T
    BY <2>1, <1>1, <1>2, <1>5
  <2>3. n + 1 \in P
    BY <2>2, <1>1
  <2>4. QED
    BY <2>3, <1>4, <1>2
<1>7. Leading(s, T) = n
  BY DEF Leading, n
<1>8. QED
  BY <1>2, <1>5, <1>6, <1>7

(* A sequence r with x spliced into s after n elements has one element more. *)
LEMMA SplicedElements ==
  ASSUME NEW L \in Nat, NEW n \in 0 .. L, NEW x,
         NEW s, DOMAIN s = 1 .. L,
         NEW r, DOMAIN r = 1 .. L + 1,
         \A i \in 1 .. n : r[i] = s[i],
         r[n + 1] = x,
         \A i \in n + 1 .. L : r[i + 1] = s[i]
  PROVE  /\ Elements(r) = Elements(s) \cup {x}
         /\ Distinct(s) /\ x \notin Elements(s) => Distinct(r)
<1> DEFINE old(i) == IF i <= n THEN i ELSE i - 1
           new(i) == IF i <= n THEN i ELSE i + 1
<1>1. ASSUME NEW i \in 1 .. L + 1, i # n + 1
      PROVE  old(i) \in 1 .. L /\ r[i] = s[old(i)]
  <2>1. CASE i <= n
    BY <2>1
  <2>2. CASE i > n
    <3>1. i - 1 \in n + 1 .. L /\ i - 1 + 1 = i
      BY <1>1, <2>2
    <3>2. r[i - 1 + 1] = s[i - 1]
      BY <3>1
    <3>3. QED
      BY <2>2, <3>1, <3>2
  <2>3. QED
    BY <2>1, <2>2
<1>2. \A i \in 1 .. L : new(i) \in 1 .. L + 1 /\ r[new(i)] = s[i]
  OBVIOUS
<1>3. n + 1 \in 1 .. L + 1
  OBVIOUS
<1>4. Elements(r) = Elements(s) \cup {x}
  <2> HIDE DEF old, new
  <2>1. ASSUME NEW i \in 1 .. L + 1 PROVE r[i] \in Elements(s) \cup {x}
    BY <1>1 DEF Elements
  <2>2. ASSUME NEW i \in 1 .. L PROVE s[i] \in Elements(r)
    <3>1. new(i) \in DOMAIN r /\ r[new(i)] = s[i]
      BY <1>2
    <3>2. QED
      BY <3>1 DEF Elements
  <2>3. x \in Elements(r)
    BY <1>3 DEF Elements
  <2>4. QED
    BY <2>1, <2>2, <2>3 DEF Elements
<1>5. ASSUME Distinct(s), x \notin Elements(s),
             NEW j \in 1 .. L + 1, NEW k \in 1 .. L + 1, r[j] = r[k]
      PROVE  j = k
  <2>1. ASSUME NEW i \in 1 .. L + 1, i # n + 1 PROVE r[i] # x
    <3>1. old(i) \in DOMAIN s /\ r[i] = s[old(i)]
      BY <1>1, <2>1
    <3> HIDE DEF old
    <3>2. r[i] \in Elements(s)
      BY ONLY <3>1 DEF Elements
    <3>3. QED
      BY <3>2, <1>5
  <2>2. CASE j = n + 1 \/ k = n + 1
    BY <1>5, <2>1, <2>2
  <2>3. CASE j # n + 1 /\ k # n + 1
    <3>1. old(j) = old(k)
      <4>1. old(j) \in DOMAIN s /\ old(k) \in DOMAIN s /\ s[old(j)] = s[old(k)]
        BY <1>1, <1>5, <2>3
      <4> HIDE DEF old
      <4>2. QED
        BY <4>1, <1>5 DEF Distinct
    <3>2. QED
      BY <3>1, <2>3
  <2>4. QED
    BY <2>2, <2>3
<1>6. QED
  BY <1>4, <1>5 DEF Distinct

(* A sequence r that has the elements of s but the one after the first n. *)
LEMMA DroppedElements ==
  ASSUME NEW L \in Nat, NEW n \in 0 .. L - 1,
         NEW s, DOMAIN s = 1 .. L, Distinct(s),
         NEW r, DOMAIN r = 1 .. L - 1,
         \A i \in 1 .. n : r[i] = s[i],
         \A i \in n + 1 .. L - 1 : r[i] = s[i + 1]
  PROVE  /\ Elements(r) = Elements(s) \ {s[n + 1]}
         /\ Distinct(r)
<1> DEFINE old(i) == IF i <= n THEN i ELSE i + 1
           new(i) == IF i <= n THEN i ELSE i - 1
<1>1. \A i \in 1 .. L - 1 : old(i) \in 1 .. L /\ old(i) # n + 1 /\ r[i] = s[old(i)]
  OBVIOUS
<1>2. ASSUME NEW i \in 1 .. L, i # n + 1
      PROVE  new(i) \in 1 .. L - 1 /\ r[new(i)] = s[i]
  <2>1. CASE i <= n
    BY <1>2, <2>1
  <2>2. CASE i > n
    <3>1. i - 1 \in n + 1 .. L - 1 /\ i - 1 + 1 = i
      BY <1>2, <2>2
    <3>2. r[i - 1] = s[i - 1 + 1]
      BY <3>1
    <3>3. QED
      BY <2>2, <3>1, <3>2
  <2>3. QED
    BY <2>1, <2>2
<1>3. n + 1 \in 1 .. L
  OBVIOUS
<1>4. \A i \in 1 .. L : i # n + 1 => s[i] # s[n + 1]
  BY <1>3 DEF Distinct
<1>5. Elements(r) = Elements(s) \ {s[n + 1]}
  <2> HIDE DEF old, new
  <2>1. ASSUME NEW i \in 1 .. L - 1 PROVE r[i] \in Elements(s) \ {s[n + 1]}
    BY <1>1, <1>4 DEF Elements
  <2>2. ASSUME NEW i \in 1 .. L, s[i] # s[n + 1] PROVE s[i] \in Elements(r)
    <3>1. new(i) \in DOMAIN r /\ r[new(i)] = s[i]
      BY <1>2, <2>2
    <3>2. QED
      BY <3>1 DEF Elements
  <2>3. QED
    BY <2>1, <2>2 DEF Elements
<1>6. ASSUME NEW j \in 1 .. L - 1, NEW k \in 1 .. L - 1, r[j] = r[k]
      PROVE  j = k
  <2>1. old(j) = old(k)
    <3>1. old(j) \in DOMAIN s /\ old(k) \in DOMAIN s /\ s[old(j)] = s[old(k)]
      BY <1>1, <1>6
    <3>2. Distinct(s)
      OBVIOUS
    <3> HIDE DEF old
    <3>3. QED
      BY ONLY <3>1, <3>2 DEF Distinct
  <2>2. QED
    BY <2>1
<1>7. QED
  BY <1>5, <1>6 DEF Distinct

(* The two pieces of a sequence, and what is put in between. *)
LEMMA Prefix ==
  ASSUME NEW S, NEW s \in Seq(S), NEW n \in 0 .. Len(s)
  PROVE  /\ SubSeq(s, 1, n) \in Seq(S) /\ Len(SubSeq(s, 1, n)) = n
         /\ \A i \in 1 .. n : SubSeq(s, 1, n)[i] = s[i]
<1>1. \A i \in 1 .. n : s[i] \in S
  BY LenProperties, ElementOfSeq
<1>2. QED
  BY <1>1, LenProperties, SubSeqProperties

LEMMA Suffix ==
  ASSUME NEW S, NEW s \in Seq(S), NEW m \in 1 .. Len(s) + 1
  PROVE  /\ SubSeq(s, m, Len(s)) \in Seq(S)
         /\ Len(SubSeq(s, m, Len(s))) = Len(s) - m + 1
         /\ \A i \in 1 .. Len(s) - m + 1 : SubSeq(s, m, Len(s))[i] = s[m + i - 1]
<1>1. Len(s) \in Nat /\ \A i \in m .. Len(s) : s[i] \in S
  BY LenProperties, ElementOfSeq
<1>2. QED
  BY <1>1, SubSeqProperties

(* What is where in the list r that is s with x inserted after the first n *)
Inserted(r, S, s, n, x) ==
  /\ r \in Seq(S)
  /\ DOMAIN r = 1 .. Len(s) + 1
  /\ \A i \in 1 .. n : r[i] = s[i]
  /\ r[n + 1] = x
  /\ \A i \in n + 1 .. Len(s) : r[i + 1] = s[i]

LEMMA InsertPositions ==
  ASSUME NEW S, NEW s \in Seq(S), NEW x \in S, NEW n \in 0 .. Len(s)
  PROVE  Inserted(Insert(s, n, x), S, s, n, x)
<1> DEFINE r == Insert(s, n, x)
           L == Len(s)
           a == SubSeq(s, 1, n)
           b == SubSeq(s, n + 1, L)
           c == a \o <<x>>
<1>1. L \in Nat /\ DOMAIN s = 1 .. L
  BY LenProperties
<1>2. a \in Seq(S) /\ Len(a) = n /\ \A i \in 1 .. n : a[i] = s[i]
  BY Prefix
<1>3. b \in Seq(S) /\ Len(b) = L - n /\ \A i \in 1 .. L - n : b[i] = s[n + i]
  <2>1. n + 1 \in 1 .. Len(s) + 1
    BY <1>1
  <2>2. /\ b \in Seq(S) /\ Len(b) = L - (n + 1) + 1
        /\ \A i \in 1 .. L - (n + 1) + 1 : b[i] = s[(n + 1) + i - 1]
    BY ONLY <2>1, Suffix, s \in Seq(S)
  <2> HIDE DEF b, L
  <2>3. L - (n + 1) + 1 = L - n
    BY ONLY <1>1, n \in 0 .. Len(s)
  <2>4. ASSUME NEW i \in 1 .. L - n PROVE b[i] = s[n + i]
    <3>1. (n + 1) + i - 1 = n + i
      BY <1>1, <2>4
    <3>2. QED
      BY ONLY <2>2, <2>3, <2>4, <3>1
  <2>5. QED
    BY ONLY <2>2, <2>3, <2>4
<1>4. r = c \o b
  BY ONLY DEF Insert
<1> HIDE DEF L, a, b, c, r
<1>5. /\ c \in Seq(S) /\ Len(c) = n + 1
      /\ \A i \in 1 .. n : c[i] = s[i]
      /\ c[n + 1] = x
  <2>1. <<x>> \in Seq(S) /\ Len(<<x>>) = 1 /\ <<x>>[1] = x
    OBVIOUS
  <2>2. c \in Seq(S) /\ Len(c) = n + 1
    BY <1>2, <2>1, ConcatProperties DEF c
  <2>3. \A i \in 1 .. n + 1 : c[i] = IF i <= n THEN a[i] ELSE <<x>>[i - n]
    BY <1>2, <2>1, ConcatProperties DEF c
  <2>4. \A i \in 1 .. n : c[i] = s[i]
    BY ONLY <2>3, <1>1, <1>2, n \in 0 .. L
  <2>5. c[n + 1] = x
    BY ONLY <2>1, <2>3, <1>1, n \in 0 .. L
  <2>6. QED
    BY <2>2, <2>4, <2>5
<1>6. /\ r \in Seq(S) /\ Len(r) = (n + 1) + (L - n)
      /\ \A i \in 1 .. (n + 1) + (L - n) :
           r[i] = IF i <= n + 1 THEN c[i] ELSE b[i - (n + 1)]
  <2>1. /\ r \in Seq(S) /\ Len(r) = Len(c) + Len(b)
        /\ \A i \in 1 .. Len(c) + Len(b) : r[i] = IF i <= Len(c) THEN c[i] ELSE b[i - Len(c)]
    BY ONLY <1>3, <1>4, <1>5, ConcatProperties
  <2>2. QED
    BY ONLY <2>1, <1>3, <1>5
<1>7. n \in 0 .. L
  BY DEF L
<1>8. (n + 1) + (L - n) = L + 1
  BY ONLY <1>1, <1>7
<1>9. DOMAIN r = 1 .. L + 1
  BY ONLY <1>6, <1>8, LenProperties
<1>10. \A i \in 1 .. L + 1 : r[i] = IF i <= n + 1 THEN c[i] ELSE b[i - (n + 1)]
  BY ONLY <1>6, <1>8
<1>11. \A i \in 1 .. n : r[i] = s[i]
  BY ONLY <1>1, <1>5, <1>7, <1>10
<1>12. r[n + 1] = x
  BY ONLY <1>1, <1>5, <1>7, <1>10
<1>13. ASSUME NEW i \in n + 1 .. L PROVE r[i + 1] = s[i]
  <2>1. i + 1 \in 1 .. L + 1 /\ ~(i + 1 <= n + 1) /\ i - n \in 1 .. L - n
          /\ i + 1 - (n + 1) = i - n /\ n + (i - n) = i
    BY ONLY <1>1, <1>7, <1>13
  <2>2. r[i + 1] = b[i - n]
    BY ONLY <1>10, <2>1
  <2>3. QED
    BY ONLY <1>3, <2>1, <2>2
<1>14. Inserted(r, S, s, n, x)
  BY <1>6, <1>9, <1>11, <1>12, <1>13 DEF Inserted, L
<1>15. QED
  BY <1>14 DEF r

LEMMA Insertion ==
  ASSUME NEW S, NEW s \in Seq(S), NEW x \in S, NEW n \in 0 .. Len(s)
  PROVE  /\ Insert(s, n, x) \in Seq(S)
         /\ Elements(Insert(s, n, x)) = Elements(s) \cup {x}
         /\ Distinct(s) /\ x \notin Elements(s) => Distinct(Insert(s, n, x))
<1> DEFINE r == Insert(s, n, x)
<1>1. Len(s) \in Nat /\ DOMAIN s = 1 .. Len(s)
  BY LenProperties
<1>0. Inserted(r, S, s, n, x)
  BY InsertPositions
<1> HIDE DEF r
<1>2. /\ r \in Seq(S) /\ DOMAIN r = 1 .. Len(s) + 1
      /\ \A i \in 1 .. n : r[i] = s[i]
      /\ r[n + 1] = x
      /\ \A i \in n + 1 .. Len(s) : r[i + 1] = s[i]
  BY <1>0 DEF Inserted
<1>3. /\ Elements(r) = Elements(s) \cup {x}
      /\ Distinct(s) /\ x \notin Elements(s) => Distinct(r)
  BY <1>1, <1>2, SplicedElements, SMTT(30)
<1>4. QED
  BY <1>2, <1>3 DEF r

(* What is where in the list r that is s without the element after the first n *)
Removed(r, S, s, n) ==
  /\ r \in Seq(S)
  /\ DOMAIN r = 1 .. Len(s) - 1
  /\ \A i \in 1 .. n : r[i] = s[i]
  /\ \A i \in n + 1 .. Len(s) - 1 : r[i] = s[i + 1]

LEMMA RemovePositions ==
  ASSUME NEW S, NEW s \in Seq(S), NEW n \in 0 .. Len(s) - 1
  PROVE  Removed(Remove(s, n), S, s, n)
<1> DEFINE r == Remove(s, n)
           L == Len(s)
           a == SubSeq(s, 1, n)
           b == SubSeq(s, n + 2, L)
<1>1. L \in Nat /\ DOMAIN s = 1 .. L /\ n \in 0 .. L - 1
  BY LenProperties
<1>2. a \in Seq(S) /\ Len(a) = n /\ \A i \in 1 .. n : a[i] = s[i]
  <2>1. n \in 0 .. Len(s)
    BY <1>1
  <2>2. QED
    BY ONLY <2>1, s \in Seq(S), Prefix
<1>3. b \in Seq(S) /\ Len(b) = L - n - 1 /\ \A i \in 1 .. L - n - 1 : b[i] = s[n + i + 1]
  <2>1. n + 2 \in 1 .. Len(s) + 1
    BY <1>1
  <2>2. /\ b \in Seq(S) /\ Len(b) = L - (n + 2) + 1
        /\ \A i \in 1 .. L - (n + 2) + 1 : b[i] = s[(n + 2) + i - 1]
    BY ONLY <2>1, Suffix, s \in Seq(S)
  <2> HIDE DEF b, L
  <2>3. L - (n + 2) + 1 = L - n - 1
    BY ONLY <1>1
  <2>4. ASSUME NEW i \in 1 .. L - n - 1 PROVE b[i] = s[n + i + 1]
    <3>1. (n + 2) + i - 1 = n + i + 1
      BY ONLY <1>1, <2>4
    <3>2. QED
      BY ONLY <2>2, <2>3, <2>4, <3>1
  <2>5. QED
    BY ONLY <2>2, <2>3, <2>4
<1>4. r = a \o b
  BY ONLY DEF Remove
<1> HIDE DEF L, a, b, r
<1>5. /\ r \in Seq(S) /\ Len(r) = n + (L - n - 1)
      /\ \A i \in 1 .. n + (L - n - 1) : r[i] = IF i <= n THEN a[i] ELSE b[i - n]
  <2>1. /\ r \in Seq(S) /\ Len(r) = Len(a) + Len(b)
        /\ \A i \in 1 .. Len(a) + Len(b) : r[i] = IF i <= Len(a) THEN a[i] ELSE b[i - Len(a)]
    BY ONLY <1>2, <1>3, <1>4, ConcatProperties
  <2>2. QED
    BY ONLY <2>1, <1>2, <1>3
<1>6. n + (L - n - 1) = L - 1
  BY ONLY <1>1
<1>7. DOMAIN r = 1 .. L - 1
  BY ONLY <1>5, <1>6, LenProperties
<1>8. \A i \in 1 .. L - 1 : r[i] = IF i <= n THEN a[i] ELSE b[i - n]
  BY ONLY <1>5, <1>6
<1>9. \A i \in 1 .. n : r[i] = s[i]
  BY ONLY <1>1, <1>2, <1>8
<1>10. ASSUME NEW i \in n + 1 .. L - 1 PROVE r[i] = s[i + 1]
  <2>1. i \in 1 .. L - 1 /\ ~(i <= n) /\ i - n \in 1 .. L - n - 1 /\ n + (i - n) + 1 = i + 1
    BY ONLY <1>1, <1>10
  <2>2. r[i] = b[i - n]
    BY ONLY <1>8, <2>1
  <2>3. QED
    BY ONLY <1>3, <2>1, <2>2
<1>11. Removed(r, S, s, n)
  BY <1>5, <1>7, <1>9, <1>10 DEF Removed, L
<1>12. QED
  BY <1>11 DEF r

LEMMA Removal ==
  ASSUME NEW S, NEW s \in Seq(S), Distinct(s), NEW n \in 0 .. Len(s) - 1
  PROVE  /\ Remove(s, n) \in Seq(S)
         /\ Elements(Remove(s, n)) = Elements(s) \ {s[n + 1]}
         /\ Distinct(Remove(s, n))
<1> DEFINE r == Remove(s, n)
<1>1. Len(s) \in Nat /\ DOMAIN s = 1 .. Len(s)
  BY LenProperties
<1>0. Removed(r, S, s, n)
  BY RemovePositions
<1> HIDE DEF r
<1>2. /\ r \in Seq(S) /\ DOMAIN r = 1 .. Len(s) - 1
      /\ \A i \in 1 .. n : r[i] = s[i]
      /\ \A i \in n + 1 .. Len(s) - 1 : r[i] = s[i + 1]
  BY <1>0 DEF Removed
<1>3. Elements(r) = Elements(s) \ {s[n + 1]} /\ Distinct(r)
  BY <1>1, <1>2, DroppedElements
<1>4. QED
  BY <1>2, <1>3 DEF r

(* Taking the first timer off its list. *)
LEMMA TailProperties ==
  ASSUME NEW S, NEW s \in Seq(S), s # <<>>, Distinct(s)
  PROVE  /\ Head(s) \in Elements(s) /\ Head(s) \in S
         /\ Tail(s) \in Seq(S)
         /\ Elements(Tail(s)) = Elements(s) \ {Head(s)}
         /\ Distinct(Tail(s))
<1> DEFINE L == Len(s)
           r == Tail(s)
<1>1. L \in Nat \ {0} /\ DOMAIN s = 1 .. L
  BY LenProperties, EmptySeq
<1>2. /\ Head(s) \in S /\ r \in Seq(S) /\ Len(r) = L - 1
      /\ \A i \in 1 .. L - 1 : r[i] = s[i + 1]
  BY HeadTailProperties
<1>3. Head(s) = s[1]
  BY <1>1
<1>4. DOMAIN r = 1 .. L - 1
  BY <1>2, LenProperties
<1> HIDE DEF L, r
<1>5. Distinct(s) /\ 0 \in 0 .. L - 1 /\ 0 + 1 = 1
        /\ (\A i \in 1 .. 0 : r[i] = s[i]) /\ (\A i \in 0 + 1 .. L - 1 : r[i] = s[i + 1])
  BY <1>1, <1>2
<1>6. Elements(r) = Elements(s) \ {s[0 + 1]} /\ Distinct(r)
  <2>1. L \in Nat
    BY <1>1
  <2>2. QED
    BY ONLY <2>1, <1>1, <1>4, <1>5, DroppedElements
<1>7. Head(s) \in Elements(s)
  BY <1>1, <1>3 DEF Elements
<1>8. QED
  BY <1>2, <1>3, <1>5, <1>6, <1>7 DEF r

-----------------------------------------------------------------------------
(* Taking a timer out of a list, whether or not it is in it *)

(* A timer that is put after the leading ones of T *)
LEMMA InsertTimer ==
  ASSUME NEW S, NEW s \in Seq(S), NEW x \in S, NEW T
  PROVE  /\ Insert(s, Leading(s, T), x) \in Seq(S)
         /\ Elements(Insert(s, Leading(s, T), x)) = Elements(s) \cup {x}
         /\ Distinct(s) /\ x \notin Elements(s) => Distinct(Insert(s, Leading(s, T), x))
<1> DEFINE n == Leading(s, T)
<1>1. n \in 0 .. Len(s)
  BY LeadingProperties
<1> HIDE DEF n
<1>2. /\ Insert(s, n, x) \in Seq(S)
      /\ Elements(Insert(s, n, x)) = Elements(s) \cup {x}
      /\ Distinct(s) /\ x \notin Elements(s) => Distinct(Insert(s, n, x))
  BY <1>1, Insertion
<1>3. QED
  BY <1>2 DEF n

LEMMA ElementTypes == \A S : \A s \in Seq(S) : Elements(s) \subseteq S
  BY LenProperties, ElementOfSeq DEF Elements

LEMMA RemoveLeading ==
  ASSUME NEW S, NEW s \in Seq(S), NEW x \in S
  PROVE  \/ x \notin Elements(s) /\ Remove(s, Leading(s, S \ {x})) = s
         \/ /\ Leading(s, S \ {x}) \in 0 .. Len(s) - 1
            /\ s[Leading(s, S \ {x}) + 1] = x
<1> DEFINE n == Leading(s, S \ {x})
<1>1. /\ n \in 0 .. Len(s)
      /\ \A k \in 1 .. n : s[k] \in S \ {x}
      /\ n < Len(s) => s[n + 1] \notin S \ {x}
  BY LeadingProperties
<1> HIDE DEF n
<1>2. Len(s) \in Nat /\ DOMAIN s = 1 .. Len(s) /\ \A i \in 1 .. Len(s) : s[i] \in S
  BY LenProperties, ElementOfSeq
<1>3. CASE n = Len(s)
  <2>1. SubSeq(s, 1, n) = s
    BY <1>3, SubSeqFull
  <2>2. SubSeq(s, n + 2, Len(s)) = <<>>
    <3>1. n + 2 \in Int /\ Len(s) \in Int /\ Len(s) < n + 2
      BY <1>2, <1>3
    <3>2. QED
      BY <3>1, SubSeqEmpty
  <2>3. Remove(s, n) = s
    BY <2>1, <2>2, ConcatEmptySeq DEF Remove
  <2>4. x \notin Elements(s)
    BY <1>1, <1>2, <1>3 DEF Elements
  <2>5. QED
    BY <2>3, <2>4 DEF n
<1>4. CASE n # Len(s)
  <2> DEFINE L == Len(s)
  <2>0. n \in 0 .. L /\ L \in Nat /\ n # L
    BY <1>1, <1>2, <1>4
  <2> HIDE DEF L
  <2>1. n \in 0 .. L - 1 /\ n < L /\ n + 1 \in 1 .. L
    BY <2>0
  <2> USE DEF L
  <2>2. s[n + 1] = x
    BY <1>1, <1>2, <2>1
  <2>3. QED
    BY <2>1, <2>2 DEF n
<1>5. QED
  BY <1>3, <1>4

LEMMA RemoveTimer ==
  ASSUME NEW S, NEW s \in Seq(S), Distinct(s), NEW x \in S
  PROVE  /\ Remove(s, Leading(s, S \ {x})) \in Seq(S)
         /\ Elements(Remove(s, Leading(s, S \ {x}))) = Elements(s) \ {x}
         /\ Distinct(Remove(s, Leading(s, S \ {x})))
<1> DEFINE n == Leading(s, S \ {x})
<1>1. CASE x \notin Elements(s) /\ Remove(s, n) = s
  BY <1>1
<1>2. CASE n \in 0 .. Len(s) - 1 /\ s[n + 1] = x
  BY <1>2, Removal
<1>3. QED
  BY <1>1, <1>2, RemoveLeading

-----------------------------------------------------------------------------
(* The order of a list; K[x] is when x fires. *)

Sorted(s, K) == \A j, k \in DOMAIN s : j < k => K[s[j]] <= K[s[k]]

LEMMA InsertSorted ==
  ASSUME NEW S, NEW s \in Seq(S), NEW x \in S, NEW n \in 0 .. Len(s),
         NEW K, K \in [S -> Int], Sorted(s, K),
         \A k \in 1 .. n : K[s[k]] <= K[x],
         n < Len(s) => K[x] <= K[s[n + 1]]
  PROVE  Sorted(Insert(s, n, x), K)
<1> DEFINE r == Insert(s, n, x)
<1>0. Inserted(r, S, s, n, x)
  BY InsertPositions
<1> HIDE DEF r
<1>2. /\ r \in Seq(S) /\ DOMAIN r = 1 .. Len(s) + 1
      /\ \A i \in 1 .. n : r[i] = s[i]
      /\ r[n + 1] = x
      /\ \A i \in n + 1 .. Len(s) : r[i + 1] = s[i]
  BY <1>0 DEF Inserted
<1> DEFINE L == Len(s)
<1>1. L \in Nat /\ DOMAIN s = 1 .. L /\ \A i \in 1 .. L : s[i] \in S
  BY LenProperties, ElementOfSeq
<1>3. n \in 0 .. L
  BY DEF L
<1>4. \A j, k \in 1 .. L : j <= k => K[s[j]] <= K[s[k]]
  BY <1>1, SMTT(30) DEF Sorted
<1>5. ASSUME NEW i \in n + 1 .. L PROVE K[x] <= K[s[i]]
  <2>1. n + 1 \in 1 .. L /\ i \in 1 .. L
    BY <1>1, <1>3, <1>5
  <2>2. K[x] <= K[s[n + 1]] /\ K[s[n + 1]] <= K[s[i]]
    BY <1>1, <1>3, <1>4, <2>1 DEF L
  <2>3. K[x] \in Int /\ K[s[n + 1]] \in Int /\ K[s[i]] \in Int
    BY <1>1, <2>1
  <2>4. QED
    BY <2>2, <2>3
<1>6. ASSUME NEW i \in 1 .. L + 1, i # n + 1, i > n
      PROVE  i - 1 \in n + 1 .. L /\ r[i] = s[i - 1]
  <2>1. i - 1 \in n + 1 .. L /\ i - 1 + 1 = i
    BY <1>1, <1>3, <1>6
  <2>2. r[i - 1 + 1] = s[i - 1]
    BY <1>2, <2>1
  <2>3. QED
    BY <2>1, <2>2
<1>7. ASSUME NEW j \in 1 .. L + 1, NEW k \in 1 .. L + 1, j < k
      PROVE  K[r[j]] <= K[r[k]]
  <2>1. CASE j <= n /\ k <= n
    <3>1. j \in 1 .. n /\ k \in 1 .. n /\ j \in 1 .. L /\ k \in 1 .. L
      BY <1>1, <1>3, <1>7, <2>1
    <3>2. r[j] = s[j] /\ r[k] = s[k]
      BY <1>2, <3>1
    <3>3. K[s[j]] <= K[s[k]]
      BY <1>4, <1>7, <3>1
    <3>4. QED
      BY ONLY <3>2, <3>3
  <2>2. CASE j <= n /\ k = n + 1
    <3>1. j \in 1 .. n
      BY <1>3, <1>7, <2>2
    <3>2. r[j] = s[j] /\ r[k] = x
      BY <1>2, <2>2, <3>1
    <3>3. K[s[j]] <= K[x]
      BY <3>1
    <3>4. QED
      BY ONLY <3>2, <3>3
  <2>3. CASE j <= n /\ k > n + 1
    <3>0. k # n + 1 /\ k > n
      BY <1>1, <1>3, <1>7, <2>3
    <3>1. k - 1 \in n + 1 .. L /\ r[k] = s[k - 1]
      BY ONLY <1>6, <1>7, <3>0
    <3>2. j \in 1 .. n /\ j \in 1 .. L /\ k - 1 \in 1 .. L /\ j <= k - 1
      BY <1>1, <1>3, <1>7, <2>3, <3>1
    <3>3. r[j] = s[j]
      BY <1>2, <3>2
    <3>4. K[s[j]] <= K[s[k - 1]]
      BY ONLY <1>4, <3>2
    <3>5. QED
      BY ONLY <3>1, <3>3, <3>4
  <2>4. CASE j = n + 1
    <3>1. k - 1 \in n + 1 .. L /\ r[k] = s[k - 1]
      BY <1>3, <1>6, <1>7, <2>4
    <3>2. QED
      BY <1>2, <1>5, <2>4, <3>1
  <2>5. CASE j > n + 1
    <3>1. /\ j - 1 \in n + 1 .. L /\ r[j] = s[j - 1]
          /\ k - 1 \in n + 1 .. L /\ r[k] = s[k - 1]
      BY <1>3, <1>6, <1>7, <2>5, SMTT(30)
    <3>2. j - 1 \in 1 .. L /\ k - 1 \in 1 .. L /\ j - 1 <= k - 1
      BY <1>1, <1>3, <1>7, <3>1
    <3>3. QED
      BY <1>4, <3>1, <3>2
  <2>6. QED
    BY <1>1, <1>3, <1>7, <2>1, <2>2, <2>3, <2>4, <2>5
<1>8. QED
  BY <1>2, <1>7 DEF Sorted, r

LEMMA RemoveSorted ==
  ASSUME NEW S, NEW s \in Seq(S), NEW n \in 0 .. Len(s) - 1,
         NEW K \in [S -> Int], Sorted(s, K)
  PROVE  Sorted(Remove(s, n), K)
<1> DEFINE r == Remove(s, n)
           L == Len(s)
           old(i) == IF i <= n THEN i ELSE i + 1
<1>1. L \in Nat /\ DOMAIN s = 1 .. L
  BY LenProperties
<1>0. Removed(r, S, s, n)
  BY RemovePositions
<1> HIDE DEF r
<1>2. /\ DOMAIN r = 1 .. L - 1
      /\ \A i \in 1 .. n : r[i] = s[i]
      /\ \A i \in n + 1 .. L - 1 : r[i] = s[i + 1]
  BY <1>0 DEF Removed
<1> HIDE DEF L
<1>3. n \in 0 .. L - 1
  BY DEF L
<1>4. ASSUME NEW j \in 1 .. L - 1 PROVE old(j) \in 1 .. L /\ r[j] = s[old(j)]
  <2>1. CASE j <= n
    <3>1. j \in 1 .. n /\ j \in 1 .. L
      BY <1>1, <1>3, <2>1
    <3>2. QED
      BY <1>2, <2>1, <3>1
  <2>2. CASE j > n
    <3>1. j \in n + 1 .. L - 1 /\ j + 1 \in 1 .. L /\ ~(j <= n)
      BY <1>1, <1>3, <2>2
    <3>2. QED
      BY <1>2, <3>1
  <2>3. QED
    BY <1>1, <1>3, <2>1, <2>2
<1>5. \A j, k \in 1 .. L - 1 : j < k => old(j) < old(k)
  BY <1>1, <1>3
<1> HIDE DEF old
<1>6. \A j, k \in 1 .. L - 1 : j < k => K[r[j]] <= K[r[k]]
  BY <1>1, <1>4, <1>5 DEF Sorted
<1>7. QED
  BY <1>2, <1>6 DEF Sorted, r

(* The first timer of a sorted list fires first. *)
LEMMA HeadIsFirst ==
  ASSUME NEW S, NEW s \in Seq(S), s # <<>>, NEW K \in [S -> Int], Sorted(s, K)
  PROVE  /\ Sorted(Tail(s), K)
         /\ \A x \in Elements(s) : K[Head(s)] <= K[x]
<1>1. Len(s) \in Nat \ {0} /\ DOMAIN s = 1 .. Len(s) /\ \A i \in 1 .. Len(s) : s[i] \in S
  BY LenProperties, EmptySeq, ElementOfSeq
<1>2. /\ DOMAIN Tail(s) = 1 .. Len(s) - 1
      /\ \A i \in 1 .. Len(s) - 1 : Tail(s)[i] = s[i + 1]
      /\ Head(s) = s[1]
  BY HeadTailProperties, LenProperties
<1>3. ASSUME NEW j \in 1 .. Len(s) - 1, NEW k \in 1 .. Len(s) - 1, j < k
      PROVE  K[Tail(s)[j]] <= K[Tail(s)[k]]
  <2>1. j + 1 \in 1 .. Len(s) /\ k + 1 \in 1 .. Len(s) /\ j + 1 < k + 1
    BY <1>1, <1>3
  <2>2. QED
    BY <1>1, <1>2, <2>1 DEF Sorted
<1>4. ASSUME NEW k \in 1 .. Len(s) PROVE K[Head(s)] <= K[s[k]]
  <2>1. CASE k = 1
    BY <1>1, <1>2, <2>1
  <2>2. CASE k # 1
    BY <1>1, <1>2, <2>2 DEF Sorted
  <2>3. QED
    BY <2>1, <2>2
<1>5. QED
  BY <1>1, <1>2, <1>3, <1>4 DEF Sorted, Elements

LEMMA RemoveTimerSorted ==
  ASSUME NEW S, NEW s \in Seq(S), NEW x \in S, NEW K \in [S -> Int], Sorted(s, K)
  PROVE  Sorted(Remove(s, Leading(s, S \ {x})), K)
<1> DEFINE n == Leading(s, S \ {x})
<1>1. CASE Remove(s, n) = s
  BY <1>1
<1>2. CASE n \in 0 .. Len(s) - 1
  <2> HIDE DEF n
  <2>1. Sorted(Remove(s, n), K)
    BY <1>2, RemoveSorted
  <2>2. QED
    BY <2>1 DEF n
<1>3. QED
  BY <1>1, <1>2, RemoveLeading

(* Only the keys of the elements count. *)
LEMMA SortedSame ==
  ASSUME NEW s, NEW K, NEW L, Sorted(s, K), \A x \in Elements(s) : K[x] = L[x]
  PROVE  Sorted(s, L)
BY DEF Sorted, Elements

(* Time passes for all timers of the list. *)
LEMMA SortedShift ==
  ASSUME NEW s, NEW K, NEW L, Sorted(s, K),
         \A x \in Elements(s) : K[x] \in Int /\ L[x] = K[x] - 1
  PROVE  Sorted(s, L)
BY DEF Sorted, Elements

-----------------------------------------------------------------------------
(* Queues *)

LEMMA AppendElements ==
  ASSUME NEW S, NEW s \in Seq(S), NEW x \in S
  PROVE  Elements(Append(s, x)) = Elements(s) \cup {x}
<1>1. /\ Len(s) \in Nat /\ DOMAIN s = 1 .. Len(s)
      /\ DOMAIN Append(s, x) = 1 .. Len(s) + 1
      /\ \A i \in 1 .. Len(s) : Append(s, x)[i] = s[i]
      /\ Append(s, x)[Len(s) + 1] = x
  BY AppendProperties, LenProperties
<1>2. 1 .. Len(s) + 1 = (1 .. Len(s)) \cup {Len(s) + 1}
  BY <1>1
<1>3. QED
  BY <1>1, <1>2 DEF Elements

LEMMA TailElements ==
  ASSUME NEW S, NEW s \in Seq(S), s # <<>>
  PROVE  /\ Head(s) \in S /\ Head(s) \in Elements(s)
         /\ Tail(s) \in Seq(S) /\ Elements(Tail(s)) \subseteq Elements(s)
<1>1. Len(s) \in Nat \ {0} /\ DOMAIN s = 1 .. Len(s)
  BY LenProperties, EmptySeq
<1>2. /\ Head(s) \in S /\ Head(s) = s[1]
      /\ Tail(s) \in Seq(S) /\ DOMAIN Tail(s) = 1 .. Len(s) - 1
      /\ \A i \in 1 .. Len(s) - 1 : Tail(s)[i] = s[i + 1]
  BY HeadTailProperties, LenProperties
<1>3. \A i \in 1 .. Len(s) - 1 : i + 1 \in 1 .. Len(s)
  BY <1>1
<1>4. 1 \in 1 .. Len(s)
  BY <1>1
<1>5. QED
  BY <1>1, <1>2, <1>3, <1>4 DEF Elements

-----------------------------------------------------------------------------
(* Times that wrap *)

Half == M \div 2

LEMMA HalfOfM == Half \in Nat \ {0} /\ M = Half + Half
  BY CounterAssumption DEF Half

LEMMA DivMod ==
  \A t \in Int : t \div M \in Int /\ t % M \in 0 .. M - 1 /\ t = M * (t \div M) + (t % M)
  BY CounterAssumption

LEMMA TicksOfMod == \A t \in Int : t % M \in Ticks
  BY DivMod DEF Ticks

(* The remainder is unique. *)
LEMMA ModUnique ==
  ASSUME NEW q \in Int, NEW r \in 0 .. M - 1
  PROVE  (M * q + r) % M = r
<1> DEFINE t == M * q + r
           d == q - (t \div M)
<1>1. t \in Int
  BY CounterAssumption
<1>2. t \div M \in Int /\ t % M \in 0 .. M - 1 /\ t = M * (t \div M) + (t % M)
  BY <1>1, DivMod
<1>3. M * d = M * q - M * (t \div M)
  BY CounterAssumption, <1>2
<1>4. M * d = (t % M) - r
  BY CounterAssumption, <1>2, <1>3
<1>5. d \in Int /\ M \in Nat \ {0} /\ M * 0 = 0
  BY <1>2, CounterAssumption
<1>6. ~(d >= 1)
  <2>1. d >= 1 => M * d >= M
    BY <1>5
  <2>2. QED
    BY <1>2, <1>4, <1>5, <2>1
<1>7. ~(d <= -1)
  <2>1. d <= -1 => M * d <= -M
    BY <1>5
  <2>2. QED
    BY <1>2, <1>4, <1>5, <2>1
<1>8. d = 0
  BY <1>5, <1>6, <1>7
<1>9. QED
  BY <1>2, <1>4, <1>5, <1>8

Congruent(t, u) == t % M = u % M

LEMMA CongruentAdd ==
  ASSUME NEW t \in Int, NEW u \in Int, NEW v \in Int, Congruent(t, u)
  PROVE  Congruent(t + v, u + v)
<1> DEFINE a == t \div M
           b == u \div M
           r == t % M
           w == r + v
           c == w \div M
           s == w % M
<1>1. a \in Int /\ b \in Int /\ r \in 0 .. M - 1 /\ t = M * a + r /\ u = M * b + r
  BY DivMod DEF Congruent
<1>2. c \in Int /\ s \in 0 .. M - 1 /\ w = M * c + s
  BY <1>1, DivMod
<1>3. M \in Int
  BY CounterAssumption
<1> HIDE DEF a, b, r, c, s
<1>4. t + v = M * (a + c) + s /\ u + v = M * (b + c) + s
  BY <1>1, <1>2, <1>3
<1>5. (t + v) % M = s /\ (u + v) % M = s
  <2>1. a + c \in Int /\ b + c \in Int
    BY <1>1, <1>2
  <2>2. QED
    BY <1>2, <1>4, <2>1, ModUnique
<1>6. QED
  BY <1>5 DEF Congruent

LEMMA CongruentDifference ==
  ASSUME NEW t \in Int, NEW u \in Int, Congruent(t, u),
         NEW a \in Int, NEW b \in Int, a - b = t - u
  PROVE  Congruent(a, b)
<1> DEFINE v == a - t
<1>1. v \in Int /\ t + v = a /\ u + v = b
  OBVIOUS
<1> HIDE DEF v
<1>2. Congruent(t + v, u + v)
  BY <1>1, CongruentAdd
<1>3. QED
  BY <1>1, <1>2

LEMMA CongruentMod == \A t \in Int : Congruent(t % M, t)
<1> SUFFICES ASSUME NEW t \in Int PROVE (t % M) % M = t % M
  BY DEF Congruent
<1>1. t % M \in 0 .. M - 1 /\ M * 0 + (t % M) = t % M
  BY DivMod, CounterAssumption
<1>2. QED
  BY <1>1, ModUnique

LEMMA SignedType == \A t \in Int : Signed(t) \in -Half .. Half - 1
<1> SUFFICES ASSUME NEW t \in Int PROVE Signed(t) \in -Half .. Half - 1
  OBVIOUS
<1>1. t % M \in 0 .. M - 1
  BY DivMod
<1>2. Signed(t) = IF t % M < Half THEN t % M ELSE (t % M) - M
  BY DEF Signed, Half
<1>3. QED
  BY <1>1, <1>2, HalfOfM

LEMMA CongruentSigned == \A t \in Int : Congruent(Signed(t), t)
<1> SUFFICES ASSUME NEW t \in Int PROVE Congruent(Signed(t), t)
  OBVIOUS
<1>1. t % M \in 0 .. M - 1 /\ M \in Int
  BY DivMod, CounterAssumption
<1>2. CASE Signed(t) = t % M
  BY <1>2, CongruentMod
<1>3. CASE Signed(t) = (t % M) - M
  <2>1. (t % M) - M = M * (-1) + (t % M)
    BY <1>1
  <2>2. (M * (-1) + (t % M)) % M = t % M
    BY <1>1, ModUnique
  <2>3. QED
    BY <1>3, <2>1, <2>2 DEF Congruent
<1>4. QED
  BY <1>2, <1>3 DEF Signed

(* Signed(t) is the only number of its range that is congruent to t. *)
LEMMA SignedUnique ==
  ASSUME NEW k \in -Half .. Half - 1, NEW t \in Int, Congruent(k, t)
  PROVE  Signed(t) = k
<1>1. t % M = k % M /\ M = Half + Half /\ Half \in Nat \ {0}
  BY HalfOfM DEF Congruent
<1>2. CASE k >= 0
  <2>1. k \in 0 .. M - 1 /\ M * 0 + k = k
    BY <1>1, <1>2
  <2>2. k % M = k
    BY <2>1, ModUnique
  <2>3. QED
    BY <1>1, <2>2 DEF Signed, Half
<1>3. CASE k < 0
  <2>1. k + M \in 0 .. M - 1 /\ M * (-1) + (k + M) = k /\ -1 \in Int
    BY <1>1, <1>3
  <2>2. k % M = k + M
    BY <2>1, ModUnique
  <2>3. ~(k + M < Half) /\ (k + M) - M = k
    BY <1>1
  <2>4. QED
    BY <1>1, <2>2, <2>3 DEF Signed, Half
<1>4. QED
  BY <1>2, <1>3

(***************************************************************************)
(* As long as differences are less than half of the range, comparing times *)
(* by the sign of their difference is like comparing integers.             *)
(***************************************************************************)
LEMMA SignedOfSmall == \A d \in -Half .. Half - 1 : Signed(d) = d
  BY SignedUnique, HalfOfM DEF Congruent

LEMMA SignedAdd ==
  ASSUME NEW f \in Int, NEW t \in Int, NEW d \in Int,
         Signed(f - t) + d \in -Half .. Half - 1
  PROVE  Signed(((f + d) % M) - t) = Signed(f - t) + d
<1> DEFINE a == f - t
           k == Signed(a)
           e == k + d
           b == a + d
           c == f + d
           g == c % M
           h == g - t
<1>1. a \in Int /\ b \in Int /\ c \in Int /\ b = c - t
  OBVIOUS
<1> HIDE DEF a, b, c
<1>2. Congruent(k, a) /\ k \in Int
  BY <1>1, CongruentSigned, SignedType, HalfOfM
<1>3. g \in Int /\ Congruent(g, c)
  BY <1>1, CongruentMod, DivMod
<1> HIDE DEF k, g
<1>4. e \in Int /\ h \in Int /\ e - b = k - a /\ h - b = g - c
  BY <1>1, <1>2, <1>3 DEF b
<1> HIDE DEF e, h
<1>5. Congruent(e, b) /\ Congruent(h, b)
  BY <1>1, <1>2, <1>3, <1>4, CongruentDifference
<1>6. Congruent(e, h)
  BY <1>5 DEF Congruent
<1>7. e \in -Half .. Half - 1
  BY DEF e, k, a
<1>8. Signed(h) = e
  BY <1>4, <1>6, <1>7, SignedUnique
<1>9. QED
  BY <1>8 DEF h, g, c, e, k, a

LEMMA SignedSubtract ==
  ASSUME NEW f \in Int, NEW t \in Int, NEW d \in Int,
         Signed(f - t) - d \in -Half .. Half - 1
  PROVE  Signed(f - ((t + d) % M)) = Signed(f - t) - d
<1> DEFINE a == f - t
           k == Signed(a)
           e == k - d
           b == a - d
           c == t + d
           g == c % M
           h == f - g
<1>1. a \in Int /\ b \in Int /\ c \in Int /\ b = f - c
  OBVIOUS
<1> HIDE DEF a, b, c
<1>2. Congruent(k, a) /\ k \in Int
  BY <1>1, CongruentSigned, SignedType, HalfOfM
<1>3. g \in Int /\ Congruent(c, g)
  BY <1>1, CongruentMod, DivMod DEF Congruent
<1> HIDE DEF k, g
<1>4. e \in Int /\ h \in Int /\ e - b = k - a /\ h - b = c - g
  BY <1>1, <1>2, <1>3 DEF b
<1> HIDE DEF e, h
<1>5. Congruent(e, b) /\ Congruent(h, b)
  BY <1>1, <1>2, <1>3, <1>4, CongruentDifference
<1>6. Congruent(e, h)
  BY <1>5 DEF Congruent
<1>7. e \in -Half .. Half - 1
  BY DEF e, k, a
<1>8. Signed(h) = e
  BY <1>4, <1>6, <1>7, SignedUnique
<1>9. QED
  BY <1>8 DEF h, g, c, e, k, a

LEMMA SignedDifference ==
  ASSUME NEW f \in Int, NEW g \in Int, NEW t \in Int,
         Signed(f - t) - Signed(g - t) \in -Half .. Half - 1
  PROVE  Signed(f - g) = Signed(f - t) - Signed(g - t)
<1> DEFINE a == f - t
           b == g - t
           k == Signed(a)
           m == Signed(b)
           e == k - m
           h == f - g
           i == k - b
<1>1. a \in Int /\ b \in Int /\ h \in Int /\ h = a - b
  OBVIOUS
<1> HIDE DEF a, b, h
<1>2. Congruent(k, a) /\ k \in Int /\ Congruent(m, b) /\ m \in Int
  BY <1>1, CongruentSigned, SignedType, HalfOfM
<1> HIDE DEF k, m
<1>3. e \in Int /\ i \in Int /\ i - h = k - a /\ i - e = m - b
  BY <1>1, <1>2
<1> HIDE DEF e, i
<1>4. Congruent(i, h) /\ Congruent(i, e)
  BY <1>1, <1>2, <1>3, CongruentDifference
<1>5. Congruent(e, h)
  BY <1>4 DEF Congruent
<1>6. e \in -Half .. Half - 1
  BY DEF e, k, m, a, b
<1>7. Signed(h) = e
  BY <1>1, <1>5, <1>6, SignedUnique
<1>8. QED
  BY <1>7 DEF h, e, k, m, a, b

(* Times of the ring that are equally far from c are the same. *)
LEMMA SameTime ==
  ASSUME NEW t \in Ticks, NEW u \in Ticks, NEW c \in Int, Signed(t - c) = Signed(u - c)
  PROVE  t = u
<1>1. t \in 0 .. M - 1 /\ u \in 0 .. M - 1 /\ t \in Int /\ u \in Int /\ M \in Int
  BY CounterAssumption DEF Ticks
<1> DEFINE a == t - c
           b == u - c
<1>2. a \in Int /\ b \in Int /\ t - u = a - b
  BY <1>1
<1>3. Signed(a) = Signed(b)
  OBVIOUS
<1> HIDE DEF a, b
<1>4. Congruent(a, b)
  BY <1>2, <1>3, CongruentSigned DEF Congruent
<1>5. Congruent(t, u)
  BY ONLY <1>1, <1>2, <1>4, CongruentDifference
<1>6. \A r \in 0 .. M - 1 : r % M = r
  <2>1. SUFFICES ASSUME NEW r \in 0 .. M - 1 PROVE r % M = r
    OBVIOUS
  <2>2. (M * 0 + r) % M = r /\ M * 0 + r = r
    BY <1>1, ModUnique
  <2>3. QED
    BY <2>2
<1>7. QED
  BY <1>1, <1>5, <1>6 DEF Congruent

-----------------------------------------------------------------------------
(* The time left until each timer fires, at time t *)
LeftAt(fire, t) == [x \in Timers |-> Signed(fire[x] - t)]

LEMMA LeftAtType ==
  ASSUME NEW fire \in [Timers -> Ticks], NEW t \in Ticks
  PROVE  LeftAt(fire, t) \in [Timers -> Int]
<1>1. \A x \in Timers : fire[x] - t \in Int
  BY CounterAssumption DEF Ticks
<1>2. \A x \in Timers : Signed(fire[x] - t) \in Int
  BY <1>1, SignedType, HalfOfM
<1>3. QED
  BY <1>2 DEF LeftAt

(***************************************************************************)
(* A timer is put after those that fire earlier, by the times of the ring; *)
(* what results is sorted by the time left.                                *)
(***************************************************************************)
LEMMA InsertByTime ==
  ASSUME NEW s \in Seq(Timers), NEW x \in Timers,
         NEW fire \in [Timers -> Ticks], NEW t \in Ticks,
         Sorted(s, LeftAt(fire, t)),
         \A y \in Elements(s) : LeftAt(fire, t)[y] - LeftAt(fire, t)[x] \in -Half .. Half - 1
  PROVE  Sorted(Insert(s, Leading(s, {y \in Timers : Signed(fire[y] - fire[x]) <= 0}), x),
                LeftAt(fire, t))
<1> DEFINE K == LeftAt(fire, t)
           T == {y \in Timers : Signed(fire[y] - fire[x]) <= 0}
           n == Leading(s, T)
<1>1. K \in [Timers -> Int] /\ \A y \in Timers : K[y] = Signed(fire[y] - t)
  BY LeftAtType DEF LeftAt
<1>2. Sorted(s, K) /\ \A y \in Elements(s) : K[y] - K[x] \in -Half .. Half - 1
  OBVIOUS
<1> HIDE DEF K
<1>3. ASSUME NEW y \in Elements(s), y \in Timers PROVE Signed(fire[y] - fire[x]) = K[y] - K[x]
  <2>1. fire[y] \in Int /\ fire[x] \in Int /\ t \in Int
    BY <1>3, CounterAssumption DEF Ticks
  <2>2. QED
    BY <1>1, <1>2, <1>3, <2>1, SignedDifference
<1>4. /\ n \in 0 .. Len(s)
      /\ \A k \in 1 .. n : s[k] \in T
      /\ n < Len(s) => s[n + 1] \notin T
  BY LeadingProperties
<1>5. Len(s) \in Nat /\ DOMAIN s = 1 .. Len(s) /\ \A i \in 1 .. Len(s) : s[i] \in Timers /\ s[i] \in Elements(s)
  BY LenProperties, ElementOfSeq DEF Elements
<1> HIDE DEF n
<1>6. ASSUME NEW k \in 1 .. n PROVE K[s[k]] <= K[x]
  <2>1. s[k] \in T /\ s[k] \in Elements(s) /\ s[k] \in Timers
    BY <1>4, <1>5
  <2>2. K[s[k]] - K[x] <= 0 /\ K[s[k]] \in Int /\ K[x] \in Int
    BY <1>1, <1>3, <2>1
  <2>3. QED
    BY <2>2
<1>7. n < Len(s) => K[x] <= K[s[n + 1]]
  <2>1. SUFFICES ASSUME n < Len(s) PROVE K[x] <= K[s[n + 1]]
    OBVIOUS
  <2>2. n + 1 \in 1 .. Len(s)
    BY <1>4, <1>5, <2>1
  <2>3. s[n + 1] \notin T /\ s[n + 1] \in Elements(s) /\ s[n + 1] \in Timers
    BY <1>4, <1>5, <2>1, <2>2
  <2>4. ~(K[s[n + 1]] - K[x] <= 0) /\ K[s[n + 1]] \in Int /\ K[x] \in Int
    BY <1>1, <1>3, <2>3
  <2>5. QED
    BY <2>4
<1> HIDE DEF T
<1>8. Sorted(Insert(s, n, x), K)
  BY ONLY <1>1, <1>2, <1>4, <1>6, <1>7, s \in Seq(Timers), x \in Timers, InsertSorted
<1>9. QED
  BY <1>8 DEF K, T, n
=============================================================================
