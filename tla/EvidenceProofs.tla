---------------------------- MODULE EvidenceProofs ----------------------------
(***************************************************************************)
(* Proofs about Evidence, for any results and any sizes of both lists.     *)
(***************************************************************************)
EXTENDS Evidence, FiniteSetTheorems, SequenceTheorems, TLAPS

-----------------------------------------------------------------------------
(* Numbers and sequences.                                                  *)

LEMMA LeastNumber ==
  ASSUME NEW T, T \subseteq Nat, T # {}
  PROVE  \E n \in T : \A m \in T : n <= m
<1>1. PICK n \in T : \A m \in T : <<m, n>> \notin OpToRel(<, Nat)
  BY NatLessThanWellFounded, WFMin
<1>2. \A m \in T : ~ (m < n)
  BY <1>1 DEF OpToRel
<1>3. QED
  BY <1>2

LEMMA MinIs ==
  ASSUME NEW T, T \subseteq Nat, T # {}
  PROVE  Min(T) \in T /\ \A m \in T : Min(T) <= m
BY LeastNumber DEF Min

\* A set of numbers that holds all below each of its own is a first segment.
LEMMA FirstSegment ==
  ASSUME NEW n \in Nat, NEW T \in SUBSET (1..n),
         \A i \in T : \A j \in 1..n : j < i => j \in T
  PROVE  Cardinality(T) \in 0..n /\ T = 1..Cardinality(T)
<1>1. IsFiniteSet(1..n) /\ Cardinality(1..n) = n
  <2>1. 1 \in Int /\ n \in Int
    OBVIOUS
  <2>2. QED
    BY <2>1, FS_Interval
<1>2. Cardinality(T) \in 0..n /\ IsFiniteSet(T)
  <2>1. IsFiniteSet(T) /\ Cardinality(T) <= n
    BY <1>1, FS_Subset
  <2>2. Cardinality(T) \in Nat
    BY <2>1, FS_CardinalityType
  <2>3. QED
    BY <2>1, <2>2
<1>3. \E k \in 0..n : T = 1..k
  <2> DEFINE U == {k \in 0..n : \A i \in T : i <= k}
  <2>1. U \subseteq Nat /\ n \in U
    OBVIOUS
  <2>2. PICK k \in U : \A m \in U : k <= m
    BY <2>1, LeastNumber
  <2>3. k \in 0..n /\ (\A i \in T : i \in 1..n /\ i <= k) /\ (k - 1 \in 0..n => k - 1 \notin U)
    BY <2>2
  <2>4. CASE k = 0
    <3>1. \A i \in T : FALSE
      BY <2>3, <2>4
    <3>2. T = 1..0
      BY <3>1
    <3>3. QED
      BY <2>3, <2>4, <3>2
  <2>5. CASE k # 0
    <3>1. PICK i \in T : ~(i <= k - 1)
      BY <2>3, <2>5
    <3>2. i = k
      BY <2>3, <3>1
    <3>3. \A j \in 1..k : j \in T
      BY <2>3, <3>2
    <3>4. \A j \in T : j \in 1..k
      BY <2>3
    <3>5. T = 1..k
      BY <3>3, <3>4
    <3>6. QED
      BY <2>3, <3>5
  <2>6. QED
    BY <2>3, <2>4, <2>5
<1>4. PICK k \in 0..n : T = 1..k
  BY <1>3
<1>5. Cardinality(1..k) = k
  <2>1. 1 \in Int /\ k \in Int
    OBVIOUS
  <2>2. QED
    BY <2>1, FS_Interval
<1>6. QED
  BY <1>2, <1>4, <1>5

LEMMA SetOf ==
  ASSUME NEW S, NEW s \in Seq(S)
  PROVE  /\ Len(s) \in Nat /\ DOMAIN s = 1..Len(s)
         /\ \A i \in 1..Len(s) : s[i] \in S /\ s[i] \in ToSet(s)
         /\ \A x \in ToSet(s) : x \in S /\ \E i \in 1..Len(s) : s[i] = x
<1>1. Len(s) \in Nat /\ DOMAIN s = 1..Len(s)
  BY LenProperties
<1>2. \A i \in 1..Len(s) : s[i] \in S
  BY ElementOfSeq
<1>3. QED
  BY <1>1, <1>2 DEF ToSet

LEMMA AppendIs ==
  ASSUME NEW S, NEW s \in Seq(S), NEW x \in S
  PROVE  /\ Append(s, x) \in Seq(S) /\ Len(Append(s, x)) = Len(s) + 1
         /\ \A j \in 1..(Len(s) + 1) :
              Append(s, x)[j] = IF j <= Len(s) THEN s[j] ELSE x
<1>1. Len(s) \in Nat
  BY LenProperties
<1>2. QED
  BY <1>1, AppendProperties

LEMMA RemoveAtIs ==
  ASSUME NEW S, NEW s \in Seq(S), NEW i \in 1..Len(s)
  PROVE  /\ RemoveAt(s, i) \in Seq(S) /\ Len(RemoveAt(s, i)) = Len(s) - 1
         /\ \A j \in 1..(Len(s) - 1) : RemoveAt(s, i)[j] = IF j < i THEN s[j] ELSE s[j + 1]
<1>1. Len(s) \in Nat
  BY LenProperties
<1> DEFINE x == SubSeq(s, 1, i - 1)
           y == SubSeq(s, i + 1, Len(s))
<1>2. /\ x \in Seq(S) /\ Len(x) = i - 1
      /\ \A j \in 1..(i - 1) : x[j] = s[j]
  BY <1>1
<1>3. /\ y \in Seq(S) /\ Len(y) = Len(s) - i
      /\ \A j \in 1..(Len(s) - i) : y[j] = s[j + i]
  BY <1>1
<1>4. RemoveAt(s, i) = x \o y
  BY Zenon DEF RemoveAt
<1> HIDE DEF x, y
<1>5. /\ x \o y \in Seq(S) /\ Len(x \o y) = Len(x) + Len(y)
      /\ \A j \in 1..(Len(x) + Len(y)) :
           (x \o y)[j] = IF j <= Len(x) THEN x[j] ELSE y[j - Len(x)]
  BY <1>2, <1>3, ConcatProperties
<1>6. Len(x) + Len(y) = Len(s) - 1
  BY <1>1, <1>2, <1>3
<1>7. ASSUME NEW j \in 1..(Len(s) - 1)
      PROVE  (x \o y)[j] = IF j < i THEN s[j] ELSE s[j + 1]
  <2>1. CASE j < i
    <3>1. j \in 1..(i - 1) /\ j <= Len(x)
      BY <1>1, <1>2, <1>7, <2>1
    <3>2. QED
      BY <1>2, <1>5, <1>6, <1>7, <2>1, <3>1
  <2>2. CASE ~(j < i)
    <3>1. j - (i - 1) \in 1..(Len(s) - i) /\ ~(j <= Len(x)) /\ j - (i - 1) + i = j + 1
      BY <1>1, <1>2, <1>7, <2>2
    <3>2. (x \o y)[j] = y[j - (i - 1)]
      BY <1>2, <1>5, <1>6, <1>7, <3>1
    <3>3. QED
      BY <1>3, <2>2, <3>1, <3>2
  <2>3. QED
    BY <2>1, <2>2
<1>8. QED
  BY <1>4, <1>5, <1>6, <1>7

LEMMA Inserted ==
  ASSUME NEW s, NEW i, NEW x
  PROVE  InsertAt(s, i, x) = SubSeq(s, 1, i - 1) \o <<x>> \o SubSeq(s, i, Len(s))
BY DEF InsertAt

LEMMA InsertAtIs ==
  ASSUME NEW S, NEW s \in Seq(S), NEW k \in 0..Len(s), NEW x \in S
  PROVE  /\ InsertAt(s, k + 1, x) \in Seq(S) /\ Len(InsertAt(s, k + 1, x)) = Len(s) + 1
         /\ \A j \in 1..(Len(s) + 1) : InsertAt(s, k + 1, x)[j] =
              IF j <= k THEN s[j] ELSE IF j = k + 1 THEN x ELSE s[j - 1]
<1>1. Len(s) \in Nat
  BY LenProperties
<1> DEFINE a == SubSeq(s, 1, (k + 1) - 1)
           b == SubSeq(s, k + 1, Len(s))
<1>2. a \in Seq(S) /\ Len(a) = k /\ \A j \in 1..k : a[j] = s[j]
  <2>1. (k + 1) - 1 = k
    BY <1>1
  <2>2. /\ SubSeq(s, 1, k) \in Seq(S) /\ Len(SubSeq(s, 1, k)) = k
        /\ \A j \in 1..k : SubSeq(s, 1, k)[j] = s[j]
    BY <1>1
  <2>3. QED
    BY <2>1, <2>2
<1>3. /\ b \in Seq(S) /\ Len(b) = Len(s) - k
      /\ \A j \in 1..(Len(s) - k) : b[j] = s[j + k]
  BY <1>1
<1>4. InsertAt(s, k + 1, x) = a \o <<x>> \o b
  BY Inserted
<1> HIDE DEF a, b
<1>5. /\ a \o <<x>> \in Seq(S) /\ Len(a \o <<x>>) = k + 1
      /\ \A j \in 1..(k + 1) : (a \o <<x>>)[j] = IF j <= k THEN s[j] ELSE x
  <2>1. <<x>> \in Seq(S) /\ Len(<<x>>) = 1 /\ <<x>>[1] = x
    OBVIOUS
  <2>2. /\ a \o <<x>> \in Seq(S) /\ Len(a \o <<x>>) = Len(a) + Len(<<x>>)
        /\ \A j \in 1..(Len(a) + Len(<<x>>)) : (a \o <<x>>)[j] =
             IF j <= Len(a) THEN a[j] ELSE <<x>>[j - Len(a)]
    BY <1>2, <2>1, ConcatProperties
  <2>3. ASSUME NEW j \in 1..(k + 1) PROVE (a \o <<x>>)[j] = IF j <= k THEN s[j] ELSE x
    <3>1. CASE j <= k
      BY <1>1, <1>2, <2>1, <2>2, <3>1
    <3>2. CASE ~(j <= k)
      <4>1. j = k + 1 /\ j - Len(a) = 1
        BY <1>1, <1>2, <3>2
      <4>2. QED
        BY <1>1, <1>2, <2>1, <2>2, <3>2, <4>1
    <3>3. QED
      BY <3>1, <3>2
  <2>4. QED
    BY <1>1, <1>2, <2>1, <2>2, <2>3
<1> DEFINE c == a \o <<x>>
<1>6. c \in Seq(S) /\ Len(c) = k + 1 /\ \A j \in 1..(k + 1) : c[j] = IF j <= k THEN s[j] ELSE x
  BY <1>5
<1>7. InsertAt(s, k + 1, x) = c \o b
  BY <1>4
<1> HIDE DEF c
<1>8. /\ c \o b \in Seq(S) /\ Len(c \o b) = Len(c) + Len(b)
      /\ \A j \in 1..(Len(c) + Len(b)) : (c \o b)[j] =
           IF j <= Len(c) THEN c[j] ELSE b[j - Len(c)]
  BY <1>3, <1>6, ConcatProperties
<1>9. Len(c) + Len(b) = Len(s) + 1
  BY <1>1, <1>3, <1>6
<1>10. ASSUME NEW j \in 1..(Len(s) + 1)
       PROVE  (c \o b)[j] = IF j <= k THEN s[j] ELSE IF j = k + 1 THEN x ELSE s[j - 1]
  <2>1. CASE j <= k + 1
    <3>1. (c \o b)[j] = c[j] /\ j \in 1..(k + 1)
      BY <1>1, <1>6, <1>8, <1>9, <2>1
    <3>2. QED
      BY <1>1, <1>6, <2>1, <3>1
  <2>2. CASE ~(j <= k + 1)
    <3>1. /\ j - (k + 1) \in 1..(Len(s) - k) /\ j - (k + 1) + k = j - 1
          /\ ~(j <= k) /\ j # k + 1
      BY <1>1, <2>2
    <3>2. (c \o b)[j] = b[j - (k + 1)]
      BY <1>1, <1>6, <1>8, <1>9, <2>2
    <3>3. b[j - (k + 1)] = s[j - 1]
      BY <1>3, <3>1
    <3>4. QED
      BY <3>1, <3>2, <3>3
  <2>3. QED
    BY <2>1, <2>2
<1>11. QED
  BY <1>7, <1>8, <1>9, <1>10

-----------------------------------------------------------------------------
(* The inductive invariants.                                               *)

RefItem == [kind : Kind, locator : Nat, status : (Type \ {"note", "failure"}) \cup {"changed"}]

Source == [kind : Kind, locator : Nat, status : (Type \ {"failure"}) \cup {"changed"}, used : Nat]

ReadItem == [kind : Kind, locator : Nat, status : Reading \cup {"touched"}]

Unique(list) == \A i, j \in DOMAIN list : Same(list[i], list[j]) => i = j

TypeInv ==
  /\ step \in 0..MaxSteps /\ recent \in 0..6
  /\ refs \in Seq(RefItem) /\ Unique(refs)
  /\ Len(refs) <= IF last.compacted THEN KeepRefs ELSE MaxRefs
  /\ sources \in Seq(Source) /\ Unique(sources)
  /\ Len(sources) <= KeepSources
  /\ \A x \in ToSet(sources) : x.used <= step + 1
  /\ last.type \in Type /\ last.compacted \in BOOLEAN
  /\ reads \in Seq(ReadItem) /\ Unique(reads)

\* Where a source was read: the place of its untouched read in the history.
ReadAt(j, x, history) == Same(history[j], x) /\ history[j].status # "touched"

\* A source that counts as read was read, and not touched since.
Grounded(list, history) ==
  \A x \in ToSet(list) : x.status \in Reading => \E j \in DOMAIN history : ReadAt(j, x, history)

\* Of two sources that count as read, the later read was used later.
Dated(list, history) ==
  \A x, y \in ToSet(list) : \A i, j \in DOMAIN history :
    x.status \in Reading /\ y.status \in Reading /\ ReadAt(i, x, history) /\ ReadAt(j, y, history)
      /\ i < j => x.used < y.used

\* The last n reads are listed, unless they were touched.
Kept(list, history, n) ==
  \A j \in DOMAIN history : Len(history) - n < j /\ history[j].status # "touched" =>
    \E x \in ToSet(list) : Same(history[j], x) /\ x.status \in Reading

ReadsInv ==
  /\ Grounded(sources, reads) /\ Dated(sources, reads)
  /\ Kept(sources, reads, KeepSources)

-----------------------------------------------------------------------------
(* Merging: what Put and Merge keep and bring.                             *)

\* Put leaves every entry that is not the same, and brings the candidate.
LEMMA PutIs ==
  ASSUME NEW S, NEW list \in Seq(S), NEW x \in S, Unique(list)
  PROVE  /\ Put(list, x) \in Seq(S) /\ Unique(Put(list, x))
         /\ Len(Put(list, x)) \in {Len(list), Len(list) + 1}
         /\ \A y : y \in ToSet(Put(list, x)) <=> y = x \/ (y \in ToSet(list) /\ ~Same(y, x))
<1> DEFINE known == {i \in DOMAIN list : Same(list[i], x)}
           put == Put(list, x)
<1>1. /\ Len(list) \in Nat /\ DOMAIN list = 1..Len(list)
      /\ \A y \in ToSet(list) : \E i \in 1..Len(list) : list[i] = y
      /\ \A i \in 1..Len(list) : list[i] \in ToSet(list)
  BY SetOf
<1>2. CASE known = {}
  <2>1. put = Append(list, x)
    BY <1>2 DEF Put
  <2>2. /\ put \in Seq(S) /\ Len(put) = Len(list) + 1
        /\ \A j \in 1..(Len(list) + 1) : put[j] = IF j <= Len(list) THEN list[j] ELSE x
    BY <2>1, AppendIs
  <2>3. /\ DOMAIN put = 1..(Len(list) + 1)
        /\ \A y \in ToSet(put) : \E i \in 1..(Len(list) + 1) : put[i] = y
        /\ \A i \in 1..(Len(list) + 1) : put[i] \in ToSet(put)
    BY <2>2, SetOf
  <2>4. \A i \in 1..Len(list) : ~Same(list[i], x)
    BY <1>1, <1>2
  <2> HIDE DEF put, known
  <2>5. /\ \A j \in 1..Len(list) : j \in 1..(Len(list) + 1) /\ put[j] = list[j]
        /\ Len(list) + 1 \in 1..(Len(list) + 1) /\ put[Len(list) + 1] = x
        /\ \A j \in 1..(Len(list) + 1) : j = Len(list) + 1 \/ j \in 1..Len(list)
    BY <1>1, <2>2
  <2>6. Unique(put)
    <3>1. ASSUME NEW i \in DOMAIN put, NEW j \in DOMAIN put, Same(put[i], put[j]) PROVE i = j
      <4>1. ~Same(x, list[i]) \/ i \notin 1..Len(list)
        BY <2>4 DEF Same
      <4>2. ~Same(x, list[j]) \/ j \notin 1..Len(list)
        BY <2>4 DEF Same
      <4>3. CASE i \in 1..Len(list) /\ j \in 1..Len(list)
        BY <1>1, <2>5, <3>1, <4>3 DEF Unique
      <4>4. CASE i = Len(list) + 1 /\ j = Len(list) + 1
        BY <4>4
      <4>5. CASE i = Len(list) + 1 /\ j \in 1..Len(list)
        BY <2>5, <3>1, <4>2, <4>5
      <4>6. CASE i \in 1..Len(list) /\ j = Len(list) + 1
        BY <2>4, <2>5, <3>1, <4>6
      <4>7. QED
        BY <2>3, <2>5, <4>3, <4>4, <4>5, <4>6
    <3>2. QED
      BY <3>1 DEF Unique
  <2>7. \A y : y \in ToSet(put) <=> y = x \/ (y \in ToSet(list) /\ ~Same(y, x))
    <3>1. ASSUME NEW y \in ToSet(put) PROVE y = x \/ (y \in ToSet(list) /\ ~Same(y, x))
      BY <1>1, <2>3, <2>4, <2>5
    <3>2. ASSUME NEW y \in ToSet(list) PROVE y \in ToSet(put)
      BY <1>1, <2>3, <2>5
    <3>3. x \in ToSet(put)
      BY <2>3, <2>5
    <3>4. QED
      BY <3>1, <3>2, <3>3
  <2>8. QED
    BY <1>1, <2>2, <2>6, <2>7 DEF put
<1>3. CASE known # {}
  <2> DEFINE m == Min(known)
  <2>1. m \in 1..Len(list) /\ Same(list[m], x)
    <3>1. known \subseteq Nat
      BY <1>1
    <3>2. m \in known
      BY <1>3, <3>1, MinIs
    <3>3. QED
      BY <1>1, <3>2
  <2>2. put = [list EXCEPT ![m] = x]
    BY <1>3 DEF Put
  <2> HIDE DEF m, known
  <2>3. /\ put \in Seq(S) /\ Len(put) = Len(list)
        /\ \A j \in 1..Len(list) : put[j] = IF j = m THEN x ELSE list[j]
    BY <2>1, <2>2, ExceptSeq
  <2>4. /\ DOMAIN put = 1..Len(list)
        /\ \A y \in ToSet(put) : \E i \in 1..Len(list) : put[i] = y
        /\ \A i \in 1..Len(list) : put[i] \in ToSet(put)
    BY <2>3, SetOf
  <2> HIDE DEF put
  <2>5. \A i \in 1..Len(list) : Same(list[i], x) => i = m
    BY <1>1, <2>1 DEF Unique, Same
  <2>6. Unique(put)
    <3>1. ASSUME NEW i \in DOMAIN put, NEW j \in DOMAIN put, Same(put[i], put[j]) PROVE i = j
      <4>1. i \in 1..Len(list) /\ j \in 1..Len(list)
        BY <2>4
      <4>2. Same(list[i], list[j])
        BY <2>1, <2>3, <3>1, <4>1 DEF Same
      <4>3. QED
        BY <1>1, <4>1, <4>2 DEF Unique
    <3>2. QED
      BY <3>1 DEF Unique
  <2>7. \A y : y \in ToSet(put) <=> y = x \/ (y \in ToSet(list) /\ ~Same(y, x))
    <3>1. ASSUME NEW y \in ToSet(put) PROVE y = x \/ (y \in ToSet(list) /\ ~Same(y, x))
      BY <1>1, <2>3, <2>4, <2>5
    <3>2. ASSUME NEW y \in ToSet(list), ~Same(y, x) PROVE y \in ToSet(put)
      <4>1. PICK i \in 1..Len(list) : list[i] = y
        BY <1>1
      <4>2. put[i] = y
        BY <2>1, <2>3, <3>2, <4>1
      <4>3. QED
        BY <2>4, <4>2
    <3>3. x \in ToSet(put)
      BY <2>1, <2>3, <2>4
    <3>4. QED
      BY <3>1, <3>2, <3>3
  <2>8. QED
    BY <2>3, <2>6, <2>7 DEF put
<1>4. QED
  BY <1>2, <1>3

\* The lists Merge goes through: the n-th has taken the first n candidates.
Merged(list, candidates) ==
  CHOOSE merged : merged = [n \in 0..Len(candidates) |->
    IF n = 0 THEN list ELSE Put(merged[n - 1], candidates[n])]

LEMMA MergeIs ==
  ASSUME NEW list, NEW candidates, NEW max
  PROVE  Merge(list, candidates, max)
           = LastOf(Merged(list, candidates)[Len(candidates)], max)
BY DEF Merge, Merged

LEMMA MergedIs ==
  ASSUME NEW list, NEW S, NEW c \in Seq(S)
  PROVE  /\ Merged(list, c)[0] = list
         /\ \A n \in 1..Len(c) : Merged(list, c)[n] = Put(Merged(list, c)[n - 1], c[n])
<1> DEFINE Goes(f, n) == f = [m \in 0..n |-> IF m = 0 THEN list ELSE Put(f[m - 1], c[m])]
           T == {n \in 0..Len(c) : ~ \E f : Goes(f, n)}
<1>1. Len(c) \in Nat
  BY LenProperties
<1>2. T = {}
  <2>1. SUFFICES ASSUME T # {} PROVE FALSE
    OBVIOUS
  <2>2. T \subseteq Nat
    BY <1>1
  <2>3. PICK n \in T : \A m \in T : n <= m
    BY <2>1, <2>2, LeastNumber
  <2>4. n \in 0..Len(c) /\ ~ \E f : Goes(f, n)
    BY <2>3
  <2>5. CASE n = 0
    <3> DEFINE f == [m \in 0..n |-> list]
    <3>1. \A m \in 0..n : f[m] = IF m = 0 THEN list ELSE Put(f[m - 1], c[m])
      BY <2>5
    <3>2. DOMAIN f = 0..n /\ f = [m \in 0..n |-> f[m]]
      OBVIOUS
    <3> HIDE DEF f
    <3>3. Goes(f, n)
      BY <3>1, <3>2
    <3>4. QED
      BY <2>4, <3>3
  <2>6. CASE n # 0
    <3>1. n - 1 \in 0..Len(c) /\ n - 1 \notin T
      <4>1. n \in 1..Len(c) /\ n - 1 \in 0..Len(c) /\ ~(n <= n - 1)
        BY <1>1, <2>4, <2>6
      <4> HIDE DEF T
      <4>2. n - 1 \notin T
        BY <2>3, <4>1
      <4>3. QED
        BY <4>1, <4>2
    <3>2. PICK g : Goes(g, n - 1)
      BY <3>1
    <3> DEFINE f == [m \in 0..n |-> IF m = n THEN Put(g[n - 1], c[n]) ELSE g[m]]
    <3>3. \A m \in 0..(n - 1) : g[m] = IF m = 0 THEN list ELSE Put(g[m - 1], c[m])
      BY <3>2
    <3>4. \A m \in 0..n : f[m] = IF m = 0 THEN list ELSE Put(f[m - 1], c[m])
      <4>1. TAKE m \in 0..n
      <4>2. CASE m = n
        <5>1. f[m] = Put(g[n - 1], c[n]) /\ f[m - 1] = g[n - 1]
          BY <1>1, <2>4, <2>6, <4>2
        <5>2. QED
          BY <2>6, <4>2, <5>1
      <4>3. CASE m # n /\ m # 0
        <5>1. f[m] = g[m] /\ f[m - 1] = g[m - 1] /\ m \in 0..(n - 1)
          BY <1>1, <2>4, <4>3
        <5>2. QED
          BY <3>3, <4>3, <5>1
      <4>4. CASE m # n /\ m = 0
        <5>1. f[m] = g[m] /\ m \in 0..(n - 1)
          BY <1>1, <2>4, <4>4
        <5>2. QED
          BY <3>3, <4>4, <5>1
      <4>5. QED
        BY <4>2, <4>3, <4>4
    <3>5. DOMAIN f = 0..n /\ f = [m \in 0..n |-> f[m]]
      OBVIOUS
    <3> HIDE DEF f
    <3>6. Goes(f, n)
      BY <3>4, <3>5
    <3>7. QED
      BY <2>4, <3>6
  <2>7. QED
    BY <2>5, <2>6
<1>3. \E f : Goes(f, Len(c))
  BY <1>1, <1>2
<1>4. Goes(Merged(list, c), Len(c))
  BY <1>3 DEF Merged
<1> DEFINE f == Merged(list, c)
<1>5. f = [m \in 0..Len(c) |-> IF m = 0 THEN list ELSE Put(f[m - 1], c[m])]
  BY <1>4
<1> HIDE DEF f
<1>6. \A m \in 0..Len(c) : f[m] = IF m = 0 THEN list ELSE Put(f[m - 1], c[m])
  BY <1>5
<1>7. 0 \in 0..Len(c) /\ \A n \in 1..Len(c) : n \in 0..Len(c) /\ n # 0
  BY <1>1
<1>8. QED
  BY <1>6, <1>7 DEF f

\* What the first n candidates have made of the list: what none of them names
\* has stayed, and the last of them is in.
MergedWell(S, list, c, n) ==
  LET t == Merged(list, c)[n]
  IN  /\ t \in Seq(S) /\ Unique(t)
      /\ Len(t) <= Len(list) + n
      /\ \A y \in ToSet(t) : \/ y \in ToSet(list) /\ \A k \in 1..n : ~Same(y, c[k])
                             \/ \E k \in 1..n : y = c[k]
      /\ \A y \in ToSet(list) : (\A k \in 1..n : ~Same(y, c[k])) => y \in ToSet(t)
      /\ n > 0 => c[n] \in ToSet(t)

LEMMA Merging ==
  ASSUME NEW S, NEW list \in Seq(S), NEW c \in Seq(S), Unique(list)
  PROVE  \A n \in 0..Len(c) : MergedWell(S, list, c, n)
<1> DEFINE T == {n \in 0..Len(c) : ~MergedWell(S, list, c, n)}
<1>1. Len(c) \in Nat /\ Len(list) \in Nat /\ \A n \in 1..Len(c) : c[n] \in S
  BY LenProperties, ElementOfSeq
<1>2. SUFFICES ASSUME T # {} PROVE FALSE
  OBVIOUS
<1>3. T \subseteq Nat
  BY <1>1
<1>4. PICK n \in T : \A m \in T : n <= m
  BY <1>2, <1>3, LeastNumber
<1>5. n \in 0..Len(c) /\ ~MergedWell(S, list, c, n)
  BY <1>4
<1>6. CASE n = 0
  <2>1. Merged(list, c)[n] = list /\ 1..n = {}
    BY <1>6, MergedIs
  <2>2. QED
    BY <1>1, <1>5, <1>6, <2>1 DEF MergedWell
<1>7. CASE n # 0
  <2>1. n \in 1..Len(c) /\ n - 1 \in 0..Len(c) /\ ~(n <= n - 1)
    BY <1>1, <1>5, <1>7
  <2>2. MergedWell(S, list, c, n - 1)
    <3> HIDE DEF T
    <3>1. n - 1 \notin T
      BY <1>4, <2>1
    <3>2. QED
      BY <2>1, <3>1 DEF T
  <2> DEFINE s == Merged(list, c)[n - 1]
             t == Merged(list, c)[n]
  <2>3. t = Put(s, c[n])
    BY <2>1, MergedIs
  <2>4. /\ s \in Seq(S) /\ Unique(s) /\ Len(s) <= Len(list) + (n - 1)
        /\ \A y \in ToSet(s) : \/ y \in ToSet(list) /\ \A k \in 1..(n - 1) : ~Same(y, c[k])
                               \/ \E k \in 1..(n - 1) : y = c[k]
        /\ \A y \in ToSet(list) : (\A k \in 1..(n - 1) : ~Same(y, c[k])) => y \in ToSet(s)
    BY <2>2 DEF MergedWell
  <2> HIDE DEF s, t
  <2>5. Len(s) \in Nat /\ c[n] \in S
    BY <1>1, <2>1, <2>4, LenProperties
  <2>6. /\ t \in Seq(S) /\ Unique(t) /\ Len(t) \in {Len(s), Len(s) + 1}
        /\ \A y : y \in ToSet(t) <=> y = c[n] \/ (y \in ToSet(s) /\ ~Same(y, c[n]))
    BY <2>3, <2>4, <2>5, PutIs
  <2>7. n \in 1..n /\ \A k \in 1..n : k = n \/ k \in 1..(n - 1)
    BY <2>1
  <2>8. \A k \in 1..(n - 1) : k \in 1..n
    BY <2>1
  <2>9. Len(t) <= Len(list) + n
    BY <1>1, <2>1, <2>4, <2>5, <2>6
  <2>10. ASSUME NEW y \in ToSet(t)
         PROVE  \/ y \in ToSet(list) /\ \A k \in 1..n : ~Same(y, c[k])
                \/ \E k \in 1..n : y = c[k]
    BY <2>4, <2>6, <2>7, <2>8
  <2>11. ASSUME NEW y \in ToSet(list), \A k \in 1..n : ~Same(y, c[k]) PROVE y \in ToSet(t)
    BY <2>4, <2>6, <2>7, <2>8, <2>11
  <2>12. c[n] \in ToSet(t)
    BY <2>6
  <2>13. MergedWell(S, list, c, n)
    BY <2>6, <2>9, <2>10, <2>11, <2>12 DEF MergedWell, t
  <2>14. QED
    BY <1>5, <2>13
<1>8. QED
  BY <1>6, <1>7

\* The places of the last n entries, and of the first n.
LEMMA LastOfIs ==
  ASSUME NEW S, NEW s \in Seq(S), NEW n \in Nat \ {0}
  PROVE  /\ LastOf(s, n) \in Seq(S) /\ Len(LastOf(s, n)) \in 0..n
         /\ Len(LastOf(s, n)) <= Len(s)
         /\ \A i \in 1..Len(LastOf(s, n)) :
              /\ i + (Len(s) - Len(LastOf(s, n))) \in 1..Len(s)
              /\ LastOf(s, n)[i] = s[i + (Len(s) - Len(LastOf(s, n)))]
         /\ Len(s) <= n => LastOf(s, n) = s
         /\ \A i \in 1..Len(s) : Len(s) - n < i => s[i] \in ToSet(LastOf(s, n))
         /\ \A x \in ToSet(LastOf(s, n)) : \E i \in 1..Len(s) : Len(s) - n < i /\ s[i] = x
<1> DEFINE m == IF Len(s) > n THEN Len(s) - n + 1 ELSE 1
           t == LastOf(s, n)
<1>1. Len(s) \in Nat /\ m \in 1..(Len(s) + 1) /\ m \in Nat /\ Len(s) - n <= m - 1
  BY LenProperties
<1>2. t = SubSeq(s, m, Len(s))
  BY DEF LastOf
<1>3. m - 1 <= Len(s) /\ Len(s) - m + 1 \in 0..n /\ (Len(s) <= n => m = 1)
      /\ (m # 1 => m = Len(s) - n + 1)
  BY <1>1
<1> HIDE DEF m, t
<1>4. /\ t \in Seq(S) /\ Len(t) = Len(s) - m + 1
      /\ \A i \in 1..(Len(s) - m + 1) : t[i] = s[m + i - 1]
  <2>1. \A i \in m..Len(s) : s[i] \in S
    BY <1>1, ElementOfSeq
  <2>2. m \in Int /\ Len(s) \in Int
    BY <1>1
  <2>3. /\ SubSeq(s, m, Len(s)) \in Seq(S)
        /\ Len(SubSeq(s, m, Len(s))) = IF m <= Len(s) THEN Len(s) - m + 1 ELSE 0
        /\ \A i \in 1..(Len(s) - m + 1) : SubSeq(s, m, Len(s))[i] = s[m + i - 1]
    BY <2>1, <2>2, SubSeqProperties
  <2>4. Len(t) = Len(s) - m + 1
    BY <1>1, <1>2, <2>3
  <2>5. QED
    BY <1>2, <2>3, <2>4
<1>5. ASSUME NEW i \in 1..Len(t)
      PROVE  i + (Len(s) - Len(t)) \in 1..Len(s) /\ t[i] = s[i + (Len(s) - Len(t))]
  <2>1. i + (Len(s) - Len(t)) = m + i - 1 /\ i + (Len(s) - Len(t)) \in 1..Len(s)
        /\ i \in 1..(Len(s) - m + 1)
    BY <1>1, <1>4
  <2>2. QED
    BY <1>4, <2>1
<1>6. Len(s) <= n => t = s
  BY <1>1, <1>2, <1>3, SubSeqFull
<1>7. /\ \A i \in 1..Len(t) : t[i] \in ToSet(t)
      /\ \A x \in ToSet(t) : \E i \in 1..Len(t) : t[i] = x
  BY <1>4, SetOf
<1>8. ASSUME NEW i \in 1..Len(s), Len(s) - n < i PROVE s[i] \in ToSet(t)
  <2>1. i - m + 1 \in 1..Len(t) /\ (i - m + 1) + (Len(s) - Len(t)) = i
    BY <1>1, <1>3, <1>4, <1>8
  <2>2. t[i - m + 1] = s[i]
    BY <1>5, <2>1
  <2>3. QED
    BY <1>7, <2>1, <2>2
<1>9. ASSUME NEW x \in ToSet(t) PROVE \E i \in 1..Len(s) : Len(s) - n < i /\ s[i] = x
  <2>1. PICK i \in 1..Len(t) : t[i] = x
    BY <1>7
  <2>2. i + (Len(s) - Len(t)) \in 1..Len(s) /\ s[i + (Len(s) - Len(t))] = x
    BY <1>5, <2>1
  <2>3. Len(s) - n < i + (Len(s) - Len(t))
    BY <1>1, <1>3, <1>4
  <2>4. QED
    BY <2>2, <2>3
<1>10. Len(t) \in 0..n /\ Len(t) <= Len(s)
  BY <1>1, <1>3, <1>4
<1>11. QED
  BY <1>4, <1>5, <1>6, <1>8, <1>9, <1>10 DEF t

LEMMA FirstOfIs ==
  ASSUME NEW S, NEW s \in Seq(S), NEW n \in Nat \ {0}
  PROVE  /\ FirstOf(s, n) \in Seq(S)
         /\ Len(FirstOf(s, n)) = IF Len(s) > n THEN n ELSE Len(s)
         /\ \A i \in 1..Len(FirstOf(s, n)) : i \in 1..Len(s) /\ FirstOf(s, n)[i] = s[i]
         /\ \A i \in 1..Len(s) : i <= n => s[i] \in ToSet(FirstOf(s, n))
         /\ \A x \in ToSet(FirstOf(s, n)) : \E i \in 1..Len(s) : i <= n /\ s[i] = x
<1> DEFINE m == IF Len(s) > n THEN n ELSE Len(s)
           t == FirstOf(s, n)
<1>1. Len(s) \in Nat /\ m \in 0..Len(s) /\ m \in 0..n /\ (Len(s) <= n => m = Len(s))
      /\ (Len(s) > n => m = n)
  BY LenProperties
<1>2. t = SubSeq(s, 1, m)
  BY DEF FirstOf
<1> HIDE DEF m, t
<1>3. /\ t \in Seq(S) /\ Len(t) = m
      /\ \A i \in 1..m : t[i] = s[i]
  BY <1>1, <1>2
<1>4. /\ \A i \in 1..Len(t) : t[i] \in ToSet(t)
      /\ \A x \in ToSet(t) : \E i \in 1..Len(t) : t[i] = x
  BY <1>3, SetOf
<1>5. \A i \in 1..Len(t) : i \in 1..Len(s) /\ i <= n /\ t[i] = s[i]
  BY <1>1, <1>3
<1>6. \A i \in 1..Len(s) : i <= n => i \in 1..Len(t)
  BY <1>1, <1>3
<1>7. QED
  BY <1>3, <1>4, <1>5, <1>6 DEF t, m

-----------------------------------------------------------------------------
(* Sorting: the same entries, the better ones first.                       *)

\* An entry comes before another one or not, whatever lies between them.
WeakOrder(before, U) ==
  /\ \A x, y \in U : <<x, y>> \in before => <<y, x>> \notin before
  /\ \A x, y, z \in U : <<x, y>> \in before => <<x, z>> \in before \/ <<z, y>> \in before

InOrder(list, before) ==
  \A i, j \in DOMAIN list : i < j => <<list[j], list[i]>> \notin before

LEMMA PlacedIs ==
  ASSUME NEW S, NEW list \in Seq(S), NEW x \in S, NEW before, NEW U,
         WeakOrder(before, U), x \in U, ToSet(list) \subseteq U, InOrder(list, before)
  PROVE  /\ Placed(list, x, before) \in Seq(S)
         /\ Len(Placed(list, x, before)) = Len(list) + 1
         /\ InOrder(Placed(list, x, before), before)
         /\ \A y : y \in ToSet(Placed(list, x, before)) <=> y = x \/ y \in ToSet(list)
         /\ Unique(list) /\ (\A y \in ToSet(list) : ~Same(x, y))
              => Unique(Placed(list, x, before))
<1> DEFINE A == {i \in DOMAIN list : <<x, list[i]>> \notin before}
           k == Cardinality(A)
           t == Placed(list, x, before)
           l == Len(list)
<1>1. /\ l \in Nat /\ DOMAIN list = 1..l
      /\ \A i \in 1..l : list[i] \in S /\ list[i] \in ToSet(list)
      /\ \A y \in ToSet(list) : \E i \in 1..l : list[i] = y
  BY SetOf
<1>2. k \in 0..l /\ A = 1..k
  <2>1. A \in SUBSET (1..l)
    BY <1>1
  <2>2. \A i \in A : \A j \in 1..l : j < i => j \in A
    <3>1. TAKE i \in A
    <3>2. TAKE j \in 1..l
    <3>3. HAVE j < i
    <3>4. /\ i \in 1..l /\ <<x, list[i]>> \notin before
          /\ list[i] \in U /\ list[j] \in U /\ x \in U
      BY <1>1
    <3>5. <<list[i], list[j]>> \notin before
      BY <1>1, <3>3, <3>4 DEF InOrder
    <3>6. <<x, list[j]>> \notin before
      BY <3>4, <3>5 DEF WeakOrder
    <3>7. QED
      BY <1>1, <3>6
  <2> HIDE DEF A
  <2>3. QED
    BY <1>1, <2>1, <2>2, FirstSegment
<1>3. t = InsertAt(list, k + 1, x)
  BY DEF Placed
<1>4. \A i \in 1..l : i <= k <=> <<x, list[i]>> \notin before
  BY <1>1, <1>2
<1> HIDE DEF A, k, t, l
<1>5. /\ t \in Seq(S) /\ Len(t) = l + 1
      /\ \A j \in 1..(l + 1) : t[j] =
           IF j <= k THEN list[j] ELSE IF j = k + 1 THEN x ELSE list[j - 1]
  <2>1. k \in 0..Len(list)
    BY <1>2 DEF l
  <2>2. /\ InsertAt(list, k + 1, x) \in Seq(S)
        /\ Len(InsertAt(list, k + 1, x)) = Len(list) + 1
        /\ \A j \in 1..(Len(list) + 1) : InsertAt(list, k + 1, x)[j] =
             IF j <= k THEN list[j] ELSE IF j = k + 1 THEN x ELSE list[j - 1]
    BY <2>1, InsertAtIs
  <2>3. QED
    BY <1>3, <2>2, Zenon DEF l
<1>6. /\ DOMAIN t = 1..(l + 1)
      /\ \A i \in 1..(l + 1) : t[i] \in ToSet(t)
      /\ \A y \in ToSet(t) : \E i \in 1..(l + 1) : t[i] = y
  BY <1>5, SetOf
\* The entry of the list that each place now holds.
<1> DEFINE from(j) == IF j <= k THEN j ELSE j - 1
<1>7. \A j \in 1..(l + 1) : j # k + 1 => from(j) \in 1..l /\ t[j] = list[from(j)]
  BY <1>1, <1>2, <1>5
<1>8. /\ \A i, j \in 1..(l + 1) : i # k + 1 /\ j # k + 1 /\ i < j => from(i) < from(j)
      /\ \A i \in 1..(l + 1) : i # k + 1 => (from(i) <= k <=> i < k + 1)
      /\ k + 1 \in 1..(l + 1) /\ t[k + 1] = x
  BY <1>1, <1>2, <1>5
<1>9. \A i \in 1..l : \E j \in 1..(l + 1) : j # k + 1 /\ from(j) = i
  <2>1. TAKE i \in 1..l
  <2>2. CASE i <= k
    <3>1. i \in 1..(l + 1) /\ i # k + 1 /\ from(i) = i
      BY <1>1, <1>2, <2>2
    <3>2. QED
      BY <3>1
  <2>3. CASE ~(i <= k)
    <3>1. i + 1 \in 1..(l + 1) /\ i + 1 # k + 1 /\ from(i + 1) = i
      BY <1>1, <1>2, <2>3
    <3>2. QED
      BY <3>1
  <2>4. QED
    BY <2>2, <2>3
<1> HIDE DEF from
<1>10. InOrder(t, before)
  <2>1. ASSUME NEW i \in 1..(l + 1), NEW j \in 1..(l + 1), i < j
        PROVE  <<t[j], t[i]>> \notin before
    <3>1. CASE i # k + 1 /\ j # k + 1
      <4>1. from(i) < from(j) /\ from(i) \in 1..l /\ from(j) \in 1..l
        BY <1>7, <1>8, <2>1, <3>1
      <4>2. <<list[from(j)], list[from(i)]>> \notin before
        BY <1>1, <4>1 DEF InOrder
      <4>3. QED
        BY <1>7, <3>1, <4>2
    <3>2. CASE i = k + 1 /\ j # k + 1
      <4>1. from(j) \in 1..l /\ t[j] = list[from(j)] /\ ~(j < k + 1)
        BY <1>2, <1>7, <2>1, <3>2
      <4>2. <<x, list[from(j)]>> \in before /\ list[from(j)] \in U
        BY <1>1, <1>4, <1>8, <3>2, <4>1
      <4>3. <<list[from(j)], x>> \notin before
        BY <4>2 DEF WeakOrder
      <4>4. QED
        BY <1>8, <3>2, <4>1, <4>3
    <3>3. CASE i # k + 1 /\ j = k + 1
      <4>1. from(i) \in 1..l /\ t[i] = list[from(i)] /\ from(i) <= k
        BY <1>7, <1>8, <2>1, <3>3
      <4>2. <<x, list[from(i)]>> \notin before
        BY <1>4, <4>1
      <4>3. QED
        BY <1>8, <3>3, <4>1, <4>2
    <3>4. QED
      BY <1>1, <1>2, <2>1, <3>1, <3>2, <3>3
  <2>2. QED
    BY <1>6, <2>1 DEF InOrder
<1>11. \A y : y \in ToSet(t) <=> y = x \/ y \in ToSet(list)
  <2>1. ASSUME NEW y \in ToSet(t) PROVE y = x \/ y \in ToSet(list)
    <3>1. PICK i \in 1..(l + 1) : t[i] = y
      BY <1>6
    <3>2. CASE i = k + 1
      BY <1>8, <3>1, <3>2
    <3>3. CASE i # k + 1
      BY <1>1, <1>7, <3>1, <3>3
    <3>4. QED
      BY <3>2, <3>3
  <2>2. ASSUME NEW y \in ToSet(list) PROVE y \in ToSet(t)
    <3>1. PICK i \in 1..l : list[i] = y
      BY <1>1
    <3>2. PICK j \in 1..(l + 1) : j # k + 1 /\ from(j) = i
      BY <1>9
    <3>3. t[j] = y
      BY <1>7, <3>1, <3>2
    <3>4. QED
      BY <1>6, <3>3
  <2>3. x \in ToSet(t)
    BY <1>6, <1>8
  <2>4. QED
    BY <2>1, <2>2, <2>3
<1>12. ASSUME Unique(list), \A y \in ToSet(list) : ~Same(x, y) PROVE Unique(t)
  <2>1. ASSUME NEW i \in 1..(l + 1), NEW j \in 1..(l + 1), Same(t[i], t[j]) PROVE i = j
    <3>1. CASE i # k + 1 /\ j # k + 1
      <4>1. from(i) \in 1..l /\ from(j) \in 1..l /\ Same(list[from(i)], list[from(j)])
        BY <1>7, <2>1, <3>1
      <4>2. from(i) = from(j)
        BY <1>1, <1>12, <4>1 DEF Unique
      <4>3. ~(i < j) /\ ~(j < i)
        BY <1>8, <3>1, <4>1, <4>2
      <4>4. QED
        BY <4>3
    <3>2. CASE i = k + 1 /\ j # k + 1
      BY <1>1, <1>7, <1>8, <1>12, <2>1, <3>2 DEF Same
    <3>3. CASE i # k + 1 /\ j = k + 1
      BY <1>1, <1>7, <1>8, <1>12, <2>1, <3>3 DEF Same
    <3>4. CASE i = k + 1 /\ j = k + 1
      BY <3>4
    <3>5. QED
      BY <3>1, <3>2, <3>3, <3>4
  <2>2. QED
    BY <1>6, <2>1 DEF Unique
<1>13. QED
  BY <1>5, <1>10, <1>11, <1>12 DEF t, l

\* The lists Sorted goes through: the n-th holds the first n entries.
Sorting(s, before) ==
  CHOOSE sorted : sorted = [n \in 0..Len(s) |->
    IF n = 0 THEN <<>> ELSE Placed(sorted[n - 1], s[n], before)]

LEMMA SortedBy ==
  ASSUME NEW s, NEW before
  PROVE  Sorted(s, before) = Sorting(s, before)[Len(s)]
BY DEF Sorted, Sorting

LEMMA SortingIs ==
  ASSUME NEW before, NEW S, NEW c \in Seq(S)
  PROVE  /\ Sorting(c, before)[0] = <<>>
         /\ \A n \in 1..Len(c) :
              Sorting(c, before)[n] = Placed(Sorting(c, before)[n - 1], c[n], before)
<1> DEFINE Goes(f, n) == f = [m \in 0..n |-> IF m = 0 THEN <<>> ELSE Placed(f[m - 1], c[m], before)]
           T == {n \in 0..Len(c) : ~ \E f : Goes(f, n)}
<1>1. Len(c) \in Nat
  BY LenProperties
<1>2. T = {}
  <2>1. SUFFICES ASSUME T # {} PROVE FALSE
    OBVIOUS
  <2>2. T \subseteq Nat
    BY <1>1
  <2>3. PICK n \in T : \A m \in T : n <= m
    BY <2>1, <2>2, LeastNumber
  <2>4. n \in 0..Len(c) /\ ~ \E f : Goes(f, n)
    BY <2>3
  <2>5. CASE n = 0
    <3> DEFINE f == [m \in 0..n |-> <<>>]
    <3>1. \A m \in 0..n : f[m] = IF m = 0 THEN <<>> ELSE Placed(f[m - 1], c[m], before)
      BY <2>5
    <3>2. DOMAIN f = 0..n /\ f = [m \in 0..n |-> f[m]]
      OBVIOUS
    <3> HIDE DEF f
    <3>3. Goes(f, n)
      BY <3>1, <3>2
    <3>4. QED
      BY <2>4, <3>3
  <2>6. CASE n # 0
    <3>1. n - 1 \in 0..Len(c) /\ n - 1 \notin T
      <4>1. n \in 1..Len(c) /\ n - 1 \in 0..Len(c) /\ ~(n <= n - 1)
        BY <1>1, <2>4, <2>6
      <4> HIDE DEF T
      <4>2. n - 1 \notin T
        BY <2>3, <4>1
      <4>3. QED
        BY <4>1, <4>2
    <3>2. PICK g : Goes(g, n - 1)
      BY <3>1
    <3> DEFINE f == [m \in 0..n |-> IF m = n THEN Placed(g[n - 1], c[n], before) ELSE g[m]]
    <3>3. \A m \in 0..(n - 1) : g[m] = IF m = 0 THEN <<>> ELSE Placed(g[m - 1], c[m], before)
      BY <3>2
    <3>4. \A m \in 0..n : f[m] = IF m = 0 THEN <<>> ELSE Placed(f[m - 1], c[m], before)
      <4>1. TAKE m \in 0..n
      <4>2. CASE m = n
        <5>1. f[m] = Placed(g[n - 1], c[n], before) /\ f[m - 1] = g[n - 1]
          BY <1>1, <2>4, <2>6, <4>2
        <5>2. QED
          BY <2>6, <4>2, <5>1
      <4>3. CASE m # n /\ m # 0
        <5>1. f[m] = g[m] /\ f[m - 1] = g[m - 1] /\ m \in 0..(n - 1)
          BY <1>1, <2>4, <4>3
        <5>2. QED
          BY <3>3, <4>3, <5>1
      <4>4. CASE m # n /\ m = 0
        <5>1. f[m] = g[m] /\ m \in 0..(n - 1)
          BY <1>1, <2>4, <4>4
        <5>2. QED
          BY <3>3, <4>4, <5>1
      <4>5. QED
        BY <4>2, <4>3, <4>4
    <3>5. DOMAIN f = 0..n /\ f = [m \in 0..n |-> f[m]]
      OBVIOUS
    <3> HIDE DEF f
    <3>6. Goes(f, n)
      BY <3>4, <3>5
    <3>7. QED
      BY <2>4, <3>6
  <2>7. QED
    BY <2>5, <2>6
<1>3. \E f : Goes(f, Len(c))
  BY <1>1, <1>2
<1>4. Goes(Sorting(c, before), Len(c))
  BY <1>3 DEF Sorting
<1> DEFINE f == Sorting(c, before)
<1>5. f = [m \in 0..Len(c) |-> IF m = 0 THEN <<>> ELSE Placed(f[m - 1], c[m], before)]
  BY <1>4
<1> HIDE DEF f
<1>6. \A m \in 0..Len(c) : f[m] = IF m = 0 THEN <<>> ELSE Placed(f[m - 1], c[m], before)
  BY <1>5
<1>7. 0 \in 0..Len(c) /\ \A n \in 1..Len(c) : n \in 0..Len(c) /\ n # 0
  BY <1>1
<1>8. QED
  BY <1>6, <1>7 DEF f

\* What the first n entries have become.
SortedWell(S, s, before, n) ==
  LET t == Sorting(s, before)[n]
  IN  /\ t \in Seq(S) /\ Len(t) = n /\ InOrder(t, before)
      /\ \A y : y \in ToSet(t) <=> \E k \in 1..n : y = s[k]
      /\ Unique(s) => Unique(t)

LEMMA SortingKeeps ==
  ASSUME NEW S, NEW s \in Seq(S), NEW before, WeakOrder(before, ToSet(s))
  PROVE  \A n \in 0..Len(s) : SortedWell(S, s, before, n)
<1> DEFINE T == {n \in 0..Len(s) : ~SortedWell(S, s, before, n)}
<1>1. /\ Len(s) \in Nat /\ DOMAIN s = 1..Len(s)
      /\ \A i \in 1..Len(s) : s[i] \in S /\ s[i] \in ToSet(s)
  BY SetOf
<1>2. SUFFICES ASSUME T # {} PROVE FALSE
  OBVIOUS
<1>3. T \subseteq Nat
  BY <1>1
<1>4. PICK n \in T : \A m \in T : n <= m
  BY <1>2, <1>3, LeastNumber
<1>5. n \in 0..Len(s) /\ ~SortedWell(S, s, before, n)
  BY <1>4
<1>6. CASE n = 0
  <2>1. Sorting(s, before)[n] = <<>> /\ 1..n = {}
    BY <1>6, SortingIs
  <2>2. <<>> \in Seq(S) /\ Len(<<>>) = 0 /\ DOMAIN <<>> = {} /\ ToSet(<<>>) = {}
    BY DEF ToSet
  <2>3. QED
    BY <1>5, <1>6, <2>1, <2>2 DEF SortedWell, InOrder, Unique
<1>7. CASE n # 0
  <2>1. n \in 1..Len(s) /\ n - 1 \in 0..Len(s) /\ ~(n <= n - 1)
    BY <1>1, <1>5, <1>7
  <2>2. SortedWell(S, s, before, n - 1)
    <3> HIDE DEF T
    <3>1. n - 1 \notin T
      BY <1>4, <2>1
    <3>2. QED
      BY <2>1, <3>1 DEF T
  <2> DEFINE p == Sorting(s, before)[n - 1]
             t == Sorting(s, before)[n]
  <2>3. t = Placed(p, s[n], before)
    BY <2>1, SortingIs
  <2>4. /\ p \in Seq(S) /\ Len(p) = n - 1 /\ InOrder(p, before)
        /\ \A y : y \in ToSet(p) <=> \E k \in 1..(n - 1) : y = s[k]
        /\ Unique(s) => Unique(p)
    BY <2>2 DEF SortedWell
  <2> HIDE DEF p, t
  <2>5. s[n] \in S /\ s[n] \in ToSet(s) /\ ToSet(p) \subseteq ToSet(s)
    <3>1. \A k \in 1..(n - 1) : k \in 1..Len(s)
      BY <1>1, <2>1
    <3>2. QED
      BY <1>1, <2>1, <2>4, <3>1
  <2>6. /\ t \in Seq(S) /\ Len(t) = (n - 1) + 1 /\ InOrder(t, before)
        /\ \A y : y \in ToSet(t) <=> y = s[n] \/ y \in ToSet(p)
        /\ Unique(p) /\ (\A y \in ToSet(p) : ~Same(s[n], y)) => Unique(t)
    BY <2>3, <2>4, <2>5, PlacedIs
  <2>7. n \in 1..n /\ (\A k \in 1..n : k = n \/ k \in 1..(n - 1))
        /\ (\A k \in 1..(n - 1) : k \in 1..n)
    BY <2>1
  <2>8. \A y : y \in ToSet(t) <=> \E k \in 1..n : y = s[k]
    BY <2>4, <2>6, <2>7
  <2>9. ASSUME Unique(s) PROVE Unique(t)
    <3>1. ASSUME NEW y \in ToSet(p) PROVE ~Same(s[n], y)
      <4>1. PICK k \in 1..(n - 1) : y = s[k]
        BY <2>4
      <4>2. k \in 1..Len(s) /\ k # n
        BY <1>1, <2>1
      <4>3. QED
        BY <1>1, <2>1, <2>9, <4>1, <4>2 DEF Unique
    <3>2. QED
      BY <2>4, <2>6, <2>9, <3>1
  <2>10. (n - 1) + 1 = n
    BY <2>1
  <2>11. SortedWell(S, s, before, n)
    BY <2>6, <2>8, <2>9, <2>10 DEF SortedWell, t
  <2>12. QED
    BY <1>5, <2>11
<1>8. QED
  BY <1>6, <1>7

LEMMA SortedIs ==
  ASSUME NEW S, NEW s \in Seq(S), NEW before, WeakOrder(before, ToSet(s))
  PROVE  /\ Sorted(s, before) \in Seq(S) /\ Len(Sorted(s, before)) = Len(s)
         /\ InOrder(Sorted(s, before), before)
         /\ ToSet(Sorted(s, before)) = ToSet(s)
         /\ Unique(s) => Unique(Sorted(s, before))
<1>1. Len(s) \in Nat /\ \A y : y \in ToSet(s) <=> \E k \in 1..Len(s) : y = s[k]
  BY SetOf
<1>2. SortedWell(S, s, before, Len(s))
  BY <1>1, SortingKeeps
<1>3. QED
  BY <1>1, <1>2, SortedBy DEF SortedWell

-----------------------------------------------------------------------------
(* The entries of a result, and the orders of the lists.                   *)

Item == [kind : Kind, locator : Nat, status : (Type \ {"failure"}) \cup {"changed"}]

LEMMA FunctionAsSeq ==
  ASSUME NEW S, NEW n \in Nat, NEW f, f = [i \in 1..n |-> f[i]], \A i \in 1..n : f[i] \in S
  PROVE  f \in Seq(S) /\ Len(f) = n
<1>1. f \in [1..n -> S]
  OBVIOUS
<1>2. f \in Seq(S)
  BY <1>1, SeqDef
<1>3. Len(f) \in Nat /\ DOMAIN f = 1..Len(f) /\ DOMAIN f = 1..n
  BY <1>1, <1>2, LenProperties
<1>4. QED
  BY <1>2, <1>3

LEMMA EntryType ==
  ASSUME NEW type \in Type \ {"failure"}, NEW l \in Nat
  PROVE  /\ Entry(type, l) \in Item /\ Entry(type, l).status = type
         /\ Entry(type, l).locator = l /\ Entry(type, l).kind = KindOf(type, l)
<1>1. KindOf(type, l) \in Kind
  <2>1. CASE type \in {"read", "find", "search", "write"}
    BY <2>1 DEF KindOf, Kind
  <2>2. CASE type \in {"data", "extract", "list", "inspect"}
    BY <2>2 DEF KindOf, Kind
  <2>3. CASE type \in {"command", "note"}
    BY <2>3 DEF KindOf, Kind
  <2>4. QED
    BY <2>1, <2>2, <2>3 DEF Type
<1>2. QED
  BY <1>1 DEF Entry, Item

\* The entries of a result carry its type, or tell of a change, and a result
\* that reads has one entry.
LEMMA EntriesAre ==
  ASSUME NEW r \in Result
  PROVE  /\ Entries(r) \in Seq(Item) /\ Len(Entries(r)) \in 0..Batch
         /\ \A i \in 1..Len(Entries(r)) : Entries(r)[i].status \in {r.type, "changed"}
         /\ r.type = "failure" => Entries(r) = <<>>
         /\ r.type \in Reading =>
              /\ Len(Entries(r)) = 1
              /\ Entries(r)[1] = Entry(r.type, Head(r.on))
              /\ Head(r.on) \in Nat
<1>1. /\ r.type \in Type /\ r.on \in Seq(Nat) /\ Batch \in Nat \ {0}
      /\ r.type \notin MayBeEmpty => r.on # <<>>
      /\ r.type = "command" => Len(r.on) \in 1..Batch
  BY EvidenceAssumption
<1>2. /\ Len(r.on) \in Nat /\ \A i \in 1..Len(r.on) : r.on[i] \in Nat
      /\ r.on # <<>> => Head(r.on) \in Nat
  BY <1>1, LenProperties, ElementOfSeq, HeadTailProperties
<1>3. CASE r.type = "failure"
  <2>1. Entries(r) = <<>>
    BY <1>3 DEF Entries
  <2>2. <<>> \in Seq(Item) /\ Len(<<>>) = 0
    OBVIOUS
  <2>3. r.type \notin Reading
    BY <1>3 DEF Reading
  <2>4. QED
    BY <1>1, <2>1, <2>2, <2>3
<1>4. CASE r.type = "command"
  <2> DEFINE m == Len(r.on) - 1
             changed == [i \in 1..m |-> [kind |-> "file", locator |-> r.on[i + 1],
                                         status |-> "changed"]]
             first == Entry("command", Head(r.on))
  <2>1. Entries(r) = <<first>> \o changed
    BY <1>4 DEF Entries
  <2>2. first \in Item /\ first.status = "command"
    <3>1. Head(r.on) \in Nat
      BY <1>1, <1>2, <1>4 DEF MayBeEmpty
    <3>2. "command" \in Type \ {"failure"}
      BY DEF Type
    <3>3. QED
      BY <3>1, <3>2, EntryType
  <2>3. changed \in Seq(Item) /\ Len(changed) = m /\ m \in Nat
        /\ \A i \in 1..m : changed[i].status = "changed"
    <3>1. m \in Nat /\ \A i \in 1..m : r.on[i + 1] \in Nat
      <4>1. m \in Nat /\ \A i \in 1..m : i + 1 \in 1..Len(r.on)
        BY <1>1, <1>2, <1>4
      <4>2. QED
        BY <1>2, <4>1
    <3>2. \A i \in 1..m : changed[i] \in Item /\ changed[i].status = "changed"
      BY <3>1 DEF Item, Kind
    <3>3. changed = [i \in 1..m |-> changed[i]]
      OBVIOUS
    <3> HIDE DEF changed, m
    <3>4. QED
      BY <3>1, <3>2, <3>3, FunctionAsSeq
  <2>4. <<first>> \in Seq(Item) /\ Len(<<first>>) = 1 /\ <<first>>[1] = first
    BY <2>2
  <2>5. m + 1 = Len(r.on) /\ m + 1 \in 0..Batch
    BY <1>1, <1>2, <1>4
  <2> HIDE DEF changed, first, m
  <2>6. /\ <<first>> \o changed \in Seq(Item) /\ Len(<<first>> \o changed) = 1 + m
        /\ \A i \in 1..(1 + m) : (<<first>> \o changed)[i] =
             IF i <= 1 THEN <<first>>[i] ELSE changed[i - 1]
    BY <2>3, <2>4, ConcatProperties
  <2>7. \A i \in 1..(1 + m) : (<<first>> \o changed)[i].status \in {"command", "changed"}
    <3>1. TAKE i \in 1..(1 + m)
    <3>2. CASE i = 1
      BY <2>2, <2>3, <2>4, <2>6, <3>2
    <3>3. CASE i # 1
      <4>1. i - 1 \in 1..m /\ ~(i <= 1)
        BY <2>3, <3>3
      <4>2. QED
        BY <2>3, <2>6, <4>1
    <3>4. QED
      BY <3>2, <3>3
  <2>8. r.type \notin Reading
    BY <1>4 DEF Reading
  <2>9. 1 + m = m + 1
    BY <2>3
  <2>10. QED
    BY <1>4, <2>1, <2>5, <2>6, <2>7, <2>8, <2>9
<1>5. CASE r.type \in {"find", "search", "inspect"}
  <2> DEFINE n == IF Len(r.on) < Batch THEN Len(r.on) ELSE Batch
             f == [i \in 1..n |-> Entry(r.type, r.on[i])]
  <2>1. Entries(r) = f
    BY <1>5 DEF Entries
  <2>2. n \in 0..Batch /\ n \in Nat /\ \A i \in 1..n : r.on[i] \in Nat
    BY <1>1, <1>2
  <2> HIDE DEF n
  <2>3. r.type \in Type \ {"failure"} /\ r.type \notin Reading
    BY <1>5 DEF Type, Reading
  <2>4. \A i \in 1..n : f[i] \in Item /\ f[i].status = r.type
    BY <2>2, <2>3, EntryType
  <2>5. f = [i \in 1..n |-> f[i]]
    OBVIOUS
  <2> HIDE DEF f
  <2>6. f \in Seq(Item) /\ Len(f) = n
    BY <2>2, <2>4, <2>5, FunctionAsSeq
  <2>7. QED
    BY <2>1, <2>2, <2>3, <2>4, <2>6
<1>6. CASE r.type \notin {"failure", "command", "find", "search", "inspect"}
  <2> DEFINE e == Entry(r.type, Head(r.on))
  <2>1. Entries(r) = <<e>>
    BY <1>6 DEF Entries
  <2>2. Head(r.on) \in Nat /\ r.type \in Type \ {"failure"}
    BY <1>1, <1>2, <1>6 DEF MayBeEmpty
  <2>3. e \in Item /\ e.status = r.type
    BY <2>2, EntryType
  <2> HIDE DEF e
  <2>4. <<e>> \in Seq(Item) /\ Len(<<e>>) = 1 /\ <<e>>[1] = e
    BY <2>3
  <2>5. 1 \in 0..Batch
    BY <1>1
  <2>6. \A i \in 1..1 : i = 1
    OBVIOUS
  <2>7. \A i \in 1..Len(Entries(r)) : Entries(r)[i].status = r.type
    BY <2>1, <2>3, <2>4, <2>6
  <2>8. QED
    BY <1>6, <2>1, <2>2, <2>4, <2>5, <2>7 DEF e
<1>7. QED
  BY <1>3, <1>4, <1>5, <1>6

LEMMA RefsOfType ==
  ASSUME NEW r \in Result
  PROVE  RefsOf(r) \in Seq(RefItem) /\ Len(RefsOf(r)) \in Nat
<1>1. CASE r.type = "note"
  <2>1. RefsOf(r) = <<>>
    BY <1>1 DEF RefsOf
  <2>2. QED
    BY <2>1
<1>2. CASE r.type # "note"
  <2> DEFINE e == Entries(r)
  <2>1. /\ e \in Seq(Item) /\ \A i \in 1..Len(e) : e[i].status \in {r.type, "changed"}
        /\ r.type = "failure" => e = <<>>
    BY EntriesAre
  <2> HIDE DEF e
  <2>2. /\ Len(e) \in Nat /\ DOMAIN e = 1..Len(e) /\ \A i \in 1..Len(e) : e[i] \in Item
        /\ e = [i \in 1..Len(e) |-> e[i]]
    <3>1. Len(e) \in Nat /\ DOMAIN e = 1..Len(e) /\ e \in [1..Len(e) -> Item]
      BY <2>1, LenProperties
    <3>2. QED
      BY <3>1
  <2>3. r.type = "failure" => Len(e) = 0
    BY <2>1
  <2>4. \A i \in 1..Len(e) : r.type # "failure"
    BY <2>3
  <2>5. \A i \in 1..Len(e) : e[i] \in RefItem
    BY <1>2, <2>1, <2>2, <2>4 DEF Item, RefItem
  <2>6. RefsOf(r) = e
    BY <1>2 DEF RefsOf, e
  <2>7. e \in Seq(RefItem)
    BY <2>2, <2>5, FunctionAsSeq
  <2>8. QED
    BY <2>2, <2>6, <2>7
<1>3. QED
  BY <1>1, <1>2

LEMMA SourcesOfAre ==
  ASSUME NEW r \in Result, NEW now \in Nat
  PROVE  LET c == SourcesOf(r, now)
             e == Entries(r)
         IN  /\ c \in Seq(Source) /\ Len(c) = Len(e)
             /\ \A i \in 1..Len(e) : /\ Same(c[i], e[i]) /\ Same(e[i], c[i])
                                     /\ c[i].status = e[i].status /\ c[i].used = now
<1> DEFINE e == Entries(r)
           c == [i \in 1..Len(e) |-> [kind |-> e[i].kind, locator |-> e[i].locator,
                                      status |-> e[i].status, used |-> now]]
<1>1. e \in Seq(Item)
  BY EntriesAre
<1>2. SourcesOf(r, now) = [i \in DOMAIN e |->
        [kind |-> e[i].kind, locator |-> e[i].locator, status |-> e[i].status, used |-> now]]
  BY DEF SourcesOf
<1> HIDE DEF e
<1>3. Len(e) \in Nat /\ DOMAIN e = 1..Len(e) /\ \A i \in 1..Len(e) : e[i] \in Item
  BY <1>1, LenProperties, ElementOfSeq
<1>4. SourcesOf(r, now) = c
  BY <1>2, <1>3
<1>5. \A i \in 1..Len(e) : /\ c[i] \in Source /\ Same(c[i], e[i]) /\ Same(e[i], c[i])
                           /\ c[i].status = e[i].status /\ c[i].used = now
  BY <1>3 DEF Item, Source, Same
<1>6. c = [i \in 1..Len(e) |-> c[i]]
  OBVIOUS
<1> HIDE DEF c
<1>7. c \in Seq(Source) /\ Len(c) = Len(e)
  BY <1>3, <1>5, <1>6, FunctionAsSeq
<1>8. QED
  BY <1>4, <1>5, <1>7 DEF e

LEMMA Ranks ==
  /\ \A x \in RefItem : RefRank(x.status) \in Nat /\ x.locator \in Nat
  /\ \A x \in Source : /\ SourceRank(x.status) \in Nat /\ x.locator \in Nat /\ x.used \in Nat
                       /\ SourceRank(x.status) <= 44
                       /\ SourceRank(x.status) = 44 <=> x.status \in Reading
<1>1. \A s \in (Type \ {"note", "failure"}) \cup {"changed"} : RefRank(s) \in Nat
  BY DEF RefRank, Type, Reading
<1>2. \A s \in (Type \ {"failure"}) \cup {"changed"} :
        SourceRank(s) \in Nat /\ SourceRank(s) <= 44 /\ (SourceRank(s) = 44 <=> s \in Reading)
  BY DEF SourceRank, Type, Reading
<1>3. QED
  BY <1>1, <1>2 DEF RefItem, Source

LEMMA RefOrderIs ==
  ASSUME NEW list \in Seq(RefItem)
  PROVE  WeakOrder(RefOrder(list), ToSet(list))
<1>1. \A x \in ToSet(list) : RefRank(x.status) \in Nat /\ x.locator \in Nat
  BY SetOf, Ranks
<1>2. \A x, y \in ToSet(list) : <<x, y>> \in RefOrder(list) <=> RefBefore(x, y)
  BY DEF RefOrder
<1>3. \A x, y \in ToSet(list) : RefBefore(x, y) => ~RefBefore(y, x)
  BY <1>1 DEF RefBefore
<1>4. \A x, y, z \in ToSet(list) : RefBefore(x, y) => RefBefore(x, z) \/ RefBefore(z, y)
  BY <1>1 DEF RefBefore
<1>5. QED
  BY <1>2, <1>3, <1>4 DEF WeakOrder

LEMMA SourceOrderIs ==
  ASSUME NEW list \in Seq(Source)
  PROVE  WeakOrder(SourceOrder(list), ToSet(list))
<1>1. \A x \in ToSet(list) :
        SourceRank(x.status) \in Nat /\ x.locator \in Nat /\ x.used \in Nat
  BY SetOf, Ranks
<1>2. \A x, y \in ToSet(list) : <<x, y>> \in SourceOrder(list) <=> SourceBefore(x, y)
  BY DEF SourceOrder
<1>3. \A x, y \in ToSet(list) : SourceBefore(x, y) => ~SourceBefore(y, x)
  BY <1>1 DEF SourceBefore
<1>4. \A x, y, z \in ToSet(list) :
        SourceBefore(x, y) => SourceBefore(x, z) \/ SourceBefore(z, y)
  BY <1>1 DEF SourceBefore
<1>5. QED
  BY <1>2, <1>3, <1>4 DEF WeakOrder

\* What is cut off a list is not before anything that is kept.
LEMMA CutIs ==
  ASSUME NEW S, NEW list \in Seq(S), NEW before, WeakOrder(before, ToSet(list)),
         NEW n \in Nat \ {0}
  PROVE  LET t == FirstOf(Sorted(list, before), n)
         IN  /\ t \in Seq(S) /\ Len(t) <= n
             /\ ToSet(t) \subseteq ToSet(list)
             /\ Unique(list) => Unique(t)
             /\ \A x \in ToSet(list) \ ToSet(t) :
                  Len(t) = n /\ \A i \in 1..n : <<x, t[i]>> \notin before
<1> DEFINE s == Sorted(list, before)
           t == FirstOf(s, n)
<1>1. /\ s \in Seq(S) /\ InOrder(s, before) /\ ToSet(s) = ToSet(list)
      /\ Unique(list) => Unique(s)
  BY SortedIs
<1> HIDE DEF s
<1>2. /\ Len(s) \in Nat /\ DOMAIN s = 1..Len(s)
      /\ \A i \in 1..Len(s) : s[i] \in ToSet(s)
      /\ \A x \in ToSet(s) : \E i \in 1..Len(s) : s[i] = x
  BY <1>1, SetOf
<1>3. /\ t \in Seq(S) /\ Len(t) = IF Len(s) > n THEN n ELSE Len(s)
      /\ \A i \in 1..Len(t) : i \in 1..Len(s) /\ t[i] = s[i]
      /\ \A i \in 1..Len(s) : i <= n => s[i] \in ToSet(t)
      /\ \A x \in ToSet(t) : \E i \in 1..Len(s) : i <= n /\ s[i] = x
  BY <1>1, FirstOfIs
<1> HIDE DEF t
<1>4. DOMAIN t = 1..Len(t) /\ Len(t) \in Nat /\ Len(t) <= n
  BY <1>2, <1>3, LenProperties
<1>5. ToSet(t) \subseteq ToSet(list)
  BY <1>1, <1>2, <1>3
<1>6. ASSUME Unique(list) PROVE Unique(t)
  BY <1>1, <1>2, <1>3, <1>4, <1>6 DEF Unique
<1>7. ASSUME NEW x \in ToSet(list) \ ToSet(t)
      PROVE  Len(t) = n /\ \A i \in 1..n : <<x, t[i]>> \notin before
  <2>1. PICK j \in 1..Len(s) : s[j] = x
    BY <1>1, <1>2
  <2>2. j \in Nat /\ j <= Len(s) /\ ~(j <= n)
    BY <1>2, <1>3, <2>1
  <2>3. Len(t) = n
    <3>1. Len(s) > n
      BY <1>2, <2>2
    <3>2. QED
      BY <1>3, <3>1
  <2>4. ASSUME NEW i \in 1..n PROVE <<x, t[i]>> \notin before
    <3>1. i \in 1..Len(s) /\ t[i] = s[i]
      BY <1>3, <2>3
    <3>2. i < j
      BY <2>2
    <3>3. QED
      BY <1>1, <1>2, <2>1, <3>1, <3>2 DEF InOrder
  <2>5. QED
    BY <2>3, <2>4
<1>8. QED
  BY <1>3, <1>4, <1>5, <1>6, <1>7 DEF t, s

-----------------------------------------------------------------------------
(* The history.                                                            *)

\* Where the entries of a list without x were: none is x, all others are there,
\* in the same order, and none moved by more than one place.
LEMMA WithoutIs ==
  ASSUME NEW S, NEW list \in Seq(S), Unique(list), NEW x
  PROVE  LET t == Without(list, x)
         IN  /\ t \in Seq(S) /\ Len(t) \in Nat
             /\ \E from \in [1..Len(t) -> 1..Len(list)] :
                  /\ \A i \in 1..Len(t) :
                       /\ t[i] = list[from[i]] /\ ~Same(list[from[i]], x)
                       /\ Len(list) - from[i] <= Len(t) + 1 - i
                  /\ \A i, j \in 1..Len(t) : i < j => from[i] < from[j]
                  /\ \A i \in 1..Len(list) : ~Same(list[i], x) => \E j \in 1..Len(t) : from[j] = i
<1> DEFINE known == {i \in DOMAIN list : Same(list[i], x)}
           t == Without(list, x)
           l == Len(list)
<1>1. l \in Nat /\ DOMAIN list = 1..l
  BY LenProperties
<1>2. CASE known = {}
  <2> DEFINE from == [i \in 1..l |-> i]
  <2>1. t = list
    BY <1>2 DEF Without
  <2>2. from \in [1..l -> 1..l] /\ \A i \in 1..l : from[i] = i /\ ~Same(list[i], x)
    BY <1>1, <1>2
  <2> HIDE DEF from, t, known
  <2>3. \A i \in 1..l : Len(list) - from[i] <= l + 1 - i
    BY <1>1, <2>2
  <2>4. QED
    BY <1>1, <2>1, <2>2, <2>3 DEF t
<1>3. CASE known # {}
  <2> DEFINE m == Min(known)
             from == [i \in 1..(l - 1) |-> IF i < m THEN i ELSE i + 1]
  <2>1. m \in 1..l /\ Same(list[m], x)
    <3>1. known \subseteq Nat
      BY <1>1
    <3>2. m \in known
      BY <1>3, <3>1, MinIs
    <3>3. QED
      BY <1>1, <3>2
  <2>2. t = RemoveAt(list, m)
    BY <1>3 DEF Without
  <2> HIDE DEF m, t, known, l
  <2>3. \A i \in 1..l : i # m => ~Same(list[i], x)
    <3>1. ASSUME NEW i \in 1..l, Same(list[i], x) PROVE i = m
      <4>1. Same(list[i], list[m])
        BY <2>1, <3>1 DEF Same
      <4>2. QED
        BY <1>1, <2>1, <4>1 DEF Unique
    <3>2. QED
      BY <3>1
  <2>4. /\ t \in Seq(S) /\ Len(t) = l - 1
        /\ \A j \in 1..(l - 1) : t[j] = IF j < m THEN list[j] ELSE list[j + 1]
    BY <2>1, <2>2, RemoveAtIs DEF l
  <2>5. /\ from \in [1..(l - 1) -> 1..l]
        /\ \A i \in 1..(l - 1) : from[i] = IF i < m THEN i ELSE i + 1
    BY <1>1, <2>1
  <2> HIDE DEF from
  <2>6. ASSUME NEW i \in 1..(l - 1)
        PROVE  /\ from[i] # m /\ from[i] \in 1..l /\ t[i] = list[from[i]]
               /\ l - from[i] <= (l - 1) + 1 - i
    <3>1. from[i] = (IF i < m THEN i ELSE i + 1) /\ from[i] \in 1..l
      BY <2>5
    <3>2. t[i] = IF i < m THEN list[i] ELSE list[i + 1]
      BY <2>4
    <3>3. t[i] = list[from[i]]
      BY <3>1, <3>2
    <3>4. from[i] # m /\ l - from[i] <= (l - 1) + 1 - i
      BY <1>1, <2>1, <3>1
    <3>5. QED
      BY <3>1, <3>3, <3>4
  <2>7. \A i, j \in 1..(l - 1) : i < j => from[i] < from[j]
    BY <1>1, <2>1, <2>5
  <2>8. ASSUME NEW i \in 1..l, i # m PROVE \E j \in 1..(l - 1) : from[j] = i
    <3>1. CASE i < m
      <4>1. i \in 1..(l - 1) /\ from[i] = i
        BY <1>1, <2>1, <2>5, <3>1
      <4>2. QED
        BY <4>1
    <3>2. CASE ~(i < m)
      <4>1. i - 1 \in 1..(l - 1) /\ from[i - 1] = i
        BY <1>1, <2>1, <2>5, <2>8, <3>2
      <4>2. QED
        BY <4>1
    <3>3. QED
      BY <3>1, <3>2
  <2>9. \A i \in 1..l : ~Same(list[i], x) => \E j \in 1..(l - 1) : from[j] = i
    BY <2>1, <2>8
  <2>10. /\ from \in [1..Len(t) -> 1..l]
         /\ \A i \in 1..Len(t) :
              /\ t[i] = list[from[i]] /\ ~Same(list[from[i]], x)
              /\ l - from[i] <= Len(t) + 1 - i
         /\ \A i, j \in 1..Len(t) : i < j => from[i] < from[j]
         /\ \A i \in 1..l : ~Same(list[i], x) => \E j \in 1..Len(t) : from[j] = i
    <3>1. l - 1 = Len(t)
      BY <2>4
    <3>2. QED
      BY <2>3, <2>5, <2>6, <2>7, <2>9, <3>1
  <2>11. t \in Seq(S) /\ Len(t) \in Nat
    BY <2>4, LenProperties
  <2>12. QED
    BY <2>10, <2>11 DEF t, l
<1>4. QED
  BY <1>2, <1>3

LEMMA MarkedIs ==
  ASSUME NEW list \in Seq(ReadItem), NEW S, NEW e \in Seq(S)
  PROVE  LET t == Marked(list, e)
         IN  /\ t \in Seq(ReadItem) /\ Len(t) = Len(list)
             /\ \A i \in 1..Len(list) :
                  /\ t[i].locator = list[i].locator /\ t[i].kind = list[i].kind
                  /\ t[i].status # "touched" =>
                       list[i].status # "touched" /\ \A k \in 1..Len(e) : ~Same(list[i], e[k])
                  /\ list[i].status # "touched" /\ (\A k \in 1..Len(e) : ~Same(list[i], e[k]))
                       => t[i].status # "touched"
<1> DEFINE Hit(i) == \E y \in ToSet(e) : Same(list[i], y)
           t == Marked(list, e)
<1>1. /\ Len(list) \in Nat /\ DOMAIN list = 1..Len(list)
      /\ \A i \in 1..Len(list) : list[i] \in ReadItem
  BY LenProperties, ElementOfSeq
<1>2. t = [i \in 1..Len(list) |-> IF Hit(i) THEN [list[i] EXCEPT !.status = "touched"] ELSE list[i]]
  BY <1>1 DEF Marked
<1>3. \A i \in 1..Len(list) : Hit(i) <=> \E k \in 1..Len(e) : Same(list[i], e[k])
  BY SetOf
<1> HIDE DEF Hit
<1>4. \A i \in 1..Len(list) :
        t[i] = IF Hit(i) THEN [list[i] EXCEPT !.status = "touched"] ELSE list[i]
  BY <1>2
<1>5. t = [i \in 1..Len(list) |-> t[i]]
  BY <1>2
<1> HIDE DEF t
<1>6. \A i \in 1..Len(list) :
        /\ t[i] \in ReadItem
        /\ t[i].locator = list[i].locator /\ t[i].kind = list[i].kind
        /\ t[i].status = IF Hit(i) THEN "touched" ELSE list[i].status
  BY <1>1, <1>4 DEF ReadItem
<1>7. t \in Seq(ReadItem) /\ Len(t) = Len(list)
  BY <1>1, <1>5, <1>6, FunctionAsSeq
<1>8. QED
  BY <1>3, <1>6, <1>7 DEF t

-----------------------------------------------------------------------------
(* Types.                                                                  *)

\* The bounds are numbers above zero.
LEMMA Bounds ==
  /\ Batch \in Nat \ {0} /\ MaxRefs \in Nat \ {0} /\ KeepRefs \in Nat \ {0}
  /\ MaxSources \in Nat \ {0} /\ KeepSources \in Nat \ {0} /\ MaxSteps \in Nat \ {0}
  /\ KeepSources + Batch <= MaxSources
BY EvidenceAssumption

LEMMA InitTypes == Init => TypeInv
<1> SUFFICES ASSUME Init PROVE TypeInv
  OBVIOUS
<1> USE DEF Init
<1>1. step \in 0..MaxSteps /\ recent \in 0..6
  BY Bounds
<1>2. \A S : <<>> \in Seq(S) /\ Len(<<>>) = 0
  OBVIOUS
<1>3. DOMAIN <<>> = {} /\ ToSet(<<>>) = {}
  BY DEF ToSet
<1>4. Unique(<<>>)
  BY <1>3 DEF Unique
<1>5. last.type \in Type /\ last.compacted \in BOOLEAN
  BY DEF NoResult, Type
<1>6. Len(refs) <= IF last.compacted THEN KeepRefs ELSE MaxRefs
  BY <1>2, <1>5, Bounds
<1>7. Len(sources) <= KeepSources
  BY <1>2, Bounds
<1>8. QED
  BY <1>1, <1>2, <1>3, <1>4, <1>5, <1>6, <1>7 DEF TypeInv

\* The references a step has before a compaction.
LEMMA RefsMerged ==
  ASSUME NEW list \in Seq(RefItem), Unique(list), NEW c \in Seq(RefItem)
  PROVE  LET t == Merge(list, c, MaxRefs)
         IN  t \in Seq(RefItem) /\ Unique(t) /\ Len(t) <= MaxRefs
<1> DEFINE s == Merged(list, c)[Len(c)]
           t == Merge(list, c, MaxRefs)
<1>1. s \in Seq(RefItem) /\ Unique(s)
  <2>1. Len(c) \in Nat /\ Len(c) \in 0..Len(c)
    BY LenProperties
  <2>2. MergedWell(RefItem, list, c, Len(c))
    BY <2>1, Merging
  <2>3. QED
    BY <2>2 DEF MergedWell
<1>2. t = LastOf(s, MaxRefs)
  BY MergeIs
<1> HIDE DEF s, t
<1>3. /\ t \in Seq(RefItem) /\ Len(t) \in 0..MaxRefs
      /\ \A i \in 1..Len(t) : /\ i + (Len(s) - Len(t)) \in 1..Len(s)
                              /\ t[i] = s[i + (Len(s) - Len(t))]
  BY <1>1, <1>2, Bounds, LastOfIs
<1>4. DOMAIN t = 1..Len(t) /\ Len(t) \in Nat /\ Len(s) \in Nat /\ DOMAIN s = 1..Len(s)
  BY <1>1, <1>3, LenProperties
<1>5. ASSUME NEW i \in 1..Len(t), NEW j \in 1..Len(t), Same(t[i], t[j]) PROVE i = j
  <2> DEFINE d == Len(s) - Len(t)
  <2>1. i + d \in 1..Len(s) /\ j + d \in 1..Len(s) /\ Same(s[i + d], s[j + d])
    BY <1>3, <1>5
  <2>2. i + d = j + d
    BY <1>1, <1>4, <2>1 DEF Unique
  <2>3. d \in Int
    BY <1>4
  <2>4. QED
    BY <2>2, <2>3
<1>6. Len(t) <= MaxRefs
  BY <1>3, Bounds
<1>7. QED
  BY <1>3, <1>4, <1>5, <1>6 DEF Unique, t

\* The sources a step has before a compaction: none was drained.
LEMMA SourcesMerged ==
  ASSUME TypeInv, NEW r \in Result
  PROVE  LET c == SourcesOf(r, step + 2)
             t == Merge(sources, c, MaxSources)
         IN  /\ t \in Seq(Source) /\ Unique(t)
             /\ \A y \in ToSet(t) :
                  \/ y \in ToSet(sources) /\ \A k \in 1..Len(c) : ~Same(y, c[k])
                  \/ \E k \in 1..Len(c) : y = c[k]
             /\ \A y \in ToSet(sources) : (\A k \in 1..Len(c) : ~Same(y, c[k])) => y \in ToSet(t)
             /\ Len(c) > 0 => c[Len(c)] \in ToSet(t)
             /\ \A y \in ToSet(t) : y.used <= step + 2
<1> DEFINE c == SourcesOf(r, step + 2)
           s == Merged(sources, c)[Len(c)]
           t == Merge(sources, c, MaxSources)
<1>1. /\ step \in Nat /\ sources \in Seq(Source) /\ Unique(sources)
      /\ Len(sources) <= KeepSources /\ Len(sources) \in Nat
      /\ \A x \in ToSet(sources) : x.used <= step + 1 /\ x.used \in Nat
  <2>1. sources \in Seq(Source)
    BY DEF TypeInv
  <2>2. \A x \in ToSet(sources) : x.used \in Nat
    <3>1. \A x \in ToSet(sources) : x \in Source
      BY <2>1, SetOf
    <3>2. QED
      BY <3>1 DEF Source
  <2>3. QED
    BY <2>1, <2>2, Bounds, LenProperties DEF TypeInv
<1>2. /\ c \in Seq(Source) /\ Len(c) \in 0..Batch
      /\ \A k \in 1..Len(c) : c[k].used = step + 2
  <2>1. step + 2 \in Nat
    BY <1>1
  <2>2. QED
    BY <2>1, SourcesOfAre, EntriesAre
<1> HIDE DEF c
<1>3. MergedWell(Source, sources, c, Len(c))
  <2>1. Len(c) \in 0..Len(c)
    BY <1>2, Bounds
  <2>2. QED
    BY <1>1, <1>2, <2>1, Merging
<1>4. /\ s \in Seq(Source) /\ Unique(s) /\ Len(s) <= Len(sources) + Len(c)
      /\ \A y \in ToSet(s) : \/ y \in ToSet(sources) /\ \A k \in 1..Len(c) : ~Same(y, c[k])
                             \/ \E k \in 1..Len(c) : y = c[k]
      /\ \A y \in ToSet(sources) : (\A k \in 1..Len(c) : ~Same(y, c[k])) => y \in ToSet(s)
      /\ Len(c) > 0 => c[Len(c)] \in ToSet(s)
  BY <1>3 DEF MergedWell
<1>5. t = LastOf(s, MaxSources)
  BY MergeIs
<1> HIDE DEF s, t
<1>6. t = s
  <2>1. Len(s) \in Nat
    BY <1>4, LenProperties
  <2>2. Len(s) <= MaxSources
    BY <1>1, <1>2, <1>4, <2>1, Bounds
  <2>3. QED
    BY <1>4, <1>5, <2>2, Bounds, LastOfIs
<1>7. \A y \in ToSet(t) : y.used <= step + 2
  BY <1>1, <1>2, <1>4, <1>6
<1>8. QED
  BY <1>4, <1>6, <1>7 DEF c, t

\* What a step does to each variable.
LEMMA StepIs ==
  ASSUME TypeInv, NEW r \in Result, Step(r)
  PROVE  LET a == Merge(refs, RefsOf(r), MaxRefs)
             b == Merge(sources, SourcesOf(r, step + 2), MaxSources)
         IN  /\ step < MaxSteps /\ step' = step + 1 /\ recent' \in 0..6
             /\ last' = [type |-> r.type, on |-> r.on, compacted |-> last'.compacted]
             /\ last'.compacted \in BOOLEAN
             /\ reads' = Reread(r)
             /\ last'.compacted => /\ refs' = FirstOf(Sorted(a, RefOrder(a)), KeepRefs)
                                   /\ sources' = FirstOf(Sorted(b, SourceOrder(b)), KeepSources)
             /\ ~last'.compacted => refs' = a /\ sources' = b /\ ~(Len(b) > KeepSources)
<1> DEFINE a == Merge(refs, RefsOf(r), MaxRefs)
           b == Merge(sources, SourcesOf(r, step + 2), MaxSources)
           n == IF recent < 6 THEN recent + 1 ELSE 6
           s == [step |-> step + 1, recent |-> n, refs |-> a, sources |-> b]
<1>1. Recorded(r) = s
  BY DEF Recorded
<1>2. n \in 0..6
  BY DEF TypeInv
<1>3. PICK large \in BOOLEAN :
        LET compact == MustCompact(s, large)
            after == IF compact THEN Compacted(s) ELSE s
        IN  /\ step' = after.step /\ recent' = after.recent
            /\ refs' = after.refs /\ sources' = after.sources
            /\ last' = [type |-> r.type, on |-> r.on, compacted |-> compact]
  BY <1>1 DEF Step
<1>4. step < MaxSteps /\ reads' = Reread(r)
  BY DEF Step
<1> HIDE DEF a, b, n
<1>5. MustCompact(s, large) \in BOOLEAN /\ (~MustCompact(s, large) => ~(Len(b) > KeepSources))
  BY DEF MustCompact
<1>6. /\ Compacted(s).step = step + 1
      /\ Compacted(s).recent = IF n > 3 THEN 3 ELSE n
      /\ Compacted(s).refs = FirstOf(Sorted(a, RefOrder(a)), KeepRefs)
      /\ Compacted(s).sources = FirstOf(Sorted(b, SourceOrder(b)), KeepSources)
  BY DEF Compacted
<1>7. s.step = step + 1 /\ s.recent = n /\ s.refs = a /\ s.sources = b
  OBVIOUS
<1> HIDE DEF s
<1>8. CASE MustCompact(s, large)
  <2>1. /\ step' = step + 1 /\ recent' = IF n > 3 THEN 3 ELSE n
        /\ refs' = FirstOf(Sorted(a, RefOrder(a)), KeepRefs)
        /\ sources' = FirstOf(Sorted(b, SourceOrder(b)), KeepSources)
        /\ last' = [type |-> r.type, on |-> r.on, compacted |-> TRUE]
    BY <1>3, <1>6, <1>8
  <2>2. last'.compacted = TRUE /\ recent' \in 0..6
    BY <1>2, <2>1
  <2>3. QED
    BY <1>4, <2>1, <2>2 DEF a, b
<1>9. CASE ~MustCompact(s, large)
  <2>1. /\ step' = step + 1 /\ recent' = n /\ refs' = a /\ sources' = b
        /\ last' = [type |-> r.type, on |-> r.on, compacted |-> FALSE]
    BY <1>3, <1>5, <1>7, <1>9
  <2>2. last'.compacted = FALSE /\ recent' \in 0..6
    BY <1>2, <2>1
  <2>3. QED
    BY <1>4, <1>5, <1>9, <2>1, <2>2 DEF a, b
<1>10. QED
  BY <1>8, <1>9

\* The history a step leaves.
LEMMA ReadsTypes ==
  ASSUME TypeInv, NEW r \in Result
  PROVE  Reread(r) \in Seq(ReadItem) /\ Unique(Reread(r))
<1>1. reads \in Seq(ReadItem) /\ Unique(reads)
  BY DEF TypeInv
<1>2. Len(reads) \in Nat /\ DOMAIN reads = 1..Len(reads)
  BY <1>1, LenProperties
<1>3. CASE r.type \in Reading
  <2> DEFINE x == Entry(r.type, Head(r.on))
             s == Without(reads, x)
             t == Append(s, x)
  <2>1. Reread(r) = t
    BY <1>3 DEF Reread
  <2>2. x \in ReadItem
    <3>1. Head(r.on) \in Nat /\ r.type \in Type \ {"failure"}
      BY <1>3, EntriesAre DEF Reading, Type
    <3>2. x \in Item /\ x.status = r.type
      BY <3>1, EntryType
    <3> HIDE DEF x
    <3>3. QED
      BY <1>3, <3>2 DEF Item, ReadItem
  <2> HIDE DEF x
  <2>3. s \in Seq(ReadItem) /\ Len(s) \in Nat
    BY <1>1, WithoutIs
  <2>4. PICK from \in [1..Len(s) -> 1..Len(reads)] :
          /\ \A i \in 1..Len(s) : s[i] = reads[from[i]] /\ ~Same(reads[from[i]], x)
          /\ \A i, j \in 1..Len(s) : i < j => from[i] < from[j]
    BY <1>1, WithoutIs
  <2> HIDE DEF s
  <2>5. /\ t \in Seq(ReadItem) /\ Len(t) = Len(s) + 1
        /\ \A j \in 1..(Len(s) + 1) : t[j] = IF j <= Len(s) THEN s[j] ELSE x
    BY <2>2, <2>3, AppendIs
  <2>6. DOMAIN t = 1..(Len(s) + 1)
    BY <2>5, LenProperties
  <2> HIDE DEF t
  <2>7. ASSUME NEW i \in DOMAIN t, NEW j \in DOMAIN t, Same(t[i], t[j]) PROVE i = j
    <3>1. CASE i <= Len(s) /\ j <= Len(s)
      <4>1. i \in 1..Len(s) /\ j \in 1..Len(s) /\ t[i] = s[i] /\ t[j] = s[j]
        BY <2>3, <2>5, <2>6, <3>1
      <4>2. from[i] = from[j]
        <5>1. from[i] \in 1..Len(reads) /\ from[j] \in 1..Len(reads)
          BY <4>1
        <5>2. Same(reads[from[i]], reads[from[j]])
          BY <2>4, <2>7, <4>1
        <5>3. QED
          BY <1>1, <1>2, <5>1, <5>2 DEF Unique
      <4>3. ~(i < j) /\ ~(j < i)
        <5>1. from[i] \in Nat /\ ~(from[i] < from[j]) /\ ~(from[j] < from[i])
          BY <1>2, <4>1, <4>2
        <5>2. QED
          BY <2>4, <4>1, <5>1
      <4>4. QED
        BY <4>1, <4>3
    <3>2. CASE i <= Len(s) /\ ~(j <= Len(s))
      <4>1. i \in 1..Len(s) /\ t[i] = s[i] /\ t[j] = x
        BY <2>3, <2>5, <2>6, <3>2
      <4>2. QED
        BY <2>4, <2>7, <4>1
    <3>3. CASE ~(i <= Len(s)) /\ j <= Len(s)
      <4>1. j \in 1..Len(s) /\ t[j] = s[j] /\ t[i] = x
        BY <2>3, <2>5, <2>6, <3>3
      <4>2. Same(s[j], x)
        BY <2>7, <4>1 DEF Same
      <4>3. QED
        BY <2>4, <4>1, <4>2
    <3>4. CASE ~(i <= Len(s)) /\ ~(j <= Len(s))
      BY <2>3, <2>6, <3>4
    <3>5. QED
      BY <3>1, <3>2, <3>3, <3>4
  <2>8. QED
    BY <2>1, <2>5, <2>7 DEF Unique
<1>4. CASE r.type \notin Reading
  <2> DEFINE t == Marked(reads, Entries(r))
  <2>1. Reread(r) = t
    BY <1>4 DEF Reread
  <2>2. /\ t \in Seq(ReadItem) /\ Len(t) = Len(reads)
        /\ \A i \in 1..Len(reads) :
             t[i].locator = reads[i].locator /\ t[i].kind = reads[i].kind
    BY <1>1, MarkedIs, EntriesAre
  <2>3. DOMAIN t = 1..Len(reads)
    BY <2>2, LenProperties
  <2> HIDE DEF t
  <2>4. \A i, j \in 1..Len(reads) : Same(t[i], t[j]) => Same(reads[i], reads[j])
    BY <2>2 DEF Same
  <2>5. QED
    BY <1>1, <1>2, <2>1, <2>2, <2>3, <2>4 DEF Unique
<1>5. QED
  BY <1>3, <1>4

LEMMA TypesKept == TypeInv /\ [Next]_vars => TypeInv'
<1> SUFFICES ASSUME TypeInv, [Next]_vars PROVE TypeInv'
  OBVIOUS
<1>1. CASE Next
  <2>1. PICK r \in Result : Step(r)
    BY <1>1 DEF Next
  <2> DEFINE a == Merge(refs, RefsOf(r), MaxRefs)
             b == Merge(sources, SourcesOf(r, step + 2), MaxSources)
  <2>2. /\ step < MaxSteps /\ step' = step + 1 /\ recent' \in 0..6
        /\ last' = [type |-> r.type, on |-> r.on, compacted |-> last'.compacted]
        /\ last'.compacted \in BOOLEAN
        /\ reads' = Reread(r)
        /\ last'.compacted => /\ refs' = FirstOf(Sorted(a, RefOrder(a)), KeepRefs)
                              /\ sources' = FirstOf(Sorted(b, SourceOrder(b)), KeepSources)
        /\ ~last'.compacted => refs' = a /\ sources' = b /\ ~(Len(b) > KeepSources)
    BY <2>1, StepIs
  <2>3. a \in Seq(RefItem) /\ Unique(a) /\ Len(a) <= MaxRefs
    BY RefsMerged, RefsOfType DEF TypeInv
  <2>4. b \in Seq(Source) /\ Unique(b) /\ \A y \in ToSet(b) : y.used <= step + 2
    BY SourcesMerged
  <2> HIDE DEF a, b
  <2>5. last'.type \in Type
    <3>1. last'.type = r.type
      BY <2>2
    <3>2. QED
      BY <3>1, EvidenceAssumption
  <2>6. /\ refs' \in Seq(RefItem) /\ Unique(refs')
        /\ Len(refs') <= IF last'.compacted THEN KeepRefs ELSE MaxRefs
    <3>1. CASE last'.compacted
      <4>1. WeakOrder(RefOrder(a), ToSet(a))
        BY <2>3, RefOrderIs
      <4>2. QED
        BY <2>2, <2>3, <3>1, <4>1, Bounds, CutIs
    <3>2. CASE ~last'.compacted
      BY <2>2, <2>3, <3>2
    <3>3. QED
      BY <3>1, <3>2
  <2>7. /\ sources' \in Seq(Source) /\ Unique(sources') /\ Len(sources') <= KeepSources
        /\ ToSet(sources') \subseteq ToSet(b)
    <3>1. CASE last'.compacted
      <4>1. WeakOrder(SourceOrder(b), ToSet(b))
        BY <2>4, SourceOrderIs
      <4>2. QED
        BY <2>2, <2>4, <3>1, <4>1, Bounds, CutIs
    <3>2. CASE ~last'.compacted
      <4>1. Len(b) \in Nat
        BY <2>4, LenProperties
      <4>2. QED
        BY <2>2, <2>4, <3>2, <4>1, Bounds
    <3>3. QED
      BY <3>1, <3>2
  <2>8. step \in 0..MaxSteps /\ step' \in 0..MaxSteps /\ step' + 1 = step + 2
    BY <2>2, Bounds DEF TypeInv
  <2>9. \A x \in ToSet(sources') : x.used <= step' + 1
    BY <2>4, <2>7, <2>8
  <2>10. reads' \in Seq(ReadItem) /\ Unique(reads')
    BY <2>2, ReadsTypes
  <2>11. QED
    BY <2>2, <2>5, <2>6, <2>7, <2>8, <2>9, <2>10 DEF TypeInv, Unique
<1>2. CASE UNCHANGED vars
  BY <1>2 DEF vars, TypeInv, Unique
<1>3. QED
  BY <1>1, <1>2

LEMMA TypesImplied == TypeInv => TypeOK
<1> SUFFICES ASSUME TypeInv PROVE TypeOK
  OBVIOUS
<1>1. RefItem \subseteq [kind : Kind, locator : Nat, status : Type \cup {"changed"}]
  BY DEF RefItem
<1>2. refs \in Seq([kind : Kind, locator : Nat, status : Type \cup {"changed"}])
  BY <1>1, SeqMonotonic DEF TypeInv
<1>3. \A i \in DOMAIN sources : sources[i].used <= step + 1
  <2>1. sources \in Seq(Source) /\ \A x \in ToSet(sources) : x.used <= step + 1
    BY DEF TypeInv
  <2>2. QED
    BY <2>1, SetOf
<1>4. QED
  BY <1>2, <1>3 DEF TypeInv, TypeOK

LEMMA TypesAlways == Spec => []TypeInv
<1>1. QED
  BY InitTypes, TypesKept, PTL DEF Spec

\* At every moment the working sources fit in what a compaction keeps, and the
\* references in what a merge keeps: the growth of the sources is itself a
\* reason to compact, so that the drain of the oldest source, which knows no
\* rank, drops none.
THEOREM EvidenceTypes == Spec => []TypeOK
BY TypesAlways, TypesImplied, PTL

\* No artifact and no source is listed twice, whatever results named it, in
\* whatever order, and however often the lists were compacted.
THEOREM NothingTwice == Spec => []NoDuplicates
<1>1. TypeInv => NoDuplicates
  BY DEF TypeInv, NoDuplicates, Unique
<1>2. QED
  BY <1>1, TypesAlways, PTL

\* What a compaction drops from the references ranks no higher than anything it
\* keeps.
THEOREM BestReferencesKept == Spec => CompactionKeepsBest
<1> DEFINE Best == last'.compacted =>
                     \A x \in ToSet(Merge(refs, RefsOf(last'), MaxRefs)) \ ToSet(refs') :
                       \A y \in ToSet(refs') : RefRank(y.status) >= RefRank(x.status)
<1>1. ASSUME TypeInv, [Next]_vars PROVE [Best]_vars
  <2>1. SUFFICES ASSUME Next, last'.compacted PROVE Best
    BY <1>1
  <2>2. PICK r \in Result : Step(r)
    BY <2>1 DEF Next
  <2> DEFINE a == Merge(refs, RefsOf(r), MaxRefs)
             t == FirstOf(Sorted(a, RefOrder(a)), KeepRefs)
  <2>3. /\ refs' = t
        /\ last' = [type |-> r.type, on |-> r.on, compacted |-> last'.compacted]
    BY <1>1, <2>1, <2>2, StepIs
  <2>4. RefsOf(last') = RefsOf(r)
    <3>1. last'.type = r.type /\ last'.on = r.on
      BY <2>3
    <3>2. Entries(last') = Entries(r)
      BY <3>1 DEF Entries
    <3>3. QED
      BY <3>1, <3>2 DEF RefsOf
  <2>5. a \in Seq(RefItem)
    BY <1>1, RefsMerged, RefsOfType DEF TypeInv
  <2> HIDE DEF a
  <2>6. /\ t \in Seq(RefItem) /\ ToSet(t) \subseteq ToSet(a)
        /\ \A x \in ToSet(a) \ ToSet(t) :
             Len(t) = KeepRefs /\ \A i \in 1..KeepRefs : <<x, t[i]>> \notin RefOrder(a)
    <3>1. WeakOrder(RefOrder(a), ToSet(a))
      BY <2>5, RefOrderIs
    <3>2. QED
      BY <2>5, <3>1, Bounds, CutIs
  <2> HIDE DEF t
  <2>7. ASSUME NEW x \in ToSet(a) \ ToSet(t), NEW y \in ToSet(t)
        PROVE  RefRank(y.status) >= RefRank(x.status)
    <3>1. PICK i \in 1..Len(t) : t[i] = y
      BY <2>6, SetOf
    <3>2. <<x, y>> \notin RefOrder(a) /\ x \in ToSet(a) /\ y \in ToSet(a)
      BY <2>6, <2>7, <3>1
    <3>3. ~RefBefore(x, y)
      BY <3>2 DEF RefOrder
    <3>4. x \in RefItem /\ y \in RefItem
      BY <2>5, <3>2, SetOf
    <3>5. RefRank(x.status) \in Nat /\ RefRank(y.status) \in Nat
      BY <3>4, Ranks
    <3>6. QED
      BY <3>3, <3>5 DEF RefBefore
  <2>8. QED
    BY <2>3, <2>4, <2>7 DEF a
<1>2. TypeInv /\ [Next]_vars => [Best]_vars
  BY <1>1
<1>3. QED
  BY <1>2, TypesAlways, PTL DEF Spec, CompactionKeepsBest

-----------------------------------------------------------------------------
(* The recent reads.                                                       *)

LEMMA SameIs ==
  /\ \A x, y : Same(x, y) => Same(y, x)
  /\ \A x, y, z : Same(x, y) /\ Same(y, z) => Same(x, z)
BY DEF Same

\* Before a compaction, a step that reads has put its read last.
LEMMA ReadMerged ==
  ASSUME TypeInv, ReadsInv, NEW r \in Result, r.type \in Reading
  PROVE  LET b == Merge(sources, SourcesOf(r, step + 2), MaxSources)
         IN  /\ Grounded(b, Reread(r)) /\ Dated(b, Reread(r))
             /\ Kept(b, Reread(r), KeepSources)
<1> DEFINE c == SourcesOf(r, step + 2)
           b == Merge(sources, c, MaxSources)
           x == Entry(r.type, Head(r.on))
           s == Without(reads, x)
           h == Append(s, x)
<1>1. /\ step \in Nat /\ KeepSources \in Nat /\ step + 2 \in Nat
      /\ \A y \in ToSet(sources) : y.used \in Nat /\ y.used <= step + 1
  <2>1. sources \in Seq(Source)
    BY DEF TypeInv
  <2>2. \A y \in ToSet(sources) : y \in Source
    BY <2>1, SetOf
  <2>3. \A y \in ToSet(sources) : y.used \in Nat
    BY <2>2 DEF Source
  <2>4. QED
    BY <2>3, Bounds DEF TypeInv
<1>2. reads \in Seq(ReadItem) /\ Unique(reads)
  BY DEF TypeInv
<1>3. Len(reads) \in Nat /\ DOMAIN reads = 1..Len(reads)
  BY <1>2, LenProperties
<1>4. Reread(r) = h
  BY DEF Reread
<1>5. x.status \in Reading /\ x.status # "touched" /\ x \in ReadItem
  <2>1. Head(r.on) \in Nat /\ r.type \in Type \ {"failure"}
    BY EntriesAre DEF Reading, Type
  <2>2. x \in Item /\ x.status = r.type
    BY <2>1, EntryType
  <2> HIDE DEF x
  <2>3. QED
    BY <2>2 DEF Item, ReadItem, Reading
<1>6. Len(c) = 1 /\ Same(c[1], x) /\ c[1].status \in Reading /\ c[1].used = step + 2
  <2>1. Len(Entries(r)) = 1 /\ Entries(r)[1] = x
    BY EntriesAre
  <2>2. /\ Len(c) = Len(Entries(r))
        /\ \A i \in 1..Len(Entries(r)) :
             /\ Same(c[i], Entries(r)[i])
             /\ c[i].status = Entries(r)[i].status /\ c[i].used = step + 2
    BY <1>1, SourcesOfAre
  <2> HIDE DEF c, x
  <2>3. 1 \in 1..Len(Entries(r))
    BY <2>1
  <2>4. QED
    BY <1>5, <2>1, <2>2, <2>3
<1>7. /\ \A y \in ToSet(b) : y = c[1] \/ (y \in ToSet(sources) /\ ~Same(y, x))
      /\ \A y \in ToSet(sources) : ~Same(y, x) => y \in ToSet(b)
      /\ c[1] \in ToSet(b)
  <2>1. /\ \A y \in ToSet(b) :
             \/ y \in ToSet(sources) /\ \A k \in 1..Len(c) : ~Same(y, c[k])
             \/ \E k \in 1..Len(c) : y = c[k]
        /\ \A y \in ToSet(sources) : (\A k \in 1..Len(c) : ~Same(y, c[k])) => y \in ToSet(b)
        /\ Len(c) > 0 => c[Len(c)] \in ToSet(b)
    BY SourcesMerged
  <2> HIDE DEF b, c, x
  <2>2. 1 \in 1..Len(c) /\ \A k \in 1..Len(c) : k = 1
    BY <1>6
  <2>3. \A y : Same(y, c[1]) <=> Same(y, x)
    BY <1>6, SameIs
  <2>4. QED
    BY <1>6, <2>1, <2>2, <2>3
<1> HIDE DEF b, c, x
<1>8. s \in Seq(ReadItem) /\ Len(s) \in Nat
  BY <1>2, WithoutIs
<1>9. PICK from \in [1..Len(s) -> 1..Len(reads)] :
        /\ \A i \in 1..Len(s) : /\ s[i] = reads[from[i]] /\ ~Same(reads[from[i]], x)
                                /\ Len(reads) - from[i] <= Len(s) + 1 - i
        /\ \A i, j \in 1..Len(s) : i < j => from[i] < from[j]
        /\ \A i \in 1..Len(reads) : ~Same(reads[i], x) => \E j \in 1..Len(s) : from[j] = i
  BY <1>2, WithoutIs
<1> HIDE DEF s
<1> DEFINE l == Len(s) + 1
<1>10. /\ h \in Seq(ReadItem) /\ Len(h) = l /\ l \in Nat /\ l \in 1..l
       /\ h[l] = x /\ \A j \in 1..Len(s) : h[j] = s[j] /\ j \in 1..l /\ j < l
       /\ \A j \in 1..l : j = l \/ j \in 1..Len(s)
  BY <1>5, <1>8, AppendIs
<1>11. DOMAIN h = 1..l
  BY <1>10, LenProperties
<1> HIDE DEF h, l
<1>12. Grounded(b, h)
  <2>1. ASSUME NEW y \in ToSet(b), y.status \in Reading
        PROVE  \E j \in DOMAIN h : ReadAt(j, y, h)
    <3>1. CASE y = c[1]
      BY <1>5, <1>6, <1>10, <1>11, <3>1, SameIs DEF ReadAt
    <3>2. CASE y \in ToSet(sources) /\ ~Same(y, x)
      <4>1. PICK i \in 1..Len(reads) : ReadAt(i, y, reads)
        BY <1>3, <2>1, <3>2 DEF ReadsInv, Grounded
      <4>2. ~Same(reads[i], x)
        BY <3>2, <4>1, SameIs DEF ReadAt
      <4>3. PICK j \in 1..Len(s) : from[j] = i
        BY <1>9, <4>2
      <4>4. h[j] = reads[i]
        BY <1>9, <1>10, <4>3
      <4>5. QED
        BY <1>10, <1>11, <4>1, <4>4 DEF ReadAt
    <3>3. QED
      BY <1>7, <3>1, <3>2
  <2>2. QED
    BY <2>1 DEF Grounded
<1>13. Dated(b, h)
  <2>1. ASSUME NEW y \in ToSet(b), NEW z \in ToSet(b), NEW i \in DOMAIN h, NEW j \in DOMAIN h,
               y.status \in Reading, z.status \in Reading, ReadAt(i, y, h), ReadAt(j, z, h), i < j
        PROVE  y.used < z.used
    <3>1. /\ i \in 1..Len(s) /\ from[i] \in 1..Len(reads)
          /\ h[i] = reads[from[i]] /\ ~Same(h[i], x)
      <4>1. i \in 1..Len(s)
        BY <1>10, <1>11, <2>1
      <4>2. QED
        BY <1>9, <1>10, <4>1
    <3>2. ~Same(y, x)
      BY <2>1, <3>1, SameIs DEF ReadAt
    <3>3. y \in ToSet(sources) /\ ReadAt(from[i], y, reads)
      BY <1>6, <1>7, <2>1, <3>1, <3>2 DEF ReadAt
    <3>4. CASE j = l
      <4>1. Same(z, x)
        BY <1>10, <2>1, <3>4, SameIs DEF ReadAt
      <4>2. z = c[1]
        BY <1>7, <4>1
      <4>3. QED
        BY <1>1, <1>6, <3>3, <4>2
    <3>5. CASE j \in 1..Len(s)
      <4>1. h[j] = reads[from[j]] /\ ~Same(h[j], x) /\ from[j] \in 1..Len(reads)
        BY <1>9, <1>10, <3>5
      <4>2. ~Same(z, x)
        BY <2>1, <4>1, SameIs DEF ReadAt
      <4>3. z \in ToSet(sources) /\ ReadAt(from[j], z, reads)
        BY <1>6, <1>7, <2>1, <4>1, <4>2 DEF ReadAt
      <4>4. from[i] < from[j]
        BY <1>9, <2>1, <3>1, <3>5
      <4>5. QED
        BY <1>3, <2>1, <3>1, <3>3, <4>1, <4>3, <4>4 DEF ReadsInv, Dated
    <3>6. QED
      BY <1>10, <1>11, <3>4, <3>5
  <2>2. QED
    BY <2>1 DEF Dated
<1>14. Kept(b, h, KeepSources)
  <2>1. ASSUME NEW j \in DOMAIN h, Len(h) - KeepSources < j, h[j].status # "touched"
        PROVE  \E y \in ToSet(b) : Same(h[j], y) /\ y.status \in Reading
    <3>1. CASE j = l
      <4>1. Same(h[j], c[1])
        BY <1>6, <1>10, <3>1, SameIs
      <4>2. QED
        BY <1>6, <1>7, <4>1
    <3>2. CASE j \in 1..Len(s)
      <4> DEFINE i == from[j]
      <4>1. /\ i \in 1..Len(reads) /\ h[j] = reads[i] /\ ~Same(reads[i], x)
            /\ Len(reads) - i <= Len(s) + 1 - j
        BY <1>9, <1>10, <3>2
      <4> HIDE DEF i
      <4>2. Len(reads) - KeepSources < i
        BY <1>1, <1>3, <1>8, <1>10, <2>1, <3>2, <4>1 DEF l
      <4>3. PICK y \in ToSet(sources) : Same(reads[i], y) /\ y.status \in Reading
        BY <1>3, <2>1, <4>1, <4>2 DEF ReadsInv, Kept
      <4>4. ~Same(y, x)
        BY <4>1, <4>3, SameIs
      <4>5. QED
        BY <1>7, <4>1, <4>3, <4>4
    <3>3. QED
      BY <1>10, <1>11, <3>1, <3>2
  <2>2. QED
    BY <2>1 DEF Kept
<1>15. QED
  BY <1>4, <1>12, <1>13, <1>14 DEF b, c

\* Before a compaction, a step that does not read has replaced only what its
\* result names, and marked it in the history.
LEMMA OtherMerged ==
  ASSUME TypeInv, ReadsInv, NEW r \in Result, r.type \notin Reading
  PROVE  LET b == Merge(sources, SourcesOf(r, step + 2), MaxSources)
         IN  /\ Grounded(b, Reread(r)) /\ Dated(b, Reread(r))
             /\ Kept(b, Reread(r), KeepSources)
<1> DEFINE c == SourcesOf(r, step + 2)
           b == Merge(sources, c, MaxSources)
           e == Entries(r)
           h == Marked(reads, e)
<1>1. reads \in Seq(ReadItem) /\ step + 2 \in Nat
  BY Bounds DEF TypeInv
<1>2. Len(reads) \in Nat /\ DOMAIN reads = 1..Len(reads)
  BY <1>1, LenProperties
<1>3. Reread(r) = h
  BY DEF Reread
<1>4. e \in Seq(Item) /\ \A k \in 1..Len(e) : e[k].status \in {r.type, "changed"}
  BY EntriesAre
<1>5. /\ Len(c) = Len(e)
      /\ \A k \in 1..Len(e) : Same(c[k], e[k]) /\ c[k].status = e[k].status
  BY <1>1, SourcesOfAre
<1>6. /\ \A y \in ToSet(b) :
           \/ y \in ToSet(sources) /\ \A k \in 1..Len(c) : ~Same(y, c[k])
           \/ \E k \in 1..Len(c) : y = c[k]
      /\ \A y \in ToSet(sources) : (\A k \in 1..Len(c) : ~Same(y, c[k])) => y \in ToSet(b)
  BY SourcesMerged
<1>7. /\ h \in Seq(ReadItem) /\ Len(h) = Len(reads)
      /\ \A i \in 1..Len(reads) :
           /\ h[i].locator = reads[i].locator /\ h[i].kind = reads[i].kind
           /\ h[i].status # "touched" =>
                reads[i].status # "touched" /\ \A k \in 1..Len(e) : ~Same(reads[i], e[k])
           /\ reads[i].status # "touched" /\ (\A k \in 1..Len(e) : ~Same(reads[i], e[k]))
                => h[i].status # "touched"
  BY <1>1, <1>4, MarkedIs
<1>8. DOMAIN h = 1..Len(reads)
  BY <1>7, LenProperties
<1> HIDE DEF b, c, e, h
<1>9. \A i \in 1..Len(reads) : \A y : Same(h[i], y) <=> Same(reads[i], y)
  BY <1>7 DEF Same
<1>10. \A k \in 1..Len(e) : c[k].status \notin Reading
  BY <1>4, <1>5 DEF Reading
<1>11. \A y \in ToSet(b) : y.status \in Reading =>
         y \in ToSet(sources) /\ \A k \in 1..Len(e) : ~Same(y, e[k])
  <2>1. ASSUME NEW y \in ToSet(b), y.status \in Reading, NEW k \in 1..Len(e) PROVE ~Same(y, e[k])
    <3>1. ~Same(y, c[k])
      BY <1>5, <1>6, <1>10, <2>1
    <3>2. QED
      BY <1>5, <3>1, SameIs
  <2>2. QED
    BY <1>5, <1>6, <1>10, <2>1
<1>12. ASSUME NEW i \in 1..Len(reads), NEW y, ReadAt(i, y, h) PROVE ReadAt(i, y, reads)
  BY <1>7, <1>9, <1>12 DEF ReadAt
<1>13. Grounded(b, h)
  <2>1. ASSUME NEW y \in ToSet(b), y.status \in Reading
        PROVE  \E j \in DOMAIN h : ReadAt(j, y, h)
    <3>1. y \in ToSet(sources) /\ \A k \in 1..Len(e) : ~Same(y, e[k])
      BY <1>11, <2>1
    <3>2. PICK j \in 1..Len(reads) : ReadAt(j, y, reads)
      BY <1>2, <2>1, <3>1 DEF ReadsInv, Grounded
    <3>3. \A k \in 1..Len(e) : ~Same(reads[j], e[k])
      BY <3>1, <3>2, SameIs DEF ReadAt
    <3>4. QED
      BY <1>7, <1>8, <1>9, <3>2, <3>3 DEF ReadAt
  <2>2. QED
    BY <2>1 DEF Grounded
<1>14. Dated(b, h)
  <2>1. ASSUME NEW y \in ToSet(b), NEW z \in ToSet(b), NEW i \in DOMAIN h, NEW j \in DOMAIN h,
               y.status \in Reading, z.status \in Reading, ReadAt(i, y, h), ReadAt(j, z, h), i < j
        PROVE  y.used < z.used
    <3>1. y \in ToSet(sources) /\ z \in ToSet(sources)
      BY <1>11, <2>1
    <3>2. ReadAt(i, y, reads) /\ ReadAt(j, z, reads)
      BY <1>8, <1>12, <2>1
    <3>3. QED
      BY <1>2, <1>8, <2>1, <3>1, <3>2 DEF ReadsInv, Dated
  <2>2. QED
    BY <2>1 DEF Dated
<1>15. Kept(b, h, KeepSources)
  <2>1. ASSUME NEW j \in DOMAIN h, Len(h) - KeepSources < j, h[j].status # "touched"
        PROVE  \E y \in ToSet(b) : Same(h[j], y) /\ y.status \in Reading
    <3>1. /\ j \in 1..Len(reads) /\ Len(reads) - KeepSources < j
          /\ reads[j].status # "touched" /\ \A k \in 1..Len(e) : ~Same(reads[j], e[k])
      BY <1>7, <1>8, <2>1
    <3>2. PICK y \in ToSet(sources) : Same(reads[j], y) /\ y.status \in Reading
      BY <1>2, <3>1 DEF ReadsInv, Kept
    <3>3. \A k \in 1..Len(c) : ~Same(y, c[k])
      BY <1>5, <3>1, <3>2, SameIs
    <3>4. QED
      BY <1>6, <1>9, <3>1, <3>2, <3>3
  <2>2. QED
    BY <2>1 DEF Kept
<1>16. QED
  BY <1>3, <1>13, <1>14, <1>15 DEF b, c

\* A compaction keeps the last n reads: what it prefers to a read has been read
\* later, and fewer than n were read later than one of the last n.
LEMMA CutKeepsReads ==
  ASSUME NEW list \in Seq(Source), Unique(list), NEW h \in Seq(ReadItem), Unique(h),
         NEW n \in Nat \ {0}, Grounded(list, h), Dated(list, h), Kept(list, h, n)
  PROVE  LET t == FirstOf(Sorted(list, SourceOrder(list)), n)
         IN  Grounded(t, h) /\ Dated(t, h) /\ Kept(t, h, n)
<1> DEFINE t == FirstOf(Sorted(list, SourceOrder(list)), n)
<1>1. /\ t \in Seq(Source) /\ ToSet(t) \subseteq ToSet(list) /\ Unique(t)
      /\ \A x \in ToSet(list) \ ToSet(t) :
           Len(t) = n /\ \A i \in 1..n : <<x, t[i]>> \notin SourceOrder(list)
  <2>1. WeakOrder(SourceOrder(list), ToSet(list))
    BY SourceOrderIs
  <2>2. QED
    BY <2>1, CutIs
<1> HIDE DEF t
<1>2. Len(h) \in Nat /\ DOMAIN h = 1..Len(h)
  BY LenProperties
<1>3. /\ Len(t) \in Nat /\ DOMAIN t = 1..Len(t)
      /\ \A i \in 1..Len(t) : t[i] \in ToSet(t)
  BY <1>1, SetOf
<1>4. Grounded(t, h) /\ Dated(t, h)
  BY <1>1 DEF Grounded, Dated
<1>5. ASSUME NEW j \in DOMAIN h, Len(h) - n < j, h[j].status # "touched"
      PROVE  \E x \in ToSet(t) : Same(h[j], x) /\ x.status \in Reading
  <2>1. PICK x \in ToSet(list) : Same(h[j], x) /\ x.status \in Reading
    BY <1>5 DEF Kept
  <2>2. SUFFICES ASSUME x \notin ToSet(t) PROVE FALSE
    BY <2>1
  <2>3. ReadAt(j, x, h) /\ x \in Source
    BY <1>5, <2>1, SetOf DEF ReadAt
  <2>4. Len(t) = n /\ \A i \in 1..n : <<x, t[i]>> \notin SourceOrder(list)
    BY <1>1, <2>2
  <2>5. ASSUME NEW i \in 1..n
        PROVE  \E k \in (j + 1)..Len(h) : ReadAt(k, t[i], h)
    <3> DEFINE y == t[i]
    <3>1. y \in ToSet(list) /\ y \in ToSet(t) /\ y \in Source
      BY <1>1, <1>3, <2>4, SetOf
    <3>2. ~SourceBefore(x, y)
      BY <2>4, <3>1 DEF SourceOrder
    <3> HIDE DEF y
    <3>3. SourceRank(y.status) = 44 /\ ~(x.used > y.used) /\ x.used \in Nat /\ y.used \in Nat
      <4>1. /\ SourceRank(x.status) = 44 /\ SourceRank(y.status) \in Nat
            /\ SourceRank(y.status) <= 44 /\ x.used \in Nat /\ y.used \in Nat
        BY <2>1, <2>3, <3>1, Ranks
      <4>2. QED
        BY <3>2, <4>1 DEF SourceBefore
    <3>4. y.status \in Reading
      BY <3>1, <3>3, Ranks
    <3>5. PICK k \in 1..Len(h) : ReadAt(k, y, h)
      BY <1>2, <3>1, <3>4 DEF Grounded
    <3>6. ~(k < j)
      <4>1. ASSUME k < j PROVE FALSE
        <5>1. y.used < x.used
          BY <1>2, <2>1, <2>3, <3>1, <3>4, <3>5, <4>1 DEF Dated
        <5>2. QED
          BY <3>3, <5>1
      <4>2. QED
        BY <4>1
    <3>7. k # j
      <4>1. ASSUME k = j PROVE FALSE
        <5>1. Same(x, y)
          BY <2>3, <3>5, <4>1, SameIs DEF ReadAt
        <5>2. PICK p \in 1..Len(list), q \in 1..Len(list) : list[p] = x /\ list[q] = y
          BY <3>1, SetOf
        <5>3. p = q
          BY <5>1, <5>2, SetOf DEF Unique
        <5>4. QED
          BY <2>2, <3>1, <5>2, <5>3
      <4>2. QED
        BY <4>1
    <3>8. k \in (j + 1)..Len(h)
      BY <1>2, <1>5, <3>5, <3>6, <3>7
    <3>9. QED
      BY <3>5, <3>8 DEF y
  <2> DEFINE later == [i \in 1..n |-> CHOOSE k \in (j + 1)..Len(h) : ReadAt(k, t[i], h)]
  <2>6. /\ later \in [1..n -> (j + 1)..Len(h)]
        /\ \A i \in 1..n : ReadAt(later[i], t[i], h)
    <3>1. \A i \in 1..n : later[i] \in (j + 1)..Len(h) /\ ReadAt(later[i], t[i], h)
      BY <2>5
    <3>2. later = [i \in 1..n |-> later[i]]
      OBVIOUS
    <3> HIDE DEF later
    <3>3. QED
      BY <3>1, <3>2
  <2> HIDE DEF later
  <2>7. ASSUME NEW p \in 1..n, NEW q \in 1..n, later[p] = later[q] PROVE p = q
    <3>1. Same(t[p], t[q])
      BY <2>6, <2>7, SameIs DEF ReadAt
    <3>2. QED
      BY <1>1, <1>3, <2>4, <3>1 DEF Unique
  <2>8. later \in Injection(1..n, (j + 1)..Len(h))
    BY <2>6, <2>7 DEF Injection, IsInjective
  <2>9. /\ IsFiniteSet((j + 1)..Len(h))
        /\ Cardinality((j + 1)..Len(h)) = IF j + 1 > Len(h) THEN 0 ELSE Len(h) - (j + 1) + 1
        /\ Cardinality(1..n) = n
    <3>1. j + 1 \in Int /\ Len(h) \in Int /\ 1 \in Int /\ n \in Int
      BY <1>2, <1>5
    <3>2. /\ IsFiniteSet((j + 1)..Len(h))
          /\ Cardinality((j + 1)..Len(h)) = IF j + 1 > Len(h) THEN 0 ELSE Len(h) - (j + 1) + 1
      BY <3>1, FS_Interval
    <3>3. Cardinality(1..n) = IF 1 > n THEN 0 ELSE n - 1 + 1
      BY <3>1, FS_Interval
    <3>4. QED
      BY <3>2, <3>3
  <2>10. Cardinality(1..n) <= Cardinality((j + 1)..Len(h))
    BY <2>8, <2>9, FS_Injection
  <2>11. QED
    BY <1>2, <1>5, <2>9, <2>10
<1>6. Kept(t, h, n)
  BY <1>5 DEF Kept
<1>7. QED
  BY <1>4, <1>6 DEF t

LEMMA ReadsKept == TypeInv /\ TypeInv' /\ ReadsInv /\ [Next]_vars => ReadsInv'
<1> SUFFICES ASSUME TypeInv, TypeInv', ReadsInv, [Next]_vars PROVE ReadsInv'
  OBVIOUS
<1>1. CASE Next
  <2>1. PICK r \in Result : Step(r)
    BY <1>1 DEF Next
  <2> DEFINE b == Merge(sources, SourcesOf(r, step + 2), MaxSources)
  <2>2. /\ reads' = Reread(r) /\ last'.compacted \in BOOLEAN
        /\ last'.compacted => sources' = FirstOf(Sorted(b, SourceOrder(b)), KeepSources)
        /\ ~last'.compacted => sources' = b
    BY <2>1, StepIs
  <2>3. b \in Seq(Source) /\ Unique(b)
    BY SourcesMerged
  <2>4. /\ Grounded(b, Reread(r)) /\ Dated(b, Reread(r))
        /\ Kept(b, Reread(r), KeepSources)
    BY ReadMerged, OtherMerged
  <2>5. Reread(r) \in Seq(ReadItem) /\ Unique(Reread(r))
    BY ReadsTypes
  <2> HIDE DEF b
  <2>6. /\ Grounded(sources', Reread(r)) /\ Dated(sources', Reread(r))
        /\ Kept(sources', Reread(r), KeepSources)
    <3>1. CASE last'.compacted
      BY <2>2, <2>3, <2>4, <2>5, <3>1, Bounds, CutKeepsReads
    <3>2. CASE ~last'.compacted
      BY <2>2, <2>4, <3>2
    <3>3. QED
      BY <3>1, <3>2
  <2>7. QED
    BY <2>2, <2>6 DEF ReadsInv, Grounded, Dated, Kept
<1>2. CASE UNCHANGED vars
  BY <1>2 DEF vars, ReadsInv, Grounded, Dated, Kept, ReadAt
<1>3. QED
  BY <1>1, <1>2

LEMMA ReadsInit == Init => ReadsInv
<1>1. DOMAIN <<>> = {} /\ ToSet(<<>>) = {}
  BY DEF ToSet
<1>2. QED
  BY <1>1 DEF Init, ReadsInv, Grounded, Dated, Kept

\* The last KeepSources things the task read are working sources with their
\* content status, unless a later result named them: a compaction prefers a
\* read to everything else, and of two reads the later one, and whatever it
\* prefers to one of the last reads has itself been read later.
THEOREM LastReadsKept == Spec => []RecentReadsKept
<1>1. TypeInv /\ ReadsInv => RecentReadsKept
  <2> SUFFICES ASSUME TypeInv, ReadsInv,
                      NEW x \in ToSet(LastOf(reads, KeepSources)), x.status # "touched"
               PROVE  \E i \in DOMAIN sources :
                        Same(sources[i], x) /\ sources[i].status \in Reading
    BY DEF RecentReadsKept
  <2>1. reads \in Seq(ReadItem) /\ sources \in Seq(Source)
    BY DEF TypeInv
  <2>2. PICK j \in 1..Len(reads) : Len(reads) - KeepSources < j /\ reads[j] = x
    BY <2>1, Bounds, LastOfIs
  <2>3. j \in DOMAIN reads
    BY <2>1, <2>2, LenProperties
  <2>4. PICK y \in ToSet(sources) : Same(x, y) /\ y.status \in Reading
    BY <2>2, <2>3 DEF ReadsInv, Kept
  <2>5. PICK i \in DOMAIN sources : sources[i] = y
    BY <2>1, SetOf
  <2>6. QED
    BY <2>4, <2>5, SameIs
<1>2. Spec => []ReadsInv
  BY ReadsInit, ReadsKept, TypesAlways, PTL DEF Spec
<1>3. QED
  BY <1>1, <1>2, TypesAlways, PTL
=============================================================================
