---------------------------- MODULE LearningProofs ----------------------------
(***************************************************************************)
(* Proofs about Learning, for any processes, tasks, actions and windows.   *)
(***************************************************************************)
EXTENDS Learning, FiniteSetTheorems, SequenceTheorems, TLAPS

-----------------------------------------------------------------------------
(* Numbers.                                                                *)

LEMMA LeastNumber ==
  ASSUME NEW T, T \subseteq Nat, T # {}
  PROVE  \E n \in T : \A m \in T : n <= m
<1>1. PICK n \in T : \A m \in T : <<m, n>> \notin OpToRel(<, Nat)
  BY NatLessThanWellFounded, WFMin
<1>2. \A m \in T : ~ (m < n)
  BY <1>1 DEF OpToRel
<1>3. QED
  BY <1>2

LEMMA MinIs ==
  ASSUME NEW T, T \subseteq Nat, T # {}
  PROVE  Min(T) \in T /\ \A m \in T : Min(T) <= m
BY LeastNumber DEF Min

LEMMA DivLower ==
  ASSUME NEW a \in Int, NEW n \in Nat \ {0}, a \div n >= 8000
  PROVE  a >= 8000 * n
<1> DEFINE q == a \div n
<1>1. q \in Int /\ n * q <= a
  OBVIOUS
<1>2. q - 8000 \in Nat
  BY <1>1
<1>3. n * (q - 8000) >= 0
  BY <1>2
<1>4. n * (q - 8000) = n * q - 8000 * n
  BY <1>1
<1>5. QED
  BY <1>1, <1>3, <1>4

LEMMA ClampIs ==
  ASSUME NEW x \in Int, NEW low \in Int, NEW high \in Int, low <= high
  PROVE  Clamp(x, low, high) \in low..high /\ (low <= x /\ x <= high => Clamp(x, low, high) = x)
BY DEF Clamp

-----------------------------------------------------------------------------
(* Patterns.                                                               *)

Experience == [text : Text, act : Act, utility : Utilities]

LEMMA ScoredIs ==
  ASSUME NEW es, IsFiniteSet(es), NEW us
  PROVE  Scored(es, us) \in Nat /\ Scored(es, us) <= Cardinality(es)
<1>1. {i \in es : log[i].utility \in us} \in SUBSET es
  OBVIOUS
<1>2. QED
  BY <1>1, FS_Subset, FS_CardinalityType DEF Scored

LEMMA MatchingIs ==
  ASSUME log \in Seq(Experience), NEW n \in 0..Len(log), NEW g, NEW a
  PROVE  /\ Matching(n, g, a) \subseteq DOMAIN log /\ IsFiniteSet(Matching(n, g, a))
         /\ \A i \in Matching(n, g, a) : Goal[log[i].text] = g /\ log[i].act = a
<1>1. Len(log) \in Nat /\ DOMAIN log = 1..Len(log)
  BY LenProperties
<1>2. Recent(n) \subseteq 1..Len(log)
  BY <1>1, LearningAssumption DEF Recent
<1>3. IsFiniteSet(1..Len(log))
  <2>1. 1 \in Int /\ Len(log) \in Int
    BY <1>1
  <2>2. QED
    BY <2>1, FS_Interval
<1>4. Matching(n, g, a) \in SUBSET (1..Len(log))
  BY <1>2 DEF Matching
<1>5. IsFiniteSet(Matching(n, g, a))
  BY <1>3, <1>4, FS_Subset
<1>6. QED
  BY <1>1, <1>4, <1>5 DEF Matching

Confidences == 0..9800

LEMMA ConfidenceRange ==
  ASSUME NEW es, IsFiniteSet(es), Cardinality(es) >= MinRepeats
  PROVE  Confidence(es) \in Confidences
<1> DEFINE n == Cardinality(es)
           x == 45 * Clamp(Total(es), 0, 100 * n) + 400 * n * Clamp(n, 0, MinRepeats + 2)
                  + 3500 * Successes(es)
<1>1. n \in Nat \ {0} /\ MinRepeats + 2 = 5
  BY FS_CardinalityType DEF MinRepeats
<1>2. Total(es) \in Int /\ Successes(es) \in Nat
  BY ScoredIs DEF Total, Successes
<1>3. /\ Clamp(Total(es), 0, 100 * n) \in Int /\ Clamp(n, 0, MinRepeats + 2) \in Int
  BY <1>1, <1>2 DEF Clamp
<1>4. x \in Int
  BY <1>1, <1>2, <1>3
<1> DEFINE y == x \div n
<1>5. Confidence(es) = Clamp(y, 0, 9800)
  BY DEF Confidence
<1>6. y \in Int
  BY <1>1, <1>4
<1> HIDE DEF y
<1>7. QED
  BY <1>5, <1>6 DEF Clamp, Confidences

LEMMA ScoredApart ==
  ASSUME NEW es, IsFiniteSet(es), NEW us, NEW vs, us \cap vs = {}
  PROVE  Scored(es, us \cup vs) = Scored(es, us) + Scored(es, vs)
<1> DEFINE U == {i \in es : log[i].utility \in us}
           V == {i \in es : log[i].utility \in vs}
<1>1. IsFiniteSet(U) /\ IsFiniteSet(V)
  BY FS_Subset
<1>2. U \cap V = {} /\ U \cup V = {i \in es : log[i].utility \in us \cup vs}
  OBVIOUS
<1>3. Cardinality(U \cup V) = Cardinality(U) + Cardinality(V) - Cardinality(U \cap V)
  BY <1>1, FS_Union
<1>4. Cardinality(U \cap V) = 0 /\ Cardinality(U) \in Nat /\ Cardinality(V) \in Nat
  BY <1>1, <1>2, FS_EmptySet, FS_CardinalityType
<1>5. /\ Scored(es, us) = Cardinality(U) /\ Scored(es, vs) = Cardinality(V)
      /\ Scored(es, us \cup vs) = Cardinality(U \cup V)
  BY <1>2 DEF Scored
<1> HIDE DEF U, V
<1>6. QED
  BY <1>3, <1>4, <1>5

\* What is no success has a utility below one half.
LEMMA TotalBound ==
  ASSUME NEW es, IsFiniteSet(es)
  PROVE  /\ Total(es) \in Int /\ Successes(es) \in Nat /\ Successes(es) <= Cardinality(es)
         /\ Total(es) <= 55 * Successes(es) + 45 * Cardinality(es)
<1> DEFINE S(u) == Scored(es, {u})
           low == S(5) + S(10) + S(15) + S(25) + S(45)
           high == S(55) + S(60) + S(65) + S(85) + S(100)
<1>1. \A u \in Int : S(u) \in Nat
  BY ScoredIs
<1>2. Cardinality(es) \in Nat
  BY FS_CardinalityType
<1>3. Successes(es) = high
  <2>1. {u \in Utilities : u >= MinUtility} = {55, 60, 65, 85} \cup {100}
    BY DEF Utilities, MinUtility
  <2>2. {55, 60, 65, 85} = {55, 60, 65} \cup {85} /\ {55, 60, 65} = {55, 60} \cup {65}
        /\ {55, 60} = {55} \cup {60}
    OBVIOUS
  <2>3. Scored(es, {55, 60}) = S(55) + S(60)
    BY <2>2, ScoredApart
  <2>4. Scored(es, {55, 60, 65}) = Scored(es, {55, 60}) + S(65)
    BY <2>2, ScoredApart
  <2>5. Scored(es, {55, 60, 65, 85}) = Scored(es, {55, 60, 65}) + S(85)
    BY <2>2, ScoredApart
  <2>6. Scored(es, {55, 60, 65, 85} \cup {100}) = Scored(es, {55, 60, 65, 85}) + S(100)
    BY ScoredApart
  <2> HIDE DEF S
  <2>7. QED
    BY <2>1, <2>3, <2>4, <2>5, <2>6, <1>1 DEF Successes
<1>4. low + high <= Cardinality(es)
  <2> DEFINE L == {5, 10, 15, 25, 45}
             H == {u \in Utilities : u >= MinUtility}
  <2>1. Scored(es, L) = low
    <3>1. L = {5, 10, 15, 25} \cup {45} /\ {5, 10, 15, 25} = {5, 10, 15} \cup {25}
          /\ {5, 10, 15} = {5, 10} \cup {15} /\ {5, 10} = {5} \cup {10}
      OBVIOUS
    <3>2. Scored(es, {5, 10}) = S(5) + S(10)
      BY <3>1, ScoredApart
    <3>3. Scored(es, {5, 10, 15}) = Scored(es, {5, 10}) + S(15)
      BY <3>1, ScoredApart
    <3>4. Scored(es, {5, 10, 15, 25}) = Scored(es, {5, 10, 15}) + S(25)
      BY <3>1, ScoredApart
    <3>5. Scored(es, {5, 10, 15, 25} \cup {45}) = Scored(es, {5, 10, 15, 25}) + S(45)
      BY ScoredApart
    <3> HIDE DEF S
    <3>6. QED
      BY <3>1, <3>2, <3>3, <3>4, <3>5, <1>1
  <2>2. Scored(es, L \cup H) = Scored(es, L) + Scored(es, H)
    <3>1. L \cap H = {}
      BY DEF MinUtility
    <3>2. QED
      BY <3>1, ScoredApart
  <2>3. Scored(es, L \cup H) <= Cardinality(es)
    BY ScoredIs
  <2>4. Scored(es, H) = high
    BY <1>3 DEF Successes
  <2> HIDE DEF low, high, L, H
  <2>5. QED
    BY <2>1, <2>2, <2>3, <2>4
<1>5. Total(es) = 100 * S(100) + 85 * S(85) + 65 * S(65) + 60 * S(60) + 55 * S(55) + 45 * S(45)
                    + 25 * S(25) + 15 * S(15) + 10 * S(10) + 5 * S(5) - 25 * S(-25) - 100 * S(-100)
  BY DEF Total
<1> HIDE DEF S
<1>6. /\ S(5) \in Nat /\ S(10) \in Nat /\ S(15) \in Nat /\ S(25) \in Nat /\ S(45) \in Nat
      /\ S(55) \in Nat /\ S(60) \in Nat /\ S(65) \in Nat /\ S(85) \in Nat /\ S(100) \in Nat
      /\ S(-25) \in Nat /\ S(-100) \in Nat
  BY <1>1
<1>7. Total(es) <= 100 * high + 45 * low /\ Total(es) \in Int
  BY <1>5, <1>6
<1>8. low \in Nat /\ high \in Nat
  BY <1>6
<1> HIDE DEF low, high
<1>9. QED
  BY <1>2, <1>3, <1>4, <1>7, <1>8

\* A pattern is promoted only after three successes, however many experiences
\* it has and however they were scored.
LEMMA PromotedIsEarned ==
  ASSUME NEW es, IsFiniteSet(es), IsPattern(es), ShouldPromote(es)
  PROVE  Successes(es) >= MinRepeats
<1> DEFINE n == Cardinality(es)
           s == Successes(es)
           t == Clamp(Total(es), 0, 100 * n)
           c == Clamp(n, 0, MinRepeats + 2)
           x == 45 * t + 400 * n * c + 3500 * s
<1>1. n \in Nat /\ n >= 3 /\ s \in Nat /\ s <= n
  BY TotalBound, FS_CardinalityType DEF IsPattern, MinRepeats
<1>2. Total(es) \in Int /\ Total(es) <= 55 * s + 45 * n
  BY TotalBound
<1>3. Confidence(es) = Clamp(x \div n, 0, 9800) /\ Confidence(es) >= 8000
  BY DEF Confidence, ShouldPromote, MinConfidence
<1> HIDE DEF s, n
<1>4. t \in Int /\ t <= 55 * s + 45 * n
  BY <1>1, <1>2 DEF Clamp
<1>5. c \in Nat /\ c <= 5 /\ (n = 3 => c = 3)
  BY <1>1 DEF Clamp, MinRepeats
<1>6. x \div n >= 8000
  <2>1. x \in Int
    BY <1>1, <1>4, <1>5
  <2> DEFINE y == x \div n
  <2>2. y \in Int
    BY <1>1, <2>1
  <2>3. Clamp(y, 0, 9800) >= 8000
    BY <1>3
  <2> HIDE DEF y
  <2>4. y >= 8000
    BY <2>2, <2>3 DEF Clamp
  <2>5. QED
    BY <2>4 DEF y
<1>7. x >= 8000 * n
  <2>1. x \in Int /\ n \in Nat \ {0}
    BY <1>1, <1>4, <1>5
  <2> HIDE DEF x
  <2>2. QED
    BY <1>6, <2>1, DivLower
<1>8. 400 * n * c <= 2000 * n
  <2>1. n * (5 - c) >= 0
    BY <1>1, <1>5
  <2>2. n * (5 - c) = 5 * n - n * c /\ 400 * n * c = 400 * (n * c) /\ n * c \in Int
    BY <1>1, <1>5
  <2>3. QED
    BY <1>1, <2>1, <2>2
<1>9. 45 * t + 2000 * n + 3500 * s >= 8000 * n
  <2>1. 400 * n * c \in Int
    BY <1>1, <1>5
  <2>2. QED
    BY <1>1, <1>4, <1>7, <1>8, <2>1
<1>10. s >= 3
  <2> HIDE DEF t
  <2>1. CASE n = 3
    <3>1. 400 * n * c = 3600
      BY <1>5, <2>1
    <3> HIDE DEF c
    <3>2. 45 * t + 3600 + 3500 * s >= 24000
      BY <1>7, <2>1, <3>1
    <3>3. QED
      BY <1>1, <1>4, <2>1, <3>2
  <2>2. CASE n >= 4
    BY <1>1, <1>4, <1>9, <2>2
  <2>3. QED
    BY <1>1, <2>1, <2>2
<1>11. QED
  BY <1>10 DEF MinRepeats, s
-----------------------------------------------------------------------------
(* The types, with the row a write asks for.                               *)

Planned == [id : Nat, goal : Goals, act : Act, text : Text,
            confidence : Confidences, active : BOOLEAN]

Row == [id : Nat, goal : Goals, act : Act, text : Text,
        confidence : Confidences, active : BOOLEAN, by : Process]

\* What consolidation owes a rule, in its plan as in the table.
Sound(r) == (r.active => r.confidence >= MinConfidence) /\ Goal[r.text] = r.goal

\* Ids are handed out one by one and none is ever dropped: a row has the id of
\* one of the rows there have been, and no other row has it.
RowsInv ==
  /\ rules \in Seq(Row)
  /\ \A i \in DOMAIN rules : Sound(rules[i]) /\ rules[i].id \in 1..Len(rules)
  /\ \A i, j \in DOMAIN rules : rules[i].id = rules[j].id => i = j

TypeInv ==
  /\ log \in Seq(Experience) /\ Len(log) <= MaxRuns
  /\ RowsInv
  /\ cache \in [Kernel -> SUBSET Promotion]
  /\ pc \in [Process -> {"idle", "load", "rules", "write", "sync"}]
  /\ window \in [Process -> 0..Len(log)]
  /\ todo \in [Process -> SUBSET Planned]
  /\ \A p \in Process : \A w \in todo[p] : Sound(w)
  /\ \A p \in Process : todo[p] # {} => pc[p] = "write"
  /\ promoted \in [Process -> BOOLEAN]
  /\ \A p \in Process : promoted[p] => pc[p] \in {"write", "sync"}
  /\ lost \in [Kernel -> BOOLEAN]
  /\ won \in [Goals \X Act -> 0..MinRepeats]
  /\ shown \in [Goals \X Act -> 0..MinRepeats]

-----------------------------------------------------------------------------
(* What has been earned.                                                   *)

\* The times a counts as a success for a goal in the log.
Wins(g, a) ==
  {i \in DOMAIN log : Goal[log[i].text] = g /\ log[i].act = a
                        /\ log[i].utility \in {u \in Utilities : u >= MinUtility}}

\* The runs that succeeded or showed the change they were expected to make.
Backing(g, a) == won[<<g, a>>] + shown[<<g, a>>]

\* What the log counts as successes are such runs.
WinsInv ==
  \A g \in Goals, a \in Act :
    Backing(g, a) >= MinRepeats \/ Cardinality(Wins(g, a)) <= Backing(g, a)

Earned(g, a) == Backing(g, a) >= MinRepeats

\* The active rules have been earned wherever they are: planned, in the table,
\* in a reflex engine.
RulesInv ==
  /\ \A i \in DOMAIN rules : rules[i].active => Earned(rules[i].goal, rules[i].act)
  /\ \A p \in Process : \A w \in todo[p] : w.active => Earned(w.goal, w.act)
  /\ \A k \in Kernel : \A r \in cache[k] : Earned(r.goal, r.act)

EarnedInv == WinsInv /\ RulesInv

-----------------------------------------------------------------------------
(* What a kernel promoted.                                                 *)

Key(r) == [goal |-> r.goal, act |-> r.act, text |-> r.text]

\* An active rule a kernel wrote is in its reflex engine, or the kernel is still
\* on its way to the copy, or an error ended that way.
CacheInv ==
  \A k \in Kernel : \A i \in DOMAIN rules :
    rules[i].active /\ rules[i].by = k => Key(rules[i]) \in cache[k] \/ promoted[k] \/ lost[k]
-----------------------------------------------------------------------------
(* What the operators of the model return.                                 *)

LEMMA UtilityType ==
  ASSUME NEW a \in Act, NEW expects \in BOOLEAN, NEW ok \in BOOLEAN, NEW cut \in BOOLEAN,
         NEW changed \in BOOLEAN, expects \in MayExpectChange(a)
  PROVE  /\ Utility(a, expects, ok, cut, changed) \in Utilities
         /\ Utility(a, expects, ok, cut, changed) >= MinUtility => ok \/ (expects /\ changed)
<1>1. Kind[a] \in Kinds
  BY LearningAssumption
<1>2. CASE expects
  BY <1>2 DEF Utility, Utilities, MinUtility
<1>3. CASE ~expects
  <2>1. Kind[a] \in Lookups \cup {"command"}
    BY <1>1, <1>3 DEF MayExpectChange, Kinds, Lookups
  <2>2. QED
    BY <1>3, <2>1 DEF Utility, Worth, Utilities, MinUtility, Lookups
<1>4. QED
  BY <1>2, <1>3

LEMMA RemoveAtIs ==
  ASSUME NEW S, NEW s \in Seq(S), NEW i \in 1..Len(s)
  PROVE  /\ RemoveAt(s, i) \in Seq(S) /\ Len(RemoveAt(s, i)) = Len(s) - 1
         /\ \A j \in 1..(Len(s) - 1) : RemoveAt(s, i)[j] = IF j < i THEN s[j] ELSE s[j + 1]
<1>1. Len(s) \in Nat
  BY LenProperties
<1> DEFINE x == SubSeq(s, 1, i - 1)
           y == SubSeq(s, i + 1, Len(s))
<1>2. /\ x \in Seq(S) /\ Len(x) = i - 1
      /\ \A j \in 1..(i - 1) : x[j] = s[j]
  BY <1>1
<1>3. /\ y \in Seq(S) /\ Len(y) = Len(s) - i
      /\ \A j \in 1..(Len(s) - i) : y[j] = s[j + i]
  BY <1>1
<1>4. RemoveAt(s, i) = x \o y
  BY Zenon DEF RemoveAt
<1> HIDE DEF x, y
<1>5. /\ x \o y \in Seq(S) /\ Len(x \o y) = Len(x) + Len(y)
      /\ \A j \in 1..(Len(x) + Len(y)) :
           (x \o y)[j] = IF j <= Len(x) THEN x[j] ELSE y[j - Len(x)]
  BY <1>2, <1>3, ConcatProperties
<1>6. Len(x) + Len(y) = Len(s) - 1
  BY <1>1, <1>2, <1>3
<1>7. ASSUME NEW j \in 1..(Len(s) - 1)
      PROVE  (x \o y)[j] = IF j < i THEN s[j] ELSE s[j + 1]
  <2>1. CASE j < i
    <3>1. j \in 1..(i - 1) /\ j <= Len(x)
      BY <1>1, <1>2, <1>7, <2>1
    <3>2. QED
      BY <1>2, <1>5, <1>6, <1>7, <2>1, <3>1
  <2>2. CASE ~(j < i)
    <3>1. j - (i - 1) \in 1..(Len(s) - i) /\ ~(j <= Len(x)) /\ j - (i - 1) + i = j + 1
      BY <1>1, <1>2, <1>7, <2>2
    <3>2. (x \o y)[j] = y[j - (i - 1)]
      BY <1>2, <1>5, <1>6, <1>7, <3>1
    <3>3. QED
      BY <1>3, <2>2, <3>1, <3>2
  <2>3. QED
    BY <2>1, <2>2
<1>8. QED
  BY <1>4, <1>5, <1>6, <1>7

\* The row a planned write makes.
Made(w, p, id) ==
  [id |-> id, goal |-> w.goal, act |-> w.act, text |-> w.text,
   confidence |-> w.confidence, active |-> w.active, by |-> p]

\* A write leaves the other rows as they are and puts its own behind them,
\* under the id it was planned for or the next one.
LEMMA PersistIs ==
  ASSUME RowsInv, NEW w \in Planned, Sound(w), NEW p \in Process
  PROVE  /\ Persist(w, p) \in Seq(Row)
         /\ \A i \in DOMAIN Persist(w, p) :
              /\ Sound(Persist(w, p)[i]) /\ Persist(w, p)[i].id \in 1..Len(Persist(w, p))
              /\ \/ \E j \in DOMAIN rules : Persist(w, p)[i] = rules[j]
                 \/ \E id \in Nat : Persist(w, p)[i] = Made(w, p, id)
         /\ \A i, j \in DOMAIN Persist(w, p) :
              Persist(w, p)[i].id = Persist(w, p)[j].id => i = j
<1> DEFINE old == {i \in DOMAIN rules : rules[i].id = w.id}
           id == IF old = {} THEN Len(rules) + 1 ELSE w.id
           rest == IF old = {} THEN rules ELSE RemoveAt(rules, Min(old))
           new == Made(w, p, id)
<1>1. Persist(w, p) = Append(rest, new)
  BY DEF Persist, Made
<1>2. Len(rules) \in Nat /\ DOMAIN rules = 1..Len(rules) /\ rules \in Seq(Row)
  BY LenProperties DEF RowsInv
<1>3. \A i \in 1..Len(rules) : rules[i] \in Row
  BY <1>2, ElementOfSeq
<1>4. old # {} => Min(old) \in old /\ Min(old) \in 1..Len(rules)
  <2>1. old \subseteq 1..Len(rules)
    BY <1>2
  <2>2. old \subseteq Nat
    BY <1>2, <2>1
  <2> HIDE DEF old
  <2>3. QED
    BY <2>1, <2>2, MinIs
<1>5. id \in Nat /\ id \in 1..(Len(rules) + 1) /\ (old # {} => id \in 1..Len(rules))
  <2>1. CASE old = {}
    BY <1>2, <2>1
  <2>2. CASE old # {}
    <3>1. PICK m \in DOMAIN rules : rules[m].id = w.id
      BY <2>2
    <3>2. id = w.id /\ w.id \in 1..Len(rules)
      BY <2>2, <3>1 DEF RowsInv
    <3> HIDE DEF id
    <3>3. QED
      BY <1>2, <3>2
  <2>3. QED
    BY <2>1, <2>2
<1>6. new \in Row /\ Sound(new) /\ new.id = id
  <2> HIDE DEF id
  <2>1. QED
    BY <1>5 DEF Made, Planned, Row, Sound
<1>7. /\ rest \in Seq(Row) /\ Len(rest) \in Nat
      /\ Len(rest) = IF old = {} THEN Len(rules) ELSE Len(rules) - 1
  <2>1. CASE old = {}
    BY <1>2, <2>1
  <2>2. CASE old # {}
    <3>1. RemoveAt(rules, Min(old)) \in Seq(Row) /\ Len(RemoveAt(rules, Min(old))) = Len(rules) - 1
      BY <1>2, <1>4, <2>2, RemoveAtIs
    <3>2. rest = RemoveAt(rules, Min(old))
      BY <2>2
    <3>3. Len(RemoveAt(rules, Min(old))) \in Nat
      BY <3>1, LenProperties
    <3> HIDE DEF rest, old
    <3>4. QED
      BY <1>2, <2>2, <3>1, <3>2, <3>3
  <2>3. QED
    BY <2>1, <2>2
\* Where each of the other rows comes from.
<1> DEFINE from(i) == IF old = {} \/ i < Min(old) THEN i ELSE i + 1
<1>8. ASSUME NEW i \in 1..Len(rest)
      PROVE  /\ from(i) \in 1..Len(rules) /\ rest[i] = rules[from(i)]
             /\ rules[from(i)].id # id
  <2>1. CASE old = {}
    <3>1. from(i) = i /\ rest = rules /\ id = Len(rules) + 1
      BY <2>1
    <3>2. rules[i].id \in 1..Len(rules)
      BY <1>2, <1>7, <1>8, <2>1 DEF RowsInv
    <3>3. QED
      BY <1>2, <1>7, <1>8, <2>1, <3>1, <3>2
  <2>2. CASE old # {}
    <3>1. i \in 1..(Len(rules) - 1) /\ rest = RemoveAt(rules, Min(old)) /\ id = w.id
      BY <1>7, <1>8, <2>2
    <3>2. rest[i] = IF i < Min(old) THEN rules[i] ELSE rules[i + 1]
      BY <1>2, <1>4, <2>2, <3>1, RemoveAtIs
    <3>3. from(i) = (IF i < Min(old) THEN i ELSE i + 1)
      BY <2>2
    <3> DEFINE m == Min(old)
               f == from(i)
    <3>4. m \in 1..Len(rules) /\ rules[m].id = id
      BY <1>4, <2>2, <3>1
    <3>5. f \in 1..Len(rules) /\ f # m /\ rest[i] = rules[f]
      <4> HIDE DEF m, f
      <4>1. f = IF i < m THEN i ELSE i + 1
        BY <3>3 DEF f, m
      <4>2. rest[i] = IF i < m THEN rules[i] ELSE rules[i + 1]
        BY <3>2 DEF m
      <4> HIDE DEF rest
      <4>3. QED
        BY <1>2, <3>1, <3>4, <4>1, <4>2
    <3>6. rules[f].id = id => f = m
      <4> HIDE DEF m, f
      <4>1. QED
        BY <1>2, <3>4, <3>5 DEF RowsInv
    <3>7. QED
      BY <3>5, <3>6
  <2>3. QED
    BY <2>1, <2>2
<1>9. ASSUME NEW i \in 1..Len(rest), NEW j \in 1..Len(rest), rest[i].id = rest[j].id
      PROVE  i = j
  <2>1. from(i) \in 1..Len(rules) /\ from(j) \in 1..Len(rules)
    BY <1>8, <1>9
  <2>2. rules[from(i)].id = rules[from(j)].id
    BY <1>8, <1>9
  <2>3. from(i) = from(j)
    <3> HIDE DEF from
    <3>1. QED
      BY <1>2, <2>1, <2>2 DEF RowsInv
  <2>4. CASE old = {}
    BY <2>3, <2>4
  <2>5. CASE old # {}
    <3> DEFINE m == Min(old)
    <3>1. m \in Nat /\ (i < m \/ ~(i < m))
      BY <1>4, <2>5
    <3>2. (IF i < m THEN i ELSE i + 1) = (IF j < m THEN j ELSE j + 1)
      BY <2>3, <2>5
    <3> HIDE DEF m
    <3>3. i \in Int /\ j \in Int
      BY <1>7, <1>9
    <3>4. QED
      BY <3>1, <3>2, <3>3
  <2>6. QED
    BY <2>4, <2>5
<1>10. /\ Persist(w, p) \in Seq(Row) /\ Len(Persist(w, p)) = Len(rest) + 1
       /\ DOMAIN Persist(w, p) = 1..(Len(rest) + 1)
       /\ \A i \in 1..Len(rest) : Persist(w, p)[i] = rest[i]
       /\ Persist(w, p)[Len(rest) + 1] = new
  <2> HIDE DEF rest, new
  <2>1. QED
    BY <1>1, <1>6, <1>7, AppendProperties
<1>11. id \in 1..(Len(rest) + 1)
  BY <1>2, <1>5, <1>7
<1> DEFINE out == Persist(w, p)
<1> HIDE DEF old, id, rest, new, from
<1>12. ASSUME NEW i \in DOMAIN out
       PROVE  /\ Sound(out[i]) /\ out[i].id \in 1..Len(out)
              /\ \/ \E j \in DOMAIN rules : out[i] = rules[j]
                 \/ \E d \in Nat : out[i] = Made(w, p, d)
  <2> HIDE DEF out
  <2>1. DOMAIN out = 1..(Len(rest) + 1) /\ Len(out) = Len(rest) + 1
    BY <1>10 DEF out
  <2>2. CASE i = Len(rest) + 1
    <3>1. out[i] = new
      BY <1>10, <2>2 DEF out
    <3>2. QED
      BY <1>5, <1>6, <1>11, <2>1, <3>1 DEF new
  <2>3. CASE i \in 1..Len(rest)
    <3>1. from(i) \in DOMAIN rules /\ out[i] = rules[from(i)]
      BY <1>2, <1>8, <1>10, <2>3 DEF out
    <3>2. PICK j \in DOMAIN rules : out[i] = rules[j]
      BY <3>1
    <3>3. Sound(rules[j]) /\ rules[j].id \in 1..Len(rules)
      BY Zenon DEF RowsInv
    <3>4. Len(rules) <= Len(out) /\ Len(out) \in Nat
      <4>1. Len(out) = Len(rest) + 1 /\ Len(rest) \in Nat /\ Len(rules) \in Nat
        BY <1>2, <1>7, <2>1
      <4>2. Len(rest) = Len(rules) \/ Len(rest) = Len(rules) - 1
        BY <1>7
      <4>3. QED
        BY <4>1, <4>2
    <3>5. rules[j].id \in 1..Len(out)
      BY <1>2, <3>3, <3>4
    <3>6. Sound(out[i]) /\ out[i].id \in 1..Len(out)
      BY <3>2, <3>3, <3>5, Zenon
    <3>7. QED
      BY <3>2, <3>6
  <2>4. QED
    BY <1>7, <1>12, <2>1, <2>2, <2>3
<1>13. ASSUME NEW i \in DOMAIN out, NEW j \in DOMAIN out, out[i].id = out[j].id
       PROVE  i = j
  <2> HIDE DEF out
  <2>1. DOMAIN out = 1..(Len(rest) + 1) /\ out[Len(rest) + 1].id = id
    BY <1>6, <1>10 DEF out
  <2>2. \A k \in 1..Len(rest) : out[k] = rest[k] /\ out[k].id # id
    BY <1>8, <1>10 DEF out
  <2>3. CASE i = Len(rest) + 1 /\ j = Len(rest) + 1
    BY <2>3
  <2>4. CASE i = Len(rest) + 1 /\ j \in 1..Len(rest)
    BY <1>13, <2>1, <2>2, <2>4
  <2>5. CASE j = Len(rest) + 1 /\ i \in 1..Len(rest)
    BY <1>13, <2>1, <2>2, <2>5
  <2>6. CASE i \in 1..Len(rest) /\ j \in 1..Len(rest)
    BY <1>9, <1>13, <2>2, <2>6
  <2>7. QED
    BY <1>7, <1>13, <2>1, <2>3, <2>4, <2>5, <2>6
<1>14. QED
  BY <1>10, <1>12, <1>13

\* A planned rule has the goal of its pattern's text, and is active only when
\* the pattern was promoted.
LEMMA PlanIs ==
  ASSUME log \in Seq(Experience), RowsInv, NEW n \in 0..Len(log), NEW w \in Plan(n)
  PROVE  /\ w \in Planned /\ Sound(w)
         /\ LET es == Matching(n, w.goal, w.act)
            IN  IsPattern(es) /\ (w.active => ShouldPromote(es))
<1>1. PICK g \in Goals, a \in Act :
        /\ IsPattern(Matching(n, g, a))
        /\ w = RuleFor(Matching(n, g, a), g, a)
  <2>1. PICK ga \in Patterns(n) : w = RuleFor(Matching(n, ga[1], ga[2]), ga[1], ga[2])
    BY DEF Plan
  <2>2. /\ ga \in Goals \X Act /\ ga[1] \in Goals /\ ga[2] \in Act
        /\ IsPattern(Matching(n, ga[1], ga[2]))
    BY DEF Patterns
  <2>3. QED
    BY <2>1, <2>2
<1> DEFINE es == Matching(n, g, a)
           text == PatternText(es)
           found == Found(g, a, text)
           id == IF found = {} THEN 0 ELSE rules[Min(found)].id
<1>2. /\ es \subseteq DOMAIN log /\ IsFiniteSet(es)
      /\ \A i \in es : Goal[log[i].text] = g /\ log[i].act = a
  BY MatchingIs
<1>3. IsPattern(es) /\ Cardinality(es) >= MinRepeats
  BY <1>1 DEF IsPattern
<1>4. Min(es) \in es
  <2> HIDE DEF es
  <2>1. es # {}
    BY <1>2, <1>3, FS_EmptySet DEF MinRepeats
  <2>2. es \subseteq Nat
    BY <1>2, LenProperties
  <2>3. QED
    BY <2>1, <2>2, MinIs
<1>5. text \in Text /\ Goal[text] = g
  <2>1. log[Min(es)] \in Experience /\ Goal[log[Min(es)].text] = g
    BY <1>2, <1>4, ElementOfSeq, LenProperties
  <2>2. QED
    BY <2>1 DEF PatternText, Experience
<1>6. id \in Nat
  <2>1. CASE found = {}
    BY <2>1
  <2>2. CASE found # {}
    <3>1. found \subseteq DOMAIN rules /\ found \subseteq Nat
      BY LenProperties DEF Found, RowsInv
    <3>2. Min(found) \in DOMAIN rules
      <4> HIDE DEF found
      <4>1. QED
        BY <2>2, <3>1, MinIs
    <3>3. rules[Min(found)].id \in 1..Len(rules)
      BY <3>2 DEF RowsInv
    <3>4. id = rules[Min(found)].id
      BY <2>2
    <3> HIDE DEF id, found
    <3>5. QED
      BY <3>3, <3>4, LenProperties DEF RowsInv
  <2>3. QED
    BY <2>1, <2>2
<1>7. Confidence(es) \in Confidences /\ ShouldPromote(es) \in BOOLEAN
  <2>1. ShouldPromote(es) \in BOOLEAN
    BY Zenon DEF ShouldPromote
  <2> HIDE DEF es
  <2>2. Confidence(es) \in Confidences
    BY <1>2, <1>3, ConfidenceRange, Zenon
  <2>3. QED
    BY <2>1, <2>2
<1>8. ShouldPromote(es) => Confidence(es) >= MinConfidence
  BY DEF ShouldPromote
<1>9. w = [id |-> id, goal |-> g, act |-> a, text |-> text,
           confidence |-> Confidence(es), active |-> ShouldPromote(es)]
  BY <1>1, Zenon DEF RuleFor
<1> HIDE DEF id, text, es
<1>10. w \in Planned
  BY <1>5, <1>6, <1>7, <1>9 DEF Planned
<1>11. w.goal = g /\ w.act = a /\ w.text = text /\ w.confidence = Confidence(es)
  BY <1>9
<1>12. w.active <=> ShouldPromote(es)
  BY <1>9, Zenon
<1>13. Sound(w)
  BY <1>5, <1>8, <1>11, <1>12 DEF Sound
<1>14. Matching(n, w.goal, w.act) = es
  BY <1>11 DEF es
<1>15. QED
  BY <1>3, <1>10, <1>12, <1>13, <1>14

LEMMA GoalsAre == \A t \in Text : Goal[t] \in Goals
BY DEF Goals

LEMMA RowsType ==
  ASSUME RowsInv
  PROVE  /\ Len(rules) \in Nat /\ DOMAIN rules = 1..Len(rules)
         /\ \A i \in DOMAIN rules : rules[i] \in Row
BY LenProperties, ElementOfSeq DEF RowsInv

\* What a copy of the active rules holds.
LEMMA ActiveIs ==
  ASSUME RowsInv
  PROVE  /\ ActiveRules \subseteq Promotion
         /\ \A r \in ActiveRules : \E i \in DOMAIN rules :
              rules[i].active /\ r = Key(rules[i])
         /\ \A i \in DOMAIN rules : rules[i].active => Key(rules[i]) \in ActiveRules
<1>1. \A r \in ActiveRules : \E i \in DOMAIN rules : rules[i].active /\ r = Key(rules[i])
  BY DEF ActiveRules, ToSet, Key
<1>2. \A i \in DOMAIN rules : rules[i].active => Key(rules[i]) \in ActiveRules
  BY DEF ActiveRules, ToSet, Key
<1>3. \A i \in DOMAIN rules : Key(rules[i]) \in Promotion
  <2>1. \A i \in DOMAIN rules : rules[i] \in Row
    BY RowsType
  <2>2. QED
    BY <2>1 DEF Key, Promotion, Row
<1>4. QED
  BY <1>1, <1>2, <1>3

-----------------------------------------------------------------------------
(* Types.                                                                  *)

LEMMA InitTypes == Init => TypeInv
<1> SUFFICES ASSUME Init PROVE TypeInv
  OBVIOUS
<1>1. log = <<>> /\ rules = <<>> /\ Len(log) = 0 /\ DOMAIN rules = {}
  BY DEF Init
<1>2. log \in Seq(Experience) /\ Len(log) <= MaxRuns
  BY <1>1, LearningAssumption
<1>3. RowsInv
  BY <1>1 DEF RowsInv
<1>4. pc \in [Process -> {"idle", "load", "rules", "write", "sync"}]
  BY DEF Init
<1>5. window \in [Process -> 0..Len(log)]
  BY <1>1 DEF Init
<1>6. todo \in [Process -> SUBSET Planned] /\ \A p \in Process : todo[p] = {}
  BY DEF Init
<1>7. promoted \in [Process -> BOOLEAN] /\ \A p \in Process : ~promoted[p]
  BY DEF Init
<1>8. cache \in [Kernel -> SUBSET Promotion] /\ lost \in [Kernel -> BOOLEAN]
  BY DEF Init
<1>9. won \in [Goals \X Act -> 0..MinRepeats] /\ shown \in [Goals \X Act -> 0..MinRepeats]
  BY DEF Init, MinRepeats
<1>10. QED
  BY <1>2, <1>3, <1>4, <1>5, <1>6, <1>7, <1>8, <1>9 DEF TypeInv

\* A counted run is one more, as long as fewer than three are counted.
LEMMA CountedIs ==
  ASSUME NEW runs \in [Goals \X Act -> 0..MinRepeats], NEW ga \in Goals \X Act,
         NEW more \in BOOLEAN
  PROVE  /\ Counted(runs, ga, more) \in [Goals \X Act -> 0..MinRepeats]
         /\ \A h \in Goals \X Act : Counted(runs, ga, more)[h] >= runs[h]
         /\ more => Counted(runs, ga, more)[ga] >= MinRepeats
                      \/ Counted(runs, ga, more)[ga] = runs[ga] + 1
BY DEF Counted, MinRepeats

\* What is appended when an action runs, and what else changes.
LEMMA RunIs ==
  ASSUME TypeInv, NEW k \in Kernel, NEW t \in Text, NEW a \in Act, Run(k, t, a)
  PROVE  /\ \E e \in Experience :
              /\ log' = Append(log, e)
              /\ e.text = t /\ e.act = a
              /\ e.utility >= MinUtility =>
                   Backing(Goal[t], a)' >= MinRepeats \/ Backing(Goal[t], a)' > Backing(Goal[t], a)
         /\ \A g \in Goals, b \in Act :
              /\ Backing(g, b) \in Nat /\ Backing(g, b)' \in Nat
              /\ Backing(g, b)' >= Backing(g, b)
         /\ (won \in [Goals \X Act -> 0..MinRepeats])'
         /\ (shown \in [Goals \X Act -> 0..MinRepeats])'
         /\ log' \in Seq(Experience) /\ Len(log') = Len(log) + 1 /\ Len(log) \in Nat
         /\ DOMAIN log' = 1..(Len(log) + 1) /\ DOMAIN log = 1..Len(log)
         /\ \A i \in DOMAIN log : log'[i] = log[i]
<1>1. PICK expects \in MayExpectChange(a), ok \in BOOLEAN, cut \in BOOLEAN, moved \in BOOLEAN,
          out \in Output :
        LET after   == IF IsCommand(a) THEN <<a, ok, out>> ELSE last[k]
            changed == Changed(a, moved, last[k], after)
        IN  /\ Kind[a] = "write" => ok
            /\ ~expects => ~moved
            /\ cut => Kind[a] = "read"
            /\ last' = [last EXCEPT ![k] = after]
            /\ log' = Append(log, [text |-> t, act |-> a,
                                   utility |-> Utility(a, expects, ok, cut, changed)])
            /\ won' = Counted(won, <<Goal[t], a>>, ok)
            /\ shown' = Counted(shown, <<Goal[t], a>>, ~ok /\ expects /\ changed)
  BY Zenon DEF Run
<1> DEFINE after   == IF IsCommand(a) THEN <<a, ok, out>> ELSE last[k]
           changed == Changed(a, moved, last[k], after)
           u == Utility(a, expects, ok, cut, changed)
           e == [text |-> t, act |-> a, utility |-> u]
<1>2. expects \in BOOLEAN /\ changed \in BOOLEAN
  <2>1. Kind[a] \in Kinds
    BY LearningAssumption
  <2>2. QED
    BY <2>1 DEF MayExpectChange, Kinds, Lookups, Changed
<1>3. /\ log' = Append(log, e)
      /\ won' = Counted(won, <<Goal[t], a>>, ok)
      /\ shown' = Counted(shown, <<Goal[t], a>>, ~ok /\ expects /\ changed)
  BY <1>1
<1> HIDE DEF changed
<1>4. u \in Utilities /\ (u >= MinUtility => ok \/ (expects /\ changed))
  BY <1>2, UtilityType
<1> HIDE DEF u
<1>5. e \in Experience /\ e.text = t /\ e.act = a /\ e.utility = u
  BY <1>4 DEF Experience
<1>6. /\ won \in [Goals \X Act -> 0..MinRepeats] /\ shown \in [Goals \X Act -> 0..MinRepeats]
      /\ <<Goal[t], a>> \in Goals \X Act
  BY GoalsAre DEF TypeInv
<1> DEFINE ga == <<Goal[t], a>>
<1>7. /\ won' \in [Goals \X Act -> 0..MinRepeats]
      /\ \A h \in Goals \X Act : won'[h] >= won[h]
      /\ ok => won'[ga] >= MinRepeats \/ won'[ga] = won[ga] + 1
  BY <1>3, <1>6, CountedIs
<1>8. /\ shown' \in [Goals \X Act -> 0..MinRepeats]
      /\ \A h \in Goals \X Act : shown'[h] >= shown[h]
      /\ ~ok /\ expects /\ changed => shown'[ga] >= MinRepeats \/ shown'[ga] = shown[ga] + 1
  <2>1. (~ok /\ expects /\ changed) \in BOOLEAN
    BY <1>2
  <2>2. QED
    BY <1>3, <1>6, <2>1, CountedIs
<1>9. ASSUME NEW g \in Goals, NEW b \in Act
      PROVE  /\ Backing(g, b) \in Nat /\ Backing(g, b)' \in Nat
             /\ Backing(g, b)' >= Backing(g, b)
  <2>1. <<g, b>> \in Goals \X Act
    OBVIOUS
  <2> DEFINE w  == won[<<g, b>>]
             h  == shown[<<g, b>>]
             ww == won'[<<g, b>>]
             hh == shown'[<<g, b>>]
  <2>2. w \in Nat /\ h \in Nat /\ ww \in Nat /\ hh \in Nat
    BY <1>6, <1>7, <1>8, <2>1 DEF MinRepeats
  <2>3. ww >= w /\ hh >= h
    BY <1>7, <1>8, <2>1
  <2>4. Backing(g, b) = w + h /\ Backing(g, b)' = ww + hh
    BY DEF Backing
  <2> HIDE DEF w, h, ww, hh
  <2>5. QED
    BY <2>2, <2>3, <2>4
<1>10. ASSUME u >= MinUtility
       PROVE  Backing(Goal[t], a)' >= MinRepeats \/ Backing(Goal[t], a)' > Backing(Goal[t], a)
  <2>1. /\ won[ga] \in 0..3 /\ shown[ga] \in 0..3 /\ won'[ga] \in 0..3 /\ shown'[ga] \in 0..3
        /\ won'[ga] >= won[ga] /\ shown'[ga] >= shown[ga]
    BY <1>6, <1>7, <1>8 DEF MinRepeats
  <2>2. \/ won'[ga] >= 3 \/ won'[ga] = won[ga] + 1
        \/ shown'[ga] >= 3 \/ shown'[ga] = shown[ga] + 1
    BY <1>4, <1>7, <1>8, <1>10 DEF MinRepeats
  <2>3. QED
    BY <2>1, <2>2 DEF Backing, MinRepeats
<1> HIDE DEF e
<1>11. /\ log' \in Seq(Experience) /\ Len(log') = Len(log) + 1
       /\ \A i \in 1..Len(log) : log'[i] = log[i]
  BY <1>3, <1>5, AppendProperties DEF TypeInv
<1>12. Len(log) \in Nat /\ DOMAIN log = 1..Len(log) /\ DOMAIN log' = 1..(Len(log) + 1)
  BY <1>11, LenProperties DEF TypeInv
<1>13. QED
  BY <1>3, <1>5, <1>7, <1>8, <1>9, <1>10, <1>11, <1>12

LEMMA RunTypes ==
  ASSUME TypeInv, NEW k \in Kernel, NEW t \in Text, NEW a \in Act, Run(k, t, a)
  PROVE  TypeInv'
<1>1. log' \in Seq(Experience) /\ Len(log') = Len(log) + 1 /\ Len(log) \in Nat
  BY RunIs
<1>2. Len(log') <= MaxRuns
  BY <1>1, LearningAssumption DEF Run
<1>3. UNCHANGED <<rules, cache, window, todo, promoted, lost>>
  BY DEF Run
<1>4. RowsInv'
  BY <1>3 DEF TypeInv, RowsInv
<1>5. pc \in [Process -> {"idle", "load", "rules", "write", "sync"}] /\ k \in Process
  BY DEF TypeInv, Process
<1>6. pc' = [pc EXCEPT ![k] = "load"] /\ pc[k] = "idle"
  BY DEF Run
<1>7. /\ pc' \in [Process -> {"idle", "load", "rules", "write", "sync"}]
      /\ \A p \in Process : pc[p] \in {"write", "sync"} => pc'[p] = pc[p]
  BY <1>5, <1>6
<1>8. window' \in [Process -> 0..Len(log')]
  <2>1. \A x \in 0..Len(log) : x \in 0..Len(log')
    BY <1>1
  <2>2. window \in [Process -> 0..Len(log)]
    BY DEF TypeInv
  <2>3. QED
    BY <1>3, <2>1, <2>2
<1>9. /\ won' \in [Goals \X Act -> 0..MinRepeats]
      /\ shown' \in [Goals \X Act -> 0..MinRepeats]
  BY RunIs
<1>10. /\ \A p \in Process : todo'[p] # {} => pc'[p] = "write"
       /\ \A p \in Process : promoted'[p] => pc'[p] \in {"write", "sync"}
  BY <1>3, <1>7 DEF TypeInv
<1>11. /\ cache' \in [Kernel -> SUBSET Promotion] /\ lost' \in [Kernel -> BOOLEAN]
       /\ todo' \in [Process -> SUBSET Planned] /\ promoted' \in [Process -> BOOLEAN]
       /\ \A p \in Process : \A w \in todo'[p] : Sound(w)
  BY <1>3 DEF TypeInv
<1>12. \A p \in Process : \A w \in todo'[p] : Sound(w)'
  BY <1>11 DEF Sound
<1>13. QED
  BY <1>1, <1>2, <1>4, <1>7, <1>8, <1>9, <1>10, <1>11, <1>12 DEF TypeInv

\* The actions that leave the tables alone.
LEMMA TablesKept ==
  ASSUME TypeInv, UNCHANGED <<log, rules, history>>
  PROVE  /\ (log \in Seq(Experience) /\ Len(log) <= MaxRuns)'
         /\ RowsInv' /\ (won \in [Goals \X Act -> 0..MinRepeats])'
         /\ (shown \in [Goals \X Act -> 0..MinRepeats])'
         /\ \A w : Sound(w) => Sound(w)'
BY DEF TypeInv, RowsInv, Sound, history

\* The part of the types that processes own.
ProcessInv ==
  /\ cache \in [Kernel -> SUBSET Promotion]
  /\ pc \in [Process -> {"idle", "load", "rules", "write", "sync"}]
  /\ window \in [Process -> 0..Len(log)]
  /\ todo \in [Process -> SUBSET Planned]
  /\ \A p \in Process : todo[p] # {} => pc[p] = "write"
  /\ promoted \in [Process -> BOOLEAN]
  /\ \A p \in Process : promoted[p] => pc[p] \in {"write", "sync"}
  /\ lost \in [Kernel -> BOOLEAN]

LEMMA Assembled ==
  ASSUME TypeInv, UNCHANGED <<log, rules, history>>, ProcessInv',
         \A p \in Process : \A w \in todo'[p] : Sound(w)
  PROVE  TypeInv'
<1>1. /\ (log \in Seq(Experience) /\ Len(log) <= MaxRuns)'
      /\ RowsInv' /\ (won \in [Goals \X Act -> 0..MinRepeats])'
         /\ (shown \in [Goals \X Act -> 0..MinRepeats])'
      /\ \A w : Sound(w) => Sound(w)'
  BY TablesKept
<1>2. \A p \in Process : \A w \in todo'[p] : Sound(w)'
  BY <1>1
<1>3. QED
  BY <1>1, <1>2 DEF TypeInv, ProcessInv

LEMMA StartTypes ==
  ASSUME TypeInv, NEW p \in Process, StartCleanup(p) \/ LoadWindow(p) \/ Consolidated(p)
  PROVE  TypeInv'
<1>1. UNCHANGED <<log, rules, history, cache, todo, lost>>
  BY DEF StartCleanup, LoadWindow, Consolidated
<1>2. /\ pc \in [Process -> {"idle", "load", "rules", "write", "sync"}]
      /\ todo[p] = {} /\ (~Consolidated(p) => ~promoted[p])
  BY DEF TypeInv, StartCleanup, LoadWindow, Consolidated
<1>3. \E to \in {"idle", "load", "rules", "write", "sync"} :
        pc' = [pc EXCEPT ![p] = to] /\ (Consolidated(p) /\ promoted'[p] => to = "sync")
  <2>1. CASE StartCleanup(p)
    <3>1. pc' = [pc EXCEPT ![p] = "load"] /\ ~Consolidated(p)
      BY <2>1 DEF StartCleanup, Consolidated
    <3>2. QED
      BY <3>1
  <2>2. CASE LoadWindow(p)
    <3>1. pc' = [pc EXCEPT ![p] = "rules"] /\ ~Consolidated(p)
      BY <2>2 DEF LoadWindow, Consolidated
    <3>2. QED
      BY <3>1
  <2>3. CASE Consolidated(p)
    <3>1. promoted \in [Process -> BOOLEAN]
      BY DEF TypeInv
    <3>2. promoted'[p] => p \in Kernel /\ promoted[p]
      BY <2>3, <3>1, ZenonT(30) DEF Consolidated
    <3>3. pc' = [pc EXCEPT ![p] = IF p \in Kernel /\ promoted[p] THEN "sync" ELSE "idle"]
      BY <2>3 DEF Consolidated
    <3>4. CASE p \in Kernel /\ promoted[p]
      BY <3>3, <3>4
    <3>5. CASE ~(p \in Kernel /\ promoted[p])
      BY <3>2, <3>3, <3>5
    <3>6. QED
      BY <3>4, <3>5
  <2>4. QED
    BY <2>1, <2>2, <2>3
<1>4. promoted \in [Process -> BOOLEAN]
  BY DEF TypeInv
<1>5. /\ promoted' \in [Process -> BOOLEAN]
      /\ \A q \in Process \ {p} : promoted'[q] <=> promoted[q]
      /\ ~Consolidated(p) => ~promoted'[p]
  <2>1. CASE promoted' = promoted
    BY <1>2, <1>4, <2>1, Zenon
  <2>2. CASE Consolidated(p)
    <3>1. promoted' = [promoted EXCEPT ![p] = p \in Kernel /\ promoted[p]]
      BY <1>4, <2>2, ZenonT(30) DEF Consolidated
    <3>2. (p \in Kernel /\ promoted[p]) \in BOOLEAN
      OBVIOUS
    <3>3. QED
      BY <1>4, <2>2, <3>1, <3>2, ZenonT(30)
  <2>3. QED
    BY <2>1, <2>2 DEF StartCleanup, LoadWindow
<1>6. window' \in [Process -> 0..Len(log')]
  <2>1. window \in [Process -> 0..Len(log)] /\ Len(log) \in 0..Len(log) /\ log' = log
    BY <1>1, LenProperties DEF TypeInv
  <2>2. window' = window \/ window' = [window EXCEPT ![p] = Len(log)]
    BY DEF StartCleanup, LoadWindow, Consolidated
  <2>3. QED
    BY <2>1, <2>2
<1>7. /\ pc' \in [Process -> {"idle", "load", "rules", "write", "sync"}]
      /\ \A q \in Process \ {p} : pc'[q] = pc[q]
      /\ Consolidated(p) /\ promoted'[p] => pc'[p] = "sync"
  BY <1>2, <1>3
<1>8. \A q \in Process : promoted'[q] => pc'[q] \in {"write", "sync"}
  <2>1. \A q \in Process : promoted[q] => pc[q] \in {"write", "sync"}
    BY DEF TypeInv
  <2>2. QED
    BY <1>5, <1>7, <2>1
<1>9. \A q \in Process : todo'[q] # {} => pc'[q] = "write"
  BY <1>1, <1>2, <1>7 DEF TypeInv
<1>10. /\ cache' \in [Kernel -> SUBSET Promotion] /\ lost' \in [Kernel -> BOOLEAN]
       /\ todo' \in [Process -> SUBSET Planned]
       /\ \A q \in Process : \A w \in todo'[q] : Sound(w)
  BY <1>1 DEF TypeInv
<1>11. ProcessInv'
  BY <1>5, <1>6, <1>7, <1>8, <1>9, <1>10 DEF ProcessInv
<1>12. QED
  BY <1>1, <1>10, <1>11, Assembled

LEMMA LoadTypes ==
  ASSUME TypeInv, NEW p \in Process, Load(p)
  PROVE  TypeInv'
<1>1. UNCHANGED <<log, rules, history, cache, lost>>
  BY DEF Load
<1>2. Plan(window[p]) \subseteq Planned /\ \A w \in Plan(window[p]) : Sound(w)
  <2>1. window[p] \in 0..Len(log) /\ log \in Seq(Experience) /\ RowsInv
    BY DEF TypeInv
  <2>2. QED
    BY <2>1, PlanIs
<1>3. /\ todo' \in [Process -> SUBSET Planned]
      /\ \A q \in Process : \A w \in todo'[q] : Sound(w)
      /\ \A q \in Process \ {p} : todo'[q] = todo[q]
  <2> DEFINE plan == Plan(window[p])
  <2>1. todo' = [todo EXCEPT ![p] = plan] /\ todo \in [Process -> SUBSET Planned]
    BY DEF Load, TypeInv
  <2>2. \A q \in Process : \A w \in todo[q] : Sound(w)
    BY DEF TypeInv
  <2>3. plan \subseteq Planned /\ \A w \in plan : Sound(w)
    BY <1>2
  <2> HIDE DEF plan
  <2>4. \A q \in Process : todo'[q] = IF q = p THEN plan ELSE todo[q]
    BY <2>1
  <2>5. \A q \in Process : \A w \in todo'[q] : Sound(w)
    BY <2>2, <2>3, <2>4
  <2>6. QED
    BY <2>1, <2>3, <2>4, <2>5
<1>4. /\ pc' \in [Process -> {"idle", "load", "rules", "write", "sync"}]
      /\ \A q \in Process : pc'[q] = IF q = p THEN "write" ELSE pc[q]
  BY DEF TypeInv, Load
<1>5. window' \in [Process -> 0..Len(log')]
  <2>1. window \in [Process -> 0..Len(log)] /\ 0 \in 0..Len(log) /\ log' = log
    BY <1>1, LenProperties DEF TypeInv
  <2>2. QED
    BY <2>1 DEF Load
<1>6. /\ promoted' \in [Process -> BOOLEAN]
      /\ \A q \in Process : promoted'[q] => promoted[q]
  BY DEF TypeInv, Load
<1>7. \A q \in Process : promoted'[q] => pc'[q] \in {"write", "sync"}
  BY <1>4, <1>6 DEF TypeInv
<1>8. \A q \in Process : todo'[q] # {} => pc'[q] = "write"
  BY <1>3, <1>4 DEF TypeInv
<1>9. cache' \in [Kernel -> SUBSET Promotion] /\ lost' \in [Kernel -> BOOLEAN]
  BY <1>1 DEF TypeInv
<1>10. ProcessInv'
  BY <1>3, <1>4, <1>5, <1>6, <1>7, <1>8, <1>9 DEF ProcessInv
<1>11. QED
  BY <1>1, <1>3, <1>10, Assembled

LEMMA WriteTypes ==
  ASSUME TypeInv, NEW p \in Process, Write(p)
  PROVE  TypeInv'
<1>1. PICK w \in todo[p] : /\ rules' = Persist(w, p)
                           /\ todo' = [todo EXCEPT ![p] = @ \ {w}]
                           /\ promoted' = [promoted EXCEPT ![p] = @ \/ w.active]
  BY DEF Write
<1>2. UNCHANGED <<log, cache, pc, window, lost, history>> /\ pc[p] = "write"
  BY DEF Write
<1>3. w \in Planned /\ Sound(w) /\ RowsInv
  BY DEF TypeInv
<1>4. RowsInv'
  <2> DEFINE new == Persist(w, p)
  <2>1. /\ new \in Seq(Row)
        /\ \A i \in DOMAIN new : Sound(new[i]) /\ new[i].id \in 1..Len(new)
        /\ \A i, j \in DOMAIN new : new[i].id = new[j].id => i = j
    BY <1>3, PersistIs
  <2>2. rules' = new
    BY <1>1
  <2> HIDE DEF new
  <2>3. QED
    BY <2>1, <2>2 DEF RowsInv, Sound
<1>5. /\ todo' \in [Process -> SUBSET Planned]
      /\ \A q \in Process : todo'[q] \subseteq todo[q]
  BY <1>1 DEF TypeInv
<1>6. \A q \in Process : \A v \in todo'[q] : Sound(v)'
  BY <1>5 DEF TypeInv, Sound
<1>7. \A q \in Process : todo'[q] # {} => pc'[q] = "write"
  BY <1>2, <1>5 DEF TypeInv
<1>8. promoted \in [Process -> BOOLEAN]
  BY DEF TypeInv
<1>9. w.active \in BOOLEAN
  BY <1>3 DEF Planned
<1>10. promoted' \in [Process -> BOOLEAN]
  BY <1>1, <1>8, <1>9, ZenonT(30)
<1>11. \A q \in Process \ {p} : promoted'[q] <=> promoted[q]
  BY <1>1, <1>8, ZenonT(30)
<1>12. \A q \in Process : promoted'[q] => pc'[q] \in {"write", "sync"}
  BY <1>2, <1>11 DEF TypeInv
<1>13. /\ (log \in Seq(Experience) /\ Len(log) <= MaxRuns)'
       /\ (won \in [Goals \X Act -> 0..MinRepeats])'
       /\ (shown \in [Goals \X Act -> 0..MinRepeats])'
       /\ cache' \in [Kernel -> SUBSET Promotion] /\ lost' \in [Kernel -> BOOLEAN]
       /\ pc' \in [Process -> {"idle", "load", "rules", "write", "sync"}]
       /\ window' \in [Process -> 0..Len(log')]
  BY <1>2 DEF TypeInv, history
<1>14. QED
  BY <1>4, <1>5, <1>6, <1>7, <1>10, <1>12, <1>13 DEF TypeInv

\* The ways back to idle: nothing is left to write, nothing promoted.
LEMMA EndTypes ==
  ASSUME TypeInv, NEW p \in Process,
         MemoryFails(p) \/ (p \in Kernel /\ (Sync(p) \/ Restart(p)))
  PROVE  TypeInv'
<1>1. UNCHANGED <<log, rules, history>>
  BY DEF MemoryFails, Sync, Restart
<1>2. /\ pc' = [pc EXCEPT ![p] = "idle"]
      /\ promoted' = [promoted EXCEPT ![p] = FALSE]
      /\ (todo' = todo /\ todo[p] = {}) \/ todo' = [todo EXCEPT ![p] = {}]
      /\ window' = window \/ window' = [window EXCEPT ![p] = 0]
  BY DEF MemoryFails, Sync, Restart, TypeInv
<1>3. /\ pc' \in [Process -> {"idle", "load", "rules", "write", "sync"}]
      /\ \A q \in Process : pc'[q] = IF q = p THEN "idle" ELSE pc[q]
  BY <1>2 DEF TypeInv
<1>4. /\ promoted' \in [Process -> BOOLEAN]
      /\ \A q \in Process : promoted'[q] => q # p /\ promoted[q]
  BY <1>2 DEF TypeInv
<1>5. /\ todo' \in [Process -> SUBSET Planned]
      /\ \A q \in Process : todo'[q] \subseteq todo[q]
      /\ todo'[p] = {}
  BY <1>2 DEF TypeInv
<1>6. window' \in [Process -> 0..Len(log')]
  <2>1. window \in [Process -> 0..Len(log)] /\ 0 \in 0..Len(log) /\ log' = log
    BY <1>1, LenProperties DEF TypeInv
  <2>2. QED
    BY <1>2, <2>1
<1>7. cache' \in [Kernel -> SUBSET Promotion]
  <2>1. cache \in [Kernel -> SUBSET Promotion]
    BY DEF TypeInv
  <2>2. ActiveRules \in SUBSET Promotion /\ {} \in SUBSET Promotion
    BY ActiveIs DEF TypeInv
  <2>3. \/ cache' = cache \/ cache' = [cache EXCEPT ![p] = ActiveRules]
        \/ cache' = [cache EXCEPT ![p] = {}]
    BY DEF MemoryFails, Sync, Restart
  <2>4. QED
    BY <2>1, <2>2, <2>3
<1>8. lost' \in [Kernel -> BOOLEAN]
  <2>1. lost \in [Kernel -> BOOLEAN] /\ promoted \in [Process -> BOOLEAN]
    BY DEF TypeInv
  <2>2. CASE MemoryFails(p)
    <3>1. lost' = [k \in Kernel |-> IF k = p THEN lost[k] \/ promoted[k] ELSE lost[k]]
      BY <2>2 DEF MemoryFails
    <3>2. \A k \in Kernel : (IF k = p THEN lost[k] \/ promoted[k] ELSE lost[k]) \in BOOLEAN
      BY <2>1, Zenon
    <3>3. QED
      BY <3>1, <3>2, Zenon
  <2>3. CASE lost' = [lost EXCEPT ![p] = FALSE] \/ lost' = [lost EXCEPT ![p] = TRUE]
    BY <2>1, <2>3
  <2>4. QED
    BY <2>2, <2>3 DEF Sync, Restart
<1>9. /\ \A q \in Process : todo'[q] # {} => pc'[q] = "write"
      /\ \A q \in Process : promoted'[q] => pc'[q] \in {"write", "sync"}
      /\ \A q \in Process : \A w \in todo'[q] : Sound(w)
  BY <1>3, <1>4, <1>5 DEF TypeInv
<1>10. ProcessInv'
  BY <1>3, <1>4, <1>5, <1>6, <1>7, <1>8, <1>9 DEF ProcessInv
<1>11. QED
  BY <1>1, <1>9, <1>10, Assembled

LEMMA TypesKept == TypeInv /\ [Next]_vars => TypeInv'
<1> SUFFICES ASSUME TypeInv, [Next]_vars PROVE TypeInv'
  OBVIOUS
<1>0. \A x \in Kernel \cup Cleaner : x \in Process
  BY DEF Process
<1>1. ASSUME NEW k \in Kernel, NEW t \in Text, NEW a \in Act, Run(k, t, a) PROVE TypeInv'
  BY <1>1, RunTypes
<1>2. ASSUME NEW p \in Process, StartCleanup(p) \/ LoadWindow(p) \/ Consolidated(p)
      PROVE  TypeInv'
  BY <1>2, StartTypes
<1>3. ASSUME NEW p \in Process, Load(p) PROVE TypeInv'
  BY <1>3, LoadTypes
<1>4. ASSUME NEW p \in Process, Write(p) PROVE TypeInv'
  BY <1>4, WriteTypes
<1>5. ASSUME NEW p \in Process, MemoryFails(p) PROVE TypeInv'
  BY <1>5, EndTypes
<1>6. ASSUME NEW k \in Kernel, Sync(k) \/ Restart(k) PROVE TypeInv'
  BY <1>0, <1>6, EndTypes
<1>7. ASSUME UNCHANGED vars PROVE TypeInv'
  BY <1>7 DEF vars, history, TypeInv, RowsInv, Sound
<1>8. QED
  BY <1>0, <1>1, <1>2, <1>3, <1>4, <1>5, <1>6, <1>7 DEF Next

LEMMA TypesImplied == TypeInv => TypeOK
<1> SUFFICES ASSUME TypeInv PROVE TypeOK
  OBVIOUS
<1>1. \A r \in ToSet(rules) : SoundRow(r)
  <2> TAKE r \in ToSet(rules)
  <2>1. PICK i \in DOMAIN rules : r = rules[i]
    BY DEF ToSet
  <2>2. r \in Row /\ Sound(r)
    BY <2>1, RowsType DEF TypeInv, RowsInv
  <2>3. QED
    BY <2>2 DEF Row, Sound, SoundRow, Confidences
<1>2. log \in Seq([text : Text, act : Act, utility : Utilities]) /\ Len(log) <= MaxRuns
  BY DEF TypeInv, Experience
<1>3. \A i, j \in DOMAIN rules : rules[i].id = rules[j].id => i = j
  BY DEF TypeInv, RowsInv
<1>4. /\ cache \in [Kernel -> SUBSET Promotion]
      /\ pc \in [Process -> {"idle", "load", "rules", "write", "sync"}]
      /\ window \in [Process -> 0..Len(log)]
      /\ \A p \in Process : todo[p] # {} => pc[p] = "write"
      /\ \A p \in Process : promoted[p] => pc[p] \in {"write", "sync"}
      /\ lost \in [Kernel -> BOOLEAN]
      /\ {won, shown} \subseteq [Goals \X Act -> 0..MinRepeats]
  BY DEF TypeInv
<1>5. QED
  BY <1>1, <1>2, <1>3, <1>4, Zenon DEF TypeOK

\* Whatever processes, tasks, actions and windows there are, the parts fit
\* together at every step: experiences are scored, rows have ids of their own,
\* only confident rules are active, and nobody is left with a plan or a
\* promotion outside a consolidation.
THEOREM LearningTypes == Spec => []TypeOK
<1>1. Init => TypeInv
  BY InitTypes
<1>2. TypeInv /\ [Next]_vars => TypeInv'
  BY TypesKept
<1>3. TypeInv => TypeOK
  BY TypesImplied
<1>4. QED
  BY <1>1, <1>2, <1>3, PTL DEF Spec

-----------------------------------------------------------------------------
(* A kernel's own promotions reach its reflex engine.                      *)

\* A step that touches no row of the table and keeps a promotion that is on its
\* way to the copy, or was lost.
LEMMA CacheStays ==
  ASSUME CacheInv, rules' = rules,
         \A k \in Kernel : \/ /\ cache'[k] = cache[k]
                              /\ promoted[k] \/ lost[k] => promoted'[k] \/ lost'[k]
                           \/ lost'[k]
                           \/ cache'[k] = ActiveRules,
         RowsInv
  PROVE  CacheInv'
<1> SUFFICES ASSUME NEW k \in Kernel, NEW i \in DOMAIN rules,
                    rules[i].active, rules[i].by = k
             PROVE  Key(rules[i]) \in cache'[k] \/ promoted'[k] \/ lost'[k]
  BY DEF CacheInv, Key
<1>1. Key(rules[i]) \in cache[k] \/ promoted[k] \/ lost[k]
  BY DEF CacheInv
<1>2. Key(rules[i]) \in ActiveRules
  BY ActiveIs
<1>3. CASE cache'[k] = cache[k] /\ (promoted[k] \/ lost[k] => promoted'[k] \/ lost'[k])
  BY <1>1, <1>3, Zenon
<1>4. CASE lost'[k]
  BY <1>4, Zenon
<1>5. CASE cache'[k] = ActiveRules
  BY <1>2, <1>5, Zenon
<1>6. QED
  BY <1>3, <1>4, <1>5

LEMMA CacheStep == TypeInv /\ CacheInv /\ [Next]_vars => CacheInv'
<1> SUFFICES ASSUME TypeInv, CacheInv, [Next]_vars PROVE CacheInv'
  OBVIOUS
<1> USE DEF Process
<1>0. /\ RowsInv /\ promoted \in [Process -> BOOLEAN] /\ lost \in [Kernel -> BOOLEAN]
      /\ cache \in [Kernel -> SUBSET Promotion] /\ Kernel \subseteq Process
      /\ \A p \in Process : promoted[p] => pc[p] \in {"write", "sync"}
  BY DEF TypeInv
<1>1. CASE UNCHANGED <<rules, cache, promoted, lost>>
  <2>1. \A k \in Kernel :
          cache'[k] = cache[k] /\ (promoted[k] \/ lost[k] => promoted'[k] \/ lost'[k])
    BY <1>1, Zenon
  <2>2. QED
    BY <1>0, <1>1, <2>1, CacheStays
<1>2. ASSUME NEW p \in Process, Load(p)
      PROVE  CacheInv'
  <2>1. /\ UNCHANGED <<rules, cache, lost>>
        /\ ~promoted[p] /\ promoted' = [promoted EXCEPT ![p] = FALSE]
    BY <1>0, <1>2 DEF Load
  <2>2. promoted' = promoted
    BY <1>0, <2>1
  <2>3. QED
    BY <1>1, <2>1, <2>2
<1>3. ASSUME NEW p \in Process, Consolidated(p)
      PROVE  CacheInv'
  <2>1. UNCHANGED <<rules, cache, lost>>
    BY <1>3 DEF Consolidated
  <2>2. \A k \in Kernel : promoted[k] => promoted'[k]
    <3>1. promoted' = [promoted EXCEPT ![p] = p \in Kernel /\ promoted[p]]
      BY <1>0, <1>3, ZenonT(30) DEF Consolidated
    <3>2. ASSUME NEW k \in Kernel, promoted[k] PROVE promoted'[k]
      BY <1>0, <3>1, <3>2, ZenonT(30)
    <3>3. QED
      BY <3>2
  <2>3. \A k \in Kernel :
          cache'[k] = cache[k] /\ (promoted[k] \/ lost[k] => promoted'[k] \/ lost'[k])
    BY <2>1, <2>2, Zenon
  <2>4. QED
    BY <1>0, <2>1, <2>3, CacheStays
<1>4. ASSUME NEW p \in Process, Write(p)
      PROVE  CacheInv'
  <2>1. PICK w \in todo[p] : /\ rules' = Persist(w, p)
                             /\ promoted' = [promoted EXCEPT ![p] = @ \/ w.active]
    BY <1>4 DEF Write
  <2>2. UNCHANGED <<cache, lost>> /\ w \in Planned /\ Sound(w)
    BY <1>4 DEF Write, TypeInv
  <2>3. (w.active => promoted'[p]) /\ \A k \in Kernel : promoted[k] => promoted'[k]
    <3>1. w.active => promoted'[p]
      BY <1>0, <2>1, ZenonT(30)
    <3>2. ASSUME NEW k \in Kernel, promoted[k] PROVE promoted'[k]
      BY <1>0, <2>1, <3>2, ZenonT(30)
    <3>3. QED
      BY <3>1, <3>2
  <2>4. ASSUME NEW k \in Kernel, NEW i \in DOMAIN rules', rules'[i].active, rules'[i].by = k
        PROVE  Key(rules'[i]) \in cache'[k] \/ promoted'[k] \/ lost'[k]
    <3>1. \/ \E j \in DOMAIN rules : rules'[i] = rules[j]
          \/ \E id \in Nat : rules'[i] = Made(w, p, id)
      BY <1>0, <2>1, <2>2, <2>4, PersistIs
    <3>2. CASE \E j \in DOMAIN rules : rules'[i] = rules[j]
      <4>1. PICK j \in DOMAIN rules : rules'[i] = rules[j]
        BY <3>2
      <4>2. Key(rules[j]) \in cache[k] \/ promoted[k] \/ lost[k]
        BY <2>4, <4>1, Zenon DEF CacheInv
      <4>3. QED
        BY <2>2, <2>3, <4>1, <4>2, Zenon
    <3>3. CASE \E id \in Nat : rules'[i] = Made(w, p, id)
      <4>1. PICK id \in Nat : rules'[i] = Made(w, p, id)
        BY <3>3
      <4>2. rules'[i].by = p /\ (rules'[i].active <=> w.active)
        <5>1. Made(w, p, id).by = p /\ Made(w, p, id).active = w.active
          BY DEF Made
        <5>2. QED
          BY <4>1, <5>1, Zenon
      <4>3. QED
        BY <2>3, <2>4, <4>2, Zenon
    <3>4. QED
      BY <3>1, <3>2, <3>3
  <2>5. \A k \in Kernel : \A i \in DOMAIN rules' :
          rules'[i].active /\ rules'[i].by = k =>
            Key(rules'[i]) \in cache'[k] \/ promoted'[k] \/ lost'[k]
    BY <2>4
  <2>6. QED
    BY <2>5 DEF CacheInv, Key
<1>5. ASSUME NEW p \in Process, MemoryFails(p)
      PROVE  CacheInv'
  <2>1. /\ UNCHANGED <<rules, cache>>
        /\ promoted' = [promoted EXCEPT ![p] = FALSE]
        /\ lost' = [k \in Kernel |-> IF k = p THEN lost[k] \/ promoted[k] ELSE lost[k]]
    BY <1>5 DEF MemoryFails
  <2>2. ASSUME NEW k \in Kernel, promoted[k] \/ lost[k] PROVE promoted'[k] \/ lost'[k]
    <3>1. CASE k = p
      <4>1. lost'[k] <=> lost[k] \/ promoted[k]
        BY <2>1, <3>1, Zenon
      <4>2. QED
        BY <2>2, <4>1, Zenon
    <3>2. CASE k # p
      <4>1. (lost'[k] <=> lost[k]) /\ (promoted'[k] <=> promoted[k])
        BY <1>0, <2>1, <3>2, Zenon
      <4>2. QED
        BY <2>2, <4>1, Zenon
    <3>3. QED
      BY <3>1, <3>2
  <2>3. \A k \in Kernel :
          cache'[k] = cache[k] /\ (promoted[k] \/ lost[k] => promoted'[k] \/ lost'[k])
    BY <2>1, <2>2, Zenon
  <2>4. QED
    BY <1>0, <2>1, <2>3, CacheStays
<1>6. ASSUME NEW p \in Kernel, Sync(p) \/ Restart(p)
      PROVE  CacheInv'
  <2>1. /\ rules' = rules /\ promoted' = [promoted EXCEPT ![p] = FALSE]
        /\ \/ cache' = [cache EXCEPT ![p] = ActiveRules] /\ lost' = [lost EXCEPT ![p] = FALSE]
           \/ cache' = [cache EXCEPT ![p] = {}] /\ lost' = [lost EXCEPT ![p] = TRUE]
    BY <1>6 DEF Sync, Restart
  <2>2. cache'[p] = ActiveRules \/ lost'[p]
    BY <1>0, <2>1
  <2>3. \A k \in Kernel \ {p} :
          cache'[k] = cache[k] /\ (promoted[k] \/ lost[k] => promoted'[k] \/ lost'[k])
    <3>1. ASSUME NEW k \in Kernel \ {p}
          PROVE  cache'[k] = cache[k] /\ (promoted'[k] <=> promoted[k]) /\ (lost'[k] <=> lost[k])
      BY <1>0, <2>1, Zenon
    <3>2. QED
      BY <3>1, Zenon
  <2>4. \A k \in Kernel : \/ /\ cache'[k] = cache[k]
                             /\ promoted[k] \/ lost[k] => promoted'[k] \/ lost'[k]
                          \/ lost'[k]
                          \/ cache'[k] = ActiveRules
    BY <2>2, <2>3, Zenon
  <2>5. QED
    BY <1>0, <2>1, <2>4, CacheStays
<1>7. ASSUME NEW k \in Kernel, NEW t \in Text, NEW a \in Act, Run(k, t, a)
      PROVE  CacheInv'
  BY <1>1, <1>7 DEF Run
<1>8. ASSUME NEW p \in Process, StartCleanup(p) \/ LoadWindow(p)
      PROVE  CacheInv'
  BY <1>1, <1>8 DEF StartCleanup, LoadWindow
<1>9. CASE UNCHANGED vars
  BY <1>1, <1>9 DEF vars, history
<1>10. QED
  BY <1>2, <1>3, <1>4, <1>5, <1>6, <1>7, <1>8, <1>9 DEF Next

\* Between two steps a kernel's reflex engine holds the active rules the kernel
\* itself promoted, whatever other processes wrote in between, unless an error
\* ended the way to the copy.
THEOREM LearningTakesEffect == Spec => []PromotionsReachCache
<1>1. Init => TypeInv
  BY InitTypes
<1>2. TypeInv /\ [Next]_vars => TypeInv'
  BY TypesKept
<1>3. Init => CacheInv
  BY DEF Init, CacheInv
<1>4. TypeInv /\ CacheInv /\ [Next]_vars => CacheInv'
  BY CacheStep
<1>5. TypeInv /\ CacheInv => PromotionsReachCache
  <2> SUFFICES ASSUME TypeInv, CacheInv, NEW k \in Kernel, pc[k] = "idle", ~lost[k],
                      NEW r \in ToSet(rules), r.active, r.by = k
               PROVE  Key(r) \in cache[k]
    BY DEF PromotionsReachCache, Key
  <2>1. PICK i \in DOMAIN rules : r = rules[i]
    BY DEF ToSet
  <2>2. ~promoted[k]
    BY DEF TypeInv, Process
  <2>3. QED
    BY <2>1, <2>2 DEF CacheInv
<1>6. QED
  BY <1>1, <1>2, <1>3, <1>4, <1>5, PTL DEF Spec

-----------------------------------------------------------------------------
(* Reflexes are earned.                                                    *)

Good == {u \in Utilities : u >= MinUtility}

LEMMA WinsAre ==
  ASSUME log \in Seq(Experience), NEW g, NEW a
  PROVE  /\ IsFiniteSet(Wins(g, a)) /\ Wins(g, a) \subseteq DOMAIN log
         /\ Cardinality(Wins(g, a)) \in Nat
<1>1. Len(log) \in Nat /\ DOMAIN log = 1..Len(log)
  BY LenProperties
<1>2. IsFiniteSet(1..Len(log))
  <2>1. 1 \in Int /\ Len(log) \in Int
    BY <1>1
  <2>2. QED
    BY <2>1, FS_Interval
<1>3. Wins(g, a) \in SUBSET (1..Len(log))
  BY <1>1 DEF Wins
<1>4. QED
  BY <1>1, <1>2, <1>3, FS_Subset, FS_CardinalityType

\* What a consolidation promotes has been earned, whatever the window shows.
LEMMA PlanIsEarned ==
  ASSUME TypeInv, EarnedInv, NEW n \in 0..Len(log), NEW w \in Plan(n), w.active
  PROVE  Earned(w.goal, w.act)
<1>1. /\ log \in Seq(Experience) /\ RowsInv /\ won \in [Goals \X Act -> 0..MinRepeats]
      /\ shown \in [Goals \X Act -> 0..MinRepeats]
  BY DEF TypeInv
<1> DEFINE g == w.goal
           a == w.act
           es == Matching(n, g, a)
<1>2. w \in Planned /\ IsPattern(es) /\ ShouldPromote(es)
  BY <1>1, PlanIs
<1>3. g \in Goals /\ a \in Act
  BY <1>2 DEF Planned
<1> HIDE DEF g, a
<1>4. /\ IsFiniteSet(es) /\ es \subseteq DOMAIN log
      /\ \A i \in es : Goal[log[i].text] = g /\ log[i].act = a
  BY <1>1, MatchingIs
<1> SUFFICES Backing(g, a) >= MinRepeats
  BY DEF Earned, g, a
<1> DEFINE wins == Wins(g, a)
           hits == {i \in es : log[i].utility \in Good}
<1>6. Cardinality(hits) >= MinRepeats
  <2>1. Successes(es) = Cardinality(hits)
    BY Zenon DEF Successes, Scored, Good
  <2>2. Successes(es) >= MinRepeats
    <3> HIDE DEF es
    <3>1. QED
      BY <1>2, <1>4, PromotedIsEarned, Zenon
  <2>3. QED
    BY <2>1, <2>2
<1>7. IsFiniteSet(wins) /\ Cardinality(wins) \in Nat
  BY <1>1, WinsAre
<1>8. hits \in SUBSET wins
  <2> HIDE DEF es
  <2>1. QED
    BY <1>4 DEF Wins, Good
<1>9. Cardinality(hits) \in Nat /\ Cardinality(hits) <= Cardinality(wins)
  <2> HIDE DEF hits, wins
  <2>1. QED
    BY <1>7, <1>8, FS_Subset, FS_CardinalityType
<1>10. Backing(g, a) >= MinRepeats \/ Cardinality(wins) <= Backing(g, a)
  BY <1>3 DEF EarnedInv, WinsInv
<1>11. Backing(g, a) \in Nat
  BY <1>1, <1>3 DEF Backing, MinRepeats
<1> HIDE DEF hits, wins
<1>12. QED
  BY <1>6, <1>7, <1>9, <1>10, <1>11 DEF MinRepeats

LEMMA RunScores ==
  ASSUME TypeInv, EarnedInv, NEW k \in Kernel, NEW t \in Text, NEW a \in Act, Run(k, t, a)
  PROVE  EarnedInv'
<1>1. PICK e \in Experience :
        /\ log' = Append(log, e)
        /\ e.text = t /\ e.act = a
        /\ e.utility >= MinUtility =>
             Backing(Goal[t], a)' >= MinRepeats \/ Backing(Goal[t], a)' > Backing(Goal[t], a)
  BY RunIs
<1>2. \A g \in Goals, b \in Act :
        /\ Backing(g, b) \in Nat /\ Backing(g, b)' \in Nat /\ Backing(g, b)' >= Backing(g, b)
  BY RunIs
<1>3. /\ log' \in Seq(Experience) /\ Len(log) \in Nat
      /\ DOMAIN log' = 1..(Len(log) + 1) /\ DOMAIN log = 1..Len(log)
      /\ \A i \in DOMAIN log : log'[i] = log[i]
  BY RunIs
<1>4. log'[Len(log) + 1] = e
  BY <1>1, AppendProperties DEF TypeInv
<1>5. WinsInv'
  <2> SUFFICES ASSUME NEW g \in Goals, NEW b \in Act
               PROVE  Backing(g, b)' >= MinRepeats \/ Cardinality(Wins(g, b))' <= Backing(g, b)'
    BY DEF WinsInv
  <2> DEFINE old == Wins(g, b)
             new == Wins(g, b)'
             n == Len(log) + 1
  <2>1. new = {i \in DOMAIN log' : Goal[log'[i].text] = g /\ log'[i].act = b
                                /\ log'[i].utility \in Good}
    BY DEF Wins, Good
  <2>2. old = {i \in DOMAIN log : Goal[log[i].text] = g /\ log[i].act = b
                                /\ log[i].utility \in Good}
    BY DEF Wins, Good
  <2>3. IsFiniteSet(old) /\ Cardinality(old) \in Nat /\ n \notin old
    BY <1>3, WinsAre DEF TypeInv
  <2>4. Backing(g, b) >= MinRepeats \/ Cardinality(old) <= Backing(g, b)
    BY DEF EarnedInv, WinsInv
  <2>5. Backing(g, b) \in Nat /\ Backing(g, b)' \in Nat /\ Backing(g, b)' >= Backing(g, b)
    BY <1>2
  <2> HIDE DEF old, new
  <2>6. CASE Goal[e.text] = g /\ e.act = b /\ e.utility \in Good
    <3>1. new = old \cup {n}
      BY <1>3, <1>4, <2>1, <2>2, <2>6
    <3>2. Cardinality(new) = Cardinality(old) + 1
      BY <2>3, <3>1, FS_AddElement
    <3>3. Goal[t] = g /\ a = b /\ e.utility >= MinUtility
      BY <1>1, <2>6 DEF Good
    <3>4. Backing(g, b)' >= MinRepeats \/ Backing(g, b)' > Backing(g, b)
      BY <1>1, <3>3
    <3>5. Backing(g, b)' >= MinRepeats \/ Cardinality(new) <= Backing(g, b)'
      BY <2>3, <2>4, <2>5, <3>2, <3>4 DEF MinRepeats
    <3>6. QED
      BY <3>5 DEF new
  <2>7. CASE ~(Goal[e.text] = g /\ e.act = b /\ e.utility \in Good)
    <3>1. new = old
      BY <1>3, <1>4, <2>1, <2>2, <2>7
    <3>2. Backing(g, b)' >= MinRepeats \/ Cardinality(new) <= Backing(g, b)'
      BY <2>3, <2>4, <2>5, <3>1 DEF MinRepeats
    <3>3. QED
      BY <3>2 DEF new
  <2>8. QED
    BY <2>6, <2>7
<1>9. ASSUME NEW g \in Goals, NEW b \in Act, Earned(g, b) PROVE Earned(g, b)'
  BY <1>2, <1>9 DEF Earned, MinRepeats
<1>10. RulesInv'
  <2>1. UNCHANGED <<rules, cache, todo>>
    BY DEF Run
  <2>2. ASSUME NEW i \in DOMAIN rules, rules[i].active
        PROVE  Earned(rules[i].goal, rules[i].act)'
    <3>1. rules[i].goal \in Goals /\ rules[i].act \in Act
      BY RowsType DEF TypeInv, Row
    <3>2. Earned(rules[i].goal, rules[i].act)
      BY <2>2 DEF EarnedInv, RulesInv
    <3>3. \A g \in Goals, b \in Act :
            Earned(g, b) => won'[<<g, b>>] + shown'[<<g, b>>] >= MinRepeats
      BY <1>9 DEF Earned, Backing, MinRepeats
    <3>4. won'[<<rules[i].goal, rules[i].act>>] + shown'[<<rules[i].goal, rules[i].act>>]
            >= MinRepeats
      BY <3>1, <3>2, <3>3
    <3>5. QED
      BY <2>1, <3>4 DEF Earned, Backing, MinRepeats
  <2>3. ASSUME NEW p \in Process, NEW w \in todo[p], w.active
        PROVE  Earned(w.goal, w.act)'
    <3>1. w.goal \in Goals /\ w.act \in Act
      BY DEF TypeInv, Planned
    <3>2. Earned(w.goal, w.act)
      BY <2>3 DEF EarnedInv, RulesInv
    <3>3. QED
      BY <1>9, <3>1, <3>2
  <2>4. ASSUME NEW c \in Kernel, NEW r \in cache[c]
        PROVE  Earned(r.goal, r.act)'
    <3>1. r.goal \in Goals /\ r.act \in Act
      BY DEF TypeInv, Promotion
    <3>2. Earned(r.goal, r.act)
      BY DEF EarnedInv, RulesInv
    <3>3. QED
      BY <1>9, <3>1, <3>2
  <2>5. QED
    BY <2>1, <2>2, <2>3, <2>4 DEF RulesInv
<1>11. QED
  BY <1>5, <1>10 DEF EarnedInv

\* The steps that record nothing.
LEMMA ScoresKept ==
  ASSUME EarnedInv, UNCHANGED <<log, history>>
  PROVE  WinsInv'
BY DEF EarnedInv, WinsInv, Wins, Backing, history

LEMMA EarnedStep == TypeInv /\ EarnedInv /\ [Next]_vars => EarnedInv'
<1> SUFFICES ASSUME TypeInv, EarnedInv, [Next]_vars PROVE EarnedInv'
  OBVIOUS
<1> USE DEF Process
<1>0. RowsInv /\ todo \in [Process -> SUBSET Planned] /\ cache \in [Kernel -> SUBSET Promotion]
  BY DEF TypeInv
<1>1. ASSUME NEW k \in Kernel, NEW t \in Text, NEW a \in Act, Run(k, t, a) PROVE EarnedInv'
  BY <1>1, RunScores
<1>2. ASSUME UNCHANGED <<log, history, rules>>,
             \A p \in Process : \A w \in todo'[p] :
               w \in todo[p] \/ (w.active => Earned(w.goal, w.act)),
             \A k \in Kernel : \A r \in cache'[k] : r \in cache[k] \/ r \in ActiveRules
      PROVE  EarnedInv'
  <2>1. WinsInv'
    BY <1>2, ScoresKept
  <2>2. \A i \in DOMAIN rules : rules[i].active => Earned(rules[i].goal, rules[i].act)
    BY DEF EarnedInv, RulesInv
  <2>3. \A p \in Process : \A w \in todo'[p] : w.active => Earned(w.goal, w.act)
    BY <1>2 DEF EarnedInv, RulesInv
  <2>4. ASSUME NEW k \in Kernel, NEW r \in cache'[k] PROVE Earned(r.goal, r.act)
    <3>1. CASE r \in cache[k]
      BY <3>1 DEF EarnedInv, RulesInv
    <3>2. CASE r \in ActiveRules
      <4>1. PICK i \in DOMAIN rules : rules[i].active /\ r = Key(rules[i])
        BY <1>0, <3>2, ActiveIs
      <4>2. r.goal = rules[i].goal /\ r.act = rules[i].act
        BY <4>1 DEF Key
      <4>3. QED
        BY <2>2, <4>1, <4>2
    <3>3. QED
      BY <1>2, <2>4, <3>1, <3>2
  <2>5. RulesInv'
    <3>1. \A k \in Kernel : \A r \in cache'[k] : Earned(r.goal, r.act)
      BY <2>4
    <3>2. QED
      BY <1>2, <2>2, <2>3, <3>1 DEF RulesInv, Earned, Backing, history
  <2>6. QED
    BY <2>1, <2>5 DEF EarnedInv
<1>3. ASSUME NEW p \in Process, Load(p) PROVE EarnedInv'
  <2> DEFINE plan == Plan(window[p])
  <2>1. todo' = [todo EXCEPT ![p] = plan] /\ UNCHANGED <<log, history, rules, cache>>
    BY <1>3 DEF Load
  <2>2. \A w \in plan : w.active => Earned(w.goal, w.act)
    <3>1. window[p] \in 0..Len(log)
      BY DEF TypeInv
    <3>2. QED
      BY <3>1, PlanIsEarned
  <2> HIDE DEF plan
  <2>3. \A q \in Process : \A w \in todo'[q] : w \in todo[q] \/ w \in plan
    BY <1>0, <2>1
  <2>4. QED
    BY <1>2, <2>1, <2>2, <2>3
<1>4. ASSUME NEW p \in Process, Write(p) PROVE EarnedInv'
  <2>1. PICK w \in todo[p] : rules' = Persist(w, p) /\ todo' = [todo EXCEPT ![p] = @ \ {w}]
    BY <1>4 DEF Write
  <2>2. UNCHANGED <<log, history, cache>> /\ w \in Planned /\ Sound(w)
    BY <1>4 DEF Write, TypeInv
  <2>3. WinsInv'
    BY <2>2, ScoresKept
  <2>4. ASSUME NEW i \in DOMAIN rules', rules'[i].active
        PROVE  Earned(rules'[i].goal, rules'[i].act)
    <3>1. \/ \E j \in DOMAIN rules : rules'[i] = rules[j]
          \/ \E id \in Nat : rules'[i] = Made(w, p, id)
      BY <1>0, <2>1, <2>2, <2>4, PersistIs
    <3>2. CASE \E j \in DOMAIN rules : rules'[i] = rules[j]
      BY <2>4, <3>2, Zenon DEF EarnedInv, RulesInv
    <3>3. CASE \E id \in Nat : rules'[i] = Made(w, p, id)
      <4>1. PICK id \in Nat : rules'[i] = Made(w, p, id)
        BY <3>3
      <4>2. /\ Made(w, p, id).goal = w.goal /\ Made(w, p, id).act = w.act
            /\ Made(w, p, id).active = w.active
        BY DEF Made
      <4>3. w.active => Earned(w.goal, w.act)
        BY <2>1, Zenon DEF EarnedInv, RulesInv
      <4>4. QED
        BY <2>4, <4>1, <4>2, <4>3, Zenon
    <3>4. QED
      BY <3>1, <3>2, <3>3
  <2>5. RulesInv'
    <3>1. \A i \in DOMAIN rules' : rules'[i].active => Earned(rules'[i].goal, rules'[i].act)
      BY <2>4
    <3>2. \A q \in Process : todo'[q] \subseteq todo[q]
      BY <1>0, <2>1
    <3>3. \A q \in Process : \A v \in todo'[q] : v.active => Earned(v.goal, v.act)
      BY <3>2, Zenon DEF EarnedInv, RulesInv
    <3>4. \A k \in Kernel : \A r \in cache'[k] : Earned(r.goal, r.act)
      BY <2>2, Zenon DEF EarnedInv, RulesInv
    <3>5. QED
      BY <2>2, <3>1, <3>3, <3>4 DEF RulesInv, Earned, Backing, history
  <2>6. QED
    BY <2>3, <2>5 DEF EarnedInv
<1>5. ASSUME NEW p \in Process,
             MemoryFails(p) \/ StartCleanup(p) \/ LoadWindow(p) \/ Consolidated(p)
      PROVE  EarnedInv'
  <2>1. /\ UNCHANGED <<log, history, rules, cache>>
        /\ todo' = todo \/ todo' = [todo EXCEPT ![p] = {}]
    BY <1>5 DEF MemoryFails, StartCleanup, LoadWindow, Consolidated
  <2>2. \A q \in Process : todo'[q] \subseteq todo[q]
    BY <1>0, <2>1
  <2>3. QED
    BY <1>2, <2>1, <2>2
<1>6. ASSUME NEW p \in Kernel, Sync(p) \/ Restart(p) PROVE EarnedInv'
  <2>1. /\ UNCHANGED <<log, history, rules>> /\ (todo' = todo \/ todo' = [todo EXCEPT ![p] = {}])
        /\ cache' = [cache EXCEPT ![p] = ActiveRules] \/ cache' = [cache EXCEPT ![p] = {}]
    BY <1>6 DEF Sync, Restart
  <2>2. \A q \in Process : todo'[q] \subseteq todo[q]
    BY <1>0, <2>1
  <2>3. \A k \in Kernel : \A r \in cache'[k] : r \in cache[k] \/ r \in ActiveRules
    BY <1>0, <2>1
  <2>4. QED
    BY <1>2, <2>1, <2>2, <2>3
<1>7. CASE UNCHANGED vars
  BY <1>2, <1>7 DEF vars, history
<1>8. QED
  BY <1>1, <1>3, <1>4, <1>5, <1>6, <1>7 DEF Next

\* A reflex engine holds an action for a task only after three runs of it for
\* tasks of the same goal that really succeeded or showed the change they were
\* expected to make, for any window, whatever other processes wrote, failed or
\* were restarted in between.
THEOREM ReflexesAreEarned == Spec => []ReflexBacked
<1>1. Init => TypeInv
  BY InitTypes
<1>2. TypeInv /\ [Next]_vars => TypeInv'
  BY TypesKept
<1>3. Init => EarnedInv
  <2> SUFFICES ASSUME Init PROVE EarnedInv
    OBVIOUS
  <2>1. log = <<>> /\ DOMAIN log = {} /\ DOMAIN rules = {}
    BY DEF Init
  <2>3. WinsInv
    <3>1. \A g, a : Wins(g, a) = {}
      BY <2>1 DEF Wins
    <3>2. Cardinality({}) = 0
      BY FS_EmptySet
    <3>3. \A g \in Goals, a \in Act : Backing(g, a) = 0
      BY DEF Init, Backing
    <3>4. QED
      BY <3>1, <3>2, <3>3 DEF WinsInv
  <2>4. RulesInv
    BY <2>1 DEF Init, RulesInv
  <2>5. QED
    BY <2>3, <2>4 DEF EarnedInv
<1>4. TypeInv /\ EarnedInv /\ [Next]_vars => EarnedInv'
  BY EarnedStep
<1>5. EarnedInv => ReflexBacked
  BY DEF EarnedInv, RulesInv, Earned, Backing, ReflexBacked
<1>6. QED
  BY <1>1, <1>2, <1>3, <1>4, <1>5, PTL DEF Spec
=============================================================================
