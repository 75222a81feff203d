-------------------------- MODULE MemoryStoreProofs ---------------------------
(***************************************************************************)
(* Proofs about MemoryStore, for any number of workers and cleanups, any   *)
(* patterns and any limits.                                                *)
(***************************************************************************)
EXTENDS MemoryStore, FiniteSetTheorems, SequenceTheorems, TLAPS

PC == {"idle", "stamped", "inserted", "read", "load", "write", "map", "select", "trim",
       "trimLog", "decay"}

\* What the processes hold; whatever they have read of the knowledge is still
\* there, under the same key.
ProcessesOK ==
  /\ pc \in [Process -> PC]
  /\ patterns \subseteq Pattern
  /\ todo \in [Process -> SUBSET Pattern]
  /\ known \in [Process -> Seq(Knowledge)]
  /\ \A p \in Process : \A i \in DOMAIN known[p] :
       /\ known[p][i].id \in DOMAIN nodes
       /\ nodes[known[p][i].id].key = known[p][i].key
  /\ overlap \in BOOLEAN /\ torn \in BOOLEAN

\* The tables of the timeline and what their writers hold.
EventsOK ==
  /\ IsFiniteSet(ever) /\ ever \subseteq Event
  /\ timeline \subseteq ever /\ stateLog \subseteq logged /\ logged \subseteq ever
  /\ clock \in 0..MaxClock
  /\ event \in [Worker -> SUBSET Event]
  /\ \A w \in Worker :
       /\ event[w] # {} <=> pc[w] \in {"stamped", "inserted"}
       /\ pc[w] = "inserted" => event[w] \subseteq ever
       /\ event[w] = {} \/ \E e \in Event : event[w] = {e}
  /\ cut \in [Cleaner -> Nat]

\* The tables of the knowledge; a node that is being stored has no number yet
\* and is stored by one process.
KnowledgeOK ==
  /\ nodes \in Seq(Knowledge)
  /\ \A i \in DOMAIN nodes : nodes[i].id = i
  /\ ids \in Seq(DOMAIN nodes) /\ IsInjective(ids)
  /\ vec \subseteq DOMAIN ids
  /\ \A pair \in fts : pair[1] \in docs
  /\ new \in [Process -> Nat]
  /\ \A p \in Process : new[p] # 0 <=> pc[p] = "map"
  /\ \A p \in Process : new[p] # 0 =>
       new[p] \in DOMAIN nodes /\ \A r \in DOMAIN ids : ids[r] # new[p]
  /\ \A p, q \in Process : new[p] = new[q] => new[p] = 0 \/ p = q

TypeInv == ProcessesOK /\ EventsOK /\ KnowledgeOK

-----------------------------------------------------------------------------
(* Numbers.                                                                *)

LEMMA LeastNumber ==
  ASSUME NEW T, T \subseteq Nat, T # {}
  PROVE  \E n \in T : \A m \in T : n <= m
<1>1. PICK n \in T : \A m \in T : <<m, n>> \notin OpToRel(<, Nat)
  BY NatLessThanWellFounded, WFMin
<1>2. \A m \in T : ~ (m < n)
  BY <1>1 DEF OpToRel
<1>3. QED
  BY <1>2

\* The first index of some.
LEMMA MinIs ==
  ASSUME NEW T, T \subseteq Nat, T # {}
  PROVE  Min(T) \in T /\ \A m \in T : Min(T) <= m
BY LeastNumber DEF Min

\* Decay keeps a confidence in its range.
LEMMA DecayedRange ==
  ASSUME NEW x \in 0..98 PROVE Decayed(x) \in 0..98
BY DEF Decayed, Floor
-----------------------------------------------------------------------------
(* The timeline.                                                           *)

\* Storing and numbering knowledge, reading it and recording experiences leave
\* the timeline alone, and no process of theirs holds an event.
LEMMA EventsUntouched ==
  ASSUME ProcessesOK, EventsOK, NEW p \in Process,
         UNCHANGED <<events, cut>>,
         pc[p] \notin {"stamped", "inserted"},
         NEW to \in PC \ {"stamped", "inserted"}, pc' = [pc EXCEPT ![p] = to]
  PROVE  EventsOK'
BY DEF EventsOK, ProcessesOK, events, Process

LEMMA EventsInductive ==
  ASSUME ProcessesOK, EventsOK, [Next]_vars
  PROVE  EventsOK'
<1>1. ASSUME NEW w \in Worker, Stamp(w) PROVE EventsOK'
  <2>1. PICK now \in {clock, clock + 1} \cap 1..MaxClock :
          /\ clock' = now
          /\ event' = [event EXCEPT ![w] =
               {[ts |-> now, by |-> w, nr |-> Cardinality({e \in ever : e.by = w})]}]
    BY <1>1 DEF Stamp
  <2>2. Cardinality({e \in ever : e.by = w}) \in Nat
    <3>1. IsFiniteSet({e \in ever : e.by = w})
      BY FS_Subset DEF EventsOK
    <3>2. QED
      BY <3>1, FS_CardinalityType
  <2>3. PICK e \in Event : event' = [event EXCEPT ![w] = {e}]
    BY <2>1, <2>2 DEF Event
  <2>4. pc[w] = "idle" /\ pc' = [pc EXCEPT ![w] = "stamped"]
        /\ UNCHANGED <<timeline, stateLog, ever, logged, cut>>
    BY <1>1 DEF Stamp, Moves
  <2>5. clock' \in 0..MaxClock
    BY <2>1 DEF EventsOK
  <2>6. QED
    BY <2>3, <2>4, <2>5 DEF EventsOK, ProcessesOK, Process
<1>2. ASSUME NEW w \in Worker, InsertEvent(w) PROVE EventsOK'
  <2>1. PICK e \in Event : event[w] = {e}
    BY <1>2 DEF InsertEvent, Moves, EventsOK
  <2>2. /\ timeline' = timeline \cup {e} /\ ever' = ever \cup {e}
        /\ UNCHANGED <<stateLog, logged, clock, event, cut>>
        /\ pc[w] = "stamped" /\ pc' = [pc EXCEPT ![w] = "inserted"]
    BY <1>2, <2>1 DEF InsertEvent, Moves
  <2>3. IsFiniteSet(ever')
    BY <2>2, FS_AddElement DEF EventsOK
  <2>4. QED
    BY <2>1, <2>2, <2>3 DEF EventsOK, ProcessesOK, Process
<1>3. ASSUME NEW w \in Worker, InsertState(w) PROVE EventsOK'
  BY <1>3 DEF InsertState, Moves, EventsOK, ProcessesOK, Process
<1>4. ASSUME NEW w \in Worker, NEW k \in Key, RecordExperience(w, k) PROVE EventsOK'
  BY <1>4, EventsUntouched DEF RecordExperience, Moves, PC, Process
<1>5. ASSUME NEW c \in Cleaner, SelectCut(c) PROVE EventsOK'
  <2>1. /\ pc[c] = "select" /\ UNCHANGED events
        /\ \E to \in {"decay", "trim"} : pc' = [pc EXCEPT ![c] = to]
    BY <1>5 DEF SelectCut
  <2>2. cut' \in [Cleaner -> Nat]
    <3>1. \A e \in OldestDropped : e.ts \in Nat
      BY DEF OldestDropped, EventsOK, Event
    <3>2. cut' = cut \/ \E e \in OldestDropped : cut' = [cut EXCEPT ![c] = e.ts]
      BY <1>5 DEF SelectCut
    <3>3. QED
      BY <3>1, <3>2 DEF EventsOK
  <2>3. QED
    BY <2>1, <2>2 DEF EventsOK, events, ProcessesOK, Process
<1>6. ASSUME NEW c \in Cleaner, TrimTimeline(c) PROVE EventsOK'
  BY <1>6 DEF TrimTimeline, Moves, EventsOK, ProcessesOK, Process
<1>7. ASSUME NEW c \in Cleaner, TrimStateLog(c) PROVE EventsOK'
  BY <1>7 DEF TrimStateLog, Moves, EventsOK, ProcessesOK, Process
<1>8. ASSUME NEW c \in Cleaner, Decay(c) PROVE EventsOK'
  BY <1>8, EventsUntouched DEF Decay, Moves, PC, Process
<1>9. ASSUME NEW p \in Process, ReadPatterns(p) \/ LoadKnowledge(p) \/ MapNode(p) \/ Consolidated(p)
      PROVE EventsOK'
  <2>1. /\ pc[p] \notin {"stamped", "inserted"} /\ UNCHANGED <<events, cut>>
        /\ \E to \in PC \ {"stamped", "inserted"} : pc' = [pc EXCEPT ![p] = to]
    BY <1>9 DEF ReadPatterns, LoadKnowledge, MapNode, Consolidated, Moves, PC
  <2>2. QED
    BY <2>1, EventsUntouched
<1>10. ASSUME NEW p \in Process, NEW pattern \in todo[p],
              UpdateNode(p, pattern) \/ InsertNode(p, pattern)
       PROVE  EventsOK'
  <2>1. CASE UpdateNode(p, pattern)
    BY <2>1 DEF UpdateNode, EventsOK, events
  <2>2. CASE InsertNode(p, pattern)
    BY <2>2, EventsUntouched DEF InsertNode, Moves, PC
  <2>3. QED
    BY <1>10, <2>1, <2>2
<1>11. ASSUME NEW p \in Process, Abandon(p) PROVE EventsOK'
  <2>1. cut' \in [Cleaner -> Nat]
    BY <1>11 DEF Abandon, EventsOK
  <2>2. /\ pc' = [pc EXCEPT ![p] = "idle"]
        /\ event' = [w \in Worker |-> IF w = p THEN {} ELSE event[w]]
        /\ UNCHANGED <<timeline, stateLog, clock, ever, logged>>
    BY <1>11 DEF Abandon
  <2>3. QED
    BY <2>1, <2>2 DEF EventsOK, ProcessesOK, Process
<1>12. ASSUME DaysPass PROVE EventsOK'
  <2>1. clock' \in 0..MaxClock
    BY <1>12, MemoryStoreAssumption DEF DaysPass, EventsOK
  <2>2. QED
    BY <1>12, <2>1 DEF DaysPass, EventsOK
<1>13. CASE UNCHANGED vars
  BY <1>13 DEF vars, events, EventsOK
<1>14. QED
  BY <1>1, <1>2, <1>3, <1>4, <1>5, <1>6, <1>7, <1>8, <1>9, <1>10, <1>11, <1>12, <1>13 DEF Next
-----------------------------------------------------------------------------
(* The knowledge.                                                          *)

LEMMA NodeTypes ==
  ASSUME KnowledgeOK
  PROVE  /\ Len(nodes) \in Nat /\ DOMAIN nodes = 1..Len(nodes) /\ 0 \notin DOMAIN nodes
         /\ \A i \in DOMAIN nodes :
              /\ nodes[i] \in Knowledge /\ nodes[i].key \in Key
              /\ nodes[i].wins \in Nat /\ nodes[i].confidence \in 0..98
<1>1. /\ Len(nodes) \in Nat /\ DOMAIN nodes = 1..Len(nodes)
      /\ \A i \in DOMAIN nodes : nodes[i] \in Knowledge
  BY LenProperties, ElementOfSeq DEF KnowledgeOK
<1>2. QED
  BY <1>1 DEF Knowledge

Seen(p, pattern) == known[p][Min(Existing(p, pattern))]

\* The node an update starts from is one of the pattern, read from its own row.
LEMMA SeenNode ==
  ASSUME ProcessesOK, NEW p \in Process, NEW pattern, Existing(p, pattern) # {}
  PROVE  /\ Min(Existing(p, pattern)) \in DOMAIN known[p]
         /\ Seen(p, pattern) \in Knowledge
         /\ Seen(p, pattern).key = pattern.key
         /\ Seen(p, pattern).id \in DOMAIN nodes
         /\ nodes[Seen(p, pattern).id].key = pattern.key
<1>1. known[p] \in Seq(Knowledge)
  BY DEF ProcessesOK
<1>2. DOMAIN known[p] \subseteq Nat /\ \A i \in DOMAIN known[p] : known[p][i] \in Knowledge
  BY <1>1, LenProperties, ElementOfSeq
<1>3. Existing(p, pattern) \subseteq DOMAIN known[p]
  BY DEF Existing
<1>4. Min(Existing(p, pattern)) \in Existing(p, pattern)
  BY <1>2, <1>3, MinIs
<1>5. QED
  BY <1>2, <1>4 DEF Existing, Seen, ProcessesOK

\* A statement that leaves rows and numbers alone, and puts nobody between them.
LEMMA KnowledgeUntouched ==
  ASSUME ProcessesOK, KnowledgeOK, NEW p \in Process, UNCHANGED <<knowledge, new>>,
         pc[p] # "map", NEW to \in PC \ {"map"}, pc' = [pc EXCEPT ![p] = to]
  PROVE  KnowledgeOK'
BY DEF KnowledgeOK, knowledge, ProcessesOK

\* A statement that changes rows but not their keys.
LEMMA KnowledgeChanged ==
  ASSUME KnowledgeOK, nodes' \in Seq(Knowledge), Len(nodes') = Len(nodes),
         \A i \in DOMAIN nodes' : nodes'[i].id = i,
         \A pair \in fts' : pair[1] \in docs',
         UNCHANGED <<ids, vec, new>>,
         \A p \in Process : pc'[p] = "map" <=> pc[p] = "map"
  PROVE  KnowledgeOK'
<1>1. DOMAIN nodes' = DOMAIN nodes
  BY LenProperties DEF KnowledgeOK
<1>2. QED
  BY <1>1 DEF KnowledgeOK

LEMMA LargerIs ==
  ASSUME NEW m \in 0..98, NEW n \in 0..98
  PROVE  Larger(m, n) \in 0..98 /\ Larger(m, n) >= m /\ Larger(m, n) >= n
BY DEF Larger

\* What the row of a node becomes by an update.
Updated(row, pattern, seen) ==
  [row EXCEPT !.words = pattern.words, !.wins = pattern.wins,
              !.confidence = Larger(pattern.confidence, seen.confidence), !.stale = FALSE]

LEMMA UpdatedNode ==
  ASSUME NEW row \in Knowledge, NEW pattern \in Pattern, NEW seen \in Knowledge
  PROVE  /\ Updated(row, pattern, seen) \in Knowledge
         /\ Updated(row, pattern, seen).id = row.id
         /\ Updated(row, pattern, seen).key = row.key
         /\ Updated(row, pattern, seen).words = pattern.words
         /\ Updated(row, pattern, seen).wins = pattern.wins
         /\ Updated(row, pattern, seen).confidence = Larger(pattern.confidence, seen.confidence)
<1>1. /\ pattern.words \in SUBSET Word /\ pattern.wins \in Nat \ {0}
      /\ pattern.confidence \in 0..98
  BY MemoryStoreAssumption
<1>2. seen.confidence \in 0..98
  BY DEF Knowledge
<1>3. Larger(pattern.confidence, seen.confidence) \in 0..98
  BY <1>1, <1>2, LargerIs
<1>4. QED
  BY <1>1, <1>3 DEF Updated, Knowledge

\* An update changes the node that was seen, if anything.
LEMMA UpdateNodeKeeps ==
  ASSUME ProcessesOK, KnowledgeOK, NEW p \in Process, NEW pattern \in todo[p],
         UpdateNode(p, pattern)
  PROVE  /\ KnowledgeOK'
         /\ DOMAIN nodes' = DOMAIN nodes
         /\ \A i \in DOMAIN nodes :
              \/ nodes'[i] = nodes[i]
              \/ /\ i = Seen(p, pattern).id /\ ShouldUpdate(Seen(p, pattern), pattern)
                 /\ nodes'[i] = Updated(nodes[i], pattern, Seen(p, pattern))
         /\ \A i \in DOMAIN nodes : nodes'[i].key = nodes[i].key
<1> DEFINE seen == Seen(p, pattern)
           row == nodes[seen.id]
           changed == Updated(row, pattern, seen)
<1>1. /\ seen \in Knowledge /\ seen.id \in DOMAIN nodes
      /\ UNCHANGED <<ids, vec, new, pc>>
  BY SeenNode DEF UpdateNode
<1>2. \/ UNCHANGED <<nodes, fts, docs>>
      \/ /\ nodes' = [nodes EXCEPT ![seen.id] = changed] /\ ShouldUpdate(seen, pattern)
         /\ IndexUpdate(seen.id, row.words, pattern.words)
  BY DEF UpdateNode, Seen, Updated
<1>3. pattern \in Pattern
  BY DEF ProcessesOK
<1>4. row \in Knowledge
  BY <1>1, LenProperties, ElementOfSeq DEF KnowledgeOK
<1>5. changed \in Knowledge /\ changed.id = row.id /\ changed.key = row.key
  BY <1>1, <1>3, <1>4, UpdatedNode
<1> HIDE DEF changed
<1>6. CASE UNCHANGED <<nodes, fts, docs>>
  BY <1>1, <1>6 DEF KnowledgeOK
<1>7. CASE /\ nodes' = [nodes EXCEPT ![seen.id] = changed] /\ ShouldUpdate(seen, pattern)
           /\ IndexUpdate(seen.id, row.words, pattern.words)
  <2> HIDE DEF seen
  <2>1. nodes' \in Seq(Knowledge) /\ Len(nodes') = Len(nodes)
    BY <1>1, <1>5, <1>7, ExceptSeq, LenProperties DEF KnowledgeOK
  <2>2. DOMAIN nodes' = DOMAIN nodes
    BY <1>7
  <2>3. \A i \in DOMAIN nodes' : nodes'[i].id = i /\ nodes'[i].key = nodes[i].key
    BY <1>1, <1>5, <1>7 DEF KnowledgeOK
  <2>4. \A pair \in fts' : pair[1] \in docs'
    BY <1>7 DEF IndexUpdate, KnowledgeOK
  <2>5. KnowledgeOK'
    BY <1>1, <2>1, <2>2, <2>3, <2>4, KnowledgeChanged
  <2>6. \A i \in DOMAIN nodes : IF i = seen.id THEN nodes'[i] = changed ELSE nodes'[i] = nodes[i]
    BY <1>7
  <2>7. QED
    BY <1>7, <2>2, <2>3, <2>5, <2>6 DEF changed, seen
<1>8. QED
  BY <1>2, <1>6, <1>7

LEMMA InsertNodeKeeps ==
  ASSUME ProcessesOK, KnowledgeOK, NEW p \in Process, NEW pattern \in todo[p],
         InsertNode(p, pattern)
  PROVE  /\ KnowledgeOK'
         /\ new'[p] \notin DOMAIN nodes /\ DOMAIN nodes' = DOMAIN nodes \cup {new'[p]}
         /\ nodes'[new'[p]].key = pattern.key
         /\ \A i \in DOMAIN nodes : nodes'[i] = nodes[i]
<1> DEFINE id == Len(nodes) + 1
<1>1. /\ nodes' = Append(nodes, Node(id, pattern))
      /\ IndexInsert(id, pattern.words)
      /\ new' = [new EXCEPT ![p] = id]
      /\ pc[p] = "write" /\ pc' = [pc EXCEPT ![p] = "map"]
      /\ UNCHANGED <<ids, vec>>
  BY DEF InsertNode, Moves
<1>2. /\ pattern.key \in Key /\ pattern.words \in SUBSET Word /\ pattern.wins \in Nat \ {0}
      /\ pattern.confidence \in 0..98
  BY MemoryStoreAssumption DEF ProcessesOK
<1>3. Len(nodes) \in Nat /\ DOMAIN nodes = 1..Len(nodes)
  BY LenProperties DEF KnowledgeOK
<1>4. Node(id, pattern) \in Knowledge
  BY <1>2, <1>3 DEF Node, Knowledge
<1>5. /\ nodes' \in Seq(Knowledge) /\ DOMAIN nodes' = 1..id
      /\ \A i \in 1..Len(nodes) : nodes'[i] = nodes[i]
      /\ nodes'[id] = Node(id, pattern)
  BY <1>1, <1>3, <1>4, AppendProperties, LenProperties DEF KnowledgeOK
<1>6. \A i \in DOMAIN nodes' : nodes'[i].id = i
  BY <1>3, <1>5 DEF KnowledgeOK, Node
<1>7. ids' \in Seq(DOMAIN nodes') /\ IsInjective(ids') /\ vec' \subseteq DOMAIN ids'
  BY <1>1, <1>3, <1>5, SeqMonotonic DEF KnowledgeOK
<1>8. \A pair \in fts' : pair[1] \in docs'
  BY <1>1 DEF IndexInsert, KnowledgeOK
<1>9. id \notin DOMAIN nodes /\ id \in DOMAIN nodes' /\ id # 0 /\ id \in Nat
  BY <1>3, <1>5
<1>10. \A r \in DOMAIN ids : ids[r] \in DOMAIN nodes
  BY ElementOfSeq, LenProperties DEF KnowledgeOK
<1> HIDE DEF id
<1>11. /\ new' \in [Process -> Nat]
       /\ \A q \in Process : new'[q] # 0 <=> pc'[q] = "map"
       /\ \A q \in Process : new'[q] # 0 =>
            new'[q] \in DOMAIN nodes' /\ \A r \in DOMAIN ids' : ids'[r] # new'[q]
       /\ \A q, s \in Process : new'[q] = new'[s] => new'[q] = 0 \/ q = s
  BY <1>1, <1>3, <1>5, <1>9, <1>10 DEF KnowledgeOK, ProcessesOK
<1>12. KnowledgeOK'
  BY <1>5, <1>6, <1>7, <1>8, <1>11 DEF KnowledgeOK
<1>13. new'[p] = id
  BY <1>1 DEF KnowledgeOK
<1>14. DOMAIN nodes' = DOMAIN nodes \cup {id} /\ \A i \in DOMAIN nodes : nodes'[i] = nodes[i]
  BY <1>3, <1>5 DEF id
<1>15. nodes'[id].key = pattern.key
  BY <1>5 DEF Node
<1>16. QED
  BY <1>9, <1>12, <1>13, <1>14, <1>15

LEMMA MapNodeKeeps ==
  ASSUME ProcessesOK, KnowledgeOK, NEW p \in Process, MapNode(p)
  PROVE  KnowledgeOK'
<1>1. /\ ids' = Append(ids, new[p]) /\ vec' \in {vec, vec \cup {Len(ids')}}
      /\ new' = [new EXCEPT ![p] = 0]
      /\ pc[p] = "map" /\ pc' = [pc EXCEPT ![p] = "write"]
      /\ UNCHANGED <<nodes, fts, docs>>
  BY DEF MapNode, Moves
<1>2. new[p] \in DOMAIN nodes /\ (\A r \in DOMAIN ids : ids[r] # new[p]) /\ new[p] # 0
  BY <1>1 DEF KnowledgeOK
<1>3. Len(ids) \in Nat /\ DOMAIN ids = 1..Len(ids)
  BY LenProperties DEF KnowledgeOK
<1>4. /\ ids' \in Seq(DOMAIN nodes) /\ Len(ids') = Len(ids) + 1
      /\ DOMAIN ids' = 1..(Len(ids) + 1)
      /\ \A r \in 1..Len(ids) : ids'[r] = ids[r]
      /\ ids'[Len(ids) + 1] = new[p]
  BY <1>1, <1>2, <1>3, AppendProperties, LenProperties DEF KnowledgeOK
<1>5. IsInjective(ids')
  <2>1. \A a, b \in DOMAIN ids : ids[a] = ids[b] => a = b
    BY DEF IsInjective, KnowledgeOK
  <2>2. \A a \in DOMAIN ids' : a \in DOMAIN ids \/ a = Len(ids) + 1
    BY <1>3, <1>4
  <2>3. \A a, b \in DOMAIN ids' : ids'[a] = ids'[b] => a = b
    BY <1>2, <1>3, <1>4, <2>1, <2>2
  <2>4. QED
    BY <2>3 DEF IsInjective
<1>6. vec' \subseteq DOMAIN ids'
  BY <1>1, <1>3, <1>4 DEF KnowledgeOK
<1>7. /\ new' \in [Process -> Nat]
      /\ \A q \in Process : new'[q] # 0 <=> pc'[q] = "map"
      /\ \A q, s \in Process : new'[q] = new'[s] => new'[q] = 0 \/ q = s
  BY <1>1 DEF KnowledgeOK, ProcessesOK
<1>8. \A q \in Process : new'[q] # 0 =>
        new'[q] \in DOMAIN nodes' /\ \A r \in DOMAIN ids' : ids'[r] # new'[q]
  BY <1>1, <1>3, <1>4 DEF KnowledgeOK
<1>9. QED
  BY <1>1, <1>4, <1>5, <1>6, <1>7, <1>8 DEF KnowledgeOK
\* A function on 1..n is a sequence.
LEMMA FunctionIsSeq ==
  ASSUME NEW S, NEW n \in Nat, NEW f \in [1..n -> S]
  PROVE  f \in Seq(S) /\ Len(f) = n
OBVIOUS

\* Decay, and the days before it, change neither keys nor texts nor counts, and lower
\* no confidence but that of a stale node.
LEMMA DecayKeeps ==
  ASSUME ProcessesOK, KnowledgeOK,
         (\E c \in Cleaner : Decay(c)) \/ DaysPass
  PROVE  /\ KnowledgeOK'
         /\ DOMAIN nodes' = DOMAIN nodes
         /\ \A i \in DOMAIN nodes :
              /\ nodes'[i].key = nodes[i].key /\ nodes'[i].words = nodes[i].words
              /\ nodes'[i].wins = nodes[i].wins
              /\ \/ nodes'[i].confidence = nodes[i].confidence
                 \/ nodes[i].stale /\ nodes'[i].confidence = Decayed(nodes[i].confidence)
<1>1. Len(nodes) \in Nat /\ DOMAIN nodes = 1..Len(nodes)
      /\ \A i \in DOMAIN nodes : nodes[i] \in Knowledge
  BY LenProperties, ElementOfSeq DEF KnowledgeOK
<1>2. UNCHANGED <<ids, fts, docs, vec, new>>
      /\ \A p \in Process : pc'[p] = "map" <=> pc[p] = "map"
  <2>1. CASE DaysPass
    BY <2>1 DEF DaysPass
  <2>2. ASSUME NEW c \in Cleaner, Decay(c)
        PROVE  UNCHANGED <<ids, fts, docs, vec, new>>
               /\ \A p \in Process : pc'[p] = "map" <=> pc[p] = "map"
    BY <2>2 DEF Decay, Moves, ProcessesOK
  <2>3. QED
    BY <2>1, <2>2
<1> DEFINE Copy(i) == /\ nodes'[i] \in Knowledge /\ nodes'[i].id = nodes[i].id
                      /\ nodes'[i].wins = nodes[i].wins /\ nodes'[i].key = nodes[i].key
                      /\ nodes'[i].words = nodes[i].words
                      /\ \/ nodes'[i].confidence = nodes[i].confidence
                         \/ /\ nodes[i].stale
                            /\ nodes'[i].confidence = Decayed(nodes[i].confidence)
<1>3. nodes' = [i \in 1..Len(nodes) |-> nodes'[i]] /\ \A i \in 1..Len(nodes) : Copy(i)
  <2>1. CASE DaysPass
    <3>1. nodes' = [i \in 1..Len(nodes) |-> [nodes[i] EXCEPT !.stale = TRUE]]
      BY <1>1, <2>1 DEF DaysPass
    <3>2. \A i \in 1..Len(nodes) : nodes'[i] = [nodes[i] EXCEPT !.stale = TRUE]
      BY <3>1
    <3>3. \A i \in 1..Len(nodes) : Copy(i)
      <4>1. TAKE i \in 1..Len(nodes)
      <4>2. nodes[i] \in Knowledge /\ nodes'[i] = [nodes[i] EXCEPT !.stale = TRUE]
        BY <1>1, <3>2
      <4>3. QED
        BY <4>2 DEF Knowledge
    <3>4. QED
      BY <3>1, <3>3
  <2>2. ASSUME NEW c \in Cleaner, Decay(c)
        PROVE  /\ nodes' = [i \in 1..Len(nodes) |-> nodes'[i]]
               /\ \A i \in 1..Len(nodes) : Copy(i)
    <3>1. nodes' = [i \in 1..Len(nodes) |->
                      IF nodes[i].stale
                      THEN [nodes[i] EXCEPT !.stale = FALSE, !.confidence = Decayed(@)]
                      ELSE nodes[i]]
      BY <1>1, <2>2 DEF Decay
    <3>2. \A i \in 1..Len(nodes) : Copy(i)
      <4>1. TAKE i \in 1..Len(nodes)
      <4>2. nodes[i] \in Knowledge
        BY <1>1
      <4>3. Decayed(nodes[i].confidence) \in 0..98
        BY <4>2, DecayedRange DEF Knowledge
      <4>4. QED
        BY <3>1, <4>2, <4>3 DEF Knowledge
    <3>3. QED
      BY <3>1, <3>2
  <2>3. QED
    BY <2>1, <2>2
<1>4. nodes' \in Seq(Knowledge) /\ Len(nodes') = Len(nodes) /\ DOMAIN nodes' = DOMAIN nodes
  BY <1>1, <1>3, FunctionIsSeq
<1>5. \A i \in DOMAIN nodes' : nodes'[i].id = i
  BY <1>1, <1>3, <1>4 DEF KnowledgeOK
<1>6. \A pair \in fts' : pair[1] \in docs'
  BY <1>2 DEF KnowledgeOK
<1>7. KnowledgeOK'
  BY <1>2, <1>4, <1>5, <1>6, KnowledgeChanged
<1>8. QED
  BY <1>1, <1>3, <1>4, <1>7

\* A process that gives up drops its half of a node.
LEMMA AbandonKeeps ==
  ASSUME ProcessesOK, KnowledgeOK, NEW p \in Process, Abandon(p)
  PROVE  KnowledgeOK'
<1>1. /\ pc' = [pc EXCEPT ![p] = "idle"] /\ new' = [new EXCEPT ![p] = 0]
      /\ UNCHANGED knowledge
  BY DEF Abandon
<1>2. QED
  BY <1>1 DEF KnowledgeOK, ProcessesOK, knowledge

\* Rows are never removed, and keep their key.
LEMMA KnowledgeInductive ==
  ASSUME ProcessesOK, KnowledgeOK, [Next]_vars
  PROVE  /\ KnowledgeOK'
         /\ DOMAIN nodes \subseteq DOMAIN nodes'
         /\ \A i \in DOMAIN nodes : nodes'[i].key = nodes[i].key
<1> DEFINE Goal == /\ KnowledgeOK'
                   /\ DOMAIN nodes \subseteq DOMAIN nodes'
                   /\ \A i \in DOMAIN nodes : nodes'[i].key = nodes[i].key
<1>1. ASSUME NEW w \in Worker,
             \/ Stamp(w) \/ InsertEvent(w) \/ InsertState(w)
             \/ \E k \in Key : RecordExperience(w, k)
      PROVE  Goal
  <2>1. /\ UNCHANGED <<knowledge, new>> /\ pc[w] # "map"
        /\ \E to \in PC \ {"map"} : pc' = [pc EXCEPT ![w] = to]
    BY <1>1 DEF Stamp, InsertEvent, InsertState, RecordExperience, Moves, PC
  <2>2. KnowledgeOK'
    BY <2>1, KnowledgeUntouched DEF Process
  <2>3. QED
    BY <2>1, <2>2 DEF knowledge
<1>2. ASSUME NEW p \in Process,
             \/ ReadPatterns(p) \/ LoadKnowledge(p) \/ Consolidated(p)
             \/ p \in Cleaner /\ (SelectCut(p) \/ TrimTimeline(p) \/ TrimStateLog(p))
      PROVE  Goal
  <2>1. /\ UNCHANGED <<knowledge, new>> /\ pc[p] # "map"
        /\ \E to \in PC \ {"map"} : pc' = [pc EXCEPT ![p] = to]
    BY <1>2 DEF ReadPatterns, LoadKnowledge, Consolidated, SelectCut, TrimTimeline,
                TrimStateLog, Moves, PC
  <2>2. KnowledgeOK'
    BY <2>1, KnowledgeUntouched
  <2>3. QED
    BY <2>1, <2>2 DEF knowledge
<1>3. ASSUME NEW p \in Process, NEW pattern \in todo[p],
             UpdateNode(p, pattern) \/ InsertNode(p, pattern)
      PROVE  Goal
  <2>1. CASE UpdateNode(p, pattern)
    BY <2>1, UpdateNodeKeeps
  <2>2. CASE InsertNode(p, pattern)
    BY <2>2, InsertNodeKeeps
  <2>3. QED
    BY <1>3, <2>1, <2>2
<1>4. ASSUME NEW p \in Process, MapNode(p) PROVE Goal
  BY <1>4, MapNodeKeeps DEF MapNode
<1>5. ASSUME NEW p \in Process, Abandon(p) PROVE Goal
  BY <1>5, AbandonKeeps DEF Abandon, knowledge
<1>6. CASE (\E c \in Cleaner : Decay(c)) \/ DaysPass
  BY <1>6, DecayKeeps
<1>7. CASE UNCHANGED vars
  BY <1>7 DEF vars, knowledge, KnowledgeOK
<1>8. QED
  BY <1>1, <1>2, <1>3, <1>4, <1>5, <1>6, <1>7 DEF Next, Process

-----------------------------------------------------------------------------
(* The processes.                                                          *)

\* What was read stays true while rows are only added and changed.
LEMMA KnownPersists ==
  ASSUME ProcessesOK, DOMAIN nodes \subseteq DOMAIN nodes',
         \A i \in DOMAIN nodes : nodes'[i].key = nodes[i].key
  PROVE  \A p \in Process : \A i \in DOMAIN known[p] :
           /\ known[p][i].id \in DOMAIN nodes'
           /\ nodes'[known[p][i].id].key = known[p][i].key
BY DEF ProcessesOK

LEMMA ProcessesInductive ==
  ASSUME ProcessesOK, KnowledgeOK, [Next]_vars
  PROVE  ProcessesOK'
<1>1. \A p \in Process : \A i \in DOMAIN known[p] :
        /\ known[p][i].id \in DOMAIN nodes'
        /\ nodes'[known[p][i].id].key = known[p][i].key
  BY KnowledgeInductive, KnownPersists
<1>2. ASSUME NEW w \in Worker, Stamp(w) \/ InsertEvent(w) \/ InsertState(w)
      PROVE  ProcessesOK'
  <2>1. /\ \E to \in PC : pc' = [pc EXCEPT ![w] = to]
        /\ UNCHANGED <<nodes, patterns, todo, known, overlap, torn>>
    BY <1>2 DEF Stamp, InsertEvent, InsertState, Moves, PC, knowledge, experiences
  <2>2. QED
    BY <2>1 DEF ProcessesOK, Process
<1>3. ASSUME NEW w \in Worker, NEW k \in Key, RecordExperience(w, k) PROVE ProcessesOK'
  <2>1. patterns' \subseteq Pattern
    BY <1>3 DEF RecordExperience, ProcessesOK
  <2>2. pc' = [pc EXCEPT ![w] = "read"] /\ UNCHANGED <<nodes, todo, known, overlap, torn>>
    BY <1>3 DEF RecordExperience, Moves, knowledge
  <2>3. QED
    BY <2>1, <2>2 DEF ProcessesOK, Process, PC
<1>4. ASSUME NEW p \in Process, ReadPatterns(p) PROVE ProcessesOK'
  <2>1. todo' = [todo EXCEPT ![p] = patterns] /\ patterns \in SUBSET Pattern
    BY <1>4 DEF ReadPatterns, ProcessesOK
  <2>2. overlap' \in BOOLEAN
    BY <1>4 DEF ReadPatterns, Begins, ProcessesOK
  <2>3. pc' = [pc EXCEPT ![p] = "load"] /\ UNCHANGED <<nodes, patterns, known, torn>>
    BY <1>4 DEF ReadPatterns, Moves, knowledge, experiences
  <2>4. QED
    BY <2>1, <2>2, <2>3 DEF ProcessesOK, PC
<1>5. ASSUME NEW p \in Process, LoadKnowledge(p) PROVE ProcessesOK'
  <2>1. /\ pc' = [pc EXCEPT ![p] = "write"] /\ known' = [known EXCEPT ![p] = nodes]
        /\ UNCHANGED <<nodes, patterns, todo, overlap, torn>>
    BY <1>5 DEF LoadKnowledge, Moves, knowledge, experiences
  <2>2. QED
    BY <2>1 DEF ProcessesOK, KnowledgeOK, PC
<1>6. ASSUME NEW p \in Process, NEW pattern \in todo[p],
             UpdateNode(p, pattern) \/ InsertNode(p, pattern)
      PROVE  ProcessesOK'
  <2>1. /\ \E to \in PC : pc' = [pc EXCEPT ![p] = to]
        /\ todo' = [todo EXCEPT ![p] = @ \ {pattern}]
        /\ UNCHANGED <<patterns, known, overlap>>
    <3>1. CASE UpdateNode(p, pattern)
      BY <3>1 DEF UpdateNode, ProcessesOK, experiences
    <3>2. CASE InsertNode(p, pattern)
      BY <3>2 DEF InsertNode, Moves, PC, experiences
    <3>3. QED
      BY <1>6, <3>1, <3>2
  <2>2. torn' \in BOOLEAN
    BY <1>6 DEF UpdateNode, InsertNode, ProcessesOK
  <2>3. QED
    BY <1>1, <2>1, <2>2 DEF ProcessesOK
<1>7. ASSUME NEW p \in Process, MapNode(p) PROVE ProcessesOK'
  <2>1. /\ pc' = [pc EXCEPT ![p] = "write"]
        /\ known' = [known EXCEPT ![p] = Append(@, nodes[new[p]])]
        /\ UNCHANGED <<nodes, patterns, todo, overlap, torn>>
        /\ pc[p] = "map"
    BY <1>7 DEF MapNode, Moves, experiences
  <2>2. new[p] \in DOMAIN nodes /\ nodes[new[p]] \in Knowledge /\ nodes[new[p]].id = new[p]
    BY <2>1, ElementOfSeq, LenProperties DEF KnowledgeOK
  <2>3. known[p] \in Seq(Knowledge)
    BY DEF ProcessesOK
  <2>4. /\ known'[p] = Append(known[p], nodes[new[p]])
        /\ known'[p] \in Seq(Knowledge)
        /\ \A i \in DOMAIN known'[p] :
             known'[p][i] = nodes[new[p]] \/ (i \in DOMAIN known[p] /\ known'[p][i] = known[p][i])
    BY <2>1, <2>2, <2>3, AppendProperties, LenProperties DEF ProcessesOK
  <2>5. \A q \in Process : q # p => known'[q] = known[q]
    BY <2>1 DEF ProcessesOK
  <2>6. \A q \in Process : \A i \in DOMAIN known'[q] :
          known'[q][i].id \in DOMAIN nodes /\ nodes[known'[q][i].id].key = known'[q][i].key
    <3>1. TAKE q \in Process
    <3>2. CASE q = p
      <4>1. TAKE i \in DOMAIN known'[q]
      <4>2. CASE known'[p][i] = nodes[new[p]]
        BY <2>2, <3>2, <4>2
      <4>3. CASE i \in DOMAIN known[p] /\ known'[p][i] = known[p][i]
        BY <3>2, <4>3 DEF ProcessesOK
      <4>4. QED
        BY <2>4, <3>2, <4>2, <4>3
    <3>3. CASE q # p
      BY <2>5, <3>3 DEF ProcessesOK
    <3>4. QED
      BY <3>2, <3>3
  <2>7. known' \in [Process -> Seq(Knowledge)]
    BY <2>1, <2>4 DEF ProcessesOK
  <2>8. QED
    BY <2>1, <2>6, <2>7 DEF ProcessesOK, PC
<1>8. ASSUME NEW p \in Process, Consolidated(p) PROVE ProcessesOK'
  <2>1. /\ \E to \in PC : pc' = [pc EXCEPT ![p] = to]
        /\ known' = [known EXCEPT ![p] = <<>>]
        /\ UNCHANGED <<nodes, patterns, todo, overlap, torn>>
    BY <1>8 DEF Consolidated, Moves, PC, knowledge, experiences
  <2>2. QED
    BY <2>1 DEF ProcessesOK
<1>9. ASSUME NEW c \in Cleaner, SelectCut(c) \/ TrimTimeline(c) \/ TrimStateLog(c) \/ Decay(c)
      PROVE  ProcessesOK'
  <2>1. /\ \E to \in PC : pc' = [pc EXCEPT ![c] = to]
        /\ UNCHANGED <<patterns, todo, known, overlap, torn>>
    BY <1>9 DEF SelectCut, TrimTimeline, TrimStateLog, Decay, Moves, PC, experiences
  <2>2. QED
    BY <1>1, <2>1 DEF ProcessesOK, Process
<1>10. ASSUME NEW p \in Process, Abandon(p) PROVE ProcessesOK'
  <2>1. /\ pc' = [pc EXCEPT ![p] = "idle"] /\ todo' = [todo EXCEPT ![p] = {}]
        /\ known' = [known EXCEPT ![p] = <<>>] /\ UNCHANGED <<nodes, patterns, overlap>>
    BY <1>10 DEF Abandon, knowledge, experiences
  <2>2. torn' \in BOOLEAN
    BY <1>10 DEF Abandon, ProcessesOK
  <2>3. QED
    BY <2>1, <2>2 DEF ProcessesOK, PC
<1>11. CASE DaysPass
  BY <1>1, <1>11 DEF DaysPass, ProcessesOK, experiences
<1>12. CASE UNCHANGED vars
  BY <1>12 DEF vars, knowledge, ProcessesOK, experiences
<1>13. QED
  BY <1>2, <1>3, <1>4, <1>5, <1>6, <1>7, <1>8, <1>9, <1>10, <1>11, <1>12 DEF Next

-----------------------------------------------------------------------------
(* Types.                                                                  *)

LEMMA TypeInvInit == Init => TypeInv
<1> SUFFICES ASSUME Init PROVE TypeInv
  OBVIOUS
<1>1. /\ 0 \in 0..MaxClock /\ IsFiniteSet({})
      /\ nodes = <<>> /\ ids = <<>> /\ <<>> \in Seq(Knowledge) /\ <<>> \in Seq(DOMAIN <<>>)
      /\ DOMAIN <<>> = {}
  BY MemoryStoreAssumption, FS_EmptySet, EmptySeq DEF Init
<1>2. ProcessesOK
  <2>1. patterns \subseteq Pattern
    BY DEF Init
  <2>2. pc \in [Process -> PC] /\ overlap \in BOOLEAN /\ torn \in BOOLEAN
    BY DEF Init, PC
  <2>3. todo \in [Process -> SUBSET Pattern]
    BY DEF Init
  <2>4. /\ known \in [Process -> Seq(Knowledge)]
        /\ \A p \in Process : DOMAIN known[p] = {}
    BY <1>1 DEF Init
  <2>5. QED
    BY <2>1, <2>2, <2>3, <2>4 DEF ProcessesOK
<1>3. EventsOK
  BY <1>1 DEF Init, EventsOK, Process
<1>4. KnowledgeOK
  BY <1>1 DEF Init, KnowledgeOK, IsInjective
<1>5. QED
  BY <1>2, <1>3, <1>4 DEF TypeInv

LEMMA TypeInvInductive == TypeInv /\ [Next]_vars => TypeInv'
BY ProcessesInductive, EventsInductive, KnowledgeInductive DEF TypeInv

LEMMA TypeInvAlways == Spec => []TypeInv
BY TypeInvInit, TypeInvInductive, PTL DEF Spec

LEMMA TypeInvTypeOK == TypeInv => TypeOK
<1> SUFFICES ASSUME TypeInv PROVE TypeOK
  OBVIOUS
<1>1. /\ \A w \in Worker : event[w] # {} <=> pc[w] \in {"stamped", "inserted"}
      /\ \A p \in Process : new[p] # 0 <=> pc[p] = "map"
  BY DEF TypeInv, EventsOK, KnowledgeOK
<1>2. QED
  BY <1>1 DEF TypeInv, ProcessesOK, EventsOK, KnowledgeOK, TypeOK, PC

\* Every variable has its type, whatever statements of any number of workers and
\* cleanups come between any two others, and wherever one of them fails or
\* dies; in particular the number of a node stays its own, and confidence
\* stays in its range.
THEOREM StoreTypes == Spec => []TypeOK
BY TypeInvAlways, TypeInvTypeOK, PTL

-----------------------------------------------------------------------------
(* Retention.                                                              *)

\* The events that come before e in the newest of a timeline, if any order among
\* equals counts against it.
Before(e) == {f \in ever \ {e} : f.ts >= e.ts}

NotOlder(ts) == {f \in ever : f.ts >= ts}

\* An event is dropped only after Keep others as new as it were there, and a cut
\* keeps more than that of what was ever inserted.
RetentionInv ==
  /\ \A e \in ever : Recent(e) => e \in timeline
  /\ \A e \in logged : Recent(e) => e \in stateLog
  /\ \A c \in Cleaner : pc[c] \in {"trim", "trimLog"} => Cardinality(NotOlder(cut[c])) > Keep

\* New events only make an event less recent, and a cut keep more.
LEMMA RecentShrinks ==
  ASSUME EventsOK, EventsOK', ever \subseteq ever'
  PROVE  /\ \A e : Recent(e)' => Recent(e)
         /\ \A ts : Cardinality(NotOlder(ts)') >= Cardinality(NotOlder(ts))
<1>1. IsFiniteSet(ever')
  BY DEF EventsOK
<1>2. ASSUME NEW e PROVE Recent(e)' => Recent(e)
  <2>1. Before(e) \subseteq Before(e)' /\ Before(e)' \subseteq ever'
    BY DEF Before
  <2>2. /\ IsFiniteSet(Before(e)') /\ IsFiniteSet(Before(e))
        /\ Cardinality(Before(e)) <= Cardinality(Before(e)')
        /\ Cardinality(Before(e)) \in Nat /\ Cardinality(Before(e)') \in Nat
    BY <1>1, <2>1, FS_Subset, FS_CardinalityType
  <2>3. (Recent(e) <=> Cardinality(Before(e)) < Keep)
        /\ (Recent(e)' <=> Cardinality(Before(e)') < Keep)
    BY DEF Recent, Before
  <2>4. QED
    BY <2>2, <2>3, MemoryStoreAssumption
<1>3. ASSUME NEW ts PROVE Cardinality(NotOlder(ts)') >= Cardinality(NotOlder(ts))
  <2>1. NotOlder(ts) \subseteq NotOlder(ts)' /\ NotOlder(ts)' \subseteq ever'
    BY DEF NotOlder
  <2>2. /\ IsFiniteSet(NotOlder(ts)')
        /\ Cardinality(NotOlder(ts)) <= Cardinality(NotOlder(ts)')
        /\ Cardinality(NotOlder(ts)) \in Nat /\ Cardinality(NotOlder(ts)') \in Nat
    BY <1>1, <2>1, FS_Subset, FS_CardinalityType
  <2>3. QED
    BY <2>2
<1>4. QED
  BY <1>2, <1>3

\* What a cut deletes is not recent.
LEMMA CutSparesRecent ==
  ASSUME EventsOK, NEW ts \in Nat, Cardinality(NotOlder(ts)) > Keep,
         NEW e \in ever, Recent(e)
  PROVE  e.ts > ts
<1>1. SUFFICES ASSUME e.ts <= ts PROVE FALSE
  BY DEF EventsOK, Event
<1>2. IsFiniteSet(ever) /\ \A f \in ever : f.ts \in Nat
  BY DEF EventsOK, Event
<1>3. Before(e) \subseteq ever /\ e \notin Before(e)
  BY DEF Before
<1>4. /\ IsFiniteSet(Before(e)) /\ Cardinality(Before(e)) \in Nat
      /\ IsFiniteSet(Before(e) \cup {e})
      /\ Cardinality(Before(e) \cup {e}) = Cardinality(Before(e)) + 1
  BY <1>2, <1>3, FS_Subset, FS_CardinalityType, FS_AddElement
<1>5. NotOlder(ts) \subseteq Before(e) \cup {e}
  BY <1>1, <1>2 DEF NotOlder, Before
<1>6. Cardinality(NotOlder(ts)) \in Nat
      /\ Cardinality(NotOlder(ts)) <= Cardinality(Before(e)) + 1
  BY <1>4, <1>5, FS_Subset, FS_CardinalityType
<1>7. Cardinality(Before(e)) < Keep
  BY DEF Recent, Before
<1>8. QED
  BY <1>4, <1>6, <1>7, MemoryStoreAssumption

\* A step that adds no event, drops none and starts no cut.
LEMMA RetentionUntouched ==
  ASSUME TypeInv, TypeInv', RetentionInv, UNCHANGED <<timeline, stateLog, ever, logged>>,
         \A c \in Cleaner : pc'[c] \in {"trim", "trimLog"} =>
           pc[c] \in {"trim", "trimLog"} /\ cut'[c] = cut[c]
  PROVE  RetentionInv'
<1>1. \A e \in ever : Recent(e)' = Recent(e)
  BY DEF Recent
<1>2. \A ts : NotOlder(ts)' = NotOlder(ts)
  BY DEF NotOlder
<1>3. \A c \in Cleaner : NotOlder(cut[c])' = {f \in ever' : f.ts >= cut'[c]}
  BY DEF NotOlder
<1>4. \A c \in Cleaner : pc'[c] \in {"trim", "trimLog"} =>
        Cardinality({f \in ever' : f.ts >= cut'[c]}) > Keep
  BY DEF RetentionInv, NotOlder
<1>5. logged' \subseteq ever'
  BY DEF TypeInv, EventsOK
<1>6. QED
  BY <1>1, <1>3, <1>4, <1>5 DEF RetentionInv

LEMMA InsertEventRetains ==
  ASSUME TypeInv, TypeInv', RetentionInv, NEW w \in Worker, InsertEvent(w)
  PROVE  RetentionInv'
<1>1. /\ timeline' = timeline \cup event[w] /\ ever' = ever \cup event[w]
      /\ UNCHANGED <<stateLog, logged, cut>>
      /\ pc' = [pc EXCEPT ![w] = "inserted"]
  BY DEF InsertEvent, Moves
<1>2. /\ \A e : Recent(e)' => Recent(e)
      /\ \A ts : Cardinality(NotOlder(ts)') >= Cardinality(NotOlder(ts))
  BY <1>1, RecentShrinks DEF TypeInv
<1>3. logged \subseteq ever
  BY DEF TypeInv, EventsOK
<1>4. ASSUME NEW c \in Cleaner, pc'[c] \in {"trim", "trimLog"}
      PROVE  Cardinality(NotOlder(cut[c])') > Keep
  <2>1. Cardinality(NotOlder(cut[c])) > Keep
    BY <1>1, <1>4 DEF RetentionInv, TypeInv, ProcessesOK, Process
  <2>2. /\ IsFiniteSet(ever) /\ IsFiniteSet(ever')
        /\ NotOlder(cut[c]) \subseteq ever /\ {f \in ever' : f.ts >= cut[c]} \subseteq ever'
    BY DEF NotOlder, TypeInv, EventsOK
  <2>3. Cardinality(NotOlder(cut[c])) \in Nat /\ Cardinality({f \in ever' : f.ts >= cut[c]}) \in Nat
    BY <2>2, FS_Subset, FS_CardinalityType
  <2>4. Cardinality({f \in ever' : f.ts >= cut[c]}) >= Cardinality(NotOlder(cut[c]))
    BY <1>1, <1>2 DEF NotOlder
  <2>5. QED
    BY <1>1, <2>1, <2>3, <2>4, MemoryStoreAssumption DEF NotOlder
<1>5. QED
  BY <1>1, <1>2, <1>3, <1>4 DEF RetentionInv

LEMMA RetentionInductive ==
  ASSUME TypeInv, TypeInv', RetentionInv, [Next]_vars
  PROVE  RetentionInv'
<1> USE DEF TypeInv, ProcessesOK
<1>1. ASSUME NEW w \in Worker, Stamp(w) \/ \E k \in Key : RecordExperience(w, k)
      PROVE  RetentionInv'
  BY <1>1, RetentionUntouched DEF Stamp, RecordExperience, Moves, events, Process
<1>2. ASSUME NEW w \in Worker, InsertEvent(w) PROVE RetentionInv'
  BY <1>2, InsertEventRetains
<1>3. ASSUME NEW w \in Worker, InsertState(w) PROVE RetentionInv'
  <2>1. /\ stateLog' = stateLog \cup event[w] /\ logged' = logged \cup event[w]
        /\ UNCHANGED <<timeline, ever, cut>> /\ pc' = [pc EXCEPT ![w] = "idle"]
    BY <1>3 DEF InsertState, Moves
  <2>2. \A e : Recent(e)' <=> Recent(e)
    BY <2>1 DEF Recent
  <2>3. \A c \in Cleaner : pc'[c] \in {"trim", "trimLog"} => Cardinality(NotOlder(cut[c])') > Keep
    BY <2>1 DEF RetentionInv, NotOlder, Process
  <2>4. QED
    BY <2>1, <2>2, <2>3 DEF RetentionInv
<1>4. ASSUME NEW c \in Cleaner, SelectCut(c) PROVE RetentionInv'
  <2>1. CASE pc' = [pc EXCEPT ![c] = "decay"] /\ UNCHANGED cut
    BY <1>4, <2>1, RetentionUntouched DEF SelectCut, events, Process
  <2>2. ASSUME NEW e \in OldestDropped,
               pc' = [pc EXCEPT ![c] = "trim"], cut' = [cut EXCEPT ![c] = e.ts]
        PROVE  RetentionInv'
    <3>1. /\ e \in timeline /\ timeline \subseteq ever /\ IsFiniteSet(ever)
          /\ Cardinality(Newer(e)) >= Keep
      BY DEF OldestDropped, EventsOK
    <3>2. Newer(e) \subseteq timeline /\ e \notin Newer(e)
      BY DEF Newer
    <3>3. /\ IsFiniteSet(Newer(e)) /\ Cardinality(Newer(e)) \in Nat
          /\ Cardinality(Newer(e) \cup {e}) = Cardinality(Newer(e)) + 1
      BY <3>1, <3>2, FS_Subset, FS_AddElement, FS_CardinalityType
    <3>4. Newer(e) \cup {e} \subseteq NotOlder(e.ts) /\ NotOlder(e.ts) \subseteq ever
      BY <3>1 DEF Newer, NotOlder, EventsOK, Event
    <3>5. /\ Cardinality(NotOlder(e.ts)) >= Cardinality(Newer(e)) + 1
          /\ Cardinality(NotOlder(e.ts)) \in Nat
      BY <3>1, <3>3, <3>4, FS_Subset, FS_CardinalityType
    <3>6. Cardinality(NotOlder(e.ts)) > Keep
      BY <3>1, <3>3, <3>5, MemoryStoreAssumption
    <3>7. UNCHANGED <<timeline, stateLog, ever, logged>>
      BY <1>4 DEF SelectCut, events
    <3>8. \A x : Recent(x)' <=> Recent(x)
      BY <3>7 DEF Recent
    <3>9. \A d \in Cleaner : pc'[d] \in {"trim", "trimLog"} =>
            Cardinality({f \in ever' : f.ts >= cut'[d]}) > Keep
      <4>1. TAKE d \in Cleaner
      <4>2. CASE d = c
        BY <2>2, <3>6, <3>7, <4>2 DEF NotOlder, EventsOK
      <4>3. CASE d # c
        <5>1. pc'[d] = pc[d] /\ cut'[d] = cut[d]
          BY <2>2, <4>3 DEF EventsOK, Process
        <5>2. QED
          BY <3>7, <5>1 DEF RetentionInv, NotOlder
      <4>4. QED
        BY <4>2, <4>3
    <3>10. QED
      BY <3>7, <3>8, <3>9 DEF RetentionInv, NotOlder
  <2>3. QED
    BY <1>4, <2>1, <2>2 DEF SelectCut
<1>5. ASSUME NEW c \in Cleaner, TrimTimeline(c) \/ TrimStateLog(c) PROVE RetentionInv'
  <2>1. cut[c] \in Nat /\ Cardinality(NotOlder(cut[c])) > Keep
    BY <1>5 DEF TrimTimeline, TrimStateLog, Moves, RetentionInv, EventsOK
  <2>2. \A e \in ever : Recent(e) => e.ts > cut[c]
    BY <2>1, CutSparesRecent
  <2>3. UNCHANGED <<ever, logged>> /\ logged \subseteq ever
    BY <1>5 DEF TrimTimeline, TrimStateLog, EventsOK
  <2>4. \A x : Recent(x)' <=> Recent(x)
    BY <2>3 DEF Recent
  <2>5. \A d \in Cleaner : pc'[d] \in {"trim", "trimLog"} =>
          Cardinality({f \in ever' : f.ts >= cut'[d]}) > Keep
    <3>1. TAKE d \in Cleaner
    <3>2. CASE d = c /\ TrimTimeline(c)
      <4>1. cut'[d] = cut[c]
        BY <3>2 DEF TrimTimeline
      <4>2. QED
        BY <2>1, <2>3, <3>2, <4>1 DEF NotOlder
    <3>3. CASE d = c /\ TrimStateLog(c)
      BY <3>3 DEF TrimStateLog, Moves, Process
    <3>4. CASE d # c
      <4>1. pc'[d] = pc[d] /\ cut'[d] = cut[d]
        BY <1>5, <3>4 DEF TrimTimeline, TrimStateLog, Moves, EventsOK, Process
      <4>2. QED
        BY <2>3, <4>1 DEF RetentionInv, NotOlder
    <3>5. QED
      BY <1>5, <3>2, <3>3, <3>4
  <2>6. /\ \A e \in timeline : e.ts > cut[c] => e \in timeline'
        /\ \A e \in stateLog : e.ts > cut[c] => e \in stateLog'
    BY <1>5 DEF TrimTimeline, TrimStateLog
  <2>7. QED
    BY <2>2, <2>3, <2>4, <2>5, <2>6 DEF RetentionInv, NotOlder
<1>6. ASSUME NEW c \in Cleaner, Decay(c) PROVE RetentionInv'
  BY <1>6, RetentionUntouched DEF Decay, Moves, events, Process
<1>7. ASSUME NEW p \in Process, ReadPatterns(p) \/ LoadKnowledge(p) \/ MapNode(p) \/ Consolidated(p)
      PROVE  RetentionInv'
  <2>1. /\ UNCHANGED <<timeline, stateLog, ever, logged, cut>>
        /\ \E to \in {"load", "write", "select", "idle"} : pc' = [pc EXCEPT ![p] = to]
    BY <1>7 DEF ReadPatterns, LoadKnowledge, MapNode, Consolidated, Moves, events
  <2>2. QED
    BY <2>1, RetentionUntouched DEF Process
<1>8. ASSUME NEW p \in Process, NEW pattern \in todo[p],
             UpdateNode(p, pattern) \/ InsertNode(p, pattern)
      PROVE  RetentionInv'
  <2>1. /\ UNCHANGED <<timeline, stateLog, ever, logged, cut>>
        /\ (pc' = pc \/ pc' = [pc EXCEPT ![p] = "map"])
    BY <1>8 DEF UpdateNode, InsertNode, Moves, events
  <2>2. QED
    BY <2>1, RetentionUntouched DEF Process
<1>9. ASSUME NEW p \in Process, Abandon(p) PROVE RetentionInv'
  <2>1. /\ UNCHANGED <<timeline, stateLog, ever, logged>>
        /\ pc' = [pc EXCEPT ![p] = "idle"]
        /\ \A c \in Cleaner : c # p => cut'[c] = cut[c]
    BY <1>9 DEF Abandon
  <2>2. QED
    BY <2>1, RetentionUntouched DEF Process
<1>10. CASE DaysPass
  BY <1>10, RetentionUntouched DEF DaysPass
<1>11. CASE UNCHANGED vars
  BY <1>11, RetentionUntouched DEF vars, events
<1>12. QED
  BY <1>1, <1>2, <1>3, <1>4, <1>5, <1>6, <1>7, <1>8, <1>9, <1>10, <1>11 DEF Next

LEMMA RetentionKept == TypeInv /\ RetentionInv => RecentKept
<1> SUFFICES ASSUME TypeInv, RetentionInv PROVE RecentKept
  OBVIOUS
<1>1. ASSUME NEW e \in ever, Recent(e), NEW S \in RecentStates(Keep), e \notin S
      PROVE  FALSE
  <2>1. /\ IsFiniteSet(ever) /\ timeline \subseteq ever /\ \A f \in ever : f.ts \in Nat
    BY DEF TypeInv, EventsOK, Event
  <2>2. e \in timeline
    BY <1>1 DEF RetentionInv
  <2>3. /\ S \subseteq timeline /\ Cardinality(S) = Smaller(Keep, Cardinality(timeline))
        /\ \A x \in S, y \in timeline \ S : x.ts >= y.ts
    BY DEF RecentStates
  <2>4. S \subseteq Before(e) /\ Before(e) \subseteq ever
    BY <1>1, <2>1, <2>2, <2>3 DEF Before
  <2>5. /\ IsFiniteSet(Before(e)) /\ IsFiniteSet(timeline) /\ IsFiniteSet(S)
    BY <2>1, <2>3, <2>4, FS_Subset
  <2>6. /\ Cardinality(S) \in Nat /\ Cardinality(timeline) \in Nat
        /\ Cardinality(Before(e)) \in Nat /\ Cardinality(S) <= Cardinality(Before(e))
    BY <2>4, <2>5, FS_Subset, FS_CardinalityType
  <2>7. Cardinality(S) < Keep
    BY <1>1, <2>6, MemoryStoreAssumption DEF Recent, Before
  <2>8. Cardinality(S) = Cardinality(timeline)
    BY <2>3, <2>6, <2>7, MemoryStoreAssumption DEF Smaller
  <2>9. S = timeline
    BY <2>3, <2>5, <2>8, FS_Subset
  <2>10. QED
    BY <1>1, <2>2, <2>9
<1>2. QED
  BY <1>1 DEF RetentionInv, RecentKept

\* Cleanup keeps the newest events: the Keep newest that recent_states reports
\* hold every event ever inserted that does not have Keep others as new, and so
\* does the state log, for any number of cleanups that select and delete
\* in separate statements while workers append what they stamped earlier.
THEOREM NewestKept == Spec => []RecentKept
<1>1. Init => RetentionInv
  BY DEF Init, RetentionInv, Process
<1>2. TypeInv /\ TypeInv' /\ RetentionInv /\ [Next]_vars => RetentionInv'
  BY RetentionInductive
<1>3. QED
  BY <1>1, <1>2, TypeInvAlways, RetentionKept, PTL DEF Spec

-----------------------------------------------------------------------------
(* Knowledge.                                                              *)

\* A consolidation looks at a key once, of which the experiences made one pattern.
TodoInv ==
  /\ \A a, b \in patterns : a.key = b.key => a = b
  /\ \A p \in Process : \A a, b \in todo[p] : a.key = b.key => a = b
  /\ \A p \in Process : todo[p] # {} => pc[p] \in {"load", "write", "map"}

\* A consolidation that is alone has read every key there is a node of, except
\* the one it is storing, and the nodes of the patterns it still has to look at
\* are as it has read them.
AloneInv ==
  /\ \A p, q \in Process : Consolidating(p) /\ Consolidating(q) => p = q
  /\ \A i, j \in DOMAIN nodes : nodes[i].key = nodes[j].key => i = j
  /\ \A p \in Process : pc[p] \in {"write", "map"} =>
       \A i \in DOMAIN nodes :
         i = new[p] \/ \E j \in DOMAIN known[p] : known[p][j].key = nodes[i].key
  /\ \A p \in Process : pc[p] \in {"write", "map"} =>
       \A a \in todo[p] : \A j \in DOMAIN known[p] :
         known[p][j].key = a.key => known[p][j] = nodes[known[p][j].id]

GrowthInv == TodoInv /\ (~overlap => AloneInv)

\* A step that leaves alone what consolidations hold, and the nodes.
LEMMA GrowthUntouched ==
  ASSUME GrowthInv, UNCHANGED <<nodes, todo, known, new, overlap>>,
         \A a, b \in patterns' : a.key = b.key => a = b,
         \A p \in Process : Consolidating(p)' => Consolidating(p),
         \A p \in Process : pc[p] \in {"load", "write", "map"} => pc'[p] = pc[p],
         \A p \in Process : pc'[p] \in {"write", "map"} => pc[p] \in {"write", "map"}
  PROVE  GrowthInv'
<1>1. TodoInv'
  BY DEF GrowthInv, TodoInv
<1>2. ~overlap' => AloneInv'
  BY DEF GrowthInv, AloneInv
<1>3. QED
  BY <1>1, <1>2 DEF GrowthInv

\* Nothing is between reading and writing when a consolidation that is alone
\* decays, or when days pass.
LEMMA DecayGrows ==
  ASSUME TypeInv, TypeInv', GrowthInv, (\E c \in Cleaner : Decay(c)) \/ DaysPass
  PROVE  GrowthInv'
<1>1. UNCHANGED <<patterns, todo, known, new, overlap>>
  BY DEF Decay, DaysPass, experiences
<1>2. /\ \A q \in Process : Consolidating(q)' => Consolidating(q)
      /\ \A q \in Process : pc[q] \in {"load", "write", "map"} => pc'[q] = pc[q]
  BY DEF Decay, DaysPass, Moves, Consolidating, TypeInv, ProcessesOK
<1>3. TodoInv'
  BY <1>1, <1>2 DEF GrowthInv, TodoInv
<1>4. ASSUME AloneInv PROVE \A q \in Process : pc'[q] \notin {"write", "map"}
  <2>1. CASE DaysPass
    BY <2>1 DEF DaysPass
  <2>2. ASSUME NEW c \in Cleaner, Decay(c)
        PROVE  \A q \in Process : pc'[q] \notin {"write", "map"}
    <3>1. \A q \in Process : pc'[q] = (IF q = c THEN "idle" ELSE pc[q])
      BY <2>2 DEF Decay, Moves, TypeInv, ProcessesOK
    <3>2. c \in Process /\ pc[c] = "decay"
      BY <2>2 DEF Decay, Moves, Process
    <3>3. \A q \in Process : q # c => pc[q] \notin {"write", "map"}
      BY <1>4, <3>2 DEF AloneInv, Consolidating
    <3>4. QED
      BY <3>1, <3>3
  <2>3. QED
    BY <2>1, <2>2
<1>5. /\ DOMAIN nodes' = DOMAIN nodes
      /\ \A i \in DOMAIN nodes : nodes'[i].key = nodes[i].key
  BY DecayKeeps DEF TypeInv
<1>6. AloneInv => AloneInv'
  BY <1>2, <1>4, <1>5 DEF AloneInv
<1>7. QED
  BY <1>1, <1>3, <1>6 DEF GrowthInv

LEMMA ReadPatternsGrows ==
  ASSUME TypeInv, TypeInv', GrowthInv, NEW p \in Process, ReadPatterns(p)
  PROVE  GrowthInv'
<1>1. /\ pc' = [pc EXCEPT ![p] = "load"] /\ todo' = [todo EXCEPT ![p] = patterns]
      /\ overlap' = (overlap \/ \E q \in Process \ {p} : Consolidating(q))
      /\ UNCHANGED <<nodes, patterns, known, new>>
      /\ pc[p] \notin {"write", "map"}
  BY DEF ReadPatterns, Moves, Begins, knowledge, experiences
<1>2. \A q \in Process : todo'[q] = (IF q = p THEN patterns ELSE todo[q])
                         /\ pc'[q] = (IF q = p THEN "load" ELSE pc[q])
  BY <1>1 DEF TypeInv, ProcessesOK
<1>3. TodoInv'
  BY <1>1, <1>2 DEF GrowthInv, TodoInv
<1>4. ASSUME ~overlap' PROVE AloneInv'
  <2>1. ~overlap /\ \A q \in Process : q # p => ~Consolidating(q)
    BY <1>1, <1>4
  <2>2. \A q, s \in Process : Consolidating(q)' /\ Consolidating(s)' => q = s
    BY <1>2, <2>1 DEF Consolidating
  <2>3. \A q \in Process : pc'[q] \notin {"write", "map"}
    BY <1>2, <2>1 DEF Consolidating
  <2>4. QED
    BY <1>1, <2>1, <2>2, <2>3 DEF GrowthInv, AloneInv
<1>5. QED
  BY <1>3, <1>4 DEF GrowthInv

LEMMA LoadKnowledgeGrows ==
  ASSUME TypeInv, TypeInv', GrowthInv, NEW p \in Process, LoadKnowledge(p)
  PROVE  GrowthInv'
<1>1. /\ \A q \in Process : /\ pc'[q] = (IF q = p THEN "write" ELSE pc[q])
                            /\ known'[q] = (IF q = p THEN nodes ELSE known[q])
      /\ pc[p] = "load" /\ UNCHANGED <<nodes, patterns, todo, new, overlap>>
  BY DEF LoadKnowledge, Moves, knowledge, experiences, TypeInv, ProcessesOK
<1>2. TodoInv'
  BY <1>1 DEF GrowthInv, TodoInv
<1>3. \A i \in DOMAIN nodes : nodes[i].id = i
  BY DEF TypeInv, KnowledgeOK
<1>4. AloneInv => AloneInv'
  BY <1>1, <1>3 DEF AloneInv, Consolidating
<1>5. QED
  BY <1>1, <1>2, <1>4 DEF GrowthInv

\* Of the processes only the one that is alone has patterns to look at.
LEMMA AloneTodo ==
  ASSUME GrowthInv, AloneInv, NEW p \in Process, pc[p] \in {"write", "map"}
  PROVE  /\ \A q \in Process : Consolidating(q) => q = p
         /\ \A q \in Process : q # p => todo[q] = {} /\ pc[q] \notin {"write", "map"}
<1>1. \A q \in Process : Consolidating(q) => q = p
  BY DEF AloneInv, Consolidating
<1>2. QED
  BY <1>1 DEF Consolidating, GrowthInv, TodoInv

LEMMA UpdateNodeGrows ==
  ASSUME TypeInv, TypeInv', GrowthInv, NEW p \in Process, NEW pattern \in todo[p],
         UpdateNode(p, pattern)
  PROVE  GrowthInv'
<1>1. /\ \A q \in Process : todo'[q] = (IF q = p THEN todo[p] \ {pattern} ELSE todo[q])
      /\ UNCHANGED <<patterns, pc, known, new, overlap>> /\ pc[p] = "write"
      /\ Existing(p, pattern) # {}
  BY DEF UpdateNode, experiences, TypeInv, ProcessesOK
<1>2. /\ DOMAIN nodes' = DOMAIN nodes
      /\ \A i \in DOMAIN nodes :
           /\ nodes'[i].key = nodes[i].key
           /\ nodes'[i] = nodes[i] \/ i = Seen(p, pattern).id
      /\ nodes[Seen(p, pattern).id].key = pattern.key
  BY <1>1, UpdateNodeKeeps, SeenNode DEF TypeInv
<1>3. TodoInv'
  BY <1>1 DEF GrowthInv, TodoInv
<1>4. ASSUME ~overlap' PROVE AloneInv'
  <2>1. AloneInv /\ TodoInv
    BY <1>1, <1>4 DEF GrowthInv
  <2>2. \A q \in Process : q # p => pc[q] \notin {"write", "map"}
    BY <1>1, <2>1, AloneTodo
  <2>3. ASSUME NEW a \in todo'[p], NEW j \in DOMAIN known[p], known[p][j].key = a.key
        PROVE  known[p][j] = nodes'[known[p][j].id]
    <3>1. a \in todo[p] /\ a.key # pattern.key
      BY <1>1, <2>1 DEF TodoInv
    <3>2. /\ known[p][j].id \in DOMAIN nodes
          /\ nodes[known[p][j].id].key = a.key
          /\ known[p][j] = nodes[known[p][j].id]
      BY <1>1, <2>1, <2>3, <3>1 DEF AloneInv, TypeInv, ProcessesOK
    <3>3. QED
      BY <1>2, <3>1, <3>2
  <2>4. \A q \in Process : pc'[q] \in {"write", "map"} =>
          \A a \in todo'[q] : \A j \in DOMAIN known'[q] :
            known'[q][j].key = a.key => known'[q][j] = nodes'[known'[q][j].id]
    BY <1>1, <2>2, <2>3
  <2>5. QED
    BY <1>1, <1>2, <2>1, <2>4 DEF AloneInv, Consolidating
<1>5. QED
  BY <1>3, <1>4 DEF GrowthInv

LEMMA InsertNodeGrows ==
  ASSUME TypeInv, TypeInv', GrowthInv, NEW p \in Process, NEW pattern \in todo[p],
         InsertNode(p, pattern)
  PROVE  GrowthInv'
<1>1. /\ \A q \in Process : /\ todo'[q] = (IF q = p THEN todo[p] \ {pattern} ELSE todo[q])
                            /\ pc'[q] = (IF q = p THEN "map" ELSE pc[q])
                            /\ q # p => new'[q] = new[q]
      /\ UNCHANGED <<patterns, known, overlap>> /\ pc[p] = "write"
      /\ Existing(p, pattern) = {}
  BY DEF InsertNode, Moves, experiences, TypeInv, ProcessesOK, KnowledgeOK
<1>2. /\ new'[p] \notin DOMAIN nodes /\ DOMAIN nodes' = DOMAIN nodes \cup {new'[p]}
      /\ nodes'[new'[p]].key = pattern.key
      /\ \A i \in DOMAIN nodes : nodes'[i] = nodes[i]
  BY InsertNodeKeeps DEF TypeInv
<1>3. TodoInv'
  BY <1>1 DEF GrowthInv, TodoInv
<1>4. ASSUME ~overlap' PROVE AloneInv'
  <2>1. AloneInv /\ TodoInv
    BY <1>1, <1>4 DEF GrowthInv
  <2>2. \A q \in Process : Consolidating(q) => q = p
    BY <1>1, <2>1, AloneTodo
  <2>3. \A q \in Process : q # p => pc[q] \notin {"write", "map"}
    BY <1>1, <2>1, AloneTodo
  <2>4. new[p] \notin DOMAIN nodes
    <3>1. new[p] = 0
      BY <1>1 DEF TypeInv, KnowledgeOK
    <3>2. 0 \notin DOMAIN nodes
      BY NodeTypes DEF TypeInv
    <3>3. QED
      BY <3>1, <3>2
  <2>5. \A i \in DOMAIN nodes : \E j \in DOMAIN known[p] : known[p][j].key = nodes[i].key
    BY <1>1, <2>1, <2>4 DEF AloneInv
  <2>6. \A i \in DOMAIN nodes : nodes[i].key # pattern.key
    BY <1>1, <2>5 DEF Existing
  <2>7. \A i, j \in DOMAIN nodes' : nodes'[i].key = nodes'[j].key => i = j
    BY <1>2, <2>1, <2>6 DEF AloneInv
  <2>8. ASSUME NEW a \in todo[p], NEW j \in DOMAIN known[p], known[p][j].key = a.key
        PROVE  known[p][j] = nodes'[known[p][j].id]
    <3>1. known[p][j].id \in DOMAIN nodes /\ known[p][j] = nodes[known[p][j].id]
      BY <1>1, <2>1, <2>8 DEF AloneInv, TypeInv, ProcessesOK
    <3>2. QED
      BY <1>2, <3>1
  <2>9. \A q \in Process : pc'[q] \in {"write", "map"} =>
          \A i \in DOMAIN nodes' :
            i = new'[q] \/ \E j \in DOMAIN known'[q] : known'[q][j].key = nodes'[i].key
    BY <1>1, <1>2, <2>3, <2>5
  <2>10. \A q \in Process : pc'[q] \in {"write", "map"} =>
           \A a \in todo'[q] : \A j \in DOMAIN known'[q] :
             known'[q][j].key = a.key => known'[q][j] = nodes'[known'[q][j].id]
    BY <1>1, <2>3, <2>8
  <2>11. \A q, s \in Process : Consolidating(q)' /\ Consolidating(s)' => q = s
    BY <1>1, <2>2 DEF Consolidating
  <2>12. QED
    BY <2>7, <2>9, <2>10, <2>11 DEF AloneInv
<1>5. QED
  BY <1>3, <1>4 DEF GrowthInv

LEMMA MapNodeGrows ==
  ASSUME TypeInv, TypeInv', GrowthInv, NEW p \in Process, MapNode(p)
  PROVE  GrowthInv'
<1>1. /\ \A q \in Process :
           /\ pc'[q] = (IF q = p THEN "write" ELSE pc[q])
           /\ new'[q] = (IF q = p THEN 0 ELSE new[q])
           /\ known'[q] = (IF q = p THEN Append(known[p], nodes[new[p]]) ELSE known[q])
      /\ UNCHANGED <<nodes, patterns, todo, overlap>> /\ pc[p] = "map"
  BY DEF MapNode, Moves, experiences, TypeInv, ProcessesOK, KnowledgeOK
<1>2. TodoInv'
  BY <1>1 DEF GrowthInv, TodoInv
<1>3. /\ known[p] \in Seq(Knowledge) /\ new[p] \in DOMAIN nodes
      /\ nodes[new[p]] \in Knowledge /\ nodes[new[p]].id = new[p]
  BY <1>1, ElementOfSeq, LenProperties DEF TypeInv, ProcessesOK, KnowledgeOK
<1>4. /\ \A j \in DOMAIN known[p] : j \in DOMAIN known'[p] /\ known'[p][j] = known[p][j]
      /\ \E j \in DOMAIN known'[p] : known'[p][j] = nodes[new[p]]
      /\ \A j \in DOMAIN known'[p] : j \in DOMAIN known[p] \/ known'[p][j] = nodes[new[p]]
  <2>1. /\ Len(known[p]) \in Nat /\ DOMAIN known[p] = 1..Len(known[p])
        /\ DOMAIN known'[p] = 1..(Len(known[p]) + 1)
        /\ \A j \in 1..Len(known[p]) : known'[p][j] = known[p][j]
        /\ known'[p][Len(known[p]) + 1] = nodes[new[p]]
    <3>1. known'[p] = Append(known[p], nodes[new[p]])
      BY <1>1
    <3>2. known'[p] \in Seq(Knowledge) /\ Len(known'[p]) = Len(known[p]) + 1
      BY <1>3, <3>1, AppendProperties
    <3>3. QED
      BY <1>3, <3>1, <3>2, AppendProperties, LenProperties
  <2>2. QED
    BY <2>1
<1>5. ASSUME AloneInv PROVE AloneInv'
  <2>1. \A q \in Process : pc'[q] \in {"write", "map"} =>
          \A i \in DOMAIN nodes' :
            i = new'[q] \/ \E j \in DOMAIN known'[q] : known'[q][j].key = nodes'[i].key
    BY <1>1, <1>4, <1>5 DEF AloneInv
  <2>2. ASSUME NEW a \in todo[p], NEW j \in DOMAIN known'[p], known'[p][j].key = a.key
        PROVE  known'[p][j] = nodes[known'[p][j].id]
    <3>1. CASE j \in DOMAIN known[p]
      BY <1>1, <1>4, <1>5, <2>2, <3>1 DEF AloneInv
    <3>2. CASE known'[p][j] = nodes[new[p]]
      BY <1>3, <3>2
    <3>3. QED
      BY <1>4, <3>1, <3>2
  <2>3. \A q \in Process : pc'[q] \in {"write", "map"} =>
          \A a \in todo'[q] : \A j \in DOMAIN known'[q] :
            known'[q][j].key = a.key => known'[q][j] = nodes'[known'[q][j].id]
    BY <1>1, <1>5, <2>2 DEF AloneInv
  <2>4. QED
    BY <1>1, <1>5, <2>1, <2>3 DEF AloneInv, Consolidating
<1>6. QED
  BY <1>1, <1>2, <1>5 DEF GrowthInv

\* A consolidation that ends, whether done or given up, holds nothing.
LEMMA EndGrows ==
  ASSUME TypeInv, TypeInv', GrowthInv, NEW p \in Process, Consolidated(p) \/ Abandon(p)
  PROVE  GrowthInv'
<1>1. /\ pc'[p] \in {"select", "idle"} /\ (pc'[p] = "select" => pc[p] = "write") /\ todo'[p] = {}
      /\ \A q \in Process : q # p => /\ pc'[q] = pc[q] /\ todo'[q] = todo[q]
                                     /\ known'[q] = known[q] /\ new'[q] = new[q]
      /\ UNCHANGED <<nodes, patterns, overlap>>
  BY DEF Consolidated, Abandon, Moves, knowledge, experiences, TypeInv, ProcessesOK, KnowledgeOK
<1>2. TodoInv'
  BY <1>1 DEF GrowthInv, TodoInv
<1>3. AloneInv => AloneInv'
  BY <1>1 DEF AloneInv, Consolidating
<1>4. QED
  BY <1>1, <1>2, <1>3 DEF GrowthInv

LEMMA GrowthInductive ==
  ASSUME TypeInv, TypeInv', GrowthInv, [Next]_vars
  PROVE  GrowthInv'
<1>1. \A a, b \in patterns : a.key = b.key => a = b
  BY DEF GrowthInv, TodoInv
<1>2. ASSUME NEW p \in Process,
             \/ p \in Worker /\ (Stamp(p) \/ InsertEvent(p) \/ InsertState(p))
             \/ p \in Worker /\ \E k \in Key : RecordExperience(p, k)
             \/ p \in Cleaner /\ (SelectCut(p) \/ TrimTimeline(p) \/ TrimStateLog(p))
      PROVE  GrowthInv'
  <2>1. UNCHANGED <<nodes, todo, known, new, overlap>>
    BY <1>2 DEF Stamp, InsertEvent, InsertState, RecordExperience, SelectCut, TrimTimeline,
                TrimStateLog, knowledge
  <2>2. \A a, b \in patterns' : a.key = b.key => a = b
    <3>1. \/ patterns' = patterns
          \/ \E k \in Key : \E S \in {{}} \cup {{a} : a \in {a \in Pattern : a.key = k}} :
               patterns' = {a \in patterns : a.key # k} \cup S
      BY <1>2 DEF Stamp, InsertEvent, InsertState, RecordExperience, SelectCut, TrimTimeline,
                  TrimStateLog, experiences
    <3>2. QED
      BY <1>1, <3>1
  <2>3. \E to \in PC \ {"load", "write", "map"} :
          /\ pc' = [pc EXCEPT ![p] = to]
          /\ to \in {"trim", "trimLog", "decay"} => pc[p] \in {"select", "trim", "trimLog"}
          /\ to = "select" => FALSE
          /\ pc[p] \notin {"load", "write", "map"}
    BY <1>2 DEF Stamp, InsertEvent, InsertState, RecordExperience, SelectCut, TrimTimeline,
                TrimStateLog, Moves, PC
  <2>4. /\ \A q \in Process : Consolidating(q)' => Consolidating(q)
        /\ \A q \in Process : pc[q] \in {"load", "write", "map"} => pc'[q] = pc[q]
        /\ \A q \in Process : pc'[q] \in {"write", "map"} => pc[q] \in {"write", "map"}
    BY <2>3 DEF Consolidating, TypeInv, ProcessesOK, PC
  <2>5. QED
    BY <2>1, <2>2, <2>4, GrowthUntouched
<1>3. CASE (\E c \in Cleaner : Decay(c)) \/ DaysPass
  BY <1>3, DecayGrows
<1>4. ASSUME NEW p \in Process, ReadPatterns(p) PROVE GrowthInv'
  BY <1>4, ReadPatternsGrows
<1>5. ASSUME NEW p \in Process, LoadKnowledge(p) PROVE GrowthInv'
  BY <1>5, LoadKnowledgeGrows
<1>6. ASSUME NEW p \in Process, NEW pattern \in todo[p], UpdateNode(p, pattern) PROVE GrowthInv'
  BY <1>6, UpdateNodeGrows
<1>7. ASSUME NEW p \in Process, NEW pattern \in todo[p], InsertNode(p, pattern) PROVE GrowthInv'
  BY <1>7, InsertNodeGrows
<1>8. ASSUME NEW p \in Process, MapNode(p) PROVE GrowthInv'
  BY <1>8, MapNodeGrows
<1>9. ASSUME NEW p \in Process, Consolidated(p) \/ Abandon(p) PROVE GrowthInv'
  BY <1>9, EndGrows
<1>10. CASE UNCHANGED vars
  <2>1. UNCHANGED <<nodes, pc, patterns, todo, known, new, overlap>>
    BY <1>10 DEF vars, knowledge, experiences
  <2>2. \A q \in Process : Consolidating(q)' => Consolidating(q)
    BY <2>1 DEF Consolidating
  <2>3. QED
    BY <1>1, <2>1, <2>2, GrowthUntouched
<1>11. QED
  BY <1>2, <1>3, <1>4, <1>5, <1>6, <1>7, <1>8, <1>9, <1>10 DEF Next, Process

\* What a node is by one step: no less trusted, unless it was stale, and of fewer
\* successes only if much more trusted.
Grows(i) ==
  /\ \/ nodes'[i].confidence >= nodes[i].confidence
     \/ nodes[i].stale /\ nodes'[i].confidence = Decayed(nodes[i].confidence)
  /\ nodes'[i].wins < nodes[i].wins => nodes'[i].confidence > nodes[i].confidence + Drift

\* An update finds the node as it was read, unless consolidations overlap.
LEMMA UpdateGrows ==
  ASSUME TypeInv, GrowthInv, ~overlap, NEW p \in Process, NEW pattern \in todo[p],
         UpdateNode(p, pattern), NEW i \in DOMAIN nodes
  PROVE  Grows(i)
<1> DEFINE seen == Seen(p, pattern)
<1>1. /\ nodes[i].wins \in Nat /\ nodes[i].confidence \in 0..98
      /\ pattern.wins \in Nat /\ pattern.confidence \in 0..98
      /\ nodes[i] \in Knowledge /\ pattern \in Pattern
  BY NodeTypes, MemoryStoreAssumption DEF TypeInv, ProcessesOK
<1>2. CASE nodes'[i] = nodes[i]
  BY <1>1, <1>2 DEF Grows
<1>3. CASE /\ i = seen.id /\ ShouldUpdate(seen, pattern)
           /\ nodes'[i] = Updated(nodes[i], pattern, seen)
  <2>1. pc[p] = "write" /\ Existing(p, pattern) # {}
    BY DEF UpdateNode
  <2>2. Min(Existing(p, pattern)) \in DOMAIN known[p] /\ seen.key = pattern.key
        /\ seen \in Knowledge
    BY <2>1, SeenNode DEF TypeInv
  <2>3. seen = nodes[i]
    BY <1>3, <2>1, <2>2 DEF Seen, GrowthInv, AloneInv
  <2>4. /\ nodes'[i].wins = pattern.wins
        /\ nodes'[i].confidence = Larger(pattern.confidence, nodes[i].confidence)
    BY <1>1, <1>3, <2>2, <2>3, UpdatedNode
  <2>5. \/ nodes[i].wins < pattern.wins
        \/ nodes[i].confidence + Drift < pattern.confidence
    BY <1>3, <2>3 DEF ShouldUpdate
  <2> DEFINE was == nodes[i].confidence
             is == nodes'[i].confidence
  <2>6. is \in 0..98 /\ is >= was /\ is >= pattern.confidence
    BY <1>1, <2>4, LargerIs
  <2>7. was \in 0..98 /\ nodes[i].wins \in Nat
    BY <1>1
  <2>8. pattern.wins \in Nat /\ pattern.confidence \in 0..98
    BY <1>1
  <2> HIDE DEF was, is
  <2>9. nodes'[i].wins < nodes[i].wins => is > was + Drift
    <3>1. SUFFICES ASSUME nodes'[i].wins < nodes[i].wins PROVE is > was + Drift
      OBVIOUS
    <3>2. ~(nodes[i].wins < pattern.wins)
      BY <2>4, <2>7, <2>8, <3>1
    <3>3. was + Drift < pattern.confidence
      BY <2>5, <3>2 DEF was
    <3>4. QED
      BY <2>6, <2>7, <2>8, <3>3 DEF Drift
  <2>10. QED
    BY <2>6, <2>9 DEF Grows, was, is
<1>4. QED
  BY <1>2, <1>3, UpdateNodeKeeps DEF TypeInv

LEMMA NodesGrow ==
  ASSUME TypeInv, GrowthInv, [Next]_vars, ~overlap, NEW i \in DOMAIN nodes
  PROVE  Grows(i)
<1>1. nodes[i].wins \in Nat /\ nodes[i].confidence \in 0..98
  BY NodeTypes DEF TypeInv
<1>2. ASSUME NEW p \in Process, NEW pattern \in todo[p], UpdateNode(p, pattern)
      PROVE  Grows(i)
  BY <1>2, UpdateGrows
<1>3. ASSUME NEW p \in Process, NEW pattern \in todo[p], InsertNode(p, pattern)
      PROVE  nodes'[i] = nodes[i]
  BY <1>3, InsertNodeKeeps DEF TypeInv
<1>4. CASE (\E c \in Cleaner : Decay(c)) \/ DaysPass
  <2>1. /\ nodes'[i].wins = nodes[i].wins
        /\ \/ nodes'[i].confidence = nodes[i].confidence
           \/ nodes[i].stale /\ nodes'[i].confidence = Decayed(nodes[i].confidence)
    BY <1>4, DecayKeeps DEF TypeInv
  <2>2. QED
    BY <1>1, <2>1 DEF Grows
<1>5. CASE nodes'[i] = nodes[i]
  BY <1>1, <1>5 DEF Grows
<1>6. CASE \E p \in Process : \E pattern \in todo[p] :
             UpdateNode(p, pattern) \/ InsertNode(p, pattern)
  BY <1>2, <1>3, <1>5, <1>6
<1>7. QED
  BY <1>4, <1>5, <1>6 DEF Next, Stamp, InsertEvent, InsertState, RecordExperience, SelectCut,
     TrimTimeline, TrimStateLog, ReadPatterns, LoadKnowledge, MapNode, Consolidated, Abandon,
     knowledge, vars

\* While consolidations do not overlap, a pattern has one node, which is never
\* forgotten, loses confidence by decay alone and takes a recount with fewer
\* successes only for a confidence that is higher by more than Drift, for any
\* patterns that may come up, any number of workers and cleanups, and wherever
\* one of them stops half-way.
THEOREM KnowledgeIsKept == Spec => KnowledgeGrows
<1>1. Init => GrowthInv
  <2>1. SUFFICES ASSUME Init PROVE GrowthInv
    OBVIOUS
  <2>2. DOMAIN nodes = {}
    <3>1. DOMAIN <<>> = {}
      OBVIOUS
    <3>2. QED
      BY <2>1, <3>1 DEF Init
  <2>3. QED
    BY <2>1, <2>2 DEF Init, GrowthInv, TodoInv, AloneInv, Consolidating
<1>2. TypeInv /\ TypeInv' /\ GrowthInv /\ [Next]_vars => GrowthInv'
  BY GrowthInductive
<1>3. TypeInv /\ GrowthInv /\ GrowthInv' /\ [Next]_vars =>
        [~overlap' =>
          /\ \A i, j \in DOMAIN nodes' : nodes'[i].key = nodes'[j].key => i = j
          /\ \A i \in DOMAIN nodes :
               /\ i \in DOMAIN nodes' /\ nodes'[i].key = nodes[i].key
               /\ \/ nodes'[i].confidence >= nodes[i].confidence
                  \/ nodes[i].stale /\ nodes'[i].confidence = Decayed(nodes[i].confidence)
               /\ nodes'[i].wins < nodes[i].wins =>
                    nodes'[i].confidence > nodes[i].confidence + Drift]_vars
  <2>1. SUFFICES ASSUME TypeInv, GrowthInv, GrowthInv', [Next]_vars, ~overlap'
                 PROVE  /\ \A i, j \in DOMAIN nodes' : nodes'[i].key = nodes'[j].key => i = j
                        /\ \A i \in DOMAIN nodes :
                             /\ i \in DOMAIN nodes' /\ nodes'[i].key = nodes[i].key
                             /\ Grows(i)
    BY DEF Grows
  <2>2. ~overlap
    BY <2>1 DEF Next, Stamp, InsertEvent, InsertState, RecordExperience, SelectCut, TrimTimeline,
       TrimStateLog, Decay, ReadPatterns, LoadKnowledge, UpdateNode, InsertNode, MapNode,
       Consolidated, Abandon, DaysPass, Begins, vars
  <2>3. DOMAIN nodes \subseteq DOMAIN nodes' /\ \A i \in DOMAIN nodes : nodes'[i].key = nodes[i].key
    BY <2>1, KnowledgeInductive DEF TypeInv
  <2>4. \A i, j \in DOMAIN nodes' : nodes'[i].key = nodes'[j].key => i = j
    BY <2>1 DEF GrowthInv, AloneInv
  <2>5. QED
    BY <2>1, <2>2, <2>3, <2>4, NodesGrow
<1>4. QED
  BY <1>1, <1>2, <1>3, TypeInvAlways, PTL DEF Spec, KnowledgeGrows

-----------------------------------------------------------------------------
(* The full-text index.                                                    *)

\* The node of an indexed row: the numbered one, or the one being stored, which
\* has the row after the last.
NodeOf(d) == IF d \in DOMAIN ids THEN ids[d] ELSE Len(nodes)

Storing == \E p \in Process : pc[p] = "map"

\* Unless something came between a node's row and its number, at most one node is
\* being stored, it is the last, every other node has its number, the index has
\* the numbered rows and the one of the node being stored, and its words for a
\* row are those of the node now.
IndexInv ==
  /\ \A p, q \in Process : pc[p] = "map" /\ pc[q] = "map" => p = q
  /\ \A p \in Process : pc[p] = "map" => new[p] = Len(nodes)
  /\ \A i \in DOMAIN nodes : Row(i) # {} \/ (Storing /\ i = Len(nodes))
  /\ docs = 1..(Len(ids) + IF Storing THEN 1 ELSE 0)
  /\ \A d \in docs : \A w : <<d, w>> \in fts <=> w \in nodes[NodeOf(d)].words

LEMMA IndexedNodes ==
  ASSUME TypeInv, IndexInv
  PROVE  /\ Len(ids) \in Nat /\ DOMAIN ids = 1..Len(ids)
         /\ \A r \in DOMAIN ids : ids[r] \in DOMAIN nodes
         /\ Storing => Len(nodes) \in DOMAIN nodes
         /\ \A d \in docs : NodeOf(d) \in DOMAIN nodes
<1>1. /\ Len(ids) \in Nat /\ DOMAIN ids = 1..Len(ids)
      /\ \A r \in DOMAIN ids : ids[r] \in DOMAIN nodes
  BY LenProperties, ElementOfSeq DEF TypeInv, KnowledgeOK
<1>2. Storing => Len(nodes) \in DOMAIN nodes
  BY DEF Storing, IndexInv, TypeInv, KnowledgeOK
<1>3. ASSUME NEW d \in docs PROVE NodeOf(d) \in DOMAIN nodes
  <2>1. CASE d \in DOMAIN ids
    BY <1>1, <2>1 DEF NodeOf
  <2>2. CASE d \notin DOMAIN ids
    <3>1. Storing
      BY <1>1, <2>2 DEF IndexInv
    <3>2. QED
      BY <1>2, <2>2, <3>1 DEF NodeOf
  <2>3. QED
    BY <2>1, <2>2
<1>4. QED
  BY <1>1, <1>2, <1>3

\* A step that leaves the index alone, and the texts of the nodes.
LEMMA IndexUntouched ==
  ASSUME TypeInv, TypeInv', IndexInv, UNCHANGED <<ids, fts, docs>>,
         DOMAIN nodes' = DOMAIN nodes,
         \A i \in DOMAIN nodes : nodes'[i].words = nodes[i].words,
         \A p \in Process : /\ pc'[p] = "map" <=> pc[p] = "map"
                            /\ pc'[p] = "map" => new'[p] = new[p]
  PROVE  IndexInv'
<1>1. Len(nodes') = Len(nodes)
  BY LenProperties DEF TypeInv, KnowledgeOK
<1>2. Storing' <=> Storing
  BY DEF Storing
<1>3. \A d \in docs : NodeOf(d)' = NodeOf(d) /\ NodeOf(d) \in DOMAIN nodes
  BY <1>1, IndexedNodes DEF NodeOf
<1>4. \A d \in docs : nodes'[NodeOf(d)'].words = nodes[NodeOf(d)].words
  BY <1>3
<1>5. \A i : Row(i)' = Row(i)
  BY DEF Row
<1>6. docs' = 1..(Len(ids') + IF Storing' THEN 1 ELSE 0)
  BY <1>2 DEF IndexInv
<1>7. QED
  BY <1>1, <1>2, <1>4, <1>5, <1>6 DEF IndexInv

\* The row FTS5 gives next.
LEMMA NextDocIs ==
  ASSUME NEW n \in Nat, docs = 1..n PROVE NextDoc = n + 1
<1>1. CASE n = 0
  BY <1>1 DEF NextDoc
<1>2. CASE n # 0
  <2>1. n \in docs /\ \A e \in docs : e <= n
    BY <1>2
  <2>2. \A d \in docs : (\A e \in docs : e <= d) => d = n
    BY <2>1
  <2>3. (CHOOSE d \in docs : \A e \in docs : e <= d) = n
    BY <2>1, <2>2
  <2>4. QED
    BY <2>1, <2>3 DEF NextDoc
<1>3. QED
  BY <1>1, <1>2

LEMMA InsertNodeIndexes ==
  ASSUME TypeInv, TypeInv', IndexInv, NEW p \in Process, NEW pattern \in todo[p],
         InsertNode(p, pattern), ~torn'
  PROVE  IndexInv'
<1> DEFINE id == Len(nodes) + 1
           doc == Len(ids) + 1
           text == pattern.words
<1>1. /\ pc[p] = "write" /\ \A q \in Process : pc'[q] = (IF q = p THEN "map" ELSE pc[q])
      /\ nodes' = Append(nodes, Node(id, pattern)) /\ new'[p] = id /\ UNCHANGED ids
      /\ IndexInsert(id, text) /\ \A q \in Process \ {p} : pc[q] # "map"
  BY DEF InsertNode, Moves, TypeInv, ProcessesOK, KnowledgeOK
<1>2. /\ Len(ids) \in Nat /\ DOMAIN ids = 1..Len(ids)
      /\ \A r \in DOMAIN ids : ids[r] \in DOMAIN nodes
      /\ Len(nodes) \in Nat /\ DOMAIN nodes = 1..Len(nodes)
  BY IndexedNodes, NodeTypes DEF TypeInv
<1>3. ~Storing /\ Storing'
  BY <1>1 DEF Storing
<1>4. docs = 1..Len(ids)
  BY <1>2, <1>3 DEF IndexInv
<1>5. Row(id) = {}
  BY <1>2 DEF Row
<1>6. DocFor(id) = {doc}
  BY <1>2, <1>4, <1>5, NextDocIs DEF DocFor
<1>7. fts' = fts \cup ({doc} \X text) /\ docs' = docs \cup {doc}
  BY <1>1, <1>6 DEF IndexInsert
<1>8. /\ Len(nodes') = id /\ DOMAIN nodes' = 1..id /\ nodes'[id] = Node(id, pattern)
      /\ \A i \in DOMAIN nodes : nodes'[i] = nodes[i]
  <2>1. nodes \in Seq(Knowledge) /\ nodes' \in Seq(Knowledge)
    BY DEF TypeInv, KnowledgeOK
  <2>2. Len(nodes') = id
    BY <1>1, <2>1
  <2>3. QED
    BY <1>1, <1>2, <2>1, <2>2, LenProperties, InsertNodeKeeps DEF TypeInv
<1>9. docs' = 1..doc
  BY <1>2, <1>4, <1>7
<1>10. ASSUME NEW d \in docs', NEW w
       PROVE  <<d, w>> \in fts' <=> w \in nodes'[NodeOf(d)'].words
  <2>1. CASE d = doc
    <3>1. NodeOf(d)' = id
      BY <1>1, <1>2, <1>8, <2>1 DEF NodeOf
    <3>2. nodes'[id].words = text
      BY <1>8 DEF Node
    <3>3. <<d, w>> \notin fts
      <4>1. SUFFICES ASSUME <<d, w>> \in fts PROVE FALSE
        OBVIOUS
      <4>2. <<d, w>>[1] \in docs
        BY <4>1 DEF TypeInv, KnowledgeOK
      <4>3. d \in docs
        BY <4>2
      <4>4. QED
        BY <1>2, <1>4, <2>1, <4>3
    <3>4. QED
      BY <1>7, <2>1, <3>1, <3>2, <3>3
  <2>2. CASE d # doc
    <3>1. d \in docs /\ d \in DOMAIN ids
      BY <1>2, <1>4, <1>7, <2>2
    <3>2. NodeOf(d)' = ids[d] /\ NodeOf(d) = ids[d] /\ nodes'[ids[d]] = nodes[ids[d]]
      BY <1>1, <1>2, <1>8, <3>1 DEF NodeOf
    <3>3. <<d, w>> \in fts' <=> <<d, w>> \in fts
      BY <1>7, <2>2
    <3>4. QED
      BY <3>1, <3>2, <3>3 DEF IndexInv
  <2>3. QED
    BY <2>1, <2>2
<1>11. \A i \in DOMAIN nodes' : Row(i)' # {} \/ (Storing' /\ i = Len(nodes'))
  <2>1. \A i : Row(i)' = Row(i)
    BY <1>1 DEF Row
  <2>2. QED
    BY <1>2, <1>3, <1>8, <2>1 DEF IndexInv
<1>12. docs' = 1..(Len(ids') + IF Storing' THEN 1 ELSE 0)
  BY <1>1, <1>3, <1>9
<1>13. /\ \A q, s \in Process : pc'[q] = "map" /\ pc'[s] = "map" => q = s
       /\ \A q \in Process : pc'[q] = "map" => new'[q] = Len(nodes')
  BY <1>1, <1>8
<1>14. QED
  BY <1>10, <1>11, <1>12, <1>13 DEF IndexInv

LEMMA MapNodeIndexes ==
  ASSUME TypeInv, TypeInv', IndexInv, NEW p \in Process, MapNode(p)
  PROVE  IndexInv'
<1>1. /\ pc[p] = "map" /\ \A q \in Process : pc'[q] = (IF q = p THEN "write" ELSE pc[q])
      /\ ids' = Append(ids, new[p]) /\ UNCHANGED <<nodes, fts, docs>>
  BY DEF MapNode, Moves, TypeInv, ProcessesOK
<1>2. /\ Len(ids) \in Nat /\ DOMAIN ids = 1..Len(ids)
      /\ Len(nodes) \in Nat /\ DOMAIN nodes = 1..Len(nodes)
  BY IndexedNodes, NodeTypes DEF TypeInv
<1>3. Storing /\ new[p] = Len(nodes) /\ docs = 1..(Len(ids) + 1)
  BY <1>1, <1>2 DEF Storing, IndexInv
<1>4. ~Storing' /\ \A q \in Process : pc'[q] # "map"
  BY <1>1 DEF Storing, IndexInv
<1>5. /\ Len(ids') = Len(ids) + 1 /\ DOMAIN ids' = 1..(Len(ids) + 1)
      /\ \A r \in DOMAIN ids : ids'[r] = ids[r]
      /\ ids'[Len(ids) + 1] = Len(nodes)
  <2>1. ids \in Seq(DOMAIN nodes) /\ ids' \in Seq(DOMAIN nodes)
    BY <1>1 DEF TypeInv, KnowledgeOK
  <2>2. new[p] \in DOMAIN nodes
    BY <1>1 DEF TypeInv, KnowledgeOK
  <2>3. Len(ids') = Len(ids) + 1
    BY <1>1, <2>1, <2>2, AppendProperties
  <2>4. QED
    BY <1>1, <1>2, <1>3, <2>1, <2>2, <2>3, AppendProperties, LenProperties
<1>6. \A d \in docs : NodeOf(d)' = NodeOf(d)
  BY <1>1, <1>2, <1>3, <1>5 DEF NodeOf
<1>7. \A i \in DOMAIN nodes' : Row(i)' # {}
  <2>1. TAKE i \in DOMAIN nodes'
  <2>2. CASE i = Len(nodes)
    BY <1>2, <1>5, <2>2 DEF Row
  <2>3. CASE i # Len(nodes)
    <3>1. Row(i) # {}
      BY <1>1, <2>3 DEF IndexInv
    <3>2. QED
      BY <1>2, <1>5, <3>1 DEF Row
  <2>4. QED
    BY <2>2, <2>3
<1>8. docs' = 1..(Len(ids') + IF Storing' THEN 1 ELSE 0)
  BY <1>1, <1>2, <1>3, <1>4, <1>5
<1>9. \A d \in docs' : \A w : <<d, w>> \in fts' <=> w \in nodes'[NodeOf(d)'].words
  BY <1>1, <1>6 DEF IndexInv
<1>10. QED
  BY <1>4, <1>7, <1>8, <1>9 DEF IndexInv

LEMMA UpdateNodeIndexes ==
  ASSUME TypeInv, TypeInv', IndexInv, NEW p \in Process, NEW pattern \in todo[p],
         UpdateNode(p, pattern), ~torn'
  PROVE  IndexInv'
<1> DEFINE at == Seen(p, pattern).id
           text == pattern.words
<1>1. /\ at \in DOMAIN nodes /\ nodes[at].key = pattern.key
      /\ UNCHANGED <<pc, new, ids>>
  BY SeenNode DEF UpdateNode, TypeInv
<1>2. \/ UNCHANGED <<nodes, fts, docs>>
      \/ /\ nodes' = [nodes EXCEPT ![at] = nodes'[at]] /\ nodes'[at].words = text
         /\ IndexUpdate(at, nodes[at].words, text) /\ Row(at) # {}
  <2>1. /\ at \in DOMAIN nodes /\ nodes[at] \in Knowledge /\ pattern \in Pattern
        /\ Seen(p, pattern) \in Knowledge
    BY <1>1, NodeTypes, SeenNode DEF TypeInv, ProcessesOK, UpdateNode
  <2>2. \/ UNCHANGED <<nodes, fts, docs>>
        \/ /\ nodes' = [nodes EXCEPT ![at] = Updated(nodes[at], pattern, Seen(p, pattern))]
           /\ IndexUpdate(at, nodes[at].words, text)
           /\ torn' = (torn \/ Row(at) = {})
    BY DEF UpdateNode, Seen, Updated
  <2>3. Updated(nodes[at], pattern, Seen(p, pattern)).words = text
    BY <2>1, UpdatedNode
  <2>4. torn \in BOOLEAN
    BY DEF TypeInv, ProcessesOK
  <2> HIDE DEF at, text
  <2>5. QED
    BY <2>1, <2>2, <2>3, <2>4
<1> HIDE DEF at, text
<1>3. CASE UNCHANGED <<nodes, fts, docs>>
  BY <1>1, <1>3, IndexUntouched
<1>4. CASE /\ nodes' = [nodes EXCEPT ![at] = nodes'[at]] /\ nodes'[at].words = text
           /\ IndexUpdate(at, nodes[at].words, text) /\ Row(at) # {}
  <2>1. PICK r \in DOMAIN ids : ids[r] = at
    BY <1>4 DEF Row
  <2>2. Row(at) = {r}
    BY <2>1 DEF Row, TypeInv, KnowledgeOK, IsInjective
  <2>3. /\ Len(ids) \in Nat /\ DOMAIN ids = 1..Len(ids)
        /\ \A d \in docs : NodeOf(d) \in DOMAIN nodes
    BY IndexedNodes
  <2>4. r \in docs /\ NodeOf(r) = at
    BY <2>1, <2>3 DEF IndexInv, NodeOf
  <2>5. docs' = docs /\ fts' = (fts \ ({r} \X nodes[at].words)) \cup ({r} \X text)
    BY <1>4, <2>2, <2>4 DEF IndexUpdate
  <2>6. DOMAIN nodes' = DOMAIN nodes
    BY <1>4
  <2>7. Len(nodes') = Len(nodes)
    BY <2>6, LenProperties DEF TypeInv, KnowledgeOK
  <2>8. \A d \in docs : NodeOf(d)' = NodeOf(d)
    BY <1>1, <2>7 DEF NodeOf
  <2>9. ASSUME NEW d \in docs, NEW w
        PROVE  <<d, w>> \in fts' <=> w \in nodes'[NodeOf(d)].words
    <3>1. CASE d = r
      <4>1. <<r, w>> \in fts <=> w \in nodes[at].words
        BY <2>4 DEF IndexInv
      <4>2. QED
        BY <1>4, <2>4, <2>5, <3>1, <4>1
    <3>2. CASE d # r
      <4>1. NodeOf(d) # at
        <5>1. CASE d \in DOMAIN ids
          BY <2>1, <3>2, <5>1 DEF NodeOf, TypeInv, KnowledgeOK, IsInjective
        <5>2. CASE d \notin DOMAIN ids
          <6>1. PICK q \in Process : pc[q] = "map" /\ new[q] = Len(nodes)
            BY <2>3, <5>2 DEF IndexInv, Storing
          <6>2. new[q] # at
            BY <2>1, <6>1 DEF TypeInv, KnowledgeOK
          <6>3. QED
            BY <5>2, <6>1, <6>2 DEF NodeOf
        <5>3. QED
          BY <5>1, <5>2
      <4>2. nodes'[NodeOf(d)] = nodes[NodeOf(d)]
        BY <1>4, <2>3, <4>1
      <4>3. <<d, w>> \in fts' <=> <<d, w>> \in fts
        BY <2>5, <3>2
      <4>4. QED
        BY <4>2, <4>3 DEF IndexInv
    <3>3. QED
      BY <3>1, <3>2
  <2>10. (Storing' <=> Storing) /\ \A i : Row(i)' = Row(i)
    BY <1>1 DEF Storing, Row
  <2>11. docs' = 1..(Len(ids') + IF Storing' THEN 1 ELSE 0)
    BY <1>1, <2>5, <2>10 DEF IndexInv
  <2>12. QED
    BY <1>1, <2>5, <2>6, <2>7, <2>8, <2>9, <2>10, <2>11 DEF IndexInv
<1>5. QED
  BY <1>2, <1>3, <1>4

LEMMA IndexInductive ==
  ASSUME TypeInv, TypeInv', ~torn => IndexInv, [Next]_vars
  PROVE  ~torn' => IndexInv'
<1> SUFFICES ASSUME ~torn' PROVE IndexInv'
  OBVIOUS
<1>1. IndexInv
  <2>1. torn \in BOOLEAN
    BY DEF TypeInv, ProcessesOK
  <2>2. ASSUME NEW p \in Process, NEW pattern \in todo[p],
               UpdateNode(p, pattern) \/ InsertNode(p, pattern)
        PROVE  ~torn
    BY <2>1, <2>2 DEF UpdateNode, InsertNode
  <2>3. ASSUME NEW p \in Process, Abandon(p) PROVE ~torn
    BY <2>1, <2>3 DEF Abandon
  <2>4. QED
    BY <2>2, <2>3 DEF Next, Stamp, InsertEvent, InsertState, RecordExperience, SelectCut,
       TrimTimeline, TrimStateLog, Decay, ReadPatterns, LoadKnowledge, MapNode, Consolidated,
       DaysPass, vars
<1>2. ASSUME NEW p \in Process,
             \/ p \in Worker /\ (Stamp(p) \/ InsertEvent(p) \/ InsertState(p))
             \/ p \in Worker /\ \E k \in Key : RecordExperience(p, k)
             \/ p \in Cleaner /\ (SelectCut(p) \/ TrimTimeline(p) \/ TrimStateLog(p))
             \/ ReadPatterns(p) \/ LoadKnowledge(p) \/ Consolidated(p)
      PROVE  IndexInv'
  <2>1. UNCHANGED <<nodes, ids, fts, docs, new>>
    BY <1>2 DEF Stamp, InsertEvent, InsertState, RecordExperience, SelectCut, TrimTimeline,
                TrimStateLog, ReadPatterns, LoadKnowledge, Consolidated, knowledge
  <2>2. pc[p] # "map" /\ \E to \in PC \ {"map"} : pc' = [pc EXCEPT ![p] = to]
    BY <1>2 DEF Stamp, InsertEvent, InsertState, RecordExperience, SelectCut, TrimTimeline,
                TrimStateLog, ReadPatterns, LoadKnowledge, Consolidated, Moves, PC
  <2>3. \A q \in Process : pc'[q] = "map" <=> pc[q] = "map"
    BY <2>2 DEF TypeInv, ProcessesOK
  <2>4. QED
    BY <1>1, <2>1, <2>3, IndexUntouched
<1>3. CASE (\E c \in Cleaner : Decay(c)) \/ DaysPass
  <2>1. UNCHANGED <<ids, fts, docs, new>>
    BY <1>3 DEF Decay, DaysPass
  <2>2. \A q \in Process : pc'[q] = "map" <=> pc[q] = "map"
    BY <1>3 DEF Decay, DaysPass, Moves, TypeInv, ProcessesOK
  <2>3. /\ DOMAIN nodes' = DOMAIN nodes
        /\ \A i \in DOMAIN nodes : nodes'[i].words = nodes[i].words
    BY <1>3, DecayKeeps DEF TypeInv
  <2>4. QED
    BY <1>1, <2>1, <2>2, <2>3, IndexUntouched
<1>4. ASSUME NEW p \in Process, NEW pattern \in todo[p], UpdateNode(p, pattern) PROVE IndexInv'
  BY <1>1, <1>4, UpdateNodeIndexes
<1>5. ASSUME NEW p \in Process, NEW pattern \in todo[p], InsertNode(p, pattern) PROVE IndexInv'
  BY <1>1, <1>5, InsertNodeIndexes
<1>6. ASSUME NEW p \in Process, MapNode(p) PROVE IndexInv'
  BY <1>1, <1>6, MapNodeIndexes
<1>7. ASSUME NEW p \in Process, Abandon(p) PROVE IndexInv'
  <2>1. pc[p] # "map" /\ UNCHANGED <<nodes, ids, fts, docs>>
    BY <1>7 DEF Abandon, knowledge
  <2>2. \A q \in Process : /\ pc'[q] = (IF q = p THEN "idle" ELSE pc[q])
                           /\ q # p => new'[q] = new[q]
    BY <1>7 DEF Abandon, TypeInv, ProcessesOK, KnowledgeOK
  <2>3. \A q \in Process : /\ pc'[q] = "map" <=> pc[q] = "map"
                           /\ pc'[q] = "map" => new'[q] = new[q]
    BY <2>1, <2>2
  <2>4. QED
    BY <1>1, <2>1, <2>3, IndexUntouched
<1>8. CASE UNCHANGED vars
  <2>1. UNCHANGED <<nodes, ids, fts, docs, new, pc>>
    BY <1>8 DEF vars, knowledge
  <2>2. QED
    BY <1>1, <2>1, IndexUntouched
<1>9. QED
  BY <1>2, <1>3, <1>4, <1>5, <1>6, <1>7, <1>8 DEF Next, Process

\* Two indexed rows never stand for one node.
LEMMA RowsApart ==
  ASSUME TypeInv, IndexInv, NEW d \in docs, NEW e \in docs, NodeOf(d) = NodeOf(e)
  PROVE  d = e
<1>1. /\ Len(ids) \in Nat /\ DOMAIN ids = 1..Len(ids)
  BY IndexedNodes
<1>2. CASE d \in DOMAIN ids /\ e \in DOMAIN ids
  BY <1>2 DEF NodeOf, TypeInv, KnowledgeOK, IsInjective
<1>3. CASE d \notin DOMAIN ids /\ e \notin DOMAIN ids
  BY <1>1, <1>3 DEF IndexInv
<1>4. ASSUME NEW a \in docs, NEW b \in docs, a \in DOMAIN ids, b \notin DOMAIN ids
      PROVE  NodeOf(a) # NodeOf(b)
  <2>1. PICK p \in Process : pc[p] = "map" /\ new[p] = Len(nodes)
    BY <1>1, <1>4 DEF IndexInv, Storing
  <2>2. \A r \in DOMAIN ids : ids[r] # new[p]
    BY <2>1 DEF TypeInv, KnowledgeOK
  <2>3. QED
    BY <1>4, <2>1, <2>2 DEF NodeOf
<1>5. QED
  BY <1>2, <1>3, <1>4

\* A query for a word finds the numbered nodes that hold it, if there is room.
LEMMA HitsExact ==
  ASSUME TypeInv, IndexInv, NEW w, Cardinality(Holding(w)) <= Limit
  PROVE  FtsHits({w}) = Holding(w) \cap Range(ids)
<1> DEFINE M == Matching({w})
<1>1. /\ Len(ids) \in Nat /\ DOMAIN ids = 1..Len(ids)
      /\ \A r \in DOMAIN ids : ids[r] \in DOMAIN nodes
      /\ \A d \in docs : NodeOf(d) \in DOMAIN nodes
      /\ DOMAIN ids \subseteq docs /\ docs \subseteq Nat
  BY IndexedNodes DEF IndexInv
<1>2. M = {d \in docs : NodeOf(d) \in Holding(w)}
  BY <1>1 DEF Matching, Holding, IndexInv
<1>3. IsFiniteSet(Holding(w))
  <2>1. Len(nodes) \in Nat /\ DOMAIN nodes = 1..Len(nodes)
    BY NodeTypes DEF TypeInv
  <2>2. IsFiniteSet(DOMAIN nodes)
    BY <2>1, FS_Interval
  <2>3. QED
    BY <2>2, FS_Subset DEF Holding
<1>4. IsFiniteSet(M) /\ Cardinality(M) <= Limit
  <2> DEFINE f == [d \in M |-> NodeOf(d)]
  <2>1. f \in Injection(M, Holding(w))
    BY <1>2, RowsApart DEF Injection, IsInjective
  <2>2. IsFiniteSet(M) /\ Cardinality(M) <= Cardinality(Holding(w))
    BY <1>3, <2>1, FS_Injection
  <2>3. QED
    BY <1>3, <2>2, FS_CardinalityType, MemoryStoreAssumption
<1>5. ASSUME NEW d \in M PROVE Cardinality({e \in M : e < d}) < Limit
  <2>1. {e \in M : e < d} \subseteq M \ {d}
    <3>1. \A e \in M : e \in Nat
      BY <1>1, <1>2
    <3> HIDE DEF M
    <3>2. \A e \in M : e < d => e # d
      BY <3>1
    <3>3. QED
      BY <3>2
  <2>2. /\ IsFiniteSet(M \ {d}) /\ Cardinality(M \ {d}) = Cardinality(M) - 1
        /\ Cardinality(M) \in Nat
    BY <1>4, FS_RemoveElement, FS_CardinalityType
  <2>3. /\ Cardinality({e \in M : e < d}) <= Cardinality(M \ {d})
        /\ Cardinality({e \in M : e < d}) \in Nat
    BY <2>1, <2>2, FS_Subset, FS_CardinalityType
  <2>4. QED
    BY <1>4, <2>2, <2>3, MemoryStoreAssumption
<1>6. FtsHits({w}) = {ids[r] : r \in M \cap DOMAIN ids}
  <2>1. {d \in M : Cardinality({e \in M : e < d}) < Limit} = M
    BY <1>5
  <2>2. QED
    BY <2>1 DEF FtsHits
<1> HIDE DEF M
<1>7. \A r \in DOMAIN ids : r \in M <=> ids[r] \in Holding(w)
  BY <1>1, <1>2 DEF NodeOf
<1>8. QED
  BY <1>6, <1>7 DEF Range

Expected(w, near) == (Holding(w) \cap Range(ids)) \cup {ids[r] : r \in near}

LEMMA IndexSearch ==
  ASSUME TypeInv, IndexInv, NEW w, NEW near \in SUBSET vec, Expected(w, near) # {},
         Cardinality(Holding(w) \cup Expected(w, near)) <= Limit,
         NEW N
  PROVE  N \in Recalled({w}, near) <=> N = Expected(w, near)
<1> DEFINE expected == Expected(w, near)
<1>0. expected # {} /\ Cardinality(Holding(w) \cup expected) <= Limit
  OBVIOUS
<1>1. IsFiniteSet(DOMAIN nodes) /\ \A i \in DOMAIN nodes : nodes[i] \in Knowledge
  <2>1. /\ Len(nodes) \in Nat /\ DOMAIN nodes = 1..Len(nodes)
        /\ \A i \in DOMAIN nodes : nodes[i] \in Knowledge
    BY NodeTypes DEF TypeInv
  <2>2. IsFiniteSet(1..Len(nodes))
    BY <2>1, FS_Interval
  <2>3. QED
    BY <2>1, <2>2
<1>2. Holding(w) \subseteq DOMAIN nodes /\ expected \subseteq DOMAIN nodes
  <2>1. near \subseteq DOMAIN ids /\ \A r \in DOMAIN ids : ids[r] \in DOMAIN nodes
    BY IndexedNodes DEF TypeInv, KnowledgeOK
  <2>2. QED
    BY <2>1 DEF Holding, Expected
<1>3. /\ IsFiniteSet(expected) /\ IsFiniteSet(Holding(w) \cup expected)
      /\ Cardinality(expected) \in Nat /\ Cardinality(Holding(w)) \in Nat
      /\ Cardinality(Holding(w)) <= Limit /\ Cardinality(expected) <= Limit
  <2>1. Holding(w) \cup expected \subseteq DOMAIN nodes
    BY <1>2
  <2>2. IsFiniteSet(Holding(w) \cup expected) /\ Cardinality(Holding(w) \cup expected) \in Nat
    BY <1>1, <2>1, FS_Subset, FS_CardinalityType
  <2>3. /\ IsFiniteSet(expected) /\ IsFiniteSet(Holding(w))
        /\ Cardinality(expected) <= Cardinality(Holding(w) \cup expected)
        /\ Cardinality(Holding(w)) <= Cardinality(Holding(w) \cup expected)
    BY <2>2, FS_Subset
  <2>4. Cardinality(expected) \in Nat /\ Cardinality(Holding(w)) \in Nat
    BY <2>3, FS_CardinalityType
  <2> HIDE DEF expected
  <2>5. QED
    BY <1>0, <2>2, <2>3, <2>4, MemoryStoreAssumption
<1>4. FtsHits({w}) \cup {ids[r] : r \in near} = expected
  BY <1>3, HitsExact DEF Expected
<1> HIDE DEF expected
<1>5. Smaller(Limit, Cardinality(expected)) = Cardinality(expected)
  BY <1>3, MemoryStoreAssumption DEF Smaller
<1>6. N \in Recalled({w}, near) <=> N \in SUBSET expected /\ Cardinality(N) = Cardinality(expected)
  BY <1>0, <1>4, <1>5 DEF Recalled
<1>7. N \in SUBSET expected /\ Cardinality(N) = Cardinality(expected) => N = expected
  BY <1>3, FS_Subset
<1>8. QED
  BY <1>6, <1>7 DEF expected

\* The full-text index says what the nodes say: as long as nothing comes between a
\* node's row and its number, a word recalls exactly the numbered nodes that hold
\* it now, with what the embeddings add, for any texts, any number of nodes and
\* rows and any limit that has room for them.
THEOREM SearchFindsAll == Spec => []SearchExact
<1>1. Init => IndexInv
  <2>1. SUFFICES ASSUME Init PROVE IndexInv
    OBVIOUS
  <2>2. DOMAIN <<>> = {} /\ Len(<<>>) = 0
    OBVIOUS
  <2>3. DOMAIN nodes = {} /\ Len(ids) = 0 /\ docs = {} /\ ~Storing
    BY <2>1, <2>2 DEF Init, Storing
  <2>4. docs = 1..(Len(ids) + IF Storing THEN 1 ELSE 0)
    BY <2>3
  <2>5. QED
    BY <2>1, <2>3, <2>4 DEF IndexInv, Init
<1>2. TypeInv /\ TypeInv' /\ (~torn => IndexInv) /\ [Next]_vars => (~torn' => IndexInv')
  BY IndexInductive
<1>3. TypeInv /\ (~torn => IndexInv) => SearchExact
  <2>1. ASSUME TypeInv, IndexInv, NEW w, NEW near \in SUBSET vec PROVE FindsExactly(w, near)
    <3>1. SUFFICES ASSUME Expected(w, near) # {},
                          Cardinality(Holding(w) \cup Expected(w, near)) <= Limit
                   PROVE  Recalled({w}, near) = {Expected(w, near)}
      BY Zenon DEF Expected, FindsExactly
    <3>2. QED
      BY <2>1, <3>1, IndexSearch
  <2>2. QED
    BY <2>1 DEF SearchExact
<1>4. QED
  BY <1>1, <1>2, <1>3, TypeInvAlways, PTL DEF Spec
=============================================================================
