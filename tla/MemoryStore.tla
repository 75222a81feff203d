------------------------------ MODULE MemoryStore ------------------------------
(***************************************************************************)
(* The timeline and the knowledge of an agent in its SQLite database:      *)
(* appending events, retention, consolidation of repeated experiences into *)
(* knowledge nodes, their full-text index, decay and recall.  Rules, which *)
(* the same consolidation writes, are the subject of Learning.             *)
(*                                                                         *)
(* Workers (chat sessions, one-shot runs) and the cleanup command open the *)
(* same file, each with a connection of its own.  The code opens no        *)
(* transaction: every statement commits by itself, with the triggers it    *)
(* fires, and between two statements other processes do theirs.            *)
(*                                                                         *)
(* A pattern is what the latest 256 experiences of a key amount to: how    *)
(* often it succeeded in them, its confidence, in hundredths, and the      *)
(* words of its text.  It is made anew for every consolidation, so that a  *)
(* count may well be lower than the time before.  Experiences themselves   *)
(* are the subject of Learning.                                            *)
(***************************************************************************)
EXTENDS Integers, FiniteSets, SequencesExt, Functions

CONSTANTS
  Worker,      \* processes that run tasks
  Cleaner,     \* processes that run `retina cleanup`
  Key,         \* hashes of a task signature with an action
  Word,        \* what the texts are made of
  Pattern,     \* what the latest experiences of a key may amount to
  Keep,        \* max_recent_states of the cleanups, --keep-events
  Limit,       \* results a recall asks for
  MaxWork,     \* bound: events inserted plus twice the experiences recorded
  MaxClock     \* bound: ticks of the clock

Process == Worker \cup Cleaner

ASSUME MemoryStoreAssumption ==
  /\ Worker \cap Cleaner = {}
  /\ Pattern \subseteq [key : Key, words : SUBSET Word, wins : Nat \ {0}, confidence : 0..98]
  /\ Keep \in Nat \ {0} /\ Limit \in Nat \ {0}
  /\ MaxWork \in Nat /\ MaxClock \in Nat

VARIABLES
  timeline,  \* timeline_events: events with their timestamps
  stateLog,  \* state_log
  nodes,     \* knowledge, in row order
  ids,       \* knowledge_id_map: ids[r] is the node of row r
  fts,       \* knowledge_fts: the pairs of a row and a word in it
  docs,      \* the rows knowledge_fts believes to hold
  vec,       \* the rows of knowledge_vec
  patterns,  \* the patterns in the latest of the experiences table
  recorded,  \* how many experiences were recorded
  clock,     \* the wall clock
  pc,        \* where each process is
  event,     \* the event a worker is appending: {} or {event}
  todo,      \* patterns a consolidation has still to look at
  known,     \* the knowledge it has read
  new,       \* the node it is storing, 0 for none
  cut,       \* the timestamp a retention deletes up to
  ever,      \* history: every event ever inserted in timeline_events
  logged,    \* history: every event ever inserted in state_log
  overlap,   \* history: two consolidations were under way at once
  torn       \* history: something came between a node's row and its id

knowledge == <<nodes, ids, fts, docs, vec>>
events    == <<timeline, stateLog, clock, event, ever, logged>>
experiences == <<patterns, recorded>>
vars == <<knowledge, events, experiences, pc, todo, known, new, cut, overlap, torn>>

Floor == 10
Drift == 5

Init ==
  /\ timeline = {} /\ stateLog = {} /\ ever = {} /\ logged = {} /\ clock = 0
  /\ nodes = <<>> /\ ids = <<>> /\ fts = {} /\ docs = {} /\ vec = {}
  /\ patterns = {} /\ recorded = 0
  /\ pc = [p \in Process |-> "idle"]
  /\ event = [w \in Worker |-> {}]
  /\ todo = [p \in Process |-> {}]
  /\ known = [p \in Process |-> <<>>]
  /\ new = [p \in Process |-> 0]
  /\ cut = [c \in Cleaner |-> 0]
  /\ overlap = FALSE /\ torn = FALSE

\* Events inserted or about to be, and experiences recorded, which weigh two.
Work == Cardinality(ever) + Cardinality(UNION {event[w] : w \in Worker}) + 2 * recorded

Moves(p, from, to) == pc[p] = from /\ pc' = [pc EXCEPT ![p] = to]
-----------------------------------------------------------------------------
(* The timeline.                                                           *)

\* emit_event: the kernel stamps an event before the database sees it.  Two
\* processes may stamp at the same time.
Stamp(w) ==
  /\ Moves(w, "idle", "stamped")
  /\ Work < MaxWork
  /\ \E now \in {clock, clock + 1} \cap 1..MaxClock :
       /\ clock' = now
       /\ event' = [event EXCEPT ![w] =
            {[ts |-> clock', by |-> w, nr |-> Cardinality({e \in ever : e.by = w})]}]
  /\ UNCHANGED <<knowledge, timeline, stateLog, ever, logged, experiences, todo, known,
                 new, cut, overlap, torn>>

\* append_timeline_event: the event ...
InsertEvent(w) ==
  /\ Moves(w, "stamped", "inserted")
  /\ timeline' = timeline \cup event[w]
  /\ ever' = ever \cup event[w]
  /\ UNCHANGED <<knowledge, stateLog, logged, clock, event, experiences, todo, known,
                 new, cut, overlap, torn>>

\* ... and its copy in the state log.
InsertState(w) ==
  /\ Moves(w, "inserted", "idle")
  /\ stateLog' = stateLog \cup event[w]
  /\ logged' = logged \cup event[w]
  /\ event' = [event EXCEPT ![w] = {}]
  /\ UNCHANGED <<knowledge, timeline, clock, ever, experiences, todo, known, new, cut,
                 overlap, torn>>
-----------------------------------------------------------------------------
(* Consolidation.                                                          *)

Consolidating(p) == pc[p] \in {"load", "write", "map", "select", "trim", "trimLog", "decay"}

Begins(p) == overlap' = (overlap \/ \E q \in Process \ {p} : Consolidating(q))

\* record_experience; a consolidation follows.  The pattern of k changes, or is
\* no longer one: the experience is one of k, or pushes one of k out of the
\* latest 256; one that does both to two keys counts as two experiences.
RecordExperience(w, k) ==
  /\ Moves(w, "idle", "read")
  /\ Work + 1 < MaxWork
  /\ recorded' = recorded + 1
  /\ \E S \in {{}} \cup {{a} : a \in {a \in Pattern : a.key = k}} :
       patterns' = {a \in patterns : a.key # k} \cup S
  /\ UNCHANGED <<knowledge, events, todo, known, new, cut, overlap, torn>>

\* The experiences are read and make patterns; a cleanup begins with it ...
ReadPatterns(p) ==
  /\ Moves(p, IF p \in Cleaner THEN "idle" ELSE "read", "load")
  /\ todo' = [todo EXCEPT ![p] = patterns]
  /\ Begins(p)
  /\ UNCHANGED <<knowledge, events, experiences, known, new, cut, torn>>

\* ... then the knowledge is read.
LoadKnowledge(p) ==
  /\ Moves(p, "load", "write")
  /\ known' = [known EXCEPT ![p] = nodes]
  /\ UNCHANGED <<knowledge, events, experiences, todo, new, cut, overlap, torn>>

\* Variant: looks for the text of the pattern instead of its key.
ExistingByText(p, pattern) ==
  {i \in DOMAIN known[p] : known[p][i].key = pattern.key /\ known[p][i].words = pattern.words}

\* The nodes of the pattern among those that were there when it was read; the
\* first of them counts.
Existing(p, pattern) == {i \in DOMAIN known[p] : known[p][i].key = pattern.key}

ShouldUpdate(node, pattern) ==
  \/ node.wins < pattern.wins
  \/ node.confidence + Drift < pattern.confidence

\* The row knowledge_id_map has for a node: {r}, or {} for none (NULL).
Row(id) == {r \in DOMAIN ids : ids[r] = id}

\* FTS5 gives a row without a number the one after the last it knows.
NextDoc == 1 + (IF docs = {} THEN 0 ELSE CHOOSE d \in docs : \A e \in docs : e <= d)

DocFor(id) == IF Row(id) = {} THEN {NextDoc} ELSE Row(id)

\* Trigger knowledge_ai: index the text under the row of the node.
IndexInsert(id, text) ==
  /\ fts' = fts \cup (DocFor(id) \X text)
  /\ docs' = docs \cup DocFor(id)

\* Variant: the new text is added, the old one stays.
IndexUpdateAdding(id, old, text) ==
  /\ fts' = fts \cup (DocFor(id) \X text)
  /\ docs' = docs \cup DocFor(id)

\* Trigger knowledge_au: take the old text out, unless the node has no row,
\* and index the new one.
IndexUpdate(id, old, text) ==
  LET docsLeft == docs \ Row(id)
      doc == IF Row(id) = {} THEN {NextDoc} ELSE Row(id)
  IN  /\ fts' = (fts \ (Row(id) \X old)) \cup (doc \X text)
      /\ docs' = docsLeft \cup doc

Larger(m, n) == IF m > n THEN m ELSE n

\* A pattern that is news updates the node it had when the knowledge was read.
UpdateNode(p, pattern) ==
  /\ pc[p] = "write" /\ pattern \in todo[p]
  /\ Existing(p, pattern) # {}
  /\ todo' = [todo EXCEPT ![p] = @ \ {pattern}]
  /\ LET seen == known[p][Min(Existing(p, pattern))]
         row  == nodes[seen.id]
     IN  IF ShouldUpdate(seen, pattern)
         THEN /\ nodes' = [nodes EXCEPT ![seen.id] =
                   [@ EXCEPT !.words = pattern.words, !.wins = pattern.wins,
                             !.confidence = Larger(pattern.confidence, seen.confidence),
                             !.stale = FALSE]]
              /\ IndexUpdate(seen.id, row.words, pattern.words)
              /\ torn' = (torn \/ Row(seen.id) = {})
         ELSE UNCHANGED <<nodes, fts, docs, torn>>
  /\ UNCHANGED <<ids, vec, events, experiences, pc, known, new, cut, overlap>>

\* The node of a pattern: its text, and in its metadata what it was made of.
Node(id, pattern) ==
  [id |-> id, key |-> pattern.key, words |-> pattern.words, wins |-> pattern.wins,
   confidence |-> pattern.confidence, stale |-> FALSE]

\* persist_knowledge, first statement: the row of a node, and by the trigger
\* its index entry, before the node has a number in knowledge_id_map.
InsertNode(p, pattern) ==
  /\ Moves(p, "write", "map")
  /\ pattern \in todo[p] /\ Existing(p, pattern) = {}
  /\ todo' = [todo EXCEPT ![p] = @ \ {pattern}]
  /\ LET id == Len(nodes) + 1
     IN  /\ nodes' = Append(nodes, Node(id, pattern))
         /\ IndexInsert(id, pattern.words)
         /\ new' = [new EXCEPT ![p] = id]
  /\ torn' = (torn \/ \E q \in Process \ {p} : pc[q] = "map")
  /\ UNCHANGED <<ids, vec, events, experiences, known, cut, overlap>>

\* Variant: numbers the last row of the table instead of its own.
MapNodeLast(p) ==
  /\ Moves(p, "map", "write")
  /\ ids' = Append(ids, Len(nodes))
  /\ vec' \in {vec, vec \cup {Len(ids')}}
  /\ known' = [known EXCEPT ![p] = Append(@, nodes[Len(nodes)])]
  /\ new' = [new EXCEPT ![p] = 0]
  /\ UNCHANGED <<nodes, fts, docs, events, experiences, todo, cut, overlap, torn>>

\* Its number, and its embedding; an error of the latter is ignored.
MapNode(p) ==
  /\ Moves(p, "map", "write")
  /\ ids' = Append(ids, new[p])
  /\ vec' \in {vec, vec \cup {Len(ids')}}
  /\ known' = [known EXCEPT ![p] = Append(@, nodes[new[p]])]
  /\ new' = [new EXCEPT ![p] = 0]
  /\ UNCHANGED <<nodes, fts, docs, events, experiences, todo, cut, overlap, torn>>

\* The patterns are done: a worker's consolidation ends, a cleanup's goes on.
Consolidated(p) ==
  /\ todo[p] = {}
  /\ Moves(p, "write", IF p \in Cleaner THEN "select" ELSE "idle")
  /\ known' = [known EXCEPT ![p] = <<>>]
  /\ UNCHANGED <<knowledge, events, experiences, todo, new, cut, overlap, torn>>
-----------------------------------------------------------------------------
(* Retention and decay.                                                    *)

Newer(e) == {f \in timeline \ {e} : f.ts >= e.ts}

\* Variant: OFFSET one too small.
OldestDroppedEarly ==
  {e \in timeline : Cardinality({f \in timeline : f.ts > e.ts}) <= Keep - 1
                    /\ Cardinality(Newer(e)) >= Keep - 1}

\* ORDER BY timestamp DESC LIMIT 1 OFFSET keep: {} when there are no more than
\* keep; of events with one timestamp, any may come first.
OldestDropped ==
  {e \in timeline : Cardinality({f \in timeline : f.ts > e.ts}) <= Keep
                    /\ Cardinality(Newer(e)) >= Keep}

SelectCut(c) ==
  /\ pc[c] = "select"
  /\ \/ /\ OldestDropped = {}
        /\ pc' = [pc EXCEPT ![c] = "decay"]
        /\ UNCHANGED cut
     \/ \E e \in OldestDropped :
          /\ pc' = [pc EXCEPT ![c] = "trim"]
          /\ cut' = [cut EXCEPT ![c] = e.ts]
  /\ UNCHANGED <<knowledge, events, experiences, todo, known, new, overlap, torn>>

TrimTimeline(c) ==
  /\ Moves(c, "trim", "trimLog")
  /\ timeline' = {e \in timeline : e.ts > cut[c]}
  /\ UNCHANGED <<knowledge, stateLog, clock, event, ever, logged, experiences, todo,
                 known, new, cut, overlap, torn>>

TrimStateLog(c) ==
  /\ Moves(c, "trimLog", "decay")
  /\ stateLog' = {e \in stateLog : e.ts > cut[c]}
  /\ cut' = [cut EXCEPT ![c] = 0]
  /\ UNCHANGED <<knowledge, timeline, clock, event, ever, logged, experiences, todo,
                 known, new, overlap, torn>>

Decayed(x) ==
  IF x <= Floor THEN x ELSE IF (x * 9) \div 10 > Floor THEN (x * 9) \div 10 ELSE Floor

\* Knowledge that was not updated for stale_knowledge_days loses a tenth of its
\* confidence, and counts as updated.  The index is then optimized, which
\* changes nothing it says.
Decay(c) ==
  /\ Moves(c, "decay", "idle")
  /\ nodes' = [i \in DOMAIN nodes |->
       IF nodes[i].stale
       THEN [nodes[i] EXCEPT !.stale = FALSE, !.confidence = Decayed(@)]
       ELSE nodes[i]]
  /\ UNCHANGED <<ids, fts, docs, vec, events, experiences, todo, known, new, cut,
                 overlap, torn>>

\* stale_knowledge_days pass without a consolidation; the last tick is left to
\* the events.
DaysPass ==
  /\ \A p \in Process : pc[p] = "idle"
  /\ \E i \in DOMAIN nodes : ~nodes[i].stale
  /\ clock + 1 < MaxClock /\ clock' = clock + 1
  /\ nodes' = [i \in DOMAIN nodes |-> [nodes[i] EXCEPT !.stale = TRUE]]
  /\ UNCHANGED <<ids, fts, docs, vec, timeline, stateLog, event, ever, logged,
                 experiences, pc, todo, known, new, cut, overlap, torn>>

\* A statement fails, which ends the task or the cleanup, or the process dies:
\* what was committed stays, the rest is dropped.
Abandon(p) ==
  /\ pc[p] # "idle"
  /\ pc' = [pc EXCEPT ![p] = "idle"]
  /\ torn' = (torn \/ pc[p] = "map")
  /\ event' = [w \in Worker |-> IF w = p THEN {} ELSE event[w]]
  /\ todo' = [todo EXCEPT ![p] = {}]
  /\ known' = [known EXCEPT ![p] = <<>>]
  /\ new' = [new EXCEPT ![p] = 0]
  /\ cut' = [c \in Cleaner |-> IF c = p THEN 0 ELSE cut[c]]
  /\ UNCHANGED <<knowledge, timeline, stateLog, clock, ever, logged, experiences,
                 overlap>>

Next ==
  \/ \E w \in Worker :
       \/ Stamp(w) \/ InsertEvent(w) \/ InsertState(w)
       \/ \E k \in Key : RecordExperience(w, k)
  \/ \E c \in Cleaner :
       \/ SelectCut(c) \/ TrimTimeline(c) \/ TrimStateLog(c) \/ Decay(c)
  \/ \E p \in Process :
       \/ ReadPatterns(p) \/ LoadKnowledge(p)
       \/ \E pattern \in todo[p] : UpdateNode(p, pattern) \/ InsertNode(p, pattern)
       \/ MapNode(p) \/ Consolidated(p) \/ Abandon(p)
  \/ DaysPass

Spec == Init /\ [][Next]_vars
-----------------------------------------------------------------------------
(* Recall.                                                                 *)

Smaller(m, n) == IF m < n THEN m ELSE n

\* recent_states: the newest events, in any choice among equals.
RecentStates(n) ==
  {S \in SUBSET timeline :
     /\ Cardinality(S) = Smaller(n, Cardinality(timeline))
     /\ \A e \in S, f \in timeline \ S : e.ts >= f.ts}

\* sanitize_fts_query: the rows that hold any word of the query, none for a
\* query without words.
Matching(query) == {d \in docs : \E w \in query : <<d, w>> \in fts}

\* The full-text part of recall_knowledge: the first Limit rows, and of these
\* the nodes that have such a row.
FtsHits(query) ==
  LET first == {d \in Matching(query) :
                  Cardinality({e \in Matching(query) : e < d}) < Limit}
  IN  {ids[r] : r \in first \cap DOMAIN ids}

\* recall_knowledge, when the embedding index answers the rows of near: the
\* sets of nodes it may return.  What is found by neither way gives way to the
\* nodes updated last; what is too much is cut by the places the two indexes
\* gave it, which we leave open, as we do the order it is ranked in.
Recalled(query, near) ==
  LET matched == FtsHits(query) \cup {ids[r] : r \in near}
      from    == IF matched = {} THEN DOMAIN nodes ELSE matched
  IN  {N \in SUBSET from : Cardinality(N) = Smaller(Limit, Cardinality(from))}
-----------------------------------------------------------------------------
(* Correctness.                                                            *)

Event == [ts : 1..MaxClock, by : Worker, nr : Nat]

Knowledge ==
  [id : Nat, key : Key, words : SUBSET Word, wins : Nat \ {0}, confidence : 0..98,
   stale : BOOLEAN]

\* Every variable holds a value of its type; a number in knowledge_id_map
\* belongs to one node, so that recall_knowledge can load whatever it has
\* matched, the embeddings belong to numbered nodes, and no confidence leaves
\* its range.
TypeOK ==
  /\ ever \subseteq Event
  /\ timeline \subseteq ever /\ stateLog \subseteq logged /\ logged \subseteq ever
  /\ clock \in 0..MaxClock
  /\ nodes \in Seq(Knowledge)
  /\ \A i \in DOMAIN nodes : nodes[i].id = i
  /\ ids \in Seq(DOMAIN nodes) /\ IsInjective(ids)
  /\ vec \subseteq DOMAIN ids
  /\ \A pair \in fts : pair[1] \in docs
  /\ pc \in [Process -> {"idle", "stamped", "inserted", "read", "load", "write", "map",
                         "select", "trim", "trimLog", "decay"}]
  /\ \A w \in Worker : event[w] # {} <=> pc[w] \in {"stamped", "inserted"}
  /\ \A p \in Process : new[p] # 0 <=> pc[p] = "map"

Recent(e) == Cardinality({f \in ever \ {e} : f.ts >= e.ts}) < Keep

\* Cleanup keeps the newest events (`--keep-events`): the Keep newest that
\* recent_states reports include every event ever inserted that does not have
\* Keep others at least as new, in whatever order appends, cleanups and failures
\* met; and so does the state log.
RecentKept ==
  /\ \A e \in ever : Recent(e) => \A S \in RecentStates(Keep) : e \in S
  /\ \A e \in logged : Recent(e) => e \in stateLog

Holding(w) == {i \in DOMAIN nodes : w \in nodes[i].words}

\* A word, with the embeddings that answer near, finds just the nodes it should.
FindsExactly(w, near) ==
  LET expected == (Holding(w) \cap Range(ids)) \cup {ids[r] : r \in near}
  IN  (expected # {} /\ Cardinality(Holding(w) \cup expected) <= Limit)
        => Recalled({w}, near) = {expected}

\* The full-text index says what the nodes say: unless something came between
\* the row of a node and its number, a word finds the numbered nodes that hold it
\* now and no other, as long as they are no more than were asked for, and what
\* the embeddings add leaves none of them out.
SearchExact ==
  ~torn => \A w \in Word, near \in SUBSET vec : FindsExactly(w, near)

\* While consolidations do not overlap, a pattern has one node and what was learned
\* is never forgotten: a node loses confidence by decay alone, when it was stale,
\* and a recount with fewer successes takes its place only when that raises the
\* confidence by more than Drift.
KnowledgeGrows ==
  [][~overlap' =>
       /\ \A i, j \in DOMAIN nodes' : nodes'[i].key = nodes'[j].key => i = j
       /\ \A i \in DOMAIN nodes :
            /\ i \in DOMAIN nodes' /\ nodes'[i].key = nodes[i].key
            /\ \/ nodes'[i].confidence >= nodes[i].confidence
               \/ nodes[i].stale /\ nodes'[i].confidence = Decayed(nodes[i].confidence)
            /\ nodes'[i].wins < nodes[i].wins =>
                 nodes'[i].confidence > nodes[i].confidence + Drift]_vars
=============================================================================
