------------------------------- MODULE Evidence -------------------------------
(***************************************************************************)
(* What a task remembers of its steps (TaskLoopState): references to the   *)
(* artifacts the steps produced, and the working sources the reasoner is   *)
(* shown.  Each step merges its result into both lists and then may        *)
(* compact them, which keeps the best ranked entries.                      *)
(*                                                                         *)
(* A locator (a path, for a part of a document with its page range) is a   *)
(* number, ordered as the texts are.  What is shown with a source is left  *)
(* out: no list is ordered by it.                                          *)
(***************************************************************************)
EXTENDS Naturals, FiniteSets, SequencesExt

CONSTANTS
  Result,         \* results a step may have: [type |-> ..., on |-> <<locators>>]
  Directory,      \* locators that are directories
  Batch,          \* entries taken of one result (6 in the code)
  MaxRefs,        \* MAX_ARTIFACT_REFERENCES (12)
  KeepRefs,       \* MAX_COMPACTED_ARTIFACT_REFS (8)
  MaxSources,     \* MAX_WORKING_SOURCES (12)
  KeepSources,    \* MAX_COMPACTED_WORKING_SOURCES (6), also the growth trigger
  MaxSteps        \* max_steps of the execution configuration

Type == {"read", "data", "extract", "find", "search", "write", "list",
         "inspect", "command", "note", "failure"}

Kind == {"file", "structured_data", "document", "directory", "path", "command", "note"}

\* Results that need not name anything: a failure, and matches that may be none.
MayBeEmpty == {"failure", "find", "search", "inspect"}

\* The entries of one step fit beside what a compaction keeps.  A bound: nothing
\* in the code limits the paths a command changes to a batch.
ASSUME EvidenceAssumption ==
  /\ \A r \in Result : /\ r.type \in Type /\ r.on \in Seq(Nat)
                       /\ r.type \notin MayBeEmpty => r.on # <<>>
                       /\ r.type = "command" => Len(r.on) \in 1..Batch
  /\ {Batch, MaxRefs, KeepRefs, MaxSources, KeepSources, MaxSteps} \subseteq Nat \ {0}
  /\ KeepSources + Batch <= MaxSources

VARIABLES
  step,       \* step_index
  recent,     \* how many recent steps are remembered
  refs,       \* artifact_references
  sources,    \* working_sources
  last,       \* the last result: its type, its locators, and whether compacted
  reads       \* history: what was read, oldest first, and whether it was
              \* touched since

vars == <<step, recent, refs, sources, last, reads>>

NoResult == [type |-> "failure", on |-> <<>>, compacted |-> FALSE]

-----------------------------------------------------------------------------
(* The entries a result gives.  A changed path of a command follows the    *)
(* command itself; `on` of a command is the command and the paths.         *)

Reading == {"read", "data", "extract"}

KindOf(type, locator) ==
  CASE type = "find" -> IF locator \in Directory THEN "directory" ELSE "file"
    [] type \in {"read", "search", "write"} -> "file"
    [] type = "data" -> "structured_data"
    [] type = "extract" -> "document"
    [] type = "list" -> "directory"
    [] type = "inspect" -> "path"
    [] type \in {"command", "note"} -> type

RefRank(status) ==
  CASE status \in Reading -> 5
    [] status \in {"write", "changed"} -> 4
    [] status = "search" -> 3
    [] status = "find" -> 2
    [] status \in {"list", "inspect"} -> 1
    [] status = "command" -> 0

SourceRank(status) ==
  CASE status \in Reading -> 44                 \* authoritative, 4
    [] status \in {"write", "changed"} -> 34    \* generated, 4
    [] status = "note" -> 30                    \* generated, 0
    [] status = "search" -> 23                  \* supporting, 3
    [] status \in {"list", "inspect"} -> 21     \* supporting, 1
    [] status = "command" -> 20                 \* supporting, 0
    [] status = "find" -> 12                    \* candidate, 2

Entry(type, locator) == [kind |-> KindOf(type, locator), locator |-> locator, status |-> type]

Entries(r) ==
  CASE r.type = "failure" -> <<>>
    [] r.type = "command" ->
         <<Entry("command", Head(r.on))>>
         \o [i \in 1..(Len(r.on) - 1) |->
              [kind |-> "file", locator |-> r.on[i + 1], status |-> "changed"]]
    [] r.type \in {"find", "search", "inspect"} ->
         [i \in 1..(IF Len(r.on) < Batch THEN Len(r.on) ELSE Batch) |-> Entry(r.type, r.on[i])]
    [] OTHER -> <<Entry(r.type, Head(r.on))>>

RefsOf(r) == IF r.type = "note" THEN <<>> ELSE Entries(r)

SourcesOf(r, now) ==
  LET entries == Entries(r)
  IN  [i \in DOMAIN entries |->
        [kind |-> entries[i].kind, locator |-> entries[i].locator,
         status |-> entries[i].status, used |-> now]]

-----------------------------------------------------------------------------
(* Merging and compacting a list.                                          *)

Same(x, y) == x.locator = y.locator /\ x.kind = y.kind

LastOf(s, n) == SubSeq(s, IF Len(s) > n THEN Len(s) - n + 1 ELSE 1, Len(s))

FirstOf(s, n) == SubSeq(s, 1, IF Len(s) > n THEN n ELSE Len(s))

\* Variant: an entry with another status is another entry.
PutByStatus(list, x) ==
  LET known == {i \in DOMAIN list : Same(list[i], x) /\ list[i].status = x.status}
  IN  IF known = {} THEN Append(list, x) ELSE [list EXCEPT ![Min(known)] = x]

\* A candidate replaces the first entry that is the same, or goes to the end.
Put(list, x) ==
  LET known == {i \in DOMAIN list : Same(list[i], x)}
  IN  IF known = {} THEN Append(list, x) ELSE [list EXCEPT ![Min(known)] = x]

\* What exceeds the maximum is drained from the front.
Merge(list, candidates, max) ==
  LET merged[n \in 0..Len(candidates)] ==
        IF n = 0 THEN list ELSE Put(merged[n - 1], candidates[n])
  IN  LastOf(merged[Len(candidates)], max)

\* A stable sort: each entry goes behind those it does not come before.
Placed(list, x, before) ==
  InsertAt(list, Cardinality({i \in DOMAIN list : <<x, list[i]>> \notin before}) + 1, x)

Sorted(s, before) ==
  LET sorted[n \in 0..Len(s)] == IF n = 0 THEN <<>> ELSE Placed(sorted[n - 1], s[n], before)
  IN  sorted[Len(s)]

\* Variant: the lowest rank first.
RefBeforeAscending(x, y) ==
  \/ RefRank(x.status) < RefRank(y.status)
  \/ RefRank(x.status) = RefRank(y.status) /\ x.locator < y.locator

RefBefore(x, y) ==
  \/ RefRank(x.status) > RefRank(y.status)
  \/ RefRank(x.status) = RefRank(y.status) /\ x.locator < y.locator

RefOrder(list) == {xy \in ToSet(list) \X ToSet(list) : RefBefore(xy[1], xy[2])}

\* Variant: sources ordered as references are.
SourceBeforeUndated(x, y) ==
  \/ SourceRank(x.status) > SourceRank(y.status)
  \/ SourceRank(x.status) = SourceRank(y.status) /\ x.locator < y.locator

SourceBefore(x, y) ==
  \/ SourceRank(x.status) > SourceRank(y.status)
  \/ /\ SourceRank(x.status) = SourceRank(y.status)
     /\ \/ x.used > y.used
        \/ x.used = y.used /\ x.locator < y.locator

SourceOrder(list) == {xy \in ToSet(list) \X ToSet(list) : SourceBefore(xy[1], xy[2])}

-----------------------------------------------------------------------------
Init ==
  /\ step = 0 /\ recent = 0
  /\ refs = <<>> /\ sources = <<>>
  /\ last = NoResult
  /\ reads = <<>>

\* record_step: the step count, the remembered steps, both lists.
Recorded(r) ==
  [step    |-> step + 1,
   recent  |-> IF recent < 6 THEN recent + 1 ELSE 6,
   refs    |-> Merge(refs, RefsOf(r), MaxRefs),
   sources |-> Merge(sources, SourcesOf(r, step + 2), MaxSources)]

\* Variant: the growth of the source set is no reason.
MustCompactUngrown(s, large) == (s.step >= 3 /\ s.recent > 3) \/ large

\* apply_live_compaction: three reasons, of which the size of the result's
\* text is the environment's.
MustCompact(s, large) ==
  \/ s.step >= 3 /\ s.recent > 3
  \/ large
  \/ Len(s.sources) > KeepSources

Compacted(s) ==
  [s EXCEPT !.recent  = IF @ > 3 THEN 3 ELSE @,
            !.refs    = FirstOf(Sorted(@, RefOrder(@)), KeepRefs),
            !.sources = FirstOf(Sorted(@, SourceOrder(@)), KeepSources)]

\* History: a read goes to the end; whatever else names the same source, a
\* match, a write, a change, leaves its mark on it.
Without(list, x) ==
  LET known == {i \in DOMAIN list : Same(list[i], x)}
  IN  IF known = {} THEN list ELSE RemoveAt(list, Min(known))

Marked(list, entries) ==
  [i \in DOMAIN list |->
    IF \E y \in ToSet(entries) : Same(list[i], y)
    THEN [list[i] EXCEPT !.status = "touched"] ELSE list[i]]

Reread(r) ==
  IF r.type \in Reading
  THEN LET x == Entry(r.type, Head(r.on)) IN Append(Without(reads, x), x)
  ELSE Marked(reads, Entries(r))

Step(r) ==
  /\ step < MaxSteps
  /\ \E large \in BOOLEAN :
       LET s == Recorded(r)
           compact == MustCompact(s, large)
           after == IF compact THEN Compacted(s) ELSE s
       IN  /\ r.type = "failure" => ~large
           /\ step' = after.step /\ recent' = after.recent
           /\ refs' = after.refs /\ sources' = after.sources
           /\ last' = [type |-> r.type, on |-> r.on, compacted |-> compact]
  /\ reads' = Reread(r)

Next == \E r \in Result : Step(r)

Spec == Init /\ [][Next]_vars

-----------------------------------------------------------------------------
(* Properties.                                                             *)

\* Type correctness with the bounds of both lists: between two steps the
\* working sources never exceed what a compaction keeps, because their growth
\* is itself a reason to compact, so that the drain of the oldest (which knows
\* no rank) never reaches them.
TypeOK ==
  /\ step \in 0..MaxSteps /\ recent \in 0..6
  /\ refs \in Seq([kind : Kind, locator : Nat, status : Type \cup {"changed"}])
  /\ Len(refs) <= IF last.compacted THEN KeepRefs ELSE MaxRefs
  /\ Len(sources) <= KeepSources
  /\ \A i \in DOMAIN sources : sources[i].used <= step + 1
  /\ last.type \in Type /\ last.compacted \in BOOLEAN

\* No artifact and no source is listed twice: a second entry with an older
\* status would tell the reasoner two things about one file and push another
\* one out.
NoDuplicates ==
  \A list \in {refs, sources} : \A i, j \in DOMAIN list :
    Same(list[i], list[j]) => i = j

\* The last KeepSources things the task read are working sources with their
\* content status, however many finds, commands and compactions came since,
\* unless a later result named the same source.
RecentReadsKept ==
  \A x \in ToSet(LastOf(reads, KeepSources)) : x.status # "touched" =>
    \E i \in DOMAIN sources : Same(sources[i], x) /\ sources[i].status \in Reading

\* A compaction drops no reference for one of a lower rank.
CompactionKeepsBest ==
  [][last'.compacted =>
       \A x \in ToSet(Merge(refs, RefsOf(last'), MaxRefs)) \ ToSet(refs') :
         \A y \in ToSet(refs') : RefRank(y.status) >= RefRank(x.status)]_vars

\* A compacted result tells the reasoner to reopen the file "by path from
\* task_state artifact refs" (result_helpers.rs, loop_state.rs "exact evidence
\* reference preserved"): the reference is there.  The code does not keep this:
\* among references of one rank the compaction goes by path, not by recency.
ContinuationResolves ==
  last.compacted /\ last.type \in Reading =>
    \E i \in DOMAIN refs : Same(refs[i], Entry(last.type, Head(last.on)))
=============================================================================
