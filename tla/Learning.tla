------------------------------- MODULE Learning -------------------------------
(***************************************************************************)
(* How a worker learns reflexes: every action a kernel runs is scored and  *)
(* recorded as an experience, consolidation turns repeated experiences of  *)
(* the recent window into rules of the shared database, and a kernel that  *)
(* promoted a rule copies the active rules into its own reflex engine.     *)
(*                                                                         *)
(* Several kernels (chat sessions, one-shot runs) and the cleanup command  *)
(* share one database.  Consolidation runs outside a transaction: it reads *)
(* experiences and rules, then writes rule by rule, each write a commit of *)
(* its own, so that other processes come in between.                       *)
(*                                                                         *)
(* Utilities are in hundredths, confidences in ten-thousandths.            *)
(***************************************************************************)
EXTENDS Integers, FiniteSets, SequencesExt

CONSTANTS
  Kernel,      \* processes that run tasks
  Cleaner,     \* processes that only consolidate (`retina cleanup`)
  Text,        \* task descriptions
  Goal,        \* Goal[t]: the signature of t, equal for texts that differ in
               \* case, order or noise words
  Act,         \* actions, told apart by their label
  Kind,        \* Kind[a]: what the action is; the label names it
  Output,      \* what a command may print
  Window,      \* experiences a consolidation reads (256 in the code)
  MaxRuns      \* bound: actions ever run

Lookups == {"inspect", "list", "find", "search", "read"}
Kinds   == Lookups \cup {"command", "write"}
Process == Kernel \cup Cleaner

ASSUME LearningAssumption ==
  /\ Kernel \cap Cleaner = {}
  /\ Kind \in [Act -> Kinds]
  /\ Window \in Nat \ {0} /\ MaxRuns \in Nat

VARIABLES
  log,      \* the experiences table, oldest first
  rules,    \* the reflexive_rules table, in row order
  cache,    \* the rules in each kernel's reflex engine
  last,     \* the last command each kernel's shell remembers
  pc,       \* where each process is
  window,   \* the end of the experiences a consolidation has read
  todo,     \* rule writes a consolidation has planned and not yet made
  promoted, \* the consolidation has written an active rule
  lost,     \* a step ended in an error between the promotion and the copy
  won,      \* won[<<g, a>>]: how often a really succeeded for goal g, up to 3
  shown     \* shown[<<g, a>>]: how often it failed and yet the state showed the
            \* change it was expected to make, up to 3

\* Only properties read these two.
history == <<won, shown>>

vars == <<log, rules, cache, last, pc, window, todo, promoted, lost, history>>

NoCommand == <<>>
Goals == {Goal[t] : t \in Text}

-----------------------------------------------------------------------------
(* Scoring an action.                                                      *)

IsCommand(a) == Kind[a] = "command"

\* Action::expects_change: a write always does, a lookup never, and of a command
\* the reasoner says so with each answer.  The label does not tell, so runs of
\* both sorts fall into one pattern.
MayExpectChange(a) == CASE Kind[a] = "write" -> {TRUE}
                        [] Kind[a] \in Lookups -> {FALSE}
                        [] Kind[a] = "command" -> BOOLEAN

\* The state delta: files or the working directory moved, or the shell now
\* remembers another command than before this action.
Changed(a, moved, before, after) == moved \/ (IsCommand(a) /\ before # after)

Utilities == {-100, -25, 5, 10, 15, 25, 45, 55, 60, 65, 85, 100}

\* What a command is worth by its exit status, a lookup by what it found; a
\* text that was cut off is worth less.
Worth(kind, ok, cut) ==
  CASE kind = "command" -> IF ok THEN 60 ELSE -100
    [] kind = "inspect" -> IF ok THEN 45 ELSE 25
    [] kind = "list"    -> IF ok THEN 55 ELSE 15
    [] kind = "find"    -> IF ok THEN 60 ELSE 10
    [] kind = "search"  -> IF ok THEN 65 ELSE 10
    [] kind = "read"    -> IF ~ok THEN 5 ELSE IF cut THEN 65 ELSE 85

Utility(a, expects, ok, cut, changed) ==
  IF expects THEN (IF changed THEN 100 ELSE -25) ELSE Worth(Kind[a], ok, cut)

-----------------------------------------------------------------------------
(* From experiences to patterns.                                           *)

MinRepeats    == 3
MinUtility    == 50
MinConfidence == 8000
Drift         == 500

\* The window that ends with the n-th experience; none is ever deleted.
Recent(n) == (IF n > Window THEN n - Window + 1 ELSE 1)..n

\* The places in the log of the recent experiences of a goal and an action.
Matching(n, g, a) == {i \in Recent(n) : Goal[log[i].text] = g /\ log[i].act = a}

\* How many of them have a utility, and what all of them have together.
Scored(es, us) == Cardinality({i \in es : log[i].utility \in us})

Total(es) ==
  100 * Scored(es, {100}) + 85 * Scored(es, {85}) + 65 * Scored(es, {65})
    + 60 * Scored(es, {60}) + 55 * Scored(es, {55}) + 45 * Scored(es, {45})
    + 25 * Scored(es, {25}) + 15 * Scored(es, {15}) + 10 * Scored(es, {10})
    + 5 * Scored(es, {5}) - 25 * Scored(es, {-25}) - 100 * Scored(es, {-100})

Clamp(x, low, high) == IF x < low THEN low ELSE IF x > high THEN high ELSE x

Successes(es) == Scored(es, {u \in Utilities : u >= MinUtility})
Failures(es)  == Scored(es, {u \in Utilities : u < 0})

Confidence(es) ==
  LET n == Cardinality(es)
  IN  Clamp((45 * Clamp(Total(es), 0, 100 * n)
             + 400 * n * Clamp(n, 0, MinRepeats + 2)
             + 3500 * Successes(es)) \div n, 0, 9800)

\* Variant: a single success is a pattern.
IsPatternOnce(es) == Cardinality(es) >= 1 /\ Successes(es) > 0

\* Consolidation looks only at what was repeated and succeeded at least once.
IsPattern(es) == Cardinality(es) >= MinRepeats /\ Successes(es) > 0

ShouldPromote(es) == Confidence(es) >= MinConfidence /\ Successes(es) > Failures(es)

\* Experiences are read newest first and each overwrites the text: the
\* oldest in the window gives the rule its condition.
PatternText(es) == log[Min(es)].text

-----------------------------------------------------------------------------
(* From patterns to rules.                                                 *)

ActiveRules == {[goal |-> r.goal, act |-> r.act, text |-> r.text] :
                r \in {q \in ToSet(rules) : q.active}}

SamePattern(r, g, a, text) == r.goal = g /\ r.act = a /\ r.text = text

\* The places of a pattern's rows; the first one counts.
Found(g, a, text) == {i \in DOMAIN rules : SamePattern(rules[i], g, a, text)}

NeedsWrite(found, active, confidence) ==
  IF found = {} THEN active
  ELSE LET r == rules[Min(found)]
       IN  \/ r.active # active
           \/ active /\ r.confidence + Drift < confidence
           \/ ~active /\ r.confidence > confidence + Drift

\* The rule a pattern asks for; id 0 stands for a new row.
RuleFor(es, g, a) ==
  LET found == Found(g, a, PatternText(es))
  IN  [id |-> IF found = {} THEN 0 ELSE rules[Min(found)].id,
       goal |-> g, act |-> a, text |-> PatternText(es),
       confidence |-> Confidence(es), active |-> ShouldPromote(es)]

IsNeeded(es, g, a) ==
  NeedsWrite(Found(g, a, PatternText(es)), ShouldPromote(es), Confidence(es))

\* The goals and actions whose recent experiences call for a write.
Patterns(n) ==
  {ga \in Goals \X Act : LET es == Matching(n, ga[1], ga[2])
                         IN  IsPattern(es) /\ IsNeeded(es, ga[1], ga[2])}

\* The writes one consolidation plans.
Plan(n) == {RuleFor(Matching(n, ga[1], ga[2]), ga[1], ga[2]) : ga \in Patterns(n)}

\* Variant: INSERT without REPLACE.
PersistTwice(w, p) ==
  Append(rules, [id |-> IF w.id = 0 THEN Len(rules) + 1 ELSE w.id,
                 goal |-> w.goal, act |-> w.act, text |-> w.text,
                 confidence |-> w.confidence, active |-> w.active, by |-> p])

\* INSERT OR REPLACE: the row keeps its id and moves behind the others.
Persist(w, p) ==
  LET old == {i \in DOMAIN rules : rules[i].id = w.id}
  IN  Append(IF old = {} THEN rules ELSE RemoveAt(rules, Min(old)),
             [id |-> IF old = {} THEN Len(rules) + 1 ELSE w.id,
              goal |-> w.goal, act |-> w.act, text |-> w.text,
              confidence |-> w.confidence, active |-> w.active, by |-> p])

-----------------------------------------------------------------------------
Init ==
  /\ log = <<>> /\ rules = <<>>
  /\ cache = [k \in Kernel |-> {}]
  /\ last = [k \in Kernel |-> NoCommand]
  /\ pc = [p \in Process |-> "idle"]
  /\ window = [p \in Process |-> 0]
  /\ todo = [p \in Process |-> {}]
  /\ promoted = [p \in Process |-> FALSE]
  /\ lost = [k \in Kernel |-> FALSE]
  /\ won = [ga \in Goals \X Act |-> 0]
  /\ shown = [ga \in Goals \X Act |-> 0]

\* One more run of a kind, as far as they are counted.
Counted(runs, ga, more) ==
  [runs EXCEPT ![ga] = IF more /\ @ < MinRepeats THEN @ + 1 ELSE @]

\* A kernel runs an action for a task; the shell answers; the experience is
\* scored and recorded.
Run(k, t, a) ==
  /\ pc[k] = "idle" /\ Len(log) < MaxRuns
  /\ \E expects \in MayExpectChange(a), ok, cut, moved \in BOOLEAN, out \in Output :
       LET after   == IF IsCommand(a) THEN <<a, ok, out>> ELSE last[k]
           changed == Changed(a, moved, last[k], after)
       IN  /\ Kind[a] = "write" => ok
           /\ ~expects => ~moved
           /\ cut => Kind[a] = "read"
           /\ last' = [last EXCEPT ![k] = after]
           /\ log' = Append(log, [text |-> t, act |-> a,
                                  utility |-> Utility(a, expects, ok, cut, changed)])
           /\ won' = Counted(won, <<Goal[t], a>>, ok)
           /\ shown' = Counted(shown, <<Goal[t], a>>, ~ok /\ expects /\ changed)
  /\ pc' = [pc EXCEPT ![k] = "load"]
  /\ UNCHANGED <<rules, cache, window, todo, promoted, lost>>

StartCleanup(c) ==
  /\ pc[c] = "idle"
  /\ pc' = [pc EXCEPT ![c] = "load"]
  /\ UNCHANGED <<log, rules, cache, last, window, todo, promoted, lost, history>>

\* Consolidation reads the recent experiences and forms the patterns ...
LoadWindow(p) ==
  /\ pc[p] = "load"
  /\ window' = [window EXCEPT ![p] = Len(log)]
  /\ pc' = [pc EXCEPT ![p] = "rules"]
  /\ UNCHANGED <<log, rules, cache, last, todo, promoted, lost, history>>

\* ... then reads the rules and decides what to write.
Load(p) ==
  /\ pc[p] = "rules"
  /\ todo' = [todo EXCEPT ![p] = Plan(window[p])]
  /\ window' = [window EXCEPT ![p] = 0]
  /\ promoted' = [promoted EXCEPT ![p] = FALSE]
  /\ pc' = [pc EXCEPT ![p] = "write"]
  /\ UNCHANGED <<log, rules, cache, last, lost, history>>

Write(p) ==
  /\ pc[p] = "write"
  /\ \E w \in todo[p] :
       /\ rules' = Persist(w, p)
       /\ todo' = [todo EXCEPT ![p] = @ \ {w}]
       /\ promoted' = [promoted EXCEPT ![p] = @ \/ w.active]
  /\ UNCHANGED <<log, cache, last, pc, window, lost, history>>

\* Variant: the kernel does not look at the number of promoted rules.
ConsolidatedQuietly(p) ==
  /\ pc[p] = "write" /\ todo[p] = {}
  /\ pc' = [pc EXCEPT ![p] = "idle"]
  /\ promoted' = [promoted EXCEPT ![p] = FALSE]
  /\ UNCHANGED <<log, rules, cache, last, window, todo, lost, history>>

\* The end of a consolidation: a kernel that promoted a rule goes on to copy.
Consolidated(p) ==
  /\ pc[p] = "write" /\ todo[p] = {}
  /\ pc' = [pc EXCEPT ![p] = IF p \in Kernel /\ promoted[p] THEN "sync" ELSE "idle"]
  /\ promoted' = [promoted EXCEPT ![p] = p \in Kernel /\ @]
  /\ UNCHANGED <<log, rules, cache, last, window, todo, lost, history>>

Sync(k) ==
  /\ pc[k] = "sync"
  /\ cache' = [cache EXCEPT ![k] = ActiveRules]
  /\ pc' = [pc EXCEPT ![k] = "idle"]
  /\ promoted' = [promoted EXCEPT ![k] = FALSE]
  /\ lost' = [lost EXCEPT ![k] = FALSE]
  /\ UNCHANGED <<log, rules, last, window, todo, history>>

\* Any of these calls may fail, with a busy database or a full disk: what was
\* written stays, the rest is dropped, the task ends and the kernel goes on.
MemoryFails(p) ==
  /\ pc[p] \in {"load", "rules", "write", "sync"}
  /\ pc' = [pc EXCEPT ![p] = "idle"]
  /\ window' = [window EXCEPT ![p] = 0]
  /\ todo' = [todo EXCEPT ![p] = {}]
  /\ promoted' = [promoted EXCEPT ![p] = FALSE]
  /\ lost' = [k \in Kernel |-> IF k = p THEN lost[k] \/ promoted[k] ELSE lost[k]]
  /\ UNCHANGED <<log, rules, cache, last, history>>

\* The process ends, at any point, and a new one starts: Kernel::new reads the
\* active rules, and starts without any when that fails.
Restart(k) ==
  /\ \/ cache' = [cache EXCEPT ![k] = ActiveRules] /\ lost' = [lost EXCEPT ![k] = FALSE]
     \/ cache' = [cache EXCEPT ![k] = {}] /\ lost' = [lost EXCEPT ![k] = TRUE]
  /\ last' = [last EXCEPT ![k] = NoCommand]
  /\ pc' = [pc EXCEPT ![k] = "idle"]
  /\ window' = [window EXCEPT ![k] = 0]
  /\ todo' = [todo EXCEPT ![k] = {}]
  /\ promoted' = [promoted EXCEPT ![k] = FALSE]
  /\ UNCHANGED <<log, rules, history>>

Next ==
  \/ \E k \in Kernel, t \in Text, a \in Act : Run(k, t, a)
  \/ \E k \in Kernel : Sync(k) \/ Restart(k)
  \/ \E c \in Cleaner : StartCleanup(c)
  \/ \E p \in Process :
       LoadWindow(p) \/ Load(p) \/ Write(p) \/ Consolidated(p) \/ MemoryFails(p)

Spec == Init /\ [][Next]_vars
-----------------------------------------------------------------------------
(* Properties.                                                             *)

Promotion == [goal : Goals, act : Act, text : Text]

SoundRow(r) ==
  /\ r.confidence \in 0..9800 /\ r.active \in BOOLEAN /\ r.by \in Process
  /\ r.active => r.confidence >= MinConfidence
  /\ Goal[r.text] = r.goal

\* Type correctness, and what the parts owe each other: one id per row, an
\* active row is confident, a row's text has the row's goal, and writes are
\* pending only inside a consolidation.
TypeOK ==
  /\ log \in Seq([text : Text, act : Act, utility : Utilities])
  /\ Len(log) <= MaxRuns
  /\ \A i, j \in DOMAIN rules : rules[i].id = rules[j].id => i = j
  /\ \A r \in ToSet(rules) : SoundRow(r)
  /\ cache \in [Kernel -> SUBSET Promotion]
  /\ pc \in [Process -> {"idle", "load", "rules", "write", "sync"}]
  /\ window \in [Process -> 0..Len(log)]
  /\ \A p \in Process : todo[p] # {} => pc[p] = "write"
  /\ \A p \in Process : promoted[p] => pc[p] \in {"write", "sync"}
  /\ lost \in [Kernel -> BOOLEAN]
  /\ {won, shown} \subseteq [Goals \X Act -> 0..MinRepeats]

\* Reflexes must be earned (docs/memory_layers.md): a reflex engine holds an
\* action for a task only after three runs of it for tasks of the same goal
\* that really succeeded or showed the change they were expected to make,
\* whatever other processes wrote, failed or were restarted in between.  An
\* action of which no run expected a change has three real successes.
ReflexBacked ==
  \A k \in Kernel : \A r \in cache[k] :
    LET ga == <<r.goal, r.act>> IN won[ga] + shown[ga] >= MinRepeats

\* The action of an active rule has succeeded at least once.  The code does not
\* keep this for commands whose runs expected a change: their utility is the
\* state delta's, which the memory of the command itself makes positive, and the
\* exit status does not count.
ReflexEarned ==
  \A r \in ToSet(rules) : r.active => won[<<r.goal, r.act>>] > 0

\* Learning affects behaviour immediately (docs/v1_plan.md): between two steps
\* the rules a kernel itself promoted and that are still active are in its
\* reflex engine, unless an error came between the promotion and the copy.
PromotionsReachCache ==
  \A k \in Kernel : pc[k] = "idle" /\ ~lost[k] =>
    \A r \in ToSet(rules) : r.active /\ r.by = k =>
      [goal |-> r.goal, act |-> r.act, text |-> r.text] \in cache[k]
=============================================================================
