# A verification of the Retina agent kernel

Retina is a harness around a language model.  An operator gives a task in a
chat session; a kernel loop asks the model (or a learned reflex) for one action
at a time, asks for approval where the action is dangerous, lets a shell carry
it out, verifies what changed, stores the experience and learns rules from it,
until the model answers or the loop gives up.  This directory holds TLA+ modules
that model the parts of it in which something can go wrong that a test hardly
reaches, TLC configurations that check them on small instances, and TLAPS proofs,
for instances of any size, of every safety property that the passing runs check.

    tlc -config MCKernelLoop_step.cfg MCKernelLoop     # one run
    tlapm KernelLoopProofs.tla                         # its proofs

`PROJECT.json` lists the components, the runs, the source lines behind every
definition, the hazards and the theorems.

## 1. Inventory

All paths are under `src/crates/`.

| Part | State it keeps | Operations | Talks to |
|---|---|---|---|
| **Task loop** (`retina-kernel/src/lib.rs`, `execution.rs`) | the task, its step index, the pending reflex action, `ExecutionControl` (stop flag, one guidance slot) | `execute_task_with_config`, `select_action`, `execute_action`, `check_cancellation`, `cancel_outcome` | the traits Shell, Reasoner, Memory; the operator's thread through `ExecutionControlHandle` |
| **Reflexes and breaker** (`support.rs`) | rules in memory; failures per objective | `check`, `sync`; `is_tripped`, `record_failure` | called by the loop; filled from the rules table |
| **Evidence of a task** (`loop_state.rs`, `result_helpers.rs`) | recent steps, action summaries, working sources, artifact references, signature counts, avoid rules | `record_step`, `apply_live_compaction` | called by the loop; shown to the reasoner |
| **Router, task shape** | none | pure functions | called when a task is admitted or planned |
| **Controlled commands** (`retina-shell-cli/src/process_control.rs`) | one child process and its pipes | `CliShell::run_command`, `terminate_child_gracefully`, `force_kill_child`, `read_child_output` | the operating system; the stop flag |
| **Shell state** (`lib.rs`, `state_helpers.rs`) | the last command and its output | `capture_state`, `compare_state` | the loop's verification |
| **File operations, policy** (`file_ops.rs`, `policy.rs`) | none (files) | read, write, search, extract; scope checks | the file system, which other processes change too |
| **Memory** (`retina-memory-sqlite`) | tables for the timeline, the state log, experiences, knowledge, rules, tools, the agent manifest | append, record, recall, `consolidate`, `active_rules`, manifest updates | one SQLite database, shared by every Retina process |
| **Chat session** (`retina-cli/src/chat.rs`) | the active task, the pending prompt, three channels | `run`, `handle_input`, `drain_prompt_requests`, `poll_task_completion` | the input reader, the worker thread of the task |
| **Controller** (`controller.rs`, `maintenance.rs`) | none (spawns workers) | `spawn_task`, manifest updates, cleanup | kernel, memory |
| **Model client** (`retina-llm-claude`) | none | build a request, parse an answer | an HTTP service |
| **Output** (`output.rs`) | none | rendering | terminal |

What makes these parts hard, and what makes them correct:

* *Task loop.*  The operator's stop and guidance arrive between any two
  statements; every `?` may end the task in the middle of a step.  Correct: no
  command runs past a checkpoint that could have seen the stop; no dangerous
  command runs without a consent of its own; the timeline ends once and agrees
  with the verdict; the loop ends.
* *Breaker and repeats.*  Counters that outlive a step or a task.  Correct: they
  stop the loop, and not later than promised.
* *Evidence.*  Bounded lists with merge, rank and recency.  Correct: no
  duplicates, the latest and the best survive.
* *Controlled commands.*  Signals, zombies, pipes that fill, descendants that
  keep pipes open.  Correct: signals only to the process meant, a truthful
  result, a stop that takes effect.
* *Learning.*  Several processes, one database, no transaction around
  consolidation, a cache of the rules in each kernel.  Correct: a reflex is
  earned, and a promotion reaches the kernel that made it.
* *Chat session.*  Two threads, three channels, one operator who types when he
  likes.  Correct: no prompt is lost, one worker at a time, a stop reaches a
  waiting worker, every outcome is shown.
* *Files.*  Nothing the shell does to the files is atomic, and processes that
  earlier commands left behind change them too.  Correct: the verification misses
  no change, a read or search that is incomplete says so, a write takes away only
  what it was told to, and a plain name never leaves the agent's roots.
* *Memory.*  Events, knowledge, its index and its numbers are written by several
  processes, statement by statement, without a transaction.  Correct: retention
  keeps the newest, the index says what the nodes say, what was learned is not
  forgotten.
* *Manifest.*  Load, change, save and write a file, by several processes.
  Correct: whoever is alone is described truthfully, whatever an earlier crash
  left, and a run hides no failed update of it behind the outcome of its task.

## 2. The modules

| Module | Models | Extends / uses | Runs |
|---|---|---|---|
| `TaskLifecycle` | what the loop promises its caller | – | (as a property of `step`) |
| `KernelLoop` | task loop, reflex selection, breaker, operator control | INSTANCE `TaskLifecycle` | – |
| `MCKernelLoop` | values | `KernelLoop` | `step` `budget` |
| `KernelLoopProofs` | theorems | `KernelLoop`, `TLAPS` | – |
| `ProcessControl` | controlled commands and the processes they start | – | `command` `stop` |
| `ProcessControlProofs` | theorems | `ProcessControl`, `TLAPS` | – |
| `Learning`, `MCLearning` | experiences, consolidation, reflex caches | – | `learn` `earned` |
| `LearningProofs` | theorems | `Learning`, `FiniteSetTheorems`, `SequenceTheorems`, `TLAPS` | – |
| `Evidence`, `MCEvidence` | the evidence lists of a task | – | `evidence` `reopen` |
| `EvidenceProofs` | theorems | `Evidence`, `FiniteSetTheorems`, `SequenceTheorems`, `TLAPS` | – |
| `ChatSession` | session, input reader, workers | – | `chat` |
| `ChatSessionProofs` | theorems | `ChatSession`, `SequenceTheorems`, `TLAPS` | – |
| `Workspace`, `MCWorkspace` | one step as the files see it: answer, policy, capture, file operations, comparison | – | `shell` |
| `WorkspaceProofs` | theorems | `Workspace`, `FiniteSetTheorems`, `SequenceTheorems`, `TLAPS` | – |
| `MemoryStore`, `MCMemoryStore` | timeline, retention, knowledge, its index, recall | – | `store` |
| `MemoryStoreProofs` | theorems | `MemoryStore`, `FiniteSetTheorems`, `SequenceTheorems`, `TLAPS` | – |
| `Manifest`, `MCManifest` | the root manifest, in the database and in its file | – | `manifest` |
| `ManifestProofs` | theorems | `Manifest`, `FiniteSetTheorems`, `TLAPS` | – |

### TaskLifecycle and KernelLoop

`KernelLoop` has one worker.  `pc` names the place in the code it has reached:

    received  loop  select  planning  chosen        lib.rs 63-194, execution.rs 27-76
    enter  gate  prompt  dispatch  armed  launch    execution.rs 86-164
    executing  result  stopcheck  verify            execution.rs 164-232
    learn  consolidate  judge                       execution.rs 234-273
    record  conclude  returned                      lib.rs 213-291

with the failure exits in between.  An action of the module is the code from one
such place to the next; the operator's `RequestCancel` and `QueueGuidance` may
come between any two.  Actions, results and rules are abstract: what is kept of
an action is whether it is a command, privileged, change-expecting, whether it
has a repeat signature and whether consolidation may learn it.  What is kept of
the timeline is the list `closing` of events that end a task.  A call whose error
the code passes on with `?` has an action of its own (`PlanningFails`,
`CaptureFails`, `ApprovalFails`, `MemoryFails`, ...), since it leaves the loop at that
place with everything done so far still done.  An append to the timeline is two inserts,
each committed by itself (memory-sqlite lib.rs 103-134): when the second fails, the event
is on the timeline and the caller gets an error all the same.  `MemoryFails` may
therefore write the ending that was due (`Due`), so that a task returned as an error can be on
record as completed; `EndingsAgree` and `TaskLifecycle` claim no more than that.

`reflex` is what `ReflexEngine::check` answers for an objective.  It starts as anything
consolidation can have learned before; `Admit` reads it, and `Consolidate` may
replace it (the database has other writers too).  How rules come about is the subject of
`Learning`.  Two details a reader may miss: approval goes by the
classification of the command, not by the action's flag (`RequiresApproval`), while
the shell itself refuses a privileged command that lacks the flag (`ShellRefuses`);
and a reflex is tried only at the start of a task.

`TaskLifecycle` is the abstract view: a task is submitted, executes at most a
bounded number of times, announces at most one ending, does not execute after
it, and returns success only with *completed* on record and *blocked* only without it; an
error may follow any ending.  `phase` maps the
places of the loop to *idle*, *running* and *over*; `runs`, `closing` and `verdict`
map to themselves.

### ProcessControl

`pc` again names the place: the poll loop (`poll`, `check`), the kill sequence
(`terminate`, `grace`, `kill`, `reap`), the reading of `stdout` and then `stderr`, and the
two exits.  The operating system is the environment: a child that may ignore
SIGTERM, exits with success or failure, writes to pipes of `Capacity` writes and
blocks when one is full, and may leave a background process that dies of
SIGTERM, ignores it, or has left the process group.  A pid stays the child's
until it has been waited for.  Modelled from what the code relies on, these
definitions are marked external in the map.

### Learning

The tables `log` and `rules`, and for each kernel a reflex cache, the last command
its shell remembers and the place in a consolidation.  A kernel `Run`s an
action, which scores it (`Utility`) and appends an experience in one step, since
SQLite serialises the statement.  Whether a run of a command expects a change is the
reasoner's choice at each answer (`MayExpectChange`); the label that keys a pattern does not
contain it, so that runs of both sorts share one.  Then the kernel consolidates: `LoadWindow` reads the
recent experiences, `Load` reads the rules and fixes the plan (`RuleFor` each of the
`Patterns` whose rule is missing or has drifted), each `Write` commits one rule,
`Consolidated` reloads the cache only if the report counts a promotion.  A cleanup process consolidates without a
cache.  Between any two of these steps other processes may do theirs, and an
error (`MemoryFails`) or a `Restart` may end a kernel's part.

Utilities are in hundredths and confidences in ten-thousandths, so that the
thresholds 0.5 and 0.8 and the drift of 0.05 are integers.  `Kind` says what an action is: its
label names it, and `action_utility` scores what it found by it.  `Goal` maps task texts to signatures: texts of
one goal form one pattern, but a rule fires for one text only.

### Evidence

One action, `Step`: record the result, merge both lists, sort when the code sorts,
and trim what `apply_live_compaction` trims.  The functions on lists are the code's
(replace in place or append, drop from the front, order by rank and then path or
recency, keep the first few).  An order is a relation, and `Sorted` inserts the
entries one by one behind all they do not come before, which is what a stable sort
does.  Locators are numbers in the order of the paths.  The lists' limits are
constants.  Only a failure and a search or lookup that matched nothing may name no
locator (`MayBeEmpty`).
The paths whose change a command reports come from the model and are not limited
in number; the module takes them to be no more than a batch (`EvidenceAssumption`).
A locator stands for a path, or for a document with a page range; `Directory` holds
those that are directories, which a find lists as such.

### ChatSession

`main` is the place in the session loop (`drain`, `poll`, `input`), `worker[t]` that of the
thread of task `t`.  Each turn drains at most one prompt, polls the active task
once and takes one line or times out, exactly in this order.  The manifest is
the status that workers write; `missed` notes that a write failed (the code
ignores those errors).  `Exit` and `SessionFails` end the process and with it the
workers, wherever they are.  Prompts for text input are left out: no code
requests one.

### Workspace

`KernelLoop` takes the shell's answer as it comes; here it is made.  `pc` follows one step:

    idle  capture  hash  execute        response.rs, policy.rs, state_helpers.rs 4-36
    walk | parents  open                file_ops.rs 18-175 | 359-385
    recapture  rehash  compare  compared    lib.rs 62-141

The reply of the model is a record with the fields it gave; `Named`, `Arg`, `Tracked`
and `ExpectsChange` decode it with the defaults of `response.rs` and `actions.rs`.  A
place is a sequence of path components, `fs` says what is there, and a text is a
sequence of a few units (bytes, lines, rows or pages, whichever an operation
counts).  A name becomes a path (`Resolve`) by what the code expands and joins, and by
nothing else: `..` and the names of symbolic links stay in it.  The policy compares these
paths as written (`PathAllowed`), while the system follows them (`Reached`, from the constant
`Leads`), so that a path below a root may lead to a place that is not: `ScopeKept`
says that only such a path (`Diverted`) does, and that the step then stays with what it leads to.
Wherever the code asks the file system twice, the module takes two
steps: metadata and content of a capture, the check of a write and the opening of
the file, one entry of a traversal and the next.  In between `Meddle` changes the
files, as a background process or the operator's editor does.  Modification
times are only ever compared within a step; `touched` stands for them.  `Shown` is
what the reasoner is given of the result in the end.

`PathsAssumption`, `TreesAssumption` and `RepliesAssumption` say what the constants
stand for: places closed under taking the directory, trees with every file in a
directory, and answers whose numbers are numbers and whose names lead to
places.  A diverted path leads where it leads for the whole step, and the directories it passes
are there.

A command changes any of the places of `Foreign`, or none; `RunCommand` is the
place where `ProcessControl` would be composed.

### MemoryStore

The tables of one database and, for each process, the place in the sequence of
statements it executes: appending an event (`Stamp`, `InsertEvent`, `InsertState`),
recording an experience (`RecordExperience`) and consolidating knowledge (`ReadPatterns`, `LoadKnowledge`, then for each pattern
`UpdateNode` or `InsertNode` and `MapNode`), and for a cleanup retention (`SelectCut`,
`TrimTimeline`, `TrimStateLog`) and `Decay`.  SQLite serialises statements, so each is one step,
together with the trigger it fires (`IndexInsert`, `IndexUpdate`).  `Abandon` is an error or
a crash at any of these places.  The index holds pairs of a row and a word; what
a search for a word returns (`Matching`, `FtsHits`, `Recalled`) is compared with what the
nodes say.  `patterns` is what the latest 256 experiences amount to, one record of the
constant `Pattern` for a key that makes a pattern (`build_experience_patterns`): a key,
the words of the text, the successes and the confidence.  They are recounted each time,
so `RecordExperience` may raise, lower or drop the one of a key.  Rules, which
the same consolidation writes, are in `Learning`.

Two history variables delimit what the code can promise: `overlap` (two
consolidations at once) and `torn` (something came between a node's row and its
number).  Without them `KnowledgeGrows` and `SearchExact` do not hold: then a pattern
gets two nodes, and words find the wrong node for good.  No document of the
repository promises otherwise, so this is listed under the hazards and not as a
disagreement.

### Manifest

Each process of `retina run`, `retina chat`, or of a command that only starts the
runtime, is a sequence of updates (`InitLoad`, `BeginTask`, `EndTask`), each of which
reads the row, `Save`s it and `WriteFile`s its copy, in separate steps.  `Fails` is an
error of a read or write, which `chat` ignores around a task and `run` returns, in place
of the outcome if the task has one: `RunReported`.  Of the task the exit of `run` says
less: `Outcome::Failure` and `Outcome::Blocked` are printed and returned as Ok, like a
`Success`, so that only an error or a panic of the task gives an error of the run.
`Crash` is a kill, or `/exit` while a task runs.  `Init` starts from whatever an earlier
use left, rows from before the lifecycle column included.  `alone` holds the processes
that no other was active beside: `ManifestTruthful` is about these, since two processes
at once overwrite each other's status.

### Variants

A definition named like another with a suffix (`LoopHeadOverrun`, `TrippedLate`,
`FinishByStatus`, `SpawnUnchecked`, `SourceBeforeUndated`, ...) is that definition with
one plausible mistake: a limit off by one, a guard forgotten, a count that is
reset, a message read but not taken.  No specification uses them.
`PROJECT.json` pairs each with the property that must fail when the variant takes
the original's place, which shows that the property has something to say.

## 3. Runs

| Run | Checks | Instance |
|---|---|---|
| `step` | `TypeOK`, `PrivilegedNeedsConsent`, `StopHonoured`, `EndingsAgree`, `ImplementsLifecycle`, `TaskEnds` | one objective, four kinds of action (answer, write, command, delete), two steps, any learned rule, no guidance |
| `budget` | `BreakerOvershoot`, `RepeatsBounded`, `GuidanceInOrder` | one objective over any number of tasks, five steps, two guidance messages, three kinds of action, one finding |
| `command` | `TypeOK`, `SignalsOwnChild`, `CancelTruthful`, `StopReturnsAlone` | pipes of one write, every kind of background process |
| `stop` | `StopReturns` (violated) | the mildest background process |
| `learn` | `TypeOK`, `ReflexBacked`, `PromotionsReachCache` | a kernel and a cleanup, two texts of one goal, one command run with and without an expected change, window 3, four runs |
| `earned` | `ReflexEarned` (violated) | one kernel, a lookup and a command run with and without an expected change |
| `evidence` | `TypeOK`, `NoDuplicates`, `RecentReadsKept`, `CompactionKeepsBest` | four files read, found, searched, written, extracted; five steps |
| `reopen` | `ContinuationResolves` (violated) | four reads |
| `chat` | `TypeOK`, `PromptKept`, `OneWorker`, `IdleWhenDone`, `StopHeard`, `OutcomeShown` | two tasks, two lines typed ahead |
| `shell` | `TypeOK`, `ChangesSeen`, `WritesVerified`, `TraversalComplete`, `ReadHonest`, `OverwriteMeant`, `ScopeKept` | twelve places, a link to a directory and a path with `..`, some thirty answers of every kind, one file others change, an agent with and without roots, limits of one to three |
| `store` | `TypeOK`, `RecentKept`, `SearchExact`, `KnowledgeGrows` | a worker and a cleanup, two keys with a pattern of two and one of three successes, keep one event, recall two nodes, two ticks of the clock |
| `manifest` | `TypeOK`, `ManifestTruthful`, `RunReported` | two runs, a chat and a visitor, three starts |

What each shows, in the terms of the code, stands above the property in its
module.  Why the bounds suffice:

* `step`: every place of the loop is reached with two steps (a first, a retry or
  continuation, and the exhausted budget); a second objective would meet the
  first only in the breaker, which `budget` drives, and the theorems cover any
  number.
* `budget`: the breaker trips at three failures and a repeat at the fourth
  success of one signature, so five steps let a task cross either limit and go
  on.  Tasks follow each other without a bound; the breaker itself makes the
  state space finite.  Two messages are enough for one to replace another.
* `command`: with capacity one the second write blocks.
* `learn`: three experiences make a pattern, the fourth slides a window of three; the
  kernel and the cleanup meet in every order, and a second kernel executes no statement
  that these two do not.  The code's window is 256.
* `evidence` and `reopen`: the limits are scaled down from 12, 8, 12, 6 and a
  batch of 6 to 4, 3, 4, 2 and 2, keeping the relations between them
  that the code has (`EvidenceAssumption`, and a list of references longer than
  what a compaction keeps).  With the code's limits `reopen` needs nine reads instead
  of four.
* `shell`: a limit of one is met from below, at it and from above by texts of up to two
  units; three entries under a directory exceed the largest limit of a search; every file
  that is missing, a file or a directory where a write wants the other occurs.
  Steps are independent of each other but for the files and the last command, and
  every state of the files a step can leave is a start of the next.
* `store`: one event more than the limit makes retention act, two with one timestamp are
  the tie, a third arrives late; two keys are the least that can get each other's
  row.  The confidences (92, after decay 82, against 88) are such that a recount with
  fewer successes does take a node's place.  Processes overlap in the worker and the cleanup; a second worker adds no
  statement that these two do not execute.
* `manifest`: three starts are two processes of any kind that meet in every order and one
  after or beside them, as after a crash; a fourth adds only more of what two do to each other.
* `chat`: a second task is needed to be confused with the first, a second line to be
  queued behind the first.

`CHECK_DEADLOCK FALSE` stands where the system may stop: a command that has
returned, a session that has ended, a bounded history that is used up.

### Fairness

* `KernelLoop`, `step`: weak fairness of the worker thread, which the scheduler
  gives, and of the answers it waits for (the model client, the shell, the operator at a prompt)
  together: `TaskEnds` is a statement about the loop under the proviso that
  whoever it calls answers.  Nothing is assumed of stop or guidance.
  That the shell answers a stop is what `ProcessControl` looks at.
* `ProcessControl`: weak fairness of the shell thread, of the delivery of a signal,
  and of a write the pipe has room for.  A command is never assumed to finish.
* `ChatSession`: weak fairness of the session loop, whose wait is limited to 100 ms, and of
  what a worker does outside its task (start, take an answer, reset the manifest,
  send the outcome).  Nothing makes the operator type, or a task ask or end.
* `Learning`, `Evidence`, `Workspace`, `MemoryStore` and `Manifest` state safety only: nothing
  in them waits.

### Disagreements with the documents

Three runs end in a counterexample.  Each states a sentence of the repository's
own documents or comments.

* `stop`: `testing.md:120` says that `/s` stops the current task; a command that has
  exited but left a background process with its pipes open is read to the end of
  file (`process_control.rs:100`), with the stop flag unread.
* `earned`: `docs/memory_layers.md:163` and `:199` want reflexes earned and failed
  commands scored negatively; a change-expecting command is scored by the state
  delta (`support.rs:202`), and the shell's record of the command itself is a change
  (`retina-shell-cli/src/lib.rs:108`), so that a command which always fails scores 1.0.
* `reopen`: a compacted result says to reopen the file "by path from task_state artifact
  refs" (`result_helpers.rs:299`), but a compaction orders references of one rank by path
  (`result_helpers.rs:408`), and may drop the one of the file just read.

## 4. Proofs

Eight modules hold proofs.  Each starts from the assumptions on the constants that
its module states by name, and TLC evaluates them on the instances of the runs.
The pattern is the same everywhere: the initial states satisfy an
inductive invariant, each action keeps it, and the property follows from it; the
proof has a step per action and below it one per conjunct the action disturbs.

`KernelLoopProofs` proves for all values of the constants that satisfy
`KernelAssumption` (non-empty sets of actions, objectives and findings; the
classes of actions related as the code relates them; natural bounds):

| Theorem | Says | Inductive invariant |
|---|---|---|
| `TypeCorrect` | `Spec => []TypeOK` | `TypeOK /\ Budget` |
| `PrivilegedConsented` | `[]PrivilegedNeedsConsent` | `ConsentInv` |
| `StopsHonoured` | `[]StopHonoured` | `StopInv` |
| `EndingsConsistent` | `[]EndingsAgree` | `EndingInv` |
| `BreakerBounded` | `[]BreakerOvershoot` | `BreakerInv` |
| `RepeatsEnd` | `[]RepeatsBounded` | `RepeatInv` |
| `GuidanceOrdered` | `[]GuidanceInOrder` | `GuidanceInv` |
| `LoopImplementsLifecycle` | `ImplementsLifecycle` | the first, `EndingInv` and `Budget` |

None of the properties is inductive alone.  `TypeOK` needs `Budget`, which relates
executions to steps and places (a task may execute once more only before its
step's shell call).  `ConsentInv` says where in a step the consent must already have
been given, `StopInv` which places a worker can be in for each place where the
stop met it, `EndingInv` which ending may be on the timeline at which place and
with which outcome; `BreakerInv` counts the steps that are left on top of the failures collected, since only
the sum is bounded; `RepeatInv` says that a count of four sends the worker to
the end of the loop; `GuidanceInv` that what was told, then what is in the slot, then what
will be queued is increasing.  Each proof has one step per action.  The
refinement maps every action to an action of `TaskLifecycle` or to a stutter.

`ProcessControlProofs` proves for pipes of any positive capacity and any set of
background processes:

| Theorem | Says | Inductive invariant |
|---|---|---|
| `CommandTyped` | `Spec => []TypeOK` | `IInv` |
| `SignalsReachTheChild` | `[]SignalsOwnChild` | `IInv` |
| `CancellationsTruthful` | `[]CancelTruthful` | `IInv` |

`IInv` adds to the type that nobody waits for the child between the poll that saw
it alive and the end of the stop sequence, and that a noted cancellation keeps its
stop and its SIGTERM until the result is built.  `SignalsOwnChild` alone says nothing
about `check` and `grace`, from which the two signals follow.

`ManifestProofs` proves for any sets of runs, chats and visitors and any number of
starts:

| Theorem | Says | Inductive invariant |
|---|---|---|
| `ManifestTyped` | `Spec => []TypeOK` | `IInv` |
| `ManifestsTruthful` | `[]ManifestTruthful` | `IInv /\ AloneInv` |
| `RunsReported` | `[]RunReported` | `IInv /\ FailedRunsStop` |

`IInv` adds that no process holds roots in memory, and that they are gone from the table as soon
as any process has saved once; `TypeOK` says this only of some places.  `AloneInv`
follows the update of a process that is alone: what it holds when it has read, that
the table is what it holds when it has saved, that the file is the table when it has
written, and that the others are off.

`ChatSessionProofs` proves for any number of tasks and of lines typed ahead:

| Theorem | Says | Inductive invariant |
|---|---|---|
| `SessionTyped` | `Spec => []TypeOK` | `IInv` |
| `PromptsKept` | `[]PromptKept` | `IInv` |
| `OneWorkerAtATime` | `[]OneWorker` | `IInv` |
| `ManifestIdle` | `[]IdleWhenDone` | `IInv` |

`IInv` is the type, `PromptKept`, `OneWorker` and `ManifestReset`.  They hold together only:
that the prompt channel holds one request at most follows from the other
two (whoever asks is the active task, and it does not wait already), and
`ManifestReset` says that the manifest is idle from the worker's reset of it until its
outcome is polled, which is when `IdleWhenDone` begins to speak.

`WorkspaceProofs` proves for any places, trees, answers, authorities and limits:

| Theorem | Says | Inductive invariant |
|---|---|---|
| `WorkspaceTypes` | `Spec => []TypeOK` | `TypeInv /\ StepInv` |
| `OnlyMeantIsOverwritten` | `OverwriteMeant` | the same |
| `StepsKeepToScope` | `ScopeKept` | the same |
| `ReadsAreHonest` | `ReadHonest` | the same |
| `NoChangeIsMissed` | `[]ChangesSeen` | the same, and `SightInv` |
| `VerificationIsRight` | `[]WritesVerified` | the same, and `SightInv` |
| `TraversalsAreComplete` | `[]TraversalComplete` | the same, and `WalkInv` |

`StepInv` says what each place of a step already knows: past the first capture the
tracked path is allowed, a write that is about to open its file has its
directories, and over a file that was there only when the answer says overwrite, a
traversal stays below its root.  `SightInv` has three parts: a tracked file that is no longer
what was captured has been touched, and the second snapshot says so (`SeenInv`); a write that changes
something touches it (`WroteInv`); and left alone, an operation that only reads
gets the same snapshot twice (`QuietInv`).  `WalkInv` is the loop invariant of the
traversal: below the cap, everything wanted that was left alone is found or lies at or
below an entry still to be visited; those entries lie side by side, so that none is
visited twice and the cap counts each hit once.  `ScopeKept` and `ReadHonest` are about
steps; what they need of names (that a place below an allowed path is
allowed, or diverted) and of texts (that a cut text is shorter) are lemmas about prefixes.

`MemoryStoreProofs` proves for any number of workers and cleanups, any patterns and
any limits:

| Theorem | Says | Inductive invariant |
|---|---|---|
| `StoreTypes` | `Spec => []TypeOK` | `TypeInv` |
| `NewestKept` | `[]RecentKept` | `TypeInv /\ RetentionInv` |
| `KnowledgeIsKept` | `KnowledgeGrows` | `TypeInv /\ GrowthInv` |
| `SearchFindsAll` | `[]SearchExact` | `TypeInv`, and `torn \/ IndexInv` |

`TypeInv` says in addition to the types what processes hold of the tables: what was read is
still there under the same key, and a node without a number is stored by
one process.  `RetentionInv` counts: from the moment a cut is selected more than
`Keep` events that were ever inserted are as new as it, which later inserts can only
increase, so that no deletion reaches one of the `Keep` newest.  `GrowthInv` says that
a consolidation looks at a key once, and that one that is alone has read every key
there is a node of, except the one it is storing, and still finds the nodes it has to
look at as it read them: the confidence it compares with, and keeps if that is
higher, is the one in the table.
`IndexInv` says which rows the index has and that their words are those of
the node; it holds until something comes between a node's row and its number.  From it
`SearchExact` follows by what the index returns (`FtsHits`), because two rows never
stand for one node.

`LearningProofs` proves for any processes, tasks, actions and window:

| Theorem | Says | Inductive invariant |
|---|---|---|
| `LearningTypes` | `Spec => []TypeOK` | `TypeInv` (with `RowsInv`) |
| `LearningTakesEffect` | `[]PromotionsReachCache` | `TypeInv /\ CacheInv` |
| `ReflexesAreEarned` | `[]ReflexBacked` | `TypeInv /\ EarnedInv` |

`RowsInv` says that ids are handed out one by one and that only confident rules
are active; `CacheInv` that an active rule is in its kernel's cache, or the
kernel is on its way to the copy, or an error ended that way.  `EarnedInv`
follows the successes from the log into plans, rows and caches.  Its core is the lemma
`PromotedIsEarned`: a pattern that reaches the confidence for promotion has three
successes in its window, however wide it is and however its runs were scored.  Two
successes are not enough, since whatever is no success has a utility of at most 0.45,
and then three or more experiences have a confidence below 0.8: this is arithmetic on the
weights of `consolidation.rs:89`.  What counts as a success is another matter: a run that
expected a change is judged by the state delta, so that it may have failed.  The two history
variables `won` and `shown` keep the two sorts apart, `ReflexBacked` needs their sum, and the
run `earned` shows that the first alone may be zero.

`EvidenceProofs` proves for any results and any sizes of both lists:

| Theorem | Says | Inductive invariant |
|---|---|---|
| `EvidenceTypes` | `Spec => []TypeOK` | `TypeInv` |
| `NothingTwice` | `[]NoDuplicates` | `TypeInv` |
| `BestReferencesKept` | `CompactionKeepsBest` | `TypeInv` |
| `LastReadsKept` | `[]RecentReadsKept` | `TypeInv /\ ReadsInv` |

`TypeInv` has the lengths of the lists after each step: the sources never exceed
what a compaction keeps, because their growth is a reason to compact, so that the
drain of the oldest, which knows no rank, drops none.  `ReadsInv` relates sources and
history: a source that counts as read was read, of two the later read was used
later, and the last `KeepSources` reads are listed.  That a compaction keeps these is a
pigeonhole: whatever sorts before one of them is a later read, and there are
fewer than `KeepSources` of those.  What the functions on lists do is a lemma each:
`Put` replaces or appends, `Merge` brings its candidates and drops nothing
else but from the front, `Sorted` keeps the entries, lists none twice that was listed
once, and leaves them in order.

Recursive functions (`Merge`, `Sorted`) and inductions over numbers are treated
without the library's induction theorems, which have an operator as parameter: that such a
function exists, and what it computes, is shown by taking the least number for
which it would not (`LeastNumber`, from `NatLessThanWellFounded` and `WFMin`).

Only model-checked are the four liveness properties of the passing runs, `TaskEnds`,
`StopReturnsAlone`, `StopHeard` and `OutcomeShown`, since the provers know neither
fairness nor `ENABLED`, and the three properties whose runs end in a counterexample.

## 5. Plan

In this order, the most important first:

1. `TaskLifecycle`, `KernelLoop` and its proofs: done.
2. `ProcessControl` and its proofs: done.
3. `Learning` and its proofs: done.
4. `Evidence` and its proofs: done.
5. `ChatSession` and its proofs: done.
6. `Workspace` and its proofs: done.
7. `MemoryStore` and its proofs: done.
8. `Manifest` and its proofs: done.
9. `Router`, pure, once there is more than one agent to choose from.
10. A composition of `ChatSession` with `KernelLoop` through `TaskLifecycle`, and of
    `Workspace`'s commands with `ProcessControl`.

## 6. Not modelled, and why

* Rendering (`output.rs`), request payloads and wording: no control state.
* The service behind the HTTP client: its answers are arbitrary in `KernelLoop` and
  of every kind in `Workspace`.
* Embeddings: a search in them returns any rows in `MemoryStore`.  The ranking of
  experiences: its result feeds no state that is modelled.  The order `recall_knowledge`
  puts its results in (`retrieval.rs:37`, by confidence and shared words): which nodes
  it returns is modelled.
* The router and the registry it reads: with one agent it has nothing to choose.
* The traits Fabricator and Transport: no implementation exists.
* Symbolic links that are made or changed during a step, or dangle.  (A path that a command
  tracks is resolved by the kernel and not by the command's own working
  directory, as in the code.)
* Machine integers in `Workspace`: a read limit is a natural number, so that `limit + 1`
  (`file_ops.rs:189`) does not wrap as it would for the largest `usize`.
* The formats of tables and documents, and white space: a text is its units.
* The experiences themselves, in `MemoryStore`: the patterns they give change freely there.
  The window slides in `Learning`.
* A `--keep-events` beyond the range of `i64`, to which it is cast (`lib.rs:542`).
* Mutex poisoning after a panic: each memory call may fail, but not all later
  ones together.
* Rule conditions other than the equality of goals, and the order of rules that
  match alike.
* Set-up, migrations, command-line parsing, test doubles.
