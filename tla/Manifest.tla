------------------------------- MODULE Manifest -------------------------------
(***************************************************************************)
(* The root manifest: what the database and manifest.toml say the root     *)
(* agent is doing.  Every process that uses the runtime reads the row,      *)
(* changes it in its own memory, puts the whole of it back and writes the  *)
(* file, in separate steps and without a transaction.                      *)
(*                                                                         *)
(* Of a manifest we keep its status, the phase of its life cycle, whether  *)
(* it says when a task was last worked on, and whether it still lists the  *)
(* roots that old versions granted.                                        *)
(***************************************************************************)
EXTENDS Naturals, FiniteSets

CONSTANTS
  Runner,   \* processes of `retina run'
  Chat,     \* processes of `retina chat'
  Visitor,  \* processes that only start the runtime: init, cleanup
  MaxStarts \* bound: processes started

Process == Runner \cup Chat \cup Visitor

ASSUME ManifestAssumption ==
  /\ Runner \cap Chat = {} /\ Runner \cap Visitor = {} /\ Chat \cap Visitor = {}
  /\ MaxStarts \in Nat

VARIABLES
  table,   \* agent_manifest: {} or the row of the root agent
  file,    \* manifest.toml: {} when it is absent or cut short
  pc,      \* where each process is
  doing,   \* the update it is in: "init", "busy" or "idle"
  held,    \* the manifest it has in memory: {} or {manifest}
  result,  \* what became of its task: "none" yet, an Outcome or "error"
  failed,  \* history: whether a read or write of this process failed
  alone,   \* history: processes no other has been active beside, and that
           \* neither failed nor were killed
  starts

vars == <<table, file, pc, doing, held, result, failed, alone, starts>>

\* AgentStatus, AgentLifecyclePhase
Status == {"Spawned", "Running", "Idle", "Archived"}
Phase  == {"Bootstrapping", "Ready", "Busy", "CoolingDown", "Archived"}

\* Outcome: each is an Ok, with which `run' exits as it does after a success.
Outcome == {"success", "failure", "blocked"}

\* root_manifest
RootManifest == [status |-> "Idle", phase |-> "Ready", worked |-> FALSE, roots |-> FALSE]

\* AgentLifecycle::transition
Transition(manifest, phase) ==
  [manifest EXCEPT !.phase = phase, !.worked = @ \/ phase \in {"Busy", "CoolingDown"}]

Normalized(manifest) == [manifest EXCEPT !.roots = FALSE]

\* What an earlier use of the directory may have left: nothing, or a row of any
\* version of the program, in whatever state it was stopped.  A status that cannot be
\* read counts as spawned; a life cycle that cannot, as in rows older than its
\* column, counts as ready, whatever the status.
Left == {[status |-> "Idle", phase |-> "Ready", worked |-> FALSE, roots |-> TRUE],
         [status |-> "Running", phase |-> "Busy", worked |-> TRUE, roots |-> FALSE],
         [status |-> "Spawned", phase |-> "Ready", worked |-> FALSE, roots |-> FALSE],
         [status |-> "Running", phase |-> "Ready", worked |-> FALSE, roots |-> TRUE]}

Init ==
  /\ table \in {{}} \cup {{m} : m \in Left}
  /\ file \in {{}, table}
  /\ pc = [p \in Process |-> "off"]
  /\ doing = [p \in Process |-> "init"]
  /\ held = [p \in Process |-> {}]
  /\ result = [p \in Process |-> "none"]
  /\ failed = [p \in Process |-> FALSE]
  /\ alone = {}
  /\ starts = 0

Goes(p, from, to) == pc[p] = from /\ pc' = [pc EXCEPT ![p] = to]

Holds(p, manifest) == held' = [held EXCEPT ![p] = {manifest}]
-----------------------------------------------------------------------------
(* Starting.                                                               *)

\* Variant: what the table holds is taken as it is.
InitLoadRaw(p) ==
  /\ Goes(p, "off", "save")
  /\ starts < MaxStarts /\ starts' = starts + 1
  /\ \E m \in IF table = {} THEN {RootManifest} ELSE table : Holds(p, m)
  /\ doing' = [doing EXCEPT ![p] = "init"]
  /\ result' = [result EXCEPT ![p] = "none"]
  /\ failed' = [failed EXCEPT ![p] = FALSE]
  /\ alone' = IF \A q \in Process \ {p} : pc[q] = "off" THEN {p} ELSE {}
  /\ UNCHANGED <<table, file>>

\* init_runtime: the row, or a fresh manifest if there is none, without roots.
InitLoad(p) ==
  /\ Goes(p, "off", "save")
  /\ starts < MaxStarts /\ starts' = starts + 1
  /\ \E m \in IF table = {} THEN {RootManifest} ELSE table : Holds(p, Normalized(m))
  /\ doing' = [doing EXCEPT ![p] = "init"]
  /\ result' = [result EXCEPT ![p] = "none"]
  /\ failed' = [failed EXCEPT ![p] = FALSE]
  /\ alone' = IF \A q \in Process \ {p} : pc[q] = "off" THEN {p} ELSE {}
  /\ UNCHANGED <<table, file>>

\* AgentController::new, which for `run' reads the registry and the manifest.
Open(p) ==
  /\ Goes(p, "open", "ready")
  /\ UNCHANGED <<table, file, doing, held, result, failed, alone, starts>>
-----------------------------------------------------------------------------
(* Updating: every update reads, saves and writes the file.                *)

\* update_manifest_lifecycle, on the row that any start has left.
Update(p, update, status, phase) ==
  /\ doing' = [doing EXCEPT ![p] = update]
  /\ \E m \in table : Holds(p, Transition([m EXCEPT !.status = status], phase))
  /\ UNCHANGED <<table, file, failed, alone, starts>>

\* execute_with_root_state and spawn_task: a task begins ...
BeginTask(p) ==
  /\ Goes(p, "ready", "save")
  /\ Update(p, "busy", "Running", "Busy")
  /\ result' = [result EXCEPT ![p] = "none"]

\* catch_unwind and task_panic_error
Caught(outcome) == IF outcome = "panic" THEN "error" ELSE outcome

\* Variant: a task that failed returns its error at once.
EndTaskEarly(p) ==
  /\ \E outcome \in Outcome \cup {"error"} :
       /\ result' = [result EXCEPT ![p] = outcome]
       /\ IF outcome \in Outcome
          THEN Goes(p, "task", "save") /\ Update(p, "idle", "Idle", "CoolingDown")
          ELSE Goes(p, "task", IF p \in Chat THEN "ready" ELSE "off")
               /\ UNCHANGED <<table, file, doing, held, failed, alone, starts>>

\* ... and ends: with an outcome, an error or a panic, which is caught.
EndTask(p) ==
  /\ Goes(p, "task", "save")
  /\ \E outcome \in Outcome \cup {"error", "panic"} :
       result' = [result EXCEPT ![p] = Caught(outcome)]
  /\ Update(p, "idle", "Idle", "CoolingDown")

Save(p) ==
  /\ Goes(p, "save", "file")
  /\ table' = held[p]
  /\ UNCHANGED <<file, doing, held, result, failed, alone, starts>>

\* Where an update leads.
After(p) ==
  CASE doing[p] = "init" -> IF p \in Visitor THEN "off" ELSE "open"
    [] doing[p] = "busy" -> "task"
    [] doing[p] = "idle" -> IF p \in Chat THEN "ready" ELSE "off"

WriteFile(p) ==
  /\ Goes(p, "file", After(p))
  /\ file' = held[p]
  /\ held' = [held EXCEPT ![p] = {}]
  /\ UNCHANGED <<table, doing, result, failed, alone, starts>>
-----------------------------------------------------------------------------
(* Failures.                                                               *)

\* fs::write empties the file before it fills it.
FileCut(p) == file' \in {file} \cup (IF pc[p] = "file" THEN {{}} ELSE {})

Drops(p) ==
  /\ held' = [held EXCEPT ![p] = {}]
  /\ alone' = alone \ {p}
  /\ FileCut(p)
  /\ UNCHANGED <<table, doing, starts>>

\* Variant: the outcome of the task is returned whatever the reset says.
FailsSilently(p) ==
  /\ pc[p] \in {"save", "file", "open"}
  /\ failed' = [failed EXCEPT ![p] = TRUE]
  /\ IF p \in Chat /\ pc[p] # "open" /\ doing[p] # "init"
     THEN pc' = [pc EXCEPT ![p] = After(p)] /\ UNCHANGED result
     ELSE /\ pc' = [pc EXCEPT ![p] = "off"]
          /\ result' = [result EXCEPT ![p] = IF @ = "none" THEN "error" ELSE @]
  /\ Drops(p)

\* A read or a write fails.  `chat' ignores it around a task; `run' gives up,
\* before the task or with its result lost.
Fails(p) ==
  /\ pc[p] \in {"save", "file", "open"}
  /\ failed' = [failed EXCEPT ![p] = TRUE]
  /\ IF p \in Chat /\ pc[p] # "open" /\ doing[p] # "init"
     THEN pc' = [pc EXCEPT ![p] = After(p)] /\ UNCHANGED result
     ELSE /\ pc' = [pc EXCEPT ![p] = "off"]
          /\ result' = [result EXCEPT ![p] = "error"]
  /\ Drops(p)

\* The process is killed, or /exit leaves the task it was running.
Crash(p) ==
  /\ pc[p] # "off"
  /\ pc' = [pc EXCEPT ![p] = "off"]
  /\ result' = [result EXCEPT ![p] = "none"]
  /\ Drops(p)
  /\ UNCHANGED failed

Next == \E p \in Process :
  \/ InitLoad(p) \/ Open(p)
  \/ BeginTask(p) \/ EndTask(p)
  \/ Save(p) \/ WriteFile(p)
  \/ Fails(p) \/ Crash(p)

Spec == Init /\ [][Next]_vars
-----------------------------------------------------------------------------
(* Correctness.                                                            *)

WellFormed(manifest) ==
  /\ manifest \in [status : Status, phase : Phase, worked : BOOLEAN, roots : BOOLEAN]
  /\ manifest.phase = "Busy" => manifest.status = "Running"
  /\ manifest.status = "Running" /\ manifest.worked => manifest.phase = "Busy"
  /\ manifest.phase \in {"Busy", "CoolingDown"} => manifest.worked

\* Every variable holds a value of its type.  Whichever processes overlap, a row
\* or a file is one that some process had in memory, whose status and phase agree
\* once a task was begun under it, and roots of old versions do not come back once
\* a start has saved without them.
TypeOK ==
  /\ \A m \in table \cup file \cup UNION {held[p] : p \in Process} : WellFormed(m)
  /\ Cardinality(table) <= 1 /\ Cardinality(file) <= 1
  /\ \A p \in Process :
       /\ pc[p] \in {"off", "save", "file", "open", "ready", "task"}
       /\ doing[p] \in {"init", "busy", "idle"}
       /\ Cardinality(held[p]) = IF pc[p] \in {"save", "file"} THEN 1 ELSE 0
       /\ result[p] \in Outcome \cup {"none", "error"}
  /\ \A p \in Process :
       pc[p] \in {"file", "open", "ready", "task"} => \A m \in table : ~m.roots

\* The manifest tells the truth about a process that has the directory to itself,
\* whatever an earlier crash left there: while its task runs the agent is
\* Running, once it ended, however it ended, the agent is Idle again, and the file
\* says what the table says.
ManifestTruthful ==
  \A p \in alone :
    /\ pc[p] = "task" => \A m \in table : m.status = "Running"
    /\ (pc[p] \in {"ready", "off"} /\ result[p] # "none")
         => \A m \in table : m.status = "Idle" /\ m.phase = "CoolingDown"
    /\ pc[p] \notin {"save", "file"} => file = table

\* `retina run' hides no failed read or write of the manifest behind an outcome: if
\* one failed, before its task or after it, the run returns an error, whatever the
\* task came to.  (Of the task itself its exit says less: a Failure and a Blocked
\* are printed and returned as Ok, as a Success is.)
RunReported ==
  \A p \in Runner : (pc[p] = "off" /\ failed[p]) => result[p] = "error"
=============================================================================
