---------------------------- MODULE TaskLifecycle ----------------------------
(***************************************************************************)
(* What the kernel promises the operator about one task after another: a   *)
(* task runs a bounded number of actions, its timeline receives at most    *)
(* one ending, nothing is executed once that ending is on record, a task   *)
(* returned as a success is on record as completed and a blocked one is    *)
(* not.  An error promises nothing of the ending.                          *)
(*                                                                         *)
(* KernelLoop implements this specification (KernelLoop!Lifecycle).        *)
(***************************************************************************)
EXTENDS Naturals, Sequences

CONSTANT MaxSteps   \* ExecutionConfig::max_steps

VARIABLES
  phase,     \* "idle": no task; "running"; "over": a verdict was returned
  runs,      \* actions the shell was told to execute for this task
  closing,   \* the ending events of this task on the timeline
  verdict    \* what execute_task_with_config returned

lifecycle == <<phase, runs, closing, verdict>>

Endings  == {"TaskCompleted", "TaskFailed", "TaskCancelled"}
Verdicts == {"success", "blocked", "error"}

Init ==
  /\ phase = "idle"
  /\ runs = 0
  /\ closing = <<>>
  /\ verdict = "none"

Submit ==
  /\ phase = "idle"
  /\ phase' = "running"
  /\ runs' = 0
  /\ closing' = <<>>
  /\ verdict' = "none"

\* The shell is told to execute one more action.
Execute ==
  /\ phase = "running"
  /\ closing = <<>>
  /\ runs < MaxSteps
  /\ runs' = runs + 1
  /\ UNCHANGED <<phase, closing, verdict>>

\* The cancelled ending is written while the step is still being recorded.
Announce ==
  /\ phase = "running"
  /\ closing = <<>>
  /\ closing' = <<"TaskCancelled">>
  /\ UNCHANGED <<phase, runs, verdict>>

\* The task returns, with the ending already on record or written now.  A
\* success is on record as completed; an error may follow any ending, since the
\* call that wrote it may fail in its second half; a blocked task may have
\* no ending at all (a denied approval, a tripped breaker).
Return(v) ==
  /\ phase = "running"
  /\ phase' = "over"
  /\ verdict' = v
  /\ \/ UNCHANGED closing
     \/ /\ closing = <<>>
        /\ \E e \in Endings : closing' = <<e>>
  /\ v = "success" => closing' = <<"TaskCompleted">>
  /\ v = "blocked" => closing' # <<"TaskCompleted">>
  /\ UNCHANGED runs

Collect ==
  /\ phase = "over"
  /\ phase' = "idle"
  /\ UNCHANGED <<runs, closing, verdict>>

Next ==
  \/ Submit
  \/ Execute
  \/ Announce
  \/ \E v \in Verdicts : Return(v)
  \/ Collect

Spec == Init /\ [][Next]_lifecycle
=============================================================================
