------------------------------ MODULE KernelLoop ------------------------------
(***************************************************************************)
(* The execution loop of retina-kernel: Kernel::execute_task_with_config,  *)
(* select_action and execute_action, with the state they share with the    *)
(* operator thread (ExecutionControl) and from task to task (CircuitBreaker*)
(* and ReflexEngine).                                                      *)
(*                                                                         *)
(* One worker thread runs the loop.  `pc` names the place in the code the  *)
(* worker has reached; between two places the operator may request a stop  *)
(* or queue guidance, and every `?` of the code is a place where the call  *)
(* may return an error.  Actions, results and rules are abstract: only     *)
(* their kind matters.  The timeline is kept as its ending events.         *)
(***************************************************************************)
EXTENDS Naturals, Sequences, FiniteSets

CONSTANTS
  Objective,     \* task descriptions, the key of the circuit breaker
  Action,        \* kinds of actions the reasoner may choose
  Command,       \* those that are Action::RunCommand
  Privileged,    \* commands classify_privileged_command recognises
  ExpectsChange, \* actions with expects_change()
  Respond,       \* Action::Respond
  Unsigned,      \* actions repeated_step_signature gives no signature
  Unlearned,     \* actions consolidation never turns into a rule
  Finding,       \* what a result may say, as far as signatures tell apart
  MaxSteps,      \* ExecutionConfig::max_steps
  MaxGuidance    \* bound: /guide messages per task

ASSUME KernelAssumption ==
  /\ Objective # {} /\ Action # {} /\ Finding # {}
  /\ Privileged \subseteq Command
  /\ Command \subseteq Action
  /\ ExpectsChange \subseteq Action
  /\ Respond \in Action \ (Command \cup ExpectsChange)
  /\ Respond \in Unsigned /\ Unsigned \subseteq Unlearned
  /\ Unlearned \subseteq Action
  /\ MaxSteps \in Nat /\ MaxGuidance \in Nat

VARIABLES
  pc,          \* where the worker thread is
  objective,   \* task.description of the current task
  step,        \* TaskLoopState::step_index
  pending,     \* next_reflex_action: {} or {rule}
  act,         \* the current step's action, with its require_approval flag
  result,      \* the shell's answer to the current step
  outcome,     \* Outcome of the current step
  repeated,    \* StepProgress::repeated_without_progress
  seen,        \* TaskLoopState::seen_signatures
  closing,     \* ending events this task has put on the timeline
  verdict,     \* what execute_task_with_config returned
  stopAt,      \* cancel_requested: "no", or where the request met the worker
  slot,        \* operator_guidance: {} or {message number}
  failures,    \* CircuitBreaker::failure_counts
  reflex,      \* what ReflexEngine::check answers for each objective
  runs,        \* history: actions started in this task
  consent,     \* history: the operator approved this very step
  queued,      \* history: guidance messages queued in this task
  told,        \* history: guidance messages the reasoner was given
  fault        \* history: the call whose error ended the task

operator == <<stopAt, slot, queued>>
learned  == <<failures, reflex>>
stepvars == <<act, result, outcome, repeated, consent>>
vars == <<pc, objective, step, pending, stepvars, seen, closing, verdict,
          operator, learned, runs, told, fault>>

Rule == [action : Action, flag : BOOLEAN]

\* Rules are learned from executed actions, so a privileged one carries the
\* require_approval flag that mark_approval_granted set before it ran.
LearnedRule == {r \in Rule : /\ r.action \notin Unlearned
                             /\ r.action \in Privileged => r.flag}

Option(S) == {{}} \cup {{x} : x \in S}

Idle     == {"idle", "returned"}
Planning == {"received", "loop", "select", "planning", "chosen"}
Step     == {"enter", "gate", "prompt", "dispatch", "armed", "launch",
             "executing", "result", "stopcheck", "verify", "learn",
             "consolidate", "judge", "record"}
Place    == Idle \cup Planning \cup Step \cup {"conclude"}
Outcomes == {"none", "success", "failure", "blocked"}
Endings  == {"TaskCompleted", "TaskFailed", "TaskCancelled"}
Faults   == {"none", "memory", "planning", "capture", "approval"}
Result   == [ok : BOOLEAN, cancelled : BOOLEAN, changed : BOOLEAN]

NoResult == [ok |-> FALSE, cancelled |-> FALSE, changed |-> FALSE]

-----------------------------------------------------------------------------
(* Guards and small decisions of the code.                                 *)

\* ExecutionControlHandle::is_cancel_requested, the test of every checkpoint.
StopRequested == stopAt # "no"

\* Variant: trusts the reasoner's flag (see README, "Variants").
RequiresApprovalByFlag(a) == a.action \in Privileged /\ ~a.flag

\* action_requires_approval: the classification of the command decides, not
\* the flag the reasoner sent along.
RequiresApproval(a) == a.action \in Privileged

\* CliShell::execute_controlled refuses an unapproved privileged command.
ShellRefuses(a) == a.action \in Privileged /\ ~a.flag

\* Variant: trips one failure late.
TrippedLate(o) == failures[o] > 3

\* CircuitBreaker::is_tripped, threshold 3.
Tripped(o) == failures[o] >= 3

RecordFailure == failures' = [failures EXCEPT ![objective] = @ + 1]

\* action_failure_reason: the command failed, or an action that should change
\* something changed nothing.
FailureReason(a, r) ==
  \/ a.action \in Command /\ ~r.ok
  \/ a.action \in ExpectsChange /\ ~r.changed

\* Ok(outcome) leaves the loop: the verdict is the step's or the task's.
ReturnVerdict(v) == verdict' = v /\ pc' = "returned"

\* The `?` operator: the error goes to the caller, nothing else is written.
Fail(cause) == ReturnVerdict("error") /\ fault' = cause

Init ==
  /\ pc = "idle"
  /\ objective = CHOOSE o \in Objective : TRUE
  /\ step = 0 /\ pending = {}
  /\ act = [action |-> Respond, flag |-> FALSE]
  /\ result = NoResult /\ outcome = "none" /\ repeated = FALSE
  /\ seen = [s \in Action \X Finding |-> 0]
  /\ closing = <<>> /\ verdict = "none"
  /\ stopAt = "no" /\ slot = {}
  /\ failures = [o \in Objective |-> 0]
  /\ reflex \in [Objective -> Option(LearnedRule)]
  /\ runs = 0 /\ consent = FALSE /\ queued = 0 /\ told = <<>>
  /\ fault = "none"
-----------------------------------------------------------------------------
(* The task: admission and the head of the loop.                           *)

\* A new task: its own control handle and a new TaskLoopState.
Submit(o) ==
  /\ pc = "idle"
  /\ objective' = o
  /\ pc' = "received"
  /\ step' = 0 /\ pending' = {} /\ seen' = [s \in DOMAIN seen |-> 0]
  /\ outcome' = "none" /\ repeated' = FALSE /\ consent' = FALSE
  /\ closing' = <<>> /\ verdict' = "none" /\ fault' = "none"
  /\ stopAt' = "no" /\ slot' = {} /\ queued' = 0
  /\ runs' = 0 /\ told' = <<>>
  /\ UNCHANGED <<act, result, learned>>

\* TaskReceived ... CircuitBreakerChecked: the router of v1 always answers
\* HandleDirectly; the reflex engine is asked, then the breaker.
Admit ==
  /\ pc = "received"
  /\ IF Tripped(objective)
       THEN ReturnVerdict("blocked") /\ UNCHANGED pending
       ELSE pc' = "loop" /\ pending' = reflex[objective] /\ UNCHANGED verdict
  /\ UNCHANGED <<objective, step, stepvars, seen, closing, operator, learned,
                 runs, told, fault>>

\* cancel_outcome returned straight from the loop ("before planning",
\* "before action dispatch").
CancelTask ==
  /\ closing' = Append(closing, "TaskCancelled")
  /\ ReturnVerdict("blocked")

\* Variant: lets one step more than the budget begin.
LoopHeadOverrun ==
  /\ pc = "loop"
  /\ \/ /\ step > MaxSteps
        /\ closing' = Append(closing, "TaskFailed")
        /\ ReturnVerdict("blocked")
     \/ step <= MaxSteps /\ StopRequested /\ CancelTask
     \/ /\ step <= MaxSteps /\ ~StopRequested
        /\ pc' = "select" /\ UNCHANGED <<closing, verdict>>
  /\ outcome' = "none" /\ consent' = FALSE
  /\ UNCHANGED <<objective, step, pending, act, result, repeated, seen,
                 operator, learned, runs, told, fault>>

\* The budget first, then the stop ("before planning"), then a new step.
LoopHead ==
  /\ pc = "loop"
  /\ \/ /\ step >= MaxSteps
        /\ closing' = Append(closing, "TaskFailed")
        /\ ReturnVerdict("blocked")
     \/ step < MaxSteps /\ StopRequested /\ CancelTask
     \/ /\ step < MaxSteps /\ ~StopRequested
        /\ pc' = "select" /\ UNCHANGED <<closing, verdict>>
  /\ outcome' = "none" /\ consent' = FALSE
  /\ UNCHANGED <<objective, step, pending, act, result, repeated, seen,
                 operator, learned, runs, told, fault>>

\* A reflex answers the first step without the reasoner (ReflexSelected).
SelectReflex ==
  /\ pc = "select" /\ pending # {}
  /\ \E r \in pending : act' = r
  /\ pending' = {}
  /\ pc' = "chosen"
  /\ UNCHANGED <<objective, step, result, outcome, repeated, consent, seen,
                 closing, verdict, operator, learned, runs, told, fault>>

\* Variant: reads the guidance without taking it.
AssembleContextPeeking ==
  /\ pc = "select" /\ pending = {}
  /\ \/ slot = {} /\ UNCHANGED told
     \/ \E g \in slot : told' = Append(told, g)
  /\ pc' = "planning"
  /\ UNCHANGED <<objective, step, pending, stepvars, seen, closing, verdict,
                 operator, learned, runs, fault>>

\* take_guidance empties the slot into the context of this planning call.
AssembleContext ==
  /\ pc = "select" /\ pending = {}
  /\ \/ slot = {} /\ UNCHANGED told
     \/ \E g \in slot : told' = Append(told, g)
  /\ slot' = {}
  /\ pc' = "planning"
  /\ UNCHANGED <<objective, step, pending, stepvars, seen, closing, verdict,
                 stopAt, queued, learned, runs, fault>>

\* The reasoner's answer, with any require_approval flag (ReasonerCalled).
ReasonerAnswers(r) ==
  /\ pc = "planning"
  /\ act' = r
  /\ pc' = "chosen"
  /\ UNCHANGED <<objective, step, pending, result, outcome, repeated, consent,
                 seen, closing, verdict, operator, learned, runs, told, fault>>

\* Memory::find_tools or Reasoner::reason returned an error.
PlanningFails ==
  /\ pc = "planning"
  /\ Fail("planning")
  /\ UNCHANGED <<objective, step, pending, stepvars, seen, closing, operator,
                 learned, runs, told>>

CheckBeforeDispatch ==
  /\ pc = "chosen"
  /\ IF StopRequested THEN CancelTask
                      ELSE pc' = "enter" /\ UNCHANGED <<closing, verdict>>
  /\ UNCHANGED <<objective, step, pending, stepvars, seen, operator, learned,
                 runs, told, fault>>
-----------------------------------------------------------------------------
(* execute_action.                                                         *)

\* cancel_outcome inside the step: the ending is written now, the step is
\* still recorded and completed afterwards.
CancelStep ==
  /\ closing' = Append(closing, "TaskCancelled")
  /\ outcome' = "blocked"
  /\ pc' = "record"

\* A checkpoint inside execute_action: the stop wins, or the code goes on.
Checkpoint(next) ==
  \/ StopRequested /\ CancelStep
  \/ ~StopRequested /\ pc' = next /\ UNCHANGED <<closing, outcome>>

\* What no action of execute_action touches before the step is learned from.
InStep == UNCHANGED <<objective, step, pending, repeated, seen, verdict,
                      operator, told, fault>>

\* "before pre-state capture", then capture_state and PreStateCaptured.
CapturePreState ==
  /\ pc = "enter"
  /\ Checkpoint("gate")
  /\ InStep /\ UNCHANGED <<act, result, consent, learned, runs>>

\* capture_state or compare_state returned an error.
CaptureFails ==
  /\ pc \in {"enter", "verify"} /\ ~(pc = "enter" /\ StopRequested)
  /\ Fail("capture")
  /\ UNCHANGED <<objective, step, pending, stepvars, seen, closing, operator,
                 learned, runs, told>>

\* Policy decides whether the operator is asked ("before approval prompt").
ApprovalGate ==
  /\ pc = "gate"
  /\ IF RequiresApproval(act)
       THEN Checkpoint("prompt")
       ELSE pc' = "dispatch" /\ UNCHANGED <<closing, outcome>>
  /\ InStep /\ UNCHANGED <<act, result, consent, learned, runs>>

\* ApprovalResponse::Approved, then mark_approval_granted.
Approve ==
  /\ pc = "prompt"
  /\ act' = [action |-> act.action, flag |-> TRUE]
  /\ consent' = TRUE
  /\ pc' = "dispatch"
  /\ InStep /\ UNCHANGED <<result, outcome, closing, learned, runs>>

\* ApprovalResponse::Denied: the step is blocked, no ending is written.
Deny ==
  /\ pc = "prompt"
  /\ outcome' = "blocked"
  /\ pc' = "record"
  /\ InStep /\ UNCHANGED <<act, result, consent, closing, learned, runs>>

\* A stop while the prompt is open: the operator thread requests the stop,
\* then answers ApprovalResponse::Cancelled.
CancelPrompt ==
  /\ pc = "prompt"
  /\ StopRequested
  /\ CancelStep
  /\ InStep /\ UNCHANGED <<act, result, consent, learned, runs>>

\* The prompt's answer channel is gone.
ApprovalFails ==
  /\ pc = "prompt"
  /\ Fail("approval")
  /\ UNCHANGED <<objective, step, pending, stepvars, seen, closing, operator,
                 learned, runs, told>>

\* ActionDispatched.
Dispatch ==
  /\ pc = "dispatch"
  /\ pc' = "armed"
  /\ InStep /\ UNCHANGED <<act, result, outcome, consent, closing, learned, runs>>

\* Variant: the checkpoint right before the shell call is missing.
CheckBeforeExecutionMissing ==
  /\ pc = "armed"
  /\ pc' = "launch"
  /\ InStep /\ UNCHANGED <<act, result, outcome, consent, closing, learned, runs>>

\* "before action execution".
CheckBeforeExecution ==
  /\ pc = "armed"
  /\ Checkpoint("launch")
  /\ InStep /\ UNCHANGED <<act, result, consent, learned, runs>>

\* execute_controlled begins; a stop may have arrived since the checkpoint.
Execute ==
  /\ pc = "launch"
  /\ pc' = "executing"
  /\ runs' = runs + 1
  /\ InStep /\ UNCHANGED <<act, result, outcome, consent, closing, learned>>

\* execute_controlled returned an error: a failure of the step, counted by the
\* breaker, with no result event and no experience.
ExecutionFails ==
  /\ pc = "executing"
  /\ RecordFailure
  /\ outcome' = "failure"
  /\ pc' = "record"
  /\ InStep /\ UNCHANGED <<act, result, consent, closing, reflex, runs>>

\* execute_controlled returned a result.  Only a command reports failure, and
\* only a command a stop interrupted reports that it was cancelled.
ExecutionReturns(r) ==
  /\ pc = "executing" /\ ~ShellRefuses(act)
  /\ act.action \notin Command => r.ok /\ ~r.cancelled
  /\ r.cancelled => StopRequested /\ ~r.ok
  /\ result' = r
  /\ pc' = "result"
  /\ InStep /\ UNCHANGED <<act, outcome, consent, closing, learned, runs>>

\* ActionResultReceived.
ReceiveResult ==
  /\ pc = "result"
  /\ pc' = "stopcheck"
  /\ InStep /\ UNCHANGED <<act, result, outcome, consent, closing, learned, runs>>

\* Variant: runs an interrupted command again.
CheckAfterResultRetrying ==
  /\ pc = "stopcheck"
  /\ IF result.cancelled
       THEN pc' = "executing" /\ UNCHANGED <<outcome, closing>>
       ELSE Checkpoint("verify")
  /\ InStep /\ UNCHANGED <<act, result, consent, learned, runs>>

\* A cancelled command, or "after action result".
CheckAfterResult ==
  /\ pc = "stopcheck"
  /\ IF result.cancelled THEN CancelStep ELSE Checkpoint("verify")
  /\ InStep /\ UNCHANGED <<act, result, consent, learned, runs>>

\* PostStateCaptured and StateDeltaComputed.
Verify ==
  /\ pc = "verify"
  /\ pc' = "learn"
  /\ InStep /\ UNCHANGED <<act, result, outcome, consent, closing, learned, runs>>

\* Memory::record_experience.
RecordExperience ==
  /\ pc = "learn"
  /\ pc' = "consolidate"
  /\ InStep /\ UNCHANGED <<act, result, outcome, consent, closing, learned, runs>>

\* ExperiencePersisted, update_utility, UtilityScored, consolidate and
\* ConsolidationCompleted.  The reflex engine is given the active rules only
\* when a rule was promoted; which rules are active is the memory's business.
Consolidate ==
  /\ pc = "consolidate"
  /\ pc' = "judge"
  /\ \/ UNCHANGED reflex
     \/ reflex' \in [Objective -> Option(LearnedRule)]
  /\ InStep
  /\ UNCHANGED <<act, result, outcome, consent, closing, failures, runs>>

\* action_failure_reason decides the outcome of the step.
Judge ==
  /\ pc = "judge"
  /\ IF FailureReason(act, result)
       THEN RecordFailure /\ outcome' = "failure"
       ELSE outcome' = "success" /\ UNCHANGED failures
  /\ pc' = "record"
  /\ InStep /\ UNCHANGED <<act, result, consent, closing, reflex, runs>>
-----------------------------------------------------------------------------
(* The rest of the loop's body.                                            *)

\* Variant: compares the count from before this step.
RecordStepStale(f) ==
  /\ pc = "record"
  /\ step' = step + 1
  /\ IF outcome = "success" /\ act.action \notin Unsigned
       THEN /\ seen' = [seen EXCEPT ![<<act.action, f>>] = @ + 1]
            /\ repeated' = (seen[<<act.action, f>>] > 3)
       ELSE repeated' = FALSE /\ UNCHANGED seen
  /\ pc' = "conclude"
  /\ UNCHANGED <<objective, pending, act, result, outcome, consent, closing,
                 verdict, operator, learned, runs, told, fault>>

\* record_step, apply_live_compaction and TaskStepCompleted.  A signature is
\* the action with what its result says; only a success counts.
RecordStep(f) ==
  /\ pc = "record"
  /\ step' = step + 1
  /\ IF outcome = "success" /\ act.action \notin Unsigned
       THEN /\ seen' = [seen EXCEPT ![<<act.action, f>>] = @ + 1]
            /\ repeated' = (seen'[<<act.action, f>>] > 3)
       ELSE repeated' = FALSE /\ UNCHANGED seen
  /\ pc' = "conclude"
  /\ UNCHANGED <<objective, pending, act, result, outcome, consent, closing,
                 verdict, operator, learned, runs, told, fault>>

\* Variant: a blocked step does not end the task.
ConcludeForgiving ==
  /\ pc = "conclude"
  /\ \/ /\ repeated
        /\ closing' = Append(closing, "TaskFailed")
        /\ ReturnVerdict("blocked")
     \/ /\ ~repeated /\ outcome = "success" /\ act.action = Respond
        /\ closing' = Append(closing, "TaskCompleted")
        /\ ReturnVerdict("success")
     \/ /\ ~repeated /\ ~(outcome = "success" /\ act.action = Respond)
        /\ pc' = "loop" /\ UNCHANGED <<closing, verdict>>
  /\ UNCHANGED <<objective, step, pending, stepvars, seen, operator, learned,
                 runs, told, fault>>

\* The three ways the body of the loop ends the task, in the code's order.
Conclude ==
  /\ pc = "conclude"
  /\ \/ /\ repeated
        /\ closing' = Append(closing, "TaskFailed")
        /\ ReturnVerdict("blocked")
     \/ /\ ~repeated /\ outcome = "success" /\ act.action = Respond
        /\ closing' = Append(closing, "TaskCompleted")
        /\ ReturnVerdict("success")
     \/ /\ ~repeated /\ outcome = "blocked"
        /\ ReturnVerdict("blocked") /\ UNCHANGED closing
     \/ /\ ~repeated /\ outcome # "blocked"
        /\ ~(outcome = "success" /\ act.action = Respond)
        /\ pc' = "loop" /\ UNCHANGED <<closing, verdict>>
  /\ UNCHANGED <<objective, step, pending, stepvars, seen, operator, learned,
                 runs, told, fault>>

\* The stop is noticed here: cancel_outcome is called.
Cancels ==
  /\ StopRequested
  /\ \/ pc \in {"chosen", "enter", "prompt", "armed", "stopcheck"}
     \/ pc = "loop" /\ step < MaxSteps
     \/ pc = "gate" /\ RequiresApproval(act)

\* The ending that is appended between this place and the next, if one is.
Due ==
  {e \in Endings :
     \/ /\ e = "TaskFailed"
        /\ (pc = "loop" /\ step >= MaxSteps) \/ (pc = "conclude" /\ repeated)
     \/ e = "TaskCancelled" /\ Cancels
     \/ /\ e = "TaskCompleted"
        /\ pc = "conclude" /\ ~repeated
        /\ outcome = "success" /\ act.action = Respond}

\* A call of Memory stands between this place and the next.
CallsMemory ==
  \/ Due # {}
  \/ pc \in {"received", "planning", "enter", "dispatch", "result", "verify",
            "learn", "consolidate", "record"}
  \/ pc = "select" /\ pending # {}

\* append_timeline_event or another call of Memory returned an error.  An append
\* is two inserts, each committed by itself, into timeline_events and then into
\* state_log: when the second fails, the event is on the timeline and the error
\* is returned all the same.
MemoryFails ==
  /\ CallsMemory
  /\ Fail("memory")
  /\ \/ UNCHANGED closing
     \/ \E e \in Due : closing' = Append(closing, e)
  /\ UNCHANGED <<objective, step, pending, stepvars, seen, operator, learned,
                 runs, told>>

\* The caller collects the verdict; the control handle is dropped.
Collect ==
  /\ pc = "returned"
  /\ pc' = "idle"
  /\ UNCHANGED <<objective, step, pending, stepvars, seen, closing, verdict,
                 operator, learned, runs, told, fault>>
-----------------------------------------------------------------------------
(* The operator thread, through the control handle of the active task.     *)

RequestCancel ==
  /\ pc # "idle" /\ ~StopRequested
  /\ stopAt' = pc
  /\ UNCHANGED <<pc, objective, step, pending, stepvars, seen, closing, verdict,
                 slot, queued, learned, runs, told, fault>>

\* A new message replaces one the worker has not taken yet.
QueueGuidance ==
  /\ pc # "idle" /\ queued < MaxGuidance
  /\ queued' = queued + 1
  /\ slot' = {queued + 1}
  /\ UNCHANGED <<pc, objective, step, pending, stepvars, seen, closing, verdict,
                 stopAt, learned, runs, told, fault>>

Worker ==
  \/ Admit \/ LoopHead \/ SelectReflex \/ AssembleContext
  \/ CheckBeforeDispatch \/ CapturePreState \/ CaptureFails \/ ApprovalGate
  \/ Dispatch \/ CheckBeforeExecution \/ Execute \/ ReceiveResult
  \/ CheckAfterResult \/ Verify \/ RecordExperience \/ Consolidate \/ Judge
  \/ \E f \in Finding : RecordStep(f)
  \/ Conclude \/ MemoryFails \/ Collect

\* What the worker waits for: the reasoner, the operator's answer, the shell.
Reply ==
  \/ \E r \in Rule : ReasonerAnswers(r)
  \/ PlanningFails
  \/ Approve \/ Deny \/ CancelPrompt \/ ApprovalFails
  \/ ExecutionFails
  \/ \E r \in Result : ExecutionReturns(r)

Operator == RequestCancel \/ QueueGuidance

Next == (\E o \in Objective : Submit(o)) \/ Worker \/ Reply \/ Operator

Spec == Init /\ [][Next]_vars

\* The worker thread is never descheduled for good and each of its waits ends:
\* the reasoner answers or fails, the operator answers the prompt, the shell
\* returns.  Nothing is assumed of when the operator stops or guides a task.
FairSpec == Spec /\ WF_vars(Worker) /\ WF_vars(Reply)
-----------------------------------------------------------------------------
(* Correctness.                                                            *)

ControlOK ==
  /\ pc \in Place
  /\ stopAt \in {"no"} \cup Place
  /\ step \in 0..MaxSteps
  /\ runs \in 0..MaxSteps
  /\ outcome \in Outcomes
  /\ verdict \in {"none", "success", "blocked", "error"}
  /\ fault \in Faults
  /\ repeated \in BOOLEAN
  /\ consent \in BOOLEAN

DataOK ==
  /\ objective \in Objective
  /\ pending \in Option(Rule)
  /\ act \in Rule
  /\ result \in Result
  /\ seen \in [Action \X Finding -> Nat]
  /\ closing \in Seq(Endings)
  /\ queued \in 0..MaxGuidance
  /\ slot \in Option(1..MaxGuidance)
  /\ told \in Seq(1..MaxGuidance)
  /\ failures \in [Objective -> Nat]
  /\ reflex \in [Objective -> Option(LearnedRule)]

\* Every variable holds a value of its type; the step counter and the
\* executions of a task stay within its budget.
TypeOK == ControlOK /\ DataOK

\* A delete- or kill-like command reaches the shell only in a step the
\* operator approved, whatever flag the reasoner or a learned rule carries:
\* execute_action prompts by classification, and a reflex replay of a command
\* that was approved once is prompted for again.
PrivilegedNeedsConsent ==
  pc \in {"launch", "executing"} /\ act.action \in Privileged => consent

\* A stop request is honoured at the first checkpoint after it: an execution
\* runs beside a request only if the request came after the checkpoint right
\* before the shell call, a planning call only if it came after the one at the
\* head of the loop, and a task is reported completed only if the request came
\* after the check of the answer's result.
StopHonoured ==
  StopRequested =>
    /\ pc = "executing" => stopAt \in {"launch", "executing"}
    /\ pc = "planning" => stopAt \in {"select", "planning"}
    /\ verdict = "success" =>
         stopAt \in {"verify", "learn", "consolidate", "judge", "record",
                     "conclude", "returned"}

\* The timeline gets at most one ending per task, nothing but the recording of
\* the last step happens once it is written, and the verdict agrees with it: a
\* success is on the timeline as completed, and a completed task is returned as
\* a success unless the store failed behind the event itself.
EndingsAgree ==
  /\ Len(closing) <= 1
  /\ closing # <<>> => pc \in {"record", "conclude", "returned", "idle"}
  /\ pc = "returned" =>
       /\ verdict = "success" => closing = <<"TaskCompleted">>
       /\ closing = <<"TaskCompleted">> => verdict = "success" \/ fault = "memory"

\* A step that tells nothing new is repeated at most three times: its fourth
\* success is the task's last step, across whatever was done in between.
RepeatsBounded ==
  \A s \in DOMAIN seen :
    /\ seen[s] <= 4
    /\ seen[s] = 4 => pc \notin Step \cup Planning

\* The breaker is consulted only when a task starts, so one task may overshoot
\* it, but by no more than its own steps; no later task of that objective adds
\* a failure.  Counts outlive the tasks and are never reset.
BreakerOvershoot == \A o \in Objective : failures[o] <= 2 + MaxSteps

\* Guidance reaches the reasoner in the order it was typed and each message at
\* most once; a message replaced before it was taken is never delivered.
GuidanceInOrder ==
  \A i, j \in DOMAIN told : i < j => told[i] < told[j]

\* Every task that is submitted returns a verdict, stopped or not.
TaskEnds == pc = "received" ~> pc = "returned"

\* The task as its caller sees it.
phase == CASE pc = "idle" -> "idle"
           [] pc = "returned" -> "over"
           [] OTHER -> "running"

Lifecycle == INSTANCE TaskLifecycle WITH
  MaxSteps <- MaxSteps, phase <- phase, runs <- runs,
  closing <- closing, verdict <- verdict

\* The loop implements the abstract life of a task: bounded executions, none
\* after an ending, and a verdict that agrees with the timeline.
ImplementsLifecycle == Lifecycle!Spec
=============================================================================
