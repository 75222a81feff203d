----------------------------- MODULE ChatSession ------------------------------
(***************************************************************************)
(* `retina chat`: the session thread, the worker thread of each task, the  *)
(* operator's lines and the approval prompts between them.                 *)
(*                                                                         *)
(* The session loops: drain a prompt request, poll the active task's       *)
(* outcome, handle one line.  A worker marks the manifest running, runs    *)
(* the task, asks for approval when it must and waits for the answer,      *)
(* marks the manifest idle and sends the outcome.  When the session ends   *)
(* the process ends, and every worker with it, wherever it is.             *)
(*                                                                         *)
(* What a task does between two prompts is KernelLoop's.                   *)
(***************************************************************************)
EXTENDS Naturals, Sequences

CONSTANTS
  MaxTasks,   \* bound: tasks of one session
  MaxTyped    \* bound: lines typed and not yet handled

ASSUME ChatAssumption == MaxTasks \in Nat \ {0} /\ MaxTyped \in Nat \ {0}

VARIABLES
  main,      \* where the session loop is, or "ended"
  lines,     \* lines in the input channel
  active,    \* active_task, 0 for None
  pending,   \* the task whose prompt the session holds, 0 for None
  requests,  \* prompt requests in the prompt channel
  worker,    \* where each task's thread is
  reply,     \* the answer in each prompt's reply channel
  cancel,    \* cancel_requested of each task's control
  manifest,  \* the status in the manifest: "idle" or "running"
  missed     \* an update of the manifest failed since the last that worked

vars == <<main, lines, active, pending, requests, worker, reply, cancel, manifest, missed>>
threads == <<worker, manifest, missed>>

Task == 1..MaxTasks

\* A text, an answer, the commands; "look" stands for /help, /debug, /timeline
\* and /memory, which change nothing here.
Word == {"text", "yes", "no"}
Line == Word \cup {"blank", "stop", "guide", "look", "exit"}

Answer == {"approved", "denied", "cancelled"}
Live   == {"starting", "busy", "asking", "finishing", "resetting"}

Open == main # "ended"

Init ==
  /\ main = "drain" /\ lines = <<>>
  /\ active = 0 /\ pending = 0 /\ requests = <<>>
  /\ worker = [t \in Task |-> "none"]
  /\ reply = [t \in Task |-> "none"]
  /\ cancel = [t \in Task |-> FALSE]
  /\ manifest = "idle" /\ missed = FALSE

-----------------------------------------------------------------------------
(* The operator and the session loop.                                      *)

Type(l) ==
  /\ Open /\ Len(lines) < MaxTyped
  /\ lines' = Append(lines, l)
  /\ UNCHANGED <<main, active, pending, requests, worker, reply, cancel, manifest, missed>>

DrainPrompt ==
  /\ main = "drain"
  /\ IF requests = <<>> THEN UNCHANGED <<pending, requests>>
     ELSE pending' = Head(requests) /\ requests' = Tail(requests)
  /\ main' = "poll"
  /\ UNCHANGED <<lines, active, worker, reply, cancel, manifest, missed>>

\* Variant: the outcome is looked at only when no line waits.
PollUnhurried ==
  /\ main = "poll"
  /\ IF active # 0 /\ lines = <<>> /\ worker[active] = "sent"
     THEN active' = 0 /\ pending' = 0
     ELSE UNCHANGED <<active, pending>>
  /\ main' = "input"
  /\ UNCHANGED <<lines, requests, worker, reply, cancel, manifest, missed>>

PollCompletion ==
  /\ main = "poll"
  /\ IF active # 0 /\ worker[active] = "sent"
     THEN active' = 0 /\ pending' = 0
     ELSE UNCHANGED <<active, pending>>
  /\ main' = "input"
  /\ UNCHANGED <<lines, requests, worker, reply, cancel, manifest, missed>>

\* recv_timeout: nothing was typed for 100 ms.
Timeout ==
  /\ main = "input" /\ lines = <<>>
  /\ main' = "drain"
  /\ UNCHANGED <<lines, active, pending, requests, worker, reply, cancel, manifest, missed>>

\* The part every handled line shares.
Take(l) ==
  /\ main = "input" /\ lines # <<>> /\ Head(lines) = l
  /\ lines' = Tail(lines)
  /\ requests' = requests

\* A blank line is dropped before the prompt is looked at; /help and the like
\* print; a word while a task runs is refused.
Ignore ==
  /\ \E l \in Line :
       /\ Take(l)
       /\ \/ l = "blank"
          \/ pending = 0 /\ l = "look"
          \/ pending = 0 /\ l \in Word /\ active # 0
          \/ pending = 0 /\ l \in {"stop", "guide"} /\ active = 0
  /\ main' = "drain"
  /\ UNCHANGED <<active, pending, reply, cancel>> /\ UNCHANGED threads

\* Guidance is the control handle's, see KernelLoop.
Guide ==
  /\ Take("guide") /\ pending = 0 /\ active # 0
  /\ main' = "drain"
  /\ UNCHANGED <<active, pending, reply, cancel>> /\ UNCHANGED threads

Stop ==
  /\ Take("stop") /\ pending = 0 /\ active # 0
  /\ cancel' = [cancel EXCEPT ![active] = TRUE]
  /\ main' = "drain"
  /\ UNCHANGED <<active, pending, reply>> /\ UNCHANGED threads

\* Variant: the check for a running task is missing.
SpawnUnchecked ==
  /\ \E l \in Word : Take(l)
  /\ pending = 0
  /\ \E t \in Task :
       /\ worker[t] = "none" /\ \A u \in 1..(t - 1) : worker[u] # "none"
       /\ worker' = [worker EXCEPT ![t] = "starting"]
       /\ active' = t
  /\ main' = "drain"
  /\ UNCHANGED <<pending, reply, cancel, manifest, missed>>

\* Any other line is a task: its thread starts.
Spawn ==
  /\ \E l \in Word : Take(l)
  /\ pending = 0 /\ active = 0
  /\ \E t \in Task :
       /\ worker[t] = "none" /\ \A u \in 1..(t - 1) : worker[u] # "none"
       /\ worker' = [worker EXCEPT ![t] = "starting"]
       /\ active' = t
  /\ main' = "drain"
  /\ UNCHANGED <<pending, reply, cancel, manifest, missed>>

\* The bound: once every task was used a word is dropped.
SpawnBeyondBound ==
  /\ \E l \in Word : Take(l)
  /\ pending = 0 /\ active = 0 /\ \A t \in Task : worker[t] # "none"
  /\ main' = "drain"
  /\ UNCHANGED <<active, pending, reply, cancel>> /\ UNCHANGED threads

AnswerOf == [yes |-> "approved", no |-> "denied", stop |-> "cancelled"]

\* Variant: a line that is no answer loses the prompt.
AnswerPromptOnce ==
  /\ pending # 0
  /\ \E l \in Line \ {"blank"} :
       /\ Take(l)
       /\ IF l \in DOMAIN AnswerOf
          THEN /\ reply' = [reply EXCEPT ![pending] = AnswerOf[l]]
               /\ cancel' = [cancel EXCEPT ![active] = @ \/ l = "stop"]
          ELSE UNCHANGED <<reply, cancel>>
       /\ pending' = 0
  /\ main' = "drain"
  /\ UNCHANGED active /\ UNCHANGED threads

\* Variant: a stop is no answer.
AnswerPromptUnstoppable ==
  /\ pending # 0
  /\ \E l \in Line \ {"blank"} :
       /\ Take(l)
       /\ IF l \in {"yes", "no"}
          THEN pending' = 0 /\ reply' = [reply EXCEPT ![pending] = AnswerOf[l]]
          ELSE UNCHANGED <<pending, reply>>
  /\ main' = "drain"
  /\ UNCHANGED <<active, cancel>> /\ UNCHANGED threads

\* handle_prompt_input: y, n and /s answer, and /s also stops the task; any
\* other line, /exit among them, leaves the prompt standing.
AnswerPrompt ==
  /\ pending # 0
  /\ \E l \in Line \ {"blank"} :
       /\ Take(l)
       /\ IF l \in DOMAIN AnswerOf
          THEN /\ reply' = [reply EXCEPT ![pending] = AnswerOf[l]]
               /\ cancel' = [cancel EXCEPT ![active] = @ \/ l = "stop"]
               /\ pending' = 0
          ELSE UNCHANGED <<reply, cancel, pending>>
  /\ main' = "drain"
  /\ UNCHANGED active /\ UNCHANGED threads

\* /exit without a prompt.
Exit ==
  /\ Take("exit") /\ pending = 0
  /\ main' = "ended"
  /\ UNCHANGED <<active, pending, reply, cancel>> /\ UNCHANGED threads

\* An event of the session that cannot be stored ends it with an error: when a
\* prompt is drained, when a line answers, guides or asks for the timeline.
SessionFails ==
  /\ \/ main = "drain" /\ requests # <<>>
     \/ /\ main = "input" /\ lines # <<>>
        /\ \/ pending # 0 /\ Head(lines) \in DOMAIN AnswerOf
           \/ pending = 0 /\ Head(lines) = "guide" /\ active # 0
           \/ pending = 0 /\ Head(lines) = "look"
  /\ main' = "ended"
  /\ UNCHANGED <<lines, active, pending, requests, reply, cancel>> /\ UNCHANGED threads

-----------------------------------------------------------------------------
(* The worker thread.                                                      *)

\* update_root_manifest_state, whose error the worker drops.
UpdateManifest(status) ==
  \/ manifest' = status /\ missed' = FALSE
  \/ UNCHANGED manifest /\ missed' = TRUE

WorkerStarts(t) ==
  /\ Open /\ worker[t] = "starting"
  /\ UpdateManifest("running")
  /\ worker' = [worker EXCEPT ![t] = "busy"]
  /\ UNCHANGED <<main, lines, active, pending, requests, reply, cancel>>

\* PromptBridge::request: a fresh reply channel, then the request.
Ask(t) ==
  /\ Open /\ worker[t] = "busy"
  /\ worker' = [worker EXCEPT ![t] = "asking"]
  /\ reply' = [reply EXCEPT ![t] = "none"]
  /\ requests' = Append(requests, t)
  /\ UNCHANGED <<main, lines, active, pending, cancel, manifest, missed>>

\* The answer arrives: an approved action runs, any other answer ends the task.
Resume(t) ==
  /\ Open /\ worker[t] = "asking" /\ reply[t] # "none"
  /\ worker' = [worker EXCEPT ![t] = IF reply[t] = "approved" THEN "busy" ELSE "finishing"]
  /\ UNCHANGED <<main, lines, active, pending, requests, reply, cancel, manifest, missed>>

\* The kernel returns or panics.
Finish(t) ==
  /\ Open /\ worker[t] = "busy"
  /\ worker' = [worker EXCEPT ![t] = "finishing"]
  /\ UNCHANGED <<main, lines, active, pending, requests, reply, cancel, manifest, missed>>

ResetManifest(t) ==
  /\ Open /\ worker[t] = "finishing"
  /\ UpdateManifest("idle")
  /\ worker' = [worker EXCEPT ![t] = "resetting"]
  /\ UNCHANGED <<main, lines, active, pending, requests, reply, cancel>>

\* Variant: the outcome overtakes the manifest.
SendOutcomeEarly(t) ==
  /\ Open /\ worker[t] \in {"finishing", "resetting"}
  /\ worker' = [worker EXCEPT ![t] = "sent"]
  /\ UNCHANGED <<main, lines, active, pending, requests, reply, cancel, manifest, missed>>

SendOutcome(t) ==
  /\ Open /\ worker[t] = "resetting"
  /\ worker' = [worker EXCEPT ![t] = "sent"]
  /\ UNCHANGED <<main, lines, active, pending, requests, reply, cancel, manifest, missed>>

-----------------------------------------------------------------------------
Session ==
  \/ DrainPrompt \/ PollCompletion \/ Timeout
  \/ Ignore \/ Guide \/ Stop \/ Spawn \/ SpawnBeyondBound \/ AnswerPrompt \/ Exit

Worker(t) ==
  WorkerStarts(t) \/ Ask(t) \/ Resume(t) \/ Finish(t) \/ ResetManifest(t) \/ SendOutcome(t)

Next ==
  \/ Session \/ SessionFails
  \/ \E l \in Line : Type(l)
  \/ \E t \in Task : Worker(t)

Spec == Init /\ [][Next]_vars

\* The session loop never waits longer than 100 ms, a thread that can run does.
\* Nothing makes the operator type, or a task end or ask.
FairSpec ==
  /\ Spec /\ WF_vars(Session)
  /\ \A t \in Task : WF_vars(WorkerStarts(t) \/ Resume(t) \/ ResetManifest(t) \/ SendOutcome(t))

-----------------------------------------------------------------------------
(* Properties.                                                             *)

\* Type correctness, and at most one request in the prompt channel.
TypeOK ==
  /\ main \in {"drain", "poll", "input", "ended"}
  /\ lines \in Seq(Line) /\ Len(lines) <= MaxTyped
  /\ active \in {0} \cup Task /\ pending \in {0} \cup Task
  /\ requests \in Seq(Task) /\ Len(requests) <= 1
  /\ worker \in [Task -> Live \cup {"none", "sent"}]
  /\ reply \in [Task -> Answer \cup {"none"}]
  /\ cancel \in [Task -> BOOLEAN]
  /\ manifest \in {"idle", "running"} /\ missed \in BOOLEAN

\* A prompt is never lost and never another task's: while a worker waits for an
\* answer its request is in the channel or in the session's hands, in exactly
\* one of them, and the session holds no prompt nobody waits for.
PromptKept ==
  /\ \A t \in Task : worker[t] = "asking" /\ reply[t] = "none" =>
       (requests = <<t>>) # (pending = t)
  /\ \A t \in Task : requests = <<t>> \/ pending = t =>
       active = t /\ worker[t] = "asking" /\ reply[t] = "none"

\* One task at a time: a thread that still runs is the active task's, so two
\* tasks never share the kernel's reflexes, breaker and manifest.
OneWorker == \A t \in Task : worker[t] \in Live => active = t

\* The manifest is idle again when a task's end is shown: unless an update
\* failed, no task is active only when the manifest says so.
IdleWhenDone == active = 0 /\ ~missed => manifest = "idle"

\* `/s` stops the current task (testing.md): a stop that was typed reaches the
\* task's control, prompt or not, unless the task or the session ends first.
StopHeard ==
  \A t \in Task :
    (active = t /\ \E i \in DOMAIN lines : lines[i] = "stop")
      ~> (cancel[t] \/ active # t \/ ~Open)

\* The outcome a worker sent is shown, however fast the operator types.
OutcomeShown ==
  \A t \in Task : (worker[t] = "sent" /\ active = t) ~> (active # t \/ ~Open)
=============================================================================
