-------------------------- MODULE ChatSessionProofs ---------------------------
(***************************************************************************)
(* Proofs about ChatSession, for any number of tasks and typed lines: one  *)
(* worker at a time, no prompt lost or given to another task, and a        *)
(* manifest that is idle when no task is active.                           *)
(***************************************************************************)
EXTENDS ChatSession, SequenceTheorems, TLAPS

\* The manifest is set back before the outcome is sent, unless an update failed.
ManifestReset ==
  ~missed /\ (active = 0 \/ worker[active] \in {"resetting", "sent"}) => manifest = "idle"

IInv == TypeOK /\ PromptKept /\ OneWorker /\ ManifestReset

-----------------------------------------------------------------------------
\* The prompt channel is empty or holds one request.
LEMMA RequestsShape ==
  ASSUME TypeOK PROVE requests = <<>> \/ \E t \in Task : requests = <<t>>
<1>1. requests \in Seq(Task) /\ (Len(requests) = 0 \/ Len(requests) = 1)
  <2>1. requests \in Seq(Task) /\ Len(requests) <= 1
    BY Zenon DEF TypeOK
  <2>2. Len(requests) \in Nat
    BY <2>1, LenProperties
  <2>3. \A n \in Nat : n <= 1 => n = 0 \/ n = 1
    OBVIOUS
  <2>4. QED
    BY <2>1, <2>2, <2>3, Zenon
<1>2. CASE Len(requests) = 0
  BY <1>1, <1>2, EmptySeq
<1>3. CASE Len(requests) = 1
  <2>1. requests[1] \in Task
    BY <1>1, <1>3, ElementOfSeq
  <2>2. requests = <<requests[1]>>
    BY <1>1, <1>3, <2>1, SeqEqual
  <2>3. QED
    BY <2>1, <2>2
<1>4. QED
  BY <1>1, <1>2, <1>3

\* What a line that answers stands for.
LEMMA Answers ==
  /\ DOMAIN AnswerOf = {"yes", "no", "stop"}
  /\ \A l \in DOMAIN AnswerOf : AnswerOf[l] \in Answer
BY DEF AnswerOf, Answer

LEMMA ZeroNoTask == 0 \notin Task
BY DEF Task

\* The line taken leaves a shorter channel.
LEMMA Taken ==
  ASSUME TypeOK, NEW l, Take(l)
  PROVE  lines' \in Seq(Line) /\ Len(lines') <= MaxTyped /\ requests' = requests
BY ChatAssumption DEF TypeOK, Take

LEMMA IInvInit == Init => IInv
<1> SUFFICES ASSUME Init PROVE IInv
  OBVIOUS
<1>1. TypeOK
  <2>1. /\ lines \in Seq(Line) /\ Len(lines) <= MaxTyped
        /\ requests \in Seq(Task) /\ Len(requests) <= 1
    BY EmptySeq, ChatAssumption DEF Init
  <2>2. QED
    BY <2>1 DEF Init, TypeOK
<1>2. \A t \in Task : requests # <<t>> /\ pending # t
  <2>1. \A t \in Task : Len(<<t>>) = 1 /\ Len(<<>>) = 0
    OBVIOUS
  <2>2. QED
    BY <2>1, ZeroNoTask DEF Init
<1>3. PromptKept /\ OneWorker /\ ManifestReset
  BY <1>2 DEF Init, PromptKept, OneWorker, ManifestReset, Live
<1>4. QED
  BY <1>1, <1>3 DEF IInv

-----------------------------------------------------------------------------
\* The session's own steps keep the invariant.
LEMMA SessionKeeps == ASSUME IInv, Session PROVE IInv'
<1> USE ZeroNoTask DEF IInv
<1>1. CASE DrainPrompt
  <2>1. CASE requests = <<>>
    BY <1>1, <2>1 DEF DrainPrompt, TypeOK, PromptKept, OneWorker, ManifestReset
  <2>2. CASE requests # <<>>
    <3>1. PICK t \in Task : requests = <<t>>
      BY <2>2, RequestsShape
    <3>2. Head(requests) = t /\ Tail(requests) = <<>>
      BY <3>1
    <3>3. pending' = t /\ requests' = <<>> /\ main' = "poll"
          /\ UNCHANGED <<lines, active, worker, reply, cancel, manifest, missed>>
      BY <1>1, <2>2, <3>2 DEF DrainPrompt
    <3>4. TypeOK' /\ OneWorker' /\ ManifestReset'
      BY <3>3 DEF TypeOK, OneWorker, ManifestReset
    <3>5. active = t /\ worker[t] = "asking" /\ reply[t] = "none"
      BY <3>1 DEF PromptKept
    <3>6. PromptKept'
      BY <3>1, <3>3, <3>5 DEF PromptKept, OneWorker, Live
    <3>7. QED
      BY <3>4, <3>6
  <2>3. QED
    BY <2>1, <2>2
<1>2. CASE PollCompletion
  <2>1. CASE active # 0 /\ worker[active] = "sent"
    <3>1. active' = 0 /\ pending' = 0 /\ main' = "input"
          /\ UNCHANGED <<lines, requests, worker, reply, cancel, manifest, missed>>
      BY <1>2, <2>1 DEF PollCompletion
    <3>2. active \in Task /\ \A t \in Task : worker[t] \notin Live
      BY <2>1 DEF OneWorker, TypeOK, Live
    <3>3. requests = <<>>
      BY <2>1, RequestsShape DEF PromptKept
    <3>4. TypeOK' /\ OneWorker' /\ ManifestReset'
      BY <2>1, <3>1, <3>2 DEF TypeOK, OneWorker, ManifestReset
    <3>5. PromptKept'
      BY <3>1, <3>2, <3>3 DEF PromptKept, Live
    <3>6. QED
      BY <3>4, <3>5
  <2>2. CASE ~(active # 0 /\ worker[active] = "sent")
    BY <1>2, <2>2 DEF PollCompletion, TypeOK, PromptKept, OneWorker, ManifestReset
  <2>3. QED
    BY <2>1, <2>2
<1>3. CASE Timeout
  BY <1>3 DEF Timeout, TypeOK, PromptKept, OneWorker, ManifestReset
<1>4. CASE Ignore \/ Guide \/ SpawnBeyondBound \/ Exit
  <2>1. /\ lines' \in Seq(Line) /\ Len(lines') <= MaxTyped /\ requests' = requests
        /\ UNCHANGED <<active, pending, reply, cancel, worker, manifest, missed>>
        /\ main' \in {"drain", "ended"}
    BY <1>4, Taken DEF Ignore, Guide, SpawnBeyondBound, Exit, threads
  <2>2. QED
    BY <2>1 DEF TypeOK, PromptKept, OneWorker, ManifestReset
<1>5. CASE Stop
  <2>1. /\ lines' \in Seq(Line) /\ Len(lines') <= MaxTyped /\ requests' = requests
        /\ cancel' \in [Task -> BOOLEAN]
        /\ UNCHANGED <<active, pending, reply, worker, manifest, missed>>
        /\ main' = "drain"
    BY <1>5, Taken DEF Stop, threads, TypeOK
  <2>2. QED
    BY <2>1 DEF TypeOK, PromptKept, OneWorker, ManifestReset
<1>6. CASE Spawn
  <2>1. PICK t \in Task : /\ worker[t] = "none"
                          /\ worker' = [worker EXCEPT ![t] = "starting"]
                          /\ active' = t
    BY <1>6 DEF Spawn
  <2>2. /\ lines' \in Seq(Line) /\ Len(lines') <= MaxTyped /\ requests' = requests
        /\ pending = 0 /\ active = 0 /\ main' = "drain"
        /\ UNCHANGED <<pending, reply, cancel, manifest, missed>>
    BY <1>6, Taken DEF Spawn
  <2>3. requests = <<>> /\ \A u \in Task : worker[u] \notin Live
    BY <2>2, RequestsShape DEF PromptKept, OneWorker
  <2>4. TypeOK' /\ OneWorker' /\ ManifestReset'
    BY <2>1, <2>2, <2>3 DEF TypeOK, OneWorker, ManifestReset, Live
  <2>5. PromptKept'
    BY <2>1, <2>2, <2>3 DEF PromptKept, Live, TypeOK
  <2>6. QED
    BY <2>4, <2>5
<1>7. CASE AnswerPrompt
  <2>1. PICK l \in Line : /\ Take(l)
                          /\ IF l \in DOMAIN AnswerOf
                             THEN /\ reply' = [reply EXCEPT ![pending] = AnswerOf[l]]
                                  /\ cancel' = [cancel EXCEPT ![active] = @ \/ l = "stop"]
                                  /\ pending' = 0
                             ELSE UNCHANGED <<reply, cancel, pending>>
    BY <1>7 DEF AnswerPrompt
  <2>2. /\ lines' \in Seq(Line) /\ Len(lines') <= MaxTyped /\ requests' = requests
        /\ pending # 0 /\ main' = "drain" /\ UNCHANGED <<active, worker, manifest, missed>>
    BY <1>7, <2>1, Taken DEF AnswerPrompt, threads
  <2>3. CASE l \in DOMAIN AnswerOf
    <3>1. AnswerOf[l] \in Answer
      BY <2>3, Answers
    <3>2. cancel' \in [Task -> BOOLEAN]
      BY <2>1, <2>3, ZenonT(30) DEF TypeOK
    <3>3. /\ reply' = [reply EXCEPT ![pending] = AnswerOf[l]]
          /\ pending' = 0
      BY <2>1, <2>3
    <3>4. AnswerOf[l] # "none"
      BY <3>1 DEF Answer
    <3>5. TypeOK' /\ OneWorker' /\ ManifestReset'
      BY <2>2, <3>1, <3>2, <3>3 DEF TypeOK, OneWorker, ManifestReset
    <3>6. PromptKept'
      BY <2>2, <3>3, <3>4 DEF PromptKept, OneWorker, TypeOK, Live
    <3>7. QED
      BY <3>5, <3>6
  <2>4. CASE l \notin DOMAIN AnswerOf
    BY <2>1, <2>2, <2>4 DEF TypeOK, PromptKept, OneWorker, ManifestReset
  <2>5. QED
    BY <2>3, <2>4
<1>8. QED
  BY <1>1, <1>2, <1>3, <1>4, <1>5, <1>6, <1>7 DEF Session

-----------------------------------------------------------------------------
\* The steps of a worker keep it.
LEMMA WorkerKeeps == ASSUME IInv, NEW t \in Task, Worker(t) PROVE IInv'
<1> USE ZeroNoTask DEF IInv
<1>1. CASE WorkerStarts(t)
  <2>1. active = t
    BY <1>1 DEF WorkerStarts, OneWorker, Live
  <2>2. QED
    BY <1>1, <2>1 DEF WorkerStarts, UpdateManifest, TypeOK, PromptKept, OneWorker,
                      ManifestReset, Live
<1>2. CASE Ask(t)
  <2>1. active = t /\ worker[t] = "busy"
    BY <1>2 DEF Ask, OneWorker, Live
  <2>2. requests = <<>> /\ pending = 0
    BY <2>1, RequestsShape DEF PromptKept, TypeOK
  <2>3. /\ requests' = <<t>> /\ worker' = [worker EXCEPT ![t] = "asking"]
        /\ reply' = [reply EXCEPT ![t] = "none"]
        /\ UNCHANGED <<main, lines, active, pending, cancel, manifest, missed>>
    BY <1>2, <2>2 DEF Ask
  <2>4. TypeOK'
    BY <2>3 DEF TypeOK, Live
  <2>5. OneWorker' /\ ManifestReset'
    BY <2>1, <2>3 DEF OneWorker, ManifestReset, TypeOK, Live
  <2>6. PromptKept'
    BY <2>1, <2>2, <2>3 DEF PromptKept, OneWorker, TypeOK, Live
  <2>7. QED
    BY <2>4, <2>5, <2>6
<1>3. CASE Resume(t)
  <2>1. active = t
    BY <1>3 DEF Resume, OneWorker, Live
  <2>2. requests # <<t>> /\ pending # t
    BY <1>3 DEF Resume, PromptKept
  <2>3. PICK w \in {"busy", "finishing"} :
           /\ worker' = [worker EXCEPT ![t] = w]
           /\ UNCHANGED <<main, lines, active, pending, requests, reply, cancel, manifest, missed>>
    BY <1>3 DEF Resume
  <2>4. TypeOK' /\ OneWorker' /\ ManifestReset'
    BY <2>1, <2>3 DEF TypeOK, OneWorker, ManifestReset, Live
  <2>5. PromptKept'
    BY <2>2, <2>3 DEF PromptKept, TypeOK
  <2>6. QED
    BY <2>4, <2>5
<1>4. CASE Finish(t)
  <2>1. active = t
    BY <1>4 DEF Finish, OneWorker, Live
  <2>2. QED
    BY <1>4, <2>1 DEF Finish, TypeOK, PromptKept, OneWorker, ManifestReset, Live
<1>5. CASE ResetManifest(t)
  <2>1. active = t
    BY <1>5 DEF ResetManifest, OneWorker, Live
  <2>2. QED
    BY <1>5, <2>1 DEF ResetManifest, UpdateManifest, TypeOK, PromptKept, OneWorker,
                      ManifestReset, Live
<1>6. CASE SendOutcome(t)
  <2>1. active = t
    BY <1>6 DEF SendOutcome, OneWorker, Live
  <2>2. QED
    BY <1>6, <2>1 DEF SendOutcome, TypeOK, PromptKept, OneWorker, ManifestReset, Live
<1>7. QED
  BY <1>1, <1>2, <1>3, <1>4, <1>5, <1>6 DEF Worker

\* So every reachable state satisfies it.
LEMMA IInvAlways == Spec => []IInv
<1>1. ASSUME IInv, [Next]_vars PROVE IInv'
  <2>1. CASE UNCHANGED vars
    BY <1>1, <2>1 DEF vars, IInv, TypeOK, PromptKept, OneWorker, ManifestReset
  <2>2. CASE SessionFails
    BY <1>1, <2>2 DEF SessionFails, threads, IInv, TypeOK, PromptKept, OneWorker, ManifestReset
  <2>3. ASSUME NEW l \in Line, Type(l) PROVE IInv'
    <3>1. lines' \in Seq(Line) /\ Len(lines') <= MaxTyped
      BY <1>1, <2>3, ChatAssumption DEF Type, IInv, TypeOK
    <3>2. QED
      BY <1>1, <2>3, <3>1 DEF Type, IInv, TypeOK, PromptKept, OneWorker, ManifestReset
  <2>4. QED
    BY <1>1, <2>1, <2>2, <2>3, SessionKeeps, WorkerKeeps DEF Next
<1>2. QED
  BY IInvInit, <1>1, PTL DEF Spec

-----------------------------------------------------------------------------
\* Type correctness of chat.rs's session state, and at most one request in the
\* prompt channel.
THEOREM SessionTyped == Spec => []TypeOK
BY IInvAlways, PTL DEF IInv

\* No prompt of a worker is lost between the channel and the session, and none
\* is held for a task that does not wait (poll_prompt_request).
THEOREM PromptsKept == Spec => []PromptKept
BY IInvAlways, PTL DEF IInv

\* One thread at a time runs a task (active_task is checked before a spawn).
THEOREM OneWorkerAtATime == Spec => []OneWorker
BY IInvAlways, PTL DEF IInv

\* The manifest is idle when the end of a task is shown, unless an update failed.
THEOREM ManifestIdle == Spec => []IdleWhenDone
<1>1. IInv => IdleWhenDone
  BY DEF IInv, ManifestReset, IdleWhenDone
<1>2. QED
  BY <1>1, IInvAlways, PTL
=============================================================================
