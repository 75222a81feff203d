--------------------------- MODULE KernelLoopProofs ---------------------------
(***************************************************************************)
(* Proofs about KernelLoop.  Each safety property is proved from an        *)
(* inductive invariant of its own (the ...Inv definitions), by one step    *)
(* per action of Next; the refinement of TaskLifecycle rests on three of   *)
(* them.  The constants are only those KernelAssumption describes.         *)
(***************************************************************************)
EXTENDS KernelLoop, TLAPS

\* Writing an ending leaves the timeline a sequence of endings.
LEMMA AppendEnding ==
  \A s \in Seq(Endings) : /\ Append(s, "TaskCompleted") \in Seq(Endings)
                          /\ Append(s, "TaskFailed") \in Seq(Endings)
                          /\ Append(s, "TaskCancelled") \in Seq(Endings)
<1>1. /\ "TaskCompleted" \in Endings
      /\ "TaskFailed" \in Endings
      /\ "TaskCancelled" \in Endings
  BY DEF Endings
<1>2. QED
  BY <1>1

\* An ending is due only at the loop's head, at a checkpoint or at its end.
LEMMA DueWhere ==
  ASSUME NEW e \in Due
  PROVE  /\ e \in Endings
         /\ pc \in {"loop", "conclude", "chosen", "enter", "prompt", "armed",
                   "stopcheck", "gate"}
         /\ pc = "conclude" => outcome = "success" \/ repeated
BY DEF Due, Cancels

\* A failing call of Memory writes the ending that was due, or nothing.
LEMMA EndingDue ==
  ASSUME MemoryFails
  PROVE  closing' = closing \/ \E e \in Endings : closing' = Append(closing, e)
BY DueWhere DEF MemoryFails

\* No step puts a value outside its type into the data of the loop (the action,
\* the result, the signatures, the guidance, the breaker, the rules).
LEMMA DataInductive == ASSUME DataOK, [Next]_vars PROVE DataOK'
<1> USE KernelAssumption
<1>1. CASE \E o \in Objective : Submit(o)
  BY <1>1 DEF Submit, Option, DataOK, stepvars, operator, learned
<1>2. CASE Admit
  <2>1. reflex[objective] \in Option(Rule) /\ pending \in Option(Rule)
    BY DEF Option, LearnedRule, DataOK
  <2>2. pending' \in Option(Rule)
    BY <1>2, <2>1 DEF Admit
  <2>3. QED
    BY <1>2, <2>2 DEF Admit, DataOK, stepvars, operator, learned
<1>3. CASE LoopHead
  BY <1>3, AppendEnding DEF LoopHead, CancelTask, ReturnVerdict, DataOK,
    stepvars, operator, learned
<1>4. CASE SelectReflex
  BY <1>4 DEF SelectReflex, Option, DataOK, stepvars, operator, learned
<1>5. CASE AssembleContext
  <2>1. \A g \in slot : g \in 1..MaxGuidance
    BY DEF DataOK, Option
  <2>2. told' \in Seq(1..MaxGuidance)
    <3>1. CASE told' = told
      BY <3>1 DEF DataOK
    <3>2. CASE \E g \in slot : told' = Append(told, g)
      <4> PICK g \in slot : told' = Append(told, g)
        BY <3>2
      <4>1. g \in 1..MaxGuidance
        BY <2>1
      <4> HIDE <2>1
      <4>2. QED
        BY <4>1 DEF DataOK
    <3>3. QED
      BY <1>5, <3>1, <3>2 DEF AssembleContext
  <2>3. slot' \in Option(1..MaxGuidance)
    BY <1>5 DEF AssembleContext, Option
  <2>4. QED
    BY <1>5, <2>2, <2>3 DEF AssembleContext, DataOK, stepvars, learned
<1>6. CASE CheckBeforeDispatch
  BY <1>6, AppendEnding DEF CheckBeforeDispatch, CancelTask, ReturnVerdict,
    DataOK, stepvars, operator, learned
<1>7. CASE CapturePreState
  BY <1>7, AppendEnding DEF CapturePreState, Checkpoint, CancelStep, InStep,
    DataOK, stepvars, operator, learned
<1>8. CASE CaptureFails
  BY <1>8 DEF CaptureFails, Fail, ReturnVerdict, DataOK, stepvars, operator,
    learned
<1>9. CASE ApprovalGate
  BY <1>9, AppendEnding DEF ApprovalGate, Checkpoint, CancelStep, InStep,
    DataOK, stepvars, operator, learned
<1>10. CASE Dispatch
  BY <1>10 DEF Dispatch, InStep, DataOK, stepvars, operator, learned
<1>11. CASE CheckBeforeExecution
  BY <1>11, AppendEnding DEF CheckBeforeExecution, Checkpoint, CancelStep,
    InStep, DataOK, stepvars, operator, learned
<1>12. CASE Execute
  BY <1>12 DEF Execute, InStep, DataOK, stepvars, operator, learned
<1>13. CASE ReceiveResult
  BY <1>13 DEF ReceiveResult, InStep, DataOK, stepvars, operator, learned
<1>14. CASE CheckAfterResult
  BY <1>14, AppendEnding DEF CheckAfterResult, Checkpoint, CancelStep, InStep,
    DataOK, stepvars, operator, learned
<1>15. CASE Verify
  BY <1>15 DEF Verify, InStep, DataOK, stepvars, operator, learned
<1>16. CASE RecordExperience
  BY <1>16 DEF RecordExperience, InStep, DataOK, stepvars, operator, learned
<1>17. CASE Consolidate
  BY <1>17 DEF Consolidate, InStep, DataOK, stepvars, operator, learned
<1>18. CASE Judge
  BY <1>18 DEF Judge, InStep, RecordFailure, DataOK, stepvars, operator,
    learned
<1>19. CASE \E f \in Finding : RecordStep(f)
  <2> PICK f \in Finding : RecordStep(f)
    BY <1>19
  <2>1. <<act.action, f>> \in Action \X Finding
    BY DEF DataOK, Rule
  <2>2. seen' \in [Action \X Finding -> Nat]
    <3> DEFINE s == <<act.action, f>>
    <3>1. seen' = seen \/ seen' = [seen EXCEPT ![s] = @ + 1]
      BY DEF RecordStep
    <3>2. s \in Action \X Finding
      BY <2>1
    <3> HIDE DEF s
    <3>3. QED
      BY <3>1, <3>2 DEF DataOK
  <2>3. QED
    BY <2>2 DEF RecordStep, DataOK, operator, learned
<1>20. CASE Conclude
  BY <1>20, AppendEnding DEF Conclude, ReturnVerdict, DataOK, stepvars,
    operator, learned
<1>21. CASE MemoryFails
  BY <1>21, EndingDue, AppendEnding
    DEF MemoryFails, Fail, ReturnVerdict, Endings, DataOK, stepvars, operator,
    learned
<1>22. CASE Collect
  BY <1>22 DEF Collect, DataOK, stepvars, operator, learned
<1>23. CASE \E r \in Rule : ReasonerAnswers(r)
  BY <1>23 DEF ReasonerAnswers, DataOK, stepvars, operator, learned
<1>24. CASE PlanningFails
  BY <1>24 DEF PlanningFails, Fail, ReturnVerdict, DataOK, stepvars, operator,
    learned
<1>25. CASE Approve
  BY <1>25 DEF Approve, InStep, Rule, DataOK, stepvars, operator, learned
<1>26. CASE Deny
  BY <1>26 DEF Deny, InStep, DataOK, stepvars, operator, learned
<1>27. CASE CancelPrompt
  BY <1>27, AppendEnding DEF CancelPrompt, CancelStep, InStep, DataOK,
    stepvars, operator, learned
<1>28. CASE ApprovalFails
  BY <1>28 DEF ApprovalFails, Fail, ReturnVerdict, DataOK, stepvars, operator,
    learned
<1>29. CASE ExecutionFails
  BY <1>29 DEF ExecutionFails, InStep, RecordFailure, DataOK, stepvars,
    operator, learned
<1>30. CASE \E r \in Result : ExecutionReturns(r)
  BY <1>30 DEF ExecutionReturns, InStep, DataOK, stepvars, operator, learned
<1>31. CASE RequestCancel
  BY <1>31 DEF RequestCancel, DataOK, stepvars, operator, learned
<1>32. CASE QueueGuidance
  <2>1. queued + 1 \in 1..MaxGuidance
    BY <1>32 DEF QueueGuidance, DataOK
  <2>2. slot' \in Option(1..MaxGuidance)
    BY <1>32, <2>1 DEF QueueGuidance, Option
  <2>3. QED
    BY <1>32, <2>1, <2>2 DEF QueueGuidance, DataOK, stepvars, learned
<1>33. CASE UNCHANGED vars
  BY <1>33 DEF vars, DataOK, stepvars, operator, learned
<1>34. QED
  BY <1>1, <1>2, <1>3, <1>4, <1>5, <1>6, <1>7, <1>8, <1>9, <1>10, <1>11,
    <1>12, <1>13, <1>14, <1>15, <1>16, <1>17, <1>18, <1>19, <1>20, <1>21,
    <1>22, <1>23, <1>24, <1>25, <1>26, <1>27, <1>28, <1>29, <1>30, <1>31,
    <1>32, <1>33 DEF Next, Worker, Reply, Operator

\* The step counter stays below the budget inside a step, and executions are
\* counted at most once per step.
Budget ==
  /\ pc \in Step \cup {"select", "planning", "chosen"} => step < MaxSteps
  /\ pc \notin Idle => runs <= step + 1
  /\ pc \in (Planning \cup {"enter", "gate", "prompt", "dispatch", "armed",
                            "launch", "conclude"}) => runs <= step

\* No step leaves the control types or the budget: `runs` never passes `step`
\* before the shell is called, so neither counter passes MaxSteps.
LEMMA ControlInductive ==
  ASSUME ControlOK, Budget, [Next]_vars PROVE ControlOK' /\ Budget'
<1> USE KernelAssumption
<1>1. CASE \E o \in Objective : Submit(o)
  <2>1. /\ pc' = "received" /\ stopAt' = "no" /\ step' = 0 /\ runs' = 0
        /\ outcome' = "none" /\ verdict' = "none" /\ fault' = "none"
        /\ repeated' = FALSE /\ consent' = FALSE
    BY <1>1 DEF Submit
  <2>2. ControlOK'
    <3>1. 0 \in 0..MaxSteps
      OBVIOUS
    <3>2. /\ pc' \in Place /\ outcome' \in Outcomes /\ fault' \in Faults
          /\ verdict' \in {"none", "success", "blocked", "error"}
      BY <2>1 DEF Place, Planning, Outcomes, Faults
    <3>3. QED
      BY <2>1, <3>1, <3>2 DEF ControlOK
  <2>3. Budget'
    BY <2>1 DEF Budget, Planning, Step, Idle
  <2>4. QED
    BY <2>2, <2>3
<1>2. CASE Admit
  BY <1>2 DEF Admit, ReturnVerdict, ControlOK, Budget, stepvars, operator,
    learned, Idle, Planning, Step, Place
<1>3. CASE LoopHead
  BY <1>3 DEF LoopHead, CancelTask, ReturnVerdict, Outcomes, ControlOK,
    Budget, stepvars, operator, learned, Idle, Planning, Step, Place
<1>4. CASE SelectReflex
  BY <1>4 DEF SelectReflex, ControlOK, Budget, stepvars, operator, learned,
    Idle, Planning, Step, Place
<1>5. CASE AssembleContext
  BY <1>5 DEF AssembleContext, ControlOK, Budget, stepvars, operator, learned,
    Idle, Planning, Step, Place
<1>6. CASE CheckBeforeDispatch
  BY <1>6 DEF CheckBeforeDispatch, CancelTask, ReturnVerdict, ControlOK,
    Budget, stepvars, operator, learned, Idle, Planning, Step, Place
<1>7. CASE CapturePreState
  BY <1>7 DEF CapturePreState, Checkpoint, CancelStep, InStep, Outcomes,
    ControlOK, Budget, stepvars, operator, learned, Idle, Planning, Step,
    Place
<1>8. CASE CaptureFails
  BY <1>8 DEF CaptureFails, Fail, ReturnVerdict, Faults, ControlOK, Budget,
    stepvars, operator, learned, Idle, Planning, Step, Place
<1>9. CASE ApprovalGate
  BY <1>9 DEF ApprovalGate, Checkpoint, CancelStep, InStep, Outcomes,
    ControlOK, Budget, stepvars, operator, learned, Idle, Planning, Step,
    Place
<1>10. CASE Dispatch
  BY <1>10 DEF Dispatch, InStep, ControlOK, Budget, stepvars, operator,
    learned, Idle, Planning, Step, Place
<1>11. CASE CheckBeforeExecution
  BY <1>11 DEF CheckBeforeExecution, Checkpoint, CancelStep, InStep, Outcomes,
    ControlOK, Budget, stepvars, operator, learned, Idle, Planning, Step,
    Place
<1>12. CASE Execute
  BY <1>12 DEF Execute, InStep, ControlOK, Budget, stepvars, operator,
    learned, Idle, Planning, Step, Place
<1>13. CASE ReceiveResult
  BY <1>13 DEF ReceiveResult, InStep, ControlOK, Budget, stepvars, operator,
    learned, Idle, Planning, Step, Place
<1>14. CASE CheckAfterResult
  BY <1>14 DEF CheckAfterResult, Checkpoint, CancelStep, InStep, Outcomes,
    ControlOK, Budget, stepvars, operator, learned, Idle, Planning, Step,
    Place
<1>15. CASE Verify
  BY <1>15 DEF Verify, InStep, ControlOK, Budget, stepvars, operator, learned,
    Idle, Planning, Step, Place
<1>16. CASE RecordExperience
  BY <1>16 DEF RecordExperience, InStep, ControlOK, Budget, stepvars,
    operator, learned, Idle, Planning, Step, Place
<1>17. CASE Consolidate
  BY <1>17 DEF Consolidate, InStep, ControlOK, Budget, stepvars, operator,
    learned, Idle, Planning, Step, Place
<1>18. CASE Judge
  BY <1>18 DEF Judge, InStep, RecordFailure, Outcomes, ControlOK, Budget,
    stepvars, operator, learned, Idle, Planning, Step, Place
<1>19. CASE \E f \in Finding : RecordStep(f)
  <2>1. /\ pc = "record" /\ pc' = "conclude" /\ step' = step + 1
        /\ UNCHANGED <<stopAt, runs, outcome, verdict, fault, consent>>
    BY <1>19 DEF RecordStep, operator
  <2>0. repeated' \in BOOLEAN
    <3> PICK f \in Finding : RecordStep(f)
      BY <1>19
    <3> DEFINE n == (seen')[<<act.action, f>>]
    <3>1. (n > 3) \in BOOLEAN
      BY SMT
    <3>2. repeated' = FALSE \/ repeated' = (n > 3)
      BY Zenon DEF RecordStep
    <3> HIDE DEF n
    <3>3. QED
      BY <3>1, <3>2, Zenon
  <2>2. step < MaxSteps /\ runs <= step + 1
    BY <2>1 DEF Budget, Step, Idle
  <2>3. ControlOK'
    BY <2>0, <2>1, <2>2 DEF ControlOK, Place
  <2>4. Budget'
    BY <2>1, <2>2 DEF Budget, Step, Idle, Planning, ControlOK
  <2>5. QED
    BY <2>3, <2>4
<1>20. CASE Conclude
  BY <1>20 DEF Conclude, ReturnVerdict, ControlOK, Budget, stepvars, operator,
    learned, Idle, Planning, Step, Place
<1>21. CASE MemoryFails
  BY <1>21 DEF MemoryFails, Fail, ReturnVerdict, Faults, ControlOK, Budget,
    stepvars, operator, learned, Idle, Planning, Step, Place
<1>22. CASE Collect
  BY <1>22 DEF Collect, ControlOK, Budget, stepvars, operator, learned, Idle,
    Planning, Step, Place
<1>23. CASE \E r \in Rule : ReasonerAnswers(r)
  BY <1>23 DEF ReasonerAnswers, ControlOK, Budget, stepvars, operator,
    learned, Idle, Planning, Step, Place
<1>24. CASE PlanningFails
  BY <1>24 DEF PlanningFails, Fail, ReturnVerdict, Faults, ControlOK, Budget,
    stepvars, operator, learned, Idle, Planning, Step, Place
<1>25. CASE Approve
  BY <1>25 DEF Approve, InStep, ControlOK, Budget, stepvars, operator,
    learned, Idle, Planning, Step, Place
<1>26. CASE Deny
  BY <1>26 DEF Deny, InStep, Outcomes, ControlOK, Budget, stepvars, operator,
    learned, Idle, Planning, Step, Place
<1>27. CASE CancelPrompt
  BY <1>27 DEF CancelPrompt, CancelStep, InStep, Outcomes, ControlOK, Budget,
    stepvars, operator, learned, Idle, Planning, Step, Place
<1>28. CASE ApprovalFails
  BY <1>28 DEF ApprovalFails, Fail, ReturnVerdict, Faults, ControlOK, Budget,
    stepvars, operator, learned, Idle, Planning, Step, Place
<1>29. CASE ExecutionFails
  BY <1>29 DEF ExecutionFails, InStep, RecordFailure, Outcomes, ControlOK,
    Budget, stepvars, operator, learned, Idle, Planning, Step, Place
<1>30. CASE \E r \in Result : ExecutionReturns(r)
  BY <1>30 DEF ExecutionReturns, InStep, ControlOK, Budget, stepvars,
    operator, learned, Idle, Planning, Step, Place
<1>31. CASE RequestCancel
  BY <1>31 DEF RequestCancel, ControlOK, Budget, stepvars, operator, learned,
    Idle, Planning, Step, Place
<1>32. CASE QueueGuidance
  BY <1>32 DEF QueueGuidance, ControlOK, Budget, stepvars, operator, learned,
    Idle, Planning, Step, Place
<1>33. CASE UNCHANGED vars
  BY <1>33 DEF vars, ControlOK, Budget, stepvars, operator, learned, Idle,
    Planning, Step, Place
<1>34. QED
  BY <1>1, <1>2, <1>3, <1>4, <1>5, <1>6, <1>7, <1>8, <1>9, <1>10, <1>11,
    <1>12, <1>13, <1>14, <1>15, <1>16, <1>17, <1>18, <1>19, <1>20, <1>21,
    <1>22, <1>23, <1>24, <1>25, <1>26, <1>27, <1>28, <1>29, <1>30, <1>31,
    <1>32, <1>33 DEF Next, Worker, Reply, Operator

\* The kernel starts well typed and within budget.
LEMMA InitTyped == Init => ControlOK /\ DataOK /\ Budget
<1> SUFFICES ASSUME Init PROVE ControlOK /\ DataOK /\ Budget
  OBVIOUS
<1> USE KernelAssumption
<1>1. objective \in Objective
  BY DEF Init
<1>2. act \in Rule
  BY DEF Init, Rule
<1>3. slot \in Option(1..MaxGuidance) /\ pending \in Option(Rule)
  BY DEF Init, Option
<1>4. closing \in Seq(Endings) /\ told \in Seq(1..MaxGuidance)
  BY DEF Init
<1>5. result \in Result
  BY DEF Init, Result, NoResult
<1>6. DataOK
  BY <1>1, <1>2, <1>3, <1>4, <1>5 DEF Init, DataOK
<1>7. ControlOK
  <2>1. 0 \in 0..MaxSteps
    OBVIOUS
  <2>2. /\ pc \in Place /\ outcome \in Outcomes /\ fault \in Faults
        /\ verdict \in {"none", "success", "blocked", "error"}
    BY DEF Init, Place, Idle, Outcomes, Faults
  <2>3. QED
    BY <2>1, <2>2 DEF Init, ControlOK
<1>8. Budget
  BY DEF Init, Budget, Idle, Planning, Step
<1>9. QED
  BY <1>6, <1>7, <1>8

\* Types and budget together are invariant; the other invariants rest on this.
LEMMA WithinBudget == Spec => [](TypeOK /\ Budget)
<1>1. Init => TypeOK /\ Budget
  BY InitTyped DEF TypeOK
<1>2. TypeOK /\ Budget /\ [Next]_vars => TypeOK' /\ Budget'
  BY DataInductive, ControlInductive DEF TypeOK
<1>3. QED
  BY <1>1, <1>2, PTL DEF Spec

\* Every reachable state is well typed, and a task never counts more steps, nor
\* starts more executions, than its budget allows.
THEOREM TypeCorrect == Spec => []TypeOK
<1>1. QED
  BY WithinBudget, PTL
-----------------------------------------------------------------------------
(* Consent.                                                                *)

\* Between the prompt and the shell a privileged action carries the consent of
\* this step: the gate lets only unprivileged ones pass without it.
ConsentInv ==
  pc \in {"dispatch", "armed", "launch", "executing"}
    /\ act.action \in Privileged => consent

\* Every step keeps the link between a dispatched privileged command and the
\* consent given in this very step.
LEMMA ConsentInductive ==
  ASSUME ConsentInv, [Next]_vars PROVE ConsentInv'
<1>1. CASE \E o \in Objective : Submit(o)
  BY <1>1 DEF Submit, ConsentInv, stepvars
<1>2. CASE Admit
  BY <1>2 DEF Admit, ReturnVerdict, ConsentInv, stepvars
<1>3. CASE LoopHead
  BY <1>3 DEF LoopHead, CancelTask, ReturnVerdict, ConsentInv, stepvars
<1>4. CASE SelectReflex
  BY <1>4 DEF SelectReflex, ConsentInv, stepvars
<1>5. CASE AssembleContext
  BY <1>5 DEF AssembleContext, ConsentInv, stepvars
<1>6. CASE CheckBeforeDispatch
  BY <1>6 DEF CheckBeforeDispatch, CancelTask, ReturnVerdict, ConsentInv,
    stepvars
<1>7. CASE CapturePreState
  BY <1>7 DEF CapturePreState, Checkpoint, CancelStep, InStep, ConsentInv,
    stepvars
<1>8. CASE CaptureFails
  BY <1>8 DEF CaptureFails, Fail, ReturnVerdict, ConsentInv, stepvars
<1>9. CASE ApprovalGate
  BY <1>9 DEF ApprovalGate, Checkpoint, CancelStep, InStep, RequiresApproval,
    ConsentInv, stepvars
<1>10. CASE Dispatch
  BY <1>10 DEF Dispatch, InStep, ConsentInv, stepvars
<1>11. CASE CheckBeforeExecution
  BY <1>11 DEF CheckBeforeExecution, Checkpoint, CancelStep, InStep,
    ConsentInv, stepvars
<1>12. CASE Execute
  BY <1>12 DEF Execute, InStep, ConsentInv, stepvars
<1>13. CASE ReceiveResult
  BY <1>13 DEF ReceiveResult, InStep, ConsentInv, stepvars
<1>14. CASE CheckAfterResult
  BY <1>14 DEF CheckAfterResult, Checkpoint, CancelStep, InStep, ConsentInv,
    stepvars
<1>15. CASE Verify
  BY <1>15 DEF Verify, InStep, ConsentInv, stepvars
<1>16. CASE RecordExperience
  BY <1>16 DEF RecordExperience, InStep, ConsentInv, stepvars
<1>17. CASE Consolidate
  BY <1>17 DEF Consolidate, InStep, ConsentInv, stepvars
<1>18. CASE Judge
  BY <1>18 DEF Judge, InStep, RecordFailure, ConsentInv, stepvars
<1>19. CASE \E f \in Finding : RecordStep(f)
  BY <1>19 DEF RecordStep, ConsentInv, stepvars
<1>20. CASE Conclude
  BY <1>20 DEF Conclude, ReturnVerdict, ConsentInv, stepvars
<1>21. CASE MemoryFails
  BY <1>21 DEF MemoryFails, Fail, ReturnVerdict, ConsentInv, stepvars
<1>22. CASE Collect
  BY <1>22 DEF Collect, ConsentInv, stepvars
<1>23. CASE \E r \in Rule : ReasonerAnswers(r)
  BY <1>23 DEF ReasonerAnswers, ConsentInv, stepvars
<1>24. CASE PlanningFails
  BY <1>24 DEF PlanningFails, Fail, ReturnVerdict, ConsentInv, stepvars
<1>25. CASE Approve
  BY <1>25 DEF Approve, InStep, ConsentInv, stepvars
<1>26. CASE Deny
  BY <1>26 DEF Deny, InStep, ConsentInv, stepvars
<1>27. CASE CancelPrompt
  BY <1>27 DEF CancelPrompt, CancelStep, InStep, ConsentInv, stepvars
<1>28. CASE ApprovalFails
  BY <1>28 DEF ApprovalFails, Fail, ReturnVerdict, ConsentInv, stepvars
<1>29. CASE ExecutionFails
  BY <1>29 DEF ExecutionFails, InStep, RecordFailure, ConsentInv, stepvars
<1>30. CASE \E r \in Result : ExecutionReturns(r)
  BY <1>30 DEF ExecutionReturns, InStep, ConsentInv, stepvars
<1>31. CASE RequestCancel
  BY <1>31 DEF RequestCancel, ConsentInv, stepvars
<1>32. CASE QueueGuidance
  BY <1>32 DEF QueueGuidance, ConsentInv, stepvars
<1>33. CASE UNCHANGED vars
  BY <1>33 DEF vars, ConsentInv, stepvars
<1>34. QED
  BY <1>1, <1>2, <1>3, <1>4, <1>5, <1>6, <1>7, <1>8, <1>9, <1>10, <1>11,
    <1>12, <1>13, <1>14, <1>15, <1>16, <1>17, <1>18, <1>19, <1>20, <1>21,
    <1>22, <1>23, <1>24, <1>25, <1>26, <1>27, <1>28, <1>29, <1>30, <1>31,
    <1>32, <1>33 DEF Next, Worker, Reply, Operator

\* For every set of actions and rules, whatever flags the reasoner sets and
\* whatever consolidation learned: no privileged command reaches the shell in
\* a step the operator did not approve.
THEOREM PrivilegedConsented == Spec => []PrivilegedNeedsConsent
<1>1. Init => ConsentInv
  BY DEF Init, ConsentInv
<1>2. ConsentInv /\ [Next]_vars => ConsentInv'
  BY ConsentInductive
<1>3. ConsentInv => PrivilegedNeedsConsent
  BY DEF ConsentInv, PrivilegedNeedsConsent
<1>4. QED
  BY <1>1, <1>2, <1>3, PTL DEF Spec
-----------------------------------------------------------------------------
(* Stop requests.                                                          *)

\* Where the worker can be with a stop request, by the last checkpoint it has
\* passed: a request met earlier would have ended the task there.
StopInv ==
  /\ pc = "select" => stopAt \in {"no", "select"}
  /\ pc = "planning" => stopAt \in {"no", "select", "planning"}
  /\ pc = "launch" => stopAt \in {"no", "launch"}
  /\ pc = "executing" => stopAt \in {"no", "launch", "executing"}
  /\ pc = "verify" => stopAt \in {"no", "verify"}
  /\ pc = "learn" => stopAt \in {"no", "verify", "learn"}
  /\ pc = "consolidate" => stopAt \in {"no", "verify", "learn", "consolidate"}
  /\ pc = "judge" =>
       stopAt \in {"no", "verify", "learn", "consolidate", "judge"}
  /\ pc = "record" /\ outcome = "success" =>
       stopAt \in {"no", "verify", "learn", "consolidate", "judge", "record"}
  /\ pc = "conclude" /\ outcome = "success" =>
       stopAt \in {"no", "verify", "learn", "consolidate", "judge", "record",
                   "conclude"}
  /\ verdict = "success" =>
       /\ pc \in Idle
       /\ stopAt \in {"no", "verify", "learn", "consolidate", "judge",
                      "record", "conclude", "returned"}

\* Every step keeps the bound on how far past a stop request the worker is.
LEMMA StopInductive == ASSUME StopInv, [Next]_vars PROVE StopInv'
<1>1. CASE \E o \in Objective : Submit(o)
  BY <1>1 DEF Submit, StopInv, Idle, StopRequested, stepvars, operator
<1>2. CASE Admit
  BY <1>2 DEF Admit, ReturnVerdict, StopInv, Idle, StopRequested, stepvars,
    operator
<1>3. CASE LoopHead
  BY <1>3 DEF LoopHead, CancelTask, ReturnVerdict, StopInv, Idle,
    StopRequested, stepvars, operator
<1>4. CASE SelectReflex
  BY <1>4 DEF SelectReflex, StopInv, Idle, StopRequested, stepvars, operator
<1>5. CASE AssembleContext
  BY <1>5 DEF AssembleContext, StopInv, Idle, StopRequested, stepvars,
    operator
<1>6. CASE CheckBeforeDispatch
  BY <1>6 DEF CheckBeforeDispatch, CancelTask, ReturnVerdict, StopInv, Idle,
    StopRequested, stepvars, operator
<1>7. CASE CapturePreState
  BY <1>7 DEF CapturePreState, Checkpoint, CancelStep, InStep, StopInv, Idle,
    StopRequested, stepvars, operator
<1>8. CASE CaptureFails
  BY <1>8 DEF CaptureFails, Fail, ReturnVerdict, StopInv, Idle, StopRequested,
    stepvars, operator
<1>9. CASE ApprovalGate
  BY <1>9 DEF ApprovalGate, Checkpoint, CancelStep, InStep, StopInv, Idle,
    StopRequested, stepvars, operator
<1>10. CASE Dispatch
  BY <1>10 DEF Dispatch, InStep, StopInv, Idle, StopRequested, stepvars,
    operator
<1>11. CASE CheckBeforeExecution
  BY <1>11 DEF CheckBeforeExecution, Checkpoint, CancelStep, InStep, StopInv,
    Idle, StopRequested, stepvars, operator
<1>12. CASE Execute
  BY <1>12 DEF Execute, InStep, StopInv, Idle, StopRequested, stepvars,
    operator
<1>13. CASE ReceiveResult
  BY <1>13 DEF ReceiveResult, InStep, StopInv, Idle, StopRequested, stepvars,
    operator
<1>14. CASE CheckAfterResult
  BY <1>14 DEF CheckAfterResult, Checkpoint, CancelStep, InStep, StopInv,
    Idle, StopRequested, stepvars, operator
<1>15. CASE Verify
  BY <1>15 DEF Verify, InStep, StopInv, Idle, StopRequested, stepvars,
    operator
<1>16. CASE RecordExperience
  BY <1>16 DEF RecordExperience, InStep, StopInv, Idle, StopRequested,
    stepvars, operator
<1>17. CASE Consolidate
  BY <1>17 DEF Consolidate, InStep, StopInv, Idle, StopRequested, stepvars,
    operator
<1>18. CASE Judge
  BY <1>18 DEF Judge, InStep, RecordFailure, StopInv, Idle, StopRequested,
    stepvars, operator
<1>19. CASE \E f \in Finding : RecordStep(f)
  BY <1>19 DEF RecordStep, StopInv, Idle, StopRequested, stepvars, operator
<1>20. CASE Conclude
  BY <1>20 DEF Conclude, ReturnVerdict, StopInv, Idle, StopRequested,
    stepvars, operator
<1>21. CASE MemoryFails
  BY <1>21 DEF MemoryFails, Fail, ReturnVerdict, StopInv, Idle, StopRequested,
    stepvars, operator
<1>22. CASE Collect
  BY <1>22 DEF Collect, StopInv, Idle, StopRequested, stepvars, operator
<1>23. CASE \E r \in Rule : ReasonerAnswers(r)
  BY <1>23 DEF ReasonerAnswers, StopInv, Idle, StopRequested, stepvars,
    operator
<1>24. CASE PlanningFails
  BY <1>24 DEF PlanningFails, Fail, ReturnVerdict, StopInv, Idle,
    StopRequested, stepvars, operator
<1>25. CASE Approve
  BY <1>25 DEF Approve, InStep, StopInv, Idle, StopRequested, stepvars,
    operator
<1>26. CASE Deny
  BY <1>26 DEF Deny, InStep, StopInv, Idle, StopRequested, stepvars, operator
<1>27. CASE CancelPrompt
  BY <1>27 DEF CancelPrompt, CancelStep, InStep, StopInv, Idle, StopRequested,
    stepvars, operator
<1>28. CASE ApprovalFails
  BY <1>28 DEF ApprovalFails, Fail, ReturnVerdict, StopInv, Idle,
    StopRequested, stepvars, operator
<1>29. CASE ExecutionFails
  BY <1>29 DEF ExecutionFails, InStep, RecordFailure, StopInv, Idle,
    StopRequested, stepvars, operator
<1>30. CASE \E r \in Result : ExecutionReturns(r)
  BY <1>30 DEF ExecutionReturns, InStep, StopInv, Idle, StopRequested,
    stepvars, operator
<1>31. CASE RequestCancel
  BY <1>31 DEF RequestCancel, StopInv, Idle, StopRequested, stepvars, operator
<1>32. CASE QueueGuidance
  BY <1>32 DEF QueueGuidance, StopInv, Idle, StopRequested, stepvars, operator
<1>33. CASE UNCHANGED vars
  BY <1>33 DEF vars, StopInv, Idle, StopRequested, stepvars, operator
<1>34. QED
  BY <1>1, <1>2, <1>3, <1>4, <1>5, <1>6, <1>7, <1>8, <1>9, <1>10, <1>11,
    <1>12, <1>13, <1>14, <1>15, <1>16, <1>17, <1>18, <1>19, <1>20, <1>21,
    <1>22, <1>23, <1>24, <1>25, <1>26, <1>27, <1>28, <1>29, <1>30, <1>31,
    <1>32, <1>33 DEF Next, Worker, Reply, Operator

\* A stop request is honoured at the first checkpoint after it, in every
\* interleaving of the operator's thread with the worker.
THEOREM StopsHonoured == Spec => []StopHonoured
<1>1. Init => StopInv
  BY DEF Init, StopInv
<1>2. StopInv /\ [Next]_vars => StopInv'
  BY StopInductive
<1>3. StopInv => StopHonoured
  BY DEF StopInv, StopHonoured, StopRequested
<1>4. QED
  BY <1>1, <1>2, <1>3, PTL DEF Spec
-----------------------------------------------------------------------------
(* Endings.                                                                *)

\* Before the last step is recorded a task has no ending and no verdict; the
\* only ending a recorded step may already have is its cancellation, and that
\* step is blocked.
EndingInv ==
  /\ pc \notin Idle => verdict = "none"
  /\ pc \notin {"record", "conclude", "returned", "idle"} => closing = <<>>
  /\ pc \in {"record", "conclude"} =>
       closing = <<>> \/ (closing = <<"TaskCancelled">> /\ outcome = "blocked")
  /\ pc = "conclude" /\ repeated => outcome = "success"
  /\ pc \in Idle => closing = <<>> \/ \E e \in Endings : closing = <<e>>
  /\ pc = "returned" =>
       /\ verdict = "success" => closing = <<"TaskCompleted">>
       /\ closing = <<"TaskCompleted">> => verdict = "success" \/ fault = "memory"

\* The first ending written makes a timeline of length one.
LEMMA SingleEnding ==
  /\ \A e \in Endings : /\ Append(<<>>, e) = <<e>>
                        /\ Len(<<e>>) = 1
                        /\ <<e>> # <<>>
  /\ \A e, f \in Endings : <<e>> = <<f>> => e = f
  /\ "TaskCompleted" \in Endings /\ "TaskFailed" \in Endings
  /\ "TaskCancelled" \in Endings
BY DEF Endings

\* Every step keeps the agreement of endings, places and verdict.
LEMMA EndingInductive == ASSUME EndingInv, [Next]_vars PROVE EndingInv'
<1> USE SingleEnding
<1>1. CASE \E o \in Objective : Submit(o)
  BY <1>1 DEF Submit, EndingInv, Idle, stepvars
<1>2. CASE Admit
  BY <1>2 DEF Admit, ReturnVerdict, EndingInv, Idle, stepvars
<1>3. CASE LoopHead
  BY <1>3 DEF LoopHead, CancelTask, ReturnVerdict, EndingInv, Idle, stepvars
<1>4. CASE SelectReflex
  BY <1>4 DEF SelectReflex, EndingInv, Idle, stepvars
<1>5. CASE AssembleContext
  BY <1>5 DEF AssembleContext, EndingInv, Idle, stepvars
<1>6. CASE CheckBeforeDispatch
  BY <1>6 DEF CheckBeforeDispatch, CancelTask, ReturnVerdict, EndingInv, Idle,
    stepvars
<1>7. CASE CapturePreState
  BY <1>7 DEF CapturePreState, Checkpoint, CancelStep, InStep, EndingInv,
    Idle, stepvars
<1>8. CASE CaptureFails
  BY <1>8 DEF CaptureFails, Fail, ReturnVerdict, EndingInv, Idle, stepvars
<1>9. CASE ApprovalGate
  BY <1>9 DEF ApprovalGate, Checkpoint, CancelStep, InStep, EndingInv, Idle,
    stepvars
<1>10. CASE Dispatch
  BY <1>10 DEF Dispatch, InStep, EndingInv, Idle, stepvars
<1>11. CASE CheckBeforeExecution
  BY <1>11 DEF CheckBeforeExecution, Checkpoint, CancelStep, InStep,
    EndingInv, Idle, stepvars
<1>12. CASE Execute
  BY <1>12 DEF Execute, InStep, EndingInv, Idle, stepvars
<1>13. CASE ReceiveResult
  BY <1>13 DEF ReceiveResult, InStep, EndingInv, Idle, stepvars
<1>14. CASE CheckAfterResult
  BY <1>14 DEF CheckAfterResult, Checkpoint, CancelStep, InStep, EndingInv,
    Idle, stepvars
<1>15. CASE Verify
  BY <1>15 DEF Verify, InStep, EndingInv, Idle, stepvars
<1>16. CASE RecordExperience
  BY <1>16 DEF RecordExperience, InStep, EndingInv, Idle, stepvars
<1>17. CASE Consolidate
  BY <1>17 DEF Consolidate, InStep, EndingInv, Idle, stepvars
<1>18. CASE Judge
  BY <1>18 DEF Judge, InStep, RecordFailure, EndingInv, Idle, stepvars
<1>19. CASE \E f \in Finding : RecordStep(f)
  BY <1>19 DEF RecordStep, EndingInv, Idle, stepvars
<1>20. CASE Conclude
  BY <1>20 DEF Conclude, ReturnVerdict, EndingInv, Idle, stepvars
<1>21. CASE MemoryFails
  <2>1. \/ closing' = closing
        \/ \E e \in Endings : closing = <<>> /\ closing' = <<e>>
    <3>1. ASSUME NEW e \in Due PROVE e \in Endings /\ closing = <<>>
      BY DueWhere DEF EndingInv
    <3>2. QED
      BY <1>21, <3>1 DEF MemoryFails
  <2>2. pc \notin Idle /\ pc' = "returned" /\ verdict' = "error" /\ fault' = "memory"
    <3>1. pc \notin Idle
      BY <1>21, DueWhere DEF MemoryFails, CallsMemory, Idle
    <3>2. QED
      BY <1>21, <3>1 DEF MemoryFails, Fail, ReturnVerdict
  <2>3. QED
    BY <2>1, <2>2 DEF EndingInv, Idle
<1>22. CASE Collect
  BY <1>22 DEF Collect, EndingInv, Idle, stepvars
<1>23. CASE \E r \in Rule : ReasonerAnswers(r)
  BY <1>23 DEF ReasonerAnswers, EndingInv, Idle, stepvars
<1>24. CASE PlanningFails
  BY <1>24 DEF PlanningFails, Fail, ReturnVerdict, EndingInv, Idle, stepvars
<1>25. CASE Approve
  BY <1>25 DEF Approve, InStep, EndingInv, Idle, stepvars
<1>26. CASE Deny
  BY <1>26 DEF Deny, InStep, EndingInv, Idle, stepvars
<1>27. CASE CancelPrompt
  BY <1>27 DEF CancelPrompt, CancelStep, InStep, EndingInv, Idle, stepvars
<1>28. CASE ApprovalFails
  BY <1>28 DEF ApprovalFails, Fail, ReturnVerdict, EndingInv, Idle, stepvars
<1>29. CASE ExecutionFails
  BY <1>29 DEF ExecutionFails, InStep, RecordFailure, EndingInv, Idle,
    stepvars
<1>30. CASE \E r \in Result : ExecutionReturns(r)
  BY <1>30 DEF ExecutionReturns, InStep, EndingInv, Idle, stepvars
<1>31. CASE RequestCancel
  BY <1>31 DEF RequestCancel, EndingInv, Idle, stepvars
<1>32. CASE QueueGuidance
  BY <1>32 DEF QueueGuidance, EndingInv, Idle, stepvars
<1>33. CASE UNCHANGED vars
  BY <1>33 DEF vars, EndingInv, Idle, stepvars
<1>34. QED
  BY <1>1, <1>2, <1>3, <1>4, <1>5, <1>6, <1>7, <1>8, <1>9, <1>10, <1>11,
    <1>12, <1>13, <1>14, <1>15, <1>16, <1>17, <1>18, <1>19, <1>20, <1>21,
    <1>22, <1>23, <1>24, <1>25, <1>26, <1>27, <1>28, <1>29, <1>30, <1>31,
    <1>32, <1>33 DEF Next, Worker, Reply, Operator

\* One ending at most, nothing after it but the recording of its step, and a
\* verdict that agrees with it, for every budget and every set of actions.
THEOREM EndingsConsistent == Spec => []EndingsAgree
<1>1. Init => EndingInv
  BY DEF Init, EndingInv, Idle
<1>2. EndingInv /\ [Next]_vars => EndingInv'
  BY EndingInductive
<1>3. EndingInv => EndingsAgree
  <2> SUFFICES ASSUME EndingInv PROVE EndingsAgree
    OBVIOUS
  <2>1. closing = <<>> \/ \E e \in Endings : closing = <<e>>
    BY SingleEnding DEF EndingInv, Idle
  <2>2. Len(closing) <= 1
    BY <2>1, SingleEnding
  <2>3. QED
    BY <2>2 DEF EndingInv, EndingsAgree
<1>4. QED
  BY <1>1, <1>2, <1>3, PTL DEF Spec
-----------------------------------------------------------------------------
(* The circuit breaker.                                                    *)

\* Inside a task the count of its objective exceeds the threshold's last safe
\* value by at most one per recorded step.
BreakerInv ==
  /\ \A o \in Objective : failures[o] <= 2 + MaxSteps
  /\ pc \in (Planning \ {"received"}) \cup (Step \ {"record"}) \cup {"conclude"}
       => failures[objective] <= 2 + step
  /\ pc = "record" => failures[objective] <= 3 + step

\* Every step keeps each failure count within what the steps taken allow.
LEMMA BreakerInductive ==
  ASSUME ControlOK, DataOK, Budget, BreakerInv, [Next]_vars PROVE BreakerInv'
<1> USE KernelAssumption
<1>1. CASE \E o \in Objective : Submit(o)
  BY <1>1 DEF Submit, BreakerInv, ControlOK, DataOK, Planning, Step, stepvars,
    learned
<1>2. CASE Admit
  BY <1>2 DEF Admit, ReturnVerdict, Tripped, BreakerInv, ControlOK, DataOK,
    Planning, Step, stepvars, learned
<1>3. CASE LoopHead
  BY <1>3 DEF LoopHead, CancelTask, ReturnVerdict, BreakerInv, ControlOK,
    DataOK, Planning, Step, stepvars, learned
<1>4. CASE SelectReflex
  BY <1>4 DEF SelectReflex, BreakerInv, ControlOK, DataOK, Planning, Step,
    stepvars, learned
<1>5. CASE AssembleContext
  BY <1>5 DEF AssembleContext, BreakerInv, ControlOK, DataOK, Planning, Step,
    stepvars, learned
<1>6. CASE CheckBeforeDispatch
  BY <1>6 DEF CheckBeforeDispatch, CancelTask, ReturnVerdict, BreakerInv,
    ControlOK, DataOK, Planning, Step, stepvars, learned
<1>7. CASE CapturePreState
  BY <1>7 DEF CapturePreState, Checkpoint, CancelStep, InStep, Budget,
    BreakerInv, ControlOK, DataOK, Planning, Step, stepvars, learned
<1>8. CASE CaptureFails
  BY <1>8 DEF CaptureFails, Fail, ReturnVerdict, BreakerInv, ControlOK,
    DataOK, Planning, Step, stepvars, learned
<1>9. CASE ApprovalGate
  BY <1>9 DEF ApprovalGate, Checkpoint, CancelStep, InStep, BreakerInv,
    ControlOK, DataOK, Planning, Step, stepvars, learned
<1>10. CASE Dispatch
  BY <1>10 DEF Dispatch, InStep, BreakerInv, ControlOK, DataOK, Planning,
    Step, stepvars, learned
<1>11. CASE CheckBeforeExecution
  BY <1>11 DEF CheckBeforeExecution, Checkpoint, CancelStep, InStep,
    BreakerInv, ControlOK, DataOK, Planning, Step, stepvars, learned
<1>12. CASE Execute
  BY <1>12 DEF Execute, InStep, BreakerInv, ControlOK, DataOK, Planning, Step,
    stepvars, learned
<1>13. CASE ReceiveResult
  BY <1>13 DEF ReceiveResult, InStep, BreakerInv, ControlOK, DataOK, Planning,
    Step, stepvars, learned
<1>14. CASE CheckAfterResult
  BY <1>14 DEF CheckAfterResult, Checkpoint, CancelStep, InStep, BreakerInv,
    ControlOK, DataOK, Planning, Step, stepvars, learned
<1>15. CASE Verify
  BY <1>15 DEF Verify, InStep, BreakerInv, ControlOK, DataOK, Planning, Step,
    stepvars, learned
<1>16. CASE RecordExperience
  BY <1>16 DEF RecordExperience, InStep, BreakerInv, ControlOK, DataOK,
    Planning, Step, stepvars, learned
<1>17. CASE Consolidate
  BY <1>17 DEF Consolidate, InStep, BreakerInv, ControlOK, DataOK, Planning,
    Step, stepvars, learned
<1>18. CASE Judge
  <2>1. /\ failures[objective] \in Nat /\ failures[objective] <= 2 + step
        /\ step < MaxSteps
    BY <1>18 DEF Judge, BreakerInv, Budget, Step, Planning, DataOK
  <2>2. \/ failures' = failures
        \/ failures' = [failures EXCEPT ![objective] = @ + 1]
    BY <1>18 DEF Judge, RecordFailure
  <2>3. /\ failures'[objective] <= 3 + step
        /\ \A o \in Objective : failures'[o] <= 2 + MaxSteps
    <3>1. CASE failures' = failures
      BY <2>1, <3>1 DEF ControlOK, BreakerInv
    <3>2. CASE failures' = [failures EXCEPT ![objective] = @ + 1]
      <4>1. \A o \in Objective :
              failures'[o] = IF o = objective THEN failures[o] + 1
                                              ELSE failures[o]
        BY <3>2 DEF DataOK
      <4>2. objective \in Objective /\ step \in Nat /\ MaxSteps \in Nat
        BY DEF DataOK, ControlOK
      <4>3. QED
        BY <2>1, <4>1, <4>2 DEF BreakerInv
    <3>3. QED
      BY <2>2, <3>1, <3>2
  <2>4. pc' = "record" /\ UNCHANGED <<objective, step>>
    BY <1>18 DEF Judge, InStep
  <2>5. QED
    BY <2>3, <2>4 DEF BreakerInv, Planning, Step
<1>19. CASE \E f \in Finding : RecordStep(f)
  BY <1>19 DEF RecordStep, BreakerInv, ControlOK, DataOK, Planning, Step,
    stepvars, learned
<1>20. CASE Conclude
  BY <1>20 DEF Conclude, ReturnVerdict, BreakerInv, ControlOK, DataOK,
    Planning, Step, stepvars, learned
<1>21. CASE MemoryFails
  BY <1>21 DEF MemoryFails, Fail, ReturnVerdict, BreakerInv, ControlOK,
    DataOK, Planning, Step, stepvars, learned
<1>22. CASE Collect
  BY <1>22 DEF Collect, BreakerInv, ControlOK, DataOK, Planning, Step,
    stepvars, learned
<1>23. CASE \E r \in Rule : ReasonerAnswers(r)
  BY <1>23 DEF ReasonerAnswers, BreakerInv, ControlOK, DataOK, Planning, Step,
    stepvars, learned
<1>24. CASE PlanningFails
  BY <1>24 DEF PlanningFails, Fail, ReturnVerdict, BreakerInv, ControlOK,
    DataOK, Planning, Step, stepvars, learned
<1>25. CASE Approve
  BY <1>25 DEF Approve, InStep, BreakerInv, ControlOK, DataOK, Planning, Step,
    stepvars, learned
<1>26. CASE Deny
  BY <1>26 DEF Deny, InStep, BreakerInv, ControlOK, DataOK, Planning, Step,
    stepvars, learned
<1>27. CASE CancelPrompt
  BY <1>27 DEF CancelPrompt, CancelStep, InStep, BreakerInv, ControlOK,
    DataOK, Planning, Step, stepvars, learned
<1>28. CASE ApprovalFails
  BY <1>28 DEF ApprovalFails, Fail, ReturnVerdict, BreakerInv, ControlOK,
    DataOK, Planning, Step, stepvars, learned
<1>29. CASE ExecutionFails
  <2>1. /\ failures[objective] \in Nat /\ failures[objective] <= 2 + step
        /\ step < MaxSteps
    BY <1>29 DEF ExecutionFails, BreakerInv, Budget, Step, Planning, DataOK
  <2>2. \/ failures' = failures
        \/ failures' = [failures EXCEPT ![objective] = @ + 1]
    BY <1>29 DEF ExecutionFails, RecordFailure
  <2>3. /\ failures'[objective] <= 3 + step
        /\ \A o \in Objective : failures'[o] <= 2 + MaxSteps
    <3>1. CASE failures' = failures
      BY <2>1, <3>1 DEF ControlOK, BreakerInv
    <3>2. CASE failures' = [failures EXCEPT ![objective] = @ + 1]
      <4>1. \A o \in Objective :
              failures'[o] = IF o = objective THEN failures[o] + 1
                                              ELSE failures[o]
        BY <3>2 DEF DataOK
      <4>2. objective \in Objective /\ step \in Nat /\ MaxSteps \in Nat
        BY DEF DataOK, ControlOK
      <4>3. QED
        BY <2>1, <4>1, <4>2 DEF BreakerInv
    <3>3. QED
      BY <2>2, <3>1, <3>2
  <2>4. pc' = "record" /\ UNCHANGED <<objective, step>>
    BY <1>29 DEF ExecutionFails, InStep
  <2>5. QED
    BY <2>3, <2>4 DEF BreakerInv, Planning, Step
<1>30. CASE \E r \in Result : ExecutionReturns(r)
  BY <1>30 DEF ExecutionReturns, InStep, BreakerInv, ControlOK, DataOK,
    Planning, Step, stepvars, learned
<1>31. CASE RequestCancel
  BY <1>31 DEF RequestCancel, BreakerInv, ControlOK, DataOK, Planning, Step,
    stepvars, learned
<1>32. CASE QueueGuidance
  BY <1>32 DEF QueueGuidance, BreakerInv, ControlOK, DataOK, Planning, Step,
    stepvars, learned
<1>33. CASE UNCHANGED vars
  BY <1>33 DEF vars, BreakerInv, ControlOK, DataOK, Planning, Step, stepvars,
    learned
<1>34. QED
  BY <1>1, <1>2, <1>3, <1>4, <1>5, <1>6, <1>7, <1>8, <1>9, <1>10, <1>11,
    <1>12, <1>13, <1>14, <1>15, <1>16, <1>17, <1>18, <1>19, <1>20, <1>21,
    <1>22, <1>23, <1>24, <1>25, <1>26, <1>27, <1>28, <1>29, <1>30, <1>31,
    <1>32, <1>33 DEF Next, Worker, Reply, Operator

\* The breaker is consulted only at admission, so a task may overshoot it, by
\* no more than its own steps, and no later task of that objective runs.
THEOREM BreakerBounded == Spec => []BreakerOvershoot
<1>1. Init => BreakerInv
  BY KernelAssumption DEF Init, BreakerInv, Planning, Step
<1>2. TypeOK /\ Budget /\ BreakerInv /\ [Next]_vars => BreakerInv'
  BY BreakerInductive DEF TypeOK
<1>3. BreakerInv => BreakerOvershoot
  BY DEF BreakerInv, BreakerOvershoot
<1>4. QED
  BY <1>1, <1>2, <1>3, WithinBudget, PTL DEF Spec
-----------------------------------------------------------------------------
(* Repetition.                                                             *)

\* Between two steps no signature has succeeded more than three times, unless
\* the step just recorded was found to be a repetition.
RepeatInv ==
  /\ \A s \in Action \X Finding : seen[s] <= 4
  /\ pc \in Step \cup Planning \/ (pc = "conclude" /\ ~repeated) =>
       \A s \in Action \X Finding : seen[s] <= 3

\* Every step keeps the bound on the successes of each signature.
LEMMA RepeatInductive ==
  ASSUME DataOK, DataOK', RepeatInv, [Next]_vars PROVE RepeatInv'
<1>1. CASE \E o \in Objective : Submit(o)
  <2>1. pc' = "received" /\ \A s \in Action \X Finding : seen'[s] = 0
    BY <1>1 DEF Submit, DataOK
  <2>2. QED
    BY <2>1 DEF RepeatInv
<1>2. CASE Admit
  BY <1>2 DEF Admit, ReturnVerdict, RepeatInv, Step, Planning, stepvars
<1>3. CASE LoopHead
  BY <1>3 DEF LoopHead, CancelTask, ReturnVerdict, RepeatInv, Step, Planning,
    stepvars
<1>4. CASE SelectReflex
  BY <1>4 DEF SelectReflex, RepeatInv, Step, Planning, stepvars
<1>5. CASE AssembleContext
  BY <1>5 DEF AssembleContext, RepeatInv, Step, Planning, stepvars
<1>6. CASE CheckBeforeDispatch
  BY <1>6 DEF CheckBeforeDispatch, CancelTask, ReturnVerdict, RepeatInv, Step,
    Planning, stepvars
<1>7. CASE CapturePreState
  BY <1>7 DEF CapturePreState, Checkpoint, CancelStep, InStep, RepeatInv,
    Step, Planning, stepvars
<1>8. CASE CaptureFails
  BY <1>8 DEF CaptureFails, Fail, ReturnVerdict, RepeatInv, Step, Planning,
    stepvars
<1>9. CASE ApprovalGate
  BY <1>9 DEF ApprovalGate, Checkpoint, CancelStep, InStep, RepeatInv, Step,
    Planning, stepvars
<1>10. CASE Dispatch
  BY <1>10 DEF Dispatch, InStep, RepeatInv, Step, Planning, stepvars
<1>11. CASE CheckBeforeExecution
  BY <1>11 DEF CheckBeforeExecution, Checkpoint, CancelStep, InStep,
    RepeatInv, Step, Planning, stepvars
<1>12. CASE Execute
  BY <1>12 DEF Execute, InStep, RepeatInv, Step, Planning, stepvars
<1>13. CASE ReceiveResult
  BY <1>13 DEF ReceiveResult, InStep, RepeatInv, Step, Planning, stepvars
<1>14. CASE CheckAfterResult
  BY <1>14 DEF CheckAfterResult, Checkpoint, CancelStep, InStep, RepeatInv,
    Step, Planning, stepvars
<1>15. CASE Verify
  BY <1>15 DEF Verify, InStep, RepeatInv, Step, Planning, stepvars
<1>16. CASE RecordExperience
  BY <1>16 DEF RecordExperience, InStep, RepeatInv, Step, Planning, stepvars
<1>17. CASE Consolidate
  BY <1>17 DEF Consolidate, InStep, RepeatInv, Step, Planning, stepvars
<1>18. CASE Judge
  BY <1>18 DEF Judge, InStep, RecordFailure, RepeatInv, Step, Planning,
    stepvars
<1>19. CASE \E f \in Finding : RecordStep(f)
  <2> PICK f \in Finding : RecordStep(f)
    BY <1>19
  <2> DEFINE t == <<act.action, f>>
  <2>1. t \in Action \X Finding
    BY DEF DataOK, Rule
  <2>2. pc = "record" /\ pc' = "conclude"
    BY DEF RecordStep
  <2>3. \A s \in Action \X Finding : seen[s] <= 3 /\ seen[s] \in Nat
    BY <2>2 DEF RepeatInv, Step, DataOK
  <2>4. \/ seen' = seen
        \/ /\ seen' = [seen EXCEPT ![t] = @ + 1]
           /\ repeated' = (seen'[t] > 3)
    BY Zenon DEF RecordStep
  <2> HIDE DEF t
  <2>5. CASE seen' = seen
    BY <2>2, <2>3, <2>5 DEF RepeatInv
  <2>6. CASE /\ seen' = [seen EXCEPT ![t] = @ + 1]
             /\ repeated' = (seen'[t] > 3)
    <3>1. \A s \in Action \X Finding :
            seen'[s] = IF s = t THEN seen[s] + 1 ELSE seen[s]
      BY <2>6 DEF DataOK
    <3>2. \A s \in Action \X Finding : seen'[s] <= 4
      BY <2>3, <3>1
    <3>3. ~repeated' => \A s \in Action \X Finding : seen'[s] <= 3
      <4>1. ~repeated' => ~(seen'[t] > 3)
        BY <2>6, Zenon
      <4>2. \A s \in Action \X Finding : seen'[s] \in Nat
        BY <2>3, <3>1
      <4>3. ~(seen'[t] > 3) => seen'[t] <= 3
        BY <2>1, <4>2
      <4>4. QED
        BY <2>3, <3>1, <4>1, <4>3
    <3>4. QED
      BY <2>2, <3>2, <3>3 DEF RepeatInv, Step, Planning
  <2>7. QED
    BY <2>4, <2>5, <2>6
<1>20. CASE Conclude
  BY <1>20 DEF Conclude, ReturnVerdict, RepeatInv, Step, Planning, stepvars
<1>21. CASE MemoryFails
  BY <1>21 DEF MemoryFails, Fail, ReturnVerdict, CallsMemory, RepeatInv, Step,
    Planning, stepvars
<1>22. CASE Collect
  BY <1>22 DEF Collect, RepeatInv, Step, Planning, stepvars
<1>23. CASE \E r \in Rule : ReasonerAnswers(r)
  BY <1>23 DEF ReasonerAnswers, RepeatInv, Step, Planning, stepvars
<1>24. CASE PlanningFails
  BY <1>24 DEF PlanningFails, Fail, ReturnVerdict, RepeatInv, Step, Planning,
    stepvars
<1>25. CASE Approve
  BY <1>25 DEF Approve, InStep, RepeatInv, Step, Planning, stepvars
<1>26. CASE Deny
  BY <1>26 DEF Deny, InStep, RepeatInv, Step, Planning, stepvars
<1>27. CASE CancelPrompt
  BY <1>27 DEF CancelPrompt, CancelStep, InStep, RepeatInv, Step, Planning,
    stepvars
<1>28. CASE ApprovalFails
  BY <1>28 DEF ApprovalFails, Fail, ReturnVerdict, RepeatInv, Step, Planning,
    stepvars
<1>29. CASE ExecutionFails
  BY <1>29 DEF ExecutionFails, InStep, RecordFailure, RepeatInv, Step,
    Planning, stepvars
<1>30. CASE \E r \in Result : ExecutionReturns(r)
  BY <1>30 DEF ExecutionReturns, InStep, RepeatInv, Step, Planning, stepvars
<1>31. CASE RequestCancel
  BY <1>31 DEF RequestCancel, RepeatInv, Step, Planning, stepvars
<1>32. CASE QueueGuidance
  BY <1>32 DEF QueueGuidance, RepeatInv, Step, Planning, stepvars
<1>33. CASE UNCHANGED vars
  BY <1>33 DEF vars, RepeatInv, Step, Planning, stepvars
<1>34. QED
  BY <1>1, <1>2, <1>3, <1>4, <1>5, <1>6, <1>7, <1>8, <1>9, <1>10, <1>11,
    <1>12, <1>13, <1>14, <1>15, <1>16, <1>17, <1>18, <1>19, <1>20, <1>21,
    <1>22, <1>23, <1>24, <1>25, <1>26, <1>27, <1>28, <1>29, <1>30, <1>31,
    <1>32, <1>33 DEF Next, Worker, Reply, Operator

\* A signature's fourth success is the last step of its task, whatever was done
\* between the repetitions and however large the budget is.
THEOREM RepeatsEnd == Spec => []RepeatsBounded
<1>1. Init => RepeatInv
  BY DEF Init, RepeatInv
<1>2. TypeOK /\ TypeOK' /\ RepeatInv /\ [Next]_vars => RepeatInv'
  BY RepeatInductive DEF TypeOK
<1>3. TypeOK /\ RepeatInv => RepeatsBounded
  <2> SUFFICES ASSUME TypeOK, RepeatInv, NEW s \in DOMAIN seen
               PROVE seen[s] <= 4 /\ (seen[s] = 4 => pc \notin Step \cup Planning)
    BY DEF RepeatsBounded
  <2>1. s \in Action \X Finding /\ seen[s] \in Nat
    BY DEF TypeOK, DataOK
  <2>2. QED
    BY <2>1 DEF RepeatInv
<1>4. QED
  BY <1>1, <1>2, <1>3, TypeCorrect, PTL DEF Spec
-----------------------------------------------------------------------------
(* Guidance.                                                               *)

\* The waiting message is newer than every delivered one.
GuidanceInv ==
  /\ \A i \in DOMAIN told : told[i] <= queued
  /\ \A g \in slot : g <= queued /\ \A i \in DOMAIN told : told[i] < g
  /\ GuidanceInOrder

\* Every step keeps the slot newer than everything the reasoner was told.
LEMMA GuidanceInductive ==
  ASSUME DataOK, GuidanceInv, [Next]_vars PROVE GuidanceInv'
<1> USE KernelAssumption
<1>1. CASE \E o \in Objective : Submit(o)
  BY <1>1 DEF Submit, GuidanceInv, GuidanceInOrder, operator
<1>2. CASE Admit
  BY <1>2 DEF Admit, ReturnVerdict, GuidanceInv, GuidanceInOrder, operator
<1>3. CASE LoopHead
  BY <1>3 DEF LoopHead, CancelTask, ReturnVerdict, GuidanceInv,
    GuidanceInOrder, operator
<1>4. CASE SelectReflex
  BY <1>4 DEF SelectReflex, GuidanceInv, GuidanceInOrder, operator
<1>5. CASE AssembleContext
  <2>1. UNCHANGED queued /\ slot' = {}
    BY <1>5 DEF AssembleContext
  <2>2. CASE told' = told
    BY <2>1, <2>2 DEF GuidanceInv, GuidanceInOrder
  <2>3. ASSUME NEW g \in slot, told' = Append(told, g) PROVE GuidanceInv'
    <3>1. g \in 1..MaxGuidance /\ told \in Seq(1..MaxGuidance)
      BY DEF DataOK, Option
    <3>2. Len(told) \in Nat /\ DOMAIN told = 1..Len(told)
      BY <3>1
    <3>3. DOMAIN told' = 1..(Len(told) + 1)
      BY <2>3, <3>1
    <3>4. \A i \in DOMAIN told' :
            told'[i] = IF i = Len(told) + 1 THEN g ELSE told[i]
      BY <2>3, <3>1, <3>3
    <3>5. \A i \in DOMAIN told' : i # Len(told) + 1 => i \in DOMAIN told
      BY <3>2, <3>3
    <3>6. g <= queued /\ \A i \in DOMAIN told : told[i] < g
      BY DEF GuidanceInv
    <3>7. \A i \in DOMAIN told' : told'[i] <= queued'
      BY <2>1, <3>4, <3>5, <3>6 DEF GuidanceInv
    <3>8. GuidanceInOrder'
      <4> SUFFICES ASSUME NEW i \in DOMAIN told', NEW j \in DOMAIN told', i < j
                   PROVE told'[i] < told'[j]
        BY DEF GuidanceInOrder
      <4>1. i \in DOMAIN told /\ told'[i] = told[i]
        BY <3>2, <3>3, <3>4, <3>5
      <4>2. CASE j = Len(told) + 1
        BY <3>4, <3>6, <4>1, <4>2
      <4>3. CASE j # Len(told) + 1
        BY <3>4, <3>5, <4>1, <4>3 DEF GuidanceInv, GuidanceInOrder
      <4>4. QED
        BY <4>2, <4>3
    <3>9. QED
      BY <2>1, <3>7, <3>8 DEF GuidanceInv
  <2>4. QED
    BY <1>5, <2>2, <2>3 DEF AssembleContext
<1>6. CASE CheckBeforeDispatch
  BY <1>6 DEF CheckBeforeDispatch, CancelTask, ReturnVerdict, GuidanceInv,
    GuidanceInOrder, operator
<1>7. CASE CapturePreState
  BY <1>7 DEF CapturePreState, Checkpoint, CancelStep, InStep, GuidanceInv,
    GuidanceInOrder, operator
<1>8. CASE CaptureFails
  BY <1>8 DEF CaptureFails, Fail, ReturnVerdict, GuidanceInv, GuidanceInOrder,
    operator
<1>9. CASE ApprovalGate
  BY <1>9 DEF ApprovalGate, Checkpoint, CancelStep, InStep, GuidanceInv,
    GuidanceInOrder, operator
<1>10. CASE Dispatch
  BY <1>10 DEF Dispatch, InStep, GuidanceInv, GuidanceInOrder, operator
<1>11. CASE CheckBeforeExecution
  BY <1>11 DEF CheckBeforeExecution, Checkpoint, CancelStep, InStep,
    GuidanceInv, GuidanceInOrder, operator
<1>12. CASE Execute
  BY <1>12 DEF Execute, InStep, GuidanceInv, GuidanceInOrder, operator
<1>13. CASE ReceiveResult
  BY <1>13 DEF ReceiveResult, InStep, GuidanceInv, GuidanceInOrder, operator
<1>14. CASE CheckAfterResult
  BY <1>14 DEF CheckAfterResult, Checkpoint, CancelStep, InStep, GuidanceInv,
    GuidanceInOrder, operator
<1>15. CASE Verify
  BY <1>15 DEF Verify, InStep, GuidanceInv, GuidanceInOrder, operator
<1>16. CASE RecordExperience
  BY <1>16 DEF RecordExperience, InStep, GuidanceInv, GuidanceInOrder,
    operator
<1>17. CASE Consolidate
  BY <1>17 DEF Consolidate, InStep, GuidanceInv, GuidanceInOrder, operator
<1>18. CASE Judge
  BY <1>18 DEF Judge, InStep, RecordFailure, GuidanceInv, GuidanceInOrder,
    operator
<1>19. CASE \E f \in Finding : RecordStep(f)
  BY <1>19 DEF RecordStep, GuidanceInv, GuidanceInOrder, operator
<1>20. CASE Conclude
  BY <1>20 DEF Conclude, ReturnVerdict, GuidanceInv, GuidanceInOrder, operator
<1>21. CASE MemoryFails
  BY <1>21 DEF MemoryFails, Fail, ReturnVerdict, GuidanceInv, GuidanceInOrder,
    operator
<1>22. CASE Collect
  BY <1>22 DEF Collect, GuidanceInv, GuidanceInOrder, operator
<1>23. CASE \E r \in Rule : ReasonerAnswers(r)
  BY <1>23 DEF ReasonerAnswers, GuidanceInv, GuidanceInOrder, operator
<1>24. CASE PlanningFails
  BY <1>24 DEF PlanningFails, Fail, ReturnVerdict, GuidanceInv,
    GuidanceInOrder, operator
<1>25. CASE Approve
  BY <1>25 DEF Approve, InStep, GuidanceInv, GuidanceInOrder, operator
<1>26. CASE Deny
  BY <1>26 DEF Deny, InStep, GuidanceInv, GuidanceInOrder, operator
<1>27. CASE CancelPrompt
  BY <1>27 DEF CancelPrompt, CancelStep, InStep, GuidanceInv, GuidanceInOrder,
    operator
<1>28. CASE ApprovalFails
  BY <1>28 DEF ApprovalFails, Fail, ReturnVerdict, GuidanceInv,
    GuidanceInOrder, operator
<1>29. CASE ExecutionFails
  BY <1>29 DEF ExecutionFails, InStep, RecordFailure, GuidanceInv,
    GuidanceInOrder, operator
<1>30. CASE \E r \in Result : ExecutionReturns(r)
  BY <1>30 DEF ExecutionReturns, InStep, GuidanceInv, GuidanceInOrder,
    operator
<1>31. CASE RequestCancel
  BY <1>31 DEF RequestCancel, GuidanceInv, GuidanceInOrder, operator
<1>32. CASE QueueGuidance
  <2>1. queued \in Nat /\ \A i \in DOMAIN told : told[i] \in Nat
    BY DEF DataOK
  <2>2. queued' = queued + 1 /\ slot' = {queued + 1} /\ told' = told
    BY <1>32 DEF QueueGuidance
  <2>3. QED
    BY <2>1, <2>2 DEF GuidanceInv, GuidanceInOrder
<1>33. CASE UNCHANGED vars
  BY <1>33 DEF vars, GuidanceInv, GuidanceInOrder, operator
<1>34. QED
  BY <1>1, <1>2, <1>3, <1>4, <1>5, <1>6, <1>7, <1>8, <1>9, <1>10, <1>11,
    <1>12, <1>13, <1>14, <1>15, <1>16, <1>17, <1>18, <1>19, <1>20, <1>21,
    <1>22, <1>23, <1>24, <1>25, <1>26, <1>27, <1>28, <1>29, <1>30, <1>31,
    <1>32, <1>33 DEF Next, Worker, Reply, Operator

\* Guidance is delivered in the order it was typed and each message at most
\* once, for every number of messages and however they meet the planning calls.
THEOREM GuidanceOrdered == Spec => []GuidanceInOrder
<1>1. Init => GuidanceInv
  BY DEF Init, GuidanceInv, GuidanceInOrder
<1>2. TypeOK /\ GuidanceInv /\ [Next]_vars => GuidanceInv'
  BY GuidanceInductive DEF TypeOK
<1>3. GuidanceInv => GuidanceInOrder
  BY DEF GuidanceInv
<1>4. QED
  BY <1>1, <1>2, <1>3, TypeCorrect, PTL DEF Spec
-----------------------------------------------------------------------------
(* Refinement of TaskLifecycle.                                            *)

\* The initial states of the loop are initial states of TaskLifecycle.
LEMMA RefinesInit == Init => Lifecycle!Init
BY DEF Init, Lifecycle!Init, phase

\* Every step of the loop is a step of TaskLifecycle or leaves it unchanged.
LEMMA RefinesNext ==
  ASSUME ControlOK, Budget, EndingInv, [Next]_vars
  PROVE  [Lifecycle!Next]_(Lifecycle!lifecycle)
<1> USE KernelAssumption, SingleEnding
<1>1. CASE \E o \in Objective : Submit(o)
  BY <1>1 DEF Submit, Lifecycle!Next, Lifecycle!Submit, phase,
    Lifecycle!lifecycle, stepvars, operator
<1>2. CASE Admit
  BY <1>2 DEF Admit, ReturnVerdict, Lifecycle!Next, Lifecycle!Return,
    Lifecycle!Verdicts, EndingInv, Idle, Lifecycle!Endings, Endings, phase,
    Lifecycle!lifecycle, stepvars, operator
<1>3. CASE LoopHead
  BY <1>3 DEF LoopHead, CancelTask, ReturnVerdict, Lifecycle!Next,
    Lifecycle!Return, Lifecycle!Verdicts, EndingInv, Idle, Lifecycle!Endings,
    Endings, phase, Lifecycle!lifecycle, stepvars, operator
<1>4. CASE SelectReflex
  BY <1>4 DEF SelectReflex, phase, Lifecycle!lifecycle, stepvars, operator
<1>5. CASE AssembleContext
  BY <1>5 DEF AssembleContext, phase, Lifecycle!lifecycle, stepvars, operator
<1>6. CASE CheckBeforeDispatch
  BY <1>6 DEF CheckBeforeDispatch, CancelTask, ReturnVerdict, Lifecycle!Next,
    Lifecycle!Return, Lifecycle!Verdicts, EndingInv, Idle, Lifecycle!Endings,
    Endings, phase, Lifecycle!lifecycle, stepvars, operator
<1>7. CASE CapturePreState
  BY <1>7 DEF CapturePreState, Checkpoint, CancelStep, InStep, Lifecycle!Next,
    Lifecycle!Announce, EndingInv, phase, Lifecycle!lifecycle, stepvars,
    operator
<1>8. CASE CaptureFails
  BY <1>8 DEF CaptureFails, Fail, ReturnVerdict, Lifecycle!Next,
    Lifecycle!Return, Lifecycle!Verdicts, EndingInv, Idle, phase,
    Lifecycle!lifecycle, stepvars, operator
<1>9. CASE ApprovalGate
  BY <1>9 DEF ApprovalGate, Checkpoint, CancelStep, InStep, Lifecycle!Next,
    Lifecycle!Announce, EndingInv, phase, Lifecycle!lifecycle, stepvars,
    operator
<1>10. CASE Dispatch
  BY <1>10 DEF Dispatch, InStep, phase, Lifecycle!lifecycle, stepvars,
    operator
<1>11. CASE CheckBeforeExecution
  BY <1>11 DEF CheckBeforeExecution, Checkpoint, CancelStep, InStep,
    Lifecycle!Next, Lifecycle!Announce, EndingInv, phase, Lifecycle!lifecycle,
    stepvars, operator
<1>12. CASE Execute
  BY <1>12 DEF Execute, InStep, Lifecycle!Next, Lifecycle!Execute, EndingInv,
    ControlOK, Budget, Step, Planning, phase, Lifecycle!lifecycle, stepvars,
    operator
<1>13. CASE ReceiveResult
  BY <1>13 DEF ReceiveResult, InStep, phase, Lifecycle!lifecycle, stepvars,
    operator
<1>14. CASE CheckAfterResult
  BY <1>14 DEF CheckAfterResult, Checkpoint, CancelStep, InStep,
    Lifecycle!Next, Lifecycle!Announce, EndingInv, phase, Lifecycle!lifecycle,
    stepvars, operator
<1>15. CASE Verify
  BY <1>15 DEF Verify, InStep, phase, Lifecycle!lifecycle, stepvars, operator
<1>16. CASE RecordExperience
  BY <1>16 DEF RecordExperience, InStep, phase, Lifecycle!lifecycle, stepvars,
    operator
<1>17. CASE Consolidate
  BY <1>17 DEF Consolidate, InStep, phase, Lifecycle!lifecycle, stepvars,
    operator
<1>18. CASE Judge
  BY <1>18 DEF Judge, InStep, RecordFailure, phase, Lifecycle!lifecycle,
    stepvars, operator
<1>19. CASE \E f \in Finding : RecordStep(f)
  BY <1>19 DEF RecordStep, phase, Lifecycle!lifecycle, stepvars, operator
<1>20. CASE Conclude
  BY <1>20 DEF Conclude, ReturnVerdict, Lifecycle!Next, Lifecycle!Return,
    Lifecycle!Verdicts, EndingInv, Idle, Lifecycle!Endings, Endings, phase,
    Lifecycle!lifecycle, stepvars, operator
<1>21. CASE MemoryFails
  <2>1. \/ closing' = closing
        \/ \E e \in Endings : closing = <<>> /\ closing' = <<e>>
    <3>1. ASSUME NEW e \in Due PROVE e \in Endings /\ closing = <<>>
      BY DueWhere DEF EndingInv
    <3>2. QED
      BY <1>21, <3>1 DEF MemoryFails
  <2>2. pc \notin Idle /\ pc' = "returned" /\ verdict' = "error" /\ runs' = runs
    <3>1. pc \notin Idle
      BY <1>21, DueWhere DEF MemoryFails, CallsMemory, Idle
    <3>2. QED
      BY <1>21, <3>1 DEF MemoryFails, Fail, ReturnVerdict
  <2>3. Lifecycle!Return("error")
    BY <2>1, <2>2 DEF Lifecycle!Return, Lifecycle!Endings, Endings, Idle, phase
  <2>4. QED
    BY <2>3 DEF Lifecycle!Next, Lifecycle!Verdicts
<1>22. CASE Collect
  BY <1>22 DEF Collect, Lifecycle!Next, Lifecycle!Collect, phase,
    Lifecycle!lifecycle, stepvars, operator
<1>23. CASE \E r \in Rule : ReasonerAnswers(r)
  BY <1>23 DEF ReasonerAnswers, phase, Lifecycle!lifecycle, stepvars, operator
<1>24. CASE PlanningFails
  BY <1>24 DEF PlanningFails, Fail, ReturnVerdict, Lifecycle!Next,
    Lifecycle!Return, Lifecycle!Verdicts, EndingInv, Idle, phase,
    Lifecycle!lifecycle, stepvars, operator
<1>25. CASE Approve
  BY <1>25 DEF Approve, InStep, phase, Lifecycle!lifecycle, stepvars, operator
<1>26. CASE Deny
  BY <1>26 DEF Deny, InStep, phase, Lifecycle!lifecycle, stepvars, operator
<1>27. CASE CancelPrompt
  BY <1>27 DEF CancelPrompt, CancelStep, InStep, Lifecycle!Next,
    Lifecycle!Announce, EndingInv, phase, Lifecycle!lifecycle, stepvars,
    operator
<1>28. CASE ApprovalFails
  BY <1>28 DEF ApprovalFails, Fail, ReturnVerdict, Lifecycle!Next,
    Lifecycle!Return, Lifecycle!Verdicts, EndingInv, Idle, phase,
    Lifecycle!lifecycle, stepvars, operator
<1>29. CASE ExecutionFails
  BY <1>29 DEF ExecutionFails, InStep, RecordFailure, phase,
    Lifecycle!lifecycle, stepvars, operator
<1>30. CASE \E r \in Result : ExecutionReturns(r)
  BY <1>30 DEF ExecutionReturns, InStep, phase, Lifecycle!lifecycle, stepvars,
    operator
<1>31. CASE RequestCancel
  BY <1>31 DEF RequestCancel, phase, Lifecycle!lifecycle, stepvars, operator
<1>32. CASE QueueGuidance
  BY <1>32 DEF QueueGuidance, phase, Lifecycle!lifecycle, stepvars, operator
<1>33. CASE UNCHANGED vars
  BY <1>33 DEF vars, phase, Lifecycle!lifecycle, stepvars, operator
<1>34. QED
  BY <1>1, <1>2, <1>3, <1>4, <1>5, <1>6, <1>7, <1>8, <1>9, <1>10, <1>11,
    <1>12, <1>13, <1>14, <1>15, <1>16, <1>17, <1>18, <1>19, <1>20, <1>21,
    <1>22, <1>23, <1>24, <1>25, <1>26, <1>27, <1>28, <1>29, <1>30, <1>31,
    <1>32, <1>33 DEF Next, Worker, Reply, Operator

\* Every behaviour of the loop is a life of tasks as TaskLifecycle promises it:
\* at most MaxSteps executions, none once an ending is on record, one ending at
\* most, success only with TaskCompleted on record, and no block with it.
THEOREM LoopImplementsLifecycle == Spec => ImplementsLifecycle
<1>1. Init => EndingInv
  BY DEF Init, EndingInv, Idle
<1>2. EndingInv /\ [Next]_vars => EndingInv'
  BY EndingInductive
<1>3. TypeOK /\ Budget /\ EndingInv /\ [Next]_vars
        => [Lifecycle!Next]_(Lifecycle!lifecycle)
  BY RefinesNext DEF TypeOK
<1>4. QED
  BY <1>1, <1>2, <1>3, RefinesInit, WithinBudget, PTL
     DEF Spec, ImplementsLifecycle, Lifecycle!Spec
=============================================================================
