------------------------- MODULE ProcessControlProofs -------------------------
(***************************************************************************)
(* Proofs about ProcessControl, for pipes of any capacity and any set of   *)
(* background processes.                                                   *)
(***************************************************************************)
EXTENDS ProcessControl, TLAPS

\* Between the poll that saw the child alive and the end of the stop sequence
\* nobody waits for the child; and a cancellation is noted only for a stop, and
\* kept from then on with the SIGTERM it caused.
StopInv ==
  /\ pc \in {"check", "terminate", "grace", "kill", "reap"} => child # "reaped"
  /\ cancelled => stop
  /\ cancelled /\ pc # "terminate" => asked
  /\ pc = "returned" => (result.cancelled => cancelled /\ ~result.ok)

IInv == TypeOK /\ StopInv

LEMMA InitHolds == Init => IInv
<1> USE ProcessAssumption
<1>1. Init => TypeOK
  <2> SUFFICES ASSUME Init PROVE TypeOK
    OBVIOUS
  <2>1. 0 \in 0..Capacity
    OBVIOUS
  <2>2. fill \in [Pipe -> 0..Capacity]
    BY <2>1 DEF Init
  <2>3. writing \in [Process -> Pipe \cup {"nothing"}]
    BY DEF Init
  <2>4. result \in [ok : BOOLEAN, cancelled : BOOLEAN]
    BY DEF Init
  <2>5. QED
    BY <2>2, <2>3, <2>4 DEF Init, TypeOK, Looping
<1>2. Init => StopInv
  BY DEF Init, StopInv
<1>3. QED
  BY <1>1, <1>2 DEF IInv

\* What a process of the command does leaves run_command where it is.
LEMMA CommandKeeps == ASSUME IInv, Command PROVE IInv'
<1> USE ProcessAssumption DEF IInv, TypeOK, StopInv, Pipe, Process, Kinds
<1>1. ASSUME NEW p \in Process, EndWrite(p) PROVE IInv'
  BY <1>1 DEF EndWrite
<1>2. ASSUME NEW p \in Process, NEW q \in Pipe, BeginWrite(p, q) PROVE IInv'
  BY <1>2 DEF BeginWrite
<1>3. ASSUME NEW k \in Background, StartBackground(k) PROVE IInv'
  BY <1>3 DEF StartBackground
<1>4. ASSUME NEW ok \in BOOLEAN, ChildExits(ok) PROVE IInv'
  BY <1>4 DEF ChildExits, Runs
<1>5. CASE OtherExits
  BY <1>5 DEF OtherExits
<1>6. QED
  BY <1>1, <1>2, <1>3, <1>4, <1>5 DEF Command

\* No step of run_command signals or waits at the wrong time.
LEMMA ShellKeeps == ASSUME IInv, Shell PROVE IInv'
<1> USE ProcessAssumption DEF IInv, TypeOK, StopInv, Looping, Ended, Pipe
<1>1. CASE Poll
  BY <1>1 DEF Poll
<1>2. CASE Check
  BY <1>2 DEF Check, os
<1>3. CASE Terminate
  BY <1>3 DEF Terminate
<1>4. CASE Grace
  BY <1>4 DEF Grace
<1>5. CASE ForceKill
  BY <1>5 DEF ForceKill, Kinds
<1>6. CASE Reap
  BY <1>6 DEF Reap
<1>7. ASSUME NEW q \in Pipe, Read(q) PROVE IInv'
  BY <1>7 DEF Read
<1>8. ASSUME NEW q \in Pipe, Finish(q) PROVE IInv'
  <2>1. UNCHANGED <<child, deaf, exitOk, other, writing, fill, asked, stop, cancelled>>
    BY <1>8 DEF Finish, os
  <2>2. CASE q = "stdout"
    BY <1>8, <2>1, <2>2 DEF Finish
  <2>3. CASE q = "stderr"
    <3>1. /\ pc' = "returned"
          /\ result' = [ok |-> exitOk /\ ~cancelled, cancelled |-> cancelled]
      BY <1>8, <2>3 DEF Finish
    <3>2. (exitOk /\ ~cancelled) \in BOOLEAN
      OBVIOUS
    <3>3. result' \in [ok : BOOLEAN, cancelled : BOOLEAN]
      BY <3>1, <3>2
    <3>4. TypeOK'
      BY <2>1, <3>1, <3>3
    <3>5. result'.cancelled = cancelled /\ result'.ok = (exitOk /\ ~cancelled)
      BY <3>1
    <3>6. StopInv'
      <4>1. /\ pc = "stderr"
            /\ UNCHANGED <<child, asked, stop, cancelled>>
        BY <1>8, <2>1, <2>3 DEF Finish
      <4>2. result'.cancelled => cancelled' /\ ~result'.ok
        BY <3>5, <4>1, Zenon
      <4>3. QED
        BY <3>1, <4>1, <4>2
    <3>7. QED
      BY <3>4, <3>6
  <2>4. QED
    BY <2>2, <2>3
<1>9. ASSUME NEW q \in Pipe, Garbled(q) PROVE IInv'
  BY <1>9 DEF Garbled, os
<1>10. QED
  BY <1>1, <1>2, <1>3, <1>4, <1>5, <1>6, <1>7, <1>8, <1>9 DEF Shell

LEMMA StepHolds == ASSUME IInv, [Next]_vars PROVE IInv'
<1>1. CASE Command
  BY <1>1, CommandKeeps
<1>2. CASE Terminated
  BY <1>2 DEF Terminated, IInv, TypeOK, StopInv, Runs
<1>3. CASE Shell
  BY <1>3, ShellKeeps
<1>4. CASE RequestCancel
  BY <1>4 DEF RequestCancel, os, IInv, TypeOK, StopInv
<1>5. CASE UNCHANGED vars
  BY <1>5 DEF vars, IInv, TypeOK, StopInv
<1>6. QED
  BY <1>1, <1>2, <1>3, <1>4, <1>5 DEF Next

LEMMA Holds == Spec => []IInv
BY InitHolds, StepHolds, PTL DEF Spec

\* The state of a command is always of its type, and the stop sequence runs
\* only for a stop that was noted.
THEOREM CommandTyped == Spec => []TypeOK
<1>1. IInv => TypeOK
  BY DEF IInv
<1>2. QED
  BY <1>1, Holds, PTL

\* No signal is sent to a pid that was waited for.
THEOREM SignalsReachTheChild == Spec => []SignalsOwnChild
<1>1. IInv => SignalsOwnChild
  BY DEF IInv, StopInv, SignalsOwnChild
<1>2. QED
  BY <1>1, Holds, PTL

\* A result that says "cancelled" belongs to a stop that was signalled, and is
\* never a success.
THEOREM CancellationsTruthful == Spec => []CancelTruthful
<1>1. IInv => CancelTruthful
  BY DEF IInv, StopInv, CancelTruthful
<1>2. QED
  BY <1>1, Holds, PTL
=============================================================================
