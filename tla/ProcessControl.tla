---------------------------- MODULE ProcessControl ----------------------------
(***************************************************************************)
(* CliShell::run_command: the shell thread polls a child process, looks at *)
(* the stop flag between two polls, terminates the child's process group   *)
(* on a stop, and reads the child's two pipes once the child has exited.   *)
(*                                                                         *)
(* The operating system is modelled as far as the code relies on it: pipes *)
(* of bounded capacity, SIGTERM that a process may ignore, SIGKILL that it *)
(* may not, zombies that keep their pid until they are waited for, and     *)
(* end-of-file that needs every writer to be gone.  The child (`sh -lc`)   *)
(* may start one further process, which inherits its pipes.                *)
(***************************************************************************)
EXTENDS Naturals

CONSTANTS
  Capacity,     \* writes a pipe holds before the writer blocks
  Background    \* kinds of process the child may start and leave behind

Kinds == {"obedient", "stubborn", "escaped"}

\* "obedient" dies on SIGTERM, "stubborn" ignores it, "escaped" has left the
\* process group.
ASSUME ProcessAssumption == Capacity \in Nat \ {0} /\ Background \subseteq Kinds

VARIABLES
  pc,         \* where run_command is
  child,      \* "running", "zombie" (exited, not yet waited for), "reaped"
  deaf,       \* the child ignores SIGTERM
  exitOk,     \* the exit status is a success
  other,      \* the process the child started: "none", a kind, or "gone"
  writing,    \* the pipe each process is writing to, if any
  fill,       \* writes in each pipe that nobody has read
  stop,       \* cancel_requested of the control handle
  asked,      \* SIGTERM was sent to the group
  cancelled,  \* the local variable `cancelled`
  result      \* what run_command returned

vars == <<pc, child, deaf, exitOk, other, writing, fill, stop, asked,
          cancelled, result>>

Pipe    == {"stdout", "stderr"}
Process == {"child", "other"}
Looping == {"poll", "check", "terminate", "grace", "kill", "reap"}
Ended   == {"returned", "failed"}

Runs(p) == IF p = "child" THEN child = "running" ELSE other \in Kinds

\* A reader sees end-of-file when nobody can write any more.
NoWriter == \A p \in Process : ~Runs(p)

Init ==
  /\ pc = "poll"
  /\ child = "running" /\ deaf \in BOOLEAN /\ exitOk = FALSE
  /\ other = "none"
  /\ writing = [p \in Process |-> "nothing"]
  /\ fill = [q \in Pipe |-> 0]
  /\ stop = FALSE /\ asked = FALSE /\ cancelled = FALSE
  /\ result = [ok |-> FALSE, cancelled |-> FALSE]
-----------------------------------------------------------------------------
(* The command: writes, a background process, the end.                     *)

os == <<child, deaf, exitOk, other, writing, fill, asked>>

\* A write call begins; it returns once the pipe has room.
BeginWrite(p, q) ==
  /\ Runs(p) /\ writing[p] = "nothing"
  /\ writing' = [writing EXCEPT ![p] = q]
  /\ UNCHANGED <<pc, child, deaf, exitOk, other, fill, stop, asked, cancelled, result>>

EndWrite(p) ==
  /\ Runs(p)
  /\ \E q \in Pipe : /\ writing[p] = q /\ fill[q] < Capacity
                     /\ fill' = [fill EXCEPT ![q] = @ + 1]
  /\ writing' = [writing EXCEPT ![p] = "nothing"]
  /\ UNCHANGED <<pc, child, deaf, exitOk, other, stop, asked, cancelled, result>>

StartBackground(k) ==
  /\ Runs("child") /\ writing["child"] = "nothing" /\ other = "none"
  /\ other' = k
  /\ UNCHANGED <<pc, child, deaf, exitOk, writing, fill, stop, asked, cancelled, result>>

\* The child exits of its own accord, or from its SIGTERM handler.
ChildExits(ok) ==
  /\ Runs("child") /\ writing["child"] = "nothing"
  /\ child' = "zombie" /\ exitOk' = ok
  /\ UNCHANGED <<pc, deaf, other, writing, fill, stop, asked, cancelled, result>>

OtherExits ==
  /\ Runs("other") /\ writing["other"] = "nothing"
  /\ other' = "gone"
  /\ UNCHANGED <<pc, child, deaf, exitOk, writing, fill, stop, asked, cancelled, result>>

\* SIGTERM takes effect, also in a process that is blocked on a full pipe.
Terminated ==
  /\ asked
  /\ \/ Runs("child") /\ ~deaf /\ child' = "zombie" /\ UNCHANGED other
     \/ other = "obedient" /\ other' = "gone" /\ UNCHANGED child
  /\ UNCHANGED <<pc, deaf, exitOk, writing, fill, stop, asked, cancelled, result>>

Command ==
  \/ \E p \in Process : EndWrite(p) \/ \E q \in Pipe : BeginWrite(p, q)
  \/ \E k \in Background : StartBackground(k)
  \/ \E ok \in BOOLEAN : ChildExits(ok)
  \/ OtherExits
-----------------------------------------------------------------------------
(* run_command.                                                            *)

\* child.try_wait(): an exited child is waited for here.
Poll ==
  /\ pc = "poll"
  /\ \/ child # "running" /\ child' = "reaped" /\ pc' = "stdout"
     \/ child = "running" /\ pc' = "check" /\ UNCHANGED child
  /\ UNCHANGED <<deaf, exitOk, other, writing, fill, stop, asked, cancelled, result>>

\* Variant: terminates the command without noting why.
CheckUnnoted ==
  /\ pc = "check"
  /\ pc' = IF stop THEN "terminate" ELSE "poll"
  /\ UNCHANGED <<os, stop, cancelled, result>>

\* The stop flag, or 50 ms of sleep.
Check ==
  /\ pc = "check"
  /\ cancelled' = stop
  /\ pc' = IF stop THEN "terminate" ELSE "poll"
  /\ UNCHANGED <<os, stop, result>>

\* terminate_child_gracefully: SIGTERM to the process group.
Terminate ==
  /\ pc = "terminate"
  /\ asked' = TRUE
  /\ pc' = "grace"
  /\ UNCHANGED <<child, deaf, exitOk, other, writing, fill, stop, cancelled, result>>

\* Variant: kills after the grace period whatever happened in it.
GraceAlwaysKilling ==
  /\ pc = "grace"
  /\ \/ child = "running" /\ UNCHANGED child
     \/ child # "running" /\ child' = "reaped"
  /\ pc' = "kill"
  /\ UNCHANGED <<deaf, exitOk, other, writing, fill, stop, asked, cancelled, result>>

\* wait_for_exit: the child's exit is noticed (and waited for), or one second
\* passes without it.
Grace ==
  /\ pc = "grace"
  /\ \/ child = "running" /\ pc' = "kill" /\ UNCHANGED child
     \/ child # "running" /\ child' = "reaped" /\ pc' = "poll"
  /\ UNCHANGED <<deaf, exitOk, other, writing, fill, stop, asked, cancelled, result>>

\* Variant: asks once more instead of forcing.
ForceKillByTerm ==
  /\ pc = "kill"
  /\ asked' = TRUE
  /\ pc' = "reap"
  /\ UNCHANGED <<child, deaf, exitOk, other, writing, fill, stop, cancelled, result>>

\* force_kill_child: SIGKILL to the process group.
ForceKill ==
  /\ pc = "kill"
  /\ child' = IF child = "running" THEN "zombie" ELSE child
  /\ other' = IF other \in {"obedient", "stubborn"} THEN "gone" ELSE other
  /\ pc' = "reap"
  /\ UNCHANGED <<deaf, exitOk, writing, fill, stop, asked, cancelled, result>>

\* child.wait() blocks until the child is dead.
Reap ==
  /\ pc = "reap" /\ child # "running"
  /\ child' = "reaped"
  /\ pc' = "poll"
  /\ UNCHANGED <<deaf, exitOk, other, writing, fill, stop, asked, cancelled, result>>

\* read_child_output: read_to_string takes what is there and goes on until
\* end-of-file, first on stdout, then on stderr; the stop flag is not looked at.
Read(q) ==
  /\ pc = q /\ fill[q] > 0
  /\ fill' = [fill EXCEPT ![q] = 0]
  /\ UNCHANGED <<pc, child, deaf, exitOk, other, writing, stop, asked, cancelled, result>>

\* Variant: reports what the exit status says.
FinishByStatus(q) ==
  /\ pc = q /\ fill[q] = 0 /\ NoWriter
  /\ \/ q = "stdout" /\ pc' = "stderr" /\ UNCHANGED result
     \/ q = "stderr" /\ pc' = "returned"
        /\ result' = [ok |-> exitOk, cancelled |-> cancelled]
  /\ UNCHANGED <<os, stop, cancelled>>

Finish(q) ==
  /\ pc = q /\ fill[q] = 0 /\ NoWriter
  /\ \/ q = "stdout" /\ pc' = "stderr" /\ UNCHANGED result
     \/ q = "stderr" /\ pc' = "returned"
        /\ result' = [ok |-> exitOk /\ ~cancelled, cancelled |-> cancelled]
  /\ UNCHANGED <<os, stop, cancelled>>

\* Output that is not UTF-8 makes read_to_string fail: the command ran, and the
\* caller gets an error.
Garbled(q) ==
  /\ pc = q /\ fill[q] = 0 /\ NoWriter
  /\ pc' = "failed"
  /\ UNCHANGED <<os, stop, cancelled, result>>

Shell ==
  \/ Poll \/ Check \/ Terminate \/ Grace \/ ForceKill \/ Reap
  \/ \E q \in Pipe : Read(q) \/ Finish(q) \/ Garbled(q)

RequestCancel ==
  /\ ~stop /\ stop' = TRUE
  /\ UNCHANGED <<pc, os, cancelled, result>>

Next == Command \/ Terminated \/ Shell \/ RequestCancel

Spec == Init /\ [][Next]_vars

\* The shell thread keeps running and the kernel delivers SIGTERM and completes
\* a write the pipe has room for.  Nothing is assumed of what the command does.
FairSpec == /\ Spec /\ WF_vars(Shell) /\ WF_vars(Terminated)
            /\ \A p \in Process : WF_vars(EndWrite(p))
-----------------------------------------------------------------------------
(* Correctness.                                                            *)

\* Values of their types, and a shell that terminates a command has noted that
\* it does so for a stop.
TypeOK ==
  /\ pc \in Looping \cup Pipe \cup Ended
  /\ child \in {"running", "zombie", "reaped"}
  /\ other \in Kinds \cup {"none", "gone"}
  /\ writing \in [Process -> Pipe \cup {"nothing"}]
  /\ fill \in [Pipe -> 0..Capacity]
  /\ deaf \in BOOLEAN /\ exitOk \in BOOLEAN
  /\ stop \in BOOLEAN /\ asked \in BOOLEAN /\ cancelled \in BOOLEAN
  /\ result \in [ok : BOOLEAN, cancelled : BOOLEAN]
  /\ pc \in {"terminate", "grace", "kill", "reap"} => stop /\ cancelled

\* A signal goes to the child's pid only while that pid is still the child's:
\* never after the child was waited for, when the system may have given the
\* number to a process of somebody else.
SignalsOwnChild == pc \in {"terminate", "kill"} => child # "reaped"

\* What the loop of the kernel relies on: a result says "cancelled" only if a
\* stop was requested and SIGTERM was sent, and then never reports success.
CancelTruthful ==
  pc = "returned" /\ result.cancelled => stop /\ asked /\ ~result.ok

\* A stop request makes the call return, also for a child that ignores SIGTERM
\* or is stuck on a pipe nobody reads, unless a process the child has started
\* is still alive and keeps the pipes open.
StopReturnsAlone == stop /\ pc \notin Ended ~> pc \in Ended \/ Runs("other")

\* "/s stops the current task through the harness control path": a stop request
\* makes the call return, whatever the command has started.
StopReturns == stop /\ pc \notin Ended ~> pc \in Ended
=============================================================================
