---------------------------- MODULE ManifestProofs ----------------------------
(***************************************************************************)
(* Proofs about Manifest, for any sets of runs, chats and visitors: what   *)
(* the table and the file may hold, that a process which is alone is       *)
(* described truthfully, and that a run hides no failed update behind the  *)
(* outcome of its task.                                                    *)
(***************************************************************************)
EXTENDS Manifest, FiniteSetTheorems, TLAPS

\* What TypeOK says of the processes, without counting.
ProcessesOK ==
  /\ pc \in [Process -> {"off", "save", "file", "open", "ready", "task"}]
  /\ doing \in [Process -> {"init", "busy", "idle"}]
  /\ result \in [Process -> Outcome \cup {"none", "error"}]
  /\ failed \in [Process -> BOOLEAN]
  /\ held = [p \in Process |-> held[p]]
  /\ \A p \in Process :
       IF pc[p] \in {"save", "file"} THEN \E m : held[p] = {m} ELSE held[p] = {}

\* The process has saved its first manifest.
Updated(p) == \/ pc[p] \in {"file", "open", "ready", "task"}
              \/ pc[p] = "save" /\ doing[p] # "init"

\* What it says of the manifests; no process that has read the row keeps roots,
\* so that they cannot come back.
ManifestsOK ==
  /\ \A m \in table : WellFormed(m)
  /\ \A m \in file : WellFormed(m)
  /\ \A p \in Process : \A m \in held[p] : WellFormed(m) /\ ~m.roots
  /\ table = {} \/ \E m : table = {m}
  /\ file = {} \/ \E m : file = {m}
  /\ \A p \in Process : Updated(p) => \A m \in table : ~m.roots

IInv == ProcessesOK /\ ManifestsOK

\* The manifests the code makes are well formed and have no roots, if the one they
\* are made from is, or when its roots are dropped.
LEMMA MadeWell ==
  /\ WellFormed(RootManifest)
  /\ \A m : WellFormed(m) => WellFormed(Normalized(m)) /\ ~Normalized(m).roots
  /\ \A m : WellFormed(m) =>
       LET busy == Transition([m EXCEPT !.status = "Running"], "Busy")
           idle == Transition([m EXCEPT !.status = "Idle"], "CoolingDown")
       IN  /\ WellFormed(busy) /\ busy.status = "Running" /\ busy.roots = m.roots
           /\ WellFormed(idle) /\ idle.status = "Idle" /\ idle.phase = "CoolingDown"
           /\ idle.roots = m.roots
  BY DEF WellFormed, RootManifest, Normalized, Transition, Status, Phase

\* The places, updates, results and memories of the processes keep their types.
LEMMA ProcessesInductive == ASSUME IInv, [Next]_vars PROVE ProcessesOK'
<1> USE DEF IInv
<1>1. CASE UNCHANGED vars
  BY <1>1 DEF vars, ProcessesOK
<1>2. CASE Next
  <2>1. PICK p \in Process : InitLoad(p) \/ Open(p) \/ BeginTask(p) \/ EndTask(p)
                        \/ Save(p) \/ WriteFile(p) \/ Fails(p) \/ Crash(p)
    BY <1>2 DEF Next
  <2>2. CASE InitLoad(p)
    BY <2>2 DEF InitLoad, Goes, Holds, ProcessesOK
  <2>3. CASE Open(p)
    BY <2>3 DEF Open, Goes, ProcessesOK
  <2>4. CASE BeginTask(p)
    BY <2>4 DEF BeginTask, Update, Goes, Holds, ProcessesOK
  <2>5. CASE EndTask(p)
    <3>1. PICK outcome \in Outcome \cup {"error", "panic"} :
            result' = [result EXCEPT ![p] = Caught(outcome)]
      BY <2>5 DEF EndTask
    <3>2. result' \in [Process -> Outcome \cup {"none", "error"}]
      BY <3>1 DEF Caught, ProcessesOK
    <3>3. QED
      BY <2>5, <3>2 DEF EndTask, Update, Goes, Holds, ProcessesOK
  <2>6. CASE Save(p)
    BY <2>6 DEF Save, Goes, ProcessesOK
  <2>7. CASE WriteFile(p)
    BY <2>7 DEF WriteFile, Goes, After, ProcessesOK
  <2>8. CASE Fails(p)
    BY <2>8 DEF Fails, Drops, FileCut, After, ProcessesOK
  <2>9. CASE Crash(p)
    BY <2>9 DEF Crash, Drops, FileCut, ProcessesOK
  <2>10. QED
    BY <2>1, <2>2, <2>3, <2>4, <2>5, <2>6, <2>7, <2>8, <2>9
<1>3. QED
  BY <1>1, <1>2

\* The table, the file and the memories hold well-formed manifests, without roots
\* as soon as any process has started.
LEMMA ManifestsInductive == ASSUME IInv, [Next]_vars PROVE ManifestsOK'
<1> USE DEF IInv
<1>1. CASE UNCHANGED vars
  BY <1>1 DEF vars, Updated, ManifestsOK
<1>2. CASE Next
  <2>1. PICK p \in Process : InitLoad(p) \/ Open(p) \/ BeginTask(p) \/ EndTask(p)
                        \/ Save(p) \/ WriteFile(p) \/ Fails(p) \/ Crash(p)
    BY <1>2 DEF Next
  <2>2. CASE InitLoad(p)
    <3>1. PICK m \in (IF table = {} THEN {RootManifest} ELSE table) :
            held' = [held EXCEPT ![p] = {Normalized(m)}]
      BY <2>2 DEF InitLoad, Holds
    <3>2. WellFormed(Normalized(m)) /\ ~Normalized(m).roots
      BY MadeWell DEF ManifestsOK
    <3>3. \A q \in Process : held'[q] = IF q = p THEN {Normalized(m)} ELSE held[q]
      BY <3>1 DEF ProcessesOK
    <3>4. \A q \in Process : Updated(q)' => Updated(q)
      BY <2>2 DEF InitLoad, Goes, Updated, ProcessesOK
    <3>5. table' = table /\ file' = file
      BY <2>2 DEF InitLoad
    <3>6. QED
      BY <3>2, <3>3, <3>4, <3>5 DEF ManifestsOK
  <2>3. CASE Open(p)
    BY <2>3 DEF Open, Goes, Updated, ProcessesOK, ManifestsOK
  <2>4. CASE BeginTask(p)
    <3>1. PICK m \in table :
            held' = [held EXCEPT ![p] = {Transition([m EXCEPT !.status = "Running"], "Busy")}]
      BY <2>4 DEF BeginTask, Update, Holds
    <3> DEFINE new == Transition([m EXCEPT !.status = "Running"], "Busy")
    <3>2. pc[p] \in {"ready", "task"}
      BY <2>4 DEF BeginTask, Goes
    <3>3. WellFormed(m) /\ ~m.roots
      BY <3>2 DEF ManifestsOK, Updated
    <3>4. WellFormed(new) /\ ~new.roots
      BY <3>3, MadeWell
    <3>5. \A q \in Process : held'[q] = IF q = p THEN {new} ELSE held[q]
      BY <3>1 DEF ProcessesOK
    <3>6. \A q \in Process : Updated(q)' => Updated(q)
      BY <2>4 DEF BeginTask, Update, Goes, Updated, ProcessesOK
    <3>7. table' = table /\ file' = file
      BY <2>4 DEF BeginTask, Update
    <3> HIDE DEF new
    <3>8. QED
      BY <3>4, <3>5, <3>6, <3>7 DEF ManifestsOK
  <2>5. CASE EndTask(p)
    <3>1. PICK m \in table :
            held' = [held EXCEPT ![p] = {Transition([m EXCEPT !.status = "Idle"], "CoolingDown")}]
      BY <2>5 DEF EndTask, Update, Holds
    <3> DEFINE new == Transition([m EXCEPT !.status = "Idle"], "CoolingDown")
    <3>2. pc[p] \in {"ready", "task"}
      BY <2>5 DEF EndTask, Goes
    <3>3. WellFormed(m) /\ ~m.roots
      BY <3>2 DEF ManifestsOK, Updated
    <3>4. WellFormed(new) /\ ~new.roots
      BY <3>3, MadeWell
    <3>5. \A q \in Process : held'[q] = IF q = p THEN {new} ELSE held[q]
      BY <3>1 DEF ProcessesOK
    <3>6. \A q \in Process : Updated(q)' => Updated(q)
      BY <2>5 DEF EndTask, Update, Goes, Updated, ProcessesOK
    <3>7. table' = table /\ file' = file
      BY <2>5 DEF EndTask, Update
    <3> HIDE DEF new
    <3>8. QED
      BY <3>4, <3>5, <3>6, <3>7 DEF ManifestsOK
  <2>6. CASE Save(p)
    BY <2>6 DEF Save, Goes, Updated, ProcessesOK, ManifestsOK
  <2>7. CASE WriteFile(p)
    BY <2>7 DEF WriteFile, Goes, After, Updated, ProcessesOK, ManifestsOK
  <2>8. CASE Fails(p)
    <3>1. table' = table /\ (file' = file \/ file' = {})
      BY <2>8 DEF Fails, Drops, FileCut
    <3>2. \A q \in Process : held'[q] = IF q = p THEN {} ELSE held[q]
      BY <2>8 DEF Fails, Drops, ProcessesOK
    <3>3. \A q \in Process : doing'[q] = doing[q] /\ (q # p => pc'[q] = pc[q])
      BY <2>8 DEF Fails, Drops, ProcessesOK
    <3>4. pc'[p] = "off" \/ Updated(p)
      BY <2>8 DEF Fails, Updated, ProcessesOK
    <3>5. \A q \in Process : Updated(q)' => Updated(q)
      BY <3>3, <3>4 DEF Updated
    <3>6. QED
      BY <3>1, <3>2, <3>5 DEF ManifestsOK
  <2>9. CASE Crash(p)
    BY <2>9 DEF Crash, Drops, FileCut, Updated, ProcessesOK, ManifestsOK
  <2>10. QED
    BY <2>1, <2>2, <2>3, <2>4, <2>5, <2>6, <2>7, <2>8, <2>9
<1>3. QED
  BY <1>1, <1>2

\* Both hold at the beginning.
LEMMA IInvInit == Init => IInv
<1> SUFFICES ASSUME Init PROVE IInv
  OBVIOUS
<1>1. ASSUME NEW m \in Left PROVE WellFormed(m)
  <2>1. CASE m = [status |-> "Idle", phase |-> "Ready", worked |-> FALSE, roots |-> TRUE]
    BY <2>1 DEF WellFormed, Status, Phase
  <2>2. CASE m = [status |-> "Running", phase |-> "Busy", worked |-> TRUE, roots |-> FALSE]
    BY <2>2 DEF WellFormed, Status, Phase
  <2>3. CASE m = [status |-> "Spawned", phase |-> "Ready", worked |-> FALSE, roots |-> FALSE]
    BY <2>3 DEF WellFormed, Status, Phase
  <2>4. CASE m = [status |-> "Running", phase |-> "Ready", worked |-> FALSE, roots |-> TRUE]
    BY <2>4 DEF WellFormed, Status, Phase
  <2>5. QED
    BY <2>1, <2>2, <2>3, <2>4 DEF Left
<1>2. ProcessesOK
  BY DEF Init, ProcessesOK
<1>3. ManifestsOK
  BY <1>1 DEF Init, ManifestsOK, Updated
<1>4. QED
  BY <1>2, <1>3 DEF IInv

LEMMA IInvAlways == Spec => []IInv
<1>1. IInv /\ [Next]_vars => IInv'
  BY ProcessesInductive, ManifestsInductive DEF IInv
<1>2. QED
  BY IInvInit, <1>1, PTL DEF Spec

\* Every manifest in the table, in the file or in a process is one the code makes,
\* there is at most one in each place, and roots do not come back (runtime.rs,
\* manifest.rs), for any number of processes and starts.
THEOREM ManifestTyped == Spec => []TypeOK
<1>1. IInv => TypeOK
  <2> SUFFICES ASSUME IInv PROVE TypeOK
    OBVIOUS
  <2> USE DEF IInv
  <2>1. \A m \in table \cup file \cup UNION {held[p] : p \in Process} : WellFormed(m)
    BY DEF ManifestsOK
  <2>2. ASSUME NEW S, S = {} \/ \E m : S = {m}
        PROVE  Cardinality(S) <= 1
    <3>1. Cardinality(S) = 0 \/ Cardinality(S) = 1
      BY <2>2, FS_EmptySet, FS_Singleton
    <3>2. QED
      BY <3>1
  <2>3. \A p \in Process :
          Cardinality(held[p]) = IF pc[p] \in {"save", "file"} THEN 1 ELSE 0
    BY FS_EmptySet, FS_Singleton DEF ProcessesOK
  <2>4. QED
    BY <2>1, <2>2, <2>3 DEF TypeOK, ProcessesOK, ManifestsOK, Updated
<1>2. QED
  BY IInvAlways, <1>1, PTL

\* A run of which a read or write of the manifest failed has given up, with an error.
FailedRunsStop ==
  \A p \in Runner : failed[p] => pc[p] = "off" /\ result[p] = "error"

\* `retina run' returns an error if a read or write of the manifest failed, also
\* when the task had ended with an outcome (controller.rs,
\* execute_with_root_state).
THEOREM RunsReported == Spec => []RunReported
<1>1. Init => FailedRunsStop
  BY DEF Init, FailedRunsStop, Process
<1>2. IInv /\ FailedRunsStop /\ [Next]_vars => FailedRunsStop'
  <2> SUFFICES ASSUME IInv, FailedRunsStop, [Next]_vars PROVE FailedRunsStop'
    OBVIOUS
  <2> USE ManifestAssumption DEF IInv, ProcessesOK, Process
  <2>1. CASE UNCHANGED vars
    BY <2>1 DEF vars, FailedRunsStop
  <2>2. CASE Next
    <3>1. PICK p \in Process : InitLoad(p) \/ Open(p) \/ BeginTask(p) \/ EndTask(p)
                              \/ Save(p) \/ WriteFile(p) \/ Fails(p) \/ Crash(p)
      BY <2>2 DEF Next
    <3>2. CASE InitLoad(p)
      BY <3>2 DEF InitLoad, Goes, FailedRunsStop
    <3>3. CASE Open(p) \/ BeginTask(p) \/ EndTask(p) \/ Save(p) \/ WriteFile(p)
      <4>1. failed' = failed
        BY <3>3 DEF Open, BeginTask, EndTask, Update, Save, WriteFile
      <4>2. /\ pc[p] # "off"
            /\ \A q \in Process : q # p => pc'[q] = pc[q] /\ result'[q] = result[q]
        BY <3>3 DEF Open, BeginTask, EndTask, Update, Save, WriteFile, Goes, Caught
      <4>3. QED
        BY <4>1, <4>2 DEF FailedRunsStop
    <3>4. CASE Fails(p)
      BY <3>4 DEF Fails, Drops, FailedRunsStop
    <3>5. CASE Crash(p)
      BY <3>5 DEF Crash, Drops, FailedRunsStop
    <3>6. QED
      BY <3>1, <3>2, <3>3, <3>4, <3>5
  <2>3. QED
    BY <2>1, <2>2
<1>3. FailedRunsStop => RunReported
  BY DEF FailedRunsStop, RunReported
<1>4. QED
  BY IInvAlways, <1>1, <1>2, <1>3, PTL DEF Spec

\* What is known of a process that is alone: the others are off, and from the
\* reading of an update to the end of its file, memory, table and file agree step
\* by step.
AloneInv ==
  \A p \in alone :
    /\ p \in Process
    /\ \A q \in Process \ {p} : pc[q] = "off"
    /\ \A m \in held[p] :
         /\ doing[p] = "busy" => m.status = "Running"
         /\ doing[p] = "idle" => m.status = "Idle" /\ m.phase = "CoolingDown"
    /\ pc[p] = "file" => table = held[p]
    /\ (pc[p] \in {"save", "file"} /\ doing[p] = "init") \/ pc[p] = "open" => result[p] = "none"
    /\ pc[p] = "task" => \A m \in table : m.status = "Running"
    /\ (pc[p] \in {"ready", "off"} /\ result[p] # "none")
         => \A m \in table : m.status = "Idle" /\ m.phase = "CoolingDown"
    /\ pc[p] \notin {"save", "file"} => file = table

LEMMA AloneInductive == ASSUME IInv, AloneInv, [Next]_vars PROVE AloneInv'
<1> USE DEF IInv
<1>1. CASE UNCHANGED vars
  BY <1>1 DEF vars, AloneInv
<1>2. CASE Next
  <2>1. PICK p \in Process : InitLoad(p) \/ Open(p) \/ BeginTask(p) \/ EndTask(p)
                            \/ Save(p) \/ WriteFile(p) \/ Fails(p) \/ Crash(p)
    BY <1>2 DEF Next
  <2>2. CASE InitLoad(p)
    <3>1. (alone' = {p} /\ \A q \in Process \ {p} : pc[q] = "off") \/ alone' = {}
      BY <2>2 DEF InitLoad
    <3>2. /\ pc' = [pc EXCEPT ![p] = "save"] /\ doing' = [doing EXCEPT ![p] = "init"]
          /\ result' = [result EXCEPT ![p] = "none"]
      BY <2>2 DEF InitLoad, Goes
    <3>3. QED
      BY <3>1, <3>2 DEF AloneInv, ProcessesOK
  <2>3. ASSUME pc[p] # "off", alone' \subseteq alone
        PROVE  \A q \in alone' : q = p
    BY <2>3 DEF AloneInv
  <2>4. CASE Open(p)
    BY <2>3, <2>4 DEF Open, Goes, AloneInv, ProcessesOK
  <2>5. CASE BeginTask(p)
    <3>1. PICK m \in table :
            held' = [held EXCEPT ![p] = {Transition([m EXCEPT !.status = "Running"], "Busy")}]
      BY <2>5 DEF BeginTask, Update, Holds
    <3>2. \A n \in held'[p] : n.status = "Running"
      <4>1. WellFormed(m)
        BY DEF ManifestsOK
      <4>2. QED
        BY <3>1, <4>1, MadeWell DEF ProcessesOK
    <3>3. QED
      BY <2>3, <2>5, <3>2 DEF BeginTask, Update, Goes, AloneInv, ProcessesOK
  <2>6. CASE EndTask(p)
    <3>1. PICK m \in table :
            held' = [held EXCEPT ![p] = {Transition([m EXCEPT !.status = "Idle"], "CoolingDown")}]
      BY <2>6 DEF EndTask, Update, Holds
    <3>2. \A n \in held'[p] : n.status = "Idle" /\ n.phase = "CoolingDown"
      <4>1. WellFormed(m)
        BY DEF ManifestsOK
      <4>2. QED
        BY <3>1, <4>1, MadeWell DEF ProcessesOK
    <3>3. QED
      BY <2>3, <2>6, <3>2 DEF EndTask, Update, Goes, AloneInv, ProcessesOK
  <2>7. CASE Save(p)
    BY <2>3, <2>7 DEF Save, Goes, AloneInv, ProcessesOK
  <2>8. CASE WriteFile(p)
    <3> SUFFICES ASSUME p \in alone PROVE AloneInv'
      BY <2>3, <2>8 DEF WriteFile, Goes, AloneInv
    <3>1. /\ pc[p] = "file" /\ pc' = [pc EXCEPT ![p] = After(p)] /\ file' = held[p]
          /\ held' = [held EXCEPT ![p] = {}]
          /\ UNCHANGED <<table, doing, result, failed, alone, starts>>
      BY <2>8 DEF WriteFile, Goes
    <3>2. table = held[p]
      BY <3>1 DEF AloneInv
    <3>3. \/ doing[p] = "init" /\ After(p) \in {"off", "open"} /\ result[p] = "none"
          \/ doing[p] = "busy" /\ After(p) = "task" /\ \A m \in table : m.status = "Running"
          \/ /\ doing[p] = "idle" /\ After(p) \in {"ready", "off"}
             /\ \A m \in table : m.status = "Idle" /\ m.phase = "CoolingDown"
      BY <3>1, <3>2 DEF After, AloneInv, ProcessesOK
    <3>4. /\ file' = table' /\ held'[p] = {} /\ doing'[p] = doing[p] /\ result'[p] = result[p]
          /\ pc'[p] = After(p) /\ \A q \in Process \ {p} : pc'[q] = "off"
      BY <3>1, <3>2 DEF AloneInv, ProcessesOK
    <3>5. alone' = {p}
      BY <2>3, <3>1
    <3>6. QED
      BY <3>1, <3>3, <3>4, <3>5 DEF AloneInv
  <2>9. CASE Fails(p)
    <3>1. alone' = alone \ {p} /\ pc[p] # "off"
      BY <2>9 DEF Fails, Drops
    <3>2. QED
      BY <2>3, <3>1 DEF AloneInv
  <2>10. CASE Crash(p)
    <3>1. alone' = alone \ {p} /\ pc[p] # "off"
      BY <2>10 DEF Crash, Drops
    <3>2. QED
      BY <2>3, <3>1 DEF AloneInv
  <2>11. QED
    BY <2>1, <2>2, <2>4, <2>5, <2>6, <2>7, <2>8, <2>9, <2>10
<1>3. QED
  BY <1>1, <1>2

\* Whoever has the directory to itself is described truthfully by the table and the
\* file, whatever earlier crashes left there (controller.rs,
\* execute_with_root_state), for any number of processes.
THEOREM ManifestsTruthful == Spec => []ManifestTruthful
<1>1. Init => AloneInv
  BY DEF Init, AloneInv
<1>2. IInv /\ AloneInv /\ [Next]_vars => AloneInv'
  BY AloneInductive
<1>3. AloneInv => ManifestTruthful
  BY DEF AloneInv, ManifestTruthful
<1>4. QED
  BY IInvAlways, <1>1, <1>2, <1>3, PTL DEF Spec

=============================================================================
