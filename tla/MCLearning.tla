------------------------------ MODULE MCLearning ------------------------------
(* Values for the checks of Learning: two phrasings of one goal and one      *)
(* action of each kind a run names.                                           *)
EXTENDS Learning, TLC

CONSTANTS k1, c, t1, t2, look, check

OneGoal      == [t \in {t1, t2} |-> "goal"]
JustCheck    == (check :> "command")
LookAndCheck == (look :> "read") @@ (check :> "command")
Texts        == Permutations({t1, t2})
=============================================================================
