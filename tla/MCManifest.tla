------------------------------ MODULE MCManifest ------------------------------
(* A run, a chat and a cleanup in one directory. *)
EXTENDS Manifest, TLC

CONSTANTS r1, r2, c1, v1

MCRunner  == {r1, r2}
MCChat    == {c1}
MCVisitor == {v1}
Symmetry  == Permutations(MCRunner)
=============================================================================
