----------------------------- MODULE MCMemoryStore -----------------------------
(* A worker, a cleanup and two tasks that come up again, with the counts and  *)
(* the confidence that successes, failures and a moving window may give.      *)
EXTENDS MemoryStore, TLC

CONSTANTS w1, c1, k1, k2, prefer

MCWorker  == {w1}
MCCleaner == {c1}
MCKey     == {k1, k2}

\* A text is about its task and gives its counts.
MCWord == {prefer} \cup MCKey \cup 2..3

MCPattern ==
  {[key |-> k, words |-> {prefer, k, 2}, wins |-> 2, confidence |-> 88] : k \in MCKey} \cup
  {[key |-> k, words |-> {prefer, k, 3}, wins |-> 3, confidence |-> 92] : k \in MCKey}

Symmetry == Permutations(MCKey)
=============================================================================
