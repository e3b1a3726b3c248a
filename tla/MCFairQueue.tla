---------------------------- MODULE MCFairQueue ------------------------------
(***************************************************************************)
(* Instances of FairQueue for TLC: two runs of a project a, one of each of *)
(* the projects b and c, created in any order and listed in this one.      *)
(***************************************************************************)
EXTENDS FairQueue, TLC

CONSTANTS a1, a2, b1, c1

Projects ==
  [r \in Runs |-> IF r \in {a1, a2} THEN "a" ELSE IF r = b1 THEN "b" ELSE "c"]

InOrder ==
  [r \in Runs |-> CASE r = a1 -> 0 [] r = a2 -> 1 [] r = b1 -> 2 [] OTHER -> 3]

\* Every order of creation: runs of equal rank are listed in any order.
AnyOrder == [r \in Runs |-> 0]

Symmetry == Permutations({a1, a2}) \union Permutations({b1, c1})

QueueFaults == {"abort", "redis_down", "lost_reply", "crash"}

NoFaults == {}
==============================================================================
