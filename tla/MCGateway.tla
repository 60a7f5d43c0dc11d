----------------------------- MODULE MCGateway -----------------------------
(* Instances of Gateway for TLC.                                           *)
EXTENDS Gateway, TLC

CONSTANTS blog, shop

(* blog-shop and blog: the sweep of the second takes the first along.      *)
OneBeginsWithOther == [s \in Sites |-> IF s = blog THEN {shop} ELSE {}]

DistinctNames == [s \in Sites |-> {}]

(* Everything that can fail, around one edit; then pairs of what meets on  *)
(* the server.                                                             *)
FiveLoads ==
  {[ops |-> {"deploy", "redeploy", "env", "unlink"}, edits |-> 1, faults |-> TRUE],
   [ops |-> {"deploy", "teardown"}, edits |-> 1, faults |-> TRUE],
   [ops |-> {"redeploy", "teardown"}, edits |-> 2, faults |-> FALSE],
   [ops |-> {"redeploy", "protection"}, edits |-> 2, faults |-> FALSE],
   [ops |-> {"protection", "teardown"}, edits |-> 2, faults |-> TRUE]}

RunsOnly == {[ops |-> {"deploy", "redeploy"}, edits |-> 0, faults |-> FALSE]}

Symmetry == Permutations(Handlers)
=============================================================================
