--------------------------- MODULE MCDeployQueue ---------------------------
(* Instances of DeployQueue for TLC: a web project and a bot on one server. *)
EXTENDS DeployQueue, TLC

CONSTANTS p1, p2, s1, s2, r1, r2, w1, w2, h1, h2

(* Two projects of different repositories on one server.                   *)
OneServer == [p \in Projects |-> s1]
OwnName == [p \in Projects |-> p]

(* The repository of both, hosted in one place, so that Start deletes the  *)
(* failed one of them.                                                     *)
OneName == [p \in Projects |-> p1]

(* What the runs put the service under: two handlers at once, with failing *)
(* statements; one handler, with edits, failing statements and a restart;  *)
(* and a stop.                                                             *)
FaultsAndCrowd ==
  {[ops |-> {"deploy", "redeploy", "delete"}, handlers |-> 2, faults |-> TRUE, restarts |-> 0],
   [ops |-> {"redeploy", "settings", "delete"},
    handlers |-> 1, faults |-> TRUE, restarts |-> 1],
   [ops |-> {"hook", "maintenance", "shutdown"},
    handlers |-> 1, faults |-> FALSE, restarts |-> 0]}
OneByOne ==
  {[ops |-> {"deploy", "redeploy", "rollback", "hook"},
    handlers |-> 1, faults |-> FALSE, restarts |-> 1]}
StopOnly ==
  {[ops |-> {"redeploy", "shutdown"}, handlers |-> 1, faults |-> FALSE, restarts |-> 0]}

Symmetry == Permutations(Runs) \cup Permutations(Workers) \cup Permutations(Requests)
=============================================================================
