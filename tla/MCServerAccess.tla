--------------------------- MODULE MCServerAccess ---------------------------
(* Instances of ServerAccess for TLC.                                      *)
EXTENDS ServerAccess, TLC

(* Granted keys beside deletions, granted keys beside revocations, and     *)
(* revocations beside deletions of projects deployed with a password.      *)
ThreeLoads ==
  {{"ensure", "check", "start", "delete"},
   {"ensure", "revoke", "start"},
   {"revoke", "start", "delete"}}

Symmetry == Permutations(Keys) \cup Permutations(Projects) \cup Permutations(Requests)
=============================================================================
