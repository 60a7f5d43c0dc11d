----------------------------- MODULE MCHostPin ------------------------------
(* Instances of HostPin for TLC.                                           *)
EXTENDS HostPin, TLC

TwoTypes == <<"ed25519", "rsa">>
Symmetry == Permutations(Dialers)
=============================================================================
