---------------------------- MODULE MCLogStream ----------------------------
(* The instance of LogStream for TLC.                                      *)
EXTENDS LogStream
=============================================================================
