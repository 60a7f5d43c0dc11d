--------------------------- MODULE MCPushDeploy ----------------------------
(* The instance of PushDeploy for TLC.                                     *)
EXTENDS PushDeploy
=============================================================================
