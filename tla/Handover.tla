------------------------------ MODULE Handover ------------------------------
(***************************************************************************)
(* The access a project keeps to its server (deploy/deployer.go): the user *)
(* and the key that redeploys and pushes connect with.  A first deploy     *)
(* installs a key for the login it came in with, or keeps the one it was   *)
(* given, and may in the end hand the project over to a user of its own.   *)
(* The run changes its copy of the pair at once; the row gets the key from *)
(* one statement and the user from another, the next save of the state.    *)
(***************************************************************************)
EXTENDS FiniteSets

CONSTANTS
  KeyPairs,   \* generated keys; bounds how many deploys install one
  Granted,    \* the key the person granted, whose line is on the server
  NoKey

ASSUME HandoverKeysOK == Granted \notin KeyPairs /\ NoKey \notin KeyPairs \cup {Granted}

VARIABLES
  lines,      \* authorized_keys: users and the keys that open the server
  pairRow,    \* ssh_user and ssh_key_enc of the row
  pairRun,    \* the same in the run that goes on, or went on last
  step,       \* where the run is
  whole       \* whether the row had what the run knew when it was over

handoverVars == <<lines, pairRow, pairRun, step, whole>>

Logins == {"root", "deploy"}
AccessKeys == KeyPairs \cup {Granted}
Pair == [user : Logins, key : AccessKeys \cup {NoKey}]
First == [user |-> "root", key |-> NoKey]

HandoverTypeOK ==
  /\ lines \subseteq Logins \X AccessKeys
  /\ pairRow \in Pair /\ pairRun \in Pair
  /\ step \in {"idle", "access", "saveKey", "steps", "nonroot", "saveDeployKey", "final"}
  /\ whole \in BOOLEAN

HandoverInit ==
  /\ lines = {<<"root", Granted>>}
  /\ pairRow = First /\ pairRun = First
  /\ step = "idle" /\ whole = TRUE

Opens(pair) == <<pair.user, pair.key>> \in lines
Generated == {k \in KeyPairs : \A u \in Logins : <<u, k>> \notin lines}
               \ {pairRow.key, pairRun.key}

-----------------------------------------------------------------------------
(* A deploy from the form: a new row, and a login that worked.             *)
StartDeploy ==
  /\ step = "idle"
  /\ pairRow' = First /\ pairRun' = First
  /\ step' = "access" /\ whole' = TRUE
  /\ UNCHANGED lines

(* runRedeploy, runRollback: with the pair of the row or not at all; none  *)
(* of their steps touches it.                                              *)
StartRedeploy ==
  /\ step = "idle" /\ pairRow.key # NoKey
  /\ pairRun' = pairRow
  /\ step' = "final"
  /\ UNCHANGED <<lines, pairRow, whole>>

KeepAccessKey ==
  /\ step = "access"
  /\ pairRun' = [pairRun EXCEPT !.key = Granted]
  /\ step' = "saveKey"
  /\ UNCHANGED <<lines, pairRow, whole>>

(* The command may fail, or run although its result never comes back.      *)
InstallAccessKey ==
  /\ step = "access"
  /\ \E k \in Generated :
       \/ /\ lines' = lines \cup {<<"root", k>>}
          /\ pairRun' = [pairRun EXCEPT !.key = k]
          /\ step' = "saveKey"
       \/ /\ lines' \in {lines, lines \cup {<<"root", k>>}}
          /\ step' = "steps"
          /\ UNCHANGED pairRun
  /\ UNCHANGED <<pairRow, whole>>

(* SaveSSHKey writes the key alone, and nobody looks whether it did.       *)
SaveSSHKey ==
  /\ step \in {"saveKey", "saveDeployKey"}
  /\ pairRow' \in {pairRow, [pairRow EXCEPT !.key = pairRun.key]}
  /\ step' = IF step = "saveKey" THEN "steps" ELSE "final"
  /\ UNCHANGED <<lines, pairRun, whole>>

(* The steps up to the last; every save of the state writes the user.      *)
Persisted == pairRow' \in {pairRow, [pairRow EXCEPT !.user = pairRun.user]}

RunSteps ==
  /\ step = "steps"
  /\ Persisted
  /\ step' \in {"nonroot", "final"}      \* asked for, and nothing failed before
  /\ UNCHANGED <<lines, pairRun, whole>>

(* Mutant of HandoverNonRoot: the pair is switched before the script has   *)
(* been seen to succeed.                                                   *)
HandoverNonRootEarly ==
  /\ step = "nonroot"
  /\ \E k \in Generated :
       /\ lines' \in {lines, lines \cup {<<"deploy", k>>}}
       /\ pairRun' = [user |-> "deploy", key |-> k]
  /\ step' = "saveDeployKey"
  /\ UNCHANGED <<pairRow, whole>>

(* The script makes the user and installs a key for it.  When it fails or  *)
(* its deadline passes the run goes on as root.                            *)
HandoverNonRoot ==
  /\ step = "nonroot"
  /\ \E k \in Generated :
       \/ /\ lines' = lines \cup {<<"deploy", k>>}
          /\ pairRun' = [user |-> "deploy", key |-> k]
          /\ step' = "saveDeployKey"
       \/ /\ lines' \in {lines, lines \cup {<<"deploy", k>>}}
          /\ step' = "final"
          /\ UNCHANGED pairRun
  /\ UNCHANGED <<pairRow, whole>>

RunOver == step' = "idle" /\ whole' = (whole /\ pairRow' = pairRun)

FinishRun ==
  /\ step = "final"
  /\ Persisted
  /\ RunOver
  /\ UNCHANGED <<lines, pairRun>>

RunDies ==
  /\ step # "idle"
  /\ UNCHANGED <<lines, pairRow, pairRun>>
  /\ RunOver

HandoverNext ==
  \/ StartDeploy \/ StartRedeploy \/ KeepAccessKey \/ InstallAccessKey
  \/ SaveSSHKey \/ RunSteps \/ HandoverNonRoot \/ FinishRun \/ RunDies

HandoverSpec == HandoverInit /\ [][HandoverNext]_handoverVars

-----------------------------------------------------------------------------
(* Whatever fails on the server or on the way to it, the row opens the     *)
(* server if the deploy's statements got through: "the deploy is fine" and *)
(* "we stay on root" (deployer.go:604, 788).                               *)
RowOpensServer ==
  step = "idle" /\ whole /\ pairRow.key # NoKey => Opens(pairRow)

(* "On any error we stay on root (the deploy already works and the root    *)
(* key is in place)" (deployer.go:787-788), said of every error: a row     *)
(* that has a key opens the server once the run is over.                   *)
StaysOnRoot == step = "idle" /\ pairRow.key # NoKey => Opens(pairRow)
=============================================================================
