----------------------------- MODULE MCServices -----------------------------
(* The services around the deploys that share no state with each other, in *)
(* one model: in a behaviour one of them is at work and the others stay as *)
(* they were, so that their states add up instead of multiplying.          *)
EXTENDS SignIn, GitLabTokens, Installations, RateLimit, DiskMonitor, Activity, Handover, TLC

CONSTANTS m1, m2, s1, s2, s3

VARIABLE part

servicesVars ==
  <<part, signInVars, tokenVars, instVars, limitVars, diskVars, activityVars,
    handoverVars>>

ServicesInit ==
  /\ part \in {"sign in", "tokens", "installations", "limit", "disks", "activity",
              "handover"}
  /\ SignInInit /\ TokenInit /\ InstInit /\ LimitInit /\ DiskInit /\ ActivityInit
  /\ HandoverInit

SignInPart ==
  /\ part = "sign in" /\ SignInNext
  /\ UNCHANGED <<part, tokenVars, instVars, limitVars, diskVars, activityVars, handoverVars>>

TokenPart ==
  /\ part = "tokens" /\ TokenNext
  /\ UNCHANGED <<part, signInVars, instVars, limitVars, diskVars, activityVars, handoverVars>>

InstPart ==
  /\ part = "installations" /\ InstNext
  /\ UNCHANGED <<part, signInVars, tokenVars, limitVars, diskVars, activityVars, handoverVars>>

LimitPart ==
  /\ part = "limit" /\ LimitNext
  /\ UNCHANGED <<part, signInVars, tokenVars, instVars, diskVars, activityVars, handoverVars>>

DiskPart ==
  /\ part = "disks" /\ DiskNext
  /\ UNCHANGED <<part, signInVars, tokenVars, instVars, limitVars, activityVars, handoverVars>>

ActivityPart ==
  /\ part = "activity" /\ ActivityNext
  /\ UNCHANGED <<part, signInVars, tokenVars, instVars, limitVars, diskVars, handoverVars>>

HandoverPart ==
  /\ part = "handover" /\ HandoverNext
  /\ UNCHANGED <<part, signInVars, tokenVars, instVars, limitVars, diskVars, activityVars>>

ServicesNext ==
  \/ SignInPart \/ TokenPart \/ InstPart \/ LimitPart \/ DiskPart \/ ActivityPart
  \/ HandoverPart

ServicesSpec == ServicesInit /\ [][ServicesNext]_servicesVars

(* The handover alone, for the run that shows where its comment is wrong.  *)
HandoverOnly == ServicesInit /\ part = "handover" /\ [][ServicesNext]_servicesVars

(* Each part's variables stay in their ranges (no code of its own: the     *)
(* conjunction of the parts' type invariants).                             *)
TypesOK ==
  /\ SignInTypeOK /\ TokenTypeOK /\ InstTypeOK /\ LimitTypeOK /\ DiskTypeOK
  /\ ActivityTypeOK /\ HandoverTypeOK

(* Two sites on the first machine, one on the second.                      *)
Hosts == [s \in Sites |-> IF s = s3 THEN m2 ELSE m1]

(* The parts share their model values (an x is a flow here and a key       *)
(* there), which keeps the symmetry group small.                           *)
Symmetry ==
  Permutations(Flows) \cup Permutations(Profiles) \cup Permutations(Accounts)
  \cup Permutations(Requests)
=============================================================================
