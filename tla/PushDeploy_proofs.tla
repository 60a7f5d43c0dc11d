------------------------- MODULE PushDeploy_proofs -------------------------
(* Proofs for the deploys on push: whatever the order in which deliveries  *)
(* arrive and runs are admitted, for any number of projects and calls, no  *)
(* run brings an older version back.                                       *)
EXTENDS PushDeploy, TLAPS

(* What runs is at most what was pulled last, and that is at most the head *)
(* of the branch.  It holds because a run pulls the head and not the       *)
(* commit of its delivery: with the latter, dir could fall below app.      *)
VersionsOrdered == \A p \in Projects : app[p] <= dir[p] /\ dir[p] <= head

PushIInv ==
  /\ head \in Nat
  /\ dir \in [Projects -> Nat] /\ app \in [Projects -> Nat]
  /\ VersionsOrdered

LEMMA InitPushIInv == ASSUME Init PROVE PushIInv
BY DEF Init, PushIInv, VersionsOrdered

(* One step keeps the order, and raises what runs or leaves it.            *)
LEMMA StepPushIInv ==
  ASSUME PushIInv, [Next]_vars
  PROVE  PushIInv' /\ \A p \in Projects : app'[p] >= app[p]
<1> USE DEF PushIInv, VersionsOrdered
<1>1. ASSUME UNCHANGED <<head, dir, app>>
      PROVE  PushIInv' /\ \A p \in Projects : app'[p] >= app[p]
  BY <1>1
<1>2. ASSUME Push PROVE PushIInv' /\ \A p \in Projects : app'[p] >= app[p]
  <2>1. head' = head + 1 /\ UNCHANGED <<dir, app>>
    BY <1>2 DEF Push
  <2> QED BY <2>1
<1>3. ASSUME NEW c \in Calls, Pull(c)
      PROVE  PushIInv' /\ \A p \in Projects : app'[p] >= app[p]
  <2>1. dir' = dir \/ dir' = [dir EXCEPT ![Target(c)] = head]
    BY <1>3 DEF Pull
  <2>2. UNCHANGED <<head, app>>
    BY <1>3 DEF Pull
  <2>3. dir' \in [Projects -> Nat] /\ \A p \in Projects : dir'[p] \in {dir[p], head}
    BY <2>1
  <2> QED BY <2>2, <2>3
<1>4. ASSUME NEW c \in Calls, Up(c)
      PROVE  PushIInv' /\ \A p \in Projects : app'[p] >= app[p]
  <2>1. app' = app \/ app' = [app EXCEPT ![Target(c)] = dir[Target(c)]]
    BY <1>4 DEF Up
  <2>2. UNCHANGED <<head, dir>>
    BY <1>4 DEF Up
  <2>3. app' \in [Projects -> Nat] /\ \A p \in Projects : app'[p] \in {app[p], dir[p]}
    BY <2>1
  <2> QED BY <2>2, <2>3
<1>5. \/ UNCHANGED <<head, dir, app>> \/ Push
      \/ \E c \in Calls : Pull(c) \/ Up(c)
  BY DEF Next, vars, Handler, Worker, Deliver, LookUp, Admit, Publish, Work, Click, SetCD, PlanChange
<1> QED
  BY <1>1, <1>2, <1>3, <1>4, <1>5

(* An auto deploy never brings an older version back: runRedeploy pulls    *)
(* the head of the branch under the server's lock (redeploy.go:175), so    *)
(* deliveries that overtake each other, runs that both passed isBusy and   *)
(* runs that fail half way only ever raise the version in the containers.  *)
THEOREM NeverBack == Spec => VersionsAdvance
<1>1. PushIInv /\ [Next]_vars => [\A p \in Projects : app'[p] >= app[p]]_vars
  BY StepPushIInv
<1>2. PushIInv /\ [Next]_vars => PushIInv'
  BY StepPushIInv
<1> QED
  BY <1>1, <1>2, InitPushIInv, PTL DEF Spec, VersionsAdvance
=============================================================================
