------------------------- MODULE ServerAccess_proofs -------------------------
(***************************************************************************)
(* What ServerAccess promises about keys, for any number of projects, keys *)
(* and requests: a line that a user was told to add opens with a key of    *)
(* ours until a revocation or a deletion destroys it (ShownIsKnown), and   *)
(* what a finished RevokeAccess was about comes into no table again, but   *)
(* for a key that survived it (RevokedIsForgotten).                        *)
(*                                                                         *)
(* Neither is inductive.  A key that a Start has read and its run has not  *)
(* stored yet is in nobody's table: it must not be one that is gone        *)
(* (HandsClean), and the place it will be stored in must be empty, or the  *)
(* copy there would be lost without a word (PlacesFree).                   *)
(***************************************************************************)
EXTENDS ServerAccess, WellFoundedInduction, TLAPS

(* Whatever is kept or carried was generated.                              *)
KeysIssued ==
  /\ Halves \subseteq issued
  /\ \A h \in Requests : req[h].key \in issued \cup {None}
  /\ \A p \in Projects : run[p].key \in issued \cup {None}

PlacesFree == \A p \in Projects : run[p].pc \in {"queued", "save"} => rowKey[p] = None

Gone == revoked \ survived

HandsClean == Gone \cap InHand = {}

PublishKnown == \A h \in Requests : At(h, "publish") => req[h].project \in Projects

IInv ==
  /\ TypeOK /\ KeysIssued /\ PlacesFree /\ HandsClean /\ PublishKnown
  /\ ShownIsKnown /\ RevokedIsForgotten

-----------------------------------------------------------------------------
(* The newest row with a key exists if there is one at all.                *)
LEMMA LeastIndex ==
  ASSUME NEW S, S \subseteq Nat, S # {}
  PROVE  \E i \in S : \A j \in S : i <= j
<1> DEFINE R == OpToRel(<, Nat)
<1>1. IsWellFoundedOn(R, Nat)
  BY NatLessThanWellFounded
<1>2. \A i, j \in Nat : <<i, j>> \in R <=> i < j
  BY DEF OpToRel
<1> HIDE DEF R
<1>3. PICK i \in S : \A j \in S : ~(<<j, i>> \in R)
  BY <1>1, WFMin
<1>4. \A j \in S : ~(j < i)
  BY <1>2, <1>3
<1>5. \A j \in S : i <= j
  BY <1>4
<1> QED BY <1>5

(* deployedKey is the key of some row, so it is one of ours.               *)
LEMMA DeployedKeyKept ==
  ASSUME TypeOK
  PROVE  deployedKey \in Halves \cup {None}
<1>1. CASE Keyed = {}
  BY <1>1 DEF deployedKey
<1>2. CASE Keyed # {}
  <2>1. Keyed \subseteq Nat
    BY DEF Keyed, TypeOK
  <2>2. PICK i \in Keyed : \A j \in Keyed : i <= j
    BY <1>2, <2>1, LeastIndex
  <2> DEFINE n == CHOOSE x \in Keyed : \A j \in Keyed : x <= j
  <2>3. n \in Keyed
    BY <2>2
  <2> HIDE DEF n
  <2>4. rows[n] \in Projects /\ rowKey[rows[n]] # None
    BY <2>3 DEF Keyed, TypeOK
  <2>5. deployedKey = rowKey[rows[n]]
    BY <1>2 DEF deployedKey, n
  <2> QED BY <2>4, <2>5 DEF Halves
<1> QED BY <1>1, <1>2

(* So are the keys a request is given.                                     *)
LEMMA KeysGiven ==
  ASSUME TypeOK
  PROVE  KnownKey \in Halves \cup {None} /\ accessKeyPEM \in Halves \cup {None}
BY DeployedKeyKept DEF KnownKey, accessKeyPEM, Halves

(* Deleting a row leaves rows.                                             *)
LEMMA WithoutTyped ==
  ASSUME TypeOK, NEW p
  PROVE  Without(p) \in Seq(Projects)
<1>1. CASE ~Live(p)
  BY <1>1 DEF Without, TypeOK
<1>2. CASE Live(p)
  <2> DEFINE n == CHOOSE i \in DOMAIN rows : rows[i] = p
             s == [i \in 1 .. Len(rows) - 1 |-> IF i < n THEN rows[i] ELSE rows[i + 1]]
  <2>1. rows \in Seq(Projects) /\ Len(rows) \in Nat /\ DOMAIN rows = 1 .. Len(rows)
    BY DEF TypeOK
  <2>2. Len(rows) > 0
    BY <1>2, <2>1 DEF Live
  <2>3. \A i \in 1 .. Len(rows) - 1 : rows[i] \in Projects /\ rows[i + 1] \in Projects
    BY <2>1
  <2>4. s \in [1 .. Len(rows) - 1 -> Projects] /\ Len(rows) - 1 \in Nat
    <3> HIDE DEF n
    <3> QED BY <2>1, <2>2, <2>3
  <2>5. s \in Seq(Projects)
    <3> HIDE DEF s
    <3> QED BY <2>4
  <2>6. Without(p) = s
    BY <1>2 DEF Without
  <2> QED BY <2>5, <2>6
<1> QED BY <1>1, <1>2

-----------------------------------------------------------------------------
(* The ways of changing a handler's record.                                *)
LEMMA GotoTyped ==
  ASSUME TypeOK, NEW h \in Requests,
         NEW pc \in {"mark", "key", "clear", "row"}, Goto(h, pc) \/ LetGo(h, pc)
  PROVE  /\ req' \in [Requests -> ReqState]
         /\ \A g \in Requests : g # h => req'[g] = req[g]
         /\ req'[h].pc = pc /\ req'[h].key \in {req[h].key, None}
<1>1. [req[h] EXCEPT !.pc = pc] \in ReqState /\ [req[h] EXCEPT !.pc = pc, !.key = None] \in ReqState
  BY DEF TypeOK, ReqState
<1>2. CASE Goto(h, pc)
  <2>1. req' = [req EXCEPT ![h] = [req[h] EXCEPT !.pc = pc]]
    BY <1>2 DEF Goto
  <2> QED BY <1>1, <2>1 DEF TypeOK, ReqState
<1>3. CASE LetGo(h, pc)
  <2>1. req' = [req EXCEPT ![h] = [req[h] EXCEPT !.pc = pc, !.key = None]]
    BY <1>3 DEF LetGo
  <2> QED BY <1>1, <2>1 DEF TypeOK, ReqState
<1> QED BY <1>2, <1>3

LEMMA ReturnTyped ==
  ASSUME TypeOK, NEW h \in Requests, Return(h)
  PROVE  /\ req' \in [Requests -> ReqState]
         /\ \A g \in Requests : g # h => req'[g] = req[g]
         /\ req'[h].pc = "idle" /\ req'[h].key = None
<1>1. Idle \in ReqState
  BY DEF Idle, ReqState
<1> QED BY <1>1 DEF Return, TypeOK, Idle

LEMMA ArriveTyped ==
  ASSUME TypeOK, NEW h \in Requests, NEW op \in AllOps, NEW pc \in {"generate", "dial", "line", "publish", "look", "row"},
         NEW p \in Projects \cup {None}, NEW k \in Keys \cup {None}, Arrive(h, op, pc, p, k)
  PROVE  /\ req' \in [Requests -> ReqState]
         /\ \A g \in Requests : g # h => req'[g] = req[g]
         /\ req'[h].pc = pc /\ req'[h].key = k /\ req'[h].project = p
<1>1. [pc |-> pc, project |-> p, key |-> k, drop |-> FALSE] \in ReqState
  BY DEF ReqState
<1> QED BY <1>1 DEF Arrive, TypeOK

(* A handler that goes on with the key it has, or with one of ours, to     *)
(* anything but a Start takes nothing into its hand.                       *)
HandlerMoves(h) ==
  /\ req' \in [Requests -> ReqState]
  /\ \A g \in Requests : g # h => req'[g] = req[g]
  /\ req'[h].pc # "publish" /\ req'[h].key \in issued' \cup {None}

LEMMA HandsShrink ==
  ASSUME TypeOK, NEW h \in Requests, HandlerMoves(h), run' = run
  PROVE  InHand' \subseteq InHand
BY DEF InHand, HandlerMoves, At

LEMMA TablesKept ==
  ASSUME granted' = granted, rowKey' = rowKey
  PROVE  Halves' = Halves
BY DEF Halves

(* A step that leaves the tables, the runs and the keys alone.             *)
LEMMA QuietStep ==
  ASSUME IInv, load' = load, NEW h \in Requests, HandlerMoves(h), issued' = issued,
         UNCHANGED <<granted, rows, rowKey, failed, run, forgot, revoked, survived>>,
         verified' \in BOOLEAN, verified' => granted # None,
         lines' \subseteq issued, shown' \subseteq shown \cup Halves
  PROVE  IInv'
<1>1. Halves' = Halves /\ InHand' \subseteq InHand
  BY TablesKept, HandsShrink DEF IInv
<1>2. TypeOK'
  BY DEF IInv, TypeOK, KeysIssued, HandlerMoves
<1>3. KeysIssued' /\ PlacesFree' /\ PublishKnown'
  BY <1>1 DEF IInv, KeysIssued, PlacesFree, PublishKnown, HandlerMoves, At
<1>4. HandsClean' /\ ShownIsKnown' /\ RevokedIsForgotten'
  BY <1>1 DEF IInv, HandsClean, Gone, ShownIsKnown, RevokedIsForgotten
<1> QED BY <1>2, <1>3, <1>4 DEF IInv

LEMMA InitIInv == Init => IInv
<1> SUFFICES ASSUME Init PROVE IInv
  OBVIOUS
<1>1. Idle \in ReqState /\ NoRun \in RunState
  BY DEF Idle, NoRun, ReqState, RunState
<1>2. rows \in Seq(Projects)
  BY DEF Init
<1>3. TypeOK
  BY <1>1, <1>2 DEF Init, TypeOK
<1> QED
  BY <1>3 DEF Init, IInv, KeysIssued, PlacesFree, HandsClean, PublishKnown, ShownIsKnown,
              Gone, RevokedIsForgotten, Halves, Idle, NoRun, At

(* EnsureAccess, CheckAccess and what a purge looks at and takes off.      *)
LEMMA LookingStep ==
  ASSUME IInv, load' = load, NEW h \in Requests,
         \/ EnsureRead(h) \/ EnsureReread(h) \/ CheckRead(h) \/ CheckDial(h)
         \/ MarkAccessVerified(h) \/ RevokeRead(h) \/ RevokeLine(h)
         \/ (\E p \in Projects, b \in BOOLEAN : DeleteRead(h, p, b))
         \/ PurgeLook(h) \/ PurgeStrip(h) \/ DeleteFails(h)
  PROVE  IInv'
<1> USE DEF dbVars, ghostVars
<1>0. /\ TypeOK /\ Halves \subseteq issued /\ issued \subseteq Keys /\ lines \subseteq issued
      /\ KnownKey \in Halves \cup {None} /\ KnownKey \in Keys \cup {None}
      /\ req[h].key \in issued \cup {None}
  BY KeysGiven DEF IInv, KeysIssued, TypeOK
<1>1. CASE EnsureRead(h)
  <2>1. CASE KnownKey # None
    BY <1>0, <1>1, <2>1, QuietStep DEF EnsureRead, HandlerMoves, At, IInv, TypeOK
  <2>2. CASE KnownKey = None
    <3>1. HandlerMoves(h)
      BY <1>0, <1>1, <2>2, ArriveTyped DEF EnsureRead, HandlerMoves, AllOps
    <3> QED BY <1>0, <1>1, <2>2, <3>1, QuietStep DEF EnsureRead, TypeOK
  <2> QED BY <2>1, <2>2
<1>2. CASE EnsureReread(h)
  <2>1. HandlerMoves(h)
    BY <1>0, <1>2, ReturnTyped DEF EnsureReread, HandlerMoves
  <2> QED BY <1>0, <1>2, <2>1, QuietStep DEF EnsureReread, TypeOK, Halves
<1>3. CASE CheckRead(h)
  <2>1. HandlerMoves(h)
    <3>1. Arrive(h, "check", "dial", None, KnownKey) /\ issued' = issued
      BY <1>3 DEF CheckRead
    <3>2. TypeOK /\ KnownKey \in Keys \cup {None} /\ "check" \in AllOps
      BY <1>0 DEF AllOps
    <3>3. /\ req' \in [Requests -> ReqState] /\ req'[h].pc = "dial" /\ req'[h].key = KnownKey
          /\ \A g \in Requests : g # h => req'[g] = req[g]
      BY <3>1, <3>2, ArriveTyped
    <3> QED BY <1>0, <3>1, <3>3 DEF HandlerMoves
  <2> QED BY <1>0, <1>3, <2>1, QuietStep DEF CheckRead, TypeOK
<1>4. CASE CheckDial(h)
  <2>1. HandlerMoves(h)
    BY <1>0, <1>4, GotoTyped, ReturnTyped DEF CheckDial, HandlerMoves
  <2> QED BY <1>0, <1>4, <2>1, QuietStep DEF CheckDial, TypeOK
<1>5. CASE MarkAccessVerified(h)
  <2>1. HandlerMoves(h)
    BY <1>0, <1>5, ReturnTyped DEF MarkAccessVerified, HandlerMoves
  <2>2. verified' \in BOOLEAN /\ (verified' => granted # None)
    BY <1>0, <1>5 DEF MarkAccessVerified, TypeOK
  <2> QED BY <1>0, <1>5, <2>1, <2>2, QuietStep DEF MarkAccessVerified
<1>6. CASE RevokeRead(h)
  <2>1. HandlerMoves(h)
    <3>1. Arrive(h, "revoke", "line", None, KnownKey) /\ issued' = issued
      BY <1>6 DEF RevokeRead
    <3>2. TypeOK /\ KnownKey \in Keys \cup {None} /\ "revoke" \in AllOps
      BY <1>0 DEF AllOps
    <3>3. /\ req' \in [Requests -> ReqState] /\ req'[h].pc = "line" /\ req'[h].key = KnownKey
          /\ \A g \in Requests : g # h => req'[g] = req[g]
      BY <3>1, <3>2, ArriveTyped
    <3> QED BY <1>0, <3>1, <3>3 DEF HandlerMoves
  <2> QED BY <1>0, <1>6, <2>1, QuietStep DEF RevokeRead, TypeOK
<1>7. CASE RevokeLine(h)
  <2>1. HandlerMoves(h)
    BY <1>0, <1>7, GotoTyped DEF RevokeLine, HandlerMoves
  <2> QED BY <1>0, <1>7, <2>1, QuietStep DEF RevokeLine, TypeOK
<1>8. ASSUME NEW p \in Projects, NEW b \in BOOLEAN, DeleteRead(h, p, b) PROVE IInv'
  <2>1. rowKey[p] \in Keys \cup {None} /\ rowKey[p] \in issued \cup {None}
    BY <1>0 DEF TypeOK, Halves
  <2>2. HandlerMoves(h)
    <3>1. PICK pc \in {"look", "row"}, k \in {rowKey[p], None} :
             Arrive(h, "delete", pc, p, k) /\ issued' = issued
      BY <1>8 DEF DeleteRead
    <3>2. k \in Keys \cup {None} /\ k \in issued \cup {None} /\ "delete" \in AllOps
      BY <2>1 DEF AllOps
    <3>3. /\ req' \in [Requests -> ReqState] /\ req'[h].pc = pc /\ req'[h].key = k
          /\ \A g \in Requests : g # h => req'[g] = req[g]
      BY <1>0, <3>1, <3>2, ArriveTyped
    <3> QED BY <3>1, <3>2, <3>3 DEF HandlerMoves
  <2> QED BY <1>0, <1>8, <2>2, QuietStep DEF DeleteRead, TypeOK
<1>9. CASE PurgeLook(h)
  <2>1. HandlerMoves(h)
    <3>1. ASSUME NEW d \in BOOLEAN, req' = [req EXCEPT ![h].pc = "strip", ![h].drop = d]
          PROVE  HandlerMoves(h)
      <4>1. [req[h] EXCEPT !.pc = "strip", !.drop = d] \in ReqState
        BY <1>0 DEF TypeOK, ReqState
      <4>2. req' = [req EXCEPT ![h] = [req[h] EXCEPT !.pc = "strip", !.drop = d]]
        BY <3>1
      <4>3. issued' = issued
        BY <1>9 DEF PurgeLook
      <4> QED BY <1>0, <4>1, <4>2, <4>3 DEF HandlerMoves, TypeOK, ReqState
    <3> QED BY <1>0, <1>9, <3>1, GotoTyped DEF PurgeLook, HandlerMoves
  <2> QED BY <1>0, <1>9, <2>1, QuietStep DEF PurgeLook, TypeOK
<1>10. CASE PurgeStrip(h)
  <2>1. HandlerMoves(h)
    BY <1>0, <1>10, GotoTyped DEF PurgeStrip, HandlerMoves
  <2> QED BY <1>0, <1>10, <2>1, QuietStep DEF PurgeStrip, TypeOK
<1>11. CASE DeleteFails(h)
  <2>1. HandlerMoves(h)
    BY <1>0, <1>11, ReturnTyped DEF DeleteFails, HandlerMoves
  <2> QED BY <1>0, <1>11, <2>1, QuietStep DEF DeleteFails, TypeOK
<1> QED
  BY <1>1, <1>2, <1>3, <1>4, <1>5, <1>6, <1>7, <1>8, <1>9, <1>10, <1>11

(* SaveAccessKey: the new key is nowhere yet.                              *)
LEMMA SaveAccessKeyStep ==
  ASSUME IInv, load' = load, NEW h \in Requests, SaveAccessKey(h)
  PROVE  IInv'
<1> USE DEF ghostVars
<1>1. PICK k \in Keys \ issued :
        /\ issued' = issued \cup {k} /\ granted' = IF granted = None THEN k ELSE granted
        /\ req' = [req EXCEPT ![h].pc = "reread", ![h].key = k]
  BY DEF SaveAccessKey
<1>2. HandlerMoves(h)
  <2>1. [req[h] EXCEPT !.pc = "reread", !.key = k] \in ReqState
    BY <1>1 DEF IInv, TypeOK, ReqState
  <2>2. req' = [req EXCEPT ![h] = [req[h] EXCEPT !.pc = "reread", !.key = k]]
    BY <1>1
  <2> QED BY <1>1, <2>1, <2>2 DEF HandlerMoves, IInv, TypeOK, ReqState
<1>3. Halves \subseteq Halves' /\ Halves' \subseteq Halves \cup {k} /\ InHand' \subseteq InHand
  <2>1. InHand' \subseteq InHand
    BY <1>2, HandsShrink DEF SaveAccessKey, IInv
  <2> QED BY <1>1, <2>1 DEF SaveAccessKey, Halves
<1>4. TypeOK'
  BY <1>1, <1>2, ConstantsOK DEF SaveAccessKey, IInv, TypeOK, HandlerMoves
<1>5. KeysIssued' /\ PlacesFree' /\ PublishKnown'
  BY <1>1, <1>2, <1>3 DEF SaveAccessKey, HandlerMoves, IInv, KeysIssued, PlacesFree, PublishKnown, At
<1>6. HandsClean' /\ ShownIsKnown' /\ RevokedIsForgotten'
  BY <1>1, <1>3 DEF SaveAccessKey, IInv, TypeOK, HandsClean, Gone, ShownIsKnown, RevokedIsForgotten
<1> QED BY <1>4, <1>5, <1>6 DEF IInv

(* The steps that destroy copies on purpose.                               *)
LEMMA Forgetting ==
  ASSUME IInv, Forget, Halves' \subseteq Halves, UNCHANGED <<shown, issued>>
  PROVE  forgot' \subseteq issued /\ ShownIsKnown'
BY DEF IInv, TypeOK, KeysIssued, Forget, ShownIsKnown

LEMMA DeleteAccessKeyStep ==
  ASSUME IInv, load' = load, NEW h \in Requests, DeleteAccessKey(h)
  PROVE  IInv'
<1>1. HandlerMoves(h)
  BY GotoTyped, ReturnTyped DEF DeleteAccessKey, HandlerMoves, IInv, KeysIssued
<1>2. Halves' \subseteq Halves /\ InHand' \subseteq InHand
  <2>1. InHand' \subseteq InHand
    BY <1>1, HandsShrink DEF DeleteAccessKey, IInv
  <2> QED BY <2>1 DEF DeleteAccessKey, Halves
<1>3. forgot' \subseteq issued /\ ShownIsKnown'
  BY <1>2, Forgetting DEF DeleteAccessKey
<1>4. TypeOK'
  <2>1. /\ granted' \in Keys \cup {None} /\ verified' \in BOOLEAN
        /\ verified' => granted' # None
    <3>1. \/ granted' = None /\ verified' = FALSE
          \/ granted' = granted /\ verified' = verified
      BY DEF DeleteAccessKey
    <3>2. CASE granted' = None /\ verified' = FALSE
      BY <3>2, ZenonT(30)
    <3>3. CASE granted' = granted /\ verified' = verified
      BY <3>3, ZenonT(30) DEF IInv, TypeOK
    <3> QED BY <3>1, <3>2, <3>3
  <2>2. UNCHANGED <<rows, rowKey, failed, lines, run, issued, shown, revoked, survived>>
    BY DEF DeleteAccessKey
  <2> QED BY <1>1, <1>3, <2>1, <2>2 DEF IInv, TypeOK, HandlerMoves
<1>5. KeysIssued' /\ PlacesFree' /\ PublishKnown'
  BY <1>1, <1>2 DEF DeleteAccessKey, HandlerMoves, IInv, KeysIssued, PlacesFree, PublishKnown, At
<1>6. granted' \in {granted, None} /\ None \notin revoked
  BY ConstantsOK DEF DeleteAccessKey, IInv, TypeOK
<1>7. HandsClean' /\ RevokedIsForgotten'
  BY <1>2, <1>6 DEF DeleteAccessKey, IInv, HandsClean, Gone, RevokedIsForgotten
<1> QED BY <1>3, <1>4, <1>5, <1>7 DEF IInv

(* What a revocation was about is gone or has survived.                    *)
LEMMA Revoking ==
  ASSUME IInv, NEW h \in Requests, NEW cleared \in BOOLEAN, Revoke(h, cleared)
  PROVE  /\ revoked' \subseteq issued /\ survived' \subseteq issued
         /\ granted \notin revoked'
         /\ Gone' \subseteq Gone \cup (issued \ ({granted} \cup InHand))
         /\ ~cleared => Gone' \subseteq Gone
<1> DEFINE gone == ({req[h].key} \cup {rowKey[p] : p \in Projects}) \ {None, granted}
<1>1. gone \subseteq issued
  BY DEF IInv, KeysIssued, Halves
<1>2. /\ revoked' = revoked \cup gone
      /\ survived' = IF cleared THEN (survived \ gone) \cup (gone \cap InHand)
                     ELSE survived \cup gone
  BY DEF Revoke
<1>3. granted \notin gone
  OBVIOUS
<1> HIDE DEF gone
<1> QED
  BY <1>1, <1>2, <1>3 DEF Gone, IInv, TypeOK, RevokedIsForgotten

LEMMA ClearStep ==
  ASSUME IInv, load' = load, NEW h \in Requests, ClearDeploymentKeys(h)
  PROVE  IInv'
<1>1. HandlerMoves(h)
  BY ReturnTyped DEF ClearDeploymentKeys, HandlerMoves, IInv
<1>2. InHand' \subseteq InHand
  BY <1>1, HandsShrink DEF ClearDeploymentKeys, IInv
<1>3. PICK cleared \in BOOLEAN :
        /\ Revoke(h, cleared) /\ granted' = granted
        /\ IF cleared THEN rowKey' = [p \in Projects |-> None] ELSE rowKey' = rowKey
  BY DEF ClearDeploymentKeys
<1>4. Halves' \subseteq Halves /\ (cleared => Halves' \subseteq {granted})
  BY <1>3 DEF Halves
<1>5. forgot' \subseteq issued /\ ShownIsKnown'
  BY <1>4, Forgetting DEF ClearDeploymentKeys
<1>6. /\ revoked' \subseteq issued /\ survived' \subseteq issued
      /\ granted \notin revoked'
      /\ Gone' \subseteq Gone \cup (issued \ ({granted} \cup InHand))
      /\ ~cleared => Gone' \subseteq Gone
  BY <1>3, Revoking
<1>7. TypeOK'
  BY <1>1, <1>3, <1>5, <1>6 DEF ClearDeploymentKeys, IInv, TypeOK, HandlerMoves
<1>8. KeysIssued' /\ PlacesFree' /\ PublishKnown'
  BY <1>1, <1>3, <1>4 DEF ClearDeploymentKeys, HandlerMoves, IInv, KeysIssued, PlacesFree, PublishKnown, At
<1>9. HandsClean'
  BY <1>2, <1>6 DEF IInv, HandsClean
<1>10. RevokedIsForgotten'
  <2>1. Gone' \cap Halves' = {}
    BY <1>4, <1>6 DEF IInv, RevokedIsForgotten, Gone
  <2> QED BY <1>3, <1>6, <2>1 DEF RevokedIsForgotten, Gone
<1> QED BY <1>5, <1>7, <1>8, <1>9, <1>10 DEF IInv

LEMMA DeleteRowStep ==
  ASSUME IInv, load' = load, NEW h \in Requests, DeleteRow(h)
  PROVE  IInv'
<1>1. HandlerMoves(h)
  <2>1. [Idle EXCEPT !.pc = "drop"] \in ReqState
    BY DEF Idle, ReqState
  <2>2. CASE req' = [req EXCEPT ![h] = [Idle EXCEPT !.pc = "drop"]]
    BY <2>1, <2>2 DEF HandlerMoves, IInv, TypeOK, Idle
  <2> QED BY <2>2, ReturnTyped DEF DeleteRow, HandlerMoves, IInv
<1>2. Halves' \subseteq Halves /\ InHand' \subseteq InHand
  <2>1. InHand' \subseteq InHand
    BY <1>1, HandsShrink DEF DeleteRow, IInv
  <2> QED BY <2>1 DEF DeleteRow, Halves, IInv, TypeOK
<1>3. forgot' \subseteq issued /\ ShownIsKnown'
  BY <1>2, Forgetting DEF DeleteRow
<1>4. TypeOK'
  <2>1. rows' \in Seq(Projects)
    BY WithoutTyped DEF DeleteRow, IInv
  <2> QED BY <1>1, <1>3, <2>1 DEF DeleteRow, IInv, TypeOK, HandlerMoves
<1>5. KeysIssued' /\ PlacesFree' /\ PublishKnown'
  BY <1>1, <1>2 DEF DeleteRow, HandlerMoves, IInv, TypeOK, KeysIssued, PlacesFree, PublishKnown, At
<1>6. HandsClean' /\ RevokedIsForgotten'
  BY <1>2 DEF DeleteRow, IInv, HandsClean, Gone, RevokedIsForgotten
<1> QED BY <1>3, <1>4, <1>5, <1>6 DEF IInv

(* Start takes one of our keys, ...                                        *)
LEMMA StartReadStep ==
  ASSUME IInv, load' = load, NEW h \in Requests, NEW p \in Projects, NEW b \in BOOLEAN, StartRead(h, p, b)
  PROVE  IInv'
<1> USE DEF dbVars, ghostVars
<1>1. PICK k \in {accessKeyPEM, None} : Arrive(h, "start", "publish", p, k)
  BY DEF StartRead
<1>2. k \in Halves \cup {None} /\ k \in issued \cup {None} /\ k \in Keys \cup {None}
  BY KeysGiven DEF IInv, KeysIssued, TypeOK
<1>3. "start" \in AllOps
  BY DEF AllOps
<1>4. /\ req' \in [Requests -> ReqState] /\ req'[h].key = k /\ req'[h].project = p
      /\ \A g \in Requests : g # h => req'[g] = req[g]
  BY <1>1, <1>2, <1>3, ArriveTyped DEF IInv
<1>5. Halves' = Halves /\ InHand' \subseteq InHand \cup {k}
  BY <1>4, TablesKept DEF StartRead, InHand, At
<1>6. TypeOK'
  BY <1>4 DEF StartRead, IInv, TypeOK
<1>7. KeysIssued' /\ PlacesFree' /\ PublishKnown'
  BY <1>2, <1>4, <1>5 DEF StartRead, IInv, KeysIssued, PlacesFree, PublishKnown, At
<1>8. HandsClean' /\ ShownIsKnown' /\ RevokedIsForgotten'
  BY <1>2, <1>5, ConstantsOK DEF StartRead, IInv, TypeOK, HandsClean, Gone, ShownIsKnown, RevokedIsForgotten
<1> QED BY <1>6, <1>7, <1>8 DEF IInv

(* ... and hands it to the run.                                            *)
LEMMA PublishStep ==
  ASSUME IInv, load' = load, NEW h \in Requests, Publish(h)
  PROVE  IInv'
<1> DEFINE p == req[h].project
           k == req[h].key
<1>1. p \in Projects /\ k \in issued \cup {None} /\ At(h, "publish")
  BY DEF Publish, IInv, PublishKnown, KeysIssued
<1>2. /\ rows' = <<p>> \o Without(p) /\ rowKey' = [rowKey EXCEPT ![p] = None]
      /\ run' = [run EXCEPT ![p] = [pc |-> "queued", key |-> k]]
  BY DEF Publish
<1>3. k \in InHand
  BY <1>1 DEF InHand
<1> HIDE DEF p, k
<1>4. /\ req' \in [Requests -> ReqState] /\ req'[h].pc = "idle" /\ req'[h].key = None
      /\ \A g \in Requests : g # h => req'[g] = req[g]
  BY ReturnTyped DEF Publish, IInv
<1>5. [pc |-> "queued", key |-> k] \in RunState
  BY <1>1 DEF RunState, IInv, TypeOK
<1>6. run' \in [Projects -> RunState] /\ run'[p].pc = "queued" /\ run'[p].key = k
      /\ \A q \in Projects : q # p => run'[q] = run[q]
  BY <1>1, <1>2, <1>5 DEF IInv, TypeOK
<1>7. Halves' \subseteq Halves /\ InHand' \subseteq InHand
  <2>1. Halves' \subseteq Halves
    BY <1>2 DEF Publish, Halves, IInv, TypeOK
  <2>2. InHand' \subseteq InHand
    BY <1>3, <1>4, <1>6 DEF InHand, At
  <2> QED BY <2>1, <2>2
<1>8. forgot' \subseteq issued /\ ShownIsKnown'
  BY <1>7, Forgetting DEF Publish
<1>9. TypeOK'
  <2>1. rows' \in Seq(Projects)
    BY <1>1, <1>2, WithoutTyped DEF IInv
  <2>2. rowKey' \in [Projects -> Keys \cup {None}]
    BY <1>2 DEF IInv, TypeOK
  <2> QED BY <1>4, <1>6, <1>8, <2>1, <2>2 DEF Publish, IInv, TypeOK
<1>10. KeysIssued' /\ PlacesFree' /\ PublishKnown'
  <2>1. \A q \in Projects : rowKey'[q] = IF q = p THEN None ELSE rowKey[q]
    BY <1>1, <1>2 DEF IInv, TypeOK
  <2> QED
    BY <1>1, <1>4, <1>6, <1>7, <2>1 DEF Publish, IInv, KeysIssued, PlacesFree, PublishKnown, At
<1>11. HandsClean' /\ RevokedIsForgotten'
  BY <1>7 DEF Publish, IInv, HandsClean, Gone, RevokedIsForgotten
<1> QED BY <1>8, <1>9, <1>10, <1>11 DEF IInv

(* A run's record.                                                         *)
LEMMA RunReplaced ==
  ASSUME TypeOK, NEW p \in Projects, NEW r \in RunState, run' = [run EXCEPT ![p] = r]
  PROVE  /\ run' \in [Projects -> RunState] /\ run'[p] = r
         /\ \A q \in Projects : q # p => run'[q] = run[q]
BY DEF TypeOK

(* A run that carries no more than it did, and what it carried to its row. *)
LEMMA RunStep ==
  ASSUME IInv, load' = load, NEW p \in Projects, NEW r \in RunState, run' = [run EXCEPT ![p] = r],
         UNCHANGED <<granted, verified, rows, req, ghostVars>>, failed' \subseteq failed \cup {p},
         issued \subseteq issued', issued' \subseteq Keys, lines' \subseteq issued',
         r.pc \in {"queued", "save"} => run[p].pc \in {"queued", "save"} /\ rowKey' = rowKey,
         r.key \in {run[p].key, None} \cup (issued' \ issued),
         \/ rowKey' = rowKey
         \/ run[p].pc = "save" /\ rowKey' = [rowKey EXCEPT ![p] = run[p].key]
  PROVE  IInv'
<1> USE DEF ghostVars
<1>1. /\ run' \in [Projects -> RunState] /\ run'[p] = r
      /\ \A q \in Projects : q # p => run'[q] = run[q]
  BY RunReplaced DEF IInv
<1>2. InHand' \subseteq InHand \cup (issued' \ issued) \cup {None}
  BY <1>1 DEF InHand, At
<1>3. /\ Halves \subseteq Halves' /\ Halves' \subseteq Halves \cup (InHand \ {None})
      /\ rowKey' \in [Projects -> Keys \cup {None}]
  <2>1. CASE rowKey' = rowKey
    BY <2>1 DEF Halves, IInv, TypeOK
  <2>2. CASE run[p].pc = "save" /\ rowKey' = [rowKey EXCEPT ![p] = run[p].key]
    <3>1. run[p].key \in InHand /\ rowKey[p] = None /\ run[p].key \in Keys \cup {None}
      BY <2>2 DEF InHand, IInv, PlacesFree, TypeOK, RunState
    <3>2. /\ rowKey \in [Projects -> Keys \cup {None}] /\ rowKey'[p] = run[p].key
          /\ \A q \in Projects : q # p => rowKey'[q] = rowKey[q]
      BY <2>2 DEF IInv, TypeOK
    <3> QED BY <2>2, <3>1, <3>2 DEF Halves
  <2> QED BY <2>1, <2>2
<1>4. \A k \in InHand : k \in issued \cup {None}
  BY DEF InHand, IInv, KeysIssued
<1>5. TypeOK'
  BY <1>1, <1>3 DEF IInv, TypeOK
<1>6. KeysIssued' /\ PublishKnown'
  <2>1. Halves' \subseteq issued'
    BY <1>3, <1>4 DEF IInv, KeysIssued
  <2>2. \A q \in Projects : run'[q].key \in issued' \cup {None}
    BY <1>1 DEF IInv, KeysIssued
  <2> QED BY <2>1, <2>2 DEF IInv, KeysIssued, PublishKnown, At
<1>7. PlacesFree'
  BY <1>1 DEF IInv, TypeOK, PlacesFree
<1>8. HandsClean' /\ ShownIsKnown' /\ RevokedIsForgotten'
  BY <1>2, <1>3, ConstantsOK DEF IInv, TypeOK, HandsClean, Gone, ShownIsKnown, RevokedIsForgotten
<1> QED BY <1>5, <1>6, <1>7, <1>8 DEF IInv

LEMMA RunsStep ==
  ASSUME IInv, load' = load, NEW p \in Projects, Run(p)
  PROVE  IInv'
<1> USE DEF dbVars, ghostVars
<1>0. run[p] \in RunState /\ NoRun \in RunState /\ issued \subseteq Keys /\ lines \subseteq issued
  BY DEF IInv, TypeOK, RunState, NoRun
<1>1. ASSUME NEW result, End(p, result), UNCHANGED <<granted, verified, rows, rowKey, lines, req, issued, ghostVars>>
      PROVE  IInv'
  <2>1. run' = [run EXCEPT ![p] = NoRun] /\ failed' \subseteq failed \cup {p}
    BY <1>1 DEF End
  <2> QED BY <1>0, <1>1, <2>1, RunStep DEF NoRun
<1>2. ASSUME NEW pc \in {"save", "work"}, RunGoto(p, pc), run[p].pc = "queued",
             UNCHANGED <<dbVars, lines, req, issued, ghostVars>>
      PROVE  IInv'
  <2> DEFINE r == [run[p] EXCEPT !.pc = pc]
  <2>1. run' = [run EXCEPT ![p] = r]
    BY <1>2 DEF RunGoto
  <2>2. r \in RunState /\ r.pc = pc /\ r.key = run[p].key
    BY <1>0 DEF RunState
  <2> HIDE DEF r
  <2> QED BY <1>0, <1>2, <2>1, <2>2, RunStep
<1>3. CASE Connect(p)
  BY <1>1, <1>2, <1>3 DEF Connect
<1>4. CASE installAccessKey(p)
  <2>1. ASSUME NEW k \in Keys \ issued, issued' = issued \cup {k}, lines' = lines \cup {k},
               run' = [run EXCEPT ![p] = [pc |-> "save", key |-> k]]
        PROVE  IInv'
    <3> DEFINE r == [pc |-> "save", key |-> k]
    <3>1. r \in RunState /\ r.pc = "save" /\ r.key = k
      BY <2>1 DEF RunState
    <3>2. run' = [run EXCEPT ![p] = r]
      BY <2>1
    <3> HIDE DEF r
    <3> QED BY ZenonT(40), <1>0, <1>4, <2>1, <3>1, <3>2, RunStep DEF installAccessKey
  <2> QED BY <1>2, <1>4, <2>1 DEF installAccessKey
<1>5. CASE SaveSSHKey(p)
  <2> DEFINE r == [NoRun EXCEPT !.pc = "work"]
  <2>1. run' = [run EXCEPT ![p] = r] /\ run[p].pc = "save"
    BY <1>5 DEF SaveSSHKey
  <2>2. r \in RunState /\ r.pc = "work" /\ r.key = None
    BY DEF NoRun, RunState
  <2> HIDE DEF r
  <2> QED BY <1>0, <1>5, <2>1, <2>2, RunStep DEF SaveSSHKey
<1>6. CASE Finish(p)
  BY <1>1, <1>6 DEF Finish
<1> QED BY <1>3, <1>4, <1>5, <1>6 DEF Run

LEMMA OtherSteps ==
  ASSUME IInv, load' = load, (\E k \in Keys : AddLine(k)) \/ UNCHANGED vars
  PROVE  IInv'
<1> USE DEF dbVars, ghostVars
<1>1. /\ UNCHANGED <<granted, verified, rows, rowKey, failed, run, req, issued, ghostVars>>
      /\ lines' \subseteq lines \cup shown
  BY DEF AddLine, vars
<1>2. Halves' = Halves /\ InHand' = InHand
  BY <1>1, TablesKept DEF InHand, At
<1>3. TypeOK'
  BY <1>1 DEF IInv, TypeOK
<1>4. KeysIssued' /\ PlacesFree' /\ PublishKnown'
  BY <1>1, <1>2 DEF IInv, KeysIssued, PlacesFree, PublishKnown, At
<1>5. HandsClean' /\ ShownIsKnown' /\ RevokedIsForgotten'
  BY <1>1, <1>2 DEF IInv, HandsClean, Gone, ShownIsKnown, RevokedIsForgotten
<1> QED BY <1>3, <1>4, <1>5 DEF IInv

LEMMA NextIInv == ASSUME IInv, [Next]_vars PROVE IInv'
<1>1. load' = load
  BY DEF Next, vars
<1>2. ASSUME NEW h \in Requests, Request(h) PROVE IInv'
  BY <1>1, <1>2, LookingStep, SaveAccessKeyStep, DeleteAccessKeyStep, ClearStep, DeleteRowStep,
     StartReadStep, PublishStep DEF Request
<1>3. ASSUME NEW p \in Projects, Run(p) PROVE IInv'
  BY <1>1, <1>3, RunsStep
<1>4. CASE (\E k \in Keys : AddLine(k)) \/ UNCHANGED vars
  BY <1>1, <1>4, OtherSteps
<1> QED
  BY <1>2, <1>3, <1>4 DEF Next

LEMMA Invariance == Spec => []IInv
  BY InitIInv, NextIInv, PTL DEF Spec

(* The tables, the server's lines and the handlers keep their types; what  *)
(* is verified is granted.                                                 *)
THEOREM TypeCorrect == Spec => []TypeOK
<1>1. IInv => TypeOK
  BY DEF IInv
<1> QED BY <1>1, Invariance, PTL

(* The line a user was told to add is never one "we had already forgotten" *)
(* (SaveAccessKey, access.go:469): our half of it is in a table until it   *)
(* is revoked or deleted.                                                  *)
THEOREM LinesHaveKeys == Spec => []ShownIsKnown
<1>1. IInv => ShownIsKnown
  BY DEF IInv
<1> QED BY <1>1, Invariance, PTL

(* RevokeAccess (access.go:260) destroys our half of the key for good,     *)
(* whatever runs beside it: only a key whose clearing failed, or that a    *)
(* Start or its run had in hand when the others were cleared, can be in a  *)
(* project's row again, and none is granted again.                         *)
THEOREM RevokedStaysGone == Spec => []RevokedIsForgotten
<1>1. IInv => RevokedIsForgotten
  BY DEF IInv
<1> QED BY <1>1, Invariance, PTL
=============================================================================
