---------------------------- MODULE ServerAccess ----------------------------
(***************************************************************************)
(* How the service gets into one server: the key granted by the user       *)
(* (server_access_keys), the keys kept with the projects (ssh_key_enc) and *)
(* the lines of ours in authorized_keys.  One user, one address and one    *)
(* ssh user, which is the key of every statement here.  A key stands for   *)
(* its pair and for its line.  Whatever keeps us from connecting, HostPin's*)
(* mismatch included, is "unreachable".  The statements that end a         *)
(* revocation or a deletion, or mark a key verified, may fail.  Keys of a  *)
(* team's projects, and two Starts of one repository at once, or a Start   *)
(* beside a run of its deleted row (DeployQueue), are left out.            *)
(***************************************************************************)
EXTENDS Naturals, Sequences

CONSTANTS
  Projects,     \* repositories the user deploys to the server
  Keys,         \* key pairs; bounds how many are generated
  Requests,     \* handlers in flight
  Loads,        \* what a behaviour may bring together: bounds the model
  None

AllOps == {"ensure", "check", "revoke", "start", "delete"}

ASSUME ConstantsOK ==
  /\ Loads \subseteq SUBSET AllOps
  /\ None \notin Projects \cup Keys

VARIABLES
  load,         \* what is asked for
  granted,      \* key of the server_access_keys row
  verified,     \* its verified_at is set
  rows,         \* rows of the deployments table, the newest first
  rowKey,       \* project -> ssh_key_enc
  failed,       \* projects whose row says failed
  lines,        \* lines of ours in authorized_keys
  run,          \* project -> its run
  req,          \* request -> its handler
  issued,       \* keys that have been generated
  shown,        \* keys whose line a user was told to add
  forgot,       \* of these, keys whose last copy was destroyed on purpose
  revoked,      \* keys that a finished RevokeAccess was about
  survived      \* those of them that were not cleared, or that a Start or its
                \* run had in hand at the time

dbVars == <<granted, verified, rows, rowKey, failed>>
ghostVars == <<shown, forgot, revoked, survived>>
vars == <<load, dbVars, lines, run, req, issued, ghostVars>>

NoRun == [pc |-> "idle", key |-> None]
Idle == [pc |-> "idle", project |-> None, key |-> None, drop |-> FALSE]
RunState == [pc : {"idle", "queued", "save", "work"}, key : Keys \cup {None}]
ReqState ==
  [pc : {"idle", "generate", "reread", "dial", "mark", "line", "key", "clear", "publish",
         "look", "strip", "row", "drop"},
   project : Projects \cup {None}, key : Keys \cup {None}, drop : BOOLEAN]

TypeOK ==
  /\ load \in Loads
  /\ granted \in Keys \cup {None} /\ verified \in BOOLEAN
  /\ verified => granted # None
  /\ rows \in Seq(Projects)
  /\ rowKey \in [Projects -> Keys \cup {None}]
  /\ failed \subseteq Projects
  /\ lines \subseteq issued /\ issued \subseteq Keys
  /\ run \in [Projects -> RunState]
  /\ req \in [Requests -> ReqState]
  /\ shown \subseteq issued /\ forgot \subseteq issued
  /\ revoked \subseteq issued /\ survived \subseteq issued

Init ==
  /\ load \in Loads
  /\ granted = None /\ verified = FALSE
  /\ rows = <<>> /\ rowKey = [p \in Projects |-> None] /\ failed = {}
  /\ lines = {} /\ issued = {}
  /\ run = [p \in Projects |-> NoRun]
  /\ req = [h \in Requests |-> Idle]
  /\ shown = {} /\ forgot = {} /\ revoked = {} /\ survived = {}

-----------------------------------------------------------------------------
(* The tables.                                                             *)

Live(p) == \E i \in DOMAIN rows : rows[i] = p
Without(p) ==
  IF ~Live(p) THEN rows
  ELSE LET n == CHOOSE i \in DOMAIN rows : rows[i] = p
       IN  [i \in 1 .. Len(rows) - 1 |-> IF i < n THEN rows[i] ELSE rows[i + 1]]

(* Our copies of keys.                                                     *)
Halves == ({granted} \cup {rowKey[p] : p \in Projects}) \ {None}

(* The steps that destroy a copy on purpose say so.                        *)
Forget == forgot' = forgot \cup (shown \cap (Halves \ Halves'))

(* The key of the newest project that has one.                             *)
Keyed == {i \in DOMAIN rows : rowKey[rows[i]] # None}
deployedKey ==
  IF Keyed = {} THEN None
  ELSE rowKey[rows[CHOOSE i \in Keyed : \A j \in Keyed : i <= j]]

KnownKey == IF granted # None THEN granted ELSE deployedKey

(* Keys known to work come first.                                          *)
accessKeyPEM ==
  IF granted # None /\ (verified \/ deployedKey = None) THEN granted ELSE deployedKey

CountDeployments(except) == Len(Without(except))
(* A deletion takes the project out of the store, its run goes on.         *)
BusyOn == \E p \in Projects : Live(p) /\ run[p].pc # "idle"

At(h, pc) == req[h].pc = pc
Goto(h, pc) == req' = [req EXCEPT ![h].pc = pc]
LetGo(h, pc) == req' = [req EXCEPT ![h].pc = pc, ![h].key = None]
Return(h) == req' = [req EXCEPT ![h] = Idle]
Arrive(h, op, pc, p, k) ==
  /\ At(h, "idle") /\ op \in load
  /\ req' = [req EXCEPT ![h] = [pc |-> pc, project |-> p, key |-> k, drop |-> FALSE]]

-----------------------------------------------------------------------------
(* EnsureAccess: the key that is there, or a new one.                      *)

EnsureRead(h) ==
  /\ IF KnownKey # None
     THEN At(h, "idle") /\ "ensure" \in load /\ shown' = shown \cup {KnownKey} /\ req' = req
     ELSE Arrive(h, "ensure", "generate", None, None) /\ shown' = shown
  /\ UNCHANGED <<dbVars, lines, run, issued, forgot, revoked, survived>>

(* INSERT ... ON CONFLICT DO NOTHING                                       *)
SaveAccessKey(h) ==
  /\ At(h, "generate")
  /\ \E k \in Keys \ issued :
       /\ issued' = issued \cup {k}
       /\ granted' = IF granted = None THEN k ELSE granted
       /\ req' = [req EXCEPT ![h].pc = "reread", ![h].key = k]
  /\ UNCHANGED <<verified, rows, rowKey, failed, lines, run, ghostVars>>

(* Mutant of EnsureReread: the handler answers with the key it made.       *)
EnsureRereadNot(h) ==
  /\ At(h, "reread")
  /\ shown' = shown \cup {req[h].key}
  /\ Return(h)
  /\ UNCHANGED <<dbVars, lines, run, issued, forgot, revoked, survived>>

EnsureReread(h) ==
  /\ At(h, "reread")
  /\ shown' = IF granted = None THEN shown ELSE shown \cup {granted}
  /\ Return(h)
  /\ UNCHANGED <<dbVars, lines, run, issued, forgot, revoked, survived>>

(* The user runs the command, at once, late or never.                      *)
AddLine(k) ==
  /\ k \in shown
  /\ lines' = lines \cup {k}
  /\ UNCHANGED <<dbVars, run, req, issued, ghostVars>>

-----------------------------------------------------------------------------
(* CheckAccess.                                                            *)

CheckRead(h) ==
  /\ KnownKey # None
  /\ Arrive(h, "check", "dial", None, KnownKey)
  /\ UNCHANGED <<dbVars, lines, run, issued, ghostVars>>

CheckDial(h) ==
  /\ At(h, "dial")
  /\ (req[h].key \in lines /\ LetGo(h, "mark")) \/ Return(h)
  /\ UNCHANGED <<dbVars, lines, run, issued, ghostVars>>

(* Mutant of MarkAccessVerified: an upsert.                                *)
MarkAccessVerifiedAlways(h) ==
  /\ At(h, "mark")
  /\ verified' = TRUE
  /\ Return(h)
  /\ UNCHANGED <<granted, rows, rowKey, failed, lines, run, issued, ghostVars>>

(* The row that is there now, whichever key was tried; an error is only    *)
(* logged.                                                                 *)
MarkAccessVerified(h) ==
  /\ At(h, "mark")
  /\ verified' \in {verified, granted # None}
  /\ Return(h)
  /\ UNCHANGED <<granted, rows, rowKey, failed, lines, run, issued, ghostVars>>

-----------------------------------------------------------------------------
(* RevokeAccess.                                                           *)

(* With projects on the server only when it is forced.                     *)
RevokeRead(h) ==
  /\ KnownKey # None /\ ~BusyOn
  /\ Arrive(h, "revoke", "line", None, KnownKey)
  /\ UNCHANGED <<dbVars, lines, run, issued, ghostVars>>

RevokeLine(h) ==
  /\ At(h, "line")
  /\ lines' \in {lines, lines \ {req[h].key}}
  /\ Goto(h, "key")
  /\ UNCHANGED <<dbVars, run, issued, ghostVars>>

(* RevokeAccess answers when it fails, a deletion goes on as if it had not. *)
DeleteAccessKey(h) ==
  /\ At(h, "key") \/ At(h, "drop")
  /\ \/ /\ granted' = None /\ verified' = FALSE
        /\ IF At(h, "key") THEN Goto(h, "clear") ELSE Return(h)
     \/ UNCHANGED <<granted, verified>> /\ Return(h)
  /\ UNCHANGED <<rows, rowKey>>
  /\ Forget
  /\ UNCHANGED <<failed, lines, run, issued, shown, revoked, survived>>

(* Keys a Start or a run has taken and not stored yet.                     *)
InHand ==
  {req[h].key : h \in {g \in Requests : At(g, "publish")}}
    \cup {run[p].key : p \in {q \in Projects : run[q].pc \in {"queued", "save"}}}

(* The end of a revocation: its key and those of the projects are to be    *)
(* gone, but for one that was granted anew in the meantime.                *)
Revoke(h, cleared) ==
  LET gone == ({req[h].key} \cup {rowKey[p] : p \in Projects}) \ {None, granted}
  IN  /\ revoked' = revoked \cup gone
      /\ survived' = IF cleared THEN (survived \ gone) \cup (gone \cap InHand)
                     ELSE survived \cup gone

(* Mutant of ClearDeploymentKeys: the project whose key was shown only.    *)
ClearDeploymentKeysNewest(h) ==
  /\ At(h, "clear")
  /\ rowKey' = IF rows = <<>> THEN rowKey ELSE [rowKey EXCEPT ![rows[1]] = None]
  /\ Revoke(h, TRUE)
  /\ UNCHANGED <<granted, verified, rows, failed>>
  /\ Forget
  /\ Return(h)
  /\ UNCHANGED <<lines, run, issued, shown>>

(* An error is only logged, and the revocation is reported as done.        *)
ClearDeploymentKeys(h) ==
  /\ At(h, "clear")
  /\ \/ rowKey' = [p \in Projects |-> None] /\ Revoke(h, TRUE)
     \/ rowKey' = rowKey /\ Revoke(h, FALSE)
  /\ UNCHANGED <<granted, verified, rows, failed>>
  /\ Forget
  /\ Return(h)
  /\ UNCHANGED <<lines, run, issued, shown>>

-----------------------------------------------------------------------------
(* Start, and the run as far as keys go.                                   *)

StartRead(h, p, password) ==
  /\ Live(p) => p \in failed
  /\ run[p].pc = "idle" /\ \A g \in Requests : At(g, "publish") => req[g].project # p
  /\ password \/ accessKeyPEM # None
  /\ Arrive(h, "start", "publish", p, IF password THEN None ELSE accessKeyPEM)
  /\ UNCHANGED <<dbVars, lines, run, issued, ghostVars>>

(* DeleteFailedTarget, then Create and the queue.                          *)
Publish(h) ==
  /\ At(h, "publish")
  /\ LET p == req[h].project
     IN  /\ rows' = <<p>> \o Without(p)
         /\ rowKey' = [rowKey EXCEPT ![p] = None]
         /\ failed' = failed \ {p}
         /\ run' = [run EXCEPT ![p] = [pc |-> "queued", key |-> req[h].key]]
  /\ UNCHANGED <<granted, verified>>
  /\ Forget
  /\ Return(h)
  /\ UNCHANGED <<lines, issued, shown, revoked, survived>>

RunGoto(p, pc) == run' = [run EXCEPT ![p].pc = pc]
End(p, result) ==
  /\ run' = [run EXCEPT ![p] = NoRun]
  /\ failed' = IF result = "failed" /\ Live(p) THEN failed \cup {p} ELSE failed

Connect(p) ==
  /\ run[p].pc = "queued"
  /\ \/ run[p].key \in lines /\ RunGoto(p, "save") /\ failed' = failed
     \/ End(p, "failed")
  /\ UNCHANGED <<granted, verified, rows, rowKey, lines, req, issued, ghostVars>>

(* A password deploy that got in leaves a line of its own, quietly or not  *)
(* at all.                                                                 *)
installAccessKey(p) ==
  /\ run[p].pc = "queued" /\ run[p].key = None
  /\ \/ \E k \in Keys \ issued :
          /\ issued' = issued \cup {k} /\ lines' = lines \cup {k}
          /\ run' = [run EXCEPT ![p] = [pc |-> "save", key |-> k]]
     \/ RunGoto(p, "work") /\ UNCHANGED <<issued, lines>>
  /\ UNCHANGED <<dbVars, req, ghostVars>>

(* UPDATE ... WHERE id: no row, no effect; an error is ignored.            *)
SaveSSHKey(p) ==
  /\ run[p].pc = "save"
  /\ rowKey' = rowKey \/ (Live(p) /\ rowKey' = [rowKey EXCEPT ![p] = run[p].key])
  /\ run' = [run EXCEPT ![p] = [NoRun EXCEPT !.pc = "work"]]
  /\ UNCHANGED <<granted, verified, rows, failed, lines, req, issued, ghostVars>>

Finish(p) ==
  /\ run[p].pc = "work"
  /\ End(p, "success") \/ End(p, "failed")
  /\ UNCHANGED <<granted, verified, rows, rowKey, lines, req, issued, ghostVars>>

-----------------------------------------------------------------------------
(* Delete: purge takes the project's line off, the other modes do not.     *)

DeleteRead(h, p, purge) ==
  /\ Live(p)
  /\ IF purge /\ rowKey[p] # None
     THEN Arrive(h, "delete", "look", p, rowKey[p])
     ELSE Arrive(h, "delete", "row", p, None)
  /\ UNCHANGED <<dbVars, lines, run, issued, ghostVars>>

(* A granted key stays for the other projects on the server; and nothing   *)
(* is done when the server cannot be reached.                              *)
PurgeLook(h) ==
  /\ At(h, "look")
  /\ LET shared == granted = req[h].key
         others == CountDeployments(req[h].project) > 0
     IN  \/ /\ req[h].key \in lines /\ ~(shared /\ others)
            /\ req' = [req EXCEPT ![h].pc = "strip", ![h].drop = shared]
         \/ LetGo(h, "row")
  /\ UNCHANGED <<dbVars, lines, run, issued, ghostVars>>

PurgeStrip(h) ==
  /\ At(h, "strip")
  /\ lines' \in {lines, lines \ {req[h].key}}
  /\ LetGo(h, "row")
  /\ UNCHANGED <<dbVars, run, issued, ghostVars>>

DeleteFails(h) ==
  /\ At(h, "row")
  /\ Return(h)
  /\ UNCHANGED <<dbVars, lines, run, issued, ghostVars>>

DeleteRow(h) ==
  /\ At(h, "row")
  /\ rows' = Without(req[h].project)
  /\ rowKey' = [rowKey EXCEPT ![req[h].project] = None]
  /\ failed' = failed \ {req[h].project}
  /\ UNCHANGED <<granted, verified>>
  /\ Forget
  /\ IF Live(req[h].project) /\ req[h].drop
     THEN req' = [req EXCEPT ![h] = [Idle EXCEPT !.pc = "drop"]]
     ELSE Return(h)
  /\ UNCHANGED <<lines, run, issued, shown, revoked, survived>>

-----------------------------------------------------------------------------
Request(h) ==
  \/ EnsureRead(h) \/ SaveAccessKey(h) \/ EnsureReread(h)
  \/ CheckRead(h) \/ CheckDial(h) \/ MarkAccessVerified(h)
  \/ RevokeRead(h) \/ RevokeLine(h) \/ DeleteAccessKey(h) \/ ClearDeploymentKeys(h)
  \/ \E p \in Projects : \/ \E b \in BOOLEAN : StartRead(h, p, b) \/ DeleteRead(h, p, b)
  \/ Publish(h)
  \/ PurgeLook(h) \/ PurgeStrip(h) \/ DeleteRow(h) \/ DeleteFails(h)

Run(p) == Connect(p) \/ installAccessKey(p) \/ SaveSSHKey(p) \/ Finish(p)

Next ==
  /\ \/ \E h \in Requests : Request(h)
     \/ \E p \in Projects : Run(p)
     \/ \E k \in Keys : AddLine(k)
  /\ UNCHANGED load

Spec == Init /\ [][Next]_vars

-----------------------------------------------------------------------------
(* Properties.                                                             *)

(* SaveAccessKey (access.go:469): two requests that generate a key in      *)
(* parallel return the same one, "otherwise the user would add a line we   *)
(* had already forgotten".  Whatever comes in between, every line a user   *)
(* was told to add has its key with us until it is revoked or deleted.     *)
ShownIsKnown == shown \subseteq Halves \cup forgot

(* RevokeAccess (access.go:260): it "destroys our half of the key".  A key *)
(* it was about is never granted again, and no project gets it back, from  *)
(* redeploys, password deploys, new grants or a deletion that go on beside *)
(* it, except in two ways the code leaves open: the clearing failed, which *)
(* is only logged (access.go:316), or a Start or its run had the key in    *)
(* hand, and stores it afterwards (deployer.go:579).                       *)
RevokedIsForgotten ==
  /\ granted \notin revoked
  /\ (revoked \ survived) \cap Halves = {}
=============================================================================
