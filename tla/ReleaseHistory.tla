-------------------------- MODULE ReleaseHistory --------------------------
(***************************************************************************)
(* The ServerState of one web project: the release history that rollback   *)
(* uses and the preferences that edits change, in three places at once:    *)
(* the row of the deployments table, the objects of its runs, and the copy *)
(* a handler took with getFull before it asked isBusy.  Every write of a   *)
(* row is SaveState or SaveFinal, which writes status and server_state of  *)
(* one object together.                                                    *)
(*                                                                         *)
(* On the user's server there are the checked-out commit and the commit    *)
(* the containers run.  The project is web, so the server lock runs one    *)
(* job at a time: one worker is enough.                                    *)
(***************************************************************************)
EXTENDS Integers, Sequences, FiniteSets

CONSTANTS
  Commits,
  Prefs,        \* values of the fields UpdateSettings and UpdateProtection set
  Runs,         \* live *Deployment objects
  Handlers,     \* HTTP and webhook goroutines in flight
  Cap,          \* releases kept (10)
  Ops,
  None, Down,
  MaxPushes, MaxRestarts   \* bounds

ASSUME ConstantsOK ==
  /\ Cap \in Nat /\ Cap >= 2
  /\ Ops \subseteq {"redeploy", "rollback", "edit"}
  /\ MaxPushes \in Nat /\ MaxRestarts \in Nat
  /\ None \notin Commits /\ None \notin Runs /\ None \notin Prefs /\ Prefs # {}
  /\ Down \notin Commits

VARIABLES
  head,       \* the branch at the git host
  pushes,
  row,        \* the project's row: status and ServerState
  obj,        \* run -> its object: status, ServerState, kind, rollbackSHA
  store,      \* the live run of the project in Store
  queue,      \* the jobs channel
  job, pc,    \* the worker: run in hand, next thing it does
  code, app,  \* on the server: git HEAD and the version in the containers
  hand,       \* handler -> what it does with which copy of the row
  good,       \* versions that passed the health check
  restarts

serverVars == <<code, app>>
jobVars == <<queue, job, pc>>
vars == <<head, pushes, row, obj, store, jobVars, serverVars, hand, good, restarts>>

Statuses == {"queued", "running", "success", "failed"}
History == {rel \in Seq(Commits) : Len(rel) <= Cap}
RowState == [status : Statuses, releases : History, prefs : Prefs]
ObjState == [status : Statuses \cup {"unused", "lost"}, releases : History, prefs : Prefs,
             kind : {"deploy", "redeploy", "rollback"}, target : Commits \cup {None}]
PCs == {"idle", "begin", "code", "up", "health", "record", "fail", "final"}
HandState == [pc : {"idle", "loaded", "free", "added", "saved", "edited"},
              op : Ops \cup {None}, snap : RowState \cup {None}, run : Runs \cup {None},
              target : Commits \cup {None}, prefs : Prefs \cup {None}]
Idle == [pc |-> "idle", op |-> None, snap |-> None, run |-> None, target |-> None, prefs |-> None]

TypeOK ==
  /\ head \in Commits /\ pushes \in Nat
  /\ row \in RowState
  /\ obj \in [Runs -> ObjState]
  /\ store \in Runs \cup {None}
  /\ queue \in Seq(Runs)
  /\ job \in Runs \cup {None} /\ pc \in PCs
  /\ code \in Commits \cup {None} /\ app \in Commits \cup {Down}
  /\ hand \in [Handlers -> HandState]
  /\ good \subseteq Commits
  /\ restarts \in Nat

-----------------------------------------------------------------------------
(* The history itself.                                                     *)

Top(rel) == rel[Len(rel)]

(* Mutant of Record: the cap is forgotten.                                 *)
RecordAll(rel, sha) ==
  IF Len(rel) > 0 /\ Top(rel) = sha THEN rel ELSE Append(rel, sha)
(* Mutant of Record: the commit that is the top is recorded again.         *)
RecordAgain(rel, sha) ==
  IF Len(rel) < Cap THEN Append(rel, sha) ELSE Append(Tail(rel), sha)
(* recordRelease: the same commit is not recorded twice in a row, and only *)
(* the last Cap versions are kept.                                         *)
Record(rel, sha) ==
  IF Len(rel) > 0 /\ Top(rel) = sha THEN rel
  ELSE IF Len(rel) < Cap THEN Append(rel, sha)
  ELSE Append(Tail(rel), sha)

(* Rollback: after a failure the top of the stack, else one step back.     *)
RollbackTarget(status, rel) ==
  IF status = "failed" /\ Len(rel) >= 1 THEN Top(rel)
  ELSE IF Len(rel) >= 2 THEN rel[Len(rel) - 1]
  ELSE None

(* Mutant of PopTo: restoring the top pops as well.                        *)
PopAlways(rel, sha) ==
  IF Len(rel) >= 2 THEN SubSeq(rel, 1, Len(rel) - 1) ELSE rel
(* The end of runRollback: a step back drops the version stepped back      *)
(* from, restoring the top after a failure leaves the history alone.       *)
PopTo(rel, sha) ==
  IF Len(rel) >= 2 /\ Top(rel) # sha THEN SubSeq(rel, 1, Len(rel) - 1) ELSE rel
-----------------------------------------------------------------------------
(* Start has just published and enqueued the first deploy.                 *)
Fresh == [status |-> "unused", releases |-> <<>>, prefs |-> CHOOSE v \in Prefs : TRUE,
          kind |-> "deploy", target |-> None]
StateOf(o) == [status |-> o.status, releases |-> o.releases, prefs |-> o.prefs]

Init ==
  /\ head \in Commits /\ pushes = 0
  /\ \E r \in Runs :
       /\ obj = [x \in Runs |-> IF x = r THEN [Fresh EXCEPT !.status = "queued"] ELSE Fresh]
       /\ row = StateOf(obj[r])
       /\ store = r
       /\ queue = <<r>>
  /\ job = None /\ pc = "idle"
  /\ code = None /\ app = Down
  /\ hand = [h \in Handlers |-> Idle]
  /\ good = {}
  /\ restarts = 0

Push(c) ==
  /\ pushes < MaxPushes /\ c # head
  /\ head' = c /\ pushes' = pushes + 1
  /\ UNCHANGED <<row, obj, store, jobVars, serverVars, hand, good, restarts>>

-----------------------------------------------------------------------------
(* Redeploy, Rollback, redeployFromHook and the two edits.                 *)

isBusy == store # None /\ obj[store].status \in {"queued", "running"}

At(h, step) == hand[h].pc = step
Goto(h, step) == hand' = [hand EXCEPT ![h].pc = step]
Return(h) == hand' = [hand EXCEPT ![h] = Idle]

(* getFull, then what the handler computes from it.                        *)
Load(h, op) ==
  /\ At(h, "idle") /\ op \in Ops
  /\ \E v \in Prefs :
       hand' = [hand EXCEPT ![h] =
                  [pc |-> "loaded", op |-> op, snap |-> row, run |-> None,
                   target |-> IF op = "rollback" THEN RollbackTarget(row.status, row.releases)
                              ELSE None,
                   prefs |-> IF op = "edit" THEN v ELSE None]]
  /\ UNCHANGED <<head, pushes, row, obj, store, jobVars, serverVars, good, restarts>>

(* isBusy comes after the load (and after minting a git token); a rollback *)
(* without a previous version has been refused before it.                  *)
BusyCheck(h) ==
  /\ At(h, "loaded")
  /\ IF isBusy \/ (hand[h].op = "rollback" /\ hand[h].target = None)
     THEN Return(h)
     ELSE Goto(h, "free")
  /\ UNCHANGED <<head, pushes, row, obj, store, jobVars, serverVars, good, restarts>>

(* rerunClone of the loaded copy, then store.Add.                          *)
StoreAdd(h, r) ==
  /\ At(h, "free") /\ hand[h].op \in {"redeploy", "rollback"} /\ obj[r].status = "unused"
  /\ obj' = [obj EXCEPT ![r] =
               [status |-> "queued", releases |-> hand[h].snap.releases,
                prefs |-> hand[h].snap.prefs, kind |-> hand[h].op, target |-> hand[h].target]]
  /\ store' = r
  /\ hand' = [hand EXCEPT ![h] = [@ EXCEPT !.pc = "added", !.run = r]]
  /\ UNCHANGED <<head, pushes, row, jobVars, serverVars, good, restarts>>

SaveQueued(h) ==
  /\ At(h, "added")
  /\ row' = StateOf(obj[hand[h].run])
  /\ Goto(h, "saved")
  /\ UNCHANGED <<head, pushes, obj, store, jobVars, serverVars, good, restarts>>

Enqueue(h) ==
  /\ At(h, "saved")
  /\ queue' = Append(queue, hand[h].run)
  /\ Return(h)
  /\ UNCHANGED <<head, pushes, row, obj, store, job, pc, serverVars, good, restarts>>

(* UpdateSettings, UpdateProtection: SaveState of the loaded copy with the *)
(* new fields, then markState of the live object.                          *)
EditSave(h) ==
  /\ At(h, "free") /\ hand[h].op = "edit"
  /\ row' = [hand[h].snap EXCEPT !.prefs = hand[h].prefs]
  /\ Goto(h, "edited")
  /\ UNCHANGED <<head, pushes, obj, store, jobVars, serverVars, good, restarts>>

EditLive(h) ==
  /\ At(h, "edited")
  /\ obj' = IF store = None THEN obj ELSE [obj EXCEPT ![store].prefs = hand[h].prefs]
  /\ Return(h)
  /\ UNCHANGED <<head, pushes, row, store, jobVars, serverVars, good, restarts>>

Handler(h) ==
  \/ \E op \in Ops : Load(h, op)
  \/ BusyCheck(h) \/ SaveQueued(h) \/ Enqueue(h) \/ EditSave(h) \/ EditLive(h)
  \/ \E r \in Runs : StoreAdd(h, r)

-----------------------------------------------------------------------------
(* The run: every persist writes the whole object over the row.            *)

Step(from) == job # None /\ pc = from
Persist(o) == row' = StateOf(o)

Take ==
  /\ pc = "idle" /\ queue # <<>>
  /\ job' = Head(queue) /\ queue' = Tail(queue) /\ pc' = "begin"
  /\ UNCHANGED <<head, pushes, row, obj, store, serverVars, hand, good, restarts>>

Begin ==
  /\ Step("begin")
  /\ obj' = [obj EXCEPT ![job].status = "running"]
  /\ Persist(obj'[job])
  /\ pc' = "code"
  /\ UNCHANGED <<head, pushes, store, queue, job, serverVars, hand, good, restarts>>

(* clone and pull take the head of the branch, rollbackCheckout a commit.  *)
Checkout ==
  /\ Step("code")
  /\ \/ /\ code' = IF obj[job].kind = "rollback" THEN obj[job].target ELSE head
        /\ pc' = "up" /\ Persist(obj[job])
     \/ code' = code /\ pc' = "fail" /\ row' = row
  /\ UNCHANGED <<head, pushes, obj, store, queue, job, app, hand, good, restarts>>

(* composeUp: a failed build leaves the old containers, a failed start     *)
(* none, a failure to connect them to the gateway the new ones.            *)
ComposeUp ==
  /\ Step("up")
  /\ \/ app' = code /\ pc' = "health" /\ Persist(obj[job])
     \/ app' \in {app, Down, code} /\ pc' = "fail" /\ row' = row
  /\ UNCHANGED <<head, pushes, obj, store, queue, job, code, hand, good, restarts>>

(* Mutant of Health: a site that does not answer passes.                   *)
HealthIgnored ==
  /\ Step("health")
  /\ pc' = "record" /\ Persist(obj[job])
  /\ good' \in {good, good \cup {app}}
  /\ UNCHANGED <<head, pushes, obj, store, queue, job, serverVars, hand, restarts>>

Health ==
  /\ Step("health")
  /\ \/ good' = good \cup {app} /\ pc' = "record" /\ Persist(obj[job])
     \/ good' = good /\ pc' = "fail" /\ row' = row
  /\ UNCHANGED <<head, pushes, obj, store, queue, job, serverVars, hand, restarts>>

(* recordRelease, which finds nothing to record when git does not answer,  *)
(* or the pop of a rollback; then setStatus(StatusSuccess).                *)
Succeed ==
  /\ Step("record")
  /\ LET o == obj[job]
         With(rel) == [o EXCEPT !.status = "success", !.releases = rel]
     IN  IF o.kind = "rollback"
         THEN obj' = [obj EXCEPT ![job] = With(PopTo(o.releases, o.target))]
         ELSE \/ obj' = [obj EXCEPT ![job] = With(Record(o.releases, code))]
              \/ obj' = [obj EXCEPT ![job] = With(o.releases)]
  /\ pc' = "final"
  /\ UNCHANGED <<head, pushes, row, store, queue, job, serverVars, hand, good, restarts>>

failStep ==
  /\ Step("fail")
  /\ obj' = [obj EXCEPT ![job].status = "failed"]
  /\ pc' = "final"
  /\ UNCHANGED <<head, pushes, row, store, queue, job, serverVars, hand, good, restarts>>

SaveFinal ==
  /\ Step("final")
  /\ Persist(obj[job])
  /\ job' = None /\ pc' = "idle"
  /\ UNCHANGED <<head, pushes, obj, store, queue, serverVars, hand, good, restarts>>

Worker == Take \/ Begin \/ Checkout \/ ComposeUp \/ Health \/ Succeed \/ failStep \/ SaveFinal

(* The process dies and NewService runs MarkOrphans.                       *)
Restart ==
  /\ restarts < MaxRestarts
  /\ restarts' = restarts + 1
  /\ row' = IF row.status \in {"queued", "running"} THEN [row EXCEPT !.status = "failed"] ELSE row
  /\ obj' = [r \in Runs |-> IF obj[r].status \in {"queued", "running"}
                            THEN [obj[r] EXCEPT !.status = "lost"] ELSE obj[r]]
  /\ store' = None /\ queue' = <<>> /\ job' = None /\ pc' = "idle"
  /\ hand' = [h \in Handlers |-> Idle]
  /\ UNCHANGED <<head, pushes, serverVars, good>>

Next ==
  \/ \E c \in Commits : Push(c)
  \/ \E h \in Handlers : Handler(h)
  \/ Worker
  \/ Restart

Spec == Init /\ [][Next]_vars

-----------------------------------------------------------------------------
(* Properties.                                                             *)

Histories == {row.releases} \cup {obj[r].releases : r \in Runs}

(* recordRelease: no history, stale copies included, has a version twice   *)
(* in a row, so one step back is always another version.                   *)
NoRepeats ==
  \A rel \in Histories : \A i \in 1..(Len(rel) - 1) : rel[i] # rel[i + 1]

(* canRollback (model.go:284) and Rollback offer only versions that ran:   *)
(* whatever restart or stale copy came between, every version in a history *)
(* and every target of a rollback passed the health check once.            *)
OnlyGoodVersions ==
  /\ \A rel \in Histories : \A i \in DOMAIN rel : rel[i] \in good
  /\ \A r \in Runs : obj[r].target # None => obj[r].target \in good

(* runRollback (redeploy.go:86): when a rollback succeeds, its target runs *)
(* and is the top of the history it saves.                                 *)
RollbackLandsOnTarget ==
  [][Succeed /\ obj[job].kind = "rollback" =>
     /\ app = obj[job].target
     /\ Top(obj'[job].releases) = obj[job].target]_vars
=============================================================================
