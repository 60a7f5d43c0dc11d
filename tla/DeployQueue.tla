---------------------------- MODULE DeployQueue ----------------------------
(***************************************************************************)
(* The control plane of the deploy service: request handlers that admit,   *)
(* publish and enqueue runs, the bounded job channel, the worker pool with *)
(* its per-server lock, the status column of the deployments table, the    *)
(* in-memory store of live runs, graceful shutdown and restart.            *)
(*                                                                         *)
(* The Go handlers hold nothing across their database statements, accesses *)
(* to the store and channel operations, so each of these is a step of its  *)
(* own; reads that come one after another with no write between them are   *)
(* one step, and a value that is read and used later is kept in the        *)
(* handler's record.                                                       *)
(*                                                                         *)
(* A "run" is one *Deployment object made by buildDeployment or rerunClone *)
(* together with the *job that carries it: two runs of one project are two *)
(* objects with the same ID.  What a run does on the user's server is kept *)
(* to whether it is at work there; ReleaseHistory and Gateway model it.    *)
(* One user owns everything, so access checks always pass.                 *)
(***************************************************************************)
EXTENDS Integers, Sequences, FiniteSets

CONSTANTS
  Projects,     \* deployment ids (rows of the deployments table, past and future)
  Runs,         \* live *Deployment objects; bounds how many jobs a behaviour has
  Requests,     \* goroutines of HTTP handlers and webhooks in flight at once
  Workers,      \* goroutines of Service.worker
  Servers,      \* server_ip values
  None,
  ServerOf,     \* [Projects -> Servers]
  RepoOf,       \* project -> the full name of its repository
  ProviderOf,   \* project -> where its repository is hosted
  FolderOf,     \* project -> the last part of the repository name, which names
                \* its directory, its containers and its gateway snippet
  DomainOf,     \* project -> the domain it is published under
  BotProjects,  \* projects with project_type "worker": no domain, no gateway
  Limit,        \* projects the plan allows
  QueueCap,     \* capacity of the jobs channel
  Loads         \* what a behaviour is put under: what users, webhooks and
                \* operators do, how many handlers are at work at once, whether
                \* a statement may fail (timeout, request cancelled), and how
                \* often the process restarts

JobOps  == {"deploy", "redeploy", "rollback", "hook"}
EditOps == {"settings", "protection", "env"}
AllOps  == JobOps \cup EditOps \cup {"delete", "maintenance", "shutdown"}

ASSUME ConstantsOK ==
  /\ ServerOf \in [Projects -> Servers]
  /\ \A p, q \in Projects : RepoOf[p] = RepoOf[q] => FolderOf[p] = FolderOf[q]
  /\ BotProjects \subseteq Projects
  /\ IsFiniteSet(Workers)
  /\ Limit \in Nat
  /\ QueueCap \in Nat \ {0}
  /\ Loads \subseteq [ops : SUBSET AllOps, handlers : Nat, faults : BOOLEAN, restarts : Nat]
  /\ None \notin Projects \cup Runs \cup Workers \cup Servers \cup AllOps

VARIABLES
  row,          \* status column of a project's row, "none" when there is no row
  born,         \* projects whose id has been handed out
  store,        \* Store.m: project -> its live run
  runProject,   \* run -> project
  runStatus,    \* run -> Deployment.Status
  queue,        \* the jobs channel
  wpc, wrun,    \* worker -> program counter, job in hand
  lock,         \* serverLocks: server -> the worker holding it
  wg,           \* jobsWG
  req,          \* request -> its handler
  phase,        \* "up", "closing", "closed" (activity channel closed), "panic"
  maintenance,  \* app_settings.maintenance_mode
  pinged,       \* the maintenance watcher has sent "safe to roll"
  restarts,
  load,         \* one of Loads, for a whole behaviour
  raced,        \* history: projects that isBusy has let two requests into, or
                \* whose store entry was removed while its run was not over
  stale         \* history: projects whose row missed the outcome of a run, or
                \* had an older status written over it since the last outcome

dbVars == <<row, born>>
liveVars == <<store, runProject, runStatus>>
workVars == <<wpc, wrun, lock, wg>>
procVars == <<phase, maintenance, pinged, restarts, load>>
histVars == <<raced, stale>>
vars == <<dbVars, liveVars, queue, workVars, req, procVars, histVars>>

Statuses == {"queued", "running", "success", "failed"}
WorkerPCs == {"idle", "taken", "counted", "locked", "begun", "running", "ended",
              "saved", "unlocked", "reported"}
RequestPCs == {"idle", "checked", "purged", "ready", "loaded", "free", "added",
               "saved", "gone"}
Idle == [pc |-> "idle", op |-> None, project |-> None, run |-> None,
         seen |-> "none", drop |-> {}]

RequestState ==
  [pc : RequestPCs, op : AllOps \cup {None}, project : Projects \cup {None},
   run : Runs \cup {None}, seen : Statuses \cup {"none"}, drop : SUBSET Projects]

TypeOK ==
  /\ row \in [Projects -> Statuses \cup {"none"}]
  /\ born \subseteq Projects
  /\ store \in [Projects -> Runs \cup {None}]
  /\ runProject \in [Runs -> Projects \cup {None}]
  /\ runStatus \in [Runs -> Statuses \cup {"unused", "lost"}]
  /\ queue \in Seq(Runs)
  /\ wpc \in [Workers -> WorkerPCs]
  /\ wrun \in [Workers -> Runs \cup {None}]
  /\ lock \in [Servers -> Workers \cup {None}]
  /\ wg \in Int
  /\ req \in [Requests -> RequestState]
  /\ phase \in {"up", "closing", "closed", "panic"}
  /\ maintenance \in BOOLEAN
  /\ pinged \in BOOLEAN
  /\ restarts \in Nat
  /\ load \in Loads
  /\ raced \subseteq Projects
  /\ stale \subseteq Projects

-----------------------------------------------------------------------------
Active(p) == row[p] \notin {"none", "failed"}
IsWorker(p) == p \in BotProjects

(* The provider is not compared here (repo.go:86), in FailedTarget it is.  *)
RepoOnServer(p) ==
  \E q \in Projects \ {p} : Active(q) /\ RepoOf[q] = RepoOf[p] /\ ServerOf[q] = ServerOf[p]
DomainInUse(p) ==
  \E q \in Projects \ {p} : Active(q) /\ ~IsWorker(q) /\ DomainOf[q] = DomainOf[p]

(***************************************************************************)
(* The process has just started: the table holds the settled projects of   *)
(* earlier lives, MarkOrphans has left nothing queued or running.  A       *)
(* repository has one working project on a server, and so has a domain.    *)
(***************************************************************************)
Init ==
  /\ row \in [Projects -> {"none", "success", "failed"}]
  /\ \A p \in Projects : Active(p) => ~RepoOnServer(p) /\ (IsWorker(p) \/ ~DomainInUse(p))
  /\ born = {p \in Projects : row[p] # "none"}
  /\ store = [p \in Projects |-> None]
  /\ runProject = [r \in Runs |-> None]
  /\ runStatus = [r \in Runs |-> "unused"]
  /\ queue = <<>>
  /\ wpc = [w \in Workers |-> "idle"]
  /\ wrun = [w \in Workers |-> None]
  /\ lock = [s \in Servers |-> None]
  /\ wg = 0
  /\ req = [h \in Requests |-> Idle]
  /\ phase = "up"
  /\ maintenance = FALSE
  /\ pinged = FALSE
  /\ restarts = 0
  /\ load \in Loads
  /\ raced = {}
  /\ stale = {}

-----------------------------------------------------------------------------
(* Statements, the store and the handler's record.                         *)

Alive == phase # "panic"
Closing == phase # "up"
Unfinished(r) == runStatus[r] \in {"queued", "running"}

(* UPDATE deployments SET status = s WHERE id = p: no row, no effect.      *)
Updated(p, s) == IF row[p] = "none" THEN row ELSE [row EXCEPT ![p] = s]
SaveState(p, s) ==
  \/ row' = Updated(p, s)
  \/ load.faults /\ row' = row

(* The last SaveState of a run: its outcome is in the row, or was missed.  *)
SaveOutcome(p, s) ==
  \/ row' = Updated(p, s) /\ stale' = stale \ {p}
  \/ load.faults /\ row' = row /\ stale' = stale \cup {p}

(* Mutant of isBusy: a queued run does not count.                          *)
isBusyRunning(p) == store[p] # None /\ runStatus[store[p]] = "running"
isBusy(p) == store[p] # None /\ Unfinished(store[p])

CountActive == Cardinality({q \in Projects : Active(q)})

FailedTarget(p) ==
  {q \in Projects : /\ row[q] = "failed"
                   /\ <<RepoOf[q], ProviderOf[q], ServerOf[q]>> =
                      <<RepoOf[p], ProviderOf[p], ServerOf[p]>>}

At(h, pc) == Alive /\ req[h].pc = pc
Goto(h, pc) == req' = [req EXCEPT ![h].pc = pc]
Return(h) == req' = [req EXCEPT ![h] = Idle]
Arrive(h, pc, op, p) ==
  req' = [req EXCEPT ![h] = [Idle EXCEPT !.pc = pc, !.op = op, !.project = p]]

-----------------------------------------------------------------------------
(* Start: a new project.                                                   *)

(* A check whose statement fails lets the request through: MaintenanceOn,  *)
(* RepoOnServer and DomainInUse answer "no", the count is skipped.  The    *)
(* four reads of Start are one step: they only decide whether it goes on,  *)
(* and what they saw may be over by the time of Create all the same.       *)
Checked(ok) == ok \/ load.faults

StartCheck(h, p) ==
  /\ At(h, "idle") /\ "deploy" \in load.ops /\ p \notin born
  /\ ~Closing
  /\ Checked(~maintenance)
  /\ Checked(~RepoOnServer(p))
  /\ Checked(IsWorker(p) \/ ~DomainInUse(p))
  /\ Checked(CountActive < Limit)
  /\ Arrive(h, "checked", "deploy", p)
  /\ born' = born \cup {p}
  /\ UNCHANGED <<row, liveVars, queue, workVars, procVars, histVars>>

(* DELETE ... WHERE status = 'failed' RETURNING id                         *)
DeleteFailedTarget(h) ==
  /\ At(h, "checked")
  /\ \E ids \in {FailedTarget(req[h].project)} \cup (IF load.faults THEN {{}} ELSE {}) :
       /\ row' = [q \in Projects |-> IF q \in ids THEN "none" ELSE row[q]]
       /\ req' = [req EXCEPT ![h].pc = "purged", ![h].drop = ids]
  /\ UNCHANGED <<born, liveVars, queue, workVars, procVars, histVars>>

StoreRemoveFailed(h) ==
  /\ At(h, "purged")
  /\ store' = [q \in Projects |-> IF q \in req[h].drop THEN None ELSE store[q]]
  /\ raced' = raced \cup {q \in req[h].drop : isBusy(q)}
  /\ req' = [req EXCEPT ![h].pc = "ready", ![h].drop = {}]
  /\ UNCHANGED <<dbVars, runProject, runStatus, queue, workVars, procVars, stale>>

(* INSERT; when it fails the handler returns and leaves the store entry.   *)
Create(h) ==
  /\ At(h, "added") /\ req[h].op = "deploy"
  /\ \/ row' = [row EXCEPT ![req[h].project] = "queued"] /\ Goto(h, "saved")
     \/ load.faults /\ row' = row /\ Return(h)
  /\ UNCHANGED <<born, liveVars, queue, workVars, procVars, histVars>>

-----------------------------------------------------------------------------
(* Redeploy, Rollback and redeployFromHook: another run of a project.      *)

(* getFull and the checks in front of it: Rollback and the webhook do not  *)
(* ask whether the service is stopping, the webhook asks for maintenance   *)
(* after the load.                                                         *)
Load(h, op, p) ==
  /\ At(h, "idle") /\ op \in load.ops \cap {"redeploy", "rollback", "hook"}
  /\ op = "redeploy" => ~Closing
  /\ op # "hook" => Checked(~maintenance)
  /\ row[p] # "none"
  /\ Arrive(h, "loaded", op, p)
  /\ UNCHANGED <<dbVars, liveVars, queue, workVars, procVars, histVars>>

Between(h) ==
  \E g \in Requests \ {h} :
    req[g].pc = "free" /\ req[g].op \in JobOps /\ req[g].project = req[h].project

BusyCheck(h) ==
  /\ At(h, "loaded") /\ req[h].op # "delete"
  /\ \/ /\ isBusy(req[h].project) \/ (req[h].op = "hook" /\ maintenance)
        /\ Return(h) /\ raced' = raced
     \/ /\ ~isBusy(req[h].project)
        /\ req[h].op = "hook" => Checked(~maintenance)
        /\ Goto(h, "free")
        /\ raced' = IF req[h].op \in JobOps /\ Between(h) THEN raced \cup {req[h].project}
                    ELSE raced
  /\ UNCHANGED <<dbVars, liveVars, queue, workVars, procVars, stale>>

(* Mutant of StoreAdd: the first run of a project stays in the store.      *)
StoreAddOnce(h, r) ==
  /\ \/ At(h, "ready")
     \/ At(h, "free") /\ req[h].op \in JobOps
  /\ runStatus[r] = "unused"
  /\ runStatus' = [runStatus EXCEPT ![r] = "queued"]
  /\ runProject' = [runProject EXCEPT ![r] = req[h].project]
  /\ store' = IF store[req[h].project] # None THEN store
              ELSE [store EXCEPT ![req[h].project] = r]
  /\ req' = [req EXCEPT ![h].pc = "added", ![h].run = r]
  /\ UNCHANGED <<dbVars, queue, workVars, procVars, histVars>>

(* store.Add of the object buildDeployment or rerunClone made.             *)
StoreAdd(h, r) ==
  /\ \/ At(h, "ready")
     \/ At(h, "free") /\ req[h].op \in JobOps
  /\ runStatus[r] = "unused"
  /\ runStatus' = [runStatus EXCEPT ![r] = "queued"]
  /\ runProject' = [runProject EXCEPT ![r] = req[h].project]
  /\ store' = [store EXCEPT ![req[h].project] = r]
  /\ req' = [req EXCEPT ![h].pc = "added", ![h].run = r]
  /\ UNCHANGED <<dbVars, queue, workVars, procVars, histVars>>

SaveQueued(h) ==
  /\ At(h, "added") /\ req[h].op # "deploy"
  /\ SaveState(req[h].project, runStatus[req[h].run])
  /\ Goto(h, "saved")
  /\ UNCHANGED <<born, liveVars, queue, workVars, procVars, histVars>>

(* Mutant of Enqueue: the last place of the channel is never used.         *)
EnqueueOneShort(h) ==
  /\ At(h, "saved") /\ req[h].op \in JobOps
  /\ Len(queue) + 1 < QueueCap
  /\ queue' = Append(queue, req[h].run)
  /\ Return(h)
  /\ UNCHANGED <<dbVars, liveVars, workVars, procVars, histVars>>

(* s.jobs <- &job{...} blocks while the channel is full.                   *)
Enqueue(h) ==
  /\ At(h, "saved") /\ req[h].op \in JobOps
  /\ Len(queue) < QueueCap
  /\ queue' = Append(queue, req[h].run)
  /\ Return(h)
  /\ UNCHANGED <<dbVars, liveVars, workVars, procVars, histVars>>

-----------------------------------------------------------------------------
(* UpdateSettings, UpdateProtection, UpdateEnv and Delete.                 *)

EditLoad(h, op, p) ==
  /\ At(h, "idle") /\ op \in load.ops \cap EditOps
  /\ row[p] # "none"
  /\ req' = [req EXCEPT ![h] = [Idle EXCEPT !.pc = "loaded", !.op = op, !.project = p,
                                            !.seen = row[p]]]
  /\ UNCHANGED <<dbVars, liveVars, queue, workVars, procVars, histVars>>

(* SaveState of the object getFull returned, status included.  UpdateEnv   *)
(* writes nothing: it ends its work on the server.                         *)
EditSave(h) ==
  /\ At(h, "free") /\ req[h].op \in EditOps
  /\ IF req[h].op = "env" THEN row' = row ELSE SaveState(req[h].project, req[h].seen)
  /\ stale' = IF row' = row THEN stale ELSE stale \cup {req[h].project}
  /\ Return(h)
  /\ UNCHANGED <<born, liveVars, queue, workVars, procVars, raced>>

DeleteLoad(h, p) ==
  /\ At(h, "idle") /\ "delete" \in load.ops /\ row[p] # "none"
  /\ Arrive(h, "loaded", "delete", p)
  /\ UNCHANGED <<dbVars, liveVars, queue, workVars, procVars, histVars>>

DeleteRow(h) ==
  /\ At(h, "loaded") /\ req[h].op = "delete"
  /\ \/ /\ row[req[h].project] # "none"
        /\ row' = [row EXCEPT ![req[h].project] = "none"]
        /\ Goto(h, "gone")
     \/ /\ load.faults \/ row[req[h].project] = "none"
        /\ row' = row
        /\ Return(h)
  /\ UNCHANGED <<born, liveVars, queue, workVars, procVars, histVars>>

StoreRemove(h) ==
  /\ At(h, "gone")
  /\ store' = [store EXCEPT ![req[h].project] = None]
  /\ raced' = raced \cup {q \in {req[h].project} : isBusy(q)}
  /\ Return(h)
  /\ UNCHANGED <<dbVars, runProject, runStatus, queue, workVars, procVars, stale>>

Handler(h) ==
  \/ DeleteFailedTarget(h) \/ StoreRemoveFailed(h) \/ Create(h)
  \/ BusyCheck(h) \/ SaveQueued(h) \/ Enqueue(h)
  \/ EditSave(h) \/ DeleteRow(h) \/ StoreRemove(h)
  \/ \E r \in Runs : StoreAdd(h, r)

Call(h) ==
  /\ Cardinality({g \in Requests : req[g] # Idle}) < load.handlers
  /\ \E p \in Projects :
       \/ StartCheck(h, p) \/ DeleteLoad(h, p)
       \/ \E op \in load.ops : Load(h, op, p) \/ EditLoad(h, op, p)

-----------------------------------------------------------------------------
(* worker: one job after another.                                          *)

WAt(w, pc) == Alive /\ wpc[w] = pc
WGoto(w, pc) == wpc' = [wpc EXCEPT ![w] = pc]
ProjectAt(w) == runProject[wrun[w]]
ServerAt(w) == ServerOf[ProjectAt(w)]

(* Mutant of Take: the job stays in the channel.                           *)
TakeKeeping(w) ==
  /\ WAt(w, "idle") /\ queue # <<>>
  /\ wrun' = [wrun EXCEPT ![w] = Head(queue)]
  /\ queue' = queue
  /\ WGoto(w, "taken")
  /\ UNCHANGED <<dbVars, liveVars, lock, wg, req, procVars, histVars>>

Take(w) ==
  /\ WAt(w, "idle") /\ queue # <<>>
  /\ wrun' = [wrun EXCEPT ![w] = Head(queue)]
  /\ queue' = Tail(queue)
  /\ WGoto(w, "taken")
  /\ UNCHANGED <<dbVars, liveVars, lock, wg, req, procVars, histVars>>

(* Mutant of Count: jobsWG.Add is forgotten.                               *)
CountNothing(w) ==
  /\ WAt(w, "taken")
  /\ WGoto(w, "counted")
  /\ UNCHANGED <<dbVars, liveVars, queue, wrun, lock, wg, req, procVars, histVars>>

Count(w) ==
  /\ WAt(w, "taken")
  /\ wg' = wg + 1
  /\ WGoto(w, "counted")
  /\ UNCHANGED <<dbVars, liveVars, queue, wrun, lock, req, procVars, histVars>>

(* Mutant of LockServer: the worker does not wait for the lock.            *)
LockServerAtOnce(w) ==
  /\ WAt(w, "counted")
  /\ lock' = IF IsWorker(ProjectAt(w)) THEN lock ELSE [lock EXCEPT ![ServerAt(w)] = w]
  /\ WGoto(w, "locked")
  /\ UNCHANGED <<dbVars, liveVars, queue, wrun, wg, req, procVars, histVars>>

(* lockServer for a web project; a bot takes no lock.                      *)
LockServer(w) ==
  /\ WAt(w, "counted")
  /\ IF IsWorker(ProjectAt(w))
     THEN lock' = lock
     ELSE lock[ServerAt(w)] = None /\ lock' = [lock EXCEPT ![ServerAt(w)] = w]
  /\ WGoto(w, "locked")
  /\ UNCHANGED <<dbVars, liveVars, queue, wrun, wg, req, procVars, histVars>>

(* The head of runDeployment, runRedeploy and runRollback.                 *)
Begin(w) ==
  /\ WAt(w, "locked")
  /\ runStatus' = [runStatus EXCEPT ![wrun[w]] = "running"]
  /\ WGoto(w, "begun")
  /\ UNCHANGED <<dbVars, store, runProject, queue, wrun, lock, wg, req, procVars, histVars>>

(* persist(repo, dep, false), once at the head and again around every step. *)
Persist(w) ==
  /\ WAt(w, "begun") \/ WAt(w, "running")
  /\ SaveState(ProjectAt(w), runStatus[wrun[w]])
  /\ WGoto(w, "running")
  /\ UNCHANGED <<born, liveVars, queue, wrun, lock, wg, req, procVars, histVars>>

(* Mutant of Finish: a status the table does not know.                     *)
FinishDone(w, status) ==
  /\ WAt(w, "running") /\ status \in {"success", "failed"}
  /\ runStatus' = [runStatus EXCEPT ![wrun[w]] = "done"]
  /\ WGoto(w, "ended")
  /\ UNCHANGED <<dbVars, store, runProject, queue, wrun, lock, wg, req, procVars, histVars>>

(* Mutant of Finish: a failed step does not set the status.                *)
FinishFailedQuietly(w, status) ==
  /\ WAt(w, "running") /\ status \in {"success", "failed"}
  /\ runStatus' = IF status = "failed" THEN runStatus
                  ELSE [runStatus EXCEPT ![wrun[w]] = status]
  /\ WGoto(w, "ended")
  /\ UNCHANGED <<dbVars, store, runProject, queue, wrun, lock, wg, req, procVars, histVars>>

(* setStatus(StatusSuccess), or failStep of any step.                      *)
Finish(w, status) ==
  /\ WAt(w, "running") /\ status \in {"success", "failed"}
  /\ runStatus' = [runStatus EXCEPT ![wrun[w]] = status]
  /\ WGoto(w, "ended")
  /\ UNCHANGED <<dbVars, store, runProject, queue, wrun, lock, wg, req, procVars, histVars>>

(* Mutant of SaveFinal: only successful runs are written.                  *)
SaveFinalSuccess(w) ==
  /\ WAt(w, "ended")
  /\ IF runStatus[wrun[w]] = "failed" THEN UNCHANGED <<row, stale>>
     ELSE SaveOutcome(ProjectAt(w), runStatus[wrun[w]])
  /\ WGoto(w, "saved")
  /\ UNCHANGED <<born, liveVars, queue, wrun, lock, wg, req, procVars, raced>>

SaveFinal(w) ==
  /\ WAt(w, "ended")
  /\ SaveOutcome(ProjectAt(w), runStatus[wrun[w]])
  /\ WGoto(w, "saved")
  /\ UNCHANGED <<born, liveVars, queue, wrun, lock, wg, req, procVars, raced>>

(* Mutant of Unlock: the mutex is not released.                            *)
UnlockNever(w) ==
  /\ WAt(w, "saved")
  /\ lock' = lock
  /\ WGoto(w, "unlocked")
  /\ UNCHANGED <<dbVars, liveVars, queue, wrun, wg, req, procVars, histVars>>

Unlock(w) ==
  /\ WAt(w, "saved")
  /\ lock' = IF IsWorker(ProjectAt(w)) THEN lock ELSE [lock EXCEPT ![ServerAt(w)] = None]
  /\ WGoto(w, "unlocked")
  /\ UNCHANGED <<dbVars, liveVars, queue, wrun, wg, req, procVars, histVars>>

(* logActivity: a send on the closed activity channel panics.              *)
Report(w) ==
  /\ WAt(w, "unlocked")
  /\ IF phase = "closed"
     THEN phase' = "panic" /\ wpc' = wpc
     ELSE phase' = phase /\ WGoto(w, "reported")
  /\ UNCHANGED <<dbVars, liveVars, queue, wrun, lock, wg, req, maintenance, pinged, restarts, load, histVars>>

(* Mutant of Done: jobsWG.Done is forgotten.                               *)
DoneUncounted(w) ==
  /\ WAt(w, "reported")
  /\ wrun' = [wrun EXCEPT ![w] = None]
  /\ WGoto(w, "idle")
  /\ UNCHANGED <<dbVars, liveVars, queue, lock, wg, req, procVars, histVars>>

Done(w) ==
  /\ WAt(w, "reported")
  /\ wg' = wg - 1
  /\ wrun' = [wrun EXCEPT ![w] = None]
  /\ WGoto(w, "idle")
  /\ UNCHANGED <<dbVars, liveVars, queue, lock, req, procVars, histVars>>

Worker(w) ==
  \/ Take(w) \/ Count(w) \/ LockServer(w) \/ Begin(w) \/ Persist(w)
  \/ \E status \in {"success", "failed"} : Finish(w, status)
  \/ SaveFinal(w) \/ Unlock(w) \/ Report(w) \/ Done(w)

-----------------------------------------------------------------------------
(* The process: shutdown, restart, maintenance.                            *)

ShutdownBegin ==
  /\ "shutdown" \in load.ops /\ phase = "up"
  /\ phase' = "closing"
  /\ UNCHANGED <<dbVars, liveVars, queue, workVars, req, maintenance, pinged, restarts, load, histVars>>

(* jobsWG.Wait returned, then CloseActivity.                               *)
ShutdownDrained ==
  /\ phase = "closing" /\ wg = 0
  /\ phase' = "closed"
  /\ UNCHANGED <<dbVars, liveVars, queue, workVars, req, maintenance, pinged, restarts, load, histVars>>

(* The shutdown context expired first, then CloseActivity.                 *)
ShutdownTimeout ==
  /\ phase = "closing" /\ wg # 0
  /\ phase' = "closed"
  /\ UNCHANGED <<dbVars, liveVars, queue, workVars, req, maintenance, pinged, restarts, load, histVars>>

(* Mutant of MarkOrphans: a queued run is not an interrupted one.          *)
MarkOrphansRunning ==
  /\ row' = [p \in Projects |-> IF row[p] = "running" THEN "failed" ELSE row[p]]
  /\ stale' = {}

MarkOrphans ==
  \/ /\ row' = [p \in Projects |-> IF row[p] \in {"queued", "running"} THEN "failed" ELSE row[p]]
     /\ stale' = {}
  \/ load.faults /\ row' = row /\ stale' = {p \in Projects : row[p] \in {"queued", "running"}}

(* The process dies, for any reason, and NewService runs MarkOrphans.      *)
Restart ==
  /\ restarts < load.restarts
  /\ restarts' = restarts + 1
  /\ MarkOrphans
  /\ store' = [p \in Projects |-> None]
  /\ runStatus' = [r \in Runs |-> IF Unfinished(r) THEN "lost" ELSE runStatus[r]]
  /\ queue' = <<>>
  /\ wpc' = [w \in Workers |-> "idle"]
  /\ wrun' = [w \in Workers |-> None]
  /\ lock' = [s \in Servers |-> None]
  /\ wg' = 0
  /\ req' = [h \in Requests |-> Idle]
  /\ phase' = "up"
  /\ pinged' = FALSE
  /\ raced' = {}
  /\ UNCHANGED <<born, runProject, maintenance, load>>

SetMaintenance ==
  /\ "maintenance" \in load.ops
  /\ maintenance' = ~maintenance
  /\ UNCHANGED <<dbVars, liveVars, queue, workVars, req, phase, pinged, restarts, load, histVars>>

(* One tick of StartMaintenanceWatcher.                                    *)
WatchMaintenance ==
  /\ "maintenance" \in load.ops /\ Alive
  /\ \/ Checked(~maintenance) /\ pinged' = FALSE
     \/ /\ maintenance /\ ~pinged
        /\ \A p \in Projects : row[p] \notin {"queued", "running"}
        /\ pinged' = TRUE
  /\ UNCHANGED <<dbVars, liveVars, queue, workVars, req, phase, maintenance, restarts, load, histVars>>

Process ==
  \/ ShutdownBegin \/ ShutdownDrained \/ ShutdownTimeout \/ Restart
  \/ SetMaintenance \/ WatchMaintenance

Next ==
  \/ \E h \in Requests : Call(h) \/ Handler(h)
  \/ \E w \in Workers : Worker(w)
  \/ Process

Spec == Init /\ [][Next]_vars

(***************************************************************************)
(* Goroutines run, every remote step has a timeout, and Go's mutex hands   *)
(* itself to a waiter that has waited long enough.  A worker that could    *)
(* persist forever still leaves its step, so Finish has its own fairness.  *)
(* No request, crash, shutdown or maintenance switch has to happen.        *)
(***************************************************************************)
FairSpec ==
  /\ Spec
  /\ \A h \in Requests : WF_vars(Handler(h))
  /\ \A w \in Workers :
       /\ WF_vars(Take(w) \/ Count(w) \/ Begin(w) \/ (wpc[w] = "begun" /\ Persist(w)) \/ SaveFinal(w) \/ Unlock(w)
                  \/ Report(w) \/ Done(w))
       /\ SF_vars(LockServer(w))
       /\ WF_vars(\E status \in {"success", "failed"} : Finish(w, status))
-----------------------------------------------------------------------------
(* Properties.                                                             *)

Working(w) == wpc[w] \in {"begun", "running"}
HoldsServer(w) ==
  wpc[w] \in {"locked", "begun", "running", "ended", "saved"} /\ ~IsWorker(ProjectAt(w))

(* Somebody will still settle the run: the handler that is publishing it,  *)
(* the channel, or a worker that has not written its final state.          *)
Owned(r) ==
  \/ \E h \in Requests : req[h].pc \in {"added", "saved"} /\ req[h].run = r
  \/ \E i \in DOMAIN queue : queue[i] = r
  \/ \E w \in Workers : wpc[w] \in {"taken", "counted", "locked", "begun", "running", "ended"}
                        /\ wrun[w] = r

(* lockServer (services.go:173-180): two web runs never work on one server *)
(* at the same time, so the gateway, the host ports and the reload of      *)
(* Caddy are never torn apart.                                             *)
ServerLockMutex ==
  \A w1, w2 \in Workers :
    w1 # w2 /\ HoldsServer(w1) /\ HoldsServer(w2) => ServerAt(w1) # ServerAt(w2)

(* isBusy (services.go:770, redeploy.go:40): two workers are at work on    *)
(* one project only if it is a bot, which has no lock, and two requests    *)
(* were past isBusy before either had put its run in the store, or a       *)
(* deletion took the entry of a run that was not over.  Nothing else, no   *)
(* failing statement, edit, webhook or crash, lets a second run in.        *)
OneWorkerPerProject ==
  \A w1, w2 \in Workers :
    w1 # w2 /\ Working(w1) /\ Working(w2) /\ ProjectAt(w1) = ProjectAt(w2) =>
      ProjectAt(w1) \in BotProjects \cap raced

(* Shutdown waits for jobsWG: the counter is the number of workers between *)
(* Add and Done, so Wait neither returns early nor hangs.                  *)
WaitGroupCounts ==
  wg = Cardinality({w \in Workers : wpc[w] \notin {"idle", "taken"}})

(* Whatever a row says is queued or running, somebody is still to settle:  *)
(* after a crash MarkOrphans (services.go:278) has, otherwise a handler,   *)
(* the channel or a worker holds a run of that project.  Only a failed     *)
(* MarkOrphans, a failed write of an outcome, and an edit that writes back *)
(* the status it loaded before the run was over (services.go:1466) may     *)
(* leave such a row.                                                       *)
NoStuckRow ==
  Alive => \A p \in Projects \ stale :
    row[p] \in {"queued", "running"} => \E r \in Runs : runProject[r] = p /\ Owned(r)

(* A web project whose runs are all over shows the outcome of the run in   *)
(* the store, although the run before it may write its final state after   *)
(* the new one was published (setStatus comes before SaveFinal, and isBusy *)
(* asks the status): the server lock, released after SaveFinal, orders the *)
(* two.  A bot has no lock and may end with the older outcome; so may a    *)
(* project that isBusy let two requests into, and a row is wrong if the    *)
(* write of the outcome failed or an edit came after it.                   *)
SettledRowMatchesRun ==
  Alive => \A p \in Projects \ (BotProjects \cup raced \cup stale) :
    store[p] # None /\ row[p] # "none"
      /\ (\A r \in Runs : runProject[r] = p => ~Owned(r))
      => row[p] = runStatus[store[p]]

(* A project that isBusy refuses has a run that will end: the refusal      *)
(* "wait for the current deploy" (services.go:609) is never for ever,      *)
(* whatever statement fails.  A run whose INSERT failed stays in the store *)
(* with nobody to end it, but its project has no row and is never asked    *)
(* for.                                                                    *)
BusyMeansOwned ==
  Alive => \A p \in Projects : row[p] # "none" /\ isBusy(p) => Owned(store[p])

(* A run in the channel is never one a worker holds or has settled, and it *)
(* is there once: no job is executed twice.                                *)
EachJobOnce ==
  /\ \A i, j \in DOMAIN queue : queue[i] = queue[j] => i = j
  /\ \A w1, w2 \in Workers :
       w1 # w2 /\ wpc[w1] # "idle" /\ wpc[w2] # "idle" => wrun[w1] # wrun[w2]
  /\ \A i \in DOMAIN queue, w \in Workers : wpc[w] # "idle" => queue[i] # wrun[w]

(* The job server that handlers, channel, workers and locks amount to.  A  *)
(* run needs the server of its project, a bot's none; a server is held by  *)
(* the run of the worker that serverLocks names.                           *)
Needs(r) ==
  IF runProject[r] = None \/ IsWorker(runProject[r]) THEN None ELSE ServerOf[runProject[r]]
Holder(s) == IF lock[s] = None THEN None ELSE wrun[lock[s]]

Jobs == INSTANCE JobServer WITH
  Jobs <- Runs, job <- runStatus,
  needs <- [r \in Runs |-> Needs(r)], holder <- [s \in Servers |-> Holder(s)]

(* Each run works at most once, with its server (services.go:180) to       *)
(* itself from before its first step to after its outcome, and has one     *)
(* outcome; only a crash loses it.                                         *)
JobSpec == Jobs!Spec

(* The stop: a worker that is writing to the activity channel finds it     *)
(* open.                                                                   *)
NoPanic == phase # "panic"

(* Every run that is published reaches an outcome.                         *)
RunsFinish ==
  \A r \in Runs :
    runStatus[r] = "queued" ~> runStatus[r] \in {"success", "failed", "lost"}

(* A handler that has a job to hand over answers: it never waits for ever  *)
(* for a place in the channel.                                             *)
HandoversReturn == \A h \in Requests : req[h].pc = "saved" ~> req[h].pc = "idle"
=============================================================================
