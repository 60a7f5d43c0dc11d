------------------------- MODULE DeployQueue_proofs -------------------------
(***************************************************************************)
(* Type correctness of DeployQueue, the exclusion its server lock is there *)
(* for, who holds a run, what the wait group counts, that all this is a    *)
(* job server (JobServer), when a project may have two runs at work, and   *)
(* what a settled row shows: for every number of projects, runs, handlers, *)
(* workers and servers, with faults, edits, deletions and restarts.        *)
(*                                                                         *)
(* ServerLockMutex is not inductive: that a worker between LockServer and  *)
(* Unlock is the one its server's mutex names (LockHeld) has to be known,  *)
(* and LockHeld survives a step only if the project of a run in a worker's *)
(* hand cannot change, that is, if StoreAdd never takes a run that is in a *)
(* hand (JobsAssigned, HandlersKnowTheirs).                                *)
(***************************************************************************)
EXTENDS DeployQueue, FiniteSetTheorems, TLAPS

(* A run that store.Add has published and no restart has lost.             *)
Assigned(r) == r \in Runs /\ runProject[r] \in Projects /\ runStatus[r] \in Statuses

(* A handler at work has a project; one that is publishing has a run.      *)
HandlersKnowTheirs ==
  \A h \in Requests :
    /\ req[h].pc # "idle" => req[h].project \in Projects
    /\ req[h].pc \in {"added", "saved"} => Assigned(req[h].run)

(* So has every job in the channel and in a worker's hand.                 *)
JobsAssigned ==
  /\ \A i \in DOMAIN queue : Assigned(queue[i])
  /\ \A w \in Workers : wpc[w] # "idle" => Assigned(wrun[w])

(* A worker of a web project between lockServer and unlock holds the mutex. *)
LockHeld == \A w \in Workers : HoldsServer(w) => lock[ServerAt(w)] = w

Inductive == TypeOK /\ HandlersKnowTheirs /\ JobsAssigned /\ LockHeld

-----------------------------------------------------------------------------
(* The handler's record stays well typed under each way of changing it.    *)
LEMMA IdleTyped == Idle \in RequestState
  BY DEF Idle, RequestState, RequestPCs, Statuses

(* A record with a new program counter, and with a run or purged ids.      *)
LEMMA FieldsTyped ==
  ASSUME NEW q \in RequestState, NEW pc \in RequestPCs
  PROVE /\ [q EXCEPT !.pc = pc] \in RequestState
        /\ \A r \in Runs : [q EXCEPT !.pc = pc, !.run = r] \in RequestState
        /\ \A ids \in SUBSET Projects : [q EXCEPT !.pc = pc, !.drop = ids] \in RequestState
<1>1. [q EXCEPT !.pc = pc] \in RequestState
  BY DEF RequestState
<1> QED
  BY <1>1 DEF RequestState

(* Returning, ...                                                          *)
LEMMA ReturnTyped ==
  ASSUME req \in [Requests -> RequestState], NEW h \in Requests, Return(h)
  PROVE req' \in [Requests -> RequestState]
  BY IdleTyped DEF Return

(* ... going on, ...                                                       *)
LEMMA GotoTyped ==
  ASSUME req \in [Requests -> RequestState], NEW h \in Requests,
         NEW pc \in RequestPCs, Goto(h, pc)
  PROVE req' \in [Requests -> RequestState]
<1>1. [req[h] EXCEPT !.pc = pc] \in RequestState
  BY DEF RequestState
<1> QED
  BY <1>1 DEF Goto

(* ... and arriving keep the record well typed.                            *)
LEMMA ArriveTyped ==
  ASSUME req \in [Requests -> RequestState], NEW h \in Requests, NEW p \in Projects,
         NEW op \in AllOps, NEW pc \in RequestPCs, Arrive(h, pc, op, p)
  PROVE req' \in [Requests -> RequestState]
<1>1. [Idle EXCEPT !.pc = pc, !.op = op, !.project = p] \in RequestState
  BY DEF RequestState, Idle, Statuses
<1> QED
  BY <1>1 DEF Arrive

(* An UPDATE of the status column, whether it succeeds or not.             *)
LEMMA SaveStateTyped ==
  ASSUME row \in [Projects -> Statuses \cup {"none"}], NEW p, NEW s \in Statuses, SaveState(p, s)
  PROVE row' \in [Projects -> Statuses \cup {"none"}]
  BY DEF SaveState, Updated

LEMMA SaveOutcomeTyped ==
  ASSUME row \in [Projects -> Statuses \cup {"none"}], stale \subseteq Projects,
         NEW p \in Projects, NEW s \in Statuses, SaveOutcome(p, s)
  PROVE row' \in [Projects -> Statuses \cup {"none"}] /\ stale' \subseteq Projects
  BY DEF SaveOutcome, Updated

-----------------------------------------------------------------------------
(* Every step keeps the variables in their types.  Only the steps that     *)
(* write a status need more than TypeOK: the run they write has a status   *)
(* the table knows, neither "unused" nor "lost".                           *)
LEMMA TypeStep == Inductive /\ [Next]_vars => TypeOK'
<1> SUFFICES ASSUME TypeOK, HandlersKnowTheirs, JobsAssigned, [Next]_vars PROVE TypeOK'
  BY DEF Inductive
<1> USE ConstantsOK, ReturnTyped, GotoTyped DEF TypeOK, dbVars, liveVars, workVars, procVars, histVars
<1>1. ASSUME NEW h \in Requests, NEW p \in Projects, StartCheck(h, p) PROVE TypeOK'
  BY <1>1, ArriveTyped DEF StartCheck, AllOps, JobOps, RequestPCs
<1>2. ASSUME NEW h \in Requests, NEW p \in Projects, DeleteLoad(h, p) PROVE TypeOK'
  BY <1>2, ArriveTyped DEF DeleteLoad, AllOps, RequestPCs
<1>3. ASSUME NEW h \in Requests, NEW p \in Projects, NEW op \in load.ops, Load(h, op, p) PROVE TypeOK'
  BY <1>3, ArriveTyped DEF Load, AllOps, JobOps, RequestPCs
<1>4. ASSUME NEW h \in Requests, NEW p \in Projects, NEW op \in load.ops, EditLoad(h, op, p) PROVE TypeOK'
  BY <1>4 DEF EditLoad, Idle, AllOps, EditOps, RequestPCs, RequestState
<1>5. ASSUME NEW h \in Requests, NEW r \in Runs, StoreAdd(h, r) PROVE TypeOK'
  <2>1. [req[h] EXCEPT !.pc = "added", !.run = r] \in RequestState
    BY FieldsTyped DEF RequestPCs
  <2>2. req[h].project \in Projects \cup {None}
    BY DEF RequestState
  <2>3. req' \in [Requests -> RequestState]
    BY <1>5, <2>1 DEF StoreAdd
  <2>4. runStatus' \in [Runs -> Statuses \cup {"unused", "lost"}]
    BY <1>5 DEF StoreAdd, Statuses
  <2> QED
    BY <1>5, <2>2, <2>3, <2>4 DEF StoreAdd
<1>6. ASSUME NEW h \in Requests, DeleteFailedTarget(h) PROVE TypeOK'
  <2>1. PICK ids \in SUBSET Projects :
          /\ row' = [q \in Projects |-> IF q \in ids THEN "none" ELSE row[q]]
          /\ req' = [req EXCEPT ![h].pc = "purged", ![h].drop = ids]
    BY <1>6 DEF DeleteFailedTarget, FailedTarget
  <2>2. [req[h] EXCEPT !.pc = "purged", !.drop = ids] \in RequestState
    BY FieldsTyped DEF RequestPCs
  <2>3. req' \in [Requests -> RequestState]
    BY <2>1, <2>2
  <2> QED
    BY <1>6, <2>1, <2>3 DEF DeleteFailedTarget
<1>7. ASSUME NEW h \in Requests, StoreRemoveFailed(h) PROVE TypeOK'
  <2>1. [req[h] EXCEPT !.pc = "ready", !.drop = {}] \in RequestState
    BY FieldsTyped DEF RequestPCs
  <2>2. req' \in [Requests -> RequestState]
    BY <1>7, <2>1 DEF StoreRemoveFailed
  <2>3. raced' \subseteq Projects
    BY <1>7 DEF StoreRemoveFailed, RequestState
  <2> QED
    BY <1>7, <2>2, <2>3 DEF StoreRemoveFailed
<1>8. ASSUME NEW h \in Requests, Create(h) PROVE TypeOK'
  BY <1>8 DEF Create, Statuses, RequestPCs
<1>9. ASSUME NEW h \in Requests, BusyCheck(h) PROVE TypeOK'
  BY <1>9 DEF BusyCheck, RequestPCs, At, HandlersKnowTheirs
<1>10. ASSUME NEW h \in Requests, SaveQueued(h) PROVE TypeOK'
  BY <1>10, SaveStateTyped DEF SaveQueued, RequestPCs, At, HandlersKnowTheirs, Assigned
<1>11. ASSUME NEW h \in Requests, Enqueue(h) PROVE TypeOK'
  BY <1>11 DEF Enqueue, At, HandlersKnowTheirs, Assigned
<1>12. ASSUME NEW h \in Requests, EditSave(h) PROVE TypeOK'
  <2>1. req' \in [Requests -> RequestState]
    BY <1>12, ReturnTyped DEF EditSave
  <2>2. req[h].seen \in Statuses \cup {"none"}
    BY DEF RequestState
  <2>3. row' \in [Projects -> Statuses \cup {"none"}]
    BY <1>12, <2>2 DEF EditSave, SaveState, Updated
  <2>4. stale' \subseteq Projects
    BY <1>12 DEF EditSave, At, HandlersKnowTheirs
  <2> QED
    BY <1>12, <2>1, <2>3, <2>4 DEF EditSave
<1>13. ASSUME NEW h \in Requests, DeleteRow(h) PROVE TypeOK'
  BY <1>13 DEF DeleteRow, RequestPCs
<1>14. ASSUME NEW h \in Requests, StoreRemove(h) PROVE TypeOK'
  BY <1>14 DEF StoreRemove, At, HandlersKnowTheirs
<1>15. ASSUME NEW w \in Workers, Take(w) PROVE TypeOK'
  BY <1>15 DEF Take, WGoto, WorkerPCs
<1>16. ASSUME NEW w \in Workers, Count(w) PROVE TypeOK'
  BY <1>16 DEF Count, WGoto, WorkerPCs
<1>17. ASSUME NEW w \in Workers, LockServer(w) PROVE TypeOK'
  BY <1>17 DEF LockServer, WGoto, WorkerPCs
<1>18. ASSUME NEW w \in Workers, Begin(w) PROVE TypeOK'
  BY <1>18 DEF Begin, WGoto, WorkerPCs, Statuses
<1>19. ASSUME NEW w \in Workers, Persist(w) PROVE TypeOK'
  BY <1>19, SaveStateTyped DEF Persist, WAt, WGoto, WorkerPCs, JobsAssigned, Assigned
<1>20. ASSUME NEW w \in Workers, SaveFinal(w) PROVE TypeOK'
  BY <1>20, SaveOutcomeTyped DEF SaveFinal, WAt, WGoto, JobsAssigned, Assigned, WorkerPCs, ProjectAt
<1>21. ASSUME NEW w \in Workers, Unlock(w) PROVE TypeOK'
  BY <1>21 DEF Unlock, WGoto, WorkerPCs
<1>22. ASSUME NEW w \in Workers, Report(w) PROVE TypeOK'
  BY <1>22 DEF Report, WAt, WGoto, WorkerPCs
<1>23. ASSUME NEW w \in Workers, Done(w) PROVE TypeOK'
  BY <1>23 DEF Done, WGoto, WorkerPCs
<1>24. ASSUME NEW w \in Workers, NEW status \in {"success", "failed"}, Finish(w, status) PROVE TypeOK'
  BY <1>24 DEF Finish, WGoto, WorkerPCs, Statuses
<1>25. CASE ShutdownBegin
  BY <1>25 DEF ShutdownBegin
<1>26. CASE ShutdownDrained
  BY <1>26 DEF ShutdownDrained
<1>27. CASE ShutdownTimeout
  BY <1>27 DEF ShutdownTimeout
<1>28. CASE Restart
  <2>1. row' \in [Projects -> Statuses \cup {"none"}]
    BY <1>28 DEF Restart, MarkOrphans, Statuses
  <2>2. runStatus' \in [Runs -> Statuses \cup {"unused", "lost"}]
    BY <1>28 DEF Restart, Statuses
  <2>3. queue' \in Seq(Runs)
    BY <1>28 DEF Restart
  <2>4. req' \in [Requests -> RequestState]
    BY <1>28, IdleTyped DEF Restart
  <2>5. /\ store' \in [Projects -> Runs \cup {None}]
        /\ wpc' \in [Workers -> WorkerPCs]
        /\ wrun' \in [Workers -> Runs \cup {None}]
        /\ lock' \in [Servers -> Workers \cup {None}]
    BY <1>28 DEF Restart, WorkerPCs
  <2>6. wg' \in Int /\ phase' = "up" /\ pinged' = FALSE
    BY <1>28 DEF Restart
  <2>7. restarts' \in Nat /\ raced' \subseteq Projects /\ stale' \subseteq Projects
    BY <1>28 DEF Restart, MarkOrphans
  <2> QED
    BY <1>28, <2>1, <2>2, <2>3, <2>4, <2>5, <2>6, <2>7 DEF Restart
<1>29. CASE SetMaintenance
  BY <1>29 DEF SetMaintenance
<1>30. CASE WatchMaintenance
  BY <1>30 DEF WatchMaintenance
<1>31. CASE UNCHANGED vars
  BY <1>31 DEF vars, histVars
<1>32. ASSUME NEW h \in Requests, Call(h) PROVE TypeOK'
  BY <1>32, <1>1, <1>2, <1>3, <1>4 DEF Call
<1>33. ASSUME NEW h \in Requests, Handler(h) PROVE TypeOK'
  BY <1>33, <1>5, <1>6, <1>7, <1>8, <1>9, <1>10, <1>11, <1>12, <1>13, <1>14 DEF Handler
<1>34. ASSUME NEW w \in Workers, Worker(w) PROVE TypeOK'
  BY <1>34, <1>15, <1>16, <1>17, <1>18, <1>19, <1>20, <1>21, <1>22, <1>23, <1>24 DEF Worker
<1>35. CASE Process
  BY <1>35, <1>25, <1>26, <1>27, <1>28, <1>29, <1>30 DEF Process
<1> QED
  BY <1>31, <1>32, <1>33, <1>34, <1>35 DEF Next

(* Every step leaves each handler its project and its run.                 *)
LEMMA HandlersStep == Inductive /\ [Next]_vars => HandlersKnowTheirs'
<1> SUFFICES ASSUME TypeOK, HandlersKnowTheirs, JobsAssigned, [Next]_vars
             PROVE HandlersKnowTheirs'
  BY DEF Inductive
<1> USE DEF TypeOK, RequestState, Statuses, HandlersKnowTheirs, Assigned,
            dbVars, liveVars, workVars, procVars, histVars
<1>1. ASSUME NEW h \in Requests, NEW p \in Projects, StartCheck(h, p) PROVE HandlersKnowTheirs'
  BY <1>1 DEF StartCheck, At, Arrive, Idle, Closing
<1>2. ASSUME NEW h \in Requests, NEW p \in Projects, DeleteLoad(h, p) PROVE HandlersKnowTheirs'
  BY <1>2 DEF DeleteLoad, At, Arrive, Idle, Closing
<1>3. ASSUME NEW h \in Requests, NEW p \in Projects, NEW op \in load.ops, Load(h, op, p) PROVE HandlersKnowTheirs'
  BY <1>3 DEF Load, At, Arrive, Idle, Closing
<1>4. ASSUME NEW h \in Requests, NEW p \in Projects, NEW op \in load.ops, EditLoad(h, op, p) PROVE HandlersKnowTheirs'
  BY <1>4 DEF EditLoad, At, Idle
<1>5. ASSUME NEW h \in Requests, NEW r \in Runs, StoreAdd(h, r) PROVE HandlersKnowTheirs'
  BY <1>5 DEF StoreAdd, At, RequestState, Statuses
<1>6. ASSUME NEW h \in Requests, DeleteFailedTarget(h) PROVE HandlersKnowTheirs'
  BY <1>6 DEF DeleteFailedTarget, At, FailedTarget
<1>7. ASSUME NEW h \in Requests, StoreRemoveFailed(h) PROVE HandlersKnowTheirs'
  BY <1>7 DEF StoreRemoveFailed, At
<1>8. ASSUME NEW h \in Requests, Create(h) PROVE HandlersKnowTheirs'
  <2>1. CASE Goto(h, "saved")
    <3>1. req[h].project \in Projects /\ req[h].pc = "added"
      BY <1>8 DEF Create, At
    <3>2. \A g \in Requests : req'[g].project = req[g].project /\ req'[g].run = req[g].run
                               /\ (g # h => req'[g].pc = req[g].pc)
      BY <2>1 DEF Goto, RequestState
    <3> QED
      BY <1>8, <3>1, <3>2 DEF Create
  <2>2. CASE Return(h)
    BY <1>8, <2>2 DEF Create, At, Return, RequestState, Idle
  <2> QED
    BY <1>8, <2>1, <2>2 DEF Create
<1>9. ASSUME NEW h \in Requests, BusyCheck(h) PROVE HandlersKnowTheirs'
  <2>1. CASE Goto(h, "free")
    <3>1. req[h].project \in Projects
      BY <1>9 DEF BusyCheck, At
    <3>2. \A g \in Requests : req'[g].project = req[g].project /\ req'[g].run = req[g].run
                               /\ (g # h => req'[g].pc = req[g].pc) /\ req'[h].pc = "free"
      BY <2>1 DEF Goto, RequestState
    <3> QED
      BY <1>9, <3>1, <3>2 DEF BusyCheck
  <2>2. CASE Return(h)
    BY <1>9, <2>2 DEF BusyCheck, At, Return, RequestState, Idle
  <2> QED
    BY <1>9, <2>1, <2>2 DEF BusyCheck
<1>10. ASSUME NEW h \in Requests, SaveQueued(h) PROVE HandlersKnowTheirs'
  BY <1>10 DEF SaveQueued, SaveState, At, Goto
<1>11. ASSUME NEW h \in Requests, Enqueue(h) PROVE HandlersKnowTheirs'
  BY <1>11 DEF Enqueue, At, Return, Idle
<1>12. ASSUME NEW h \in Requests, EditSave(h) PROVE HandlersKnowTheirs'
  BY <1>12 DEF EditSave, SaveState, At, Return, Idle
<1>13. ASSUME NEW h \in Requests, DeleteRow(h) PROVE HandlersKnowTheirs'
  <2>1. CASE Goto(h, "gone")
    <3>1. req[h].project \in Projects
      BY <1>13 DEF DeleteRow, At
    <3>2. \A g \in Requests : req'[g].project = req[g].project /\ req'[g].run = req[g].run
                               /\ (g # h => req'[g].pc = req[g].pc) /\ req'[h].pc = "gone"
      BY <2>1 DEF Goto, RequestState
    <3> QED
      BY <1>13, <3>1, <3>2 DEF DeleteRow
  <2>2. CASE Return(h)
    BY <1>13, <2>2 DEF DeleteRow, At, Return, RequestState, Idle
  <2> QED
    BY <1>13, <2>1, <2>2 DEF DeleteRow
<1>14. ASSUME NEW h \in Requests, StoreRemove(h) PROVE HandlersKnowTheirs'
  BY <1>14 DEF StoreRemove, At, Return, Idle
<1>15. ASSUME NEW w \in Workers, Take(w) PROVE HandlersKnowTheirs'
  BY <1>15 DEF Take, WAt, WGoto
<1>16. ASSUME NEW w \in Workers, Count(w) PROVE HandlersKnowTheirs'
  BY <1>16 DEF Count, WAt, WGoto
<1>17. ASSUME NEW w \in Workers, LockServer(w) PROVE HandlersKnowTheirs'
  BY <1>17 DEF LockServer, WAt, WGoto, ServerAt, ProjectAt
<1>18. ASSUME NEW w \in Workers, Begin(w) PROVE HandlersKnowTheirs'
  BY <1>18 DEF Begin, WAt, JobsAssigned
<1>19. ASSUME NEW w \in Workers, Persist(w) PROVE HandlersKnowTheirs'
  BY <1>19 DEF Persist, SaveState, WAt, WGoto, ProjectAt
<1>20. ASSUME NEW w \in Workers, SaveFinal(w) PROVE HandlersKnowTheirs'
  BY <1>20 DEF SaveFinal, SaveState, WAt, WGoto, ProjectAt
<1>21. ASSUME NEW w \in Workers, Unlock(w) PROVE HandlersKnowTheirs'
  BY <1>21 DEF Unlock, WAt, WGoto, ServerAt, ProjectAt
<1>22. ASSUME NEW w \in Workers, Report(w) PROVE HandlersKnowTheirs'
  BY <1>22 DEF Report, WAt, WGoto
<1>23. ASSUME NEW w \in Workers, Done(w) PROVE HandlersKnowTheirs'
  BY <1>23 DEF Done, WAt, WGoto
<1>24. ASSUME NEW w \in Workers, NEW status \in {"success", "failed"}, Finish(w, status) PROVE HandlersKnowTheirs'
  BY <1>24 DEF Finish, WAt, JobsAssigned
<1>25. CASE ShutdownBegin
  BY <1>25 DEF ShutdownBegin
<1>26. CASE ShutdownDrained
  BY <1>26 DEF ShutdownDrained
<1>27. CASE ShutdownTimeout
  BY <1>27 DEF ShutdownTimeout
<1>28. CASE Restart
  BY <1>28 DEF Restart, Idle, Unfinished
<1>29. CASE SetMaintenance
  BY <1>29 DEF SetMaintenance
<1>30. CASE WatchMaintenance
  BY <1>30 DEF WatchMaintenance
<1>31. CASE UNCHANGED vars
  BY <1>31 DEF vars, histVars
<1>32. ASSUME NEW h \in Requests, Call(h) PROVE HandlersKnowTheirs'
  BY <1>32, <1>1, <1>2, <1>3, <1>4 DEF Call
<1>33. ASSUME NEW h \in Requests, Handler(h) PROVE HandlersKnowTheirs'
  BY <1>33, <1>5, <1>6, <1>7, <1>8, <1>9, <1>10, <1>11, <1>12, <1>13, <1>14 DEF Handler
<1>34. ASSUME NEW w \in Workers, Worker(w) PROVE HandlersKnowTheirs'
  BY <1>34, <1>15, <1>16, <1>17, <1>18, <1>19, <1>20, <1>21, <1>22, <1>23, <1>24 DEF Worker
<1>35. CASE Process
  BY <1>35, <1>25, <1>26, <1>27, <1>28, <1>29, <1>30 DEF Process
<1> QED
  BY <1>31, <1>32, <1>33, <1>34, <1>35 DEF Next

(* Every step leaves the jobs in the channel and in the workers' hands     *)
(* published runs.                                                         *)
LEMMA JobsStep == Inductive /\ [Next]_vars => JobsAssigned'
<1> SUFFICES ASSUME TypeOK, HandlersKnowTheirs, JobsAssigned, [Next]_vars PROVE JobsAssigned'
  BY DEF Inductive
<1> USE DEF TypeOK, Statuses, HandlersKnowTheirs, JobsAssigned, Assigned,
            dbVars, liveVars, workVars, procVars, histVars
<1>1. ASSUME NEW h \in Requests, NEW p \in Projects, StartCheck(h, p) PROVE JobsAssigned'
  BY <1>1 DEF StartCheck, At, Arrive, Idle, Closing
<1>2. ASSUME NEW h \in Requests, NEW p \in Projects, DeleteLoad(h, p) PROVE JobsAssigned'
  BY <1>2 DEF DeleteLoad, At, Arrive, Idle, Closing
<1>3. ASSUME NEW h \in Requests, NEW p \in Projects, NEW op \in load.ops, Load(h, op, p) PROVE JobsAssigned'
  BY <1>3 DEF Load, At, Arrive, Idle, Closing
<1>4. ASSUME NEW h \in Requests, NEW p \in Projects, NEW op \in load.ops, EditLoad(h, op, p) PROVE JobsAssigned'
  BY <1>4 DEF EditLoad, At, Idle
<1>5. ASSUME NEW h \in Requests, NEW r \in Runs, StoreAdd(h, r) PROVE JobsAssigned'
  BY <1>5 DEF StoreAdd, At, RequestState
<1>6. ASSUME NEW h \in Requests, DeleteFailedTarget(h) PROVE JobsAssigned'
  BY <1>6 DEF DeleteFailedTarget, At, FailedTarget
<1>7. ASSUME NEW h \in Requests, StoreRemoveFailed(h) PROVE JobsAssigned'
  BY <1>7 DEF StoreRemoveFailed, At
<1>8. ASSUME NEW h \in Requests, Create(h) PROVE JobsAssigned'
  BY <1>8 DEF Create, At, Goto, Return, Idle
<1>9. ASSUME NEW h \in Requests, BusyCheck(h) PROVE JobsAssigned'
  BY <1>9 DEF BusyCheck, At, Goto, Return, Idle
<1>10. ASSUME NEW h \in Requests, SaveQueued(h) PROVE JobsAssigned'
  BY <1>10 DEF SaveQueued, SaveState, At, Goto
<1>11. ASSUME NEW h \in Requests, Enqueue(h) PROVE JobsAssigned'
  BY <1>11 DEF Enqueue, At, Return, Idle
<1>12. ASSUME NEW h \in Requests, EditSave(h) PROVE JobsAssigned'
  BY <1>12 DEF EditSave, SaveState, At, Return, Idle
<1>13. ASSUME NEW h \in Requests, DeleteRow(h) PROVE JobsAssigned'
  BY <1>13 DEF DeleteRow, At, Goto, Return, Idle
<1>14. ASSUME NEW h \in Requests, StoreRemove(h) PROVE JobsAssigned'
  BY <1>14 DEF StoreRemove, At, Return, Idle
<1>15. ASSUME NEW w \in Workers, Take(w) PROVE JobsAssigned'
  BY <1>15 DEF Take, WAt, WGoto
<1>16. ASSUME NEW w \in Workers, Count(w) PROVE JobsAssigned'
  BY <1>16 DEF Count, WAt, WGoto
<1>17. ASSUME NEW w \in Workers, LockServer(w) PROVE JobsAssigned'
  BY <1>17 DEF LockServer, WAt, WGoto, ServerAt, ProjectAt
<1>18. ASSUME NEW w \in Workers, Begin(w) PROVE JobsAssigned'
  BY <1>18 DEF Begin, WAt, WGoto
<1>19. ASSUME NEW w \in Workers, Persist(w) PROVE JobsAssigned'
  BY <1>19 DEF Persist, SaveState, WAt, WGoto, ProjectAt
<1>20. ASSUME NEW w \in Workers, SaveFinal(w) PROVE JobsAssigned'
  BY <1>20 DEF SaveFinal, SaveState, WAt, WGoto, ProjectAt
<1>21. ASSUME NEW w \in Workers, Unlock(w) PROVE JobsAssigned'
  BY <1>21 DEF Unlock, WAt, WGoto, ServerAt, ProjectAt
<1>22. ASSUME NEW w \in Workers, Report(w) PROVE JobsAssigned'
  BY <1>22 DEF Report, WAt, WGoto
<1>23. ASSUME NEW w \in Workers, Done(w) PROVE JobsAssigned'
  BY <1>23 DEF Done, WAt, WGoto
<1>24. ASSUME NEW w \in Workers, NEW status \in {"success", "failed"}, Finish(w, status) PROVE JobsAssigned'
  BY <1>24 DEF Finish, WAt, WGoto
<1>25. CASE ShutdownBegin
  BY <1>25 DEF ShutdownBegin
<1>26. CASE ShutdownDrained
  BY <1>26 DEF ShutdownDrained
<1>27. CASE ShutdownTimeout
  BY <1>27 DEF ShutdownTimeout
<1>28. CASE Restart
  BY <1>28 DEF Restart, Idle, Unfinished
<1>29. CASE SetMaintenance
  BY <1>29 DEF SetMaintenance
<1>30. CASE WatchMaintenance
  BY <1>30 DEF WatchMaintenance
<1>31. CASE UNCHANGED vars
  BY <1>31 DEF vars, histVars
<1>32. ASSUME NEW h \in Requests, Call(h) PROVE JobsAssigned'
  BY <1>32, <1>1, <1>2, <1>3, <1>4 DEF Call
<1>33. ASSUME NEW h \in Requests, Handler(h) PROVE JobsAssigned'
  BY <1>33, <1>5, <1>6, <1>7, <1>8, <1>9, <1>10, <1>11, <1>12, <1>13, <1>14 DEF Handler
<1>34. ASSUME NEW w \in Workers, Worker(w) PROVE JobsAssigned'
  BY <1>34, <1>15, <1>16, <1>17, <1>18, <1>19, <1>20, <1>21, <1>22, <1>23, <1>24 DEF Worker
<1>35. CASE Process
  BY <1>35, <1>25, <1>26, <1>27, <1>28, <1>29, <1>30 DEF Process
<1> QED
  BY <1>31, <1>32, <1>33, <1>34, <1>35 DEF Next

(* Every step leaves each lock with the worker that is inside.             *)
LEMMA LockStep == Inductive /\ [Next]_vars => LockHeld'
<1> SUFFICES ASSUME TypeOK, HandlersKnowTheirs, JobsAssigned, LockHeld, [Next]_vars
             PROVE LockHeld'
  BY DEF Inductive
<1> USE ConstantsOK DEF TypeOK, JobsAssigned, Assigned, LockHeld, HoldsServer, ServerAt,
                        ProjectAt, IsWorker, dbVars, liveVars, workVars, procVars, histVars
<1>1. ASSUME NEW h \in Requests, NEW p \in Projects, StartCheck(h, p) PROVE LockHeld'
  BY <1>1 DEF StartCheck, At, Arrive, Idle, Closing
<1>2. ASSUME NEW h \in Requests, NEW p \in Projects, DeleteLoad(h, p) PROVE LockHeld'
  BY <1>2 DEF DeleteLoad, At, Arrive, Idle, Closing
<1>3. ASSUME NEW h \in Requests, NEW p \in Projects, NEW op \in load.ops, Load(h, op, p) PROVE LockHeld'
  BY <1>3 DEF Load, At, Arrive, Idle, Closing
<1>4. ASSUME NEW h \in Requests, NEW p \in Projects, NEW op \in load.ops, EditLoad(h, op, p) PROVE LockHeld'
  BY <1>4 DEF EditLoad, At, Idle
<1>5. ASSUME NEW h \in Requests, NEW r \in Runs, StoreAdd(h, r) PROVE LockHeld'
  <2>1. \A w \in Workers : wpc[w] # "idle" => wrun[w] # r
    BY <1>5 DEF StoreAdd, Statuses
  <2> QED
    BY <1>5, <2>1 DEF StoreAdd
<1>6. ASSUME NEW h \in Requests, DeleteFailedTarget(h) PROVE LockHeld'
  BY <1>6 DEF DeleteFailedTarget, At, FailedTarget
<1>7. ASSUME NEW h \in Requests, StoreRemoveFailed(h) PROVE LockHeld'
  BY <1>7 DEF StoreRemoveFailed, At
<1>8. ASSUME NEW h \in Requests, Create(h) PROVE LockHeld'
  BY <1>8 DEF Create, At, Goto, Return, Idle
<1>9. ASSUME NEW h \in Requests, BusyCheck(h) PROVE LockHeld'
  BY <1>9 DEF BusyCheck, At, Goto, Return, Idle
<1>10. ASSUME NEW h \in Requests, SaveQueued(h) PROVE LockHeld'
  BY <1>10 DEF SaveQueued, SaveState, At, Goto
<1>11. ASSUME NEW h \in Requests, Enqueue(h) PROVE LockHeld'
  BY <1>11 DEF Enqueue, At, Return, Idle
<1>12. ASSUME NEW h \in Requests, EditSave(h) PROVE LockHeld'
  BY <1>12 DEF EditSave, SaveState, At, Return, Idle
<1>13. ASSUME NEW h \in Requests, DeleteRow(h) PROVE LockHeld'
  BY <1>13 DEF DeleteRow, At, Goto, Return, Idle
<1>14. ASSUME NEW h \in Requests, StoreRemove(h) PROVE LockHeld'
  BY <1>14 DEF StoreRemove, At, Return, Idle
<1>15. ASSUME NEW w \in Workers, Take(w) PROVE LockHeld'
  BY <1>15 DEF Take, WAt, WGoto
<1>16. ASSUME NEW w \in Workers, Count(w) PROVE LockHeld'
  BY <1>16 DEF Count, WAt, WGoto
<1>17. ASSUME NEW w \in Workers, LockServer(w) PROVE LockHeld'
  BY <1>17 DEF LockServer, WAt, WGoto
<1>18. ASSUME NEW w \in Workers, Begin(w) PROVE LockHeld'
  BY <1>18 DEF Begin, WAt, WGoto
<1>19. ASSUME NEW w \in Workers, Persist(w) PROVE LockHeld'
  BY <1>19 DEF Persist, SaveState, WAt, WGoto, ProjectAt
<1>20. ASSUME NEW w \in Workers, SaveFinal(w) PROVE LockHeld'
  BY <1>20 DEF SaveFinal, SaveState, WAt, WGoto, ProjectAt
<1>21. ASSUME NEW w \in Workers, Unlock(w) PROVE LockHeld'
  BY <1>21 DEF Unlock, WAt, WGoto
<1>22. ASSUME NEW w \in Workers, Report(w) PROVE LockHeld'
  BY <1>22 DEF Report, WAt, WGoto
<1>23. ASSUME NEW w \in Workers, Done(w) PROVE LockHeld'
  BY <1>23 DEF Done, WAt, WGoto
<1>24. ASSUME NEW w \in Workers, NEW status \in {"success", "failed"}, Finish(w, status) PROVE LockHeld'
  BY <1>24 DEF Finish, WAt, WGoto
<1>25. CASE ShutdownBegin
  BY <1>25 DEF ShutdownBegin
<1>26. CASE ShutdownDrained
  BY <1>26 DEF ShutdownDrained
<1>27. CASE ShutdownTimeout
  BY <1>27 DEF ShutdownTimeout
<1>28. CASE Restart
  BY <1>28 DEF Restart, Idle, Unfinished
<1>29. CASE SetMaintenance
  BY <1>29 DEF SetMaintenance
<1>30. CASE WatchMaintenance
  BY <1>30 DEF WatchMaintenance
<1>31. CASE UNCHANGED vars
  BY <1>31 DEF vars, histVars
<1>32. ASSUME NEW h \in Requests, Call(h) PROVE LockHeld'
  BY <1>32, <1>1, <1>2, <1>3, <1>4 DEF Call
<1>33. ASSUME NEW h \in Requests, Handler(h) PROVE LockHeld'
  BY <1>33, <1>5, <1>6, <1>7, <1>8, <1>9, <1>10, <1>11, <1>12, <1>13, <1>14 DEF Handler
<1>34. ASSUME NEW w \in Workers, Worker(w) PROVE LockHeld'
  BY <1>34, <1>15, <1>16, <1>17, <1>18, <1>19, <1>20, <1>21, <1>22, <1>23, <1>24 DEF Worker
<1>35. CASE Process
  BY <1>35, <1>25, <1>26, <1>27, <1>28, <1>29, <1>30 DEF Process
<1> QED
  BY <1>31, <1>32, <1>33, <1>34, <1>35 DEF Next

-----------------------------------------------------------------------------
(* A freshly started process satisfies the invariant.                      *)
LEMMA InitInductive == Init => Inductive
<1> SUFFICES ASSUME Init PROVE Inductive
  OBVIOUS
<1>1. TypeOK
  <2>1. req \in [Requests -> RequestState]
    BY IdleTyped DEF Init
  <2>2. queue \in Seq(Runs)
    BY DEF Init
  <2>3. row \in [Projects -> Statuses \cup {"none"}] /\ born \in SUBSET Projects
    BY DEF Init, Statuses
  <2>4. /\ store \in [Projects -> Runs \cup {None}]
        /\ runProject \in [Runs -> Projects \cup {None}]
        /\ runStatus \in [Runs -> Statuses \cup {"unused", "lost"}]
    BY DEF Init
  <2>5. /\ wpc \in [Workers -> WorkerPCs]
        /\ wrun \in [Workers -> Runs \cup {None}]
        /\ lock \in [Servers -> Workers \cup {None}]
    BY DEF Init, WorkerPCs
  <2>6. load \in Loads /\ wg = 0 /\ phase = "up" /\ ~maintenance /\ maintenance \in BOOLEAN
        /\ pinged \in BOOLEAN /\ restarts = 0 /\ raced = {} /\ stale = {}
    BY DEF Init
  <2> QED
    BY <2>1, <2>2, <2>3, <2>4, <2>5, <2>6 DEF TypeOK
<1>2. HandlersKnowTheirs
  BY DEF Init, HandlersKnowTheirs, Idle
<1>3. JobsAssigned
  BY DEF Init, JobsAssigned
<1>4. LockHeld
  BY DEF Init, LockHeld, HoldsServer
<1> QED
  BY <1>1, <1>2, <1>3, <1>4 DEF Inductive

(* The invariant holds in every reachable state.                           *)
LEMMA InductiveInvariant == Spec => []Inductive
<1>1. Inductive /\ [Next]_vars => Inductive'
  BY TypeStep, HandlersStep, JobsStep, LockStep DEF Inductive
<1> QED
  BY InitInductive, <1>1, PTL DEF Spec

(* The variables of the control plane keep their types.                    *)
THEOREM TypeCorrect == Spec => []TypeOK
<1>1. Inductive => TypeOK
  BY DEF Inductive
<1> QED
  BY <1>1, InductiveInvariant, PTL

(* lockServer (services.go:180): no two workers are inside a web run on    *)
(* the same server, whatever the handlers, crashes and lost writes do.     *)
THEOREM ServerExclusion == Spec => []ServerLockMutex
<1>1. Inductive => ServerLockMutex
  BY DEF Inductive, LockHeld, ServerLockMutex
<1> QED
  BY <1>1, InductiveInvariant, PTL

-----------------------------------------------------------------------------
(***************************************************************************)
(* Births and deaths of rows.  A project's row appears once, when the one  *)
(* handler that was given its id inserts it (Newborn); from the deletion   *)
(* of the row on the project is gone for good, although handlers that      *)
(* loaded it before may still be on their way (Gone).                      *)
(***************************************************************************)
Fresh(h) == req[h].op = "deploy" /\ req[h].pc \in {"checked", "purged", "ready", "added"}

Gone(p) ==
  p \in born /\ row[p] = "none" /\ \A h \in Requests : Fresh(h) => req[h].project # p

BornFirst ==
  /\ \A p \in Projects : row[p] # "none" => p \in born
  /\ \A r \in Runs : runProject[r] # None => runProject[r] \in born
  /\ \A h \in Requests : req[h].pc # "idle" => req[h].project \in born

Newborn(h) ==
  Fresh(h) =>
    /\ row[req[h].project] = "none"
    /\ \A g \in Requests \ {h} : req[g].pc # "idle" => req[g].project # req[h].project
    /\ \A r \in Runs : runProject[r] = req[h].project => req[h].pc = "added" /\ r = req[h].run

(* What a handler is doing at the points that belong to one operation.     *)
Placed(h) ==
  /\ req[h].pc \in {"checked", "purged", "ready"} => req[h].op = "deploy"
  /\ req[h].pc \in {"loaded", "free"} => req[h].op # "deploy"

Buried(h) ==
  /\ req[h].pc = "gone" => Gone(req[h].project)
  /\ req[h].pc = "purged" => \A q \in req[h].drop : Gone(q)

Births ==
  BornFirst /\ \A h \in Requests : Newborn(h) /\ Placed(h) /\ Buried(h)

(* What a step of a handler is to all this: a first one for a new id or    *)
(* for a row, a later one, or the publication of a run.                    *)
Starts(h) ==
  /\ req[h].pc = "idle" /\ req'[h].pc = "checked" /\ req'[h].op = "deploy"
  /\ req'[h].project \in Projects \ born /\ born' = born \cup {req'[h].project}
  /\ UNCHANGED <<row, runProject>>
Comes(h) ==
  /\ req[h].pc = "idle" /\ req'[h].pc = "loaded" /\ req'[h].op # "deploy"
  /\ req'[h].project \in Projects /\ row[req'[h].project] # "none"
  /\ UNCHANGED <<row, runProject, born>>
GoesOn(h) ==
  /\ req[h].pc # "idle" /\ UNCHANGED <<runProject, born>>
  /\ \A p \in Projects : row'[p] # "none" =>
       row[p] # "none" \/ (p = req[h].project /\ req[h].pc = "added" /\ req[h].op = "deploy")
  /\ \/ req'[h] = Idle
     \/ /\ req'[h].project = req[h].project /\ req'[h].op = req[h].op
        /\ \/ /\ req[h].pc = "checked" /\ req'[h].pc = "purged"
              /\ \A q \in req'[h].drop : q \in Projects /\ row[q] = "failed" /\ row'[q] = "none"
           \/ req[h].pc = "purged" /\ req'[h].pc = "ready"
           \/ req[h].pc = "loaded" /\ req'[h].pc = "free"
           \/ req[h].pc = "added" /\ req'[h].pc = "saved"
           \/ req[h].pc = "loaded" /\ req'[h].pc = "gone" /\ row'[req[h].project] = "none"

LEMMA CallKinds ==
  ASSUME TypeOK, NEW h \in Requests, Call(h)
  PROVE  (Starts(h) \/ Comes(h)) /\ \A g \in Requests : g # h => req'[g] = req[g]
<1> USE DEF TypeOK, liveVars, dbVars
<1>1. ASSUME NEW p \in Projects, StartCheck(h, p)
      PROVE  Starts(h) /\ \A g \in Requests : g # h => req'[g] = req[g]
  BY <1>1 DEF StartCheck, At, Arrive, Idle, Starts
<1>2. ASSUME NEW p \in Projects, NEW op \in load.ops,
             DeleteLoad(h, p) \/ Load(h, op, p) \/ EditLoad(h, op, p)
      PROVE  Comes(h) /\ \A g \in Requests : g # h => req'[g] = req[g]
  <2>1. req[h].pc = "idle" /\ row[p] # "none" /\ UNCHANGED <<row, runProject, born>>
    BY <1>2 DEF DeleteLoad, Load, EditLoad, At
  <2>2. /\ req'[h].pc = "loaded" /\ req'[h].op # "deploy" /\ req'[h].project = p
        /\ \A g \in Requests : g # h => req'[g] = req[g]
    BY ZenonT(40), <1>2 DEF DeleteLoad, Load, EditLoad, Arrive, Idle, EditOps
  <2> QED BY <2>1, <2>2 DEF Comes
<1> QED
  <2>1. PICK p \in Projects :
          \/ StartCheck(h, p) \/ DeleteLoad(h, p)
          \/ \E op \in load.ops : Load(h, op, p) \/ EditLoad(h, op, p)
    BY DEF Call
  <2>2. CASE DeleteLoad(h, p)
    <3>1. "delete" \in load.ops
      BY <2>2 DEF DeleteLoad
    <3> QED BY <1>2, <2>2, <3>1
  <2> QED BY <1>1, <1>2, <2>1, <2>2

LEMMA HandlerKinds ==
  ASSUME TypeOK, HandlersKnowTheirs, NEW h \in Requests, Handler(h),
         ~\E r \in Runs : StoreAdd(h, r)
  PROVE  GoesOn(h) /\ \A g \in Requests : g # h => req'[g] = req[g]
<1> USE DEF TypeOK, liveVars, dbVars
<1>1. \A g \in Requests : g # h => req'[g] = req[g]
  BY DEF Handler, DeleteFailedTarget, StoreRemoveFailed, Create, BusyCheck, SaveQueued, Enqueue,
         EditSave, DeleteRow, StoreRemove, Goto, Return
<1>2. req[h].pc # "idle" /\ UNCHANGED <<runProject, born>>
  BY DEF Handler, DeleteFailedTarget, StoreRemoveFailed, Create, BusyCheck, SaveQueued, Enqueue,
         EditSave, DeleteRow, StoreRemove, At
<1>3. CASE DeleteFailedTarget(h)
  <2>1. PICK ids \in {FailedTarget(req[h].project)} \cup (IF load.faults THEN {{}} ELSE {}) :
          /\ row' = [q \in Projects |-> IF q \in ids THEN "none" ELSE row[q]]
          /\ req' = [req EXCEPT ![h].pc = "purged", ![h].drop = ids]
    BY <1>3 DEF DeleteFailedTarget
  <2>2. \A q \in ids : q \in Projects /\ row[q] = "failed"
    BY <2>1 DEF FailedTarget
  <2>3. /\ req[h].pc = "checked" /\ req'[h].pc = "purged" /\ req'[h].drop = ids
        /\ req'[h].project = req[h].project /\ req'[h].op = req[h].op
    BY <1>3, <2>1 DEF DeleteFailedTarget, At, RequestState
  <2> QED BY <1>1, <1>2, <2>1, <2>2, <2>3 DEF GoesOn
<1>4. CASE StoreRemoveFailed(h)
  <2>1. /\ req[h].pc = "purged" /\ req'[h].pc = "ready" /\ row' = row
        /\ req'[h].project = req[h].project /\ req'[h].op = req[h].op
    BY <1>4 DEF StoreRemoveFailed, At, RequestState
  <2> QED BY <1>1, <1>2, <2>1 DEF GoesOn
<1>5. CASE Create(h) \/ SaveQueued(h)
  <2>1. /\ req[h].pc = "added"
        /\ \A p \in Projects : row'[p] # "none" =>
             row[p] # "none" \/ (p = req[h].project /\ req[h].op = "deploy")
    BY <1>5 DEF Create, SaveQueued, SaveState, Updated, At
  <2>2. CASE Return(h)
    BY <1>1, <1>2, <2>1, <2>2 DEF Return, GoesOn
  <2>3. CASE Goto(h, "saved")
    <3>1. req'[h].pc = "saved" /\ req'[h].project = req[h].project /\ req'[h].op = req[h].op
      BY <2>3 DEF Goto, RequestState
    <3> QED BY <1>1, <1>2, <2>1, <3>1 DEF GoesOn
  <2> QED BY <1>5, <2>2, <2>3 DEF Create, SaveQueued
<1>6. CASE BusyCheck(h)
  <2>1. row' = row /\ req[h].pc = "loaded" /\ (Return(h) \/ Goto(h, "free"))
    BY <1>6 DEF BusyCheck, At
  <2>2. CASE Return(h)
    BY <1>1, <1>2, <2>1, <2>2 DEF Return, GoesOn
  <2>3. CASE Goto(h, "free")
    <3>1. req'[h].pc = "free" /\ req'[h].project = req[h].project /\ req'[h].op = req[h].op
      BY <2>3 DEF Goto, RequestState
    <3> QED BY <1>1, <1>2, <2>1, <3>1 DEF GoesOn
  <2> QED BY <2>1, <2>2, <2>3
<1>7. CASE DeleteRow(h)
  <2>1. /\ req[h].pc = "loaded" /\ req[h].project \in Projects
        /\ \A p \in Projects : row'[p] # "none" => row[p] # "none"
    BY <1>7 DEF DeleteRow, At, HandlersKnowTheirs
  <2>2. CASE Return(h)
    BY <1>1, <1>2, <2>1, <2>2 DEF Return, GoesOn
  <2>3. CASE Goto(h, "gone") /\ row' = [row EXCEPT ![req[h].project] = "none"]
    <3>1. /\ req'[h].pc = "gone" /\ req'[h].project = req[h].project /\ req'[h].op = req[h].op
          /\ row'[req[h].project] = "none"
      BY <2>1, <2>3 DEF Goto, RequestState
    <3> QED BY <1>1, <1>2, <2>1, <3>1 DEF GoesOn
  <2> QED BY <1>7, <2>2, <2>3 DEF DeleteRow
<1>8. CASE Enqueue(h) \/ EditSave(h) \/ StoreRemove(h)
  <2>1. Return(h) /\ \A p \in Projects : row'[p] # "none" => row[p] # "none"
    BY <1>8 DEF Enqueue, EditSave, StoreRemove, SaveState, Updated
  <2> QED BY <1>1, <1>2, <2>1 DEF Return, GoesOn
<1> QED
  BY <1>3, <1>4, <1>5, <1>6, <1>7, <1>8 DEF Handler

(* Workers and the process bring no row back and hand out no id.           *)
LEMMA OthersKinds ==
  ASSUME TypeOK, UNCHANGED vars \/ Process \/ \E w \in Workers : Worker(w)
  PROVE  /\ UNCHANGED <<runProject, born>>
         /\ \A p \in Projects : row'[p] # "none" => row[p] # "none"
         /\ UNCHANGED req \/ (Restart /\ req' = [h \in Requests |-> Idle])
<1> USE DEF TypeOK, dbVars, liveVars
<1>1. CASE UNCHANGED vars
  BY <1>1 DEF vars
<1>2. CASE Process
  <2>1. CASE Restart
    <3>1. UNCHANGED <<runProject, born>> /\ req' = [h \in Requests |-> Idle]
      BY <2>1 DEF Restart
    <3>2. \A p \in Projects : row'[p] # "none" => row[p] # "none"
      BY <2>1 DEF Restart, MarkOrphans
    <3> QED BY <2>1, <3>1, <3>2
  <2> QED
    BY <1>2, <2>1 DEF Process, ShutdownBegin, ShutdownDrained, ShutdownTimeout, SetMaintenance,
                      WatchMaintenance
<1>3. ASSUME NEW w \in Workers, Worker(w)
      PROVE  UNCHANGED <<runProject, born, req>>
             /\ \A p \in Projects : row'[p] # "none" => row[p] # "none"
  <2>1. UNCHANGED <<runProject, born, req>>
    BY <1>3 DEF Worker, Take, Count, LockServer, Begin, Persist, Finish, SaveFinal, Unlock,
                Report, Done
  <2>2. \A p \in Projects : row'[p] # "none" => row[p] # "none"
    <3>1. CASE Persist(w)
      BY <3>1 DEF Persist, SaveState, Updated
    <3>2. CASE SaveFinal(w)
      BY <3>2 DEF SaveFinal, SaveOutcome, Updated
    <3> QED
      BY <1>3, <3>1, <3>2 DEF Worker, Take, Count, LockServer, Begin, Finish, Unlock, Report, Done
  <2> QED BY <2>1, <2>2
<1> QED BY <1>1, <1>2, <1>3

(* What is gone stays gone.                                                *)
LEMMA GoneStays ==
  ASSUME TypeOK, HandlersKnowTheirs, Births, [Next]_vars, NEW p \in Projects, Gone(p)
  PROVE  Gone(p)'
<1> USE DEF Gone, Fresh
<1>1. ASSUME NEW h \in Requests, Call(h) PROVE Gone(p)'
  <2>1. (Starts(h) \/ Comes(h)) /\ \A g \in Requests : g # h => req'[g] = req[g]
    BY <1>1, CallKinds
  <2> QED BY <2>1 DEF Starts, Comes
<1>2. ASSUME NEW h \in Requests, Handler(h), ~\E r \in Runs : StoreAdd(h, r) PROVE Gone(p)'
  <2>1. GoesOn(h) /\ \A g \in Requests : g # h => req'[g] = req[g]
    BY <1>2, HandlerKinds
  <2>2. Fresh(h)' => Fresh(h) /\ req'[h].project = req[h].project
    BY <2>1 DEF GoesOn, Idle, Births, Placed
  <2>3. row'[p] = "none"
    BY <2>1 DEF GoesOn, TypeOK
  <2> QED BY <2>1, <2>2, <2>3 DEF GoesOn
<1>3. ASSUME NEW h \in Requests, NEW r \in Runs, StoreAdd(h, r) PROVE Gone(p)'
  <2>1. /\ req[h].pc \in {"ready", "free"} /\ req'[h].project = req[h].project
        /\ req'[h].op = req[h].op /\ UNCHANGED <<row, born>>
        /\ \A g \in Requests : g # h => req'[g] = req[g]
    BY <1>3 DEF StoreAdd, At, TypeOK, RequestState, dbVars
  <2>2. Fresh(h)' => Fresh(h)
    BY <2>1 DEF Births, Placed
  <2> QED BY <2>1, <2>2
<1>4. CASE UNCHANGED vars \/ Process \/ \E w \in Workers : Worker(w)
  BY <1>4, OthersKinds DEF Idle, TypeOK
<1> QED
  BY <1>1, <1>2, <1>3, <1>4 DEF Next

LEMMA BirthsStep ==
  ASSUME TypeOK, HandlersKnowTheirs, Births, [Next]_vars
  PROVE  Births'
<1> USE DEF TypeOK
<1>1. ASSUME NEW h \in Requests, Starts(h), \A g \in Requests : g # h => req'[g] = req[g]
      PROVE  BornFirst' /\ \A g \in Requests : Newborn(g)' /\ Placed(g)'
  <2>1. BornFirst'
    BY <1>1 DEF Births, BornFirst, Starts
  <2>2. Newborn(h)' /\ Placed(h)'
    <3>1. row[req'[h].project] = "none" /\ \A r \in Runs : runProject[r] # req'[h].project
      BY <1>1, ConstantsOK DEF Births, BornFirst, Starts
    <3>2. \A g \in Requests \ {h} : req[g].pc # "idle" => req[g].project # req'[h].project
      BY <1>1 DEF Births, BornFirst, Starts
    <3> QED BY <1>1, <3>1, <3>2 DEF Starts, Newborn, Placed
  <2>3. ASSUME NEW g \in Requests, g # h PROVE Newborn(g)' /\ Placed(g)'
    <3>1. req'[g] = req[g] /\ (req[g].pc # "idle" => req[g].project \in born)
      BY <1>1, <2>3 DEF Births, BornFirst
    <3>2. req'[h].project \notin born /\ UNCHANGED <<row, runProject>>
      BY <1>1 DEF Starts
    <3> QED BY <1>1, <3>1, <3>2 DEF Births, Newborn, Placed, Fresh
  <2> QED BY <2>1, <2>2, <2>3
<1>2. ASSUME NEW h \in Requests, Comes(h), \A g \in Requests : g # h => req'[g] = req[g]
      PROVE  BornFirst' /\ \A g \in Requests : Newborn(g)' /\ Placed(g)'
  <2>1. BornFirst'
    BY <1>2 DEF Births, BornFirst, Comes
  <2>2. Newborn(h)' /\ Placed(h)'
    BY <1>2 DEF Newborn, Placed, Fresh, Comes
  <2>3. ASSUME NEW g \in Requests, g # h PROVE Newborn(g)' /\ Placed(g)'
    <3>1. /\ req'[g] = req[g] /\ Placed(g) /\ UNCHANGED <<row, runProject>>
          /\ row[req'[h].project] # "none"
      BY <1>2, <2>3 DEF Births, Comes
    <3>2. Fresh(g) => req'[h].project # req[g].project
      BY <3>1 DEF Births, Newborn
    <3>3. Placed(g)'
      BY <3>1 DEF Placed
    <3>4. \A f \in Requests \ {g} :
            Fresh(g) /\ req'[f].pc # "idle" => req'[f].project # req[g].project
      BY <1>2, <3>1, <3>2 DEF Births, Newborn
    <3>5. Newborn(g)'
      BY <3>1, <3>4 DEF Births, Newborn, Fresh
    <3> QED BY <3>3, <3>5
  <2> QED BY <2>1, <2>2, <2>3
<1>3. ASSUME NEW h \in Requests, GoesOn(h), \A g \in Requests : g # h => req'[g] = req[g]
      PROVE  BornFirst' /\ \A g \in Requests : Newborn(g)' /\ Placed(g)'
  <2>1. BornFirst'
    <3>1. req'[h].pc # "idle" => req'[h].project = req[h].project
      BY <1>3 DEF GoesOn, Idle
    <3>2. req[h].project \in born
      BY <1>3 DEF GoesOn, Births, BornFirst
    <3>3. \A p \in Projects : row'[p] # "none" => p \in born
      BY <1>3, <3>2 DEF GoesOn, Births, BornFirst
    <3> QED BY <1>3, <3>1, <3>2, <3>3 DEF GoesOn, Births, BornFirst
  <2>2. Newborn(h)' /\ Placed(h)'
    <3>1. Placed(h)'
      BY <1>3 DEF GoesOn, Idle, Births, Placed
    <3>2. Fresh(h)' => Fresh(h) /\ req[h].pc # "added" /\ req'[h].pc # "added"
                       /\ req'[h].project = req[h].project
      BY <1>3 DEF GoesOn, Idle, Fresh
    <3>3. req[h].pc # "idle" => req[h].project \in Projects
      BY DEF HandlersKnowTheirs
    <3>4. ASSUME Fresh(h)' PROVE row'[req'[h].project] = "none"
      BY <1>3, <3>2, <3>3, <3>4 DEF GoesOn, Births, Newborn
    <3>5. ASSUME Fresh(h)' PROVE \A r \in Runs : runProject'[r] # req'[h].project
      BY <1>3, <3>2, <3>5 DEF GoesOn, Births, Newborn
    <3> QED BY <1>3, <3>1, <3>2, <3>4, <3>5 DEF Births, Newborn
  <2>3. ASSUME NEW g \in Requests, g # h PROVE Newborn(g)' /\ Placed(g)'
    <3>1. Placed(g)'
      BY <1>3, <2>3 DEF Births, Placed
    <3>2. SUFFICES ASSUME Fresh(g) PROVE Newborn(g)'
      BY <1>3, <2>3, <3>1 DEF Newborn, Fresh
    <3>3. req[g].project \in Projects /\ req[h].project # req[g].project
      BY <1>3, <2>3, <3>2 DEF HandlersKnowTheirs, Fresh, GoesOn, Births, Newborn
    <3>4. row'[req[g].project] = "none"
      BY <1>3, <3>2, <3>3 DEF GoesOn, Births, Newborn
    <3>5. req'[h].pc # "idle" => req'[h].project # req[g].project
      BY <1>3, <3>3 DEF GoesOn, Idle
    <3>6. \A f \in Requests \ {g} : req'[f].pc # "idle" => req'[f].project # req[g].project
      BY <1>3, <3>2, <3>5 DEF Births, Newborn
    <3>7. \A r \in Runs : runProject'[r] = req[g].project => req[g].pc = "added" /\ r = req[g].run
      BY <1>3, <3>2 DEF GoesOn, Births, Newborn
    <3>8. req'[g] = req[g]
      BY <1>3, <2>3
    <3> QED BY <3>4, <3>6, <3>7, <3>8 DEF Newborn
  <2> QED BY <2>1, <2>2, <2>3
<1>4. ASSUME NEW h \in Requests, NEW r \in Runs, StoreAdd(h, r)
      PROVE  BornFirst' /\ \A g \in Requests : Newborn(g)' /\ Placed(g)'
  <2>1. /\ req[h].pc \in {"ready", "free"} /\ req'[h].pc = "added" /\ req'[h].run = r
        /\ req'[h].project = req[h].project /\ req'[h].op = req[h].op
        /\ UNCHANGED <<row, born>> /\ \A g \in Requests : g # h => req'[g] = req[g]
        /\ runProject'[r] = req[h].project /\ req[h].project \in Projects \cap born
        /\ \A x \in Runs : x # r => runProject'[x] = runProject[x]
    BY <1>4 DEF StoreAdd, At, RequestState, dbVars, HandlersKnowTheirs, Births, BornFirst
  <2>2. BornFirst' /\ Placed(h)'
    BY <2>1 DEF Births, BornFirst, Placed
  <2>3. Newborn(h)'
    <3>1. SUFFICES ASSUME req[h].op = "deploy" PROVE Newborn(h)'
      BY <2>1 DEF Newborn, Fresh
    <3>2. Fresh(h) /\ req[h].pc = "ready"
      BY <2>1, <3>1 DEF Births, Placed, Fresh
    <3>3. /\ row'[req'[h].project] = "none"
          /\ \A g \in Requests \ {h} : req'[g].pc # "idle" => req'[g].project # req'[h].project
      BY <2>1, <3>2 DEF Births, Newborn
    <3>4. \A x \in Runs : runProject'[x] = req'[h].project => x = r
      BY <2>1, <3>2 DEF Births, Newborn
    <3> QED BY <2>1, <3>3, <3>4 DEF Newborn
  <2>4. ASSUME NEW g \in Requests, g # h PROVE Newborn(g)' /\ Placed(g)'
    <3>1. req'[g] = req[g] /\ Placed(g)'
      BY <2>1, <2>4 DEF Births, Placed
    <3>2. SUFFICES ASSUME Fresh(g) PROVE Newborn(g)'
      BY <3>1 DEF Newborn, Fresh
    <3>3. req[h].project # req[g].project
      BY <2>1, <2>4, <3>2 DEF Births, Newborn
    <3>4. /\ row'[req[g].project] = "none"
          /\ \A f \in Requests \ {g} : req'[f].pc # "idle" => req'[f].project # req[g].project
      BY <2>1, <3>2, <3>3 DEF Births, Newborn
    <3>5. \A x \in Runs : runProject'[x] = req[g].project => req[g].pc = "added" /\ x = req[g].run
      BY <2>1, <3>2, <3>3 DEF Births, Newborn
    <3> QED BY <3>1, <3>4, <3>5 DEF Newborn
  <2> QED BY <2>1, <2>2, <2>3, <2>4
<1>5. ASSUME UNCHANGED vars \/ Process \/ \E w \in Workers : Worker(w)
      PROVE  BornFirst' /\ \A g \in Requests : Newborn(g)' /\ Placed(g)'
  <2>1. /\ UNCHANGED <<runProject, born>>
        /\ \A p \in Projects : row'[p] # "none" => row[p] # "none"
        /\ UNCHANGED req \/ req' = [h \in Requests |-> Idle]
    BY <1>5, OthersKinds
  <2>2. CASE UNCHANGED req
    BY <2>1, <2>2 DEF Births, BornFirst, Newborn, Placed, Fresh, HandlersKnowTheirs
  <2>3. CASE req' = [h \in Requests |-> Idle]
    BY <2>1, <2>3 DEF Births, BornFirst, Newborn, Placed, Fresh, Idle
  <2> QED BY <2>1, <2>2, <2>3
<1>6. BornFirst' /\ \A g \in Requests : Newborn(g)' /\ Placed(g)'
  BY <1>1, <1>2, <1>3, <1>4, <1>5, CallKinds, HandlerKinds DEF Next
<1>7. ASSUME NEW g \in Requests
      PROVE  req'[g] = req[g] \/ req'[g] = Idle \/ Starts(g) \/ Comes(g) \/ GoesOn(g)
               \/ req'[g].pc = "added"
  <2>1. ASSUME NEW h \in Requests, NEW r \in Runs, StoreAdd(h, r)
        PROVE  req'[g] = req[g] \/ req'[g].pc = "added"
    BY <2>1 DEF StoreAdd
  <2>2. CASE UNCHANGED vars \/ Process \/ \E w \in Workers : Worker(w)
    BY <2>2, OthersKinds
  <2> QED BY <2>1, <2>2, CallKinds, HandlerKinds DEF Next
<1>9. ASSUME NEW f \in Requests, NEW g \in Requests, f # g
      PROVE  req'[f] = req[f] \/ req'[g] = req[g] \/ req'[g] = Idle
  <2>1. ASSUME NEW h \in Requests, NEW r \in Runs, StoreAdd(h, r)
        PROVE  \A x \in Requests : x # h => req'[x] = req[x]
    BY <2>1 DEF StoreAdd
  <2>2. CASE UNCHANGED vars \/ Process \/ \E w \in Workers : Worker(w)
    BY <2>2, OthersKinds
  <2> QED BY <1>9, <2>1, <2>2, CallKinds, HandlerKinds DEF Next
<1>8. ASSUME NEW g \in Requests PROVE Buried(g)'
  <2>1. CASE req'[g] = req[g]
    <3>1. /\ req[g].pc = "gone" => req[g].project \in Projects
          /\ req[g].drop \subseteq Projects
      BY DEF HandlersKnowTheirs, RequestState
    <3> QED BY <2>1, <3>1, GoneStays DEF Births, Buried
  <2>2. CASE req'[g] = Idle \/ Starts(g) \/ Comes(g) \/ req'[g].pc = "added"
    BY <2>2 DEF Buried, Idle, Starts, Comes
  <2>3. CASE GoesOn(g) /\ req'[g] # Idle
    <3>1. /\ req'[g].project = req[g].project /\ req'[g].op = req[g].op /\ req[g].pc # "idle"
          /\ UNCHANGED born
      BY <2>3 DEF GoesOn
    <3>2. CASE req'[g].pc = "gone"
      <4>1. row'[req[g].project] = "none" /\ ~Fresh(g)'
        BY <2>3, <3>2 DEF GoesOn, Fresh
      <4>2. req[g].project \in born
        BY <3>1 DEF Births, BornFirst
      <4>3. ASSUME NEW f \in Requests, Fresh(f)' PROVE req'[f].project # req[g].project
        BY <1>6, <3>1, <3>2, <4>1, <4>3 DEF Newborn
      <4> QED BY <3>1, <3>2, <4>1, <4>2, <4>3 DEF Buried, Gone
    <3>3. CASE req'[g].pc = "purged"
      <4>1. \A q \in req'[g].drop : q \in Projects /\ row[q] = "failed" /\ row'[q] = "none"
        BY <2>3, <3>3 DEF GoesOn
      <4>2. ASSUME NEW q \in req'[g].drop, NEW f \in Requests, Fresh(f)' PROVE req'[f].project # q
        <5>1. Fresh(f) /\ req'[f].project = req[f].project
          <6>1. CASE f = g
            BY <2>3, <3>3, <4>2, <6>1 DEF GoesOn, Fresh
          <6>2. CASE f # g
            BY <1>9, <2>3, <3>3, <4>2, <6>2 DEF GoesOn, Fresh
          <6> QED BY <6>1, <6>2
        <5> QED BY <4>1, <5>1 DEF Births, Newborn
      <4> QED BY <3>1, <3>3, <4>1, <4>2 DEF Buried, Gone, Births, BornFirst
    <3> QED BY <3>2, <3>3 DEF Buried
  <2> QED BY <1>7, <2>1, <2>2, <2>3
<1> QED BY <1>6, <1>8 DEF Births

LEMMA InitBirths == Init => Births
BY ConstantsOK DEF Init, Births, BornFirst, Newborn, Placed, Buried, Fresh, Idle

(* A row appears by the INSERT of the handler that was given its id.       *)
LEMMA RowAppears ==
  ASSUME TypeOK, HandlersKnowTheirs, [Next]_vars, NEW p \in Projects, row[p] = "none", row'[p] # "none"
  PROVE  \E h \in Requests : Fresh(h) /\ req[h].pc = "added" /\ req[h].project = p
<1>1. ASSUME NEW h \in Requests, NEW r \in Runs, StoreAdd(h, r) PROVE FALSE
  BY <1>1 DEF StoreAdd, dbVars
<1>2. ASSUME NEW h \in Requests, Call(h) PROVE FALSE
  BY <1>2, CallKinds DEF Starts, Comes
<1>3. ASSUME NEW h \in Requests, Handler(h)
      PROVE  \E g \in Requests : Fresh(g) /\ req[g].pc = "added" /\ req[g].project = p
  BY <1>1, <1>3, HandlerKinds DEF GoesOn, Fresh
<1>4. ~(UNCHANGED vars \/ Process \/ \E w \in Workers : Worker(w))
  BY OthersKinds
<1> QED BY <1>2, <1>3, <1>4 DEF Next
-----------------------------------------------------------------------------
(***************************************************************************)
(* Who holds a run.  A run is published by one handler, then in one place  *)
(* of the channel, then in one worker's hand (OneHolder); its status says  *)
(* how far its holder has brought it (StatusFits), so that store.Add never *)
(* meets a run that is held; what is not over is held by somebody, unless  *)
(* its project has no row (UnfinishedOwned, RowsOwned).                    *)
(***************************************************************************)
Publishing(h) == req[h].pc \in {"added", "saved"}
Busy(w) == wpc[w] # "idle"

OneHolder ==
  /\ EachJobOnce
  /\ \A g, h \in Requests :
       g # h /\ Publishing(g) /\ Publishing(h) => req[g].run # req[h].run
  /\ \A h \in Requests, i \in DOMAIN queue : Publishing(h) => req[h].run # queue[i]
  /\ \A h \in Requests, w \in Workers : Publishing(h) /\ Busy(w) => req[h].run # wrun[w]

StatusFits ==
  /\ \A h \in Requests :
       Publishing(h) => /\ runStatus[req[h].run] = "queued"
                        /\ runProject[req[h].run] = req[h].project
  /\ \A i \in DOMAIN queue : runStatus[queue[i]] = "queued"
  /\ \A w \in Workers :
       /\ wpc[w] \in {"taken", "counted", "locked"} => runStatus[wrun[w]] = "queued"
       /\ wpc[w] \in {"begun", "running"} => runStatus[wrun[w]] = "running"
       /\ wpc[w] \in {"ended", "saved", "unlocked", "reported"} =>
            runStatus[wrun[w]] \in {"success", "failed"}

UnfinishedOwned ==
  \A p \in Projects, r \in Runs :
    row[p] # "none" /\ runProject[r] = p /\ Unfinished(r) => Owned(r)

RowsOwned ==
  \A p \in Projects \ stale :
    row[p] \in {"queued", "running"} => \E r \in Runs : runProject[r] = p /\ Owned(r)

(* What the store names is a run of that project.                          *)
StoreKnown ==
  \A p \in Projects :
    store[p] # None => runStatus[store[p]] # "unused" /\ runProject[store[p]] = p

Ownership == OneHolder /\ StatusFits /\ UnfinishedOwned /\ RowsOwned /\ StoreKnown

(* What the steps of handlers and of the process do to runs that are held: *)
(* nothing, but that a failed INSERT drops one, which leaves no row.       *)
HandlersAside ==
  \A h \in Requests :
    /\ Publishing(h)' =>
         Publishing(h) /\ req'[h].run = req[h].run /\ req'[h].project = req[h].project
    /\ Publishing(h) => Publishing(h)' \/ row'[req[h].project] = "none"

Aside ==
  /\ UNCHANGED <<queue, wpc, wrun, runStatus, runProject, wg>>
  /\ HandlersAside
  /\ \A p \in Projects \ stale' :
       row'[p] \in {"queued", "running"} =>
         \/ row'[p] = row[p] /\ p \notin stale
         \/ \E h \in Requests : Publishing(h)' /\ req'[h].project = p

(* What the steps of a worker do that neither take, begin nor end a run.   *)
Moves(w) ==
  /\ UNCHANGED <<queue, wrun, runStatus, runProject, req, wg, stale>>
  /\ \A x \in Workers : x # w => wpc'[x] = wpc[x]
  /\ \/ wpc[w] = "counted" /\ wpc'[w] = "locked"
     \/ wpc[w] \in {"begun", "running"} /\ wpc'[w] = "running"
     \/ wpc[w] = "saved" /\ wpc'[w] = "unlocked"
     \/ wpc[w] = "unlocked" /\ wpc'[w] = "reported"
  /\ \A p \in Projects :
       row'[p] # row[p] => p = runProject[wrun[w]] /\ wpc[w] \in {"begun", "running"}

(* A handler goes on, or returns without having published.                 *)
LEMMA GotoAside ==
  ASSUME req \in [Requests -> RequestState], NEW h \in Requests, NEW pc, Goto(h, pc),
         req[h].pc # "idle", Publishing(h) <=> pc \in {"added", "saved"}
  PROVE  HandlersAside
<1>1. \A g \in Requests : g # h => req'[g] = req[g]
  BY DEF Goto
<1>2. /\ req'[h].pc = pc /\ req'[h].run = req[h].run /\ req'[h].op = req[h].op
      /\ req'[h].project = req[h].project
  BY DEF Goto, RequestState
<1> QED
  BY <1>1, <1>2 DEF HandlersAside, Publishing

LEMMA ReturnAside ==
  ASSUME req \in [Requests -> RequestState], NEW h \in Requests, Return(h),
         Publishing(h) => row'[req[h].project] = "none"
  PROVE  HandlersAside
<1>1. \A g \in Requests : g # h => req'[g] = req[g]
  BY DEF Return
<1>2. req'[h].pc = "idle"
  BY DEF Return, Idle
<1> QED
  BY <1>1, <1>2 DEF HandlersAside, Publishing

LEMMA HandlerAside ==
  ASSUME TypeOK, HandlersKnowTheirs, Births, NEW h \in Requests,
         Call(h) \/ (Handler(h) /\ ~(\E r \in Runs : StoreAdd(h, r)) /\ ~Enqueue(h))
  PROVE  Aside
<1> USE DEF TypeOK, dbVars, liveVars, workVars, procVars, histVars
<1>1. ASSUME NEW p \in Projects, StartCheck(h, p) PROVE Aside
  BY <1>1 DEF StartCheck, At, Arrive, Idle, Aside, HandlersAside, Publishing
<1>2. ASSUME NEW p \in Projects, DeleteLoad(h, p) PROVE Aside
  BY <1>2 DEF DeleteLoad, At, Arrive, Idle, Aside, HandlersAside, Publishing
<1>3. ASSUME NEW p \in Projects, NEW op \in load.ops, Load(h, op, p) PROVE Aside
  BY <1>3 DEF Load, At, Arrive, Idle, Aside, HandlersAside, Publishing
<1>4. ASSUME NEW p \in Projects, NEW op \in load.ops, EditLoad(h, op, p) PROVE Aside
  BY <1>4 DEF EditLoad, At, Idle, Aside, HandlersAside, Publishing
<1>5. CASE DeleteFailedTarget(h)
  BY <1>5 DEF DeleteFailedTarget, At, RequestState, Aside, HandlersAside, Publishing
<1>6. CASE StoreRemoveFailed(h)
  BY <1>6 DEF StoreRemoveFailed, At, RequestState, Aside, HandlersAside, Publishing
<1>7. CASE Create(h)
  <2>1. Publishing(h) /\ req[h].project \in Projects
    BY <1>7 DEF Create, At, Publishing, HandlersKnowTheirs
  <2>2. CASE Goto(h, "saved") /\ row' = [row EXCEPT ![req[h].project] = "queued"]
    <3>1. HandlersAside
      BY <2>1, <2>2, GotoAside DEF Publishing
    <3>2. Publishing(h)' /\ req'[h].project = req[h].project
      BY <2>1, <3>1, <2>2 DEF Goto, RequestState, Publishing
    <3> QED BY <1>7, <2>1, <2>2, <3>1, <3>2 DEF Create, Aside
  <2>3. CASE Return(h) /\ row' = row
    <3>1. row'[req[h].project] = "none"
      BY <1>7, <2>3 DEF Create, At, Births, Newborn, Fresh
    <3> QED BY <1>7, <2>3, <3>1, ReturnAside DEF Create, Aside
  <2> QED BY <1>7, <2>2, <2>3 DEF Create
<1>8. CASE BusyCheck(h)
  <2>1. HandlersAside
    BY <1>8, GotoAside, ReturnAside DEF BusyCheck, At, Publishing
  <2> QED BY <1>8, <2>1 DEF BusyCheck, Aside
<1>9. CASE SaveQueued(h)
  <2>1. Publishing(h) /\ HandlersAside
    BY <1>9, GotoAside DEF SaveQueued, At, Publishing
  <2>2. Publishing(h)' /\ req'[h].project = req[h].project
    BY <1>9, <2>1 DEF SaveQueued, Goto, RequestState, Publishing
  <2>3. \A p \in Projects : row'[p] # row[p] => p = req[h].project
    BY <1>9 DEF SaveQueued, SaveState, Updated
  <2> QED BY <1>9, <2>1, <2>2, <2>3 DEF SaveQueued, Aside
<1>10. CASE EditSave(h)
  <2>1. HandlersAside
    BY <1>10, ReturnAside DEF EditSave, At, Publishing
  <2>2. \A p \in Projects \ stale' : p \notin stale /\ row'[p] = row[p]
    BY <1>10 DEF EditSave, SaveState, Updated
  <2> QED BY <1>10, <2>1, <2>2 DEF EditSave, Aside
<1>11. CASE DeleteRow(h)
  <2>1. HandlersAside
    BY <1>11, GotoAside, ReturnAside DEF DeleteRow, At, Publishing
  <2> QED BY <1>11, <2>1 DEF DeleteRow, Aside
<1>12. CASE StoreRemove(h)
  <2>1. HandlersAside
    BY <1>12, ReturnAside DEF StoreRemove, At, Publishing
  <2> QED BY <1>12, <2>1 DEF StoreRemove, Aside
<1> QED
  BY <1>1, <1>2, <1>3, <1>4, <1>5, <1>6, <1>7, <1>8, <1>9, <1>10, <1>11, <1>12 DEF Call, Handler

LEMMA ProcessAside ==
  ASSUME TypeOK, (Process /\ ~Restart) \/ UNCHANGED vars
  PROVE  Aside
BY DEF Process, ShutdownBegin, ShutdownDrained, ShutdownTimeout, SetMaintenance, WatchMaintenance,
       vars, dbVars, liveVars, workVars, procVars, histVars, Aside, HandlersAside, Publishing

LEMMA WorkerMoves ==
  ASSUME TypeOK, NEW w \in Workers,
         LockServer(w) \/ Persist(w) \/ Unlock(w) \/ Report(w)
  PROVE  Aside \/ Moves(w)
<1> USE DEF TypeOK, dbVars, liveVars, workVars, procVars, histVars
<1>1. CASE LockServer(w)
  BY <1>1 DEF LockServer, WAt, WGoto, Moves
<1>2. CASE Persist(w)
  BY <1>2 DEF Persist, SaveState, Updated, ProjectAt, WAt, WGoto, Moves
<1>3. CASE Unlock(w)
  BY <1>3 DEF Unlock, WAt, WGoto, Moves
<1>4. CASE Report(w)
  <2>1. CASE phase = "closed"
    BY <1>4, <2>1 DEF Report, Aside, HandlersAside, Publishing
  <2>2. CASE phase # "closed"
    BY <1>4, <2>2 DEF Report, WAt, WGoto, Moves
  <2> QED BY <2>1, <2>2
<1> QED
  BY <1>1, <1>2, <1>3, <1>4

(* Every step is one of these for the runs.                                *)
LEMMA StepKinds ==
  ASSUME TypeOK, HandlersKnowTheirs, Births, [Next]_vars
  PROVE  \/ Aside \/ Restart
         \/ \E h \in Requests : Enqueue(h) \/ \E r \in Runs : StoreAdd(h, r)
         \/ \E w \in Workers :
              \/ Take(w) \/ Count(w) \/ Moves(w) \/ Begin(w) \/ SaveFinal(w) \/ Done(w)
              \/ \E status \in {"success", "failed"} : Finish(w, status)
BY HandlerAside, ProcessAside, WorkerMoves DEF Next, Worker

(* The head of the channel, and what is left of it.                        *)
LEMMA TakeFromChannel ==
  ASSUME queue \in Seq(Runs), queue # <<>>
  PROVE  /\ 1 \in DOMAIN queue /\ Head(queue) = queue[1]
         /\ \A i \in DOMAIN Tail(queue) :
              i + 1 \in DOMAIN queue /\ i + 1 # 1 /\ Tail(queue)[i] = queue[i + 1]
         /\ \A i \in DOMAIN queue : i # 1 => i - 1 \in DOMAIN Tail(queue)
         /\ \A i, j \in DOMAIN Tail(queue) : i + 1 = j + 1 => i = j
OBVIOUS

LEMMA PutIntoChannel ==
  ASSUME queue \in Seq(Runs), NEW r \in Runs, queue' = Append(queue, r)
  PROVE  /\ Len(queue) + 1 \in DOMAIN queue' /\ queue'[Len(queue) + 1] = r
         /\ \A i \in DOMAIN queue : i \in DOMAIN queue' /\ queue'[i] = queue[i]
         /\ \A i \in DOMAIN queue' : i = Len(queue) + 1 \/ i \in DOMAIN queue
OBVIOUS

LEMMA HolderStep ==
  ASSUME TypeOK, HandlersKnowTheirs, JobsAssigned, Births, OneHolder, StatusFits,
         [Next]_vars
  PROVE  OneHolder'
<1> USE DEF OneHolder, EachJobOnce, Publishing, Busy
<1>1. CASE Aside
  BY <1>1 DEF Aside, HandlersAside
<1>2. CASE Restart
  BY <1>2 DEF Restart, Idle, TypeOK
<1>3. ASSUME NEW h \in Requests, Enqueue(h) PROVE OneHolder'
  <2> DEFINE r == req[h].run
  <2>1. r \in Runs /\ Publishing(h) /\ queue \in Seq(Runs) /\ queue' = Append(queue, r)
        /\ UNCHANGED <<wpc, wrun>>
    BY <1>3 DEF Enqueue, At, HandlersKnowTheirs, Assigned, TypeOK, workVars
  <2>2. req'[h].pc = "idle" /\ \A g \in Requests : g # h => req'[g] = req[g]
    BY <1>3 DEF Enqueue, Return, Idle, TypeOK
  <2> HIDE DEF r
  <2>3. \A i \in DOMAIN queue' :
          \/ i = Len(queue) + 1 /\ queue'[i] = r
          \/ i \in DOMAIN queue /\ queue'[i] = queue[i]
    BY <2>1, PutIntoChannel
  <2>4. /\ \A i \in DOMAIN queue : queue[i] # r
        /\ \A w \in Workers : Busy(w) => wrun[w] # r
        /\ \A g \in Requests : g # h /\ Publishing(g) => req[g].run # r
    BY <2>1 DEF r
  <2> QED BY <2>1, <2>2, <2>3, <2>4
<1>4. ASSUME NEW h \in Requests, NEW r \in Runs, StoreAdd(h, r) PROVE OneHolder'
  <2>1. /\ runStatus[r] = "unused" /\ UNCHANGED <<queue, wpc, wrun>>
        /\ req'[h].run = r /\ \A g \in Requests : g # h => req'[g] = req[g]
    BY <1>4 DEF StoreAdd, TypeOK, RequestState, workVars
  <2>2. /\ \A i \in DOMAIN queue : queue[i] # r
        /\ \A w \in Workers : Busy(w) => wrun[w] # r
        /\ \A g \in Requests : Publishing(g) => req[g].run # r
    BY <2>1 DEF JobsAssigned, HandlersKnowTheirs, Assigned, Statuses
  <2> QED BY <2>1, <2>2
<1>5. ASSUME NEW w \in Workers, Take(w) PROVE OneHolder'
  <2>1. /\ wpc[w] = "idle" /\ queue # <<>> /\ queue \in Seq(Runs) /\ queue' = Tail(queue)
        /\ wrun'[w] = Head(queue) /\ wpc'[w] = "taken" /\ req' = req
        /\ \A x \in Workers : x # w => wpc'[x] = wpc[x] /\ wrun'[x] = wrun[x]
    BY <1>5 DEF Take, WAt, WGoto, TypeOK
  <2>2. /\ 1 \in DOMAIN queue /\ wrun'[w] = queue[1]
        /\ \A i \in DOMAIN queue' :
             i + 1 \in DOMAIN queue /\ i + 1 # 1 /\ queue'[i] = queue[i + 1]
        /\ \A i, j \in DOMAIN queue' : i + 1 = j + 1 => i = j
    BY <2>1, TakeFromChannel
  <2> QED BY <2>1, <2>2
<1>6. ASSUME NEW w \in Workers, Count(w) \/ Moves(w) \/ Begin(w) \/ SaveFinal(w)
             \/ \E status \in {"success", "failed"} : Finish(w, status)
      PROVE  OneHolder'
  <2>1. UNCHANGED <<queue, wrun, req>> /\ wpc[w] # "idle"
        /\ \A x \in Workers : x # w => wpc'[x] = wpc[x]
    BY <1>6 DEF Count, Moves, Begin, SaveFinal, Finish, WAt, WGoto, TypeOK
  <2> QED BY <2>1
<1>7. ASSUME NEW w \in Workers, Done(w) PROVE OneHolder'
  <2>1. /\ UNCHANGED <<queue, req>> /\ wpc'[w] = "idle"
        /\ \A x \in Workers : x # w => wpc'[x] = wpc[x] /\ wrun'[x] = wrun[x]
    BY <1>7 DEF Done, WGoto, TypeOK
  <2> QED BY <2>1
<1> QED
  BY StepKinds, <1>1, <1>2, <1>3, <1>4, <1>5, <1>6, <1>7

LEMMA StatusStep ==
  ASSUME TypeOK, HandlersKnowTheirs, JobsAssigned, Births, OneHolder, StatusFits,
         [Next]_vars
  PROVE  StatusFits'
<1> USE DEF StatusFits, Publishing
<1>1. CASE Aside
  BY <1>1 DEF Aside, HandlersAside
<1>2. CASE Restart
  BY <1>2 DEF Restart, Idle, TypeOK
<1>3. ASSUME NEW h \in Requests, Enqueue(h) PROVE StatusFits'
  <2> DEFINE r == req[h].run
  <2>1. r \in Runs /\ Publishing(h) /\ queue \in Seq(Runs) /\ queue' = Append(queue, r)
        /\ UNCHANGED <<wpc, wrun, runStatus, runProject>> /\ runStatus[r] = "queued"
    BY <1>3 DEF Enqueue, At, HandlersKnowTheirs, Assigned, TypeOK, workVars, liveVars
  <2>2. req'[h].pc = "idle" /\ \A g \in Requests : g # h => req'[g] = req[g]
    BY <1>3 DEF Enqueue, Return, Idle, TypeOK
  <2> HIDE DEF r
  <2>3. \A i \in DOMAIN queue' :
          \/ i = Len(queue) + 1 /\ queue'[i] = r
          \/ i \in DOMAIN queue /\ queue'[i] = queue[i]
    BY <2>1, PutIntoChannel
  <2> QED BY <2>1, <2>2, <2>3
<1>4. ASSUME NEW h \in Requests, NEW r \in Runs, StoreAdd(h, r) PROVE StatusFits'
  <2>1. /\ runStatus[r] = "unused" /\ UNCHANGED <<queue, wpc, wrun>>
        /\ req'[h].run = r /\ req'[h].project = req[h].project
        /\ \A g \in Requests : g # h => req'[g] = req[g]
        /\ runStatus'[r] = "queued" /\ runProject'[r] = req[h].project
        /\ \A x \in Runs : x # r => runStatus'[x] = runStatus[x] /\ runProject'[x] = runProject[x]
    BY <1>4 DEF StoreAdd, TypeOK, RequestState, workVars
  <2>2. /\ \A i \in DOMAIN queue : queue[i] # r /\ queue[i] \in Runs
        /\ \A w \in Workers : wpc[w] # "idle" => wrun[w] # r /\ wrun[w] \in Runs
        /\ \A g \in Requests : Publishing(g) => req[g].run # r /\ req[g].run \in Runs
    BY <2>1 DEF JobsAssigned, HandlersKnowTheirs, Assigned, Statuses
  <2> QED BY <2>1, <2>2
<1>5. ASSUME NEW w \in Workers, Take(w) PROVE StatusFits'
  <2>1. /\ queue # <<>> /\ queue \in Seq(Runs) /\ queue' = Tail(queue)
        /\ wrun'[w] = Head(queue) /\ wpc'[w] = "taken" /\ UNCHANGED <<req, runStatus, runProject>>
        /\ \A x \in Workers : x # w => wpc'[x] = wpc[x] /\ wrun'[x] = wrun[x]
    BY <1>5 DEF Take, WAt, WGoto, TypeOK, liveVars
  <2>2. /\ 1 \in DOMAIN queue /\ wrun'[w] = queue[1]
        /\ \A i \in DOMAIN queue' : i + 1 \in DOMAIN queue /\ queue'[i] = queue[i + 1]
    BY <2>1, TakeFromChannel
  <2> QED BY <2>1, <2>2
<1>6. ASSUME NEW w \in Workers, Count(w) \/ Moves(w) \/ SaveFinal(w) \/ Done(w)
      PROVE  StatusFits'
  <2>1. /\ UNCHANGED <<queue, req, runStatus, runProject>>
        /\ \A x \in Workers : x # w => wpc'[x] = wpc[x] /\ wrun'[x] = wrun[x]
    BY <1>6 DEF Count, Moves, SaveFinal, Done, WGoto, TypeOK, liveVars
  <2>2. \/ wpc'[w] = "idle"
        \/ /\ wrun'[w] = wrun[w]
           /\ \/ wpc[w] \in {"taken", "counted"} /\ wpc'[w] \in {"counted", "locked"}
              \/ wpc[w] \in {"begun", "running"} /\ wpc'[w] = "running"
              \/ wpc[w] \in {"ended", "saved", "unlocked"} /\ wpc'[w] \in {"saved", "unlocked", "reported"}
    BY <1>6 DEF Count, Moves, SaveFinal, Done, WAt, WGoto, TypeOK
  <2> QED BY <2>1, <2>2
<1>7. ASSUME NEW w \in Workers, Begin(w) \/ \E status \in {"success", "failed"} : Finish(w, status)
      PROVE  StatusFits'
  <2>1. /\ UNCHANGED <<queue, req, wrun, runProject>> /\ wpc[w] # "idle" /\ wrun[w] \in Runs
        /\ \A x \in Workers : x # w => wpc'[x] = wpc[x]
        /\ \A x \in Runs : x # wrun[w] => runStatus'[x] = runStatus[x]
    BY <1>7 DEF Begin, Finish, WAt, WGoto, TypeOK, JobsAssigned, Assigned
  <2>2. \/ wpc'[w] = "begun" /\ runStatus'[wrun[w]] = "running"
        \/ wpc'[w] = "ended" /\ runStatus'[wrun[w]] \in {"success", "failed"}
    BY <1>7, <2>1 DEF Begin, Finish, WAt, WGoto, TypeOK
  <2>3. /\ \A i \in DOMAIN queue : queue[i] # wrun[w] /\ queue[i] \in Runs
        /\ \A x \in Workers : x # w /\ wpc[x] # "idle" => wrun[x] # wrun[w] /\ wrun[x] \in Runs
        /\ \A g \in Requests : Publishing(g) => req[g].run # wrun[w] /\ req[g].run \in Runs
    BY <2>1 DEF OneHolder, EachJobOnce, Busy, JobsAssigned, HandlersKnowTheirs, Assigned
  <2> QED BY <2>1, <2>2, <2>3
<1> QED
  BY StepKinds, <1>1, <1>2, <1>3, <1>4, <1>5, <1>6, <1>7

(* A run that somebody holds is still held after a step, for the same      *)
(* project, unless its INSERT failed or the write of its outcome was tried. *)
LEMMA OwnedStep ==
  ASSUME TypeOK, HandlersKnowTheirs, JobsAssigned, Births, StatusFits, [Next]_vars,
         ~Restart, NEW r \in Runs, Owned(r)
  PROVE  \/ runProject'[r] = runProject[r] /\ Owned(r)'
         \/ row'[runProject[r]] = "none"
         \/ \E w \in Workers : SaveFinal(w) /\ r = wrun[w]
<1> DEFINE Kept == runProject'[r] = runProject[r] /\ Owned(r)'
<1>1. CASE Aside
  BY <1>1 DEF Aside, HandlersAside, Owned, Publishing, StatusFits
<1>2. ASSUME NEW h \in Requests, Enqueue(h) PROVE Kept
  <2>1. req[h].run \in Runs /\ queue \in Seq(Runs) /\ queue' = Append(queue, req[h].run)
        /\ UNCHANGED <<wpc, wrun, runProject>>
        /\ \A g \in Requests : g # h => req'[g] = req[g]
    BY <1>2 DEF Enqueue, Return, At, HandlersKnowTheirs, Assigned, TypeOK, workVars, liveVars
  <2>2. /\ Len(queue) + 1 \in DOMAIN queue' /\ queue'[Len(queue) + 1] = req[h].run
        /\ \A i \in DOMAIN queue : i \in DOMAIN queue' /\ queue'[i] = queue[i]
    BY <2>1, PutIntoChannel
  <2> QED BY <2>1, <2>2 DEF Owned
<1>3. ASSUME NEW h \in Requests, NEW x \in Runs, StoreAdd(h, x) PROVE Kept
  <2>1. /\ runStatus[x] = "unused" /\ UNCHANGED <<queue, wpc, wrun>>
        /\ req[h].pc \notin {"added", "saved"}
        /\ \A g \in Requests : g # h => req'[g] = req[g]
        /\ \A y \in Runs : y # x => runProject'[y] = runProject[y]
    BY <1>3 DEF StoreAdd, At, TypeOK, workVars
  <2>2. runStatus[r] # "unused"
    BY DEF Owned, JobsAssigned, HandlersKnowTheirs, Assigned, Statuses
  <2> QED BY <2>1, <2>2 DEF Owned
<1>4. ASSUME NEW w \in Workers, Take(w) PROVE Kept
  <2>1. /\ queue # <<>> /\ queue \in Seq(Runs) /\ queue' = Tail(queue) /\ wpc[w] = "idle"
        /\ wrun'[w] = Head(queue) /\ wpc'[w] = "taken" /\ UNCHANGED <<req, runProject>>
        /\ \A x \in Workers : x # w => wpc'[x] = wpc[x] /\ wrun'[x] = wrun[x]
    BY <1>4 DEF Take, WAt, WGoto, TypeOK, liveVars
  <2>2. /\ wrun'[w] = queue[1]
        /\ \A i \in DOMAIN queue : i # 1 => i - 1 \in DOMAIN queue'
        /\ \A i \in DOMAIN queue' : i + 1 \in DOMAIN queue /\ queue'[i] = queue[i + 1]
    BY <2>1, TakeFromChannel
  <2>3. \A i \in DOMAIN queue : i # 1 => queue'[i - 1] = queue[i]
    <3>1. \A i \in DOMAIN queue : (i - 1) + 1 = i
      BY <2>1
    <3> QED BY <2>2, <3>1
  <2>4. ASSUME NEW i \in DOMAIN queue, queue[i] = r PROVE Owned(r)'
    <3>1. CASE i = 1
      BY <2>1, <2>2, <2>4, <3>1 DEF Owned
    <3>2. CASE i # 1
      BY <2>2, <2>3, <2>4, <3>2 DEF Owned
    <3> QED BY <3>1, <3>2
  <2> QED BY <2>1, <2>4 DEF Owned
<1>5. ASSUME NEW w \in Workers, Count(w) \/ Moves(w) \/ Begin(w) \/ Done(w)
             \/ \E status \in {"success", "failed"} : Finish(w, status)
      PROVE  Kept
  <2>1. /\ UNCHANGED <<queue, req, runProject>>
        /\ \A x \in Workers : x # w => wpc'[x] = wpc[x] /\ wrun'[x] = wrun[x]
    BY <1>5 DEF Count, Moves, Begin, Done, Finish, WGoto, TypeOK, liveVars
  <2>2. \/ wpc[w] \in {"saved", "unlocked", "reported"}
        \/ /\ wrun'[w] = wrun[w]
           /\ wpc'[w] \in {"counted", "locked", "begun", "running", "ended"}
    BY <1>5 DEF Count, Moves, Begin, Done, Finish, WAt, WGoto, TypeOK
  <2> QED BY <2>1, <2>2 DEF Owned
<1>6. ASSUME NEW w \in Workers, SaveFinal(w), r # wrun[w] PROVE Kept
  <2>1. /\ UNCHANGED <<queue, req, runProject, wrun>>
        /\ \A x \in Workers : x # w => wpc'[x] = wpc[x]
    BY <1>6 DEF SaveFinal, WGoto, TypeOK, liveVars
  <2> QED BY <1>6, <2>1 DEF Owned
<1> QED
  BY StepKinds, <1>1, <1>2, <1>3, <1>4, <1>5, <1>6

LEMMA UnfinishedStep ==
  ASSUME TypeOK, HandlersKnowTheirs, JobsAssigned, Births, StatusFits, UnfinishedOwned,
         [Next]_vars
  PROVE  UnfinishedOwned'
<1> SUFFICES ASSUME NEW p \in Projects, NEW r \in Runs, row'[p] # "none", runProject'[r] = p,
                    Unfinished(r)'
             PROVE  Owned(r)'
  BY DEF UnfinishedOwned
<1>1. ~Restart
  BY DEF Restart, Unfinished
<1>2. CASE \E h \in Requests : StoreAdd(h, r)
  BY <1>2 DEF StoreAdd, TypeOK, RequestState, Owned
<1>3. CASE ~\E h \in Requests : StoreAdd(h, r)
  <2>1. runProject[r] = p
    <3>1. UNCHANGED runProject \/ \E h \in Requests, x \in Runs : StoreAdd(h, x)
      BY CallKinds, HandlerKinds, OthersKinds DEF Next, Starts, Comes, GoesOn
    <3>2. ASSUME NEW h \in Requests, NEW x \in Runs, StoreAdd(h, x), x # r
          PROVE  runProject'[r] = runProject[r]
      BY <3>2 DEF StoreAdd
    <3> QED BY <1>3, <3>1, <3>2
  <2>2. CASE Owned(r)
    <3>1. ASSUME NEW w \in Workers, SaveFinal(w), r = wrun[w] PROVE FALSE
      BY <3>1 DEF SaveFinal, WAt, StatusFits, Unfinished, liveVars
    <3> QED BY <1>1, <2>1, <2>2, <3>1, OwnedStep
  <2>3. CASE ~Owned(r) /\ row[p] = "none"
    <3>1. PICK h \in Requests : Fresh(h) /\ req[h].pc = "added" /\ req[h].project = p
      BY <2>3, RowAppears
    <3>2. r = req[h].run
      BY <2>1, <3>1 DEF Births, Newborn
    <3> QED BY <2>3, <3>1, <3>2 DEF Owned
  <2>4. CASE ~Owned(r) /\ ~Unfinished(r)
    <3>1. ASSUME NEW h \in Requests, NEW x \in Runs, StoreAdd(h, x) PROVE FALSE
      BY <1>3, <2>4, <3>1 DEF StoreAdd, TypeOK, Unfinished
    <3>2. ASSUME NEW w \in Workers, Begin(w) PROVE FALSE
      <4>1. r = wrun[w]
        BY <2>4, <3>2 DEF Begin, TypeOK, Unfinished
      <4> QED BY <2>4, <3>2, <4>1 DEF Begin, WAt, Owned
    <3>3. ASSUME NEW w \in Workers, NEW status \in {"success", "failed"}, Finish(w, status)
          PROVE  FALSE
      BY <2>4, <3>3 DEF Finish, TypeOK, Unfinished
    <3>4. ASSUME UNCHANGED runStatus PROVE FALSE
      BY <2>4, <3>4 DEF Unfinished
    <3> QED
      BY <1>1, <3>1, <3>2, <3>3, <3>4, StepKinds
      DEF Aside, Enqueue, Take, Count, Moves, SaveFinal, Done, liveVars
  <2> QED BY <2>1, <2>2, <2>3, <2>4 DEF UnfinishedOwned
<1> QED BY <1>2, <1>3

LEMMA RowsStep ==
  ASSUME TypeOK, HandlersKnowTheirs, JobsAssigned, Births, OneHolder, StatusFits, RowsOwned,
         [Next]_vars
  PROVE  RowsOwned'
<1> SUFFICES ASSUME NEW p \in Projects, p \notin stale', row'[p] \in {"queued", "running"}
             PROVE  \E r \in Runs : runProject'[r] = p /\ Owned(r)'
  BY DEF RowsOwned
<1>1. ~Restart
  BY DEF Restart, MarkOrphans, TypeOK
<1>2. ASSUME NEW w \in Workers, SaveFinal(w) PROVE ProjectAt(w) # p
  <2>1. wpc[w] = "ended" /\ ProjectAt(w) \in Projects /\ runStatus[wrun[w]] \in {"success", "failed"}
    BY <1>2 DEF SaveFinal, WAt, StatusFits, JobsAssigned, Assigned, ProjectAt
  <2>2. ASSUME ProjectAt(w) = p PROVE row'[p] \in {"none", "success", "failed"}
    BY <1>2, <2>1, <2>2 DEF SaveFinal, SaveOutcome, Updated, TypeOK
  <2> QED BY <2>2
<1>3. CASE row'[p] = row[p] /\ p \notin stale
  <2>1. PICK r \in Runs : runProject[r] = p /\ Owned(r)
    BY <1>3 DEF RowsOwned
  <2> QED BY <1>1, <1>2, <2>1, OwnedStep DEF ProjectAt
<1>4. CASE row'[p] # row[p] \/ p \in stale
  <2>1. CASE Aside
    <3>1. PICK h \in Requests : Publishing(h)' /\ req'[h].project = p
      BY <1>4, <2>1 DEF Aside
    <3>2. /\ Publishing(h) /\ req'[h].run = req[h].run /\ req'[h].project = req[h].project
          /\ runProject' = runProject
      BY <2>1, <3>1 DEF Aside, HandlersAside
    <3>3. req[h].run \in Runs /\ runProject[req[h].run] = p
      BY <3>1, <3>2 DEF HandlersKnowTheirs, Assigned, StatusFits, Publishing
    <3> QED BY <3>1, <3>2, <3>3 DEF Publishing, Owned
  <2>2. ASSUME NEW w \in Workers, Moves(w) PROVE \E r \in Runs : runProject'[r] = p /\ Owned(r)'
    <3>1. p = runProject[wrun[w]] /\ wpc[w] \in {"begun", "running"} /\ wrun[w] \in Runs
      BY <1>4, <2>2 DEF Moves, JobsAssigned, Assigned
    <3> QED BY <2>2, <3>1 DEF Moves, Owned
  <2>3. ASSUME NEW w \in Workers, SaveFinal(w) PROVE FALSE
    BY <1>2, <1>4, <2>3 DEF SaveFinal, SaveOutcome, Updated, TypeOK
  <2> QED
    BY <1>1, <1>4, <2>1, <2>2, <2>3, StepKinds
    DEF Enqueue, StoreAdd, Take, Count, Begin, Finish, Done, dbVars, histVars
<1> QED BY <1>3, <1>4

LEMMA StoreAddEffect ==
  ASSUME TypeOK, HandlersKnowTheirs, NEW h \in Requests, NEW r \in Runs, StoreAdd(h, r)
  PROVE  /\ req[h].project \in Projects /\ store'[req[h].project] = r
         /\ runStatus[r] = "unused" /\ runStatus'[r] = "queued" /\ runProject'[r] = req[h].project
         /\ \A x \in Runs : x # r => runStatus'[x] = runStatus[x] /\ runProject'[x] = runProject[x]
         /\ \A p \in Projects : p # req[h].project => store'[p] = store[p]
         /\ UNCHANGED <<row, wpc, wrun, stale, raced>>
         /\ Publishing(h)' /\ req'[h].run = r /\ req'[h].project = req[h].project
         /\ \A g \in Requests : g # h => req'[g] = req[g]
BY DEF StoreAdd, At, HandlersKnowTheirs, TypeOK, RequestState, Publishing, dbVars, workVars, histVars

(* What the other steps of handlers leave alone.                           *)
LEMMA HandlerLeaves ==
  ASSUME NEW h \in Requests, Call(h) \/ Handler(h)
  PROVE  /\ UNCHANGED <<wpc, wrun>>
         /\ UNCHANGED <<runStatus, runProject>> \/ \E r \in Runs : StoreAdd(h, r)
<1> USE DEF liveVars, workVars
<1>1. CASE Call(h)
  BY <1>1 DEF Call, StartCheck, Load, EditLoad, DeleteLoad
<1>2. CASE Handler(h)
  BY <1>2 DEF Handler, DeleteFailedTarget, StoreRemoveFailed, Create, BusyCheck, SaveQueued,
              Enqueue, EditSave, DeleteRow, StoreRemove, StoreAdd
<1> QED BY <1>1, <1>2

LEMMA StoreStep ==
  ASSUME TypeOK, HandlersKnowTheirs, StoreKnown, [Next]_vars
  PROVE  StoreKnown'
<1> USE DEF TypeOK
<1>1. ASSUME NEW h \in Requests, NEW r \in Runs, StoreAdd(h, r) PROVE StoreKnown'
  BY <1>1, StoreAddEffect, ConstantsOK DEF StoreKnown
<1>2. ASSUME NEW w \in Workers, Begin(w) \/ \E status \in {"success", "failed"} : Finish(w, status)
      PROVE  StoreKnown'
  <2>1. /\ UNCHANGED <<store, runProject>>
        /\ \A r \in Runs : runStatus'[r] = runStatus[r] \/ runStatus'[r] # "unused"
    BY <1>2 DEF Begin, Finish
  <2> QED BY <2>1 DEF StoreKnown
<1>3. CASE Restart
  BY <1>3 DEF Restart, StoreKnown
<1>4. ASSUME UNCHANGED <<runStatus, runProject>>,
             \A p \in Projects : store'[p] = store[p] \/ store'[p] = None
      PROVE  StoreKnown'
  BY <1>4 DEF StoreKnown
<1>5. ASSUME NEW h \in Requests, Call(h) \/ Handler(h), ~\E r \in Runs : StoreAdd(h, r)
      PROVE  StoreKnown'
  <2>1. \A p \in Projects : store'[p] = store[p] \/ store'[p] = None
    BY <1>5
    DEF Call, StartCheck, Load, EditLoad, DeleteLoad, Handler, DeleteFailedTarget,
        StoreRemoveFailed, Create, BusyCheck, SaveQueued, Enqueue, EditSave, DeleteRow,
        StoreRemove, liveVars
  <2> QED BY <1>4, <1>5, <2>1, HandlerLeaves
<1>6. ASSUME NEW w \in Workers, Worker(w) PROVE StoreKnown'
  BY <1>2, <1>4, <1>6
  DEF Worker, Take, Count, LockServer, Persist, SaveFinal, Unlock, Report, Done, liveVars
<1>7. CASE UNCHANGED vars \/ (Process /\ ~Restart)
  BY <1>4, <1>7 DEF vars, Process, ShutdownBegin, ShutdownDrained, ShutdownTimeout, SetMaintenance,
                    WatchMaintenance, liveVars
<1> QED
  BY <1>1, <1>3, <1>5, <1>6, <1>7 DEF Next

LEMMA InitOwnership == Init => Ownership
BY DEF Init, Ownership, OneHolder, EachJobOnce, StatusFits, UnfinishedOwned, RowsOwned, StoreKnown,
       Publishing, Busy, Unfinished, Idle

(* Everything that holds whatever the handlers, faults and crashes do.     *)
Known == Inductive /\ Births /\ Ownership

LEMMA KnownInvariant == Spec => []Known
<1>1. Init => Known
  BY InitInductive, InitBirths, InitOwnership DEF Known
<1>2. Known /\ [Next]_vars => Known'
  BY TypeStep, HandlersStep, JobsStep, LockStep, BirthsStep, HolderStep, StatusStep, UnfinishedStep,
     RowsStep, StoreStep DEF Known, Inductive, Ownership
<1> QED
  BY <1>1, <1>2, PTL DEF Spec

(* No job is executed twice: the channel (services.go:407), the workers    *)
(* (services.go:468) and the publishing handlers never share a run.        *)
THEOREM NoJobTwice == Spec => []EachJobOnce
<1>1. Known => EachJobOnce
  BY DEF Known, Ownership, OneHolder
<1> QED
  BY <1>1, KnownInvariant, PTL

(* A project with a row that isBusy (services.go:770) refuses has a run    *)
(* that somebody is still to settle, whatever statements fail.             *)
THEOREM BusyIsOwned == Spec => []BusyMeansOwned
<1>1. Known => BusyMeansOwned
  BY ConstantsOK DEF Known, Inductive, TypeOK, Ownership, UnfinishedOwned, StoreKnown, BusyMeansOwned,
                     isBusy
<1> QED
  BY <1>1, KnownInvariant, PTL

(* No row is left queued or running with nobody to settle it: crashes are  *)
(* repaired by MarkOrphans (services.go:278), everything else by the run,  *)
(* unless one of the writes that stale remembers went wrong.               *)
THEOREM RowsAreSettled == Spec => []NoStuckRow
<1>1. Known => NoStuckRow
  BY DEF Known, Ownership, RowsOwned, NoStuckRow
<1> QED
  BY <1>1, KnownInvariant, PTL

-----------------------------------------------------------------------------
(***************************************************************************)
(* The wait group.                                                         *)
(***************************************************************************)
Counted == {w \in Workers : wpc[w] \notin {"idle", "taken"}}

LEMMA CountedFinite == IsFiniteSet(Counted)
  BY ConstantsOK, FS_Subset DEF Counted

LEMMA CountStep ==
  ASSUME TypeOK, HandlersKnowTheirs, Births, WaitGroupCounts, [Next]_vars
  PROVE  WaitGroupCounts'
<1>0. wg = Cardinality(Counted) /\ (WaitGroupCounts' <=> wg' = Cardinality(Counted'))
  BY DEF WaitGroupCounts, Counted
<1>1. ASSUME wg' = wg, Counted' = Counted PROVE WaitGroupCounts'
  BY <1>0, <1>1
<1>2. CASE Aside
  BY <1>1, <1>2 DEF Aside, Counted
<1>3. CASE Restart
  <2>1. wg' = 0 /\ Counted' = {}
    BY <1>3 DEF Restart, Counted
  <2> QED BY <1>0, <2>1, FS_EmptySet
<1>4. ASSUME NEW h \in Requests, Enqueue(h) \/ \E r \in Runs : StoreAdd(h, r) PROVE WaitGroupCounts'
  BY <1>1, <1>4 DEF Enqueue, StoreAdd, workVars, Counted
<1>5. ASSUME NEW w \in Workers, Count(w) PROVE WaitGroupCounts'
  <2>1. wg' = wg + 1 /\ w \notin Counted /\ Counted' = Counted \cup {w}
    BY <1>5 DEF Count, WAt, WGoto, Counted, TypeOK
  <2>2. Cardinality(Counted \cup {w}) = Cardinality(Counted) + 1
    BY <2>1, CountedFinite, FS_AddElement
  <2> QED BY <1>0, <2>1, <2>2
<1>6. ASSUME NEW w \in Workers, Done(w) PROVE WaitGroupCounts'
  <2>1. wg' = wg - 1 /\ w \in Counted /\ Counted' = Counted \ {w}
    BY <1>6 DEF Done, WAt, WGoto, Counted, TypeOK
  <2>2. Cardinality(Counted \ {w}) = Cardinality(Counted) - 1
    BY <2>1, CountedFinite, FS_RemoveElement
  <2> QED BY <1>0, <2>1, <2>2
<1>7. ASSUME NEW w \in Workers, Take(w) \/ Moves(w) \/ Begin(w) \/ SaveFinal(w)
             \/ \E status \in {"success", "failed"} : Finish(w, status)
      PROVE  WaitGroupCounts'
  <2>1. wg' = wg /\ Counted' = Counted
    BY <1>7 DEF Take, Moves, Begin, SaveFinal, Finish, WAt, WGoto, Counted, TypeOK
  <2> QED BY <1>1, <2>1
<1> QED
  BY StepKinds, <1>2, <1>3, <1>4, <1>5, <1>6, <1>7

(* jobsWG is the number of workers between Add (services.go:469) and Done  *)
(* (services.go:506), for any size of the pool, across restarts.           *)
THEOREM WaitGroupIsRight == Spec => []WaitGroupCounts
<1>1. Init => WaitGroupCounts
  <2>1. Init => wg = 0 /\ Counted = {}
    BY DEF Init, Counted
  <2> QED BY <2>1, FS_EmptySet DEF WaitGroupCounts, Counted
<1>2. Known /\ WaitGroupCounts /\ [Next]_vars => WaitGroupCounts'
  BY CountStep DEF Known, Inductive, Ownership
<1> QED
  BY <1>1, <1>2, KnownInvariant, PTL DEF Spec

-----------------------------------------------------------------------------
(***************************************************************************)
(* The job server.  Besides what is known of the holders of runs, it takes *)
(* the other half of LockHeld: a mutex that is locked is so by a worker    *)
(* which is between lockServer and unlock (LockKnown), so that a server    *)
(* whose mutex is free is free for the job server too.                     *)
(***************************************************************************)
LockKnown ==
  \A s \in Servers :
    lock[s] # None => lock[s] \in Workers /\ HoldsServer(lock[s]) /\ ServerAt(lock[s]) = s

(* What the job server sees does not change: no status, no project and no  *)
(* mutex, and no run of a worker that has a server.                        *)
Unseen ==
  /\ UNCHANGED <<runStatus, runProject, lock>>
  /\ \A w \in Workers : HoldsServer(w) => wrun'[w] = wrun[w] /\ HoldsServer(w)'

LEMMA UnseenByHandlers ==
  ASSUME TypeOK, [Next]_vars, ~Restart,
         ~\E h \in Requests, r \in Runs : StoreAdd(h, r),
         ~\E w \in Workers : Worker(w)
  PROVE  Unseen
<1>1. UNCHANGED <<runStatus, runProject, lock, wrun, wpc>>
  <2> USE DEF liveVars, workVars
  <2>1. ASSUME NEW h \in Requests, Call(h) PROVE UNCHANGED <<runStatus, runProject, lock, wrun, wpc>>
    BY <2>1 DEF Call, StartCheck, DeleteLoad, Load, EditLoad
  <2>2. ASSUME NEW h \in Requests, Handler(h) PROVE UNCHANGED <<runStatus, runProject, lock, wrun, wpc>>
    BY <2>2 DEF Handler, DeleteFailedTarget, StoreRemoveFailed, Create, BusyCheck, SaveQueued,
                Enqueue, EditSave, DeleteRow, StoreRemove
  <2>3. CASE Process
    BY <2>3 DEF Process, ShutdownBegin, ShutdownDrained, ShutdownTimeout, SetMaintenance,
                WatchMaintenance
  <2>4. CASE UNCHANGED vars
    BY <2>4 DEF vars
  <2> QED BY <2>1, <2>2, <2>3, <2>4 DEF Next
<1> QED
  BY <1>1 DEF Unseen, HoldsServer, ProjectAt

LEMMA UnseenByWorkers ==
  ASSUME TypeOK, JobsAssigned, NEW w \in Workers,
         Take(w) \/ Count(w) \/ Persist(w) \/ SaveFinal(w) \/ Report(w) \/ Done(w)
  PROVE  Unseen
<1>1. UNCHANGED <<runStatus, runProject, lock>>
      /\ \A x \in Workers : x # w => wpc'[x] = wpc[x] /\ wrun'[x] = wrun[x]
  BY DEF Take, Count, Persist, SaveFinal, Report, Done, WGoto, TypeOK, liveVars
<1>2. HoldsServer(w) => wrun'[w] = wrun[w] /\ HoldsServer(w)'
  BY <1>1 DEF Take, Count, Persist, SaveFinal, Report, Done, WAt, WGoto, TypeOK, HoldsServer, ProjectAt
<1> QED
  BY <1>1, <1>2 DEF Unseen, HoldsServer, ProjectAt

LEMMA LockKnownStep ==
  ASSUME Inductive, Ownership, LockKnown, [Next]_vars
  PROVE  LockKnown'
<1> USE DEF Inductive, HoldsServer, ServerAt, ProjectAt
<1>1. CASE Unseen
  BY <1>1, ConstantsOK DEF Unseen, LockKnown
<1>2. CASE Restart
  BY <1>2 DEF Restart, LockKnown
<1>3. ASSUME NEW h \in Requests, NEW r \in Runs, StoreAdd(h, r) PROVE LockKnown'
  <2>1. /\ UNCHANGED <<wpc, wrun, lock>> /\ runStatus[r] = "unused"
        /\ \A x \in Runs : x # r => runProject'[x] = runProject[x]
    BY <1>3 DEF StoreAdd, TypeOK, workVars
  <2>2. \A w \in Workers : wpc[w] # "idle" => wrun[w] # r /\ wrun[w] \in Runs
    BY <2>1 DEF JobsAssigned, Assigned, Statuses
  <2> QED BY <2>1, <2>2 DEF LockKnown
<1>4. ASSUME NEW w \in Workers,
             Begin(w) \/ (\E status \in {"success", "failed"} : Finish(w, status))
      PROVE  LockKnown'
  <2>1. /\ UNCHANGED <<runProject, lock, wrun>>
        /\ \A x \in Workers : x # w => wpc'[x] = wpc[x]
        /\ wpc[w] \in {"locked", "running"} /\ wpc'[w] \in {"begun", "ended"}
    BY <1>4 DEF Begin, Finish, WAt, WGoto, TypeOK
  <2> QED BY <2>1 DEF LockKnown
<1>5. ASSUME NEW w \in Workers, LockServer(w) PROVE LockKnown'
  <2>1. /\ UNCHANGED <<runProject, wrun>> /\ wrun[w] \in Runs /\ runProject[wrun[w]] \in Projects
        /\ \A x \in Workers : x # w => wpc'[x] = wpc[x]
        /\ wpc[w] = "counted" /\ wpc'[w] = "locked"
    BY <1>5 DEF LockServer, WAt, WGoto, TypeOK, liveVars, JobsAssigned, Assigned
  <2>2. CASE IsWorker(ProjectAt(w))
    BY <1>5, <2>1, <2>2 DEF LockServer, LockKnown
  <2>3. CASE ~IsWorker(ProjectAt(w)) /\ lock' = [lock EXCEPT ![ServerAt(w)] = w]
    BY <2>1, <2>3 DEF LockKnown, TypeOK
  <2> QED BY <1>5, <2>2, <2>3 DEF LockServer
<1>6. ASSUME NEW w \in Workers, Unlock(w) PROVE LockKnown'
  <2>1. /\ UNCHANGED <<runProject, wrun>>
        /\ \A x \in Workers : x # w => wpc'[x] = wpc[x]
        /\ wpc[w] = "saved"
    BY <1>6 DEF Unlock, WAt, WGoto, TypeOK, liveVars
  <2>2. CASE IsWorker(ProjectAt(w))
    BY <1>6, <2>1, <2>2 DEF Unlock, LockKnown
  <2>3. CASE ~IsWorker(ProjectAt(w)) /\ lock' = [lock EXCEPT ![ServerAt(w)] = None]
    BY <2>1, <2>3 DEF LockKnown, TypeOK
  <2> QED BY <1>6, <2>2, <2>3 DEF Unlock
<1> QED
  BY <1>1, <1>2, <1>3, <1>4, <1>5, <1>6, UnseenByHandlers, UnseenByWorkers DEF Next, Worker

(* A step that the job server does not see is a stutter of it.             *)
LEMMA UnseenIsStutter ==
  ASSUME TypeOK, LockKnown, Unseen
  PROVE  UNCHANGED Jobs!vars
<1>1. [r \in Runs |-> Needs(r)]' = [r \in Runs |-> Needs(r)]
  BY DEF Unseen, Needs
<1>2. \A s \in Servers : Holder(s)' = Holder(s)
  BY DEF Unseen, Holder, LockKnown
<1> QED
  BY <1>1, <1>2 DEF Jobs!vars, Unseen

(* What a worker's run is to the job server.                               *)
LEMMA RunSeen ==
  ASSUME Inductive, NEW w \in Workers, wpc[w] # "idle"
  PROVE  /\ wrun[w] \in Runs /\ ProjectAt(w) \in Projects /\ ServerAt(w) \in Servers
         /\ Needs(wrun[w]) = IF IsWorker(ProjectAt(w)) THEN None ELSE ServerAt(w)
         /\ HoldsServer(w) => Holder(ServerAt(w)) = wrun[w]
BY ConstantsOK DEF Inductive, JobsAssigned, Assigned, Needs, Holder, LockHeld, ProjectAt, ServerAt

LEMMA LockServerOccupies ==
  ASSUME Inductive, Ownership, LockKnown, NEW w \in Workers, LockServer(w)
  PROVE  [Jobs!Next]_Jobs!vars
<1> DEFINE r == wrun[w]  s == ServerAt(w)
<1>1. wpc[w] = "counted" /\ UNCHANGED <<runStatus, runProject, wrun>> /\ runStatus[r] = "queued"
      /\ \A x \in Workers : x # w => wpc'[x] = wpc[x]
  BY DEF LockServer, WAt, WGoto, Inductive, TypeOK, liveVars, Ownership, StatusFits
<1>2. /\ r \in Runs /\ ProjectAt(w) \in Projects /\ s \in Servers
      /\ Needs(r) = IF IsWorker(ProjectAt(w)) THEN None ELSE s
  BY <1>1, RunSeen
<1>3. [x \in Runs |-> Needs(x)]' = [x \in Runs |-> Needs(x)]
  BY <1>1 DEF Needs
<1>4. CASE IsWorker(ProjectAt(w))
  <2>1. lock' = lock
    BY <1>4 DEF LockServer
  <2>2. \A x \in Servers : Holder(x)' = Holder(x)
    BY <1>1, <2>1 DEF Holder
  <2> QED BY <1>1, <1>3, <2>2 DEF Jobs!vars
<1>5. CASE ~IsWorker(ProjectAt(w))
  <2>1. lock[s] = None /\ lock' = [lock EXCEPT ![s] = w]
    BY <1>5 DEF LockServer
  <2>2. \A x \in Servers : Holder(x)' = IF x = s THEN r ELSE Holder(x)
    BY <1>1, <1>2, <2>1, ConstantsOK DEF Holder, Inductive, TypeOK
  <2>3. [x \in Servers |-> Holder(x)]' = [[x \in Servers |-> Holder(x)] EXCEPT ![s] = r]
    BY <1>2, <2>2
  <2>4. Needs(r) = s /\ Holder(s) = None /\ s # None
    BY <1>2, <1>5, <2>1, ConstantsOK DEF Holder
  <2>5. Jobs!Occupy(r)
    BY <1>1, <1>2, <1>3, <2>3, <2>4 DEF Jobs!Occupy, Jobs!Free
  <2> QED BY <1>2, <2>5 DEF Jobs!Next
<1> QED BY <1>4, <1>5

LEMMA UnlockReleases ==
  ASSUME Inductive, Ownership, LockKnown, NEW w \in Workers, Unlock(w)
  PROVE  [Jobs!Next]_Jobs!vars
<1> DEFINE r == wrun[w]  s == ServerAt(w)
<1>1. /\ wpc[w] = "saved" /\ UNCHANGED <<runStatus, runProject, wrun>>
      /\ runStatus[r] \in {"success", "failed"}
  BY DEF Unlock, WAt, WGoto, Inductive, TypeOK, liveVars, Ownership, StatusFits
<1>2. /\ r \in Runs /\ ProjectAt(w) \in Projects /\ s \in Servers
      /\ Needs(r) = IF IsWorker(ProjectAt(w)) THEN None ELSE s
      /\ HoldsServer(w) => Holder(s) = r
  BY <1>1, RunSeen
<1>3. [x \in Runs |-> Needs(x)]' = [x \in Runs |-> Needs(x)]
  BY <1>1 DEF Needs
<1>4. CASE IsWorker(ProjectAt(w))
  <2>1. lock' = lock
    BY <1>4 DEF Unlock
  <2>2. \A x \in Servers : Holder(x)' = Holder(x)
    BY <1>1, <2>1 DEF Holder
  <2> QED BY <1>1, <1>3, <2>2 DEF Jobs!vars
<1>5. CASE ~IsWorker(ProjectAt(w))
  <2>1. HoldsServer(w) /\ lock' = [lock EXCEPT ![s] = None]
    BY <1>1, <1>5 DEF Unlock, HoldsServer
  <2>2. \A x \in Servers : Holder(x)' = IF x = s THEN None ELSE Holder(x)
    BY <1>1, <1>2, <2>1 DEF Holder, Inductive, TypeOK
  <2>3. [x \in Servers |-> Holder(x)]' = [[x \in Servers |-> Holder(x)] EXCEPT ![s] = None]
    BY <1>2, <2>2
  <2>4. Needs(r) = s /\ Holder(s) = r /\ s # None
    BY <1>2, <1>5, <2>1, ConstantsOK
  <2>5. Jobs!Release(r)
    BY <1>1, <1>2, <1>3, <2>3, <2>4 DEF Jobs!Release, Jobs!Outcomes
  <2> QED BY <1>2, <2>5 DEF Jobs!Next
<1> QED BY <1>4, <1>5

LEMMA WorkStartsAndEnds ==
  ASSUME Inductive, Ownership, LockKnown, NEW w \in Workers,
         Begin(w) \/ \E status \in {"success", "failed"} : Finish(w, status)
  PROVE  Jobs!Next
<1> DEFINE r == wrun[w]
<1>1. wpc[w] \in {"locked", "running"} /\ UNCHANGED <<runProject, wrun, lock>>
  BY DEF Begin, Finish, WAt
<1>2. r \in Runs /\ (Needs(r) # None => Needs(r) \in Servers /\ Holder(Needs(r)) = r)
  BY <1>1, RunSeen DEF HoldsServer
<1>3. [x \in Runs |-> Needs(x)]' = [x \in Runs |-> Needs(x)]
      /\ [x \in Servers |-> Holder(x)]' = [x \in Servers |-> Holder(x)]
  BY <1>1 DEF Needs, Holder
<1>4. CASE Begin(w)
  <2>1. runStatus[r] = "queued" /\ runStatus' = [runStatus EXCEPT ![r] = "running"]
    BY <1>4 DEF Begin, WAt, Ownership, StatusFits
  <2>2. Jobs!Start(r)
    BY <1>2, <1>3, <2>1 DEF Jobs!Start
  <2> QED BY <1>2, <2>2 DEF Jobs!Next
<1>5. ASSUME NEW status \in {"success", "failed"}, Finish(w, status) PROVE Jobs!Next
  <2>1. runStatus[r] = "running" /\ runStatus' = [runStatus EXCEPT ![r] = status]
    BY <1>5 DEF Finish, WAt, Ownership, StatusFits
  <2>2. Jobs!End(r, status)
    BY <1>2, <1>3, <2>1 DEF Jobs!End
  <2> QED BY <1>2, <2>2 DEF Jobs!Next, Jobs!Outcomes
<1> QED BY <1>4, <1>5

LEMMA StoreAddSubmits ==
  ASSUME Inductive, Ownership, LockKnown, NEW h \in Requests, NEW r \in Runs, StoreAdd(h, r)
  PROVE  Jobs!Next
<1> DEFINE p == req[h].project
           s == IF IsWorker(p) THEN None ELSE ServerOf[p]
<1>1. /\ runStatus[r] = "unused" /\ runStatus' = [runStatus EXCEPT ![r] = "queued"]
      /\ runProject' = [runProject EXCEPT ![r] = p] /\ UNCHANGED <<lock, wrun>>
  BY DEF StoreAdd, workVars
<1>2. p \in Projects /\ p # None /\ s \in Servers \cup {None}
  BY ConstantsOK DEF StoreAdd, At, Inductive, HandlersKnowTheirs
<1>3. [x \in Runs |-> Needs(x)]' = [[x \in Runs |-> Needs(x)] EXCEPT ![r] = s]
  BY <1>1, <1>2 DEF Needs, Inductive, TypeOK
<1>4. [x \in Servers |-> Holder(x)]' = [x \in Servers |-> Holder(x)]
  BY <1>1 DEF Holder
<1>5. Jobs!Submit(r, s)
  BY <1>1, <1>3, <1>4 DEF Jobs!Submit
<1> QED
  BY <1>2, <1>5 DEF Jobs!Next

LEMMA RestartDies ==
  ASSUME Restart
  PROVE  Jobs!Next
<1>1. [x \in Runs |-> Needs(x)]' = [x \in Runs |-> Needs(x)]
  BY DEF Restart, Needs
<1>2. [x \in Servers |-> Holder(x)]' = [x \in Servers |-> None]
  BY DEF Restart, Holder
<1>3. Jobs!Die
  BY <1>1, <1>2 DEF Restart, Unfinished, Jobs!Die
<1> QED
  BY <1>3 DEF Jobs!Next

LEMMA InitJobs == Init => LockKnown /\ Jobs!Init
  BY DEF Init, LockKnown, Jobs!Init, Needs, Holder

LEMMA NextJobs ==
  ASSUME Inductive, Ownership, LockKnown, [Next]_vars
  PROVE  [Jobs!Next]_Jobs!vars
<1>1. CASE Unseen
  BY <1>1, UnseenIsStutter DEF Inductive
<1>2. ASSUME NEW w \in Workers, Worker(w) PROVE Unseen \/ [Jobs!Next]_Jobs!vars
  BY <1>2, UnseenByWorkers, LockServerOccupies, UnlockReleases, WorkStartsAndEnds
  DEF Worker, Inductive
<1> QED
  BY <1>1, <1>2, StoreAddSubmits, RestartDies, UnseenByHandlers DEF Inductive

(* The channel, the workers, serverLocks (services.go:180) and the live    *)
(* objects, with any number of handlers, failing statements, stops and     *)
(* restarts, are a job server: each run works at most once, with its       *)
(* server to itself, and has one outcome.                                  *)
THEOREM IsJobServer == Spec => JobSpec
<1>1. Known /\ LockKnown /\ [Next]_vars => LockKnown' /\ [Jobs!Next]_Jobs!vars
  BY LockKnownStep, NextJobs DEF Known
<1> QED
  BY InitJobs, <1>1, KnownInvariant, PTL DEF Spec, JobSpec, Jobs!Spec

-----------------------------------------------------------------------------
(***************************************************************************)
(* Races for a project.  isBusy looks at the run in the store: unless two  *)
(* requests were past it before either had put its run there, or a removal *)
(* took the entry of a run that was not over, a project has one unfinished *)
(* run at most, and the store names it (Latest), because a handler between *)
(* isBusy and store.Add is alone there (OneFree) and what it has seen is   *)
(* still so (NotBusy).                                                     *)
(***************************************************************************)
Latest ==
  \A p \in Projects \ raced, r \in Runs :
    runProject[r] = p /\ Unfinished(r) => store[p] = r

Entering(h) == req[h].pc = "free" /\ req[h].op \in JobOps

OneFree ==
  \A g, h \in Requests :
    g # h /\ Entering(g) /\ Entering(h) /\ req[g].project = req[h].project =>
      req[h].project \in raced

NotBusy(h) == Entering(h) /\ req[h].project \notin raced => ~isBusy(req[h].project)

Races == Latest /\ OneFree /\ \A h \in Requests : NotBusy(h)

(* Only BusyCheck brings a handler between isBusy and store.Add.           *)
LEMMA FreeByBusyCheck ==
  ASSUME TypeOK, NEW h \in Requests, Call(h) \/ Handler(h)
  PROVE  /\ req'[h].pc = "free" => BusyCheck(h)
         /\ \A g \in Requests : g # h => req'[g] = req[g]
<1> USE DEF TypeOK
<1>1. CASE Call(h)
  BY <1>1, CallKinds DEF Starts, Comes
<1>2. ASSUME NEW r \in Runs, StoreAdd(h, r)
      PROVE  req'[h].pc = "added" /\ \A g \in Requests : g # h => req'[g] = req[g]
  BY <1>2 DEF StoreAdd, RequestState
<1>3. CASE Handler(h) /\ ~\E r \in Runs : StoreAdd(h, r)
  <2>1. \A g \in Requests : g # h => req'[g] = req[g]
    BY <1>3 DEF Handler, DeleteFailedTarget, StoreRemoveFailed, Create, BusyCheck, SaveQueued, Enqueue,
                EditSave, DeleteRow, StoreRemove, Goto, Return
  <2>2. CASE DeleteFailedTarget(h) \/ StoreRemoveFailed(h)
    <3>1. req'[h].pc \in {"purged", "ready"}
      BY <2>2 DEF DeleteFailedTarget, StoreRemoveFailed, RequestState
    <3> QED BY <2>1, <3>1
  <2>3. CASE Create(h) \/ SaveQueued(h) \/ DeleteRow(h)
    <3>1. Goto(h, "saved") \/ Goto(h, "gone") \/ Return(h)
      BY <2>3 DEF Create, SaveQueued, DeleteRow
    <3>2. req'[h].pc \in {"saved", "gone", "idle"}
      BY <3>1 DEF Goto, Return, Idle, RequestState
    <3> QED BY <2>1, <3>2
  <2>4. CASE Enqueue(h) \/ EditSave(h) \/ StoreRemove(h)
    <3>1. Return(h)
      BY <2>4 DEF Enqueue, EditSave, StoreRemove
    <3>2. req'[h].pc = "idle"
      BY <3>1 DEF Return, Idle
    <3> QED BY <2>1, <3>2
  <2> QED BY <1>3, <2>1, <2>2, <2>3, <2>4 DEF Handler
<1> QED BY <1>1, <1>2, <1>3

(* What steps other than store.Add and a restart do to the runs of a       *)
(* project and to its store entry: one that is removed is of a run that is *)
(* over, or the project has raced.                                         *)
LEMMA Quiet ==
  ASSUME Known, [Next]_vars, ~Restart, ~\E h \in Requests, r \in Runs : StoreAdd(h, r)
  PROVE  /\ UNCHANGED runProject /\ raced \subseteq raced'
         /\ \A r \in Runs : Unfinished(r)' => Unfinished(r)
         /\ \A p \in Projects \ raced' :
              store'[p] = store[p] \/ (store'[p] = None /\ ~isBusy(p))
<1> USE DEF Known, Inductive, TypeOK, dbVars, liveVars, workVars, procVars, histVars
<1>1. ASSUME NEW h \in Requests, StoreRemoveFailed(h)
      PROVE  /\ UNCHANGED <<runProject, runStatus>> /\ raced \subseteq raced'
             /\ \A p \in Projects \ raced' :
                  store'[p] = store[p] \/ (store'[p] = None /\ ~isBusy(p))
  BY <1>1 DEF StoreRemoveFailed
<1>2. ASSUME NEW h \in Requests, StoreRemove(h)
      PROVE  /\ UNCHANGED <<runProject, runStatus>> /\ raced \subseteq raced'
             /\ \A p \in Projects \ raced' :
                  store'[p] = store[p] \/ (store'[p] = None /\ ~isBusy(p))
  BY <1>2 DEF StoreRemove
<1>3. ASSUME NEW h \in Requests, BusyCheck(h)
      PROVE  UNCHANGED <<store, runProject, runStatus>> /\ raced \subseteq raced'
  BY <1>3 DEF BusyCheck
<1>4. ASSUME NEW h \in Requests, Call(h) \/ Handler(h),
             ~StoreRemoveFailed(h), ~StoreRemove(h), ~BusyCheck(h)
      PROVE  UNCHANGED <<store, runProject, runStatus, raced>>
  BY <1>4 DEF Call, StartCheck, Load, EditLoad, DeleteLoad, Handler, DeleteFailedTarget, Create,
              SaveQueued, Enqueue, EditSave, DeleteRow
<1>5. CASE UNCHANGED vars \/ Process
  BY <1>5 DEF vars, Process, ShutdownBegin, ShutdownDrained, ShutdownTimeout, SetMaintenance,
              WatchMaintenance, Unfinished
<1>6. ASSUME NEW w \in Workers, Worker(w)
      PROVE  UNCHANGED <<store, runProject, raced>> /\ \A r \in Runs : Unfinished(r)' => Unfinished(r)
  <2>1. UNCHANGED <<store, runProject, raced>>
    BY <1>6 DEF Worker, Take, Count, LockServer, Begin, Persist, Finish, SaveFinal, Unlock, Report, Done
  <2>2. CASE Begin(w)
    BY <2>1, <2>2 DEF Begin, WAt, Ownership, StatusFits, Unfinished
  <2>3. ASSUME NEW status \in {"success", "failed"}, Finish(w, status)
        PROVE  \A r \in Runs : Unfinished(r)' => Unfinished(r)
    BY <2>3 DEF Finish, Unfinished
  <2>4. CASE UNCHANGED runStatus
    BY <2>1, <2>4 DEF Unfinished
  <2> QED
    BY <1>6, <2>1, <2>2, <2>3, <2>4
    DEF Worker, Take, Count, LockServer, Persist, SaveFinal, Unlock, Report, Done
<1> QED
  BY <1>1, <1>2, <1>3, <1>4, <1>5, <1>6 DEF Next, Unfinished

LEMMA QuietRaces ==
  ASSUME Known, Races, [Next]_vars, ~Restart, ~\E h \in Requests, r \in Runs : StoreAdd(h, r)
  PROVE  Races'
<1>1. /\ UNCHANGED runProject /\ raced \subseteq raced'
      /\ \A r \in Runs : Unfinished(r)' => Unfinished(r)
      /\ \A p \in Projects \ raced' :
           store'[p] = store[p] \/ (store'[p] = None /\ ~isBusy(p))
  BY Quiet
<1>2. Latest'
  BY <1>1, ConstantsOK DEF Races, Latest, isBusy
<1>3. \A p \in Projects \ raced' : isBusy(p)' => isBusy(p)
  BY <1>1 DEF isBusy, Known, Inductive, TypeOK
<1>4. ASSUME NEW g \in Requests, req'[g] # req[g], Entering(g)'
      PROVE  /\ \A f \in Requests \ {g} : req'[f] = req[f]
             /\ req'[g].project = req[g].project /\ ~isBusy(req[g].project)
             /\ (\E f \in Requests \ {g} : Entering(f) /\ req[f].project = req[g].project) =>
                  req[g].project \in raced'
  <2>1. BusyCheck(g) /\ \A f \in Requests \ {g} : req'[f] = req[f]
    <3>1. ASSUME UNCHANGED vars \/ Process \/ \E w \in Workers : Worker(w) PROVE FALSE
      BY <1>4, <3>1, OthersKinds DEF Known, Inductive
    <3>2. \E h \in Requests : Call(h) \/ Handler(h)
      BY <3>1 DEF Next
    <3> QED BY <1>4, <3>2, FreeByBusyCheck DEF Entering, Known, Inductive
  <2>2. Goto(g, "free") \/ Return(g)
    BY <2>1 DEF BusyCheck
  <2>3. Goto(g, "free")
    BY <1>4, <2>2 DEF Return, Entering, Idle, Known, Inductive, TypeOK
  <2>4. req'[g].project = req[g].project /\ req'[g].op = req[g].op
    BY <2>3 DEF Goto, Known, Inductive, TypeOK, RequestState
  <2>5. /\ ~isBusy(req[g].project)
        /\ Between(g) => req[g].project \in raced'
    BY <1>4, <2>1, <2>3, <2>4 DEF BusyCheck, Entering, Return, Idle, Known, Inductive, TypeOK
  <2> QED BY <2>1, <2>4, <2>5 DEF Between, Entering
<1>5. OneFree'
  <2> SUFFICES ASSUME NEW g \in Requests, NEW h \in Requests, g # h, Entering(g)', Entering(h)',
                      req'[g].project = req'[h].project
               PROVE  req'[h].project \in raced'
    BY DEF OneFree
  <2>1. CASE req'[g] = req[g] /\ req'[h] = req[h]
    BY <1>1, <2>1 DEF Races, OneFree, Entering
  <2>2. CASE req'[g] # req[g]
    BY <1>4, <2>2 DEF Entering
  <2>3. CASE req'[h] # req[h]
    BY <1>4, <2>3 DEF Entering
  <2> QED BY <2>1, <2>2, <2>3
<1>6. ASSUME NEW h \in Requests, Entering(h)', req'[h].project \notin raced'
      PROVE  ~isBusy(req[h].project)'
  <2>1. req'[h].project \in Projects
    BY <1>6, HandlersStep DEF Entering, HandlersKnowTheirs, Known
  <2>2. ~isBusy(req'[h].project)
    <3>1. CASE req'[h] = req[h]
      BY <1>1, <1>6, <3>1 DEF Races, NotBusy, Entering
    <3>2. CASE req'[h] # req[h]
      BY <1>4, <1>6, <3>2
    <3> QED BY <3>1, <3>2
  <2> QED BY <1>3, <1>6, <2>1, <2>2 DEF isBusy
<1> QED BY <1>2, <1>5, <1>6 DEF Races, NotBusy

LEMMA StoreAddRaces ==
  ASSUME Known, Races, NEW h \in Requests, NEW r \in Runs, StoreAdd(h, r)
  PROVE  Races'
<1> DEFINE p == req[h].project
<1>1. /\ p \in Projects /\ store'[p] = r
      /\ runStatus[r] = "unused" /\ runStatus'[r] = "queued" /\ runProject'[r] = p
      /\ \A x \in Runs : x # r => runStatus'[x] = runStatus[x] /\ runProject'[x] = runProject[x]
      /\ \A q \in Projects : q # p => store'[q] = store[q]
      /\ raced' = raced /\ Publishing(h)'
      /\ \A g \in Requests : g # h => req'[g] = req[g]
  BY StoreAddEffect DEF Known, Inductive
<1>2. CASE req[h].pc = "ready"
  <2>1. /\ \A x \in Runs : runProject[x] # p
        /\ \A g \in Requests \ {h} : req[g].pc # "idle" => req[g].project # p
    BY <1>2 DEF Known, Births, Newborn, Placed, Fresh
  <2>2. Latest'
    BY <1>1, <2>1 DEF Races, Latest, Unfinished
  <2>3. OneFree'
    BY <1>1 DEF Races, OneFree, Entering, Publishing
  <2>4. ASSUME NEW g \in Requests, Entering(g)', req'[g].project \notin raced'
        PROVE  ~isBusy(req[g].project)'
    <3>1. g # h /\ req'[g] = req[g] /\ req[g].project # p /\ req[g].project \in Projects
      BY <1>1, <2>1, <2>4 DEF Entering, Publishing, Known, Inductive, HandlersKnowTheirs
    <3>2. ~isBusy(req[g].project) /\ store'[req[g].project] = store[req[g].project]
      BY <1>1, <2>4, <3>1 DEF Races, NotBusy, Entering
    <3>3. store[req[g].project] # None =>
            runStatus'[store[req[g].project]] = runStatus[store[req[g].project]]
      BY <1>1, <3>1 DEF Known, Ownership, StoreKnown, Inductive, TypeOK
    <3> QED BY <3>1, <3>2, <3>3 DEF isBusy, Unfinished
  <2> QED BY <2>2, <2>3, <2>4 DEF Races, NotBusy
<1>3. CASE req[h].pc = "free" /\ req[h].op \in JobOps
  <2>1. p \notin raced => ~isBusy(p)
    BY <1>3 DEF Races, NotBusy, Entering
  <2>2. Latest'
    <3> SUFFICES ASSUME NEW q \in Projects, q \notin raced, NEW x \in Runs, runProject'[x] = q,
                        Unfinished(x)'
                 PROVE  store'[q] = x
      BY <1>1 DEF Latest
    <3>1. CASE x = r
      BY <1>1, <3>1
    <3>2. CASE x # r
      <4>1. runProject[x] = q /\ Unfinished(x) /\ store[q] = x
        BY <1>1, <3>2 DEF Races, Latest, Unfinished
      <4>2. q # p
        BY <2>1, <4>1, ConstantsOK DEF isBusy
      <4> QED BY <1>1, <4>1, <4>2
    <3> QED BY <3>1, <3>2
  <2>3. OneFree'
    BY <1>1 DEF Races, OneFree, Entering, Publishing
  <2>4. ASSUME NEW g \in Requests, Entering(g)', req'[g].project \notin raced'
        PROVE  ~isBusy(req[g].project)'
    <3>1. g # h /\ req'[g] = req[g] /\ req[g].project \in Projects /\ Entering(g)
      BY <1>1, <2>4 DEF Entering, Publishing, Known, Inductive, HandlersKnowTheirs
    <3>2. req[g].project # p
      BY <1>1, <1>3, <2>4, <3>1 DEF Races, OneFree, Entering
    <3>3. ~isBusy(req[g].project) /\ store'[req[g].project] = store[req[g].project]
      BY <1>1, <2>4, <3>1, <3>2 DEF Races, NotBusy
    <3>4. store[req[g].project] # None =>
            runStatus'[store[req[g].project]] = runStatus[store[req[g].project]]
      BY <1>1, <3>1 DEF Known, Ownership, StoreKnown, Inductive, TypeOK
    <3> QED BY <3>1, <3>3, <3>4 DEF isBusy, Unfinished
  <2> QED BY <2>2, <2>3, <2>4 DEF Races, NotBusy
<1> QED BY <1>2, <1>3 DEF StoreAdd, At

LEMMA RacesInvariant == Spec => [](Known /\ Races)
<1>1. Init => Races
  BY DEF Init, Races, Latest, OneFree, NotBusy, Entering, Unfinished, Idle
<1>2. ASSUME Known, Races, [Next]_vars PROVE Races'
  <2>1. CASE Restart
    BY <2>1 DEF Restart, Races, Latest, OneFree, NotBusy, Entering, Unfinished, Idle
  <2> QED BY <1>2, <2>1, QuietRaces, StoreAddRaces
<1> QED
  BY <1>1, <1>2, KnownInvariant, PTL DEF Spec

(* Two workers are at work on one project only if it is a bot and two      *)
(* requests were past isBusy (services.go:770) before either had put its   *)
(* run in the store, or the entry of a run that was not over was taken out *)
(* of it: for any number of handlers, with failing statements, edits,      *)
(* deletions, webhooks, stops and restarts.                                *)
THEOREM OneProjectOneWorker == Spec => []OneWorkerPerProject
<1>1. ASSUME Known, Races PROVE OneWorkerPerProject
  <2> SUFFICES ASSUME NEW v \in Workers, NEW w \in Workers, v # w, Working(v), Working(w),
                      ProjectAt(v) = ProjectAt(w)
               PROVE  ProjectAt(v) \in BotProjects \cap raced
    BY DEF OneWorkerPerProject
  <2>1. /\ wrun[v] \in Runs /\ wrun[w] \in Runs /\ wrun[v] # wrun[w]
        /\ ProjectAt(v) \in Projects
        /\ Unfinished(wrun[v]) /\ Unfinished(wrun[w])
    BY <1>1 DEF Known, Inductive, Ownership, JobsAssigned, Assigned, OneHolder, EachJobOnce,
                StatusFits, Working, Unfinished, ProjectAt
  <2>2. ProjectAt(v) \in raced
    BY <1>1, <2>1 DEF Races, Latest, ProjectAt
  <2>3. ASSUME ~IsWorker(ProjectAt(v)) PROVE FALSE
    <3>1. HoldsServer(v) /\ HoldsServer(w) /\ ServerAt(v) = ServerAt(w)
      BY <2>3 DEF HoldsServer, Working, ServerAt
    <3> QED BY <1>1, <3>1 DEF Known, Inductive, LockHeld
  <2> QED BY <2>2, <2>3 DEF IsWorker
<1> QED
  BY <1>1, RacesInvariant, PTL

-----------------------------------------------------------------------------
(***************************************************************************)
(* What a settled row shows.  A run may end while its row is still to be   *)
(* written, and isBusy lets the next one in as soon as it has ended: then  *)
(* the one in the store is not over (Followed), for it waits for the       *)
(* server lock that the older run gives back after its row is written.  So *)
(* the last final state that is written to a row is that of the store.     *)
(***************************************************************************)
Followed ==
  \A w \in Workers :
    /\ wpc[w] = "ended" /\ ~IsWorker(ProjectAt(w)) /\ ProjectAt(w) \notin raced
    /\ row[ProjectAt(w)] # "none" /\ store[ProjectAt(w)] # wrun[w]
    => isBusy(ProjectAt(w))

Settled ==
  \A p \in Projects \ (BotProjects \cup raced \cup stale) :
    store[p] # None /\ row[p] # "none"
      /\ (\A r \in Runs : runProject[r] = p => ~Owned(r))
      => row[p] = runStatus[store[p]]

(* What a handler can do to the row and the store of a project that stays. *)
LEMMA HandlerEffect ==
  ASSUME Known, NEW h \in Requests, Call(h) \/ Handler(h), NEW p \in Projects, row'[p] # "none"
  PROVE  /\ row'[p] = row[p] \/ (Publishing(h)' /\ req'[h].project = p) \/ p \in stale'
         /\ row[p] = "none" => Create(h) /\ p = req[h].project
         /\ row[p] # "none" /\ store'[p] # store[p] =>
              \E r \in Runs : StoreAdd(h, r) /\ p = req[h].project
         /\ stale \subseteq stale'
<1> USE DEF Known, Inductive, TypeOK, dbVars, liveVars, histVars
<1>1. Buried(h) /\ (req[h].pc # "idle" => req[h].project \in Projects)
  BY DEF Births, HandlersKnowTheirs
<1>2. CASE UNCHANGED <<row, store, stale>>
  BY <1>2
<1>3. CASE DeleteFailedTarget(h)
  BY <1>3 DEF DeleteFailedTarget
<1>4. CASE StoreRemoveFailed(h)
  BY <1>1, <1>4 DEF StoreRemoveFailed, At, Buried, Gone
<1>5. CASE Create(h) /\ row' # row
  <2>1. /\ req[h].pc = "added" /\ Goto(h, "saved") /\ UNCHANGED <<store, stale>>
        /\ row' = [row EXCEPT ![req[h].project] = "queued"]
    BY <1>5 DEF Create, At
  <2>2. Publishing(h)' /\ req'[h].project = req[h].project
    BY <2>1 DEF Goto, RequestState, Publishing
  <2> QED BY <1>5, <2>1, <2>2
<1>6. CASE SaveQueued(h)
  <2>1. UNCHANGED <<store, stale>> /\ Publishing(h)' /\ req'[h].project = req[h].project
    BY <1>6 DEF SaveQueued, Goto, RequestState, Publishing
  <2>2. row'[p] # row[p] => p = req[h].project /\ row[p] # "none"
    BY <1>6 DEF SaveQueued, SaveState, Updated
  <2> QED BY <2>1, <2>2
<1>7. CASE EditSave(h)
  <2>1. /\ UNCHANGED store
        /\ row'[p] # row[p] => p = req[h].project /\ row[p] # "none" /\ p \in stale'
        /\ stale \subseteq stale'
    BY <1>7 DEF EditSave, SaveState, Updated
  <2> QED BY <2>1
<1>8. CASE DeleteRow(h)
  BY <1>8 DEF DeleteRow
<1>9. CASE StoreRemove(h)
  BY <1>1, <1>9 DEF StoreRemove, At, Buried, Gone
<1>10. ASSUME NEW r \in Runs, StoreAdd(h, r)
       PROVE  UNCHANGED <<row, stale>> /\ (p # req[h].project => store'[p] = store[p])
  BY <1>10 DEF StoreAdd
<1>11. CASE Call(h)
  BY <1>2, <1>11 DEF Call, StartCheck, Load, EditLoad, DeleteLoad
<1>12. CASE BusyCheck(h) \/ Enqueue(h) \/ (Create(h) /\ row' = row)
  BY <1>2, <1>12 DEF BusyCheck, Enqueue, Create
<1> QED
  BY <1>3, <1>4, <1>5, <1>6, <1>7, <1>8, <1>9, <1>10, <1>11, <1>12 DEF Handler

(* Workers write a row's status, and neither insert nor delete a row.      *)
LEMMA WorkersKeepRows ==
  ASSUME TypeOK, JobsAssigned, NEW w \in Workers, Worker(w)
  PROVE  \A p \in Projects : row'[p] = "none" <=> row[p] = "none"
<1> USE DEF TypeOK
<1>1. CASE Persist(w) \/ SaveFinal(w)
  <2>1. /\ SaveState(ProjectAt(w), runStatus[wrun[w]]) \/ SaveOutcome(ProjectAt(w), runStatus[wrun[w]])
        /\ runStatus[wrun[w]] # "none"
    BY <1>1 DEF Persist, SaveFinal, WAt, JobsAssigned, Assigned, Statuses
  <2> QED BY <2>1 DEF SaveState, SaveOutcome, Updated
<1>2. CASE ~(Persist(w) \/ SaveFinal(w))
  BY <1>2 DEF Worker, Take, Count, LockServer, Begin, Finish, Unlock, Report, Done, dbVars
<1> QED BY <1>1, <1>2

(* A handler takes nothing back from the races.                            *)
LEMMA RacedGrows ==
  ASSUME NEW h \in Requests, Call(h) \/ Handler(h)
  PROVE  raced \subseteq raced'
<1> USE DEF histVars
<1>1. CASE Call(h)
  BY <1>1 DEF Call, StartCheck, Load, EditLoad, DeleteLoad
<1>2. CASE Handler(h)
  BY <1>2 DEF Handler, DeleteFailedTarget, StoreRemoveFailed, Create, BusyCheck, SaveQueued, Enqueue,
              EditSave, DeleteRow, StoreRemove, StoreAdd
<1> QED BY <1>1, <1>2

LEMMA FollowedStep ==
  ASSUME Known, Races, Followed, [Next]_vars
  PROVE  Followed'
<1> USE DEF Known, Inductive, TypeOK
<1> SUFFICES ASSUME NEW w \in Workers, wpc'[w] = "ended", ~IsWorker(ProjectAt(w)'),
                    ProjectAt(w)' \notin raced', row'[ProjectAt(w)'] # "none",
                    store'[ProjectAt(w)'] # wrun'[w]
             PROVE  isBusy(ProjectAt(w))'
  BY DEF Followed, IsWorker
<1> DEFINE x == wrun[w]
           p == ProjectAt(w)
<1>0. ~Restart
  BY DEF Restart
<1>1. ASSUME NEW h \in Requests, Call(h) \/ Handler(h) PROVE isBusy(ProjectAt(w))'
  <2>1. /\ wpc[w] = "ended" /\ wrun'[w] = x /\ x \in Runs /\ p \in Projects
        /\ runStatus[x] \in {"success", "failed"}
    BY <1>1, HandlerLeaves DEF JobsAssigned, Assigned, ProjectAt, Ownership, StatusFits
  <2>2. ProjectAt(w)' = p
    BY <1>1, <2>1, HandlerLeaves, StoreAddEffect DEF ProjectAt
  <2>3. row[p] # "none"
    <3>1. SUFFICES ASSUME row[p] = "none" PROVE FALSE
      OBVIOUS
    <3>2. PICK g \in Requests : Fresh(g) /\ req[g].pc = "added" /\ req[g].project = p
      BY <2>1, <2>2, <3>1, RowAppears
    <3>3. x = req[g].run
      BY <2>1, <3>2 DEF Births, Newborn, ProjectAt
    <3> QED BY <2>1, <3>2, <3>3 DEF Publishing, Ownership, OneHolder, Busy
  <2>4. CASE \E r \in Runs : StoreAdd(h, r) /\ p = req[h].project
    <3>1. store'[p] \in Runs /\ runStatus'[store'[p]] = "queued"
      <4>1. PICK r \in Runs : StoreAdd(h, r) /\ p = req[h].project
        BY <2>4
      <4> QED BY <4>1, StoreAddEffect
    <3> QED BY <2>2, <3>1, ConstantsOK DEF isBusy, Unfinished
  <2>5. CASE ~\E r \in Runs : StoreAdd(h, r) /\ p = req[h].project
    <3>1. store'[p] = store[p]
      BY <1>1, <2>1, <2>2, <2>3, <2>5, HandlerEffect
    <3>2. p \notin raced
      BY <1>1, <2>2, RacedGrows
    <3>3. isBusy(p)
      BY <2>1, <2>2, <2>3, <3>1, <3>2 DEF Followed
    <3>4. runStatus'[store[p]] = runStatus[store[p]]
      <4>1. store[p] \in Runs /\ runStatus[store[p]] # "unused"
        BY <2>1, <3>3 DEF isBusy, Unfinished
      <4>2. ASSUME NEW r \in Runs, StoreAdd(h, r) PROVE runStatus'[store[p]] = runStatus[store[p]]
        BY <4>1, <4>2, StoreAddEffect
      <4> QED BY <1>1, <4>2, HandlerLeaves
    <3> QED BY <2>2, <3>1, <3>3, <3>4 DEF isBusy, Unfinished
  <2> QED BY <2>4, <2>5
<1>2. ASSUME NEW v \in Workers, NEW status \in {"success", "failed"}, Finish(v, status)
      PROVE  isBusy(ProjectAt(w))'
  <2>1. /\ wpc[v] = "running" /\ UNCHANGED <<row, store, runProject, wrun, raced>>
        /\ runStatus' = [runStatus EXCEPT ![wrun[v]] = status]
        /\ wrun[v] \in Runs /\ ProjectAt(v) \in Projects /\ Unfinished(wrun[v])
        /\ \A u \in Workers : u # v => wpc'[u] = wpc[u]
    BY <1>2 DEF Finish, WAt, WGoto, dbVars, histVars, JobsAssigned, Assigned, ProjectAt, Ownership,
                StatusFits, Unfinished
  <2>2. wrun'[w] = x /\ ProjectAt(w)' = p
    BY <2>1 DEF ProjectAt
  <2>3. w # v
    <3>1. ASSUME w = v PROVE FALSE
      <4>1. store[p] = x
        BY <2>1, <2>2, <3>1 DEF Races, Latest, ProjectAt
      <4> QED BY <2>1, <2>2, <4>1
    <3> QED BY <3>1
  <2>4. isBusy(p) /\ wpc[w] = "ended"
    BY <2>1, <2>2, <2>3 DEF Followed
  <2>5. store[p] # wrun[v]
    <3>1. ASSUME store[p] = wrun[v] PROVE FALSE
      <4>1. p \in Projects /\ HoldsServer(w)
        BY <2>2, <2>4 DEF HoldsServer, JobsAssigned, Assigned, ProjectAt
      <4>2. ProjectAt(v) = p
        BY <2>1, <3>1, <4>1, ConstantsOK DEF Ownership, StoreKnown, ProjectAt
      <4>3. HoldsServer(v) /\ ServerAt(v) = ServerAt(w)
        BY <2>1, <2>2, <4>2 DEF HoldsServer, ServerAt
      <4> QED BY <2>3, <4>1, <4>3 DEF LockHeld
    <3> QED BY <3>1
  <2> QED BY <2>1, <2>2, <2>4, <2>5 DEF isBusy, Unfinished
<1>3. ASSUME NEW v \in Workers, Begin(v) PROVE isBusy(ProjectAt(w))'
  <2>1. /\ UNCHANGED <<row, store, runProject, wrun, raced>> /\ wpc[w] = "ended"
        /\ runStatus' = [runStatus EXCEPT ![wrun[v]] = "running"]
    BY <1>3 DEF Begin, WAt, WGoto, dbVars, histVars
  <2>2. isBusy(p) /\ ProjectAt(w)' = p
    BY <2>1 DEF Followed, ProjectAt
  <2> QED BY <2>1, <2>2 DEF isBusy, Unfinished
<1>4. ASSUME UNCHANGED <<store, runProject, runStatus, raced>>, wpc[w] = "ended", wrun'[w] = x,
             p \in Projects, \A q \in Projects : row'[q] = "none" <=> row[q] = "none"
      PROVE  isBusy(ProjectAt(w))'
  <2>1. isBusy(p) /\ ProjectAt(w)' = p
    BY <1>4 DEF Followed, ProjectAt
  <2> QED BY <1>4, <2>1 DEF isBusy, Unfinished
<1>5. wpc[w] = "ended" => p \in Projects
  BY DEF JobsAssigned, Assigned, ProjectAt
<1>6. ASSUME NEW v \in Workers,
             \/ Take(v) \/ Count(v) \/ LockServer(v) \/ Persist(v) \/ SaveFinal(v) \/ Unlock(v)
             \/ Report(v) \/ Done(v)
      PROVE  isBusy(ProjectAt(w))'
  <2>1. UNCHANGED <<store, runProject, runStatus, raced>> /\ wpc[w] = "ended" /\ wrun'[w] = x
    BY <1>6 DEF Take, Count, LockServer, Persist, SaveFinal, Unlock, Report, Done, WAt, WGoto,
                liveVars, histVars
  <2>2. \A q \in Projects : row'[q] = "none" <=> row[q] = "none"
    BY <1>6, WorkersKeepRows DEF Worker
  <2> QED BY <1>4, <1>5, <2>1, <2>2
<1>7. CASE UNCHANGED vars \/ (Process /\ ~Restart)
  BY <1>4, <1>5, <1>7
  DEF vars, Process, ShutdownBegin, ShutdownDrained, ShutdownTimeout, SetMaintenance,
      WatchMaintenance, dbVars, liveVars, workVars, histVars
<1> QED
  BY <1>0, <1>1, <1>2, <1>3, <1>6, <1>7 DEF Next, Worker

(* A project none of whose runs is held after a step had none before it,   *)
(* unless a worker wrote the final state of one.                           *)
LEMMA SettledStep ==
  ASSUME Known, Races, Followed, Settled, [Next]_vars
  PROVE  Settled'
<1> USE DEF Known, Inductive, TypeOK
<1> SUFFICES ASSUME NEW p \in Projects, p \notin BotProjects, p \notin raced', p \notin stale',
                    store'[p] # None, row'[p] # "none",
                    \A r \in Runs : runProject'[r] = p => ~Owned(r)'
             PROVE  row'[p] = runStatus'[store'[p]]
  BY DEF Settled
<1>1. ~Restart
  BY DEF Restart
<1>2. \A r \in Runs : runProject[r] = p /\ Owned(r) => \E w \in Workers : SaveFinal(w) /\ r = wrun[w]
  BY <1>1, OwnedStep DEF Ownership
<1>3. ASSUME row'[p] = row[p], store'[p] = store[p], p \notin raced, p \notin stale,
             runStatus'[store[p]] = runStatus[store[p]],
             \A w \in Workers : SaveFinal(w) => ProjectAt(w) # p
      PROVE  row'[p] = runStatus'[store'[p]]
  BY <1>2, <1>3 DEF Settled, ProjectAt
<1>4. ASSUME NEW w \in Workers, SaveFinal(w) PROVE row'[p] = runStatus'[store'[p]]
  <2>1. /\ wpc[w] = "ended" /\ wrun[w] \in Runs /\ ProjectAt(w) \in Projects
        /\ UNCHANGED <<store, runStatus, runProject, raced>>
        /\ \A v \in Workers : v # w => ~SaveFinal(v)
        /\ SaveOutcome(ProjectAt(w), runStatus[wrun[w]])
    BY <1>4 DEF SaveFinal, WAt, WGoto, liveVars, JobsAssigned, Assigned, ProjectAt
  <2>2. CASE ProjectAt(w) # p
    <3>1. row'[p] = row[p] /\ p \notin stale
      BY <2>1, <2>2 DEF SaveOutcome, Updated
    <3> QED BY <1>3, <2>1, <2>2, <3>1
  <2>3. CASE ProjectAt(w) = p
    <3>1. row[p] # "none" /\ row'[p] = runStatus[wrun[w]]
      BY <2>1, <2>3 DEF SaveOutcome, Updated
    <3>2. store[p] = wrun[w]
      <4>1. SUFFICES ASSUME store[p] # wrun[w] PROVE FALSE
        OBVIOUS
      <4>2. isBusy(p)
        BY <2>1, <2>3, <3>1, <4>1 DEF Followed, IsWorker
      <4>3. store[p] \in Runs /\ Owned(store[p]) /\ runProject[store[p]] = p
        BY <3>1, <4>2 DEF isBusy, Ownership, StoreKnown, UnfinishedOwned
      <4> QED BY <1>2, <2>1, <4>1, <4>3
    <3> QED BY <2>1, <3>1, <3>2
  <2> QED BY <2>2, <2>3
<1>5. ASSUME NEW h \in Requests, Call(h) \/ Handler(h) PROVE row'[p] = runStatus'[store'[p]]
  <2>1. ~(Publishing(h)' /\ req'[h].project = p)
    <3>1. ASSUME Publishing(h)', req'[h].project = p PROVE FALSE
      <4>1. req'[h].run \in Runs /\ runProject'[req'[h].run] = p
        BY <3>1, HandlersStep, StatusStep DEF HandlersKnowTheirs, Assigned, Ownership, StatusFits,
                                              Publishing
      <4> QED BY <3>1, <4>1 DEF Owned, Publishing
    <3> QED BY <3>1
  <2>2. ASSUME NEW r \in Runs, StoreAdd(h, r) PROVE p # req[h].project
    BY <2>1, <2>2, StoreAddEffect
  <2>3. row'[p] = row[p] /\ store'[p] = store[p] /\ p \notin stale
    BY <1>5, <2>1, <2>2, HandlerEffect
  <2>4. runStatus'[store[p]] = runStatus[store[p]]
    <3>1. store[p] \in Runs /\ runStatus[store[p]] # "unused"
      BY <2>3 DEF Ownership, StoreKnown
    <3>2. ASSUME NEW r \in Runs, StoreAdd(h, r) PROVE runStatus'[store[p]] = runStatus[store[p]]
      BY <3>1, <3>2, StoreAddEffect
    <3> QED BY <1>5, <3>2, HandlerLeaves
  <2>5. \A w \in Workers : ~SaveFinal(w)
    BY <1>5, HandlerLeaves DEF SaveFinal, WAt, WGoto
  <2>6. p \notin raced
    BY <1>5, RacedGrows
  <2> QED BY <1>3, <2>3, <2>4, <2>5, <2>6
<1>6. ASSUME NEW w \in Workers, Worker(w), ~SaveFinal(w) PROVE row'[p] = runStatus'[store'[p]]
  <2>1. UNCHANGED <<store, raced, stale>> /\ \A v \in Workers : ~SaveFinal(v)
    <3>1. UNCHANGED <<store, raced, stale>>
      BY <1>6 DEF Worker, Take, Count, LockServer, Begin, Persist, Finish, Unlock, Report, Done,
                  liveVars, histVars
    <3>2. \A v \in Workers : ~SaveFinal(v)
      <4>1. ASSUME NEW v \in Workers, SaveFinal(v) PROVE FALSE
        <5>1. wpc[v] = "ended" /\ wpc'[v] = "saved" /\ \A u \in Workers : u # v => wpc'[u] = wpc[u]
          BY <4>1 DEF SaveFinal, WAt, WGoto
        <5>2. v # w
          BY <1>6, <4>1
        <5>3. wpc'[v] = wpc[v]
          BY <1>6, <5>2
          DEF Worker, Take, Count, LockServer, Begin, Persist, Finish, SaveFinal, Unlock, Report, Done,
              WGoto
        <5> QED BY <5>1, <5>3
      <4> QED BY <4>1
    <3> QED BY <3>1, <3>2
  <2>2. ASSUME Begin(w) \/ Persist(w) \/ \E status \in {"success", "failed"} : Finish(w, status)
        PROVE  wrun[w] \in Runs /\ ProjectAt(w) # p
    <3>1. /\ UNCHANGED <<runProject, wrun>> /\ wrun[w] \in Runs
          /\ wpc'[w] \in {"begun", "running", "ended"}
      BY <2>2 DEF Begin, Persist, Finish, WAt, WGoto, liveVars, JobsAssigned, Assigned
    <3>2. Owned(wrun[w])'
      BY <3>1 DEF Owned
    <3> QED BY <3>1, <3>2 DEF ProjectAt
  <2>3. row'[p] = row[p]
    <3>1. CASE Persist(w)
      BY <2>2, <3>1 DEF Persist, SaveState, Updated
    <3>2. CASE ~Persist(w)
      BY <1>6, <3>2 DEF Worker, Take, Count, LockServer, Begin, Finish, Unlock, Report, Done, dbVars
    <3> QED BY <3>1, <3>2
  <2>4. runStatus'[store[p]] = runStatus[store[p]]
    <3>1. runProject[store[p]] = p
      BY <2>1 DEF Ownership, StoreKnown
    <3>2. ASSUME Begin(w) \/ \E status \in {"success", "failed"} : Finish(w, status)
          PROVE  runStatus'[store[p]] = runStatus[store[p]]
      <4>1. store[p] # wrun[w]
        BY <2>2, <3>1, <3>2 DEF ProjectAt
      <4>2. \A r \in Runs : r # wrun[w] => runStatus'[r] = runStatus[r]
        BY <3>2 DEF Begin, Finish
      <4> QED BY <2>1, <4>1, <4>2
    <3> QED
      BY <1>6, <3>2 DEF Worker, Take, Count, LockServer, Persist, Unlock, Report, Done, liveVars
  <2> QED BY <1>3, <2>1, <2>3, <2>4
<1>7. CASE UNCHANGED vars \/ Process
  <2>1. UNCHANGED <<row, store, runStatus, wpc, raced, stale>>
    BY <1>1, <1>7
    DEF vars, Process, ShutdownBegin, ShutdownDrained, ShutdownTimeout, SetMaintenance,
        WatchMaintenance, dbVars, liveVars, workVars, histVars
  <2>2. \A w \in Workers : ~SaveFinal(w)
    BY <2>1 DEF SaveFinal, WAt, WGoto
  <2> QED BY <1>3, <2>1, <2>2
<1> QED
  BY <1>4, <1>5, <1>6, <1>7 DEF Next

(* The row of a web project whose runs are over shows the outcome of the   *)
(* run in the store (persist at the end of runDeployment, runRedeploy and  *)
(* runRollback, before unlock, services.go:173), for any number of         *)
(* handlers, across crashes and failing statements, unless isBusy let two  *)
(* requests in, the write of the outcome failed or an edit came after it.  *)
THEOREM SettledRowIsRight == Spec => []SettledRowMatchesRun
<1> DEFINE F == Followed /\ Settled
<1>1. Init => F
  BY DEF Init, Followed, Settled
<1>2. Known /\ Races /\ F /\ [Next]_vars => F'
  BY FollowedStep, SettledStep
<1>3. F => SettledRowMatchesRun
  BY DEF Settled, SettledRowMatchesRun
<1> HIDE DEF F
<1> QED
  BY <1>1, <1>2, <1>3, RacesInvariant, PTL DEF Spec
=============================================================================
