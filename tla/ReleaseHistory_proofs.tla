----------------------- MODULE ReleaseHistory_proofs -----------------------
(***************************************************************************)
(* Proofs about ReleaseHistory, for any number of commits, runs, handlers, *)
(* pushes and restarts and any cap of at least 2.  First what the three    *)
(* pure operators on histories return, then the inductive invariant: every *)
(* copy of a history anywhere (row, object, handler) is sound, every       *)
(* rollback target was taken from the history it travels with, and the     *)
(* worker's position says what is on the server.                           *)
(***************************************************************************)
EXTENDS ReleaseHistory, TLAPS

NoRep(rel) == \A i \in 1..(Len(rel) - 1) : rel[i] # rel[i + 1]

(* A history as recordRelease leaves it, of versions in g.                 *)
Sound(rel, g) ==
  /\ rel \in History
  /\ NoRep(rel)
  /\ \A i \in DOMAIN rel : rel[i] \in g

(* t is the top of rel or one step below it.                               *)
Reach(t, rel) ==
  \/ Len(rel) >= 1 /\ Top(rel) = t
  \/ Len(rel) >= 2 /\ rel[Len(rel) - 1] = t

ObjSound(o, g) ==
  /\ o \in ObjState
  /\ Sound(o.releases, g)
  /\ o.kind = "rollback" => o.target \in g /\ Reach(o.target, o.releases)
  /\ o.kind # "rollback" => o.target = None

Loaded(x, g) ==
  /\ x.snap \in RowState /\ Sound(x.snap.releases, g)
  /\ x.op # "rollback" => x.target = None
  /\ x.target # None => x.target \in g /\ Reach(x.target, x.snap.releases)
  /\ x.op = "rollback" /\ x.pc # "loaded" => x.target # None
  /\ x.op = "edit" => x.prefs \in Prefs
  /\ x.pc = "edited" => x.op = "edit"

-----------------------------------------------------------------------------
(* recordRelease records: the new version is the top, a history stays a    *)
(* history, nothing is there twice in a row and nothing else comes in.     *)
LEMMA RecordLemma ==
  ASSUME NEW rel, NEW g, Sound(rel, g), NEW sha \in Commits, sha \in g
  PROVE  Sound(Record(rel, sha), g)
<1>1. Record(rel, sha) \in History
  BY ConstantsOK DEF Sound, Record, History, Top
<1>2. NoRep(Record(rel, sha))
  BY ConstantsOK DEF Sound, Record, History, Top, NoRep
<1>3. \A i \in DOMAIN Record(rel, sha) : Record(rel, sha)[i] \in g
  BY ConstantsOK DEF Sound, Record, History, Top
<1> QED BY <1>1, <1>2, <1>3 DEF Sound

(* The pop of runRollback keeps a history sound.                           *)
LEMMA PopLemma ==
  ASSUME NEW rel, NEW g, Sound(rel, g), NEW sha
  PROVE  Sound(PopTo(rel, sha), g)
<1>1. PopTo(rel, sha) \in History /\ NoRep(PopTo(rel, sha))
  BY ConstantsOK DEF Sound, PopTo, History, Top, NoRep
<1>2. \A i \in DOMAIN PopTo(rel, sha) : PopTo(rel, sha)[i] \in g
  BY ConstantsOK DEF Sound, PopTo, History, Top
<1> QED BY <1>1, <1>2 DEF Sound

(* After the pop the version gone back to is the top, if it was the top or *)
(* one step below it before.                                               *)
LEMMA PopTop ==
  ASSUME NEW rel \in History, NEW sha \in Commits, Reach(sha, rel)
  PROVE  /\ Top(PopTo(rel, sha)) = sha
         /\ Reach(sha, PopTo(rel, sha))
  BY ConstantsOK DEF Reach, PopTo, History, Top

(* Rollback aims at a version of the history, at most one step back.       *)
LEMMA TargetLemma ==
  ASSUME NEW rel, NEW g, Sound(rel, g), NEW status,
         RollbackTarget(status, rel) # None
  PROVE  /\ RollbackTarget(status, rel) \in g
         /\ Reach(RollbackTarget(status, rel), rel)
  BY ConstantsOK DEF Sound, RollbackTarget, Reach, History, Top

LEMMA TargetTyped ==
  ASSUME NEW rel \in History, NEW status
  PROVE  RollbackTarget(status, rel) \in Commits \cup {None}
  BY ConstantsOK DEF RollbackTarget, History, Top

LEMMA EmptySound == ASSUME NEW g PROVE Sound(<<>>, g)
  BY ConstantsOK DEF Sound, History, NoRep

(* More versions having been healthy makes nothing unsound.                *)
LEMMA SoundMono ==
  ASSUME NEW rel, NEW g, NEW k, g \subseteq k, Sound(rel, g)
  PROVE  Sound(rel, k)
  BY DEF Sound

LEMMA ObjMono ==
  ASSUME NEW o, NEW g, NEW k, g \subseteq k, ObjSound(o, g)
  PROVE  ObjSound(o, k)
  BY SoundMono DEF ObjSound

LEMMA LoadedMono ==
  ASSUME NEW x, NEW g, NEW k, g \subseteq k, Loaded(x, g)
  PROVE  Loaded(x, k)
  BY SoundMono DEF Loaded
-----------------------------------------------------------------------------
(* The inductive invariant.                                                *)

RowSound == Sound(row.releases, good)

RunsSound == \A r \in Runs : ObjSound(obj[r], good)

InUse(r) == obj[r].status \in Statuses

HandsSound == \A h \in Handlers :
  /\ hand[h].pc # "idle" => Loaded(hand[h], good)
  /\ hand[h].pc \in {"added", "saved"} => hand[h].run \in Runs /\ InUse(hand[h].run)

QueueSound == \A i \in DOMAIN queue : InUse(queue[i])

(* Where the worker is says what is checked out and what runs.             *)
WorkerSound ==
  job # None =>
  /\ InUse(job)
  /\ pc \in {"up", "health", "record"} =>
       code \in Commits /\ (obj[job].kind = "rollback" => code = obj[job].target)
  /\ pc \in {"health", "record"} => app = code
  /\ pc = "record" => app \in good

IInv == TypeOK /\ RowSound /\ RunsSound /\ HandsSound /\ QueueSound /\ WorkerSound

-----------------------------------------------------------------------------
(* Records: an object with some fields replaced is an object.              *)

LEMMA RowOfObj ==
  ASSUME NEW o, NEW g, ObjSound(o, g), o.status \in Statuses
  PROVE  StateOf(o) \in RowState /\ Sound(StateOf(o).releases, g)
  BY DEF ObjSound, ObjState, StateOf, RowState

LEMMA ObjStatus ==
  ASSUME NEW o, NEW g, ObjSound(o, g), NEW s \in Statuses \cup {"lost"}
  PROVE  ObjSound([o EXCEPT !.status = s], g)
  BY DEF ObjSound, ObjState

LEMMA ObjPrefs ==
  ASSUME NEW o, NEW g, ObjSound(o, g), NEW v \in Prefs
  PROVE  ObjSound([o EXCEPT !.prefs = v], g)
  BY DEF ObjSound, ObjState

LEMMA ObjReleases ==
  ASSUME NEW o, NEW g, ObjSound(o, g), NEW rel, Sound(rel, g),
         o.kind = "rollback" => Reach(o.target, rel)
  PROVE  ObjSound([o EXCEPT !.status = "success", !.releases = rel], g)
<1> DEFINE q == [o EXCEPT !.status = "success"]
<1> DEFINE p == [q EXCEPT !.releases = rel]
<1>1. rel \in History BY DEF Sound
<1>2. /\ q \in ObjState
      /\ q.kind = o.kind /\ q.target = o.target
  BY DEF ObjSound, ObjState, Statuses
<1> HIDE DEF q
<1>3. p \in ObjState /\ p.kind = q.kind /\ p.target = q.target /\ p.releases = rel
  BY <1>1, <1>2 DEF ObjState
<1> HIDE DEF p
<1>4. ObjSound(p, g)
  BY <1>2, <1>3 DEF ObjSound
<1>5. p = [o EXCEPT !.status = "success", !.releases = rel]
  BY DEF p, q
<1> QED BY <1>4, <1>5

-----------------------------------------------------------------------------
(* The initial states.                                                     *)

LEMMA FreshSound ==
  ASSUME NEW g, NEW s \in Statuses \cup {"unused"}
  PROVE  ObjSound([Fresh EXCEPT !.status = s], g) /\ ObjSound(Fresh, g)
<1>1. (CHOOSE v \in Prefs : TRUE) \in Prefs
  BY ConstantsOK
<1>2. <<>> \in History BY EmptySound DEF Sound
<1> QED BY <1>1, <1>2, EmptySound DEF ObjSound, Fresh, ObjState, Statuses

LEMMA IdleTyped == Idle \in HandState
  BY DEF Idle, HandState

LEMMA InitIInv == Init => IInv
<1> SUFFICES ASSUME Init PROVE IInv
  OBVIOUS
<1> USE DEF Init
<1>1. PICK r \in Runs :
        /\ obj = [x \in Runs |-> IF x = r THEN [Fresh EXCEPT !.status = "queued"] ELSE Fresh]
        /\ row = StateOf(obj[r]) /\ store = r /\ queue = <<r>>
  OBVIOUS
<1>2. RunsSound
  BY <1>1, FreshSound DEF RunsSound, Statuses
<1>3. obj[r].status = "queued"
  BY <1>1 DEF Fresh
<1>4. row \in RowState /\ RowSound
  BY <1>1, <1>2, <1>3, RowOfObj DEF RunsSound, RowSound, Statuses
<1>5. HandsSound
  BY DEF HandsSound, Idle
<1>6. QueueSound
  BY <1>1, <1>3 DEF QueueSound, InUse, Statuses
<1>7. WorkerSound
  BY DEF WorkerSound
<1>8. obj \in [Runs -> ObjState]
  BY <1>1, <1>2 DEF RunsSound, ObjSound
<1>9. hand \in [Handlers -> HandState]
  BY IdleTyped
<1>10. queue \in Seq(Runs)
  BY <1>1
<1>11. TypeOK
  BY <1>1, <1>4, <1>8, <1>9, <1>10 DEF TypeOK, PCs
<1> QED BY <1>2, <1>4, <1>5, <1>6, <1>7, <1>11 DEF IInv

-----------------------------------------------------------------------------
(* The handlers.                                                           *)

(* A step that leaves the run's own parts alone.                           *)
LEMMA HandOnly ==
  ASSUME IInv, UNCHANGED <<head, pushes, row, obj, store, jobVars, serverVars, good, restarts>>,
         hand' \in [Handlers -> HandState], HandsSound'
  PROVE  IInv'
  BY DEF IInv, TypeOK, RowSound, RunsSound, QueueSound, WorkerSound, InUse,
         jobVars, serverVars

LEMMA GotoTyped ==
  ASSUME hand \in [Handlers -> HandState], NEW h \in Handlers,
         NEW step \in {"idle", "loaded", "free", "added", "saved", "edited"}, Goto(h, step)
  PROVE  /\ hand' \in [Handlers -> HandState]
         /\ hand'[h] = [hand[h] EXCEPT !.pc = step]
         /\ hand'[h].pc = step /\ hand'[h].op = hand[h].op /\ hand'[h].snap = hand[h].snap
         /\ hand'[h].run = hand[h].run /\ hand'[h].target = hand[h].target
         /\ hand'[h].prefs = hand[h].prefs
         /\ \A k \in Handlers \ {h} : hand'[k] = hand[k]
  BY DEF Goto, HandState

LEMMA ReturnTyped ==
  ASSUME hand \in [Handlers -> HandState], NEW h \in Handlers, Return(h)
  PROVE  /\ hand' \in [Handlers -> HandState]
         /\ hand'[h].pc = "idle"
         /\ \A k \in Handlers \ {h} : hand'[k] = hand[k]
<1>1. hand' \in [Handlers -> HandState]
  BY IdleTyped DEF Return
<1> QED BY <1>1 DEF Return, Idle

(* A step of one handler, while runs in use stay in use.                   *)
LEMMA HandsOne ==
  ASSUME HandsSound, good' = good, NEW h \in Handlers,
         \A r \in Runs : obj[r].status \in Statuses => obj'[r].status \in Statuses,
         \A k \in Handlers \ {h} : hand'[k] = hand[k],
         hand'[h].pc # "idle" => Loaded(hand'[h], good),
         hand'[h].pc \in {"added", "saved"} =>
           hand'[h].run \in Runs /\ obj'[hand'[h].run].status \in Statuses
  PROVE  HandsSound'
<1> SUFFICES ASSUME NEW k \in Handlers
             PROVE  /\ hand'[k].pc # "idle" => Loaded(hand'[k], good')
                    /\ hand'[k].pc \in {"added", "saved"} =>
                         hand'[k].run \in Runs /\ obj'[hand'[k].run].status \in Statuses
  BY DEF HandsSound, InUse
<1>1. CASE k = h
  BY <1>1
<1>2. CASE k # h
  BY <1>2 DEF HandsSound, InUse
<1> QED BY <1>1, <1>2

LEMMA PushStep ==
  ASSUME IInv, NEW c \in Commits, Push(c)
  PROVE  IInv'
  BY DEF IInv, TypeOK, RowSound, RunsSound, HandsSound, QueueSound, WorkerSound, InUse,
         Push, jobVars, serverVars

LEMMA LoadStep ==
  ASSUME IInv, NEW h \in Handlers, NEW op \in Ops, Load(h, op)
  PROVE  IInv'
<1> DEFINE t == IF op = "rollback" THEN RollbackTarget(row.status, row.releases) ELSE None
<1>1. PICK v \in Prefs :
        hand' = [hand EXCEPT ![h] =
                   [pc |-> "loaded", op |-> op, snap |-> row, run |-> None,
                    target |-> t, prefs |-> IF op = "edit" THEN v ELSE None]]
  BY DEF Load
<1>2. row \in RowState /\ Sound(row.releases, good) /\ row.releases \in History
  BY DEF IInv, RowSound, Sound, TypeOK
<1>3. t \in Commits \cup {None}
  BY <1>2, TargetTyped
<1>4. t # None => t \in good /\ Reach(t, row.releases)
  BY <1>2, TargetLemma
<1>5. op # "rollback" => t = None
  OBVIOUS
<1> HIDE DEF t
<1> DEFINE x == [pc |-> "loaded", op |-> op, snap |-> row, run |-> None,
                 target |-> t, prefs |-> IF op = "edit" THEN v ELSE None]
<1>6. x \in HandState
  BY <1>2, <1>3 DEF HandState
<1>7. Loaded(x, good)
  BY <1>2, <1>4, <1>5 DEF Loaded
<1>8. x.pc = "loaded" OBVIOUS
<1>9. hand' = [hand EXCEPT ![h] = x] BY <1>1
<1> HIDE DEF x
<1>10. hand' \in [Handlers -> HandState]
  BY <1>6, <1>9 DEF IInv, TypeOK
<1>11. UNCHANGED <<obj, good>>
  BY DEF Load
<1>12. HandsSound'
  BY <1>7, <1>8, <1>9, <1>11 DEF IInv, TypeOK, HandsSound, InUse
<1> QED BY <1>10, <1>12, HandOnly DEF Load

LEMMA BusyCheckStep ==
  ASSUME IInv, NEW h \in Handlers, BusyCheck(h)
  PROVE  IInv'
<1> USE DEF BusyCheck, At
<1>0. UNCHANGED <<obj, good>> /\ hand \in [Handlers -> HandState] /\ HandsSound
  BY DEF IInv, TypeOK
<1>1. CASE Return(h)
  <2>1. hand' \in [Handlers -> HandState] /\ HandsSound'
    BY <1>0, <1>1, ReturnTyped DEF HandsSound, InUse
  <2> QED BY <2>1, HandOnly
<1>2. CASE Goto(h, "free") /\ ~(hand[h].op = "rollback" /\ hand[h].target = None)
  <2>1. Loaded(hand'[h], good) /\ hand'[h].pc = "free"
    BY <1>0, <1>2, GotoTyped DEF HandsSound, Loaded
  <2>2. hand' \in [Handlers -> HandState] /\ HandsSound'
    BY <1>0, <1>2, <2>1, GotoTyped, HandsOne
  <2> QED BY <2>2, HandOnly
<1> QED BY <1>1, <1>2

LEMMA StoreAddStep ==
  ASSUME IInv, NEW h \in Handlers, NEW r \in Runs, StoreAdd(h, r)
  PROVE  IInv'
<1> DEFINE o == [status |-> "queued", releases |-> hand[h].snap.releases,
                 prefs |-> hand[h].snap.prefs, kind |-> hand[h].op, target |-> hand[h].target]
<1>1. /\ Loaded(hand[h], good) /\ hand[h] \in HandState
      /\ hand[h].op \in {"redeploy", "rollback"} /\ hand[h].pc = "free"
      /\ obj' = [obj EXCEPT ![r] = o] /\ obj[r].status = "unused"
      /\ good' = good
  BY DEF IInv, TypeOK, HandsSound, StoreAdd, At
<1>2. ObjSound(o, good)
  BY <1>1 DEF Loaded, RowState, ObjState, ObjSound, HandState, Statuses
<1>3. o.status \in Statuses
  BY DEF Statuses
<1> HIDE DEF o
<1>4. RunsSound' /\ obj' \in [Runs -> ObjState]
  BY <1>1, <1>2 DEF IInv, TypeOK, RunsSound, ObjSound
<1>5. \A q \in Runs : obj[q].status \in Statuses => obj'[q] = obj[q] /\ obj'[q].status \in Statuses
  BY <1>1 DEF IInv, TypeOK, Statuses
<1>6. obj'[r].status \in Statuses
  BY <1>1, <1>3 DEF IInv, TypeOK
<1>7. /\ hand' = [hand EXCEPT ![h] = [hand[h] EXCEPT !.pc = "added", !.run = r]]
  BY DEF StoreAdd
<1>8. /\ [hand[h] EXCEPT !.pc = "added", !.run = r] \in HandState
      /\ Loaded([hand[h] EXCEPT !.pc = "added", !.run = r], good)
  <2> DEFINE x == [hand[h] EXCEPT !.pc = "added"]
  <2> DEFINE y == [x EXCEPT !.run = r]
  <2>1. x \in HandState /\ Loaded(x, good)
    BY <1>1 DEF HandState, Loaded
  <2> HIDE DEF x
  <2>2. y \in HandState /\ Loaded(y, good)
    BY <2>1 DEF HandState, Loaded
  <2>3. y = [hand[h] EXCEPT !.pc = "added", !.run = r]
    BY DEF x
  <2> QED BY <2>2, <2>3
<1>9. hand' \in [Handlers -> HandState]
  BY <1>7, <1>8 DEF IInv, TypeOK
<1>10. HandsSound'
  BY <1>1, <1>5, <1>6, <1>7, <1>8, HandsOne DEF IInv, TypeOK, HandState
<1>11. QueueSound' /\ WorkerSound' /\ RowSound'
  BY <1>1, <1>5 DEF StoreAdd, IInv, TypeOK, QueueSound, WorkerSound, RowSound, InUse,
                    jobVars, serverVars
<1>12. TypeOK'
  BY <1>4, <1>9 DEF StoreAdd, IInv, TypeOK, jobVars, serverVars
<1> QED BY <1>4, <1>10, <1>11, <1>12 DEF IInv

LEMMA SaveQueuedStep ==
  ASSUME IInv, NEW h \in Handlers, SaveQueued(h)
  PROVE  IInv'
<1>1. /\ hand[h].pc = "added" /\ hand[h].run \in Runs /\ InUse(hand[h].run)
      /\ Loaded(hand[h], good) /\ UNCHANGED <<obj, good>>
  BY DEF IInv, HandsSound, SaveQueued, At
<1>2. row' \in RowState /\ RowSound'
  BY <1>1, RowOfObj DEF SaveQueued, IInv, RunsSound, RowSound, InUse
<1>3. /\ Loaded(hand'[h], good) /\ hand'[h].pc = "saved" /\ hand'[h].run = hand[h].run
  BY <1>1, GotoTyped DEF SaveQueued, IInv, TypeOK, Loaded
<1>4. hand' \in [Handlers -> HandState] /\ HandsSound'
  BY <1>1, <1>3, GotoTyped, HandsOne DEF SaveQueued, IInv, TypeOK, InUse
<1> QED
  BY <1>2, <1>4 DEF SaveQueued, IInv, TypeOK, RunsSound, QueueSound, WorkerSound, InUse,
                    jobVars, serverVars

LEMMA EnqueueStep ==
  ASSUME IInv, NEW h \in Handlers, Enqueue(h)
  PROVE  IInv'
<1>1. /\ hand[h].run \in Runs /\ InUse(hand[h].run)
      /\ queue' = Append(queue, hand[h].run) /\ queue \in Seq(Runs)
      /\ UNCHANGED <<obj, good>>
  BY DEF IInv, TypeOK, HandsSound, Enqueue, At
<1>2. queue' \in Seq(Runs) /\ QueueSound'
  BY <1>1 DEF IInv, QueueSound, InUse
<1>3. hand' \in [Handlers -> HandState] /\ HandsSound'
  BY <1>1, ReturnTyped, HandsOne DEF Enqueue, IInv, TypeOK
<1> QED
  BY <1>2, <1>3 DEF Enqueue, IInv, TypeOK, RowSound, RunsSound, WorkerSound, InUse,
                    serverVars

LEMMA EditSaveStep ==
  ASSUME IInv, NEW h \in Handlers, EditSave(h)
  PROVE  IInv'
<1>1. /\ hand[h].op = "edit" /\ hand[h].pc = "free" /\ Loaded(hand[h], good)
      /\ UNCHANGED <<obj, good>>
  BY DEF IInv, HandsSound, EditSave, At
<1>2. row' \in RowState /\ RowSound'
  BY <1>1 DEF EditSave, Loaded, RowState, RowSound
<1>3. Loaded(hand'[h], good) /\ hand'[h].pc = "edited"
  BY <1>1, GotoTyped DEF EditSave, IInv, TypeOK, Loaded
<1>4. hand' \in [Handlers -> HandState] /\ HandsSound'
  BY <1>1, <1>3, GotoTyped, HandsOne DEF EditSave, IInv, TypeOK
<1> QED
  BY <1>2, <1>4 DEF EditSave, IInv, TypeOK, RunsSound, QueueSound, WorkerSound, InUse,
                    jobVars, serverVars

LEMMA EditLiveStep ==
  ASSUME IInv, NEW h \in Handlers, EditLive(h)
  PROVE  IInv'
<1>1. hand[h].prefs \in Prefs /\ UNCHANGED good
  BY DEF IInv, HandsSound, Loaded, EditLive, At
<1>2. /\ obj' \in [Runs -> ObjState] /\ RunsSound'
      /\ \A r \in Runs : /\ obj'[r].status = obj[r].status
                         /\ obj'[r].kind = obj[r].kind /\ obj'[r].target = obj[r].target
  <2>1. CASE store = None
    BY <1>1, <2>1 DEF EditLive, IInv, TypeOK, RunsSound
  <2>2. CASE store \in Runs
    <3> DEFINE o == [obj[store] EXCEPT !.prefs = hand[h].prefs]
    <3>1. obj[store] \in ObjState /\ ObjSound(obj[store], good)
      BY <2>2 DEF IInv, TypeOK, RunsSound
    <3>2. ObjSound(o, good) /\ o \in ObjState
      BY <1>1, <3>1, ObjPrefs DEF ObjSound
    <3>3. o.status = obj[store].status /\ o.kind = obj[store].kind /\ o.target = obj[store].target
      BY <3>1 DEF ObjState
    <3>4. obj' = [obj EXCEPT ![store] = o]
      BY <2>2, ConstantsOK DEF EditLive
    <3> HIDE DEF o
    <3> QED BY <1>1, <2>2, <3>2, <3>3, <3>4 DEF IInv, TypeOK, RunsSound
  <2> QED BY <2>1, <2>2 DEF IInv, TypeOK
<1>3. hand' \in [Handlers -> HandState] /\ HandsSound'
  BY <1>1, <1>2, ReturnTyped, HandsOne DEF EditLive, IInv, TypeOK
<1>4. QueueSound' /\ WorkerSound'
  BY <1>2 DEF EditLive, IInv, TypeOK, QueueSound, WorkerSound, InUse,
              jobVars, serverVars
<1> QED
  BY <1>2, <1>3, <1>4 DEF EditLive, IInv, TypeOK, RowSound,
                          jobVars, serverVars

-----------------------------------------------------------------------------
(* The worker.                                                             *)

(* A step of no handler, after which runs in use are in use and versions   *)
(* once healthy are still that.                                            *)
LEMMA HandsKept ==
  ASSUME HandsSound, good \subseteq good', hand' = hand,
         \A r \in Runs : obj[r].status \in Statuses => obj'[r].status \in Statuses
  PROVE  HandsSound'
<1> SUFFICES ASSUME NEW k \in Handlers
             PROVE  /\ hand[k].pc # "idle" => Loaded(hand[k], good')
                    /\ hand[k].pc \in {"added", "saved"} =>
                         hand[k].run \in Runs /\ obj'[hand[k].run].status \in Statuses
  BY DEF HandsSound, InUse
<1> QED BY LoadedMono DEF HandsSound, InUse

(* The worker replaces the object of the run it has by o.                  *)
LEMMA JobObj ==
  ASSUME IInv, job \in Runs, NEW o, ObjSound(o, good), o.status \in Statuses,
         obj' = [obj EXCEPT ![job] = o], good' = good
  PROVE  /\ obj' \in [Runs -> ObjState] /\ RunsSound'
         /\ obj'[job] = o
         /\ \A r \in Runs : obj[r].status \in Statuses => obj'[r].status \in Statuses
  BY DEF IInv, TypeOK, RunsSound, ObjSound

LEMMA TakeStep ==
  ASSUME IInv, Take
  PROVE  IInv'
<1>1. queue \in Seq(Runs) /\ queue # <<>> /\ queue' = Tail(queue) /\ job' = Head(queue)
  BY DEF IInv, TypeOK, Take
<1>2. job' \in Runs /\ InUse(job') /\ queue' \in Seq(Runs)
  BY <1>1 DEF IInv, QueueSound
<1>3. \A i \in DOMAIN queue' : i + 1 \in DOMAIN queue /\ queue'[i] = queue[i + 1]
  BY <1>1
<1>4. UNCHANGED <<obj, good, hand, row>> /\ pc' = "begin"
  BY DEF Take
<1>5. QueueSound'
  BY <1>3, <1>4 DEF IInv, QueueSound, InUse
<1>6. WorkerSound'
  BY <1>2, <1>4 DEF WorkerSound, InUse
<1>7. TypeOK'
  BY <1>2 DEF Take, IInv, TypeOK, PCs, serverVars
<1> QED BY <1>4, <1>5, <1>6, <1>7 DEF IInv, RowSound, RunsSound, HandsSound, InUse

LEMMA BeginStep ==
  ASSUME IInv, Begin
  PROVE  IInv'
<1> DEFINE o == [obj[job] EXCEPT !.status = "running"]
<1>1. job \in Runs /\ ObjSound(obj[job], good) /\ good' = good
  BY DEF IInv, TypeOK, RunsSound, Begin, Step
<1>2. ObjSound(o, good) /\ o.status \in Statuses
  BY <1>1, ObjStatus DEF Statuses, ObjSound, ObjState
<1>3. obj' = [obj EXCEPT ![job] = o]
  BY DEF Begin
<1> HIDE DEF o
<1>4. /\ obj' \in [Runs -> ObjState] /\ RunsSound' /\ obj'[job] = o
      /\ \A r \in Runs : obj[r].status \in Statuses => obj'[r].status \in Statuses
  BY <1>1, <1>2, <1>3, JobObj
<1>5. row' \in RowState /\ RowSound'
  BY <1>1, <1>2, <1>4, RowOfObj DEF Begin, Persist, RowSound
<1>6. HandsSound' /\ QueueSound' /\ WorkerSound'
  BY <1>1, <1>4, HandsKept DEF Begin, IInv, TypeOK, QueueSound, WorkerSound, InUse
<1>7. TypeOK'
  BY <1>4, <1>5 DEF Begin, IInv, TypeOK, PCs, serverVars
<1> QED BY <1>4, <1>5, <1>6, <1>7 DEF IInv

(* The steps that leave the objects alone and at most persist one.         *)
LEMMA PersistStep ==
  ASSUME IInv, job \in Runs, good' = good, UNCHANGED obj,
         Persist(obj[job]) \/ row' = row
  PROVE  row' \in RowState /\ RowSound'
<1>1. ObjSound(obj[job], good) /\ (job # None => obj[job].status \in Statuses)
  BY DEF IInv, RunsSound, WorkerSound, InUse
<1>2. job # None
  BY ConstantsOK
<1> QED BY <1>1, <1>2, RowOfObj DEF Persist, RowSound, IInv, TypeOK

LEMMA CheckoutStep ==
  ASSUME IInv, Checkout
  PROVE  IInv'
<1>1. /\ job \in Runs /\ job # None /\ ObjSound(obj[job], good) /\ good' = good
      /\ UNCHANGED <<obj, job, queue, hand, app>>
  BY DEF IInv, TypeOK, RunsSound, Checkout, Step
<1>2. row' \in RowState /\ RowSound'
  BY <1>1, PersistStep DEF Checkout
<1>3. /\ pc' \in {"up", "fail"} /\ code' \in Commits \cup {None}
      /\ pc' = "up" => code' \in Commits /\ (obj[job].kind = "rollback" => code' = obj[job].target)
  BY <1>1 DEF Checkout, IInv, TypeOK, ObjSound
<1>4. WorkerSound'
  BY <1>1, <1>3 DEF IInv, WorkerSound, InUse
<1>5. RunsSound' /\ HandsSound' /\ QueueSound'
  BY <1>1, HandsKept DEF IInv, RunsSound, QueueSound, InUse
<1>6. TypeOK'
  BY <1>2, <1>3 DEF Checkout, IInv, TypeOK, PCs
<1> QED BY <1>2, <1>4, <1>5, <1>6 DEF IInv

LEMMA ComposeUpStep ==
  ASSUME IInv, ComposeUp
  PROVE  IInv'
<1>1. /\ job \in Runs /\ job # None /\ good' = good /\ pc = "up"
      /\ UNCHANGED <<obj, job, queue, hand, code>>
  BY DEF IInv, TypeOK, ComposeUp, Step
<1>2. row' \in RowState /\ RowSound'
  BY <1>1, PersistStep DEF ComposeUp
<1>3. code \in Commits
  BY <1>1 DEF IInv, WorkerSound
<1>4. /\ pc' \in {"health", "fail"} /\ app' \in Commits \cup {Down}
      /\ pc' = "health" => app' = code
  BY <1>3 DEF ComposeUp, IInv, TypeOK
<1>5. WorkerSound'
  BY <1>1, <1>4 DEF IInv, WorkerSound, InUse
<1>6. RunsSound' /\ HandsSound' /\ QueueSound'
  BY <1>1, HandsKept DEF IInv, RunsSound, QueueSound, InUse
<1>7. TypeOK'
  BY <1>2, <1>4 DEF ComposeUp, IInv, TypeOK, PCs
<1> QED BY <1>2, <1>5, <1>6, <1>7 DEF IInv

LEMMA HealthStep ==
  ASSUME IInv, Health
  PROVE  IInv'
<1>1. /\ job \in Runs /\ job # None /\ pc = "health"
      /\ UNCHANGED <<obj, job, queue, hand, code, app>>
  BY DEF IInv, TypeOK, Health, Step, serverVars
<1>2. code \in Commits /\ app = code
  BY <1>1 DEF IInv, WorkerSound
<1>3. /\ good \subseteq good' /\ good' \subseteq Commits /\ pc' \in {"record", "fail"}
      /\ pc' = "record" => app \in good'
  BY <1>2 DEF Health, IInv, TypeOK
<1>4. ObjSound(obj[job], good) /\ obj[job].status \in Statuses
  BY <1>1 DEF IInv, RunsSound, WorkerSound, InUse
<1>5. row' \in RowState /\ Sound(row'.releases, good)
  BY <1>4, RowOfObj DEF Health, Persist, IInv, TypeOK, RowSound
<1>6. RowSound' /\ RunsSound'
  BY <1>1, <1>3, <1>5, SoundMono, ObjMono DEF IInv, RowSound, RunsSound
<1>7. WorkerSound'
  BY <1>1, <1>3 DEF IInv, WorkerSound, InUse
<1>8. HandsSound' /\ QueueSound'
  BY <1>1, <1>3, HandsKept DEF IInv, QueueSound, InUse
<1>9. TypeOK'
  BY <1>3, <1>5 DEF Health, IInv, TypeOK, PCs, serverVars
<1> QED BY <1>6, <1>7, <1>8, <1>9 DEF IInv

(* The object a successful run leaves: its history recorded or popped.     *)
LEMMA SucceedObj ==
  ASSUME IInv, Succeed
  PROVE  /\ job \in Runs /\ ObjSound(obj'[job], good)
         /\ obj' = [obj EXCEPT ![job] = obj'[job]] /\ obj'[job].status = "success"
         /\ obj[job].kind = "rollback" =>
              /\ app = obj[job].target
              /\ obj'[job].releases = PopTo(obj[job].releases, obj[job].target)
<1> DEFINE o == obj[job]
           With(rel) == [o EXCEPT !.status = "success", !.releases = rel]
<1>1. /\ job \in Runs /\ job # None /\ pc = "record" /\ ObjSound(o, good)
      /\ obj \in [Runs -> ObjState] /\ good \subseteq Commits
  BY DEF IInv, TypeOK, RunsSound, Succeed, Step
<1>2. /\ code \in Commits /\ code \in good /\ app = code
      /\ o.kind = "rollback" => code = o.target
  BY <1>1 DEF IInv, WorkerSound
<1>3. \A rel : With(rel).status = "success" /\ With(rel).releases = rel
  BY <1>1 DEF ObjSound, ObjState
<1>4. CASE o.kind = "rollback"
  <2> DEFINE rel == PopTo(o.releases, o.target)
  <2>1. o.target \in Commits /\ Reach(o.target, o.releases) /\ Sound(o.releases, good)
    BY <1>1, <1>4 DEF ObjSound
  <2>2. Sound(rel, good) /\ Reach(o.target, rel)
    BY <2>1, PopLemma, PopTop DEF Sound
  <2> HIDE DEF rel
  <2>3. ObjSound(With(rel), good)
    BY <1>1, <2>2, ObjReleases
  <2>4. obj' = [obj EXCEPT ![job] = With(rel)]
    BY <1>4 DEF Succeed, rel
  <2>5. obj'[job] = With(rel)
    BY <1>1, <2>4
  <2>6. rel = PopTo(o.releases, o.target)
    BY DEF rel
  <2> QED BY <1>1, <1>2, <1>3, <1>4, <2>1, <2>3, <2>4, <2>5, <2>6
<1>5. CASE o.kind # "rollback"
  <2>1. PICK rel \in {Record(o.releases, code), o.releases} :
          obj' = [obj EXCEPT ![job] = With(rel)]
    BY <1>5 DEF Succeed
  <2>2. Sound(rel, good)
    BY <1>1, <1>2, RecordLemma DEF ObjSound
  <2>3. ObjSound(With(rel), good)
    BY <1>1, <1>5, <2>2, ObjReleases
  <2>4. obj'[job] = With(rel)
    BY <1>1, <2>1
  <2> QED BY <1>1, <1>2, <1>3, <1>5, <2>1, <2>3, <2>4
<1> QED BY <1>4, <1>5

LEMMA SucceedStep ==
  ASSUME IInv, Succeed
  PROVE  IInv'
<1> DEFINE o == obj'[job]
<1>1. /\ job \in Runs /\ ObjSound(o, good) /\ obj' = [obj EXCEPT ![job] = o]
      /\ o.status \in Statuses /\ good' = good
  BY SucceedObj DEF Statuses, Succeed
<1>2. /\ obj' \in [Runs -> ObjState] /\ RunsSound'
      /\ \A r \in Runs : obj[r].status \in Statuses => obj'[r].status \in Statuses
  BY <1>1, JobObj
<1>3. HandsSound' /\ QueueSound' /\ RowSound'
  BY <1>1, <1>2, HandsKept DEF Succeed, IInv, TypeOK, QueueSound, RowSound, InUse
<1>4. WorkerSound'
  BY <1>1 DEF Succeed, WorkerSound, InUse
<1>5. TypeOK'
  BY <1>1, <1>2 DEF Succeed, IInv, TypeOK, PCs, serverVars
<1> QED BY <1>2, <1>3, <1>4, <1>5 DEF IInv

LEMMA failStepStep ==
  ASSUME IInv, failStep
  PROVE  IInv'
<1> DEFINE o == [obj[job] EXCEPT !.status = "failed"]
<1>1. job \in Runs /\ ObjSound(obj[job], good) /\ good' = good
  BY DEF IInv, TypeOK, RunsSound, failStep, Step
<1>2. ObjSound(o, good) /\ o.status \in Statuses
  BY <1>1, ObjStatus DEF Statuses, ObjSound, ObjState
<1>3. obj' = [obj EXCEPT ![job] = o]
  BY DEF failStep
<1> HIDE DEF o
<1>4. /\ obj' \in [Runs -> ObjState] /\ RunsSound' /\ obj'[job] = o
      /\ \A r \in Runs : obj[r].status \in Statuses => obj'[r].status \in Statuses
  BY <1>1, <1>2, <1>3, JobObj
<1>5. HandsSound' /\ QueueSound' /\ RowSound'
  BY <1>1, <1>4, HandsKept DEF failStep, IInv, TypeOK, QueueSound, RowSound, InUse
<1>6. WorkerSound'
  BY <1>2, <1>4 DEF failStep, WorkerSound, InUse
<1>7. TypeOK'
  BY <1>4 DEF failStep, IInv, TypeOK, PCs, serverVars
<1> QED BY <1>4, <1>5, <1>6, <1>7 DEF IInv

LEMMA SaveFinalStep ==
  ASSUME IInv, SaveFinal
  PROVE  IInv'
<1>1. job \in Runs /\ good' = good /\ UNCHANGED <<obj, queue, hand>> /\ job' = None
  BY DEF IInv, TypeOK, SaveFinal, Step
<1>2. row' \in RowState /\ RowSound'
  BY <1>1, PersistStep DEF SaveFinal
<1>3. RunsSound' /\ HandsSound' /\ QueueSound' /\ WorkerSound'
  BY <1>1, HandsKept DEF IInv, RunsSound, QueueSound, WorkerSound, InUse
<1>4. TypeOK'
  BY <1>2 DEF SaveFinal, IInv, TypeOK, PCs, serverVars
<1> QED BY <1>2, <1>3, <1>4 DEF IInv

LEMMA RestartStep ==
  ASSUME IInv, Restart
  PROVE  IInv'
<1> DEFINE F(r) == IF obj[r].status \in {"queued", "running"}
                   THEN [obj[r] EXCEPT !.status = "lost"] ELSE obj[r]
<1>1. obj' = [r \in Runs |-> F(r)] /\ good' = good
  BY DEF Restart
<1>2. \A r \in Runs : ObjSound(F(r), good)
  BY ObjStatus DEF IInv, RunsSound
<1> HIDE DEF F
<1>3. obj' \in [Runs -> ObjState] /\ RunsSound'
  BY <1>1, <1>2 DEF RunsSound, ObjSound
<1>4. row' \in RowState /\ RowSound'
  BY <1>1 DEF Restart, IInv, TypeOK, RowSound, RowState, Statuses
<1>5. hand' \in [Handlers -> HandState] /\ HandsSound'
  BY IdleTyped DEF Restart, HandsSound, Idle
<1>6. queue' \in Seq(Runs) /\ QueueSound' /\ WorkerSound'
  BY DEF Restart, QueueSound, WorkerSound
<1>7. TypeOK'
  BY <1>3, <1>4, <1>5, <1>6 DEF Restart, IInv, TypeOK, PCs, serverVars
<1> QED BY <1>3, <1>4, <1>5, <1>6, <1>7 DEF IInv

-----------------------------------------------------------------------------
(* The theorems.                                                           *)

LEMMA NextIInv == IInv /\ [Next]_vars => IInv'
<1> SUFFICES ASSUME IInv, [Next]_vars PROVE IInv'
  OBVIOUS
<1>1. CASE \E c \in Commits : Push(c)
  BY <1>1, PushStep
<1>2. ASSUME NEW h \in Handlers, Handler(h) PROVE IInv'
  BY <1>2, LoadStep, BusyCheckStep, StoreAddStep, SaveQueuedStep, EnqueueStep,
     EditSaveStep, EditLiveStep DEF Handler
<1>3. CASE Worker
  BY <1>3, TakeStep, BeginStep, CheckoutStep, ComposeUpStep, HealthStep, SucceedStep,
     failStepStep, SaveFinalStep DEF Worker
<1>4. CASE Restart
  BY <1>4, RestartStep
<1>5. CASE UNCHANGED vars
  BY <1>5 DEF vars, IInv, TypeOK, RowSound, RunsSound, HandsSound, QueueSound, WorkerSound,
              InUse, jobVars, serverVars
<1> QED BY <1>1, <1>2, <1>3, <1>4, <1>5 DEF Next

LEMMA Invariance == Spec => []IInv
  BY InitIInv, NextIInv, PTL DEF Spec

(* recordRelease (deployer.go:490) and the pop of runRollback: every state *)
(* is typed; in particular no copy of a history ever holds more than Cap   *)
(* versions, for any Cap.                                                  *)
THEOREM TypeCorrect == Spec => []TypeOK
<1>1. IInv => TypeOK
  BY DEF IInv
<1> QED BY <1>1, Invariance, PTL

(* No copy of a history, in the row or in any run, has a version twice in  *)
(* a row: the step back of Rollback (services.go:624) changes the version. *)
THEOREM HistoriesStep == Spec => []NoRepeats
<1>1. IInv => NoRepeats
  BY DEF IInv, RowSound, RunsSound, ObjSound, Sound, NoRep, NoRepeats, Histories
<1> QED BY <1>1, Invariance, PTL

(* Whatever stale copies, edits, failures and restarts intervene, every    *)
(* version a rollback can be offered once passed the health check.         *)
THEOREM HistoriesGood == Spec => []OnlyGoodVersions
<1>1. IInv => OnlyGoodVersions
  BY DEF IInv, RowSound, RunsSound, ObjSound, Sound, OnlyGoodVersions, Histories
<1> QED BY <1>1, Invariance, PTL

(* A rollback that succeeds runs its target and saves a history that has   *)
(* it on top (runRollback, redeploy.go:88), for any cap and any history.   *)
THEOREM RollbackLands == Spec => RollbackLandsOnTarget
<1>1. ASSUME IInv, Succeed, obj[job].kind = "rollback"
      PROVE  app = obj[job].target /\ Top(obj'[job].releases) = obj[job].target
  <2>1. /\ job \in Runs /\ app = obj[job].target
        /\ obj'[job].releases = PopTo(obj[job].releases, obj[job].target)
    BY <1>1, SucceedObj
  <2>2. /\ obj[job].target \in Commits /\ obj[job].releases \in History
        /\ Reach(obj[job].target, obj[job].releases)
    BY <1>1, <2>1 DEF IInv, TypeOK, RunsSound, ObjSound, Sound
  <2> QED BY <2>1, <2>2, PopTop
<1>2. IInv /\ [Next]_vars =>
        [Succeed /\ obj[job].kind = "rollback" =>
           app = obj[job].target /\ Top(obj'[job].releases) = obj[job].target]_vars
  BY <1>1
<1> QED BY <1>2, Invariance, PTL DEF Spec, RollbackLandsOnTarget
=============================================================================
