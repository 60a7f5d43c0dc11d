---------------------------- MODULE PushDeploy -----------------------------
(***************************************************************************)
(* Auto deploy on a git push: the webhook deliveries of one repository,    *)
(* the project they are taken for (LatestCDByRepo), the checks on the way  *)
(* to the queue, and the run, which pulls the head of the branch.  Each    *)
(* project of the repository is on a server of its own (RepoOnServer,      *)
(* services.go:315).  A push is its number; GitHub sends one delivery per  *)
(* push, GitLab one per webhook the users have added.  The statements that *)
(* save a row succeed here; DeployQueue has those that fail, and the       *)
(* rollbacks, deletions and restarts beside the runs.                      *)
(***************************************************************************)
EXTENDS Naturals

CONSTANTS
  Projects,     \* numbered by created_at: a later project has a larger number
  Calls,        \* goroutines: a webhook or a click, then its job
  Provider,     \* "github" or "gitlab"
  MaxPushes,    \* bounds the pushes
  MaxClicks,    \* bounds what users do: redeploy by hand, switch CD, change the plan
  None

ASSUME ConstantsOK ==
  /\ Projects \subseteq Nat
  /\ Provider \in {"github", "gitlab"}
  /\ MaxPushes \in Nat /\ MaxClicks \in Nat
  /\ None \notin Projects \cup Calls

VARIABLES
  head,         \* the default branch: number of pushes
  wire,         \* deliveries on their way: push and webhook secret
  cd,           \* projects with cd_enabled
  paid,         \* the plan allows CD
  call,         \* call -> what it does
  dir,          \* project -> version in its directory on the server
  app,          \* project -> version in its containers
  live,         \* store: project -> call whose run its latest object is of
  status,       \* project -> status in the row
  clicks        \* what users have done so far

vars == <<head, wire, cd, paid, call, dir, app, live, status, clicks>>

Idle == [pc |-> "idle", push |-> 0, secret |-> None, target |-> None]

(* All projects run the first version; CD may be on although the plan that *)
(* allowed it has ended.                                                   *)
Init ==
  /\ head = 0 /\ wire = {}
  /\ cd \in SUBSET Projects /\ paid \in BOOLEAN
  /\ call = [c \in Calls |-> Idle]
  /\ dir = [p \in Projects |-> 0] /\ app = [p \in Projects |-> 0]
  /\ live = [p \in Projects |-> None]
  /\ status = [p \in Projects |-> "success"]
  /\ clicks = 0

At(c, pc) == call[c].pc = pc
Target(c) == call[c].target
Goto(c, pc) == call' = [call EXCEPT ![c].pc = pc]
Return(c) == call' = [call EXCEPT ![c] = Idle]

-----------------------------------------------------------------------------
(* The git host and the users.                                             *)

Push ==
  /\ head < MaxPushes
  /\ head' = head + 1
  /\ wire' = wire \cup [push : {head + 1},
                        secret : IF Provider = "github" THEN {None} ELSE Projects]
  /\ UNCHANGED <<cd, paid, call, dir, app, live, status, clicks>>

(* Deliveries arrive in any order.                                         *)
Deliver(c) ==
  /\ At(c, "idle")
  /\ \E d \in wire :
       /\ wire' = wire \ {d}
       /\ call' = [call EXCEPT ![c] = [pc |-> "sent", push |-> d.push, secret |-> d.secret,
                                       target |-> None]]
  /\ UNCHANGED <<head, cd, paid, dir, app, live, status, clicks>>

User == clicks < MaxClicks /\ clicks' = clicks + 1

(* Redeploy up to its isBusy.                                              *)
Click(c, p) ==
  /\ User /\ At(c, "idle")
  /\ call' = [call EXCEPT ![c] = [Idle EXCEPT !.pc = "found", !.target = p]]
  /\ UNCHANGED <<head, wire, cd, paid, dir, app, live, status>>

(* SetCD needs the paid plan to switch on, never to switch off.            *)
SetCD(p) ==
  /\ User
  /\ \/ p \in cd /\ cd' = cd \ {p}
     \/ p \notin cd /\ paid /\ cd' = cd \cup {p}
  /\ UNCHANGED <<head, wire, paid, call, dir, app, live, status>>

(* A subscription ends or is bought; cd_enabled stays as it is.            *)
PlanChange ==
  /\ User
  /\ paid' = ~paid
  /\ UNCHANGED <<head, wire, cd, call, dir, app, live, status>>

-----------------------------------------------------------------------------
(* The webhook and the job.                                                *)

LatestCDByRepo == {p \in cd : \A q \in cd : q <= p}

(* RedeployForCD, RedeployForGitLabCD: the newest project, and with GitLab *)
(* its own secret.                                                         *)
BadToken(c) == Provider = "gitlab" /\ call[c].secret \notin LatestCDByRepo

LookUp(c) ==
  /\ At(c, "sent")
  /\ IF LatestCDByRepo = {} \/ BadToken(c)
     THEN Return(c)
     ELSE \E p \in LatestCDByRepo :
            call' = [call EXCEPT ![c].pc = "found", ![c].target = p]
  /\ UNCHANGED <<head, wire, cd, paid, dir, app, live, status, clicks>>

(* The object of the store; a second run of the project replaces it.       *)
isBusy(p) == live[p] # None /\ call[live[p]].pc \in {"queued", "working", "pulled"}

SetStatus(c, st) == status' = [status EXCEPT ![Target(c)] = st]

(* redeployFromHook: maintenance, the current plan, isBusy, then the key   *)
(* and the token, which may be refused; a click asks the same except the   *)
(* plan.  Nothing is kept of a push that is skipped.                       *)
Admit(c) ==
  /\ At(c, "found")
  /\ \/ Return(c)
     \/ ~isBusy(Target(c)) /\ (call[c].push # 0 => paid) /\ Goto(c, "free")
  /\ UNCHANGED <<head, wire, cd, paid, dir, app, live, status, clicks>>

(* Two calls may pass isBusy before the first of them gets here.           *)
Publish(c) ==
  /\ At(c, "free")
  /\ live' = [live EXCEPT ![Target(c)] = c]
  /\ SetStatus(c, "queued")
  /\ Goto(c, "queued")
  /\ UNCHANGED <<head, wire, cd, paid, dir, app, clicks>>

(* A worker, with the server's lock.                                       *)
Work(c) ==
  /\ At(c, "queued")
  /\ \A x \in Calls : call[x].pc \in {"working", "pulled"} => Target(x) # Target(c)
  /\ SetStatus(c, "running")
  /\ Goto(c, "working")
  /\ UNCHANGED <<head, wire, cd, paid, dir, app, live, clicks>>

End(c, result) ==
  /\ SetStatus(c, result)
  /\ live' = [live EXCEPT ![Target(c)] = IF @ = c THEN None ELSE @]
  /\ Return(c)

(* Each step of a run saves its row.                                       *)
Pulled(c) == SetStatus(c, "running") /\ Goto(c, "pulled") /\ live' = live

(* Mutants of Pull: the commit of the delivery; nothing is pulled.         *)
PullPushed(c) ==
  /\ At(c, "working")
  /\ \/ dir' = [dir EXCEPT ![Target(c)] = IF call[c].push = 0 THEN head ELSE call[c].push]
        /\ Pulled(c)
     \/ dir' = dir /\ End(c, "failed")
  /\ UNCHANGED <<head, wire, cd, paid, app, clicks>>

PullNothing(c) ==
  /\ At(c, "working")
  /\ dir' = dir /\ Pulled(c)
  /\ UNCHANGED <<head, wire, cd, paid, app, clicks>>

(* git fetch and reset to origin/HEAD, whatever the delivery was about.    *)
Pull(c) ==
  /\ At(c, "working")
  /\ \/ dir' = [dir EXCEPT ![Target(c)] = head] /\ Pulled(c)
     \/ dir' = dir /\ End(c, "failed")
  /\ UNCHANGED <<head, wire, cd, paid, app, clicks>>

(* Build from the directory, start, health check.                          *)
Up(c) ==
  /\ At(c, "pulled")
  /\ \/ app' = [app EXCEPT ![Target(c)] = dir[Target(c)]] /\ End(c, "success")
     \/ app' \in {app, [app EXCEPT ![Target(c)] = dir[Target(c)]]} /\ End(c, "failed")
  /\ UNCHANGED <<head, wire, cd, paid, dir, clicks>>

Handler(c) == Deliver(c) \/ LookUp(c) \/ Admit(c) \/ Publish(c)
Worker(c) == Work(c) \/ Pull(c) \/ Up(c)

Next ==
  \/ Push \/ PlanChange
  \/ \E p \in Projects : SetCD(p)
  \/ \E c \in Calls : Handler(c) \/ Worker(c) \/ \E p \in Projects : Click(c, p)

Spec == Init /\ [][Next]_vars

(* Deliveries arrive, goroutines run, Go's mutex is handed to waiters.     *)
FairSpec ==
  /\ Spec
  /\ \A c \in Calls :
       WF_vars(Deliver(c)) /\ WF_vars(LookUp(c) \/ Admit(c) \/ Publish(c))
       /\ SF_vars(Work(c)) /\ WF_vars(Pull(c)) /\ WF_vars(Up(c))

-----------------------------------------------------------------------------
(* Properties.                                                             *)

(* runRedeploy pulls the head under the server's lock (redeploy.go:175),   *)
(* so an auto deploy never brings an older version back, although          *)
(* deliveries overtake each other and two of them may both pass isBusy.    *)
VersionsAdvance == [][\A p \in Projects : app'[p] >= app[p]]_vars

(* A push that was taken (redeployFromHook's answer "started",             *)
(* services.go:748) is deployed, or a run of the project that ends after   *)
(* that shows it as failed: the failure of an earlier run is overwritten   *)
(* by "queued" (services.go:740) and stands for nothing.  A push that is   *)
(* refused is not promised anything (see README, section 5).               *)
TakenIsDeployed ==
  \A p \in Projects, n \in 1..MaxPushes :
    (\E c \in Calls : At(c, "queued") /\ Target(c) = p /\ call[c].push = n)
      ~> (app[p] >= n \/ status[p] = "failed")
=============================================================================
