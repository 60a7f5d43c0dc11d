------------------------------ MODULE Gateway ------------------------------
(***************************************************************************)
(* One server with several sites behind the shared Caddy.  A site answers  *)
(* when the gateway is up, has loaded its snippet, and its application     *)
(* runs and is attached to the gateway's network.  Web runs hold the       *)
(* server lock and come one at a time (DeployQueue!ServerLockMutex);       *)
(* UpdateProtection, UpdateEnv and Delete work on the server without it.   *)
(* A remote command is one step; a script with a decision in it (ls, then  *)
(* reload or down) is several.  Containers do not die by themselves, and   *)
(* saving a row succeeds (DeployQueue lets it fail).                       *)
(***************************************************************************)
EXTENDS Naturals, FiniteSets

CONSTANTS
  Sites,        \* web projects; with folders of their own
  Handlers,     \* edits and deletions in flight at once
  SweptBy,      \* site -> other sites whose container names begin with its
                \* name and "-" or "_"
  Loads,        \* what a behaviour may bring together: bounds the model
  None

RunOps == {"deploy", "redeploy"}
HandOps == {"protection", "env", "unlink", "teardown"}

ASSUME ConstantsOK ==
  /\ SweptBy \in [Sites -> SUBSET Sites]
  /\ Loads \subseteq [ops : SUBSET (RunOps \cup HandOps), edits : Nat, faults : BOOLEAN]
  /\ None \notin Sites

VARIABLES
  load,         \* what is asked for, how many edits at once, and whether
                \* remote commands, and the process, may fail
  status,       \* site -> status of its row
  worked,       \* sites whose row has a release
  snippet,      \* sites with a file in _gateway/sites
  gateway,      \* Caddy is up
  loaded,       \* sites in its configuration
  app,          \* sites whose application container runs
  attached,     \* sites whose application has its alias on the gateway network
  turn,         \* the site whose run holds the server
  run,          \* that run: kind and what it does next
  hand,         \* handler -> its operation
  unsure,       \* history: sites that an env update, a deletion, the sweep of
                \* a neighbour or a gateway that went down under them may have
                \* taken off, with no health check passed since
  setback       \* sites whose status an edit has set back, and no run has
                \* settled since

serverVars == <<snippet, gateway, loaded, app, attached>>
rowVars == <<status, worked>>
vars == <<load, rowVars, serverVars, turn, run, hand, unsure, setback>>

Statuses == {"none", "running", "success", "failed"}
RunPCs == {"idle", "code", "snippet", "gateway", "reload", "up", "connect", "reload2",
           "health", "record", "rm", "ls", "clean", "down", "failed"}
HandPCs == {"idle", "busy", "write", "reload", "save", "up", "check", "connect", "reload2", "health",
            "stop", "rm", "ls", "clean", "down", "row"}
NoRun == [kind |-> "none", pc |-> "idle", had |-> FALSE, listed |-> {}]
NoHand == [op |-> "none", site |-> None, pc |-> "idle", seen |-> "none", had |-> FALSE,
           listed |-> {}]

TypeOK ==
  /\ load \in Loads
  /\ status \in [Sites -> Statuses]
  /\ worked \subseteq Sites /\ snippet \subseteq Sites
  /\ gateway \in BOOLEAN
  /\ loaded \subseteq Sites /\ app \subseteq Sites /\ attached \subseteq app
  /\ turn \in Sites \cup {None}
  /\ run \in [kind : RunOps \cup {"none"}, pc : RunPCs, had : BOOLEAN, listed : SUBSET Sites]
  /\ hand \in [Handlers -> [op : HandOps \cup {"none"}, site : Sites \cup {None}, pc : HandPCs,
                           seen : Statuses, had : BOOLEAN, listed : SUBSET Sites]]
  /\ unsure \subseteq Sites /\ setback \subseteq Sites

(* Some sites have been deployed before, the others never.                 *)
Init ==
  /\ load \in Loads
  /\ \E up \in SUBSET Sites :
       /\ status = [s \in Sites |-> IF s \in up THEN "success" ELSE "none"]
       /\ worked = up /\ snippet = up /\ gateway = (up # {}) /\ loaded = up
       /\ app = up /\ attached = up
  /\ turn = None /\ run = NoRun
  /\ hand = [h \in Handlers |-> NoHand]
  /\ unsure = {} /\ setback = {}

Served(s) == gateway /\ s \in loaded /\ s \in attached

(* UPDATE deployments: status and releases together; no row, no effect.    *)
SaveRow(s, result, had) ==
  IF status[s] = "none" THEN UNCHANGED rowVars
  ELSE /\ status' = [status EXCEPT ![s] = result]
       /\ worked' = IF had THEN worked \cup {s} ELSE worked \ {s}

-----------------------------------------------------------------------------
(* Commands on the server.                                                 *)

WriteSnippet(s) == snippet' = snippet \cup {s} /\ UNCHANGED <<gateway, loaded, app, attached>>

RemoveSnippet(s) == snippet' = snippet \ {s} /\ UNCHANGED <<gateway, loaded, app, attached>>

(* docker compose up -d of the gateway; a gateway that starts reads all    *)
(* snippets.                                                               *)
EnsureGateway ==
  /\ gateway' = TRUE
  /\ loaded' = IF gateway THEN loaded ELSE snippet
  /\ UNCHANGED <<snippet, app, attached>>

(* caddy reload, whose failure nobody acts on.                             *)
Reload ==
  /\ \/ gateway /\ snippet # {} /\ loaded' = snippet
     \/ (load.faults \/ ~gateway \/ snippet = {}) /\ loaded' = loaded
  /\ UNCHANGED <<snippet, gateway, app, attached>>

GatewayDown ==
  /\ gateway' = FALSE /\ loaded' = {}
  /\ UNCHANGED <<snippet, app, attached>>

(* Sites that came in between the ls of a script, which printed the others *)
(* if there were any, and its down.                                        *)
CaughtBy(listed) == unsure' = unsure \cup (snippet \ listed)

(* up -d --build of the project: a container that is made anew has lost    *)
(* its alias.                                                              *)
ComposeUp(s) ==
  /\ app' = app \cup {s}
  /\ attached' \in {attached, attached \ {s}}
  /\ UNCHANGED <<snippet, gateway, loaded>>

(* Mutant of ComposeUpFails: a dead container keeps its alias.             *)
ComposeUpFailsLinked(s) ==
  /\ app' \in {app, app \ {s}}
  /\ UNCHANGED <<snippet, gateway, loaded, attached>>

(* A failed build leaves the old container, a failed start leaves none.    *)
ComposeUpFails(s) ==
  /\ \/ UNCHANGED <<app, attached>>
     \/ app' = app \ {s} /\ attached' = attached \ {s}
  /\ UNCHANGED <<snippet, gateway, loaded>>

(* connectGateway: off the network go all containers named like this       *)
(* project's, then the live one gets its alias.                            *)
Connect(s) ==
  /\ s \in app
  /\ attached' = (attached \ SweptBy[s]) \cup {s}
  /\ UNCHANGED <<snippet, gateway, loaded, app>>

ConnectFails(s) ==
  /\ s \notin app \/ load.faults
  /\ attached' \in {attached, attached \ (SweptBy[s] \cup {s})}
  /\ UNCHANGED <<snippet, gateway, loaded, app>>

-----------------------------------------------------------------------------
(* The run that holds the server: runDeployment, or runRedeploy (a         *)
(* rollback differs only in the commit).                                   *)

Step(pc) == turn # None /\ run.pc = pc
Goto(pc) == run' = [run EXCEPT !.pc = pc]
Left == UNCHANGED <<rowVars, turn, load, hand, unsure, setback>>
LeftBut(sites) ==
  unsure' = unsure \cup sites /\ UNCHANGED <<rowVars, turn, load, hand, setback>>
Persist == SaveRow(turn, "running", run.had) /\ UNCHANGED <<turn, load, hand, unsure, setback>>

(* Only a first deploy cleans up, and only while it has no release.        *)
Fail == Goto(IF run.kind = "deploy" /\ ~run.had THEN "rm" ELSE "failed")

(* Start takes a project that has no row or a failed one, which it deletes *)
(* with its releases; any other project is run again.                      *)
Begin(s, kind) ==
  /\ turn = None /\ kind \in load.ops \cap RunOps
  /\ IF kind = "deploy" THEN status[s] \in {"none", "failed"} ELSE status[s] # "none"
  /\ turn' = s /\ load' = load
  /\ run' = [NoRun EXCEPT !.kind = kind, !.pc = "code", !.had = kind # "deploy" /\ s \in worked]
  /\ status' = [status EXCEPT ![s] = "running"]
  /\ worked' = IF kind = "deploy" THEN worked \ {s} ELSE worked
  /\ UNCHANGED <<serverVars, hand, unsure, setback>>

(* DNS and connecting, after which a failure cleans nothing up; prepare,   *)
(* docker, clone and env, or pull, or the checkout of a rollback.          *)
Code ==
  /\ Step("code")
  /\ Goto("snippet") \/ Goto("failed") \/ Fail
  /\ UNCHANGED serverVars /\ Persist

(* setupGateway: snippet, ensureGateway, reload.                           *)
SetupSnippet ==
  /\ Step("snippet")
  /\ \/ WriteSnippet(turn) /\ Goto("gateway")
     \/ Fail /\ UNCHANGED serverVars
  /\ Left

SetupGateway ==
  /\ Step("gateway")
  /\ \/ EnsureGateway /\ Goto("reload")
     \/ Fail /\ UNCHANGED serverVars
  /\ Left

SetupReload ==
  /\ Step("reload")
  /\ Reload /\ Goto("up") /\ Persist

Up ==
  /\ Step("up")
  /\ \/ ComposeUp(turn) /\ Goto("connect")
     \/ ComposeUpFails(turn) /\ Fail
  /\ Left

ConnectApp ==
  /\ Step("connect")
  /\ \/ Connect(turn) /\ Goto("reload2")
     \/ ConnectFails(turn) /\ Fail
  /\ LeftBut(SweptBy[turn])

ConnectReload ==
  /\ Step("reload2")
  /\ Reload /\ Goto("health") /\ Persist

(* A health check that passed; it says nothing of a site whose snippet a   *)
(* deletion has removed, and which only a reload that failed kept in the   *)
(* configuration.                                                          *)
SureOf(s) == unsure' = IF s \in snippet THEN unsure \ {s} ELSE unsure

(* Mutant of Health: any answer passes, the gateway's 502 too.             *)
HealthAnyAnswer ==
  /\ Step("health")
  /\ \/ gateway /\ Goto("record") /\ SureOf(turn)
     \/ Fail /\ unsure' = unsure
  /\ UNCHANGED <<rowVars, serverVars, turn, load, hand, setback>>

Health ==
  /\ Step("health")
  /\ \/ Served(turn) /\ Goto("record") /\ SureOf(turn)
     \/ Fail /\ unsure' = unsure
  /\ UNCHANGED <<rowVars, serverVars, turn, load, hand, setback>>

(* SaveFinal, and the server's lock is released.                           *)
Settle(result, had) ==
  /\ SaveRow(turn, result, had)
  /\ setback' = setback \ {turn}
  /\ turn' = None /\ run' = NoRun /\ load' = load
  /\ UNCHANGED <<serverVars, hand, unsure>>

(* recordRelease finds no commit when git does not answer.                 *)
Succeed ==
  /\ Step("record")
  /\ Settle("success", TRUE) \/ (load.faults /\ Settle("success", run.had))

Failed ==
  /\ Step("failed")
  /\ Settle("failed", run.had)

(* runDeployment finds its own deadline over between two steps, the soft   *)
(* ones after the health check included.                                   *)
Deadline ==
  /\ Step("snippet") \/ Step("up") \/ Step("health") \/ Step("record")
  /\ run.kind = "deploy"
  /\ Goto("failed") /\ UNCHANGED serverVars /\ Left

(* Mutant of CleanupLook: the gateway always goes down.                    *)
CleanupLookNot ==
  /\ Step("ls")
  /\ run' = [run EXCEPT !.listed = snippet, !.pc = "down"]
  /\ UNCHANGED serverVars /\ Left

(* cleanupFailedSite, best effort.                                         *)
CleanupRm ==
  /\ Step("rm")
  /\ \/ RemoveSnippet(turn) /\ Goto("ls")
     \/ load.faults /\ Goto("failed") /\ UNCHANGED serverVars
  /\ Left

CleanupLook ==
  /\ Step("ls")
  /\ run' = [run EXCEPT !.listed = snippet, !.pc = IF snippet # {} THEN "clean" ELSE "down"]
  /\ UNCHANGED serverVars /\ Left

CleanupEnd ==
  /\ \/ Step("clean") /\ Reload /\ unsure' = unsure
     \/ Step("down") /\ GatewayDown /\ CaughtBy(run.listed)
  /\ run' = [run EXCEPT !.listed = {}, !.pc = "failed"]
  /\ UNCHANGED <<rowVars, turn, load, hand, setback>>

Run ==
  \/ Code \/ SetupSnippet \/ SetupGateway \/ SetupReload \/ Up \/ ConnectApp \/ ConnectReload
  \/ Health \/ Succeed \/ Failed \/ Deadline \/ CleanupRm \/ CleanupLook \/ CleanupEnd

-----------------------------------------------------------------------------
(* Edits and deletions.                                                    *)

At(h, pc) == hand[h].pc = pc
Site(h) == hand[h].site
HandGoto(h, pc) == hand' = [hand EXCEPT ![h].pc = pc]
Return(h) == hand' = [hand EXCEPT ![h] = NoHand]
Apart == UNCHANGED <<rowVars, turn, load, run, unsure, setback>>

(* getFull; UpdateProtection will write its copy back.                     *)
Call(h, s, op) ==
  /\ At(h, "idle") /\ op \in load.ops \cap HandOps /\ status[s] # "none"
  /\ Cardinality({x \in Handlers : ~At(x, "idle")}) < load.edits
  /\ hand' = [hand EXCEPT ![h] =
       [op |-> op, site |-> s, listed |-> {},
        seen |-> IF op = "protection" THEN status[s] ELSE "none",
        had |-> op = "protection" /\ s \in worked,
        pc |-> CASE op \in {"protection", "env"} -> "busy"
                 [] op = "unlink" -> "row" [] op = "teardown" -> "stop"]]
  /\ UNCHANGED serverVars /\ Apart

(* isBusy, then the handler is on its own.                                 *)
BusyCheck(h) ==
  /\ At(h, "busy")
  /\ IF turn = Site(h) THEN Return(h)
     ELSE HandGoto(h, IF hand[h].op = "env" THEN "up" ELSE "write")
  /\ UNCHANGED serverVars /\ Apart

(* UpdateProtection writes the snippet, reloads, and saves its copy of the *)
(* row, status and releases as it had loaded them included.                *)
ProtectionWrite(h) ==
  /\ At(h, "write")
  /\ \/ WriteSnippet(Site(h)) /\ HandGoto(h, "reload")
     \/ load.faults /\ UNCHANGED serverVars /\ Return(h)
  /\ Apart

ProtectionReload(h) ==
  /\ At(h, "reload")
  /\ Reload /\ HandGoto(h, "save") /\ Apart

ProtectionSave(h) ==
  /\ At(h, "save")
  /\ SaveRow(Site(h), hand[h].seen, hand[h].had)
  /\ setback' = IF status' = status THEN setback ELSE setback \cup {Site(h)}
  /\ Return(h)
  /\ UNCHANGED <<serverVars, turn, load, run, unsure>>

(* UpdateEnv: up -d --build --force-recreate, whose failure the check of   *)
(* the container's state notices.                                          *)
EnvUp(h) ==
  /\ At(h, "up")
  /\ \/ app' = app \cup {Site(h)} /\ attached' = attached \ {Site(h)}
        /\ UNCHANGED <<snippet, gateway, loaded>>
     \/ ComposeUpFails(Site(h))
  /\ unsure' = unsure \cup {Site(h)}
  /\ HandGoto(h, "check")
  /\ UNCHANGED <<rowVars, turn, load, run, setback>>

EnvCheck(h) ==
  /\ At(h, "check")
  /\ IF Site(h) \in app THEN HandGoto(h, "connect") ELSE Return(h)
  /\ UNCHANGED serverVars /\ Apart

EnvConnect(h) ==
  /\ At(h, "connect")
  /\ \/ Connect(Site(h)) /\ HandGoto(h, "reload2")
        /\ unsure' = unsure \cup SweptBy[Site(h)]
     \/ ConnectFails(Site(h)) /\ Return(h)
        /\ unsure' = unsure \cup SweptBy[Site(h)] \cup {Site(h)}
  /\ UNCHANGED <<rowVars, turn, load, run, setback>>

EnvReload(h) ==
  /\ At(h, "reload2")
  /\ Reload /\ HandGoto(h, "health") /\ Apart

EnvHealth(h) ==
  /\ At(h, "health")
  /\ \/ Served(Site(h)) /\ SureOf(Site(h))
     \/ unsure' = unsure
  /\ Return(h)
  /\ UNCHANGED <<rowVars, serverVars, turn, load, run, setback>>

(* Mutant of DeleteLook: the gateway always goes down.                     *)
DeleteLookNot(h) ==
  /\ At(h, "ls")
  /\ hand' = [hand EXCEPT ![h].listed = snippet, ![h].pc = "down"]
  /\ UNCHANGED serverVars /\ Apart

Doom(h) ==
  /\ unsure' = unsure \cup {Site(h)}
  /\ UNCHANGED <<rowVars, turn, load, run, setback>>

(* Delete with teardown or purge: compose down, then the site is taken off *)
(* the gateway.  Each part may fail, and the row is deleted all the same.  *)
DeleteStop(h) ==
  /\ At(h, "stop")
  /\ \/ /\ app' = app \ {Site(h)} /\ attached' = attached \ {Site(h)}
        /\ UNCHANGED <<snippet, gateway, loaded>>
        /\ HandGoto(h, "rm")
     \/ load.faults /\ UNCHANGED serverVars /\ HandGoto(h, "row")
  /\ Doom(h)

DeleteRm(h) ==
  /\ At(h, "rm")
  /\ \/ RemoveSnippet(Site(h)) /\ HandGoto(h, "ls")
     \/ load.faults /\ UNCHANGED serverVars /\ HandGoto(h, "row")
  /\ Doom(h)

DeleteLook(h) ==
  /\ At(h, "ls")
  /\ hand' = [hand EXCEPT ![h].listed = snippet, ![h].pc = IF snippet # {} THEN "clean" ELSE "down"]
  /\ UNCHANGED serverVars /\ Apart

DeleteEnd(h) ==
  /\ \/ At(h, "clean") /\ Reload /\ unsure' = unsure
     \/ At(h, "down") /\ GatewayDown /\ CaughtBy(hand[h].listed)
  /\ hand' = [hand EXCEPT ![h].listed = {}, ![h].pc = "row"]
  /\ UNCHANGED <<rowVars, turn, load, run, setback>>

DeleteRow(h) ==
  /\ At(h, "row")
  /\ \/ /\ status' = [status EXCEPT ![Site(h)] = "none"]
        /\ worked' = worked \ {Site(h)}
     \/ load.faults /\ UNCHANGED rowVars
  /\ Return(h)
  /\ UNCHANGED <<serverVars, turn, load, run, unsure, setback>>

Hand(h) ==
  \/ BusyCheck(h) \/ ProtectionWrite(h) \/ ProtectionReload(h) \/ ProtectionSave(h)
  \/ EnvUp(h) \/ EnvCheck(h) \/ EnvConnect(h) \/ EnvReload(h) \/ EnvHealth(h)
  \/ DeleteStop(h) \/ DeleteRm(h) \/ DeleteLook(h) \/ DeleteEnd(h) \/ DeleteRow(h)

-----------------------------------------------------------------------------
(* The process dies between two commands, and MarkOrphans settles the row. *)
Restart ==
  /\ load.faults
  /\ status' = [s \in Sites |-> IF status[s] = "running" THEN "failed" ELSE status[s]]
  /\ turn' = None /\ run' = NoRun /\ load' = load
  /\ hand' = [h \in Handlers |-> NoHand]
  /\ UNCHANGED <<worked, serverVars, unsure, setback>>

Next ==
  \/ \E s \in Sites, kind \in RunOps : Begin(s, kind)
  \/ Run
  \/ \E h \in Handlers : Hand(h) \/ \E s \in Sites, op \in HandOps : Call(h, s, op)
  \/ Restart

Spec == Init /\ [][Next]_vars

-----------------------------------------------------------------------------
(* Properties.                                                             *)

(* The health check comes last (deployer.go:209, services.go:1633), after  *)
(* every command of the run that could take the site off: a project shown  *)
(* as successful answers, whatever failed, was cancelled or crashed in the *)
(* runs of its neighbours, in edits and in deletions.  The exceptions, all *)
(* until the next health check, are a site whose .env update did not pass  *)
(* its own check, one whose teardown was begun, one whose name begins with *)
(* that of a neighbour that was connected (the sweep of connectGateway,    *)
(* gateway.go:105), and one that came in between the ls of a deletion or a *)
(* cleanup, which saw no site, and its down (services.go:1061, and         *)
(* deployer.go:560); and, until the next run, a status that                *)
(* UpdateProtection, loaded before, wrote over a newer one.                *)
SuccessIsServed ==
  \A s \in Sites : status[s] = "success" /\ s \notin unsure \cup setback => Served(s)

(* cleanupFailedSite (deployer.go:557): "a project that already worked is  *)
(* left alone".                                                            *)
CleanupSparesWorking == [][CleanupRm /\ Served(turn) => snippet' = snippet]_vars
=============================================================================
