# A verification development for djaploy core

djaploy core is the deploy engine of djaploy: a Go service that connects to a
user's server over SSH, prepares it, clones a repository, builds and starts it
with Docker Compose, puts it behind a Caddy gateway it shares with the other
sites of the server, redeploys on a git push, rolls back, and removes itself.
This directory holds TLA+ models of the engine, TLC configurations that check
them, and theorems about them that TLAPS checks.

The repository is an extract: `cmd/server` and the database migrations are not
in it, and plans, teams, referrals and notifications are interfaces. What those
do is taken from how `internal/deploy` uses them.

## 1. The system

### Components, their state and what makes them correct

| Component | State | Operations | Correct when |
|---|---|---|---|
| **Deploy service** (`services.go`, `repo.go`, `model.go`, `maintenance.go`) | `deployments` table; `Store` of live `*Deployment` objects; `jobs` channel (64); `serverLocks` (web projects only); `closing`, `jobsWG`; maintenance flag | Start, Redeploy, Rollback, the webhook tail, UpdateSettings, UpdateProtection, UpdateEnv, Delete; `worker`; Shutdown; NewService/MarkOrphans; the maintenance watcher | one web run at a time on a server; every published run has an outcome, none twice; no row says "running" with nobody to settle it; a stop waits for what it has counted |
| **Release history** (`deployer.go`, `redeploy.go`, `services.go`) | `ServerState.Releases` in the row, in each live object and in the copy a handler loaded; on the server the checkout and the containers | a run's steps, `recordRelease`, `runRollback`, edits, pushes | a rollback goes to a version that worked, and the history says so afterwards |
| **Live log** (`model.go`, `handlers.go`) | the buffer, subscribers with channels of 256, `done`, `logs` column | log, finish, Subscribe, Unsubscribe, the SSE handler | history and live lines join without a gap or a repeat; the stream ends |
| **Gateway** (`gateway.go`, `deployer.go`, `redeploy.go`, `services.go`) | on the server: snippets, Caddy, its loaded configuration, network aliases | setupGateway, composeUp, connectGateway, cleanupFailedSite, UpdateProtection, UpdateEnv, Delete | a project shown as successful answers, whatever is done for its neighbours |
| **Deploy on push** (`webhook.go`, `services.go`, `repo.go`) | `cd_enabled`, hook secrets, the plan | GitHub and GitLab deliveries, LatestCDByRepo, redeployFromHook | never an older version; a push that was taken is deployed |
| **Host keys** (`hostkey.go`, `ssh.go`, `repo.go`) | `server_host_keys` row per user and address | dialPinned, TrustHostPin, ResetHostKey, ForgetHostPin | one fingerprint per server; a swapped key is reported only when something changed |
| **Access keys** (`access.go`, `keys.go`, `services.go`) | `server_access_keys`, `ssh_key_enc`, lines in `authorized_keys` | EnsureAccess, CheckAccess, RevokeAccess, the key of a run, purge | a key whose line was shown is kept; a revoked key is gone |
| Remote steps (`deployer.go`, `templates.go`, `ssh.go`) | `ssh_user` and `ssh_key_enc` of the row and of the run | shell commands; installAccessKey, keepAccessKey, handoverNonRoot | their order and failures, in Gateway and ReleaseHistory; the row keeps a pair that opens the server |
| **Disk monitor** (`diskmon.go`) | `diskAlerted`, `hostKeyAlerted` | a round with a check per server | one alert per excursion |
| **Activity feed** (`activity.go`) | channel of 1024, one writer, `deploy_activity` | logActivity, activityWriter, CloseActivity, Activity | every event once, on its day, or dropped; the grid adds up |
| **Accounts** (`auth/`, `middleware/`) | `users` with two unique provider columns; the browser's state, link and session cookies | sign-in, link, the callbacks | an identity is linked only by a flow that asked for it |
| **Git hosts** (`github/`, `gitlab/`), **cache** (`store/redis.go`) | `gitlab_token_enc`, `installation_id`, cached installation tokens | refresh, repository lists, the install callback, the webhook of a removed app | a rotated token is not lost; a live installation is not forgotten |
| **Rate limiter** (`ratelimit/`) | a window per key, in memory | Allow, cleanup | the limit holds, and only it refuses |
| Crypto, config, stats | none | pure functions, one-shot commands | tests reach them |

### How they interact

Handlers run concurrently and hold no lock from one statement to the next. A
Start, Redeploy, Rollback or webhook checks the table, adds a live object to
the store, writes the row and sends a job. Workers take jobs, lock the server
of a web project, write the row at every step and log to the object, which
streams to browsers. Edits and deletions use SSH from the handler, beside the
workers. All remote work goes through dialPinned with a key from
`server_access_keys` or from the row. A restart forgets everything but the
tables and the server.

The hard parts are therefore: values loaded before a check and written back
after it; checks and actions in different statements; two writers of one row;
the server shared by runs (locked) and handlers (not locked); the stop; a crash
between any two steps; the bounded channels; deliveries that are late, doubled
or skipped. `PROJECT.json` lists each under `hazards`, at its line.

## 2. Modules

| Module | What it is |
|---|---|
| `JobServer` | what a run is promised, without handlers, channel, workers and mutexes |
| `DeployQueue` | control plane: admission, store, channel, workers, locks, wait group, shutdown, restart, maintenance |
| `ReleaseHistory` | one project's history and rollback, with stale copies and a restart |
| `LogFeed`, `LogStream` | what a log page is promised, and the code that implements it |
| `Gateway` | one server, several sites, runs and handlers |
| `PushDeploy` | pushes, deliveries, the choice of the project, the pull |
| `HostPin` | trust on first use |
| `ServerAccess` | granted keys, keys of projects, lines on the server |
| `SignIn` | sign-in and linking flows of one browser with several tabs |
| `GitLabTokens` | the rotating token pair of one profile |
| `Installations` | the GitHub App installation of a profile, its cached token, the webhook |
| `RateLimit` | fixed windows, with the clock |
| `DiskMonitor` | rounds of checks, two thresholds, notices |
| `Activity` | the bounded feed, its writer, the grid of days |
| `Handover` | the user and the key a project keeps to its server |
| `MCServices` | the seven modules above side by side |
| `MC*` | definitions the configurations need: constant functions, symmetry sets |
| `*_proofs` | theorems and their proofs |

`LogStream` composes with `LogFeed`, and `DeployQueue` with `JobServer`, by
refinement. Under the mapping of `DeployQueue` a job's state is the status of
its live object, the server it needs is that of its project (a bot's needs
none), and a server is held by the run in the hand of the worker that its mutex
names. `StoreAdd` is `Submit`, `LockServer` is `Occupy`, `Begin` and `Finish` are
`Start` and `End`, `Unlock` is `Release`, `Restart` is `Die`; everything else
(rows, channel, wait group, edits, the stop) is a stutter. So the job server is
what the rest of the code may rely on: no run twice, each with its server to itself from
before its first step to after its outcome, and only a crash loses one.
The other modules meet at interfaces rather than by instantiation, since their product is far out of
reach: `Gateway` and `ReleaseHistory` have one worker per server because
`DeployQueue` proves that two web runs never hold one server
(`ServerLockMutex`); `DeployQueue` keeps a run on the server to "at work"
because the other two say what it does there; `ServerAccess` takes what
`HostPin` refuses as "unreachable"; `Handover` takes over where `ServerAccess`
stops, at what a run does with the key it installed; `Activity` has the feed
whose close `DeployQueue` places beside the workers.

The seven services around the deploys share no state with each other.
`MCServices` puts them into one model in which a behaviour picks one of them
(`part`) and the others keep their initial state, so that their states add up.
Each part has its own variables and its own `Next`, and no property speaks about
two of them. Where two parts use sets of model values of one size the
configuration gives both the same values (`x`, `y`, `z`, `r`), which only keeps
the symmetry group small.

### How the models follow the code

*Grain.* A step is one database statement, one access to the store or to a
channel, one critical section, or one remote command. Reads that follow each
other with no write between them are one step. What a handler reads and uses
later is in its record (`seen` in `DeployQueue`, `snap` in `ReleaseHistory`,
`seen` and `had` in `Gateway`, `key` in `ServerAccess`). A remote script with a
decision in it (list the snippets, then reload or stop) is several steps.

*DeployQueue.* `row` is the status column, `store` is `Store.m`, a run is one
`*Deployment` with its job, `queue` is `jobs`. A handler goes from `Load` or
`StartCheck` through `BusyCheck`, `StoreAdd`, `SaveQueued` or `Create`, to
`Enqueue`; a worker from `Take` through `Count` (`jobsWG.Add`), `LockServer`,
`Begin`, `Persist`, `Finish`, `SaveFinal`, `Unlock`, `Report` (the activity
channel) to `Done`. `load` says what a behaviour puts the service under: which
operations, how many handlers at once, whether statements fail, how many
restarts. With `load.faults` every statement may fail in the way the code then
goes on: checks that fail say "no", a failed `SaveState` is logged, a
failed INSERT returns and leaves the store entry. Two history variables mark what
the code gets wrong and the properties then excuse: `raced`, projects that isBusy
has let two requests into or whose store entry was removed while its run was not
over; `stale`, projects whose row missed an outcome (a failed write) or had an
older status written over it since (an edit). The four reads of Start are one
step: they only decide whether it goes on.

*ReleaseHistory.* The list exists in the row, in every object and in handlers'
copies; `SaveState` and `SaveFinal` write status and list together. `Record`,
`RollbackTarget` and `PopTo` are recordRelease, the choice in Rollback, and the
end of runRollback. `good` remembers the versions that answered.

*LogStream.* A line is its number and 0 is the terminal line. `log` sends to
each channel that has a place, `Open` is Find and Subscribe, `Send` the SSE
loop, which leaves at the terminal line. After a crash viewers get the row.

*Gateway.* A site answers (`Served`) when Caddy runs, has loaded its snippet and
the application is attached to its network. A new container loses its alias,
`caddy reload` may fail unnoticed, a gateway that starts reads all snippets,
`connectGateway` detaches all containers whose names match (`SweptBy`). `listed`
is what the `ls` of a deletion or cleanup saw, `unsure` the sites that a named
hole of the code may have taken off since their last health check (`CaughtBy`
between the `ls` and the `down`, the sweep, an .env update, a teardown),
`setback` those whose status UpdateProtection wrote over.

*PushDeploy.* A push is its number; GitLab sends one delivery per hook, each
with its secret; the pull takes the head. A click is a Redeploy. `status` is the
column: `Publish` writes "queued", so that the failure of an earlier run cannot
stand for the outcome of a push that was just taken; `live` is the object of the
store, which isBusy asks. Writes of the row succeed here; `DeployQueue` has those
that fail.

*HostPin.* The machine has keys of several types and may be rebuilt; `algos`
asks for the type of the pinned key only. `epoch` and `forgets` number the
deletions of the row, so that sessions before and after one can be told apart. Both refusals as
host_key_mismatch are there: `Mismatch` in the handshake and `RefusedLate`, the
hang-up of a connection that wanted to make the row and found another key in it.

*ServerAccess.* `granted` is the row of `server_access_keys`, `rowKey` the
`ssh_key_enc` column. `shown`, `forgot` and `revoked` are history variables:
lines a user was given, keys a step destroyed on purpose, keys a revocation that
reported success was about; `survived` are those of the latter that a failed clearing left, or that
a Start or a run had in hand. Every DELETE and UPDATE of a revocation, a check
and a deletion may fail, in the way the code goes on. `load` is the set of
operations of a behaviour.

*SignIn.* `Leave` is a redirect, `Callback` reads the cookies when the browser is
back, each later action is one request or statement of the callback, `Respond` is
when its `Set-Cookie` lines reach the browser, or not. The mapping of GitHub and
GitLab onto one set of actions follows the two callbacks, which have the same
steps; only GitLab has `SaveToken`, and only `GitLabAuth` clears the link cookie.

*GitLabTokens.* `used` and `heir` are GitLab's books, `cut` what a revocation
ended, `lostPairs` the pairs that reached no row because an answer was lost, a
write failed or the process died. A token that is not due changes nothing and is
not a step.

*Installations.* A request is in `req` with what it read; `retry` is the second
pass after a 401. `Dropped` is the DEL of the cache, whose result nobody reads.
`"forget live"` is a request that GitHub refused with 401 because of the app
itself. `calm` marks requests during which nothing was wrong.

*RateLimit.* A window is never written while it is over, so `NoWindow` stands for
the missing map entry. The clock is in ticks; a window has `Per` of them.

*DiskMonitor.* A disk is below 85 %, between, or at 90 % and more. `Decide` is
Load, the switch and Store, which one goroutine per machine makes one step;
mutant `MonitoredSites` shows what the `DISTINCT ON` of the query is for.
`dipped` remembers whether the disk was low since the report before.

*Activity.* Rows, losses and events are counts per day and outcome; `GridDay` is
one round of the loop over the days.

*Handover.* `pairRow` and `pairRun` are user and key in the row and in the live
object; `lines` is what `authorized_keys` accepts. Reading `step` = "final" as
the last save of a run, redeploys and rollbacks enter there.

## 3. Runs

Every passing run finishes; the numbers are distinct states.

| Run | Question | Instance |
|---|---|---|
| `queue` (1.5M) | server lock, wait group, no job twice; no row and no busy project without somebody who settles it; one worker per project; the row shows the latest outcome | two projects of one repository on one server (one a bot), two workers, two runs, channel of 1; two handlers with failing statements (deploy, redeploy, delete); one handler with failing statements and a restart (redeploy, settings, delete); or one with webhooks, the maintenance switch and a shutdown |
| `queue_serial` (160k) | refinement of `JobServer`; runs and handlers come to an end | one handler; deploy, redeploy, rollback, webhook; a restart; fairness |
| `history` (1.1M) | history without repeats, of good versions; a rollback lands | two commits, four runs, a history of two, two pushes, an edit, a restart |
| `stream` (69k) | Seamless, refinement of `LogFeed`, the stream ends | two viewers, channel of 2, live tail of 3, stored tail of 2, four lines, a crash |
| `gateway` (2.1M) | success means served | two sites, the name of one a prefix of the other's; five loads: one handler with deploy, redeploy, .env, unlink, failing commands, deadlines and a crash; first deploys beside teardowns with all of these; redeploys beside two teardowns; redeploys beside two protection updates; protection updates and teardowns, two at once, with faults |
| `push` (184k) | versions only advance; a push that was taken is deployed | two projects of one repository, two goroutines, two pushes, GitLab, one action of a user |
| `access` (1.7M) | shown keys are kept, revoked keys are gone | two projects, two keys, two handlers; three loads: grants, checks, starts and deletions; grants, revocations and starts; revocations, starts and deletions. Statements fail in each |
| `hostpin` (1.5M) | sessions agree; no false alarm | two connections, two key types, three keys, one project, two deletions of the row, failing statements |
| `services` (380k) | a link was asked for; the stored token lives; a live installation is spared; a connected profile is not told otherwise; the limit holds; one alert per excursion; the grid is true; the row opens the server | three flows, two profiles, two accounts per provider; two token calls, four pairs; two profiles, two installations, two requests; two grants per window of two ticks, eight ticks; three sites on two machines, two pollers; channel of 1, two events, three days; three keys |
| `bug_stop_panics` | the stop never makes the process panic: **violated** | see below |
| `bug_cleanup_working` | a cleanup spares a site that works: **violated** | see below |
| `bug_handover` | the hand-over stays on root on any error: **violated** | see below |

*Why the bounds are enough.* Every hazard here needs at most two actors and one
shared thing: two workers on a server, a handler and a worker on a row, two
requests on a key, two first connections, a deletion and a run on the gateway.
Each run has both actors and lets the second come in between any two steps of
the first. Channels and histories are cut to one or two places so that they are
full at once. Lines are more than the channel and the tails hold. Four runs of one
project are a deploy, a redeploy of a newer version, a redeploy that fails and
the rollback from there, the shortest way to each branch of runRollback; with two
pushes a third release meets the cap; three keys of a machine allow a rebuild and a new type. The bounds
are `Runs`, `MaxRestarts`, `MaxPushes`, `MaxClicks`, `MaxLines`, `Keys`,
`MaxKeys`, `MaxProjects`, `MaxForgets`, and in `services` the sizes of `Flows`,
`Pairs`, `Installs`, `KeyPairs`, `LastTick`, `LastDay`, `MaxEvents`. A link that
was not asked for needs an abandoned flow, the one that goes wrong and the
session they meet in: three flows. A used token in the row needs two exchanges
that cross, and a later grant over both. Five grants (`2 * Limit + 1`) fit into
eight ticks in every way that touches two windows. Streaks over three days have
every pattern of active and empty days.

*Deadlock* is not checked: with all runs, pushes and keys used up, and nobody
calling, the system rests, as the program does without requests. That nobody is
left waiting is `RunsFinish`, `HandoversReturn` and `NoStuckRow`.

*Symmetry* is used where only safety is checked: between runs, workers,
handlers, commits, keys, sites or projects that nothing tells apart.

*Fairness.* Handlers and workers are goroutines, so a step that stays enabled is
taken (WF). `LockServer` has SF: Go's mutex goes into starvation mode and hands
itself to a waiter. `Finish` has WF of its own: every remote step has a
timeout, so a worker does not persist for ever. Deliveries arrive and viewers'
clients read (WF). No request, push, crash, stop or switch has to happen. With
several handlers a place in the full channel would need SF (Go's channel is
first-in first-out); the run has one handler, for which WF is enough.

*Every property can fail.* For each, `PROJECT.json` names a mutant of the code
(a lock not waited for, a job not taken off, a health check that accepts any
answer, a DELETE that spares a row, `ON CONFLICT DO UPDATE`) under which the run
finds it violated. The mutated operators stand before the definitions they
replace. Every module keeps its type invariant in a run, except `PushDeploy`, whose
run has its two properties only.

## 4. Proofs

TLAPS checks these for all values of the constants, from the assumption of each
module about its own constants: `ConstantsOK`, and for the services `NoPairOK`,
`NoInstOK`, `DisksOK`, `HandoverKeysOK`, `LimitOK`, `NoOneIsNoFlow` and
`ActivityOK`. Those say that the value that stands for "none" is not one of the
others, that every site has a machine, that limits, caps and periods are numbers,
that the pool of workers is finite (`workers` goroutines, services.go:292), and
that the live log keeps two lines or more (`maxLiveLogs` is 4000, model.go:28).

No theorem has a hypothesis of its own: handlers, workers, faults, restarts,
edits and deletions are as many and as concurrent as the constants say. Where the
code has a hole, the property names it as an exception, by a history variable
that is set exactly when the hole was hit (`raced`, `stale`, `unsure`, `setback`,
`survived`, and the epoch of `HostPin`); the theorem then says that nothing else
breaks the promise. Section 5 lists these holes. TLC refutes each of these properties
when the exception is left out.

| Theorem | Statement | Why it holds |
|---|---|---|
| `DeployQueue_proofs!TypeCorrect` | `[]TypeOK` | handlers past the check have a project (`HandlersKnowTheirs`), jobs in the channel and in hand have one (`JobsAssigned`) |
| `DeployQueue_proofs!ServerExclusion` | `[]ServerLockMutex` | `LockHeld`: a worker that holds a server is the one the lock names. Without `JobsAssigned` the server of a job might change under a worker |
| `DeployQueue_proofs!NoJobTwice` | `[]EachJobOnce` | `OneHolder`: a run that is not over is with one publishing handler, at one place of the channel or with one worker |
| `DeployQueue_proofs!BusyIsOwned` | `[]BusyMeansOwned` | `StatusFits`: the status of a run fits the place where it is; `UnfinishedOwned`: an unfinished run is with a handler, in the channel or with a worker, unless its INSERT failed, and then its project has no row and never gets one (`Births`) |
| `DeployQueue_proofs!RowsAreSettled` | `[]NoStuckRow` | `RowsOwned`, which needs `OneHolder` (who settles a row settles it for its own run only); a row that misses its outcome is in `stale` |
| `DeployQueue_proofs!WaitGroupIsRight` | `[]WaitGroupCounts` | the counter is the cardinality of `Counted`, to which every step adds or takes one worker at most |
| `DeployQueue_proofs!IsJobServer` | `Spec => JobSpec` | `LockKnown`, the other half of `LockHeld`: a locked mutex names a worker that is between `LockServer` and `Unlock` for that server, so that a free mutex is a server which no run holds |
| `DeployQueue_proofs!OneProjectOneWorker` | `[]OneWorkerPerProject` | `Races`: a project that is not in `raced` has one unfinished run at most, the one in the store, which isBusy asks. For that one has to know what a handler knows past isBusy: that no other is past it with the same project, and that the project is not busy still (`FreeByBusyCheck`, `Quiet`). Two runs of a web project in `raced` are kept apart by the lock |
| `DeployQueue_proofs!SettledRowIsRight` | `[]SettledRowMatchesRun` | `Followed`: outside `raced` and `stale`, while a run that is over is still to be written, the run in the store is that one or is not over, for it waits for the lock |
| `ReleaseHistory_proofs!TypeCorrect` | `[]TypeOK` | the cap is kept by `Record` and `PopTo` |
| `ReleaseHistory_proofs!HistoriesStep` | `[]NoRepeats` | see `HistoriesGood` |
| `ReleaseHistory_proofs!HistoriesGood` | `[]OnlyGoodVersions` | soundness (no repeats, all good) must hold of every copy: the row, each object, each handler's copy; the channel holds runs in use; between Health and Record the checkout is the version that answered |
| `ReleaseHistory_proofs!RollbackLands` | `RollbackLandsOnTarget` | a rollback's target was in the history of its object, at the top or just under it; after Checkout, code and app are the target |
| `LogStream_proofs!TypeCorrect` | `[]TypeOK` | |
| `LogStream_proofs!Implements` | `Spec => FeedSpec` | the buffer and the row are runs of consecutive numbers ending with the terminal line only when done (`Lined`); what a viewer has still to get lies ahead of what it was shown |
| `LogStream_proofs!NothingLost` | `[]Seamless` | `BufferGapless`: the buffer is the newest lines, one after the other; `ViewerGapless`: what a registered viewer was shown, is being sent and has in its channel is, put together, a gapless run up to the newest line |
| `HostPin_proofs!TypeCorrect` | `[]TypeOK` | |
| `HostPin_proofs!OneFingerprint` | `[]SessionsAgree` | `KnowsIn`: a connection in the present epoch that expects a key expects the one in the row, and one that is open has seen it |
| `HostPin_proofs!MismatchIsChange` | `NoFalseAlarm` | a machine that has the type asked for offers its key of that type; only a connection that found no row gets to TrustHostPin (`KnowsIn`), and two keys of one type that the machine has are one key |
| `Gateway_proofs!TypeCorrect` | `[]TypeOK` | |
| `Gateway_proofs!SuccessesAreServed` | `[]SuccessIsServed` | `Standing`: a site that counts has its snippet, which the next reload needs, and is loaded and attached. `RunStands`: from the snippet on, the run's own site has it, or a deletion took it. `DownListed`: who is about to take the gateway down saw no snippet, so that the sites that have one by then are caught (`CaughtBy`). `TurnUnsettled`: while a run has the server its row is not a success, unless an edit set it back |
| `ServerAccess_proofs!TypeCorrect` | `[]TypeOK` | a start takes the newest row with a key (`LeastIndex`, by well-foundedness of <) |
| `ServerAccess_proofs!LinesHaveKeys` | `[]ShownIsKnown` | `PlacesFree`: a run stores its key in an empty place, where ON CONFLICT DO NOTHING cannot swallow it; `KeysIssued` |
| `ServerAccess_proofs!RevokedStaysGone` | `[]RevokedIsForgotten` | `HandsClean`: no Start or run carries a key that a revocation was about, unless it carried it then (`survived`) |
| `PushDeploy_proofs!NeverBack` | `VersionsAdvance` | `VersionsOrdered`: what runs is at most what was pulled last, and that at most the head, since a run pulls the head and not the commit of its delivery |
| `Services_proofs!StoredTokensLive` | `[]StoredTokenLives` | `OneHand`: a pair that a call holds is unused, is not in the row and is in no other hand, so that a save never stores a used one |
| `Services_proofs!CalmIsConnected` | `[]CalmMeansConnected` | `StaysCalm`: a calm request reads the installation its profile has, so that GitHub never answers it 404 |
| `Services_proofs!LiveInstallSpared` | `SparesLiveInstall` | `ReqKnows`: a request that forgets an installation holds one that is gone, and an installation that is gone does not come back |
| `Services_proofs!OneNoticePerExcursion` | `[]FullOnlyAfterDip` | `OneProbe`: one probe per machine in a round; `DipKnown`: a flag that is down, or a disk that is low, means that the disk was low since the last report |
| `Services_proofs!RowsOpenServers` | `[]RowOpensServer` | `RunOpensServer`: the pair of the run opens the server at every step, and when it is over the row has that pair; the line of the granted key stays |
| `Services_proofs!LimitKept` | `[]LimitHolds` | `Bounded`: of `Limit` grants after another one, one begins a window; `Apart`: windows begin more than a period apart; so two of them lie between a grant and the one 2 * `Limit` later. `Current`: the window of the map is the last one, or that one is over |
| `Services_proofs!ServicesTypeCorrect` | `ServicesSpec => []TypesOK` | each service's own invariant is kept by its steps and left alone by everybody else's |
| `Services_proofs!SignInTypeCorrect` | `[]SignInTypeOK` | |
| `Services_proofs!LinksWereAsked` | `LinkWasAsked` | `LinkCookieFits`: while a flow's state is in the browser, the link cookie is the one that flow asked for or has been taken away, since both are set together; `LinkFits`: so the callback carries it |
| `Services_proofs!GridIsRight` | `[]GridTrue` | the writer has at most one event in hand (`OneInHand`), so each event is a row, waits or was dropped. The streak is the run of active days up to the last one seen, with a day before it that had none (`StreakIs`); the best is the greatest of the lengths of the runs seen, which a new day extends only at their end |

Each of them is an instance of Init => IInv, IInv /\ [Next]_vars => IInv', and
IInv => property, with one lemma per action or group of actions.

*Only model-checked:* liveness (`RunsFinish`, `HandoversReturn`,
`EndsUnlessDropped`, `TakenIsDeployed`), which needs fairness and ENABLED, out
of this prover's reach.

## 5. Where the code and its text differ

Three are checked as violations:

* `bug_stop_panics`: Shutdown waits "as long as ctx allows" and then closes the
  activity channel, also when a worker still runs, or when the worker had received its job
  and not yet called jobsWG.Add, so that the wait did not know of it
  (services.go:458-461, 468-469). That worker saves its outcome, releases the
  server, and then its logActivity sends on a closed channel (activity.go:92).
  Its own row is right; lost are its event and its jobsWG.Done, and the panic
  takes every other run in progress with it.
* `bug_cleanup_working`: "a project that already worked is left alone"
  (deployer.go:557) looks at the releases of the row. After a failed redeploy of
  a site that still answers, Start deletes the failed row with its releases, and
  a failing step of the new deploy takes the site off the gateway.
* `bug_handover`: "On any error we stay on root" (deployer.go:787). The error of
  the statement that stores the new user's key is dropped (deployer.go:831), the
  live object has the new user already, and the last save writes that user
  beside the key of root. The project runs, but no redeploy or push can connect.

Others were met while modelling. The models contain them, and the properties are
stated so as to say what holds in spite of them:

* Two requests can pass isBusy together and publish two runs of one project
  (services.go:609); two runs of a bot, which takes no server lock, then work in
  one folder (services.go:770), and its row may show the older outcome
  (`raced`).
* Delete does not ask isBusy (services.go:985): a run of a deleted project goes
  on in its folder, where a new project of the same repository may begin. No
  property forbids this.
* The purge of failed attempts (repo.go:384) and Delete take the row and the store
  entry from under a run that is being published or going on.
* Rollback and webhooks are admitted while the service stops.
* An edit writes back the status it loaded, and a run the preferences it was
  made with (services.go:1466, 863). The release list survives both; the row may
  say "running" for ever, or show an older outcome (`stale`, `setback`). So it may when
  the write of an outcome or MarkOrphans fails.
* The checks of repository, domain and plan limit are apart from the INSERT, so
  that two requests can pass all of them. "A second site cannot take a domain
  that is already in use" (services.go:321) fails without two requests, too: a
  failed project does not count for DomainInUse, and a redeploy of it, which
  does not ask, brings it back beside the project that took its domain.
* A failing INSERT leaves a queued run in the store (services.go:399). Its project
  has no row, so nobody asks for it (`BusyMeansOwned`).
* A push during a run is skipped and not repeated (services.go:727); of several
  projects that follow one repository only the newest is looked at (repo.go:203).
* Delete and the gateway: a site that writes its snippet between the list and the
  `down` of a deletion (services.go:1061), or of the cleanup of a failed first
  deploy (deployer.go:560), loses the gateway until its next health check
  (`CaughtBy`).
* Delete takes the site off the server before it deletes the row: when that
  statement fails, or the process dies before it, the row of a site that is gone
  still says "success" (services.go:1074; `unsure` from the first command of the
  teardown on).
* A run ended by its own deadline does not clean up its snippet
  (deployer.go:222).
* `gateway.go:105` matches names by prefix (`SweptBy`): connecting a site takes
  a neighbour whose name begins with the site's off the network, until the neighbour's next
  health check. The run has two such names.
* RevokeAccess "destroys our half of the key" (access.go:258-260), but an error
  of the clearing is only logged and the revocation is reported as done
  (access.go:316), and a Start or a run that has taken the key stores it
  afterwards (deployer.go:579). BusyOn does not see the run of a deleted project
  (`survived`).
* A connection that found no row, because HostPin failed or another first
  connection was under way, asks for any type of key. When it is shown one of
  another type than the row has by then, it is refused as a swapped key although
  the machine has the pinned one (hostkey.go:72-77, against ssh.go:69-71;
  `RefusedLate`).
* CheckAccess marks whatever key is in the row as verified (access.go:254).
* A project-count query that fails makes Delete forget the host key of a server
  that is still in use (repo.go:170).
* The maintenance watcher can say "safe" while an admitted request has not yet
  written its row (maintenance.go:59).
* GitHubAuth, unlike GitLabAuth, leaves the link cookie (auth/handler.go:238): a
  sign-in through GitHub after an abandoned link flow links. `LinkWasAsked` is
  stated for GitLab.
* GitHub's 401 to the app itself counts as a deleted installation
  (client.go:70), and a request whose second pass fails for any reason is
  answered "not connected" (auth/handler.go:585).
* `Streak` is documented as counted from today (activity.go:33); it ends with the
  last day of the year that is shown.
* When a profile is created and the statement after it fails
  (auth/services.go:97), the next sign-in finds it and is not "new": promo and
  referral of the newcomer are not offered.
* The folder, the containers and the snippet are named by the last part of the
  repository name (services.go:1011), the checks compare the full name.
* Purge spares the shared line of a granted key only; a line that a password
  deploy installed goes although other projects use its key (services.go:1035).
* An alert about a changed host key can be set again by a connection that failed
  before the reset that cleared it (diskmon.go:172).

## 6. Not modelled, and the plan

Not modelled for good: text (shell scripts, compose, Dockerfile and Caddy
templates, messages), encryption and configuration (pure functions), stats and
container logs (one command, no state), the read-only views. Data on the user's
disk, and containers that die by themselves, are the environment's. Promo,
referral, plans, teams and notifications are interfaces without an
implementation here. The cached repository list is an answer for when GitHub
cannot be reached and decides nothing else. A session's refresh reads its token
and answers.

What could come next: a model of two servers with one gateway each, if the
service came to share more than the table between them; a lock or an isBusy in
Delete would allow `OneWorkerPerProject` to be stated for folders, and a unique
index on the table the checks of Start to be stated as an invariant.
