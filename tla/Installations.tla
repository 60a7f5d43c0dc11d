---------------------------- MODULE Installations ----------------------------
(***************************************************************************)
(* The GitHub App installation of a profile (auth/handler.go,              *)
(* store/redis.go, github/client.go): users.installation_id, the cache     *)
(* that holds a token of it, and the four that change them: the callback   *)
(* after an install, the webhook of a deleted install, and the requests    *)
(* for the repository list, which mint a token when the cache has none,    *)
(* refresh one GitHub refuses, and heal a row whose installation is gone.  *)
(* GitHub never uses an installation's id again.                           *)
(***************************************************************************)
EXTENDS FiniteSets

CONSTANTS
  Members,   \* profiles; several may have linked one installation
  Installs,  \* installation ids; bounds how often the app is installed
  Requests,  \* handlers in flight: lists, callbacks and webhooks
  NoInst

ASSUME NoInstOK == NoInst \notin Installs

VARIABLES
  linked,    \* profile -> users.installation_id
  live,      \* installations that exist at GitHub
  gone,      \* installations that were deleted there
  tokenOf,   \* profile -> the installation whose token is in the cache
  req,       \* handler -> what it does and what it holds
  calm       \* list requests whose profile has kept the one live installation
             \* it had when they came, and whose calls to GitHub got answers

instVars == <<linked, live, gone, tokenOf, req, calm>>

InstOrNone == Installs \cup {NoInst}
NewReq(at, who, inst) == [at |-> at, who |-> who, inst |-> inst, retry |-> FALSE]
NoReq == NewReq("idle", NoInst, NoInst)
ReqState ==
  [at : {"idle", "get", "lookup", "mint", "forget", "forget live", "drop", "set", "fetch",
         "connected", "not connected", "error",
         "add", "prewarm", "store", "clear"},
   who : Members \cup {NoInst}, inst : InstOrNone, retry : BOOLEAN]

InstTypeOK ==
  /\ linked \in [Members -> InstOrNone]
  /\ live \subseteq Installs /\ gone \subseteq Installs \ live
  /\ tokenOf \in [Members -> InstOrNone]
  /\ req \in [Requests -> ReqState]
  /\ calm \subseteq Requests

InstInit ==
  /\ linked = [m \in Members |-> NoInst]
  /\ live = {} /\ gone = {}
  /\ tokenOf = [m \in Members |-> NoInst]
  /\ req = [r \in Requests |-> NoReq]
  /\ calm = {}

GoTo(r, at) == req' = [req EXCEPT ![r].at = at]
Hold(r, at, i) == req' = [req EXCEPT ![r].at = at, ![r].inst = i]
(* Nobody looks whether the cache has deleted the token.                   *)
Dropped(m) == tokenOf' \in {tokenOf, [tokenOf EXCEPT ![m] = NoInst]}

(* The requests of profiles whose row a step changes are no longer calm.   *)
Disturb == calm' = {r \in calm : linked'[req[r].who] = linked[req[r].who]}
Answered == {"connected", "not connected", "error"}

(* A statement or a call fails: an error on the first pass; after a 401 it *)
(* counts as "disconnected".                                               *)
Fails(r) ==
  /\ GoTo(r, IF req[r].retry THEN "not connected" ELSE "error")
  /\ calm' = calm \ {r}

-----------------------------------------------------------------------------
(* GetUserRepos: the cache first.                                          *)
GetUserRepos(r) ==
  /\ req[r].at = "idle"
  /\ \E m \in Members :
       /\ req' = [req EXCEPT ![r] = NewReq("get", m, NoInst)]
       /\ calm' = IF linked[m] \in live THEN calm \cup {r} ELSE calm \ {r}
  /\ UNCHANGED <<linked, live, gone, tokenOf>>

GetInstallationToken(r) ==
  /\ req[r].at = "get"
  /\ LET i == tokenOf[req[r].who] IN
       \/ i # NoInst /\ Hold(r, "fetch", i)
       \/ GoTo(r, "lookup")      \* no token, or the cache cannot be read
  /\ UNCHANGED <<linked, live, gone, tokenOf, calm>>

GetInstallationID(r) ==
  /\ req[r].at = "lookup"
  /\ LET i == linked[req[r].who] IN
       \/ /\ IF i = NoInst THEN GoTo(r, "not connected") ELSE Hold(r, "mint", i)
          /\ UNCHANGED calm
       \/ Fails(r)
  /\ UNCHANGED <<linked, live, gone, tokenOf>>

(* A deleted installation answers 404 and is forgotten; 401, which is what *)
(* GitHub says when it refuses the app's own signature, counts the same.   *)
InstallationToken(r) ==
  /\ req[r].at = "mint"
  /\ \/ /\ req[r].inst \in live
        /\ GoTo(r, "set")
        /\ UNCHANGED calm
     \/ /\ req[r].inst \notin live
        /\ GoTo(r, "forget")
        /\ UNCHANGED calm
     \/ /\ req[r].inst \in live
        /\ GoTo(r, "forget live")
        /\ calm' = calm \ {r}
     \/ Fails(r)
  /\ UNCHANGED <<linked, live, gone, tokenOf>>

SetInstallationToken(r) ==
  /\ req[r].at = "set"
  /\ \/ /\ tokenOf' = [tokenOf EXCEPT ![req[r].who] = req[r].inst]
        /\ GoTo(r, "fetch")
        /\ UNCHANGED calm
     \/ /\ Fails(r)
        /\ UNCHANGED tokenOf
  /\ UNCHANGED <<linked, live, gone>>

Unlinked(i) == [m \in Members |-> IF linked[m] = i THEN NoInst ELSE linked[m]]

(* Mutant of ClearInstallationID: the profile's row is cleared, whichever  *)
(* installation it has by now.                                             *)
ClearByProfile(r) ==
  /\ linked' = [linked EXCEPT ![req[r].who] = NoInst]
  /\ Disturb

(* By the id, not by the profile; an error of the statement is only        *)
(* logged.                                                                 *)
ClearInstallationID(r) ==
  /\ linked' \in {linked, Unlinked(req[r].inst)}
  /\ Disturb

ForgetInstallation(r) ==
  /\ req[r].at \in {"forget", "forget live"}
  /\ ClearInstallationID(r)
  /\ GoTo(r, "drop")
  /\ UNCHANGED <<live, gone, tokenOf>>

DeleteInstallationToken(r) ==
  /\ req[r].at = "drop"
  /\ Dropped(req[r].who)
  /\ GoTo(r, "not connected")
  /\ UNCHANGED <<linked, live, gone, calm>>

(* Mutant of FetchRepos: a 401 is taken for a removed app at once.         *)
FetchReposOnce(r) ==
  /\ req[r].at = "fetch"
  /\ GoTo(r, IF req[r].inst \in live THEN "connected" ELSE "not connected")
  /\ UNCHANGED <<linked, live, gone, tokenOf, calm>>

(* The list.  GitHub refuses a token of a deleted installation, and the    *)
(* first refusal drops it and starts over from the row.  A call that fails *)
(* is answered from the list cache or with an error.                       *)
FetchRepos(r) ==
  /\ req[r].at = "fetch"
  /\ \/ /\ req[r].inst \in live
        /\ GoTo(r, "connected")
        /\ UNCHANGED tokenOf
     \/ /\ req[r].inst \notin live /\ ~req[r].retry
        /\ req' = [req EXCEPT ![r].at = "lookup", ![r].retry = TRUE]
        /\ Dropped(req[r].who)
     \/ /\ GoTo(r, "error")
        /\ UNCHANGED tokenOf
  /\ UNCHANGED <<linked, live, gone, calm>>

AnswerList(r) ==
  /\ req[r].at \in Answered
  /\ req' = [req EXCEPT ![r] = NoReq]
  /\ calm' = calm \ {r}
  /\ UNCHANGED <<linked, live, gone, tokenOf>>

-----------------------------------------------------------------------------
(* The person installs the app; the browser comes back with the id.        *)
Install(r) ==
  /\ req[r].at = "idle"
  /\ \E m \in Members, i \in Installs \ gone :
       /\ live' = live \cup {i}
       /\ req' = [req EXCEPT ![r] = NewReq("add", m, i)]
  /\ UNCHANGED <<linked, gone, tokenOf, calm>>

(* GitHubAppCallback: the row first, then a token is fetched into the      *)
(* cache if it can be.                                                     *)
AddInstallationID(r) ==
  /\ req[r].at = "add"
  /\ \/ /\ linked' = [linked EXCEPT ![req[r].who] = req[r].inst]
        /\ Disturb
        /\ GoTo(r, "prewarm")
     \/ /\ req' = [req EXCEPT ![r] = NoReq]
        /\ UNCHANGED <<linked, calm>>
  /\ UNCHANGED <<live, gone, tokenOf>>

Prewarm(r) ==
  /\ req[r].at = "prewarm"
  /\ \/ /\ req[r].inst \in live
        /\ GoTo(r, "store")
     \/ req' = [req EXCEPT ![r] = NoReq]
  /\ UNCHANGED <<linked, live, gone, tokenOf, calm>>

StoreWarm(r) ==
  /\ req[r].at = "store"
  /\ tokenOf' = [tokenOf EXCEPT ![req[r].who] = req[r].inst]
  /\ req' = [req EXCEPT ![r] = NoReq]
  /\ UNCHANGED <<linked, live, gone, calm>>

(* The app is removed at GitHub.                                           *)
Uninstall ==
  /\ \E i \in live :
       /\ live' = live \ {i}
       /\ gone' = gone \cup {i}
       /\ calm' = {r \in calm : linked[req[r].who] # i}
  /\ UNCHANGED <<linked, tokenOf, req>>

(* The webhook of it: at any time after, again, or never.  It looks for a  *)
(* profile with the installation, drops that profile's token (nobody's,    *)
(* when there is none), and clears the rows.                               *)
GitHubAppWebHook(r) ==
  /\ req[r].at = "idle"
  /\ \E i \in gone :
       LET mine == {m \in Members : linked[m] = i} IN
       /\ \/ \E m \in mine : Dropped(m)
          \/ mine = {} /\ UNCHANGED tokenOf
       /\ Hold(r, "clear", i)
  /\ UNCHANGED <<linked, live, gone, calm>>

WebHookClears(r) ==
  /\ req[r].at = "clear"
  /\ linked' \in {linked, Unlinked(req[r].inst)}
  /\ Disturb
  /\ req' = [req EXCEPT ![r] = NoReq]
  /\ UNCHANGED <<live, gone, tokenOf>>

(* 58 minutes pass, or the cache restarts.                                 *)
TokenExpires ==
  /\ \E m \in Members : tokenOf[m] # NoInst /\ Dropped(m)
  /\ UNCHANGED <<linked, live, gone, req, calm>>

ListStep(r) ==
  \/ GetUserRepos(r) \/ GetInstallationToken(r) \/ GetInstallationID(r)
  \/ InstallationToken(r) \/ SetInstallationToken(r)
  \/ ForgetInstallation(r) \/ DeleteInstallationToken(r)
  \/ FetchRepos(r) \/ AnswerList(r)

HookStep(r) ==
  \/ Install(r) \/ AddInstallationID(r) \/ Prewarm(r) \/ StoreWarm(r)
  \/ GitHubAppWebHook(r) \/ WebHookClears(r)

InstNext ==
  \/ Uninstall \/ TokenExpires
  \/ \E r \in Requests : ListStep(r) \/ HookStep(r)

InstSpec == InstInit /\ [][InstNext]_instVars

-----------------------------------------------------------------------------
(* The healing of a dead row (handler.go:470) and the webhook, late or     *)
(* repeated, never unlink an installation that exists: it may have been    *)
(* linked after they learnt that another one is gone.  Only a request that *)
(* GitHub refused because of the app itself (client.go:70) does.           *)
SparesLiveInstall ==
  [][\A m \in Members :
       linked[m] \in live /\ linked'[m] = NoInst =>
         \E r \in Requests : /\ req[r].at = "forget live" /\ req[r].inst = linked[m]
                            /\ req'[r].at = "drop"]_instVars

(* A list request is not answered "not connected" (handler.go:553, 589) if *)
(* the profile kept the one live installation it had and every call was    *)
(* answered, whatever old token the cache still holds.                     *)
CalmMeansConnected == \A r \in calm : req[r].at # "not connected"
=============================================================================
