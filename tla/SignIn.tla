------------------------------- MODULE SignIn -------------------------------
(***************************************************************************)
(* Signing in and linking a second provider, in one browser with several   *)
(* tabs (auth/handler.go, auth/services.go).  A flow starts with a         *)
(* redirect that sets cookies, goes away to the provider, and comes back   *)
(* as a callback.  The callback reads the cookies when it arrives, runs    *)
(* its statements one by one, and its Set-Cookie lines reach the browser   *)
(* only with the response.  Whether it signs in or links is decided by a   *)
(* cookie that belongs to the browser and not to the flow.                 *)
(***************************************************************************)
EXTENDS FiniteSets

CONSTANTS
  Flows,      \* redirects to a provider; a flow is its random state value
  Profiles,   \* ids a new row may get; bounds how many there are
  Accounts,   \* accounts the person has, at GitHub and at GitLab alike
  NoOne       \* no profile, no account, no cookie

ASSUME NoOneIsNoFlow == NoOne \notin Flows

VARIABLES
  users,      \* profile -> provider -> the account in the row
  cookie,     \* the browser's "state", "link" and "session" cookies
  flow        \* flow -> how far it is and what its handler holds

signInVars == <<users, cookie, flow>>

Providers == {"github", "gitlab"}
ProfileOrNone == Profiles \cup {NoOne}
AccountOrNone == Accounts \cup {NoOne}
NewFlow == [at |-> "new", provider |-> "github", asked |-> NoOne, link |-> NoOne,
            account |-> NoOne, user |-> NoOne]
FlowState ==
  [at : {"new", "away", "callback", "create", "save", "answer", "over"},
   provider : Providers, asked : ProfileOrNone, link : ProfileOrNone,
   account : AccountOrNone, user : ProfileOrNone]

SignInTypeOK ==
  /\ users \in [Profiles -> [Providers -> AccountOrNone]]
  /\ cookie \in [state : Flows \cup {NoOne}, link : ProfileOrNone, session : ProfileOrNone]
  /\ flow \in [Flows -> FlowState]

SignInInit ==
  /\ users = [u \in Profiles |-> [p \in Providers |-> NoOne]]
  /\ cookie = [state |-> NoOne, link |-> NoOne, session |-> NoOne]
  /\ flow = [f \in Flows |-> NewFlow]

(* A row has one provider at least.                                        *)
Exists(u) == \E p \in Providers : users[u][p] # NoOne
Holders(p, a) == {u \in Profiles : users[u][p] = a}
Mine(f) == Holders(flow[f].provider, flow[f].account)

-----------------------------------------------------------------------------
(* The redirect: a new state value replaces the browser's, the link cookie *)
(* becomes link.                                                           *)
Leave(f, p, asked, link) ==
  /\ flow[f].at = "new"
  /\ flow' = [flow EXCEPT ![f].at = "away", ![f].provider = p, ![f].asked = asked]
  /\ cookie' = [cookie EXCEPT !.state = f, !.link = link]
  /\ UNCHANGED users

(* GitHubAuth does not touch a link cookie that is still there.            *)
GitHubAuth(f) == Leave(f, "github", NoOne, cookie.link)

(* Mutant of GitLabAuth: the sign-in leaves the link cookie, as GitHub's   *)
(* does.                                                                   *)
GitLabAuthKeeping(f) == Leave(f, "gitlab", NoOne, cookie.link)

GitLabAuth(f) == Leave(f, "gitlab", NoOne, NoOne)

GitHubLink(f) == cookie.session # NoOne /\ Leave(f, "github", cookie.session, cookie.session)
GitLabLink(f) == cookie.session # NoOne /\ Leave(f, "gitlab", cookie.session, cookie.session)

(* The provider sends the browser back, with the account the person chose  *)
(* there.  Another state in the cookie ends the flow with an error.        *)
Callback(f) ==
  /\ flow[f].at = "away"
  /\ IF cookie.state = f
     THEN \E a \in Accounts :
            flow' = [flow EXCEPT ![f].at = "callback", ![f].account = a,
                                 ![f].link = cookie.link]
     ELSE flow' = [flow EXCEPT ![f].at = "over"]
  /\ UNCHANGED <<users, cookie>>

(* The exchange of the code or the request for the profile fails: the      *)
(* handler answers before it looks at the link cookie.                     *)
ExchangeFails(f) ==
  /\ flow[f].at = "callback"
  /\ flow' = [flow EXCEPT ![f].at = "answer", ![f].link = NoOne]
  /\ UNCHANGED <<users, cookie>>

(* AttachGitHub, AttachGitLab: one UPDATE that overwrites the column and   *)
(* is refused when another row has the account.                            *)
Attach(f) ==
  /\ flow[f].at = "callback" /\ flow[f].link # NoOne
  /\ \/ /\ Mine(f) \subseteq {flow[f].link}
        /\ users' = [users EXCEPT ![flow[f].link][flow[f].provider] = flow[f].account]
     \/ UNCHANGED users          \* the account is taken, or the statement fails
  /\ flow' = [flow EXCEPT ![f].at = "answer"]
  /\ UNCHANGED cookie

-----------------------------------------------------------------------------
(* After GitHub the tokens are made at once, after GitLab the pair is      *)
(* stored first, with a statement of its own.                              *)
Found(f, u) ==
  flow' = [flow EXCEPT ![f].user = u,
             ![f].at = IF flow[f].provider = "gitlab" THEN "save" ELSE "answer"]

(* DoesUserExists, GetIDByGitLabID.                                        *)
LookUp(f) ==
  /\ flow[f].at = "callback" /\ flow[f].link = NoOne
  /\ IF Mine(f) = {} THEN flow' = [flow EXCEPT ![f].at = "create"]
     ELSE \E u \in Mine(f) : Found(f, u)
  /\ UNCHANGED <<users, cookie>>

CreateUser(f) ==
  /\ flow[f].at = "create"
  /\ IF Mine(f) # {}             \* another request was faster: unique violation
     THEN /\ flow' = [flow EXCEPT ![f].at = "answer"]
          /\ UNCHANGED users
     ELSE \E u \in Profiles :
            /\ ~Exists(u)
            /\ users' = [users EXCEPT ![u][flow[f].provider] = flow[f].account]
            /\ Found(f, u)
  /\ UNCHANGED cookie

(* SaveGitLabToken; when it fails the row stays and nobody is signed in.   *)
SaveToken(f) ==
  /\ flow[f].at = "save"
  /\ \E u \in {flow[f].user, NoOne} : flow' = [flow EXCEPT ![f].at = "answer", ![f].user = u]
  /\ UNCHANGED <<users, cookie>>

(* The response: the state cookie goes, the link cookie after a link, the  *)
(* session comes after a sign-in.  It may never reach the browser.         *)
Respond(f) ==
  /\ flow[f].at = "answer"
  /\ flow' = [flow EXCEPT ![f].at = "over"]
  /\ \/ cookie' = [state |-> NoOne,
                   link |-> IF flow[f].link # NoOne THEN NoOne ELSE cookie.link,
                   session |-> IF flow[f].user # NoOne THEN flow[f].user ELSE cookie.session]
     \/ UNCHANGED cookie
  /\ UNCHANGED users

(* Ten minutes, an hour and thirty days.                                   *)
CookieExpires ==
  /\ \E c \in {"state", "link", "session"} :
       /\ cookie[c] # NoOne
       /\ cookie' = [cookie EXCEPT ![c] = NoOne]
  /\ UNCHANGED <<users, flow>>

FlowStep(f) ==
  \/ GitHubAuth(f) \/ GitLabAuth(f) \/ GitHubLink(f) \/ GitLabLink(f)
  \/ Callback(f) \/ ExchangeFails(f) \/ Attach(f)
  \/ LookUp(f) \/ CreateUser(f) \/ SaveToken(f) \/ Respond(f)

SignInNext == CookieExpires \/ \E f \in Flows : FlowStep(f)

SignInSpec == SignInInit /\ [][SignInNext]_signInVars

-----------------------------------------------------------------------------
(* "a clean login" (handler.go:281): a GitLab account is written into a    *)
(* profile that exists only by a flow that somebody signed in to that very *)
(* profile started in order to link GitLab, whatever other flows were      *)
(* started, abandoned or answered late in the same browser.                *)
LinkWasAsked ==
  [][\A u \in Profiles :
       Exists(u) /\ users'[u]["gitlab"] # users[u]["gitlab"] =>
         \E f \in Flows : flow[f].asked = u /\ flow[f].provider = "gitlab"
                          /\ flow[f].at = "callback" /\ flow'[f].at = "answer"]_signInVars
=============================================================================
