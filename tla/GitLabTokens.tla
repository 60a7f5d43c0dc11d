---------------------------- MODULE GitLabTokens ----------------------------
(***************************************************************************)
(* The GitLab tokens of one profile (auth/services.go, gitlab/client.go).  *)
(* GitLab hands out pairs of an access and a refresh token.  The refresh   *)
(* token rotates: it is good for one exchange, and the pair it returns     *)
(* must take its place in the profile's row.  Repository lists and deploys *)
(* ask for the token on goroutines of their own, sign-in and linking store *)
(* pairs of new grants, and nothing but the row orders them.               *)
(***************************************************************************)
EXTENDS FiniteSets

CONSTANTS
  TokenCalls,  \* requests that hold or may hold a token: list, deploy, callback
  Pairs,       \* token pairs; bounds how many are ever issued
  NoPair

ASSUME NoPairOK == NoPair \notin Pairs

VARIABLES
  tokenRow,    \* users.gitlab_token_enc
  issued,      \* pairs GitLab has handed out
  expired,     \* pairs whose access token is due for a refresh
  used,        \* pairs whose refresh token was exchanged
  heir,        \* pair -> the pair it was exchanged for
  cut,         \* pairs that died when the user revoked the application
  lostPairs,   \* pairs that were handed out and reached nobody's row
  call         \* call -> where it is, the pair it read, the pair it holds

tokenVars == <<tokenRow, issued, expired, used, heir, cut, lostPairs, call>>

Idle == [at |-> "idle", old |-> NoPair, new |-> NoPair]

PairOrNone == Pairs \cup {NoPair}
CallState == [at : {"idle", "read", "holds"}, old : PairOrNone, new : PairOrNone]

TokenTypeOK ==
  /\ tokenRow \in PairOrNone
  /\ issued \subseteq Pairs
  /\ expired \subseteq issued /\ used \subseteq issued /\ cut \subseteq issued
  /\ lostPairs \subseteq issued
  /\ heir \in [Pairs -> PairOrNone]
  /\ call \in [TokenCalls -> CallState]

TokenInit ==
  /\ tokenRow = NoPair
  /\ issued = {} /\ expired = {} /\ used = {} /\ cut = {} /\ lostPairs = {}
  /\ heir = [p \in Pairs |-> NoPair]
  /\ call = [c \in TokenCalls |-> Idle]

Dead(p) == p \in used \cup cut

-----------------------------------------------------------------------------
(* A callback of sign-in or of linking: the code is exchanged for a pair.  *)
ExchangeCode(c) ==
  /\ call[c].at = "idle"
  /\ \E p \in Pairs \ issued :
       /\ issued' = issued \cup {p}
       /\ call' = [call EXCEPT ![c] = [at |-> "holds", old |-> NoPair, new |-> p]]
  /\ UNCHANGED <<tokenRow, expired, used, heir, cut, lostPairs>>

(* GitLabToken reads the row.  A token that is not due is used as it is,   *)
(* and changes nothing; one that is due is taken to GitLab.                *)
ReadToken(c) ==
  /\ call[c].at = "idle"
  /\ tokenRow \in expired
  /\ call' = [call EXCEPT ![c] = [at |-> "read", old |-> tokenRow, new |-> NoPair]]
  /\ UNCHANGED <<tokenRow, issued, expired, used, heir, cut, lostPairs>>

(* GitLab exchanges the refresh token.  The answer may be lost on the way  *)
(* or the request be cancelled: the token is used up all the same.         *)
RefreshToken(c) ==
  /\ call[c].at = "read"
  /\ ~Dead(call[c].old)
  /\ \E p \in Pairs \ issued :
       /\ issued' = issued \cup {p}
       /\ used' = used \cup {call[c].old}
       /\ heir' = [heir EXCEPT ![call[c].old] = p]
       /\ \/ /\ call' = [call EXCEPT ![c] = [at |-> "holds", old |-> @.old, new |-> p]]
             /\ UNCHANGED lostPairs
          \/ /\ call' = [call EXCEPT ![c] = Idle]
             /\ lostPairs' = lostPairs \cup {p}
  /\ UNCHANGED <<tokenRow, expired, cut>>

(* GitLab answers 400, or cannot be reached: the call ends with an error.  *)
RefreshFails(c) ==
  /\ call[c].at = "read"
  /\ call' = [call EXCEPT ![c] = Idle]
  /\ UNCHANGED <<tokenRow, issued, expired, used, heir, cut, lostPairs>>

(* Mutant of SaveGitLabToken: a refreshed pair is used and not stored.     *)
SaveGitLabTokenNot(c) ==
  /\ call[c].at = "holds"
  /\ tokenRow' = IF call[c].old = NoPair THEN call[c].new ELSE tokenRow
  /\ call' = [call EXCEPT ![c] = Idle]
  /\ UNCHANGED <<issued, expired, used, heir, cut, lostPairs>>

(* SaveGitLabToken and AttachGitLab write whatever pair their caller       *)
(* holds, without looking at the one that is there.                        *)
SaveGitLabToken(c) ==
  /\ call[c].at = "holds"
  /\ tokenRow' = call[c].new
  /\ call' = [call EXCEPT ![c] = Idle]
  /\ UNCHANGED <<issued, expired, used, heir, cut, lostPairs>>

(* The statement fails, or the request was cancelled and its context with  *)
(* it; in a callback also the request for the profile.                     *)
SaveFails(c) ==
  /\ call[c].at = "holds"
  /\ lostPairs' = lostPairs \cup {call[c].new}
  /\ call' = [call EXCEPT ![c] = Idle]
  /\ UNCHANGED <<tokenRow, issued, expired, used, heir, cut>>

-----------------------------------------------------------------------------
(* Two hours pass.                                                         *)
Expire ==
  /\ \E p \in issued \ expired : expired' = expired \cup {p}
  /\ UNCHANGED <<tokenRow, issued, used, heir, cut, lostPairs, call>>

(* The user revokes the application at GitLab.                             *)
Revoke ==
  /\ issued \ cut # {}
  /\ cut' = issued
  /\ UNCHANGED <<tokenRow, issued, expired, used, heir, lostPairs, call>>

Held == {call[c].new : c \in {x \in TokenCalls : call[x].at = "holds"}}

(* The process dies with everything its goroutines hold.                   *)
TokenCrash ==
  /\ \E c \in TokenCalls : call[c] # Idle
  /\ lostPairs' = lostPairs \cup Held
  /\ call' = [c \in TokenCalls |-> Idle]
  /\ UNCHANGED <<tokenRow, issued, expired, used, heir, cut>>

TokenCall(c) ==
  \/ ExchangeCode(c) \/ ReadToken(c)
  \/ RefreshToken(c) \/ RefreshFails(c)
  \/ SaveGitLabToken(c) \/ SaveFails(c)

TokenNext ==
  \/ Expire \/ Revoke \/ TokenCrash
  \/ \E c \in TokenCalls : TokenCall(c)

TokenSpec == TokenInit /\ [][TokenNext]_tokenVars

-----------------------------------------------------------------------------
(* A profile whose GitLab access was not revoked keeps a refresh token     *)
(* that works, whatever runs beside whatever (services.go:121-122 stores   *)
(* the new pair because the old one is dead): if the stored one is used    *)
(* up, the pair it was exchanged for is on its way to the row, or was lost *)
(* to a failed write, a lost answer or a crash.                            *)
StoredTokenLives ==
  tokenRow \in used \ cut => heir[tokenRow] \in Held \cup lostPairs
=============================================================================
