-------------------------- MODULE Services_proofs --------------------------
(* Proofs for services around the deploys: the GitLab tokens, the access a *)
(* run keeps to its server, the disk monitor, the installations, the flows *)
(* of a sign-in, the rate limiter and the activity feed.  Each is proved   *)
(* of its own specification, for any number of calls, keys, machines,      *)
(* requests, flows, clients, days and events.                              *)
EXTENDS MCServices, Integers, FiniteSetTheorems, SequenceTheorems, TLAPS

-----------------------------------------------------------------------------
(* GitLab tokens.  A pair that a call holds is in no other hand and in no  *)
(* row, and nobody has read it to exchange it; so it has not been used     *)
(* when it is stored.                                                      *)
OneHand ==
  \A c, d \in TokenCalls :
    call[c].at = "holds" =>
      /\ call[c].new \in issued \ used
      /\ call[c].new # tokenRow
      /\ call[d].at = "read" => call[d].old # call[c].new
      /\ call[d].at = "holds" /\ d # c => call[d].new # call[c].new

KnownPairs ==
  /\ tokenRow \in issued \cup {NoPair}
  /\ \A c \in TokenCalls : call[c].at = "read" => call[c].old \in issued

TokenIInv == TokenTypeOK /\ KnownPairs /\ OneHand /\ StoredTokenLives

LEMMA CallReplaced ==
  ASSUME TokenTypeOK, NEW c \in TokenCalls, NEW r,
         call' = [call EXCEPT ![c] = r]
  PROVE  \A d \in TokenCalls : call'[d] = IF d = c THEN r ELSE call[d]
BY DEF TokenTypeOK

LEMMA CallTyped ==
  ASSUME TokenTypeOK, NEW c \in TokenCalls,
         NEW a \in {"idle", "read", "holds"}, NEW o \in PairOrNone, NEW n \in PairOrNone,
         call' = [call EXCEPT ![c] = [at |-> a, old |-> o, new |-> n]]
  PROVE  call' \in [TokenCalls -> CallState]
BY DEF TokenTypeOK, CallState

LEMMA TokenInitIInv == ASSUME TokenInit PROVE TokenIInv
<1>1. \A c \in TokenCalls : call[c] = Idle
  BY DEF TokenInit
<1>2. TokenTypeOK
  BY DEF TokenInit, TokenTypeOK, Idle, CallState, PairOrNone
<1>3. KnownPairs /\ OneHand
  BY <1>1 DEF TokenInit, KnownPairs, OneHand, Idle
<1>4. StoredTokenLives
  BY DEF TokenInit, StoredTokenLives
<1> QED
  BY <1>2, <1>3, <1>4 DEF TokenIInv

LEMMA TokenStepIInv == ASSUME TokenIInv, [TokenNext]_tokenVars PROVE TokenIInv'
<1> USE DEF TokenIInv
<1>1. ASSUME NEW c \in TokenCalls, ExchangeCode(c) PROVE TokenIInv'
  <2>1. PICK p \in Pairs \ issued :
          /\ issued' = issued \cup {p}
          /\ call' = [call EXCEPT ![c] = [at |-> "holds", old |-> NoPair, new |-> p]]
    BY <1>1 DEF ExchangeCode
  <2>2. \A d \in TokenCalls : call'[d] = IF d = c THEN [at |-> "holds", old |-> NoPair, new |-> p]
                                         ELSE call[d]
    BY <2>1, CallReplaced
  <2>3. TokenTypeOK'
    <3>1. call' \in [TokenCalls -> CallState]
      BY <2>1, CallTyped DEF PairOrNone
    <3> QED BY <1>1, <2>1, <3>1 DEF ExchangeCode, TokenTypeOK
  <2>4. KnownPairs' /\ OneHand'
    BY <1>1, <2>1, <2>2, NoPairOK DEF ExchangeCode, KnownPairs, OneHand, TokenTypeOK
  <2>5. StoredTokenLives'
    <3>1. Held \subseteq Held'
      BY <1>1, <2>2 DEF ExchangeCode, Held
    <3> QED BY <1>1, <3>1 DEF ExchangeCode, StoredTokenLives
  <2> QED BY <2>3, <2>4, <2>5
<1>2. ASSUME NEW c \in TokenCalls, ReadToken(c) PROVE TokenIInv'
  <2>1. \A d \in TokenCalls : call'[d] = IF d = c THEN [at |-> "read", old |-> tokenRow, new |-> NoPair]
                                         ELSE call[d]
    BY <1>2, CallReplaced DEF ReadToken
  <2>2. TokenTypeOK'
    <3>1. call' \in [TokenCalls -> CallState]
      BY <1>2, CallTyped DEF ReadToken, PairOrNone, TokenTypeOK
    <3> QED BY <1>2, <3>1 DEF ReadToken, TokenTypeOK
  <2>3. KnownPairs' /\ OneHand'
    BY <1>2, <2>1 DEF ReadToken, KnownPairs, OneHand, TokenTypeOK
  <2>4. StoredTokenLives'
    <3>1. Held \subseteq Held'
      BY <1>2, <2>1 DEF ReadToken, Held
    <3> QED BY <1>2, <3>1 DEF ReadToken, StoredTokenLives
  <2> QED BY <2>2, <2>3, <2>4
<1>3. ASSUME NEW c \in TokenCalls, RefreshToken(c) PROVE TokenIInv'
  <2>1. PICK p \in Pairs \ issued :
          /\ issued' = issued \cup {p}
          /\ used' = used \cup {call[c].old}
          /\ heir' = [heir EXCEPT ![call[c].old] = p]
          /\ \/ /\ call' = [call EXCEPT ![c] = [at |-> "holds", old |-> @.old, new |-> p]]
                /\ UNCHANGED lostPairs
             \/ /\ call' = [call EXCEPT ![c] = Idle]
                /\ lostPairs' = lostPairs \cup {p}
    BY <1>3 DEF RefreshToken
  <2>2. call[c].at = "read" /\ call[c].old \in issued /\ call[c].old \notin used
        /\ tokenRow' = tokenRow /\ expired' = expired /\ cut' = cut
    BY <1>3 DEF RefreshToken, Dead, KnownPairs
  <2>3. call' = [call EXCEPT ![c] = [at |-> "holds", old |-> call[c].old, new |-> p]]
        \/ call' = [call EXCEPT ![c] = [at |-> "idle", old |-> NoPair, new |-> NoPair]]
    BY <2>1 DEF Idle
  <2>4. \A d \in TokenCalls : d # c => call'[d] = call[d]
    BY <2>3, CallReplaced
  <2>5. \/ call'[c] = [at |-> "holds", old |-> call[c].old, new |-> p]
        \/ call'[c] = [at |-> "idle", old |-> NoPair, new |-> NoPair]
    BY <2>3, CallReplaced
  <2>6. TokenTypeOK'
    <3>1. call[c].old \in PairOrNone
      BY <2>2 DEF TokenTypeOK, PairOrNone
    <3>2. call' \in [TokenCalls -> CallState]
      BY <2>3, <3>1, CallTyped DEF PairOrNone
    <3>3. lostPairs' \subseteq issued'
      BY <2>1 DEF TokenTypeOK
    <3>4. heir' \in [Pairs -> PairOrNone]
      BY <2>1 DEF TokenTypeOK, PairOrNone
    <3> QED BY <2>1, <2>2, <3>2, <3>3, <3>4 DEF TokenTypeOK
  <2>7. KnownPairs' /\ OneHand'
    BY <2>1, <2>2, <2>4, <2>5, NoPairOK DEF KnownPairs, OneHand, TokenTypeOK
  <2>8. StoredTokenLives'
    <3>1. Held \subseteq Held'
      BY <2>2, <2>4 DEF Held
    <3>2. p \in Held' \cup lostPairs'
      <4>1. CASE call'[c] = [at |-> "holds", old |-> call[c].old, new |-> p]
        BY <4>1 DEF Held
      <4>2. CASE call' = [call EXCEPT ![c] = Idle]
        <5>1. call'[c] = Idle
          BY <4>2 DEF TokenTypeOK
        <5>2. call'[c].at # "holds"
          BY <5>1 DEF Idle
        <5> QED BY <2>1, <5>2 DEF TokenTypeOK
      <4> QED BY <2>1, <2>5, <4>1, <4>2
    <3>3. lostPairs \subseteq lostPairs'
      BY <2>1
    <3>4. CASE tokenRow = call[c].old
      BY <2>1, <2>2, <3>2, <3>4 DEF StoredTokenLives, TokenTypeOK
    <3>5. CASE tokenRow # call[c].old
      BY <2>1, <2>2, <3>1, <3>3, <3>5 DEF StoredTokenLives, TokenTypeOK
    <3> QED BY <3>4, <3>5
  <2> QED BY <2>6, <2>7, <2>8
<1>4. ASSUME NEW c \in TokenCalls, call' = [call EXCEPT ![c] = Idle], call[c].at = "read",
             UNCHANGED <<tokenRow, issued, expired, used, heir, cut, lostPairs>>
      PROVE  TokenIInv'
  <2>1. \A d \in TokenCalls : call'[d] = IF d = c THEN Idle ELSE call[d]
    BY <1>4, CallReplaced
  <2>2. TokenTypeOK'
    <3>1. call' \in [TokenCalls -> CallState]
      BY <1>4, CallTyped DEF Idle, PairOrNone
    <3> QED BY <1>4, <3>1 DEF TokenTypeOK
  <2>3. KnownPairs' /\ OneHand'
    BY <1>4, <2>1 DEF KnownPairs, OneHand, Idle
  <2>4. StoredTokenLives'
    <3>1. Held \subseteq Held'
      BY <1>4, <2>1 DEF Held
    <3> QED BY <1>4, <3>1 DEF StoredTokenLives
  <2> QED BY <2>2, <2>3, <2>4
<1>5. ASSUME NEW c \in TokenCalls, SaveGitLabToken(c) PROVE TokenIInv'
  <2>1. \A d \in TokenCalls : call'[d] = IF d = c THEN Idle ELSE call[d]
    BY <1>5, CallReplaced DEF SaveGitLabToken
  <2>2. call[c].new \in issued \ used
    BY <1>5 DEF SaveGitLabToken, OneHand
  <2>3. TokenTypeOK'
    <3>1. call' \in [TokenCalls -> CallState]
      BY <1>5, CallTyped DEF Idle, PairOrNone, SaveGitLabToken
    <3> QED BY <1>5, <2>2, <3>1 DEF SaveGitLabToken, TokenTypeOK, PairOrNone
  <2>4. KnownPairs' /\ OneHand'
    BY <1>5, <2>1, <2>2 DEF SaveGitLabToken, KnownPairs, OneHand, Idle
  <2>5. StoredTokenLives'
    BY <1>5, <2>2 DEF SaveGitLabToken, StoredTokenLives
  <2> QED BY <2>3, <2>4, <2>5
<1>6. ASSUME NEW c \in TokenCalls, SaveFails(c) PROVE TokenIInv'
  <2>1. \A d \in TokenCalls : call'[d] = IF d = c THEN Idle ELSE call[d]
    BY <1>6, CallReplaced DEF SaveFails
  <2>2. call[c].new \in issued \ used
    BY <1>6 DEF SaveFails, OneHand
  <2>3. TokenTypeOK'
    <3>1. call' \in [TokenCalls -> CallState]
      BY <1>6, CallTyped DEF Idle, PairOrNone, SaveFails
    <3> QED BY <1>6, <2>2, <3>1 DEF SaveFails, TokenTypeOK
  <2>4. KnownPairs' /\ OneHand'
    BY <1>6, <2>1 DEF SaveFails, KnownPairs, OneHand, Idle
  <2>5. StoredTokenLives'
    <3>1. Held \subseteq Held' \cup {call[c].new}
      BY <2>1 DEF Held
    <3> QED BY <1>6, <3>1 DEF SaveFails, StoredTokenLives
  <2> QED BY <2>3, <2>4, <2>5
<1>7. ASSUME Expire PROVE TokenIInv'
  BY <1>7 DEF Expire, TokenTypeOK, KnownPairs, OneHand, StoredTokenLives, Held
<1>8. ASSUME Revoke PROVE TokenIInv'
  BY <1>8 DEF Revoke, TokenTypeOK, KnownPairs, OneHand, StoredTokenLives
<1>9. ASSUME TokenCrash PROVE TokenIInv'
  <2>1. \A c \in TokenCalls : call'[c] = Idle
    BY <1>9 DEF TokenCrash
  <2>2. Held \subseteq issued
    BY DEF Held, OneHand
  <2>3. TokenTypeOK'
    <3>1. call' \in [TokenCalls -> CallState]
      BY <1>9 DEF TokenCrash, Idle, CallState, PairOrNone
    <3> QED BY <1>9, <2>2, <3>1 DEF TokenCrash, TokenTypeOK
  <2>4. KnownPairs' /\ OneHand'
    BY <1>9, <2>1 DEF TokenCrash, KnownPairs, OneHand, Idle
  <2>5. StoredTokenLives'
    BY <1>9 DEF TokenCrash, StoredTokenLives
  <2> QED BY <2>3, <2>4, <2>5
<1>10. CASE UNCHANGED tokenVars
  BY <1>10 DEF tokenVars, TokenTypeOK, KnownPairs, OneHand, StoredTokenLives, Held
<1>11. ASSUME NEW c \in TokenCalls, RefreshFails(c) PROVE TokenIInv'
  BY <1>4, <1>11 DEF RefreshFails
<1> QED
  BY <1>1, <1>2, <1>3, <1>5, <1>6, <1>7, <1>8, <1>9, <1>10, <1>11 DEF TokenNext, TokenCall

(* The stored refresh token works, or its heir is on its way or was lost   *)
(* (auth/services.go:121), for any number of calls and pairs.              *)
THEOREM StoredTokensLive == TokenSpec => []StoredTokenLives
<1>1. TokenIInv => StoredTokenLives
  BY DEF TokenIInv
<1> QED
  BY <1>1, TokenInitIInv, TokenStepIInv, PTL DEF TokenSpec

-----------------------------------------------------------------------------
(* The hand-over.  While a row has what its run knew, it is the run that   *)
(* must know a pair that works: a line is never taken away, and the run    *)
(* changes its pair only with a line that is there.                        *)
RunOpensServer == whole /\ pairRun.key # NoKey => Opens(pairRun)

HandoverIInv ==
  /\ HandoverTypeOK
  /\ <<"root", Granted>> \in lines
  /\ step = "access" => pairRun = First
  /\ step = "idle" /\ whole => pairRow = pairRun
  /\ RunOpensServer

LEMMA HandoverInitIInv == ASSUME HandoverInit PROVE HandoverIInv
BY DEF HandoverInit, HandoverIInv, HandoverTypeOK, RunOpensServer, First, Pair, Logins, AccessKeys

(* The row after a save of one of its two columns is a pair.               *)
LEMMA RowTyped ==
  ASSUME HandoverTypeOK,
         pairRow' \in {pairRow, [pairRow EXCEPT !.key = pairRun.key],
                       [pairRow EXCEPT !.user = pairRun.user]}
  PROVE  pairRow' \in Pair
BY DEF HandoverTypeOK, Pair

LEMMA HandoverStepIInv == ASSUME HandoverIInv, [HandoverNext]_handoverVars PROVE HandoverIInv'
<1> USE DEF HandoverIInv
<1>1. First \in Pair /\ First.key = NoKey /\ First.user = "root"
  BY DEF First, Pair, Logins
<1>2. pairRun \in Pair /\ pairRow \in Pair
  BY DEF HandoverTypeOK
<1>3. ASSUME StartDeploy PROVE HandoverIInv'
  BY <1>1, <1>3 DEF StartDeploy, HandoverTypeOK, RunOpensServer
<1>4. ASSUME StartRedeploy PROVE HandoverIInv'
  BY <1>2, <1>4 DEF StartRedeploy, HandoverTypeOK, RunOpensServer, Opens
<1>5. ASSUME KeepAccessKey PROVE HandoverIInv'
  <2>1. pairRun' = [First EXCEPT !.key = Granted]
    BY <1>5 DEF KeepAccessKey
  <2>2. pairRun' = [user |-> "root", key |-> Granted]
    BY <2>1 DEF First
  <2>3. Opens(pairRun)'
    BY <1>5, <2>2 DEF KeepAccessKey, Opens
  <2>4. HandoverTypeOK'
    BY <1>5, <2>2 DEF KeepAccessKey, HandoverTypeOK, Pair, Logins, AccessKeys
  <2> QED BY <1>5, <2>3, <2>4 DEF KeepAccessKey, RunOpensServer
<1>6. ASSUME InstallAccessKey PROVE HandoverIInv'
  <2>1. PICK k \in Generated :
          \/ /\ lines' = lines \cup {<<"root", k>>}
             /\ pairRun' = [pairRun EXCEPT !.key = k]
             /\ step' = "saveKey"
          \/ /\ lines' \in {lines, lines \cup {<<"root", k>>}}
             /\ step' = "steps"
             /\ UNCHANGED pairRun
    BY <1>6 DEF InstallAccessKey
  <2>2. k \in AccessKeys /\ <<"root", k>> \in Logins \X AccessKeys
    BY DEF Generated, AccessKeys, Logins
  <2>3. pairRow' = pairRow /\ whole' = whole /\ pairRun = First
    BY <1>6 DEF InstallAccessKey
  <2>4. CASE pairRun' = [pairRun EXCEPT !.key = k] /\ lines' = lines \cup {<<"root", k>>}
             /\ step' = "saveKey"
    <3>1. pairRun' = [user |-> "root", key |-> k]
      BY <2>3, <2>4 DEF First
    <3>2. HandoverTypeOK'
      BY <2>2, <2>3, <2>4, <3>1 DEF HandoverTypeOK, Pair, Logins
    <3>3. Opens(pairRun)'
      BY <2>4, <3>1 DEF Opens
    <3> QED BY <2>3, <2>4, <3>2, <3>3 DEF RunOpensServer
  <2>5. CASE pairRun' = pairRun /\ step' = "steps" /\ lines' \in {lines, lines \cup {<<"root", k>>}}
    <3>1. HandoverTypeOK'
      BY <2>2, <2>3, <2>5 DEF HandoverTypeOK
    <3> QED BY <1>1, <2>3, <2>5, <3>1 DEF RunOpensServer
  <2> QED BY <2>1, <2>4, <2>5
<1>7. ASSUME SaveSSHKey PROVE HandoverIInv'
  <2>1. pairRow' \in Pair
    BY <1>7, RowTyped DEF SaveSSHKey
  <2> QED BY <1>7, <2>1 DEF SaveSSHKey, HandoverTypeOK, RunOpensServer, Opens
<1>8. ASSUME RunSteps PROVE HandoverIInv'
  <2>1. pairRow' \in Pair
    BY <1>8, RowTyped DEF RunSteps, Persisted
  <2> QED BY <1>8, <2>1 DEF RunSteps, HandoverTypeOK, RunOpensServer, Opens
<1>9. ASSUME HandoverNonRoot PROVE HandoverIInv'
  <2>1. PICK k \in Generated :
          \/ /\ lines' = lines \cup {<<"deploy", k>>}
             /\ pairRun' = [user |-> "deploy", key |-> k]
             /\ step' = "saveDeployKey"
          \/ /\ lines' \in {lines, lines \cup {<<"deploy", k>>}}
             /\ step' = "final"
             /\ UNCHANGED pairRun
    BY <1>9 DEF HandoverNonRoot
  <2>2. k \in AccessKeys /\ <<"deploy", k>> \in Logins \X AccessKeys
    BY DEF Generated, AccessKeys, Logins
  <2>3. pairRow' = pairRow /\ whole' = whole
    BY <1>9 DEF HandoverNonRoot
  <2>4. HandoverTypeOK'
    BY <2>1, <2>2, <2>3 DEF HandoverTypeOK, Pair, Logins
  <2>5. RunOpensServer'
    BY <2>1, <2>3 DEF RunOpensServer, Opens
  <2> QED BY <2>1, <2>3, <2>4, <2>5
<1>10. ASSUME FinishRun PROVE HandoverIInv'
  <2>1. pairRow' \in Pair
    BY <1>10, RowTyped DEF FinishRun, Persisted
  <2>2. whole' \in BOOLEAN /\ (whole' => whole /\ pairRow' = pairRun)
    BY <1>10 DEF FinishRun, RunOver
  <2> QED BY <1>10, <2>1, <2>2 DEF FinishRun, RunOver, HandoverTypeOK, RunOpensServer, Opens
<1>11. ASSUME RunDies PROVE HandoverIInv'
  <2>1. whole' \in BOOLEAN /\ (whole' => whole /\ pairRow' = pairRun)
    BY <1>11 DEF RunDies, RunOver
  <2> QED BY <1>11, <2>1 DEF RunDies, RunOver, HandoverTypeOK, RunOpensServer, Opens
<1>12. CASE UNCHANGED handoverVars
  BY <1>12 DEF handoverVars, HandoverTypeOK, RunOpensServer, Opens
<1> QED
  BY <1>3, <1>4, <1>5, <1>6, <1>7, <1>8, <1>9, <1>10, <1>11, <1>12 DEF HandoverNext

(* A row whose run got its statements through opens the server             *)
(* (deployer.go:604, 788), for any number of deploys and keys.             *)
THEOREM RowsOpenServers == HandoverSpec => []RowOpensServer
<1>1. HandoverIInv => RowOpensServer
  BY DEF HandoverIInv, RunOpensServer, RowOpensServer
<1> QED
  BY <1>1, HandoverInitIInv, HandoverStepIInv, PTL DEF HandoverSpec

-----------------------------------------------------------------------------
(* The disk monitor.  A machine that is not reported, is low, or has been  *)
(* measured low was low since the report before; only one goroutine has it *)
(* at a time.                                                              *)
OneProbe ==
  \A s, t \in Sites :
    probe[s].at # "none" /\ probe[t].at # "none" /\ HostOf[s] = HostOf[t] => s = t

DipKnown ==
  /\ \A m \in Machines : disk[m] = "low" \/ ~diskAlerted[m] => dipped[m]
  /\ \A s \in Sites :
       /\ probe[s].at = "measured" /\ probe[s].pct = "low" => dipped[HostOf[s]]
       /\ probe[s].at = "send full" => diskAlerted[HostOf[s]] /\ dipped[HostOf[s]]

DiskIInv == DiskTypeOK /\ OneProbe /\ DipKnown

LEMMA DiskInitIInv == ASSUME DiskInit PROVE DiskIInv
BY DEF DiskInit, DiskIInv, DiskTypeOK, OneProbe, DipKnown, NoRound, NoProbe, ForAll, Levels, Probe

LEMMA ProbeReplaced ==
  ASSUME DiskTypeOK, NEW s \in Sites, NEW r, probe' = [probe EXCEPT ![s] = r]
  PROVE  \A t \in Sites : probe'[t] = IF t = s THEN r ELSE probe[t]
BY DEF DiskTypeOK

(* A step of the goroutine of one site, which changes at most where it is. *)
LEMMA ProbeMoves ==
  ASSUME DiskTypeOK, NEW s \in Sites,
         NEW a \in {"none", "queued", "ssh", "measured", "send full", "send ok"},
         probe' = [probe EXCEPT ![s].at = a]
  PROVE  /\ probe' \in [Sites -> Probe]
         /\ probe'[s].at = a /\ probe'[s].pct = probe[s].pct
         /\ \A t \in Sites : t # s => probe'[t] = probe[t]
BY DEF DiskTypeOK, Probe

LEMMA DiskStepIInv == ASSUME DiskIInv, [DiskNext]_diskVars PROVE DiskIInv'
<1> USE DisksOK DEF DiskIInv
<1>1. NoProbe \in Probe /\ NoProbe.at = "none"
  BY DEF NoProbe, Probe, Levels
<1>2. \A s \in Sites : HostOf[s] \in Machines /\ probe[s] \in Probe
  BY DEF DisksOK, DiskTypeOK
<1>3. ASSUME StartRound PROVE DiskIInv'
  <2>1. PICK R \in MonitoredServers :
          probe' = [s \in Sites |-> IF s \in R THEN [NoProbe EXCEPT !.at = "queued"] ELSE NoProbe]
    BY <1>3 DEF StartRound
  <2>2. [NoProbe EXCEPT !.at = "queued"] = [at |-> "queued", pct |-> "low"]
    BY DEF NoProbe
  <2>3. \A s \in Sites : probe'[s] = IF s \in R THEN [at |-> "queued", pct |-> "low"] ELSE NoProbe
    BY <2>1, <2>2
  <2>4. DiskTypeOK'
    BY <1>1, <1>3, <2>1, <2>2 DEF StartRound, DiskTypeOK, Probe, Levels
  <2>5. OneProbe'
    BY <1>1, <2>3 DEF OneProbe, MonitoredServers
  <2>6. DipKnown'
    BY <1>1, <1>3, <2>3 DEF StartRound, DipKnown
  <2> QED BY <2>4, <2>5, <2>6
<1>4. ASSUME NEW s \in Sites, Acquire(s) PROVE DiskIInv'
  <2>1. /\ probe' \in [Sites -> Probe] /\ probe'[s].at = "ssh"
        /\ \A t \in Sites : t # s => probe'[t] = probe[t]
    BY <1>4, ProbeMoves DEF Acquire
  <2>2. probe[s].at = "queued"
    BY <1>4 DEF Acquire
  <2>3. DiskTypeOK'
    BY <1>4, <2>1 DEF Acquire, DiskTypeOK
  <2>4. OneProbe'
    BY <2>1, <2>2 DEF OneProbe
  <2>5. DipKnown'
    BY <1>4, <2>1 DEF Acquire, DipKnown
  <2> QED BY <2>3, <2>4, <2>5
<1>5. ASSUME NEW s \in Sites, Measure(s) PROVE DiskIInv'
  <2>1. PICK r \in {[at |-> "measured", pct |-> disk[HostOf[s]]], NoProbe} :
          probe' = [probe EXCEPT ![s] = r]
    BY <1>5 DEF Measure
  <2>2. \A t \in Sites : probe'[t] = IF t = s THEN r ELSE probe[t]
    BY <2>1, ProbeReplaced
  <2>3. r \in Probe
    <3>1. disk[HostOf[s]] \in Levels
      BY <1>2 DEF DiskTypeOK
    <3>2. [at |-> "measured", pct |-> disk[HostOf[s]]] \in Probe
      BY <3>1 DEF Probe
    <3> QED BY <1>1, <2>1, <3>2
  <2>4. DiskTypeOK'
    BY <1>5, <2>1, <2>3 DEF Measure, DiskTypeOK
  <2>5. OneProbe'
    BY <1>5, <2>2 DEF Measure, OneProbe
  <2>6. DipKnown'
    <3>1. disk' = disk /\ diskAlerted' = diskAlerted /\ dipped' = dipped
      BY <1>5 DEF Measure
    <3>2. r.at # "send full" /\ (r.at = "measured" => r.pct = disk[HostOf[s]])
      <4>1. CASE r = NoProbe
        BY <1>1, <4>1
      <4>2. CASE r = [at |-> "measured", pct |-> disk[HostOf[s]]]
        <5>1. r.at = "measured" /\ r.pct = disk[HostOf[s]]
          BY <4>2
        <5> QED BY <5>1
      <4> QED BY <2>1, <4>1, <4>2
    <3>3. r.at = "measured" /\ r.pct = "low" => dipped[HostOf[s]]
      BY <1>2, <3>2 DEF DipKnown
    <3>4. \A t \in Sites :
            /\ probe'[t].at = "measured" /\ probe'[t].pct = "low" => dipped[HostOf[t]]
            /\ probe'[t].at = "send full" => diskAlerted[HostOf[t]] /\ dipped[HostOf[t]]
      BY <2>2, <3>2, <3>3 DEF DipKnown
    <3> QED BY <3>1, <3>4 DEF DipKnown
  <2> QED BY <2>4, <2>5, <2>6
<1>6. ASSUME NEW s \in Sites, Decide(s) PROVE DiskIInv'
  <2> DEFINE m == HostOf[s]
  <2>1. m \in Machines /\ probe[s].at = "measured" /\ disk' = disk /\ dipped' = dipped
    BY <1>2, <1>6 DEF Decide
  <2>2. CASE /\ probe[s].pct = "full" /\ ~diskAlerted[m]
             /\ diskAlerted' = [diskAlerted EXCEPT ![m] = TRUE]
             /\ probe' = [probe EXCEPT ![s].at = "send full"]
    <3>1. /\ probe' \in [Sites -> Probe] /\ probe'[s].at = "send full"
          /\ \A t \in Sites : t # s => probe'[t] = probe[t]
      BY <2>2, ProbeMoves
    <3>2. /\ diskAlerted' \in [Machines -> BOOLEAN] /\ diskAlerted'[m] = TRUE
          /\ \A x \in Machines : x # m => diskAlerted'[x] = diskAlerted[x]
      BY <2>1, <2>2 DEF DiskTypeOK
    <3>3. dipped[m]
      BY <2>1, <2>2 DEF DipKnown
    <3>4. DipKnown'
      BY <1>2, <2>1, <3>1, <3>2, <3>3 DEF DipKnown
    <3> QED BY <2>1, <3>1, <3>2, <3>4 DEF DiskTypeOK, OneProbe
  <2>3. CASE /\ probe[s].pct = "low" /\ diskAlerted[m]
             /\ diskAlerted' = [diskAlerted EXCEPT ![m] = FALSE]
             /\ probe' = [probe EXCEPT ![s].at = "send ok"]
    <3>1. /\ probe' \in [Sites -> Probe] /\ probe'[s].at = "send ok"
          /\ \A t \in Sites : t # s => probe'[t] = probe[t]
      BY <2>3, ProbeMoves
    <3>2. /\ diskAlerted' \in [Machines -> BOOLEAN]
          /\ \A x \in Machines : x # m => diskAlerted'[x] = diskAlerted[x]
      BY <2>1, <2>3 DEF DiskTypeOK
    <3>3. dipped[m]
      BY <2>1, <2>3 DEF DipKnown
    <3>4. \A t \in Sites : t # s /\ probe[t].at = "send full" => HostOf[t] # m
      BY <2>1 DEF OneProbe
    <3>5. DipKnown'
      BY <1>2, <2>1, <3>1, <3>2, <3>3, <3>4 DEF DipKnown
    <3> QED BY ZenonT(40), <2>1, <3>1, <3>2, <3>5 DEF DiskTypeOK, OneProbe
  <2>4. CASE probe' = [probe EXCEPT ![s] = NoProbe] /\ UNCHANGED diskAlerted
    <3>1. \A t \in Sites : probe'[t] = IF t = s THEN NoProbe ELSE probe[t]
      BY <2>4, ProbeReplaced
    <3>2. DiskTypeOK'
      BY <1>1, <2>1, <2>4 DEF DiskTypeOK
    <3>3. OneProbe' /\ DipKnown'
      BY ZenonT(40), <1>1, <2>1, <2>4, <3>1 DEF OneProbe, DipKnown
    <3> QED BY <3>2, <3>3
  <2> QED BY <1>6, <2>2, <2>3, <2>4 DEF Decide
<1>7. ASSUME NEW s \in Sites, NotifyServer(s) PROVE DiskIInv'
  <2> DEFINE m == HostOf[s]
  <2>1. m \in Machines /\ probe[s].at \in {"send full", "send ok"}
        /\ disk' = disk /\ diskAlerted' = diskAlerted /\ probe' = [probe EXCEPT ![s] = NoProbe]
    BY <1>2, <1>7 DEF NotifyServer
  <2>2. \A t \in Sites : probe'[t] = IF t = s THEN NoProbe ELSE probe[t]
    BY <2>1, ProbeReplaced
  <2>3. \A t \in Sites : t # s /\ probe[t].at # "none" => HostOf[t] # m
    BY <2>1 DEF OneProbe
  <2>4. CASE probe[s].at = "send full"
    <3>1. dipped' = [dipped EXCEPT ![m] = (disk[m] = "low")] /\ diskAlerted[m]
      BY <1>7, <2>4 DEF NotifyServer, DipKnown
    <3>2. /\ dipped' \in [Machines -> BOOLEAN] /\ dipped'[m] = (disk[m] = "low")
          /\ \A x \in Machines : x # m => dipped'[x] = dipped[x]
      BY <2>1, <3>1 DEF DiskTypeOK
    <3>3. DiskTypeOK' /\ OneProbe'
      BY <1>1, <2>1, <2>2, <3>2 DEF DiskTypeOK, OneProbe
    <3>4. DipKnown'
      <4>1. \A x \in Machines : disk'[x] = "low" \/ ~diskAlerted'[x] => dipped'[x]
        BY <2>1, <3>1, <3>2 DEF DipKnown
      <4>2. \A t \in Sites : probe'[t].at # "none" => t # s /\ HostOf[t] # m
        BY <1>1, <2>2, <2>3
      <4>3. \A t \in Sites : probe'[t].at # "none" =>
              probe'[t] = probe[t] /\ dipped'[HostOf[t]] = dipped[HostOf[t]]
        BY <1>2, <2>2, <3>2, <4>2
      <4>4. \A t \in Sites :
              /\ probe'[t].at = "measured" /\ probe'[t].pct = "low" => dipped'[HostOf[t]]
              /\ probe'[t].at = "send full" => diskAlerted'[HostOf[t]] /\ dipped'[HostOf[t]]
        BY <2>1, <4>3 DEF DipKnown
      <4> QED BY <4>1, <4>4 DEF DipKnown
    <3> QED BY <3>3, <3>4
  <2>5. CASE probe[s].at # "send full"
    <3>1. dipped' = dipped
      BY <1>7, <2>5 DEF NotifyServer
    <3> QED BY <1>1, <2>1, <2>2, <3>1 DEF DiskTypeOK, OneProbe, DipKnown
  <2> QED BY <2>4, <2>5
<1>8. ASSUME DiskChanges PROVE DiskIInv'
  <2>1. PICK m \in Machines, level \in Levels :
          /\ disk' = [disk EXCEPT ![m] = level]
          /\ dipped' = [dipped EXCEPT ![m] = dipped[m] \/ level = "low"]
    BY <1>8 DEF DiskChanges
  <2>2. /\ disk'[m] = level /\ dipped'[m] = (dipped[m] \/ level = "low")
        /\ \A x \in Machines : x # m => disk'[x] = disk[x] /\ dipped'[x] = dipped[x]
    BY <2>1 DEF DiskTypeOK
  <2>3. DiskTypeOK' /\ OneProbe'
    BY <1>8, <2>1 DEF DiskChanges, DiskTypeOK, OneProbe
  <2>4. \A x \in Machines : dipped[x] => dipped'[x]
    BY <2>2
  <2>5. DipKnown'
    BY <1>2, <1>8, <2>2, <2>4 DEF DiskChanges, DipKnown
  <2> QED BY <2>3, <2>5
<1>9. ASSUME MonitorRestarts PROVE DiskIInv'
  BY <1>1, <1>2, <1>9 DEF MonitorRestarts, NoRound, ForAll, DiskTypeOK, OneProbe, DipKnown
<1>10. CASE UNCHANGED diskVars
  BY <1>10 DEF diskVars, DiskTypeOK, OneProbe, DipKnown
<1> QED
  BY <1>3, <1>4, <1>5, <1>6, <1>7, <1>8, <1>9, <1>10 DEF DiskNext

(* One notice for one excursion (diskmon.go:71), for any number of         *)
(* machines, sites and pollers.                                            *)
THEOREM OneNoticePerExcursion == DiskSpec => []FullOnlyAfterDip
<1>1. DiskIInv => FullOnlyAfterDip
  BY DEF DiskIInv, DipKnown, FullOnlyAfterDip
<1> QED
  BY <1>1, DiskInitIInv, DiskStepIInv, PTL DEF DiskSpec

-----------------------------------------------------------------------------
(* Installations.  An id that a row, a token or a request holds was issued *)
(* by GitHub, and what is about to be forgotten is gone for good.  A calm  *)
(* request finds the live installation its profile has.                    *)
Issued == live \cup gone

IdsIssued ==
  \A m \in Members : linked[m] \in Issued \cup {NoInst} /\ tokenOf[m] \in Issued \cup {NoInst}

Holding == {"mint", "set", "fetch", "forget", "forget live", "clear", "add", "prewarm", "store"}
ForMember == {"get", "lookup", "mint", "set", "fetch", "forget", "forget live", "drop",
              "add", "prewarm", "store"}
Calmly == {"get", "lookup", "mint", "set", "fetch", "connected", "error"}

ReqKnows(r) ==
  /\ req[r].at \in Holding => req[r].inst \in Issued
  /\ req[r].at \in {"forget", "clear"} => req[r].inst \in gone
  /\ req[r].at \in ForMember => req[r].who \in Members

StaysCalm(r) ==
  r \in calm =>
    /\ req[r].at \in Calmly /\ req[r].who \in Members
    /\ linked[req[r].who] \in live
    /\ req[r].at = "mint" => req[r].inst = linked[req[r].who]

InstIInv ==
  /\ InstTypeOK
  /\ IdsIssued
  /\ \A r \in Requests : ReqKnows(r) /\ StaysCalm(r)

LEMMA InstInitIInv == ASSUME InstInit PROVE InstIInv
<1>1. \A r \in Requests : req[r] = NoReq /\ NoReq.at = "idle"
  BY DEF InstInit, NoReq, NewReq
<1>2. InstTypeOK
  BY DEF InstInit, InstTypeOK, NoReq, NewReq, ReqState, InstOrNone
<1>3. IdsIssued
  BY DEF InstInit, IdsIssued
<1>4. \A r \in Requests : ReqKnows(r) /\ StaysCalm(r)
  BY <1>1 DEF InstInit, ReqKnows, StaysCalm, Holding, ForMember
<1> QED
  BY <1>2, <1>3, <1>4 DEF InstIInv

Stages == {"idle", "get", "lookup", "mint", "forget", "forget live", "drop", "set", "fetch",
           "connected", "not connected", "error", "add", "prewarm", "store", "clear"}

LEMMA ReqGoesTo ==
  ASSUME InstTypeOK, NEW r \in Requests, NEW a \in Stages, GoTo(r, a)
  PROVE  /\ req' \in [Requests -> ReqState]
         /\ req'[r].at = a
         /\ req'[r].who = req[r].who /\ req'[r].inst = req[r].inst /\ req'[r].retry = req[r].retry
         /\ \A q \in Requests : q # r => req'[q] = req[q]
BY DEF InstTypeOK, GoTo, ReqState, Stages

LEMMA ReqHolds ==
  ASSUME InstTypeOK, NEW r \in Requests, NEW a \in Stages, NEW i \in InstOrNone, Hold(r, a, i)
  PROVE  /\ req' \in [Requests -> ReqState]
         /\ req'[r].at = a /\ req'[r].inst = i /\ req'[r].who = req[r].who
         /\ \A q \in Requests : q # r => req'[q] = req[q]
BY ZenonT(40) DEF InstTypeOK, Hold, ReqState, Stages

LEMMA ReqReplaced ==
  ASSUME InstTypeOK, NEW r \in Requests, NEW e \in ReqState, req' = [req EXCEPT ![r] = e]
  PROVE  /\ req' \in [Requests -> ReqState]
         /\ req'[r] = e
         /\ \A q \in Requests : q # r => req'[q] = req[q]
BY DEF InstTypeOK

LEMMA NoReqTyped == NoReq \in ReqState /\ NoReq.at = "idle"
BY DEF NoReq, NewReq, ReqState, InstOrNone

(* A step of one request leaves the others as they were, if what it does   *)
(* to the rows and to GitHub's installations takes the calm from those it  *)
(* concerns.                                                               *)
LEMMA OthersKnow ==
  ASSUME InstIInv, NEW q \in Requests, req'[q] = req[q],
         Issued \subseteq Issued', gone \subseteq gone',
         q \in calm' => q \in calm /\ linked'[req[q].who] = linked[req[q].who]
                        /\ linked[req[q].who] \in live'
  PROVE  ReqKnows(q)' /\ StaysCalm(q)'
BY DEF InstIInv, ReqKnows, StaysCalm

LEMMA DroppedTyped ==
  ASSUME InstIInv, NEW m, Dropped(m), live' = live, gone' = gone
  PROVE  /\ tokenOf' \in [Members -> InstOrNone]
         /\ \A n \in Members : tokenOf'[n] \in Issued' \cup {NoInst}
<1>1. tokenOf' = tokenOf \/ tokenOf' = [tokenOf EXCEPT ![m] = NoInst]
  BY DEF Dropped
<1> QED
  BY <1>1 DEF InstIInv, InstTypeOK, IdsIssued, Issued, InstOrNone

(* What the steps that touch neither rows nor tokens nor installations     *)
(* have to keep: the request that moves, and the calm it may lose.         *)
LEMMA QuietStep ==
  ASSUME InstIInv, NEW r \in Requests, UNCHANGED <<linked, live, gone, tokenOf>>,
         req' \in [Requests -> ReqState], \A q \in Requests : q # r => req'[q] = req[q],
         calm' \subseteq Requests, calm' \subseteq calm \cup {r},
         ReqKnows(r)', StaysCalm(r)'
  PROVE  InstIInv'
<1>1. \A q \in Requests : q # r => ReqKnows(q)' /\ StaysCalm(q)'
  <2> SUFFICES ASSUME NEW q \in Requests, q # r PROVE ReqKnows(q)' /\ StaysCalm(q)'
    OBVIOUS
  <2>1. q \in calm' => q \in calm /\ linked'[req[q].who] = linked[req[q].who]
                       /\ linked[req[q].who] \in live'
    BY DEF InstIInv, StaysCalm
  <2>2. Issued \subseteq Issued'
    BY DEF Issued
  <2> QED BY <2>1, <2>2, OthersKnow
<1>2. InstTypeOK'
  BY DEF InstIInv, InstTypeOK
<1>3. IdsIssued'
  BY DEF InstIInv, IdsIssued, Issued
<1> QED
  BY <1>1, <1>2, <1>3 DEF InstIInv

(* Requests whose row a step changes lose their calm.                      *)
LEMMA RowStep ==
  ASSUME InstIInv, NEW r \in Requests, Disturb, UNCHANGED <<live, gone, tokenOf>>,
         linked' \in [Members -> InstOrNone],
         \A m \in Members : linked'[m] \in Issued \cup {NoInst},
         req' \in [Requests -> ReqState], \A q \in Requests : q # r => req'[q] = req[q],
         ReqKnows(r)', r \notin calm
  PROVE  InstIInv'
<1>0. r \notin calm' /\ calm' \subseteq calm
  BY DEF Disturb
<1>1. \A q \in Requests : q # r => ReqKnows(q)' /\ StaysCalm(q)'
  <2> SUFFICES ASSUME NEW q \in Requests, q # r PROVE ReqKnows(q)' /\ StaysCalm(q)'
    OBVIOUS
  <2>1. q \in calm' => q \in calm /\ linked'[req[q].who] = linked[req[q].who]
                       /\ linked[req[q].who] \in live'
    BY DEF InstIInv, StaysCalm, Disturb
  <2>2. Issued \subseteq Issued'
    BY DEF Issued
  <2> QED BY <2>1, <2>2, OthersKnow
<1>2. InstTypeOK'
  BY <1>0 DEF InstIInv, InstTypeOK
<1>3. IdsIssued'
  BY DEF InstIInv, IdsIssued, Issued
<1>4. StaysCalm(r)'
  BY <1>0 DEF StaysCalm
<1> QED
  BY <1>1, <1>2, <1>3, <1>4 DEF InstIInv

(* A token of an issued installation goes into the cache, or one leaves.   *)
LEMMA TokenStep ==
  ASSUME InstIInv, NEW r \in Requests, UNCHANGED <<linked, live, gone>>,
         tokenOf' \in [Members -> InstOrNone],
         \A m \in Members : tokenOf'[m] \in Issued' \cup {NoInst},
         req' \in [Requests -> ReqState], \A q \in Requests : q # r => req'[q] = req[q],
         calm' \subseteq calm, ReqKnows(r)', StaysCalm(r)'
  PROVE  InstIInv'
<1>1. \A q \in Requests : q # r => ReqKnows(q)' /\ StaysCalm(q)'
  <2> SUFFICES ASSUME NEW q \in Requests, q # r PROVE ReqKnows(q)' /\ StaysCalm(q)'
    OBVIOUS
  <2>1. q \in calm' => q \in calm /\ linked'[req[q].who] = linked[req[q].who]
                       /\ linked[req[q].who] \in live'
    BY DEF InstIInv, StaysCalm
  <2>2. Issued \subseteq Issued'
    BY DEF Issued
  <2> QED BY <2>1, <2>2, OthersKnow
<1>2. InstTypeOK'
  BY DEF InstIInv, InstTypeOK
<1>3. IdsIssued'
  BY DEF InstIInv, IdsIssued, Issued
<1> QED
  BY <1>1, <1>2, <1>3 DEF InstIInv

LEMMA ListStepIInv ==
  ASSUME InstIInv, NEW r \in Requests, ListStep(r) PROVE InstIInv'
<1> USE DEF InstIInv
<1>1. InstTypeOK /\ ReqKnows(r) /\ StaysCalm(r)
  OBVIOUS
<1>2. CASE GetUserRepos(r)
  <2>1. PICK m \in Members :
          /\ req' = [req EXCEPT ![r] = NewReq("get", m, NoInst)]
          /\ calm' = IF linked[m] \in live THEN calm \cup {r} ELSE calm \ {r}
    BY <1>2 DEF GetUserRepos
  <2> DEFINE e == NewReq("get", m, NoInst)
  <2>2. e.at = "get" /\ e.who = m
    BY DEF NewReq
  <2>3. e \in ReqState
    BY DEF NewReq, ReqState, InstOrNone
  <2> HIDE DEF e
  <2>4. /\ req' \in [Requests -> ReqState] /\ req'[r] = e
        /\ \A q \in Requests : q # r => req'[q] = req[q]
    BY <2>1, <2>3, ReqReplaced DEF e
  <2>5. ReqKnows(r)' /\ StaysCalm(r)'
    BY <1>2, <2>1, <2>2, <2>4 DEF GetUserRepos, ReqKnows, StaysCalm, Holding, ForMember, Calmly
  <2>6. calm' \subseteq Requests /\ calm' \subseteq calm \cup {r}
    BY <2>1 DEF InstTypeOK
  <2> QED BY <1>2, <2>4, <2>5, <2>6, QuietStep DEF GetUserRepos
<1>3. CASE GetInstallationToken(r)
  <2> DEFINE i == tokenOf[req[r].who]
  <2>1. req[r].at = "get" /\ req[r].who \in Members /\ UNCHANGED <<linked, live, gone, tokenOf, calm>>
        /\ i \in Issued \cup {NoInst} /\ i \in InstOrNone
    BY <1>1, <1>3 DEF GetInstallationToken, ReqKnows, ForMember, IdsIssued, InstTypeOK
  <2>2. CASE i # NoInst /\ Hold(r, "fetch", i)
    <3>1. /\ req' \in [Requests -> ReqState]
          /\ req'[r].at = "fetch" /\ req'[r].inst = i /\ req'[r].who = req[r].who
          /\ \A q \in Requests : q # r => req'[q] = req[q]
      BY ZenonT(40), <2>1, <2>2, ReqHolds DEF Stages
    <3>2. ReqKnows(r)' /\ StaysCalm(r)'
      BY <1>1, <2>1, <2>2, <3>1 DEF ReqKnows, StaysCalm, Calmly, Issued
    <3> QED BY <2>1, <3>1, <3>2, QuietStep DEF InstTypeOK
  <2>3. CASE GoTo(r, "lookup")
    <3>1. /\ req' \in [Requests -> ReqState]
          /\ req'[r].at = "lookup" /\ req'[r].who = req[r].who
          /\ \A q \in Requests : q # r => req'[q] = req[q]
      BY <2>3, ReqGoesTo DEF Stages
    <3>2. ReqKnows(r)' /\ StaysCalm(r)'
      BY <1>1, <2>1, <3>1 DEF ReqKnows, StaysCalm, Calmly, Holding
    <3> QED BY <2>1, <3>1, <3>2, QuietStep DEF InstTypeOK
  <2> QED BY <1>3, <2>2, <2>3 DEF GetInstallationToken
<1>4. ASSUME Fails(r), UNCHANGED <<linked, live, gone, tokenOf>> PROVE InstIInv'
  <2>1. PICK a \in {"not connected", "error"} : GoTo(r, a)
    BY <1>4 DEF Fails
  <2>2. /\ req' \in [Requests -> ReqState] /\ req'[r].at = a
        /\ \A q \in Requests : q # r => req'[q] = req[q]
    BY <2>1, ReqGoesTo DEF Stages
  <2>3. calm' = calm \ {r}
    BY <1>4 DEF Fails
  <2>4. ReqKnows(r)' /\ StaysCalm(r)'
    BY <2>2, <2>3 DEF ReqKnows, StaysCalm, Holding, ForMember
  <2> QED BY <1>4, <2>2, <2>3, <2>4, QuietStep DEF InstTypeOK
<1>5. CASE GetInstallationID(r)
  <2> DEFINE i == linked[req[r].who]
  <2>1. req[r].at = "lookup" /\ req[r].who \in Members /\ UNCHANGED <<linked, live, gone, tokenOf>>
        /\ i \in Issued \cup {NoInst} /\ i \in InstOrNone
    BY <1>1, <1>5 DEF GetInstallationID, ReqKnows, ForMember, IdsIssued, InstTypeOK
  <2>2. CASE i = NoInst /\ GoTo(r, "not connected") /\ UNCHANGED calm
    <3>1. /\ req' \in [Requests -> ReqState] /\ req'[r].at = "not connected"
          /\ \A q \in Requests : q # r => req'[q] = req[q]
      BY <2>2, ReqGoesTo DEF Stages
    <3>2. r \notin calm
      BY <1>1, <2>2, NoInstOK DEF StaysCalm, InstTypeOK
    <3>3. ReqKnows(r)' /\ StaysCalm(r)'
      BY <2>2, <3>1, <3>2 DEF ReqKnows, StaysCalm, Holding, ForMember
    <3> QED BY <2>1, <2>2, <3>1, <3>3, QuietStep DEF InstTypeOK
  <2>3. CASE i # NoInst /\ Hold(r, "mint", i) /\ UNCHANGED calm
    <3>1. /\ req' \in [Requests -> ReqState]
          /\ req'[r].at = "mint" /\ req'[r].inst = i /\ req'[r].who = req[r].who
          /\ \A q \in Requests : q # r => req'[q] = req[q]
      BY ZenonT(40), <2>1, <2>3, ReqHolds DEF Stages
    <3>2. ReqKnows(r)' /\ StaysCalm(r)'
      BY <1>1, <2>1, <2>3, <3>1 DEF ReqKnows, StaysCalm, Calmly, Issued
    <3> QED BY <2>1, <2>3, <3>1, <3>2, QuietStep DEF InstTypeOK
  <2> QED BY <1>4, <1>5, <2>1, <2>2, <2>3 DEF GetInstallationID
<1>6. CASE InstallationToken(r)
  <2>1. req[r].at = "mint" /\ UNCHANGED <<linked, live, gone, tokenOf>>
    BY <1>6 DEF InstallationToken
  <2>2. req[r].inst \in Issued /\ req[r].who \in Members
    BY <1>1, <2>1 DEF ReqKnows, Holding, ForMember
  <2>3. CASE req[r].inst \in live /\ GoTo(r, "set") /\ UNCHANGED calm
    <3>1. /\ req' \in [Requests -> ReqState] /\ req'[r].at = "set"
          /\ req'[r].inst = req[r].inst /\ req'[r].who = req[r].who
          /\ \A q \in Requests : q # r => req'[q] = req[q]
      BY <2>3, ReqGoesTo DEF Stages
    <3>2. ReqKnows(r)' /\ StaysCalm(r)'
      BY <1>1, <2>1, <2>2, <2>3, <3>1 DEF ReqKnows, StaysCalm, Calmly, Issued
    <3> QED BY <2>1, <2>3, <3>1, <3>2, QuietStep DEF InstTypeOK
  <2>4. CASE req[r].inst \notin live /\ GoTo(r, "forget") /\ UNCHANGED calm
    <3>1. /\ req' \in [Requests -> ReqState] /\ req'[r].at = "forget"
          /\ req'[r].inst = req[r].inst /\ req'[r].who = req[r].who
          /\ \A q \in Requests : q # r => req'[q] = req[q]
      BY <2>4, ReqGoesTo DEF Stages
    <3>2. r \notin calm
      BY <1>1, <2>1, <2>4 DEF StaysCalm
    <3>3. ReqKnows(r)' /\ StaysCalm(r)'
      BY <2>1, <2>2, <2>4, <3>1, <3>2 DEF ReqKnows, StaysCalm, Issued
    <3> QED BY <2>1, <2>4, <3>1, <3>3, QuietStep DEF InstTypeOK
  <2>5. CASE req[r].inst \in live /\ GoTo(r, "forget live") /\ calm' = calm \ {r}
    <3>1. /\ req' \in [Requests -> ReqState] /\ req'[r].at = "forget live"
          /\ req'[r].inst = req[r].inst /\ req'[r].who = req[r].who
          /\ \A q \in Requests : q # r => req'[q] = req[q]
      BY <2>5, ReqGoesTo DEF Stages
    <3>2. ReqKnows(r)' /\ StaysCalm(r)'
      BY <2>1, <2>2, <2>5, <3>1 DEF ReqKnows, StaysCalm, Issued
    <3> QED BY <2>1, <2>5, <3>1, <3>2, QuietStep DEF InstTypeOK
  <2> QED BY <1>4, <1>6, <2>1, <2>3, <2>4, <2>5 DEF InstallationToken
<1>7. CASE SetInstallationToken(r)
  <2>1. req[r].at = "set" /\ UNCHANGED <<linked, live, gone>>
        /\ req[r].inst \in Issued /\ req[r].inst \in InstOrNone /\ req[r].who \in Members
    BY <1>1, <1>7 DEF SetInstallationToken, ReqKnows, Holding, ForMember, InstTypeOK, ReqState
  <2>2. CASE /\ tokenOf' = [tokenOf EXCEPT ![req[r].who] = req[r].inst]
             /\ GoTo(r, "fetch") /\ UNCHANGED calm
    <3>1. /\ req' \in [Requests -> ReqState] /\ req'[r].at = "fetch"
          /\ req'[r].inst = req[r].inst /\ req'[r].who = req[r].who
          /\ \A q \in Requests : q # r => req'[q] = req[q]
      BY <2>2, ReqGoesTo DEF Stages
    <3>2. ReqKnows(r)' /\ StaysCalm(r)'
      BY <1>1, <2>1, <2>2, <3>1 DEF ReqKnows, StaysCalm, Calmly, Issued
    <3>3. /\ tokenOf' \in [Members -> InstOrNone]
          /\ \A m \in Members : tokenOf'[m] \in Issued' \cup {NoInst}
      BY <2>1, <2>2 DEF InstTypeOK, IdsIssued, Issued
    <3> QED BY <2>1, <2>2, <3>1, <3>2, <3>3, TokenStep
  <2> QED BY <1>4, <1>7, <2>1, <2>2 DEF SetInstallationToken
<1>8. CASE ForgetInstallation(r)
  <2>1. /\ req[r].at \in {"forget", "forget live"} /\ UNCHANGED <<live, gone, tokenOf>>
        /\ linked' \in {linked, Unlinked(req[r].inst)} /\ Disturb /\ GoTo(r, "drop")
    BY <1>8 DEF ForgetInstallation, ClearInstallationID
  <2>2. /\ req' \in [Requests -> ReqState] /\ req'[r].at = "drop" /\ req'[r].who = req[r].who
        /\ \A q \in Requests : q # r => req'[q] = req[q]
    BY <2>1, ReqGoesTo DEF Stages
  <2>3. r \notin calm
    BY <1>1, <2>1 DEF StaysCalm, Calmly
  <2>4. ReqKnows(r)'
    BY <1>1, <2>1, <2>2 DEF ReqKnows, Holding, ForMember
  <2>5. /\ linked' \in [Members -> InstOrNone]
        /\ \A m \in Members : linked'[m] \in Issued \cup {NoInst}
    BY <2>1 DEF Unlinked, InstTypeOK, InstOrNone, IdsIssued
  <2> QED BY <2>1, <2>2, <2>3, <2>4, <2>5, RowStep
<1>9. CASE DeleteInstallationToken(r)
  <2>1. /\ req[r].at = "drop" /\ UNCHANGED <<linked, live, gone, calm>>
        /\ Dropped(req[r].who) /\ GoTo(r, "not connected")
    BY <1>9 DEF DeleteInstallationToken
  <2>2. /\ req' \in [Requests -> ReqState] /\ req'[r].at = "not connected"
        /\ \A q \in Requests : q # r => req'[q] = req[q]
    BY <2>1, ReqGoesTo DEF Stages
  <2>3. r \notin calm
    BY <1>1, <2>1 DEF StaysCalm, Calmly
  <2>4. ReqKnows(r)' /\ StaysCalm(r)'
    BY <2>1, <2>2, <2>3 DEF ReqKnows, StaysCalm, Holding, ForMember
  <2>5. /\ tokenOf' \in [Members -> InstOrNone]
        /\ \A m \in Members : tokenOf'[m] \in Issued' \cup {NoInst}
    BY <2>1, DroppedTyped
  <2> QED BY <2>1, <2>2, <2>4, <2>5, TokenStep
<1>10. CASE FetchRepos(r)
  <2>1. req[r].at = "fetch" /\ UNCHANGED <<linked, live, gone, calm>> /\ req[r].who \in Members
    BY <1>1, <1>10 DEF FetchRepos, ReqKnows, ForMember
  <2>2. ASSUME NEW a \in {"connected", "error"}, GoTo(r, a), UNCHANGED tokenOf
        PROVE  InstIInv'
    <3>1. /\ req' \in [Requests -> ReqState] /\ req'[r].at = a /\ req'[r].who = req[r].who
          /\ \A q \in Requests : q # r => req'[q] = req[q]
      BY <2>2, ReqGoesTo DEF Stages
    <3>2. ReqKnows(r)' /\ StaysCalm(r)'
      BY <1>1, <2>1, <3>1 DEF ReqKnows, StaysCalm, Calmly, Holding, ForMember
    <3> QED BY <2>1, <2>2, <3>1, <3>2, QuietStep DEF InstTypeOK
  <2>3. CASE /\ req' = [req EXCEPT ![r].at = "lookup", ![r].retry = TRUE]
             /\ Dropped(req[r].who)
    <3>1. /\ req' \in [Requests -> ReqState] /\ req'[r].at = "lookup" /\ req'[r].who = req[r].who
          /\ \A q \in Requests : q # r => req'[q] = req[q]
      BY ZenonT(40), <2>3 DEF InstTypeOK, ReqState
    <3>2. ReqKnows(r)' /\ StaysCalm(r)'
      BY <1>1, <2>1, <3>1 DEF ReqKnows, StaysCalm, Calmly, Holding, ForMember
    <3>3. /\ tokenOf' \in [Members -> InstOrNone]
          /\ \A m \in Members : tokenOf'[m] \in Issued' \cup {NoInst}
      BY <2>1, <2>3, DroppedTyped
    <3> QED BY <2>1, <3>1, <3>2, <3>3, TokenStep
  <2> QED BY <1>10, <2>2, <2>3 DEF FetchRepos
<1>11. CASE AnswerList(r)
  <2>1. /\ UNCHANGED <<linked, live, gone, tokenOf>>
        /\ req' = [req EXCEPT ![r] = NoReq] /\ calm' = calm \ {r}
    BY <1>11 DEF AnswerList
  <2>2. /\ req' \in [Requests -> ReqState] /\ req'[r] = NoReq
        /\ \A q \in Requests : q # r => req'[q] = req[q]
    BY <2>1, NoReqTyped, ReqReplaced
  <2>3. ReqKnows(r)' /\ StaysCalm(r)'
    BY <2>1, <2>2, NoReqTyped DEF ReqKnows, StaysCalm, Holding, ForMember
  <2> QED BY <2>1, <2>2, <2>3, QuietStep DEF InstTypeOK
<1> QED
  BY <1>2, <1>3, <1>5, <1>6, <1>7, <1>8, <1>9, <1>10, <1>11 DEF ListStep

(* Hooks and callbacks begin with a handler that is idle, and so with none *)
(* that is calm.                                                           *)
LEMMA IdleNotCalm ==
  ASSUME InstIInv, NEW r \in Requests,
         req[r].at \in {"idle", "add", "prewarm", "store", "clear", "forget", "forget live", "drop"}
  PROVE  r \notin calm
BY DEF InstIInv, StaysCalm, Calmly

LEMMA HookStepIInv ==
  ASSUME InstIInv, NEW r \in Requests, HookStep(r) PROVE InstIInv'
<1> USE DEF InstIInv
<1>1. InstTypeOK /\ ReqKnows(r) /\ StaysCalm(r)
  OBVIOUS
<1>2. CASE Install(r)
  <2>1. PICK m \in Members, i \in Installs \ gone :
          /\ live' = live \cup {i}
          /\ req' = [req EXCEPT ![r] = NewReq("add", m, i)]
    BY <1>2 DEF Install
  <2>2. UNCHANGED <<linked, gone, tokenOf, calm>> /\ r \notin calm
    BY <1>2, IdleNotCalm DEF Install
  <2> DEFINE e == NewReq("add", m, i)
  <2>3. e.at = "add" /\ e.who = m /\ e.inst = i
    BY DEF NewReq
  <2>4. e \in ReqState
    BY DEF NewReq, ReqState, InstOrNone
  <2> HIDE DEF e
  <2>5. /\ req' \in [Requests -> ReqState] /\ req'[r] = e
        /\ \A q \in Requests : q # r => req'[q] = req[q]
    BY <2>1, <2>4, ReqReplaced DEF e
  <2>6. Issued \subseteq Issued' /\ live \subseteq live' /\ i \in Issued'
    BY <2>1, <2>2 DEF Issued
  <2>7. ReqKnows(r)' /\ StaysCalm(r)'
    BY <2>2, <2>3, <2>5, <2>6 DEF ReqKnows, StaysCalm
  <2>8. \A q \in Requests : q # r => ReqKnows(q)' /\ StaysCalm(q)'
    <3> SUFFICES ASSUME NEW q \in Requests, q # r PROVE ReqKnows(q)' /\ StaysCalm(q)'
      OBVIOUS
    <3>1. q \in calm' => q \in calm /\ linked'[req[q].who] = linked[req[q].who]
                         /\ linked[req[q].who] \in live'
      BY <2>2, <2>6 DEF StaysCalm
    <3> QED BY <2>2, <2>5, <2>6, <3>1, OthersKnow
  <2>9. InstTypeOK'
    BY <2>1, <2>2, <2>5 DEF InstTypeOK
  <2>10. IdsIssued'
    BY <2>2, <2>6 DEF IdsIssued
  <2> QED BY <2>7, <2>8, <2>9, <2>10
<1>3. CASE AddInstallationID(r)
  <2>1. req[r].at = "add" /\ UNCHANGED <<live, gone, tokenOf>> /\ r \notin calm
        /\ req[r].inst \in Issued /\ req[r].inst \in InstOrNone /\ req[r].who \in Members
    BY <1>1, <1>3, IdleNotCalm
       DEF AddInstallationID, ReqKnows, Holding, ForMember, InstTypeOK, ReqState
  <2>2. CASE /\ linked' = [linked EXCEPT ![req[r].who] = req[r].inst]
             /\ Disturb /\ GoTo(r, "prewarm")
    <3>1. /\ req' \in [Requests -> ReqState] /\ req'[r].at = "prewarm"
          /\ req'[r].inst = req[r].inst /\ req'[r].who = req[r].who
          /\ \A q \in Requests : q # r => req'[q] = req[q]
      BY <2>2, ReqGoesTo DEF Stages
    <3>2. ReqKnows(r)'
      BY <2>1, <3>1 DEF ReqKnows, Issued
    <3>3. /\ linked' \in [Members -> InstOrNone]
          /\ \A m \in Members : linked'[m] \in Issued \cup {NoInst}
      BY <2>1, <2>2 DEF InstTypeOK, IdsIssued
    <3> QED BY <2>1, <2>2, <3>1, <3>2, <3>3, RowStep
  <2>3. CASE req' = [req EXCEPT ![r] = NoReq] /\ UNCHANGED <<linked, calm>>
    <3>1. /\ req' \in [Requests -> ReqState] /\ req'[r] = NoReq
          /\ \A q \in Requests : q # r => req'[q] = req[q]
      BY <2>3, NoReqTyped, ReqReplaced
    <3>2. ReqKnows(r)' /\ StaysCalm(r)'
      BY <2>1, <2>3, <3>1, NoReqTyped DEF ReqKnows, StaysCalm, Holding, ForMember
    <3> QED BY <2>1, <2>3, <3>1, <3>2, QuietStep DEF InstTypeOK
  <2> QED BY <1>3, <2>2, <2>3 DEF AddInstallationID
<1>4. CASE Prewarm(r)
  <2>1. req[r].at = "prewarm" /\ UNCHANGED <<linked, live, gone, tokenOf, calm>> /\ r \notin calm
        /\ req[r].inst \in Issued /\ req[r].who \in Members
    BY <1>1, <1>4, IdleNotCalm DEF Prewarm, ReqKnows, Holding, ForMember
  <2>2. CASE GoTo(r, "store")
    <3>1. /\ req' \in [Requests -> ReqState] /\ req'[r].at = "store"
          /\ req'[r].inst = req[r].inst /\ req'[r].who = req[r].who
          /\ \A q \in Requests : q # r => req'[q] = req[q]
      BY <2>2, ReqGoesTo DEF Stages
    <3>2. ReqKnows(r)' /\ StaysCalm(r)'
      BY <2>1, <3>1 DEF ReqKnows, StaysCalm, Issued
    <3> QED BY <2>1, <3>1, <3>2, QuietStep DEF InstTypeOK
  <2>3. CASE req' = [req EXCEPT ![r] = NoReq]
    <3>1. /\ req' \in [Requests -> ReqState] /\ req'[r] = NoReq
          /\ \A q \in Requests : q # r => req'[q] = req[q]
      BY <2>3, NoReqTyped, ReqReplaced
    <3>2. ReqKnows(r)' /\ StaysCalm(r)'
      BY <2>1, <3>1, NoReqTyped DEF ReqKnows, StaysCalm, Holding, ForMember
    <3> QED BY <2>1, <3>1, <3>2, QuietStep DEF InstTypeOK
  <2> QED BY <1>4, <2>2, <2>3 DEF Prewarm
<1>5. CASE StoreWarm(r)
  <2>1. req[r].at = "store" /\ UNCHANGED <<linked, live, gone, calm>> /\ r \notin calm
        /\ req[r].inst \in Issued /\ req[r].inst \in InstOrNone
        /\ tokenOf' = [tokenOf EXCEPT ![req[r].who] = req[r].inst]
        /\ req' = [req EXCEPT ![r] = NoReq]
    BY <1>1, <1>5, IdleNotCalm DEF StoreWarm, ReqKnows, Holding, InstTypeOK, ReqState
  <2>2. /\ req' \in [Requests -> ReqState] /\ req'[r] = NoReq
        /\ \A q \in Requests : q # r => req'[q] = req[q]
    BY <2>1, NoReqTyped, ReqReplaced
  <2>3. ReqKnows(r)' /\ StaysCalm(r)'
    BY <2>1, <2>2, NoReqTyped DEF ReqKnows, StaysCalm, Holding, ForMember
  <2>4. /\ tokenOf' \in [Members -> InstOrNone]
        /\ \A m \in Members : tokenOf'[m] \in Issued' \cup {NoInst}
    BY <2>1 DEF InstTypeOK, IdsIssued, Issued
  <2> QED BY <2>1, <2>2, <2>3, <2>4, TokenStep
<1>6. CASE GitHubAppWebHook(r)
  <2>1. PICK i \in gone :
          /\ \/ \E m \in {x \in Members : linked[x] = i} : Dropped(m)
             \/ UNCHANGED tokenOf
          /\ Hold(r, "clear", i)
    BY <1>6 DEF GitHubAppWebHook
  <2>2. UNCHANGED <<linked, live, gone, calm>> /\ r \notin calm /\ i \in InstOrNone
    BY <1>6, IdleNotCalm DEF GitHubAppWebHook, InstTypeOK, InstOrNone
  <2>3. /\ req' \in [Requests -> ReqState] /\ req'[r].at = "clear" /\ req'[r].inst = i
        /\ \A q \in Requests : q # r => req'[q] = req[q]
    BY <2>1, <2>2, ReqHolds DEF Stages
  <2>4. ReqKnows(r)' /\ StaysCalm(r)'
    BY <2>2, <2>3 DEF ReqKnows, StaysCalm, ForMember, Issued
  <2>5. /\ tokenOf' \in [Members -> InstOrNone]
        /\ \A m \in Members : tokenOf'[m] \in Issued' \cup {NoInst}
    <3>1. CASE UNCHANGED tokenOf
      BY <2>2, <3>1 DEF InstTypeOK, IdsIssued, Issued
    <3>2. CASE \E m \in {x \in Members : linked[x] = i} : Dropped(m)
      BY <2>2, <3>2, DroppedTyped
    <3> QED BY <2>1, <3>1, <3>2
  <2> QED BY <2>2, <2>3, <2>4, <2>5, TokenStep
<1>7. CASE WebHookClears(r)
  <2>1. /\ req[r].at = "clear" /\ UNCHANGED <<live, gone, tokenOf>> /\ r \notin calm
        /\ linked' \in {linked, Unlinked(req[r].inst)} /\ Disturb
        /\ req' = [req EXCEPT ![r] = NoReq]
    BY <1>7, IdleNotCalm DEF WebHookClears
  <2>2. /\ req' \in [Requests -> ReqState] /\ req'[r] = NoReq
        /\ \A q \in Requests : q # r => req'[q] = req[q]
    BY <2>1, NoReqTyped, ReqReplaced
  <2>3. ReqKnows(r)'
    BY <2>2, NoReqTyped DEF ReqKnows, Holding, ForMember
  <2>4. /\ linked' \in [Members -> InstOrNone]
        /\ \A m \in Members : linked'[m] \in Issued \cup {NoInst}
    BY <2>1 DEF Unlinked, InstTypeOK, InstOrNone, IdsIssued
  <2> QED BY <2>1, <2>2, <2>3, <2>4, RowStep
<1> QED
  BY <1>2, <1>3, <1>4, <1>5, <1>6, <1>7 DEF HookStep

LEMMA InstStepIInv == ASSUME InstIInv, [InstNext]_instVars PROVE InstIInv'
<1> USE DEF InstIInv
<1>1. CASE Uninstall
  <2>1. PICK i \in live :
          /\ live' = live \ {i} /\ gone' = gone \cup {i}
          /\ calm' = {r \in calm : linked[req[r].who] # i}
    BY <1>1 DEF Uninstall
  <2>2. UNCHANGED <<linked, tokenOf, req>>
    BY <1>1 DEF Uninstall
  <2>3. Issued' = Issued /\ gone \subseteq gone'
    BY <2>1 DEF Issued
  <2>4. \A q \in Requests : ReqKnows(q)' /\ StaysCalm(q)'
    <3> SUFFICES ASSUME NEW q \in Requests PROVE ReqKnows(q)' /\ StaysCalm(q)'
      OBVIOUS
    <3>1. q \in calm' => q \in calm /\ linked'[req[q].who] = linked[req[q].who]
                         /\ linked[req[q].who] \in live'
      BY <2>1, <2>2 DEF StaysCalm
    <3> QED BY <2>2, <2>3, <3>1, OthersKnow
  <2>5. InstTypeOK'
    BY <2>1, <2>2 DEF InstTypeOK
  <2>6. IdsIssued'
    BY <2>2, <2>3 DEF IdsIssued
  <2> QED BY <2>4, <2>5, <2>6
<1>2. CASE TokenExpires
  <2>1. PICK m \in Members : Dropped(m)
    BY <1>2 DEF TokenExpires
  <2>2. UNCHANGED <<linked, live, gone, req, calm>>
    BY <1>2 DEF TokenExpires
  <2>3. /\ tokenOf' \in [Members -> InstOrNone]
        /\ \A n \in Members : tokenOf'[n] \in Issued' \cup {NoInst}
    BY <2>1, <2>2, DroppedTyped
  <2>4. InstTypeOK' /\ IdsIssued'
    BY <2>2, <2>3 DEF InstTypeOK, IdsIssued, Issued
  <2>5. \A q \in Requests : ReqKnows(q)' /\ StaysCalm(q)'
    BY <2>2 DEF ReqKnows, StaysCalm, Issued
  <2> QED BY <2>4, <2>5
<1>3. CASE UNCHANGED instVars
  BY <1>3 DEF instVars, InstTypeOK, IdsIssued, ReqKnows, StaysCalm, Issued
<1> QED
  BY <1>1, <1>2, <1>3, ListStepIInv, HookStepIInv DEF InstNext

(* A request that forgets an installation holds one that is gone, and a    *)
(* calm one finds its profile's (handler.go:470, 553), for any number of   *)
(* profiles, installations and requests.                                   *)
THEOREM InstallationsKnown == InstSpec => []InstIInv
BY InstInitIInv, InstStepIInv, PTL DEF InstSpec

(* A profile with a live installation is told so (handler.go:553, 589),    *)
(* for any number of profiles, installations and requests.                 *)
THEOREM CalmIsConnected == InstSpec => []CalmMeansConnected
<1>1. InstIInv => CalmMeansConnected
  BY DEF InstIInv, InstTypeOK, StaysCalm, Calmly, CalmMeansConnected
<1> QED
  BY <1>1, InstallationsKnown, PTL

(* Healing and webhook spare a live installation (handler.go:470), for any *)
(* number of profiles, installations and requests.                         *)
THEOREM LiveInstallSpared == InstSpec => SparesLiveInstall
<1>1. ASSUME InstIInv, [InstNext]_instVars
      PROVE  [\A m \in Members :
                linked[m] \in live /\ linked'[m] = NoInst =>
                  \E r \in Requests : /\ req[r].at = "forget live" /\ req[r].inst = linked[m]
                                     /\ req'[r].at = "drop"]_instVars
  <2> SUFFICES ASSUME InstIInv, InstNext, NEW m \in Members,
                      linked[m] \in live, linked'[m] = NoInst
               PROVE  \E r \in Requests : /\ req[r].at = "forget live" /\ req[r].inst = linked[m]
                                          /\ req'[r].at = "drop"
    BY <1>1
  <2>1. InstTypeOK /\ linked[m] # NoInst /\ linked[m] \notin gone /\ linked' # linked
    BY NoInstOK DEF InstIInv, InstTypeOK
  <2>2. PICK r \in Requests : ForgetInstallation(r) \/ AddInstallationID(r) \/ WebHookClears(r)
    BY <2>1 DEF InstNext, Uninstall, TokenExpires, ListStep, HookStep, GetUserRepos,
         GetInstallationToken, GetInstallationID, InstallationToken, SetInstallationToken,
         DeleteInstallationToken, FetchRepos, AnswerList, Install, Prewarm, StoreWarm,
         GitHubAppWebHook
  <2>3. ReqKnows(r)
    BY DEF InstIInv
  <2>4. CASE ForgetInstallation(r)
    <3>1. linked' = Unlinked(req[r].inst) /\ GoTo(r, "drop")
          /\ req[r].at \in {"forget", "forget live"}
      BY <2>1, <2>4 DEF ForgetInstallation, ClearInstallationID
    <3>2. req[r].inst = linked[m]
      BY <2>1, <3>1 DEF Unlinked
    <3>3. req[r].at = "forget live"
      BY <2>1, <2>3, <3>1, <3>2 DEF ReqKnows
    <3>4. req'[r].at = "drop"
      BY <2>1, <3>1, ReqGoesTo DEF Stages
    <3> QED BY <3>2, <3>3, <3>4
  <2>5. CASE AddInstallationID(r)
    <3>1. req[r].inst \in Issued /\ linked' = [linked EXCEPT ![req[r].who] = req[r].inst]
      BY <2>1, <2>3, <2>5 DEF AddInstallationID, ReqKnows, Holding
    <3>2. req[r].inst # NoInst
      BY <2>1, <3>1, NoInstOK DEF Issued, InstTypeOK
    <3> QED BY <2>1, <3>1, <3>2 DEF InstTypeOK
  <2>6. CASE WebHookClears(r)
    <3>1. linked' = Unlinked(req[r].inst) /\ req[r].inst \in gone
      BY <2>1, <2>3, <2>6 DEF WebHookClears, ReqKnows
    <3> QED BY <2>1, <3>1 DEF Unlinked
  <2> QED BY <2>2, <2>4, <2>5, <2>6
<1>2. InstIInv /\ [InstNext]_instVars =>
        [\A m \in Members :
           linked[m] \in live /\ linked'[m] = NoInst =>
             \E r \in Requests : /\ req[r].at = "forget live" /\ req[r].inst = linked[m]
                                /\ req'[r].at = "drop"]_instVars
  BY <1>1
<1> QED
  BY <1>2, InstallationsKnown, PTL DEF InstSpec, SparesLiveInstall

-----------------------------------------------------------------------------
(* Signing in and linking.  The link cookie outlives the flow that set it, *)
(* and GitHub's flow leaves it alone; what saves GitLab's flows is that    *)
(* each sets the state and the link cookie together: as long as a flow's   *)
(* state is in the browser, the link cookie is the one it asked for or has *)
(* been taken away.                                                        *)
LinkCookieFits ==
  \A f \in Flows :
    flow[f].at = "away" /\ flow[f].provider = "gitlab" /\ cookie.state = f =>
      cookie.link \in {NoOne, flow[f].asked}

LinkFits ==
  \A f \in Flows :
    flow[f].at = "callback" /\ flow[f].provider = "gitlab" =>
      flow[f].link \in {NoOne, flow[f].asked}

SignInIInv == SignInTypeOK /\ LinkCookieFits /\ LinkFits

LEMMA SignInInitIInv == ASSUME SignInInit PROVE SignInIInv
<1>1. \A f \in Flows : flow[f] = NewFlow
  BY DEF SignInInit
<1>2. SignInTypeOK
  BY DEF SignInInit, SignInTypeOK, NewFlow, FlowState, Providers, ProfileOrNone, AccountOrNone
<1> QED
  BY <1>1, <1>2 DEF SignInIInv, LinkCookieFits, LinkFits, NewFlow

(* A flow that moves on keeps its type, and the others stay.               *)
LEMMA FlowMoves ==
  ASSUME SignInTypeOK, NEW f \in Flows, NEW r \in FlowState, flow' = [flow EXCEPT ![f] = r]
  PROVE  /\ flow' \in [Flows -> FlowState]
         /\ flow'[f] = r
         /\ \A g \in Flows : g # f => flow'[g] = flow[g]
BY DEF SignInTypeOK

LEMMA LeaveStep ==
  ASSUME SignInIInv, NEW f \in Flows, NEW p \in Providers, NEW asked \in ProfileOrNone,
         NEW link \in ProfileOrNone, Leave(f, p, asked, link),
         p = "gitlab" => link \in {NoOne, asked}
  PROVE  SignInIInv'
<1> USE DEF SignInIInv
<1> DEFINE r == [flow[f] EXCEPT !.at = "away", !.provider = p, !.asked = asked]
<1>1. r \in FlowState /\ r.at = "away" /\ r.provider = p /\ r.asked = asked
  BY DEF SignInTypeOK, FlowState
<1>2. flow' = [flow EXCEPT ![f] = r]
  BY DEF Leave, SignInTypeOK
<1> HIDE DEF r
<1>3. /\ flow' \in [Flows -> FlowState]
      /\ flow'[f] = r
      /\ \A g \in Flows : g # f => flow'[g] = flow[g]
  BY <1>1, <1>2, FlowMoves
<1>4. /\ cookie' \in [state : Flows \cup {NoOne}, link : ProfileOrNone, session : ProfileOrNone]
      /\ cookie'.state = f /\ cookie'.link = link /\ users' = users
  BY DEF Leave, SignInTypeOK
<1>5. SignInTypeOK'
  BY <1>3, <1>4 DEF SignInTypeOK
<1>6. LinkCookieFits' /\ LinkFits'
  BY <1>1, <1>3, <1>4 DEF LinkCookieFits, LinkFits
<1> QED
  BY <1>5, <1>6

(* The steps after the callback: the flow has left "away", and the cookies *)
(* stay or lose what they had.                                             *)
LEMMA LaterStep ==
  ASSUME SignInIInv, NEW f \in Flows, NEW r \in FlowState, flow' = [flow EXCEPT ![f] = r],
         r.at \notin {"away", "callback"},
         users' \in [Profiles -> [Providers -> AccountOrNone]],
         cookie' \in [state : Flows \cup {NoOne}, link : ProfileOrNone, session : ProfileOrNone],
         cookie' = cookie \/ cookie'.state = NoOne
  PROVE  SignInIInv'
<1> USE DEF SignInIInv
<1>1. /\ flow' \in [Flows -> FlowState]
      /\ flow'[f] = r
      /\ \A g \in Flows : g # f => flow'[g] = flow[g]
  BY FlowMoves
<1>2. SignInTypeOK'
  BY <1>1 DEF SignInTypeOK
<1>3. LinkCookieFits' /\ LinkFits'
  BY <1>1, NoOneIsNoFlow DEF LinkCookieFits, LinkFits
<1> QED
  BY <1>2, <1>3

LEMMA FoundStep ==
  ASSUME SignInIInv, NEW f \in Flows, NEW u \in Profiles, Found(f, u), UNCHANGED cookie,
         users' \in [Profiles -> [Providers -> AccountOrNone]]
  PROVE  SignInIInv'
<1> DEFINE r == [flow[f] EXCEPT !.user = u,
                   !.at = IF flow[f].provider = "gitlab" THEN "save" ELSE "answer"]
<1>1. r \in FlowState /\ r.at \notin {"away", "callback"}
  BY DEF SignInIInv, SignInTypeOK, FlowState, ProfileOrNone
<1>2. flow' = [flow EXCEPT ![f] = r]
  BY DEF Found, SignInIInv, SignInTypeOK
<1> HIDE DEF r
<1> QED
  BY <1>1, <1>2, LaterStep DEF SignInIInv, SignInTypeOK

LEMMA SignInStepIInv == ASSUME SignInIInv, [SignInNext]_signInVars PROVE SignInIInv'
<1> USE DEF SignInIInv
<1>1. ASSUME NEW f \in Flows, GitHubAuth(f) PROVE SignInIInv'
  BY <1>1, LeaveStep DEF GitHubAuth, SignInTypeOK, Providers, ProfileOrNone
<1>2. ASSUME NEW f \in Flows, GitLabAuth(f) PROVE SignInIInv'
  BY <1>2, LeaveStep DEF GitLabAuth, Providers, ProfileOrNone
<1>3. ASSUME NEW f \in Flows, GitHubLink(f) PROVE SignInIInv'
  BY <1>3, LeaveStep DEF GitHubLink, SignInTypeOK, Providers
<1>4. ASSUME NEW f \in Flows, GitLabLink(f) PROVE SignInIInv'
  BY <1>4, LeaveStep DEF GitLabLink, SignInTypeOK, Providers
<1>5. ASSUME NEW f \in Flows, Callback(f) PROVE SignInIInv'
  <2>1. CASE cookie.state = f
    <3>1. PICK a \in Accounts : flow' = [flow EXCEPT ![f].at = "callback", ![f].account = a,
                                                     ![f].link = cookie.link]
      BY <1>5, <2>1 DEF Callback
    <3> DEFINE r == [flow[f] EXCEPT !.at = "callback", !.account = a, !.link = cookie.link]
    <3>2. /\ r \in FlowState /\ r.at = "callback" /\ r.link = cookie.link
          /\ r.provider = flow[f].provider /\ r.asked = flow[f].asked
      BY DEF SignInTypeOK, FlowState, AccountOrNone
    <3>3. flow' = [flow EXCEPT ![f] = r]
      BY <3>1 DEF SignInTypeOK
    <3> HIDE DEF r
    <3>4. /\ flow' \in [Flows -> FlowState] /\ flow'[f] = r
          /\ \A g \in Flows : g # f => flow'[g] = flow[g]
      BY <3>2, <3>3, FlowMoves
    <3>5. flow[f].at = "away" /\ cookie' = cookie /\ users' = users
      BY <1>5 DEF Callback
    <3>6. SignInTypeOK'
      BY <3>4, <3>5 DEF SignInTypeOK
    <3>7. LinkCookieFits' /\ LinkFits'
      BY <2>1, <3>2, <3>4, <3>5 DEF LinkCookieFits, LinkFits
    <3> QED BY <3>6, <3>7
  <2>2. CASE cookie.state # f
    <3> DEFINE r == [flow[f] EXCEPT !.at = "over"]
    <3>1. r \in FlowState /\ r.at = "over"
      BY DEF SignInTypeOK, FlowState
    <3>2. flow' = [flow EXCEPT ![f] = r]
      BY <1>5, <2>2 DEF Callback, SignInTypeOK
    <3> HIDE DEF r
    <3> QED BY <1>5, <3>1, <3>2, LaterStep DEF Callback, SignInTypeOK
  <2> QED BY <2>1, <2>2
<1>6. ASSUME NEW f \in Flows, ExchangeFails(f) PROVE SignInIInv'
  <2> DEFINE r == [flow[f] EXCEPT !.at = "answer", !.link = NoOne]
  <2>1. r \in FlowState /\ r.at = "answer"
    BY DEF SignInTypeOK, FlowState, ProfileOrNone
  <2>2. flow' = [flow EXCEPT ![f] = r]
    BY <1>6 DEF ExchangeFails, SignInTypeOK
  <2> HIDE DEF r
  <2> QED BY <1>6, <2>1, <2>2, LaterStep DEF ExchangeFails, SignInTypeOK
<1>7. ASSUME NEW f \in Flows, Attach(f) PROVE SignInIInv'
  <2> DEFINE r == [flow[f] EXCEPT !.at = "answer"]
  <2>1. r \in FlowState /\ r.at = "answer"
    BY DEF SignInTypeOK, FlowState
  <2>2. flow' = [flow EXCEPT ![f] = r]
    BY <1>7 DEF Attach, SignInTypeOK
  <2>3. users' \in [Profiles -> [Providers -> AccountOrNone]]
    <3>1. flow[f].account \in AccountOrNone
      BY DEF SignInTypeOK, FlowState
    <3>2. users' = users \/ users' = [users EXCEPT ![flow[f].link][flow[f].provider] = flow[f].account]
      BY <1>7 DEF Attach
    <3> HIDE DEF r
    <3> QED BY <3>1, <3>2 DEF SignInTypeOK
  <2> HIDE DEF r
  <2> QED BY <1>7, <2>1, <2>2, <2>3, LaterStep DEF Attach, SignInTypeOK
<1>8. ASSUME NEW f \in Flows, LookUp(f) PROVE SignInIInv'
  <2>1. CASE Mine(f) = {}
    <3> DEFINE r == [flow[f] EXCEPT !.at = "create"]
    <3>1. r \in FlowState /\ r.at = "create"
      BY DEF SignInTypeOK, FlowState
    <3>2. flow' = [flow EXCEPT ![f] = r]
      BY <1>8, <2>1 DEF LookUp, SignInTypeOK
    <3> HIDE DEF r
    <3> QED BY <1>8, <3>1, <3>2, LaterStep DEF LookUp, SignInTypeOK
  <2>2. CASE Mine(f) # {}
    <3>1. PICK u \in Mine(f) : Found(f, u)
      BY <1>8, <2>2 DEF LookUp
    <3> QED BY <1>8, <3>1, FoundStep DEF LookUp, Mine, Holders, SignInTypeOK
  <2> QED BY <2>1, <2>2
<1>9. ASSUME NEW f \in Flows, CreateUser(f) PROVE SignInIInv'
  <2>1. CASE Mine(f) # {}
    <3> DEFINE r == [flow[f] EXCEPT !.at = "answer"]
    <3>1. r \in FlowState /\ r.at = "answer"
      BY DEF SignInTypeOK, FlowState
    <3>2. flow' = [flow EXCEPT ![f] = r]
      BY <1>9, <2>1 DEF CreateUser, SignInTypeOK
    <3> HIDE DEF r
    <3> QED BY <1>9, <2>1, <3>1, <3>2, LaterStep DEF CreateUser, SignInTypeOK
  <2>2. CASE Mine(f) = {}
    <3>1. PICK u \in Profiles :
            users' = [users EXCEPT ![u][flow[f].provider] = flow[f].account] /\ Found(f, u)
      BY <1>9, <2>2 DEF CreateUser
    <3>2. users' \in [Profiles -> [Providers -> AccountOrNone]]
      BY <3>1 DEF SignInTypeOK, FlowState
    <3> QED BY <1>9, <3>1, <3>2, FoundStep DEF CreateUser
  <2> QED BY <2>1, <2>2
<1>10. ASSUME NEW f \in Flows, SaveToken(f) PROVE SignInIInv'
  <2>1. PICK u \in {flow[f].user, NoOne} :
          flow' = [flow EXCEPT ![f].at = "answer", ![f].user = u]
    BY <1>10 DEF SaveToken
  <2> DEFINE r == [flow[f] EXCEPT !.at = "answer", !.user = u]
  <2>2. r \in FlowState /\ r.at = "answer"
    BY DEF SignInTypeOK, FlowState, ProfileOrNone
  <2>3. flow' = [flow EXCEPT ![f] = r]
    BY <2>1 DEF SignInTypeOK
  <2> HIDE DEF r
  <2> QED BY <1>10, <2>2, <2>3, LaterStep DEF SaveToken, SignInTypeOK
<1>11. ASSUME NEW f \in Flows, Respond(f) PROVE SignInIInv'
  <2> DEFINE r == [flow[f] EXCEPT !.at = "over"]
  <2>1. r \in FlowState /\ r.at = "over"
    BY DEF SignInTypeOK, FlowState
  <2>2. flow' = [flow EXCEPT ![f] = r]
    BY <1>11 DEF Respond, SignInTypeOK
  <2>3. /\ cookie' \in [state : Flows \cup {NoOne}, link : ProfileOrNone, session : ProfileOrNone]
        /\ cookie' = cookie \/ cookie'.state = NoOne
    BY <1>11 DEF Respond, SignInTypeOK, FlowState, ProfileOrNone
  <2> HIDE DEF r
  <2> QED BY <1>11, <2>1, <2>2, <2>3, LaterStep DEF Respond, SignInTypeOK
<1>12. ASSUME CookieExpires PROVE SignInIInv'
  <2>1. PICK c \in {"state", "link", "session"} : cookie' = [cookie EXCEPT ![c] = NoOne]
    BY <1>12 DEF CookieExpires
  <2>2. SignInTypeOK'
    BY <1>12, <2>1 DEF CookieExpires, SignInTypeOK, ProfileOrNone
  <2>3. cookie'.state \in {cookie.state, NoOne} /\ cookie'.link \in {cookie.link, NoOne}
    BY <2>1 DEF SignInTypeOK
  <2>4. LinkCookieFits' /\ LinkFits'
    BY <1>12, <2>3, NoOneIsNoFlow DEF CookieExpires, LinkCookieFits, LinkFits
  <2> QED BY <2>2, <2>4
<1>13. CASE UNCHANGED signInVars
  BY <1>13 DEF signInVars, SignInTypeOK, LinkCookieFits, LinkFits
<1> QED
  BY <1>1, <1>2, <1>3, <1>4, <1>5, <1>6, <1>7, <1>8, <1>9, <1>10, <1>11, <1>12, <1>13
     DEF SignInNext, FlowStep

(* A row with the profile's own GitLab account changes only in Attach, and *)
(* there the link cookie the callback read is the one its flow asked for.  *)
LEMMA WrittenIsAsked ==
  ASSUME SignInIInv, [SignInNext]_signInVars, NEW u \in Profiles, Exists(u),
         users'[u]["gitlab"] # users[u]["gitlab"]
  PROVE  \E f \in Flows : flow[f].asked = u /\ flow[f].provider = "gitlab"
                          /\ flow[f].at = "callback" /\ flow'[f].at = "answer"
<1>1. users' # users
  OBVIOUS
<1>2. ASSUME NEW f \in Flows, Attach(f)
      PROVE  flow[f].asked = u /\ flow[f].provider = "gitlab"
             /\ flow[f].at = "callback" /\ flow'[f].at = "answer"
  <2>1. users' = [users EXCEPT ![flow[f].link][flow[f].provider] = flow[f].account]
    BY <1>1, <1>2 DEF Attach
  <2>2. users \in [Profiles -> [Providers -> AccountOrNone]] /\ flow \in [Flows -> FlowState]
    BY DEF SignInIInv, SignInTypeOK
  <2>3. flow[f].link = u /\ flow[f].provider = "gitlab"
    BY <2>1, <2>2 DEF Providers
  <2>4. flow[f].asked = u
    BY <1>2, <2>3 DEF Attach, SignInIInv, LinkFits
  <2>5. flow'[f].at = "answer"
    BY <1>2, <2>2 DEF Attach, FlowState
  <2> QED BY <1>2, <2>3, <2>4, <2>5 DEF Attach
<1>3. ASSUME NEW f \in Flows, CreateUser(f) PROVE FALSE
  <2>1. PICK v \in Profiles : ~Exists(v) /\ users' = [users EXCEPT ![v][flow[f].provider] = flow[f].account]
    BY <1>1, <1>3 DEF CreateUser
  <2>2. users'[u] = users[u]
    BY <2>1 DEF SignInIInv, SignInTypeOK
  <2> QED BY <2>2
<1>4. \E f \in Flows : Attach(f) \/ CreateUser(f)
  BY <1>1 DEF SignInNext, FlowStep, signInVars, CookieExpires, GitHubAuth, GitLabAuth, GitHubLink,
              GitLabLink, Leave, Callback, ExchangeFails, LookUp, SaveToken, Respond
<1> QED
  BY <1>2, <1>3, <1>4

(* The rows, the cookies and the flows stay in their ranges.               *)
THEOREM SignInTypeCorrect == SignInSpec => []SignInTypeOK
<1>1. SignInIInv => SignInTypeOK
  BY DEF SignInIInv
<1> QED
  BY <1>1, SignInInitIInv, SignInStepIInv, PTL DEF SignInSpec

(* The person's profile gets a GitLab account only because that person,    *)
(* signed in to it, asked to link one: GitLabAuth clears the link cookie   *)
(* (handler.go:281), so no abandoned link of another flow is used up by a  *)
(* sign-in, in whatever order the flows of a browser run, with its cookies *)
(* expiring and its responses lost.                                        *)
THEOREM LinksWereAsked == SignInSpec => LinkWasAsked
<1>1. SignInIInv /\ [SignInNext]_signInVars =>
        [\A u \in Profiles :
           Exists(u) /\ users'[u]["gitlab"] # users[u]["gitlab"] =>
             \E f \in Flows : flow[f].asked = u /\ flow[f].provider = "gitlab"
                              /\ flow[f].at = "callback" /\ flow'[f].at = "answer"]_signInVars
  BY WrittenIsAsked
<1> QED
  BY <1>1, SignInInitIInv, SignInStepIInv, PTL DEF SignInSpec, LinkWasAsked

-----------------------------------------------------------------------------
(* The rate limiter keeps its limit and refuses nobody too early, for any  *)
(* limit, period, number of keys, and clock.                               *)
Served(k) == Len(granted[k])
At(k, i) == granted[k][i].at
OpensAt(k, i) == granted[k][i].opens

(* Grants come in order; windows begin more than a period apart; of Limit  *)
(* grants after another one at least one begins a window.                  *)
Ordered(k) ==
  /\ \A i \in 1 .. Served(k) : At(k, i) <= clock
  /\ \A i, j \in 1 .. Served(k) : i <= j => At(k, i) <= At(k, j)
Apart(k) ==
  \A i, j \in 1 .. Served(k) :
    i < j /\ OpensAt(k, i) /\ OpensAt(k, j) => At(k, j) > At(k, i) + Per
Bounded(k) ==
  \A j \in 1 .. Served(k) :
    j + Limit <= Served(k) => \E o \in j + 1 .. j + Limit : OpensAt(k, o)

(* The window in the map is the last one; one that is not there any more   *)
(* was over.                                                               *)
Current(k) ==
  /\ hits[k] # NoWindow =>
       /\ hits[k].count \in 1 .. Served(k)
       /\ OpensAt(k, Served(k) - hits[k].count + 1)
       /\ hits[k].reset = At(k, Served(k) - hits[k].count + 1) + Per
       /\ \A i \in Served(k) - hits[k].count + 2 .. Served(k) : ~OpensAt(k, i)
  /\ hits[k] = NoWindow =>
       \A i \in 1 .. Served(k) : OpensAt(k, i) => At(k, i) + Per < clock

Full(k) ==
  refused[k].had > 0 =>
    /\ refused[k].had \in Limit .. Served(k)
    /\ At(k, refused[k].had - Limit + 1) + Per >= refused[k].at

KeyInv(k) == Ordered(k) /\ Apart(k) /\ Bounded(k) /\ Current(k) /\ Full(k)

LimitIInv == LimitTypeOK /\ \A k \in Keys : KeyInv(k)

LEMMA LimitInitIInv == ASSUME LimitInit PROVE LimitIInv
<1>1. \A k \in Keys : granted[k] = <<>> /\ hits[k] = NoWindow /\ refused[k].had = 0
  BY DEF LimitInit
<1>2. LimitTypeOK
  BY LimitOK DEF LimitInit, LimitTypeOK, NoWindow, Window, Refusal, LimitOK
<1>3. \A k \in Keys : Served(k) = 0
  <2>1. Len(<<>>) = 0
    OBVIOUS
  <2> QED BY <1>1, <2>1 DEF Served
<1>4. \A k \in Keys : KeyInv(k)
  <2> SUFFICES ASSUME NEW k \in Keys PROVE KeyInv(k)
    OBVIOUS
  <2>1. 1 .. Served(k) = {}
    BY <1>3
  <2>2. Ordered(k) /\ Apart(k) /\ Bounded(k)
    BY <2>1 DEF Ordered, Apart, Bounded
  <2>3. Current(k) /\ Full(k)
    BY <1>1, <2>1 DEF Current, Full
  <2> QED BY <2>2, <2>3 DEF KeyInv
<1> QED
  BY <1>2, <1>4 DEF LimitIInv

LEMMA GrantsTyped ==
  ASSUME LimitTypeOK, NEW k \in Keys
  PROVE  Served(k) \in Nat /\ \A i \in 1 .. Served(k) : granted[k][i] \in Grant
<1>1. granted[k] \in Seq(Grant)
  BY DEF LimitTypeOK
<1> QED
  BY <1>1 DEF Served

(* What the history of a key is after one more grant.                      *)
LEMMA OneMore ==
  ASSUME LimitTypeOK, NEW k \in Keys, NEW b \in BOOLEAN, Grants(k, b)
  PROVE  /\ granted' \in [Keys -> Seq(Grant)]
         /\ \A x \in Keys : x # k => granted'[x] = granted[x]
         /\ Served(k) \in Nat /\ Served(k)' = Served(k) + 1
         /\ \A i \in 1 .. Served(k) : granted[k][i] \in Grant /\ granted'[k][i] = granted[k][i]
         /\ granted'[k][Served(k) + 1] \in Grant
         /\ granted'[k][Served(k) + 1].at = clock /\ granted'[k][Served(k) + 1].opens = b
<1> DEFINE g == [at |-> clock, opens |-> b]
<1>1. granted[k] \in Seq(Grant) /\ clock \in Nat
  BY DEF LimitTypeOK
<1>2. g \in Grant
  BY <1>1 DEF Grant
<1>3. granted' = [granted EXCEPT ![k] = Append(granted[k], g)]
  BY DEF Grants
<1>4. granted'[k] = Append(granted[k], g)
  BY <1>3 DEF LimitTypeOK
<1> HIDE DEF g
<1>5. Append(granted[k], g) \in Seq(Grant)
  BY <1>1, <1>2
<1>6. granted' \in [Keys -> Seq(Grant)] /\ \A x \in Keys : x # k => granted'[x] = granted[x]
  BY <1>3, <1>5 DEF LimitTypeOK
<1>7. /\ Len(granted[k]) \in Nat /\ Len(granted'[k]) = Len(granted[k]) + 1
      /\ \A i \in 1 .. Len(granted[k]) : granted[k][i] \in Grant /\ granted'[k][i] = granted[k][i]
      /\ granted'[k][Len(granted[k]) + 1] = g
  BY <1>1, <1>2, <1>4
<1>8. g.at = clock /\ g.opens = b
  BY DEF g
<1> QED
  BY <1>2, <1>6, <1>7, <1>8 DEF Served

(* A key whose history and window a step leaves keeps what it knows while  *)
(* the clock moves on.                                                     *)
LEMMA OtherKeys ==
  ASSUME LimitTypeOK, NEW k \in Keys, KeyInv(k), granted'[k] = granted[k],
         hits'[k] = hits[k], refused'[k] = refused[k], clock' \in Nat, clock <= clock'
  PROVE  KeyInv(k)'
<1>1. \A i \in 1 .. Served(k) : At(k, i) \in Nat
  BY GrantsTyped DEF Grant, At
<1> QED
  BY <1>1, LimitOK
     DEF LimitOK, LimitTypeOK, KeyInv, Ordered, Apart, Bounded, Current, Full, Served, At, OpensAt

(* Grants in the order of the clock stay in order.                         *)
LEMMA OneMoreOrdered ==
  ASSUME LimitTypeOK, NEW k \in Keys, NEW b \in BOOLEAN, Grants(k, b), clock' = clock,
         Ordered(k)
  PROVE  Ordered(k)'
<1> DEFINE n == Served(k)
<1>1. /\ n \in Nat /\ Served(k)' = n + 1
      /\ \A i \in 1 .. n : granted[k][i] \in Grant /\ granted'[k][i] = granted[k][i]
      /\ granted'[k][n + 1].at = clock
  BY OneMore
<1>2. clock \in Nat /\ \A i \in 1 .. n : granted[k][i].at \in Nat
  BY <1>1 DEF LimitTypeOK, Grant
<1> HIDE DEF n
<1>3. \A i \in 1 .. n : granted[k][i].at <= clock
  BY DEF Ordered, At, n
<1>4. \A i, j \in 1 .. n : i <= j => granted[k][i].at <= granted[k][j].at
  BY DEF Ordered, At, n
<1>5. \A i \in 1 .. n + 1 : i \in 1 .. n \/ i = n + 1
  BY <1>1
<1>6. \A i \in 1 .. n + 1 : granted'[k][i].at <= clock
  BY <1>1, <1>2, <1>3, <1>5
<1>7. \A i, j \in 1 .. n + 1 : i <= j => granted'[k][i].at <= granted'[k][j].at
  BY <1>1, <1>2, <1>3, <1>4, <1>5
<1> QED
  BY <1>1, <1>6, <1>7 DEF Ordered, At

(* The refusal that was recorded last stays what it was.                   *)
LEMMA OneMoreFull ==
  ASSUME LimitTypeOK, NEW k \in Keys, NEW b \in BOOLEAN, Grants(k, b), refused' = refused,
         Full(k)
  PROVE  Full(k)'
<1> DEFINE n == Served(k)
<1>1. /\ n \in Nat /\ Served(k)' = n + 1
      /\ \A i \in 1 .. n : granted'[k][i] = granted[k][i]
  BY OneMore
<1>2. refused[k].had > 0 => refused[k].had - Limit + 1 \in 1 .. n /\ refused[k].had \in Limit .. n + 1
  BY <1>1, LimitOK DEF Full, LimitOK
<1> QED
  BY <1>1, <1>2 DEF Full, At

(* Every window that is over is over for a whole period.                   *)
LEMMA OverIsLater ==
  ASSUME LimitTypeOK, NEW k \in Keys, KeyInv(k), Over(k)
  PROVE  \A i \in 1 .. Served(k) : OpensAt(k, i) => At(k, i) + Per < clock
<1>1. Served(k) \in Nat /\ \A i \in 1 .. Served(k) : At(k, i) \in Nat
  BY GrantsTyped DEF Grant, At
<1>2. CASE hits[k] = NoWindow
  BY <1>2 DEF KeyInv, Current
<1>3. CASE hits[k] # NoWindow
  <2> DEFINE o == Served(k) - hits[k].count + 1
  <2>1. /\ hits[k].count \in 1 .. Served(k) /\ hits[k].reset = At(k, o) + Per
        /\ \A i \in Served(k) - hits[k].count + 2 .. Served(k) : ~OpensAt(k, i)
    BY <1>3 DEF KeyInv, Current
  <2>2. clock > At(k, o) + Per /\ o \in 1 .. Served(k)
    BY <1>1, <1>3, <2>1 DEF Over
  <2>3. SUFFICES ASSUME NEW i \in 1 .. Served(k), OpensAt(k, i) PROVE At(k, i) + Per < clock
    OBVIOUS
  <2>4. i <= o
    BY <1>1, <2>1, <2>3
  <2>5. At(k, i) <= At(k, o)
    BY <2>2, <2>4 DEF KeyInv, Ordered
  <2>6. At(k, i) \in Nat /\ At(k, o) \in Nat /\ clock \in Nat /\ Per \in Nat
    BY <1>1, <2>2, LimitOK DEF LimitTypeOK, LimitOK
  <2> HIDE DEF o
  <2> QED BY <2>2, <2>5, <2>6
<1> QED
  BY <1>2, <1>3

LEMMA OpenWindowIInv ==
  ASSUME LimitIInv, NEW k \in Keys, OpenWindow(k) PROVE LimitIInv'
<1> DEFINE n == Served(k)
<1>1. LimitTypeOK /\ KeyInv(k) /\ Over(k) /\ Grants(k, TRUE) /\ UNCHANGED <<clock, refused>>
      /\ hits' = [hits EXCEPT ![k] = [count |-> 1, reset |-> clock + Per]]
  BY DEF LimitIInv, OpenWindow
<1>2. /\ granted' \in [Keys -> Seq(Grant)]
      /\ \A x \in Keys : x # k => granted'[x] = granted[x]
      /\ n \in Nat /\ Served(k)' = n + 1
      /\ \A i \in 1 .. n : granted'[k][i] = granted[k][i]
      /\ granted'[k][n + 1].at = clock /\ granted'[k][n + 1].opens = TRUE
  BY <1>1, OneMore
<1>3. \A i \in 1 .. n : OpensAt(k, i) => At(k, i) + Per < clock
  BY <1>1, OverIsLater
<1>4. \A i \in 1 .. n : At(k, i) \in Nat
  BY <1>1, GrantsTyped DEF Grant, At
<1>5. clock \in Nat /\ Per \in Nat /\ Limit \in Nat \ {0}
  BY <1>1, LimitOK DEF LimitTypeOK, LimitOK
<1>6. /\ hits'[k].count = 1 /\ hits'[k].reset = clock + Per
      /\ \A x \in Keys : x # k => hits'[x] = hits[x]
  BY <1>1 DEF LimitTypeOK
<1>7. hits' \in [Keys -> Window]
  <2>1. [count |-> 1, reset |-> clock + Per] \in Window
    BY <1>5 DEF Window
  <2> QED BY <1>1, <2>1 DEF LimitTypeOK
<1>8. LimitTypeOK'
  BY <1>1, <1>2, <1>7 DEF LimitTypeOK
<1> HIDE DEF n
<1>9. \A i \in 1 .. n + 1 : i \in 1 .. n \/ i = n + 1
  BY <1>2
<1>10. Apart(k)'
  <2>1. SUFFICES ASSUME NEW i \in 1 .. n + 1, NEW j \in 1 .. n + 1, i < j,
                        granted'[k][i].opens, granted'[k][j].opens
                 PROVE  granted'[k][j].at > granted'[k][i].at + Per
    BY <1>2 DEF Apart, At, OpensAt
  <2>2. i \in 1 .. n
    BY <1>2, <2>1
  <2>3. CASE j = n + 1
    BY <1>2, <1>3, <1>4, <1>5, <2>1, <2>2, <2>3 DEF At, OpensAt
  <2>4. CASE j \in 1 .. n
    <3>1. Apart(k)
      BY <1>1 DEF KeyInv
    <3> QED BY <1>2, <2>1, <2>2, <2>4, <3>1 DEF Apart, At, OpensAt, n
  <2> QED BY <1>9, <2>3, <2>4
<1>11. Bounded(k)'
  <2>1. SUFFICES ASSUME NEW j \in 1 .. n + 1, j + Limit <= n + 1
                 PROVE  \E o \in j + 1 .. j + Limit : granted'[k][o].opens
    BY <1>2 DEF Bounded, OpensAt
  <2>2. CASE j + Limit = n + 1
    <3>1. n + 1 \in j + 1 .. j + Limit
      BY <1>2, <1>5, <2>2
    <3> QED BY <1>2, <3>1
  <2>3. CASE j + Limit <= n
    <3>1. j \in 1 .. n
      BY <1>2, <1>5, <2>3
    <3>2. PICK o \in j + 1 .. j + Limit : OpensAt(k, o)
      BY <1>1, <2>3, <3>1 DEF KeyInv, Bounded, n
    <3>3. o \in 1 .. n
      BY <1>2, <1>5, <2>3, <3>1
    <3> QED BY <1>2, <3>2, <3>3 DEF OpensAt
  <2> QED BY <1>2, <1>5, <2>1, <2>2, <2>3
<1>12. Current(k)'
  <2>1. hits'[k] # NoWindow
    BY <1>6 DEF NoWindow
  <2>2. n + 1 - 1 + 1 = n + 1 /\ n + 1 - 1 + 2 = n + 2 /\ n + 2 .. n + 1 = {} /\ 1 \in 1 .. n + 1
    BY <1>2
  <2> QED BY <1>2, <1>6, <2>1, <2>2 DEF Current, At, OpensAt, NoWindow
<1>13. Ordered(k)' /\ Full(k)'
  BY <1>1, OneMoreOrdered, OneMoreFull DEF KeyInv
<1>14. \A x \in Keys : x # k => KeyInv(x)'
  BY <1>1, <1>2, <1>5, <1>6, OtherKeys DEF LimitIInv
<1> QED
  BY <1>8, <1>10, <1>11, <1>12, <1>13, <1>14 DEF LimitIInv, KeyInv

LEMMA CountInWindowIInv ==
  ASSUME LimitIInv, NEW k \in Keys, CountInWindow(k) PROVE LimitIInv'
<1> DEFINE n == Served(k)
           c == hits[k].count
<1>1. LimitTypeOK /\ KeyInv(k) /\ hits[k] # NoWindow /\ c < Limit
      /\ Grants(k, FALSE) /\ UNCHANGED <<clock, refused>>
      /\ hits' = [hits EXCEPT ![k].count = @ + 1]
  BY DEF LimitIInv, CountInWindow, Over
<1>2. /\ granted' \in [Keys -> Seq(Grant)]
      /\ \A x \in Keys : x # k => granted'[x] = granted[x]
      /\ n \in Nat /\ Served(k)' = n + 1
      /\ \A i \in 1 .. n : granted'[k][i] = granted[k][i]
      /\ granted'[k][n + 1].opens = FALSE
  BY <1>1, OneMore
<1>3. /\ c \in 1 .. n /\ OpensAt(k, n - c + 1) /\ hits[k].reset = At(k, n - c + 1) + Per
      /\ \A i \in n - c + 2 .. n : ~OpensAt(k, i)
  BY <1>1 DEF KeyInv, Current
<1>4. clock \in Nat /\ Per \in Nat /\ Limit \in Nat \ {0}
  BY <1>1, LimitOK DEF LimitTypeOK, LimitOK
<1>5. /\ hits'[k].count = c + 1 /\ hits'[k].reset = hits[k].reset
      /\ \A x \in Keys : x # k => hits'[x] = hits[x]
  BY <1>1 DEF LimitTypeOK, Window
<1>6. hits' \in [Keys -> Window]
  <2>1. c + 1 \in 0 .. Limit
    BY SMTT(30), <1>1, <1>2, <1>3, <1>4
  <2> QED BY <1>1, <2>1 DEF LimitTypeOK, Window
<1>7. LimitTypeOK'
  BY <1>1, <1>2, <1>6 DEF LimitTypeOK
<1> HIDE DEF n, c
<1>8. \A i \in 1 .. n + 1 : i \in 1 .. n \/ i = n + 1
  BY <1>2
<1>9. Apart(k)'
  <2>1. SUFFICES ASSUME NEW i \in 1 .. n + 1, NEW j \in 1 .. n + 1, i < j,
                        granted'[k][i].opens, granted'[k][j].opens
                 PROVE  granted'[k][j].at > granted'[k][i].at + Per
    BY <1>2 DEF Apart, At, OpensAt
  <2>2. i \in 1 .. n /\ j \in 1 .. n
    BY <1>2, <1>8, <2>1
  <2>3. Apart(k)
    BY <1>1 DEF KeyInv
  <2> QED BY <1>2, <2>1, <2>2, <2>3 DEF Apart, At, OpensAt, n
<1>10. Bounded(k)'
  <2>1. SUFFICES ASSUME NEW j \in 1 .. n + 1, j + Limit <= n + 1
                 PROVE  \E o \in j + 1 .. j + Limit : granted'[k][o].opens
    BY <1>2 DEF Bounded, OpensAt
  <2>2. CASE j + Limit = n + 1
    <3>1. n - c + 1 \in j + 1 .. j + Limit /\ n - c + 1 \in 1 .. n
      BY <1>1, <1>2, <1>3, <1>4, <2>2
    <3> QED BY <1>2, <1>3, <3>1 DEF OpensAt
  <2>3. CASE j + Limit <= n
    <3>1. j \in 1 .. n
      BY <1>2, <1>4, <2>3
    <3>2. PICK o \in j + 1 .. j + Limit : OpensAt(k, o)
      BY <1>1, <2>3, <3>1 DEF KeyInv, Bounded, n
    <3>3. o \in 1 .. n
      BY <1>2, <1>4, <2>3, <3>1
    <3> QED BY <1>2, <3>2, <3>3 DEF OpensAt
  <2> QED BY <1>2, <1>4, <2>1, <2>2, <2>3
<1>11. Current(k)'
  <2>1. hits'[k] # NoWindow
    BY <1>2, <1>3, <1>5 DEF NoWindow
  <2>2. /\ c + 1 \in 1 .. n + 1 /\ n + 1 - (c + 1) + 1 = n - c + 1
        /\ n + 1 - (c + 1) + 2 = n - c + 2 /\ n - c + 1 \in 1 .. n
    BY <1>2, <1>3
  <2>3. \A i \in n - c + 2 .. n + 1 : ~granted'[k][i].opens
    <3> SUFFICES ASSUME NEW i \in n - c + 2 .. n + 1 PROVE ~granted'[k][i].opens
      OBVIOUS
    <3>1. n \in Nat /\ c \in Nat /\ c <= n
      BY <1>2, <1>3
    <3>2. i \in Int /\ n - c + 2 <= i /\ i <= n + 1
      BY <3>1
    <3>3. CASE i = n + 1
      BY <1>2, <3>3
    <3>4. CASE i # n + 1
      <4>1. i <= n /\ 1 <= i
        BY <3>1, <3>2, <3>4
      <4>2. i \in n - c + 2 .. n /\ i \in 1 .. n
        BY <3>1, <3>2, <4>1
      <4> QED BY <1>2, <1>3, <4>2 DEF OpensAt
    <3> QED BY <3>3, <3>4
  <2> QED BY <1>2, <1>3, <1>5, <2>1, <2>2, <2>3 DEF Current, At, OpensAt
<1>12. Ordered(k)' /\ Full(k)'
  BY <1>1, OneMoreOrdered, OneMoreFull DEF KeyInv
<1>13. \A x \in Keys : x # k => KeyInv(x)'
  BY <1>1, <1>2, <1>4, <1>5, OtherKeys DEF LimitIInv
<1> QED
  BY <1>7, <1>9, <1>10, <1>11, <1>12, <1>13 DEF LimitIInv, KeyInv

(* A refused key has used the limit up in the window that is open.         *)
LEMMA RefuseIInv ==
  ASSUME LimitIInv, NEW k \in Keys, Refuse(k) PROVE LimitIInv'
<1> DEFINE n == Served(k)
<1>1. /\ LimitTypeOK /\ KeyInv(k) /\ hits[k] # NoWindow /\ clock <= hits[k].reset
      /\ hits[k].count >= Limit /\ UNCHANGED <<clock, hits, granted>>
      /\ refused' = [refused EXCEPT ![k] = [at |-> clock, had |-> n]]
  <2>1. hits[k].reset \in Nat /\ clock \in Nat
    BY DEF LimitIInv, LimitTypeOK, Window
  <2> QED BY <2>1 DEF LimitIInv, Refuse, Over, Served
<1>2. /\ hits[k].count \in 1 .. n
      /\ hits[k].reset = At(k, n - hits[k].count + 1) + Per
  BY <1>1 DEF KeyInv, Current
<1>3. n \in Nat /\ clock \in Nat /\ Limit \in Nat \ {0} /\ hits[k].count \in 0 .. Limit
  BY <1>1, GrantsTyped, LimitOK DEF LimitTypeOK, LimitOK, Window
<1>4. hits[k].count = Limit /\ n \in Limit .. n
  BY <1>1, <1>2, <1>3
<1>5. At(k, n - Limit + 1) + Per >= clock
  BY <1>1, <1>2, <1>4
<1>6. /\ refused'[k].at = clock /\ refused'[k].had = n
      /\ \A x \in Keys : x # k => refused'[x] = refused[x]
  BY <1>1 DEF LimitTypeOK
<1>7. refused' \in [Keys -> Refusal]
  <2>1. [at |-> clock, had |-> n] \in Refusal
    BY <1>3 DEF Refusal
  <2> QED BY <1>1, <2>1 DEF LimitTypeOK
<1>8. LimitTypeOK'
  BY <1>1, <1>7 DEF LimitTypeOK
<1>9. Full(k)'
  BY <1>1, <1>4, <1>5, <1>6 DEF Full, Served, At
<1>10. KeyInv(k)'
  BY <1>1, <1>9 DEF KeyInv, Ordered, Apart, Bounded, Current, Served, At, OpensAt
<1>11. \A x \in Keys : x # k => KeyInv(x)'
  BY <1>1, <1>3, <1>6, OtherKeys DEF LimitIInv
<1> QED
  BY <1>8, <1>10, <1>11 DEF LimitIInv

(* What the cleanup drops was over.                                        *)
LEMMA CleanupIInv == ASSUME LimitIInv, Cleanup PROVE LimitIInv'
<1>1. /\ LimitTypeOK /\ UNCHANGED <<clock, granted, refused>>
      /\ \A k \in Keys : hits'[k] = IF Stale(k) THEN NoWindow ELSE hits[k]
  BY DEF LimitIInv, Cleanup
<1>2. LimitTypeOK'
  <2>1. NoWindow \in Window
    BY LimitOK DEF NoWindow, Window, LimitOK
  <2> QED BY <1>1, <2>1 DEF LimitTypeOK, Cleanup
<1>3. \A k \in Keys : KeyInv(k)'
  <2> SUFFICES ASSUME NEW k \in Keys PROVE KeyInv(k)'
    OBVIOUS
  <2>1. KeyInv(k)
    BY DEF LimitIInv
  <2>2. CASE ~Stale(k)
    <3>1. hits'[k] = hits[k] /\ clock' \in Nat /\ clock <= clock'
      BY <1>1, <2>2 DEF LimitTypeOK
    <3> QED BY <1>1, <2>1, <3>1, OtherKeys
  <2>3. CASE Stale(k)
    <3>1. Over(k) /\ hits'[k] = NoWindow
      BY <1>1, <2>3 DEF Stale, Over
    <3>2. \A i \in 1 .. Served(k) : OpensAt(k, i) => At(k, i) + Per < clock
      BY <1>1, <2>1, <3>1, OverIsLater
    <3>3. Current(k)'
      BY <1>1, <3>1, <3>2 DEF Current, Served, At, OpensAt
    <3> QED BY <1>1, <2>1, <3>3 DEF KeyInv, Ordered, Apart, Bounded, Full, Served, At, OpensAt
  <2> QED BY <2>2, <2>3
<1> QED
  BY <1>2, <1>3 DEF LimitIInv

LEMMA LimitStepIInv == ASSUME LimitIInv, [LimitNext]_limitVars PROVE LimitIInv'
<1>1. CASE TimePasses
  <2>1. clock \in Nat /\ clock' = clock + 1 /\ UNCHANGED <<hits, granted, refused>>
    BY <1>1 DEF TimePasses, LimitIInv, LimitTypeOK
  <2>2. clock' \in Nat /\ clock <= clock'
    BY <2>1
  <2>3. LimitTypeOK'
    BY <2>1, <2>2 DEF LimitIInv, LimitTypeOK
  <2>4. \A k \in Keys : KeyInv(k)'
    BY <2>1, <2>2, OtherKeys DEF LimitIInv
  <2> QED BY <2>3, <2>4 DEF LimitIInv
<1>2. CASE Cleanup
  BY <1>2, CleanupIInv
<1>3. CASE \E k \in Keys : Allow(k)
  BY <1>3, OpenWindowIInv, CountInWindowIInv, RefuseIInv DEF Allow
<1>4. CASE UNCHANGED limitVars
  BY <1>4 DEF limitVars, LimitIInv, LimitTypeOK, KeyInv, Ordered, Apart, Bounded, Current,
              Full, Served, At, OpensAt, Window, Grant, Refusal
<1> QED
  BY <1>1, <1>2, <1>3, <1>4 DEF LimitNext

(* Two windows begin among 2 * Limit grants after another one, and the     *)
(* second more than a period after the first.                              *)
LEMMA IInvHolds == ASSUME LimitIInv PROVE LimitHolds
<1>1. RefusedIsFull
  BY DEF LimitIInv, KeyInv, Full, RefusedIsFull, Served, At
<1>2. NoBurst
  <2> SUFFICES ASSUME NEW k \in Keys, NEW i \in 1 .. Served(k), i + 2 * Limit \in 1 .. Served(k)
               PROVE  At(k, i + 2 * Limit) > At(k, i) + Per
    BY DEF NoBurst, Served, At
  <2>1. LimitTypeOK /\ Ordered(k) /\ Apart(k) /\ Bounded(k)
    BY DEF LimitIInv, KeyInv
  <2>2. /\ Served(k) \in Nat /\ \A j \in 1 .. Served(k) : At(k, j) \in Nat
        /\ Limit \in Nat \ {0} /\ Per \in Nat
    BY <2>1, GrantsTyped, LimitOK DEF Grant, At, LimitOK
  <2>3. i + Limit <= Served(k)
    BY <2>2
  <2>4. PICK o1 \in i + 1 .. i + Limit : OpensAt(k, o1)
    BY <2>1, <2>3 DEF Bounded
  <2>5. o1 \in 1 .. Served(k) /\ o1 + Limit <= i + 2 * Limit
    BY <2>2, <2>3, <2>4
  <2>6. o1 + Limit <= Served(k)
    BY <2>2, <2>5
  <2>7. PICK o2 \in o1 + 1 .. o1 + Limit : OpensAt(k, o2)
    BY <2>1, <2>5, <2>6 DEF Bounded
  <2>8. o2 \in 1 .. Served(k) /\ o1 < o2 /\ o2 <= i + 2 * Limit /\ i <= o1
    BY <2>2, <2>4, <2>5, <2>6, <2>7
  <2>9. At(k, o2) > At(k, o1) + Per
    BY <2>1, <2>4, <2>5, <2>7, <2>8 DEF Apart
  <2>10. At(k, i) <= At(k, o1) /\ At(k, o2) <= At(k, i + 2 * Limit)
    BY <2>1, <2>5, <2>8 DEF Ordered
  <2> QED BY <2>2, <2>5, <2>8, <2>9, <2>10
<1> QED
  BY <1>1, <1>2 DEF LimitHolds

(* For every limit, period and number of keys, and however the clock, the  *)
(* cleanup and the calls are interleaved: at most 2 * Limit grants of a    *)
(* key fall in one period, and a key is refused only after Limit grants of *)
(* one period (ratelimit.Allow).                                           *)
THEOREM LimitKept == LimitSpec => []LimitHolds
<1>1. LimitInit => LimitIInv
  BY LimitInitIInv
<1>2. LimitIInv /\ [LimitNext]_limitVars => LimitIInv'
  BY LimitStepIInv
<1>3. LimitIInv => LimitHolds
  BY IInvHolds
<1> QED
  BY <1>1, <1>2, <1>3, PTL DEF LimitSpec

-----------------------------------------------------------------------------
(* The activity feed and the grid, for any number of days, any size of the *)
(* channel and any number of events.  The invariant of the grid is what    *)
(* GridTrue says, with the streak as the code sees it: so many days up to  *)
(* the last one seen had a row, and the day before them had none.          *)
StreakIs(k) ==
  /\ k \in Nat /\ grid.from <= grid.next - k
  /\ \A d \in grid.next - k .. grid.next - 1 : Active(d)
  /\ grid.from <= grid.next - k - 1 => ~Active(grid.next - k - 1)

IsMax(S, m) == m \in S /\ \A x \in S : x <= m

GridIInv ==
  /\ grid.next <= grid.to + 1 /\ grid.from <= grid.next
  /\ IsFiniteSet(RowsSeen(BOOLEAN))
  /\ CountsRight /\ StreakIs(grid.streak)
  /\ IsMax({On(grid.rows, d) : d \in Seen} \cup {0}, grid.max)
  /\ IsMax({Length(r) : r \in Runs} \cup {0}, grid.best)

OneInHand == inHand = {} \/ \E e \in Event : inHand = {e}

FeedTypeOK ==
  /\ today \in Days
  /\ events \in Seq(Event) /\ Len(events) <= ActivityCap
  /\ table \in Tally /\ lost \in Tally /\ happened \in Tally
  /\ feedOpen \in BOOLEAN

ActivityIInv == FeedTypeOK /\ OneInHand /\ EventsKept /\ grid \in Grid /\ GridIInv

LEMMA MaxIs ==
  ASSUME NEW S \in SUBSET Int, NEW m, IsMax(S, m)
  PROVE  Max(S) = m
<1>1. m \in S /\ \A y \in S : m >= y
  BY DEF IsMax
<1>2. Max(S) \in S /\ \A y \in S : Max(S) >= y
  BY <1>1 DEF Max
<1>3. m \in Int /\ Max(S) \in Int
  BY <1>1, <1>2
<1>4. m >= Max(S) /\ Max(S) >= m
  BY <1>1, <1>2
<1> QED
  BY <1>3, <1>4

(* The rows of one day and outcome.                                        *)
LEMMA CopiesCounted ==
  ASSUME NEW e, NEW n \in Nat
  PROVE  IsFiniteSet({e} \X (1 .. n)) /\ Cardinality({e} \X (1 .. n)) = n
<1> DEFINE f == [i \in 1 .. n |-> <<e, i>>]
<1>1. f \in Bijection(1 .. n, {e} \X (1 .. n))
  <2>1. f \in [1 .. n -> {e} \X (1 .. n)]
    OBVIOUS
  <2>2. \A i, j \in 1 .. n : f[i] = f[j] => i = j
    OBVIOUS
  <2>3. \A t \in {e} \X (1 .. n) : \E i \in 1 .. n : f[i] = t
    <3> TAKE t \in {e} \X (1 .. n)
    <3>1. t = <<e, t[2]>> /\ t[2] \in 1 .. n
      OBVIOUS
    <3> QED BY <3>1
  <2> QED BY <2>1, <2>2, <2>3 DEF Bijection, Injection, Surjection, IsInjective
<1>2. IsFiniteSet(1 .. n) /\ Cardinality(1 .. n) = n
  BY FS_Interval
<1> QED
  BY <1>1, <1>2, FS_Bijection DEF ExistsBijection

LEMMA ApartCounted ==
  ASSUME NEW S, NEW T, IsFiniteSet(S), IsFiniteSet(T), S \cap T = {}
  PROVE  IsFiniteSet(S \cup T) /\ Cardinality(S \cup T) = Cardinality(S) + Cardinality(T)
<1>1. Cardinality(S \cap T) = 0
  BY FS_EmptySet
<1>2. Cardinality(S) \in Nat /\ Cardinality(T) \in Nat
  BY FS_CardinalityType
<1>3. Cardinality(S \cup T) = Cardinality(S) + Cardinality(T) - Cardinality(S \cap T)
      /\ IsFiniteSet(S \cup T)
  BY FS_Union
<1> QED
  BY <1>1, <1>2, <1>3

-----------------------------------------------------------------------------
(* Events on their way.                                                    *)

Places(s, e) == {i \in DOMAIN s : s[i] = e}

LEMMA PlacesFinite ==
  ASSUME NEW s \in Seq(Event), NEW e
  PROVE  IsFiniteSet(Places(s, e)) /\ Cardinality(Places(s, e)) \in Nat
<1>1. Places(s, e) \subseteq 1 .. Len(s) /\ Len(s) \in Int
  BY DEF Places
<1>2. IsFiniteSet(1 .. Len(s))
  BY <1>1, FS_Interval
<1> QED
  BY <1>1, <1>2, FS_Subset, FS_CardinalityType

LEMMA PlacesAppend ==
  ASSUME NEW s \in Seq(Event), NEW x \in Event, NEW e
  PROVE  Cardinality(Places(Append(s, x), e)) =
           Cardinality(Places(s, e)) + (IF x = e THEN 1 ELSE 0)
<1>1. CASE x = e
  <2>1. Places(Append(s, x), e) = Places(s, e) \cup {Len(s) + 1}
    BY <1>1 DEF Places
  <2>2. Len(s) + 1 \notin Places(s, e)
    BY DEF Places
  <2> QED BY <1>1, <2>1, <2>2, PlacesFinite, FS_AddElement
<1>2. CASE x # e
  <2>1. Places(Append(s, x), e) = Places(s, e)
    BY <1>2 DEF Places
  <2> QED BY <1>2, <2>1, PlacesFinite
<1> QED
  BY <1>1, <1>2

LEMMA PlacesTail ==
  ASSUME NEW s \in Seq(Event), s # <<>>, NEW e
  PROVE  Cardinality(Places(s, e)) =
           Cardinality(Places(Tail(s), e)) + (IF Head(s) = e THEN 1 ELSE 0)
<1> DEFINE rest == {i \in DOMAIN s : i # 1 /\ s[i] = e}
           f == [i \in Places(Tail(s), e) |-> i + 1]
<1>1. Len(s) \in Nat /\ Len(s) > 0 /\ DOMAIN s = 1 .. Len(s)
      /\ Tail(s) \in Seq(Event) /\ Len(Tail(s)) = Len(s) - 1
      /\ \A i \in 1 .. Len(s) - 1 : Tail(s)[i] = s[i + 1]
      /\ Head(s) = s[1]
  OBVIOUS
<1>2. f \in Bijection(Places(Tail(s), e), rest)
  <2>1. f \in [Places(Tail(s), e) -> rest]
    BY <1>1 DEF Places
  <2>2. \A i, j \in Places(Tail(s), e) : f[i] = f[j] => i = j
    BY <1>1 DEF Places
  <2>3. \A t \in rest : \E i \in Places(Tail(s), e) : f[i] = t
    <3> TAKE t \in rest
    <3>1. t - 1 \in Places(Tail(s), e) /\ f[t - 1] = t
      BY <1>1 DEF Places
    <3> QED BY <3>1
  <2> QED BY <2>1, <2>2, <2>3 DEF Bijection, Injection, Surjection, IsInjective
<1>3. IsFiniteSet(rest) /\ Cardinality(rest) = Cardinality(Places(Tail(s), e))
  BY <1>1, <1>2, PlacesFinite, FS_Bijection DEF ExistsBijection
<1>4. Cardinality(rest) \in Nat
  BY <1>3, FS_CardinalityType
<1>5. CASE Head(s) = e
  <2>1. Places(s, e) = rest \cup {1} /\ 1 \notin rest
    BY <1>1, <1>5 DEF Places
  <2> HIDE DEF rest, f
  <2> QED BY ZenonT(40), <1>3, <1>4, <1>5, <2>1, FS_AddElement
<1>6. CASE Head(s) # e
  <2>1. Places(s, e) = rest
    BY <1>1, <1>6 DEF Places
  <2> HIDE DEF rest, f
  <2> QED BY <1>3, <1>4, <1>6, <2>1
<1> QED
  BY <1>5, <1>6

LEMMA WaitingIs ==
  ASSUME ActivityIInv, NEW e \in Event
  PROVE  Waiting(e) = Cardinality(Places(events, e)) + (IF e \in inHand THEN 1 ELSE 0)
<1>1. Cardinality({}) = 0 /\ Cardinality({e}) = 1
  BY FS_EmptySet, FS_Singleton
<1>2. inHand \cap {e} = IF e \in inHand THEN {e} ELSE {}
  BY DEF ActivityIInv, OneInHand
<1>3. Cardinality(inHand \cap {e}) = IF e \in inHand THEN 1 ELSE 0
  BY <1>1, <1>2
<1> QED
  BY <1>3 DEF Waiting, Places

LEMMA FeedInit == ASSUME ActivityInit PROVE FeedTypeOK /\ OneInHand /\ EventsKept
<1>1. today \in Days
  BY ActivityOK DEF ActivityInit, Days
<1>2. \A e \in Event : Waiting(e) = 0
  <2>1. \A e : {i \in DOMAIN events : events[i] = e} = {} /\ inHand \cap {e} = {}
    BY DEF ActivityInit
  <2> QED BY <2>1, FS_EmptySet DEF Waiting
<1>3. FeedTypeOK
  BY <1>1, ActivityOK DEF ActivityInit, FeedTypeOK, Tally, NoEvents
<1> QED
  BY <1>2, <1>3 DEF ActivityInit, OneInHand, EventsKept, NoEvents

(* What a step does to the tallies, event by event.                        *)
LEMMA OneMoreEvent ==
  ASSUME NEW tally \in Tally, NEW e \in Event
  PROVE  /\ One(tally, e) \in Tally
         /\ \A x \in Event : One(tally, e)[x] = tally[x] + (IF x = e THEN 1 ELSE 0)
BY DEF One, Tally

LEMMA WaitingPrimed ==
  ASSUME NEW e, NEW n,
         Cardinality(Places(events', e)) = n, OneInHand'
  PROVE  Waiting(e)' = n + (IF e \in inHand' THEN 1 ELSE 0)
<1>1. Cardinality({}) = 0 /\ Cardinality({e}) = 1
  BY FS_EmptySet, FS_Singleton
<1>2. inHand' \cap {e} = IF e \in inHand' THEN {e} ELSE {}
  BY DEF OneInHand
<1>3. Cardinality(inHand' \cap {e}) = IF e \in inHand' THEN 1 ELSE 0
  BY <1>1, <1>2
<1> QED
  BY <1>3 DEF Waiting, Places

LEMMA FeedStep ==
  ASSUME ActivityIInv, [ActivityNext]_activityVars
  PROVE  FeedTypeOK' /\ OneInHand' /\ EventsKept'
<1> USE DEF ActivityIInv
<1>1. CASE LogActivity
  <2>1. PICK failed \in BOOLEAN :
          LET e == [day |-> today, failed |-> failed] IN
          /\ happened' = One(happened, e)
          /\ IF Len(events) < ActivityCap
             THEN events' = Append(events, e) /\ UNCHANGED lost
             ELSE lost' = One(lost, e) /\ UNCHANGED events
    BY <1>1 DEF LogActivity
  <2> DEFINE e == [day |-> today, failed |-> failed]
  <2>2. e \in Event
    BY DEF FeedTypeOK, Event
  <2> HIDE DEF e
  <2>3. happened' = One(happened, e) /\ UNCHANGED <<today, inHand, table, feedOpen>>
        /\ \/ Len(events) < ActivityCap /\ events' = Append(events, e) /\ lost' = lost
           \/ lost' = One(lost, e) /\ events' = events
    BY <1>1, <2>1 DEF LogActivity, e
  <2>4. OneInHand'
    BY <2>3 DEF OneInHand
  <2>5. /\ happened' \in Tally
        /\ \A x \in Event : happened'[x] = happened[x] + (IF x = e THEN 1 ELSE 0)
    BY <2>2, <2>3, OneMoreEvent DEF FeedTypeOK
  <2>6. CASE Len(events) < ActivityCap /\ events' = Append(events, e) /\ lost' = lost
    <3>1. FeedTypeOK'
      BY <2>2, <2>3, <2>5, <2>6, ActivityOK DEF FeedTypeOK
    <3>2. ASSUME NEW x \in Event PROVE happened'[x] = table'[x] + Waiting(x)' + lost'[x]
      <4>1. Cardinality(Places(events', x)) = Cardinality(Places(events, x)) + (IF e = x THEN 1 ELSE 0)
        BY <2>2, <2>6, PlacesAppend DEF FeedTypeOK
      <4>2. Cardinality(Places(events, x)) \in Nat
        BY PlacesFinite DEF FeedTypeOK
      <4>3. Waiting(x)' = Cardinality(Places(events', x)) + (IF x \in inHand THEN 1 ELSE 0)
        BY <2>3, <2>4, WaitingPrimed
      <4>4. happened[x] = table[x] + Waiting(x) + lost[x] /\ table[x] \in Nat /\ lost[x] \in Nat
        BY DEF EventsKept, FeedTypeOK, Tally
      <4>5. Waiting(x) = Cardinality(Places(events, x)) + (IF x \in inHand THEN 1 ELSE 0)
        BY WaitingIs
      <4>6. table'[x] = table[x] /\ lost'[x] = lost[x]
        BY <2>3, <2>6
      <4>7. happened'[x] = happened[x] + (IF x = e THEN 1 ELSE 0)
        BY <2>5
      <4> QED BY <4>1, <4>2, <4>3, <4>4, <4>5, <4>6, <4>7
    <3> QED BY <2>4, <3>1, <3>2 DEF EventsKept
  <2>7. CASE lost' = One(lost, e) /\ events' = events
    <3>1. lost' \in Tally /\ \A x \in Event : lost'[x] = lost[x] + (IF x = e THEN 1 ELSE 0)
      BY <2>2, <2>7, OneMoreEvent DEF FeedTypeOK
    <3>2. FeedTypeOK'
      BY <2>3, <2>5, <2>7, <3>1 DEF FeedTypeOK
    <3>3. ASSUME NEW x \in Event PROVE happened'[x] = table'[x] + Waiting(x)' + lost'[x]
      <4>1. Waiting(x)' = Waiting(x)
        BY <2>3, <2>7 DEF Waiting
      <4>2. happened[x] = table[x] + Waiting(x) + lost[x] /\ table[x] \in Nat /\ lost[x] \in Nat
        BY DEF EventsKept, FeedTypeOK, Tally
      <4>3. Waiting(x) \in Nat
        BY WaitingIs, PlacesFinite DEF FeedTypeOK
      <4>4. table'[x] = table[x]
        BY <2>3
      <4> QED BY <2>5, <3>1, <4>1, <4>2, <4>3, <4>4
    <3> QED BY <2>4, <3>2, <3>3 DEF EventsKept
  <2> QED BY <2>3, <2>6, <2>7
<1>2. CASE WriterTakes
  <2>1. /\ events # <<>> /\ inHand = {} /\ inHand' = {Head(events)} /\ events' = Tail(events)
        /\ UNCHANGED <<today, table, lost, happened, feedOpen>>
    BY <1>2 DEF WriterTakes
  <2>2. events \in Seq(Event) /\ Len(events) <= ActivityCap
    BY DEF FeedTypeOK
  <2>3. Head(events) \in Event /\ Tail(events) \in Seq(Event) /\ Len(Tail(events)) <= ActivityCap
    BY <2>1, <2>2, ActivityOK
  <2>4. FeedTypeOK' /\ OneInHand'
    BY <2>1, <2>3 DEF FeedTypeOK, OneInHand
  <2>5. ASSUME NEW x \in Event PROVE Waiting(x)' = Waiting(x)
    <3>1. Cardinality(Places(events, x)) =
            Cardinality(Places(events', x)) + (IF Head(events) = x THEN 1 ELSE 0)
      BY <2>1, <2>2, PlacesTail
    <3>2. Cardinality(Places(events', x)) \in Nat
      BY <2>1, <2>3, PlacesFinite
    <3>3. Waiting(x)' = Cardinality(Places(events', x)) + (IF x \in inHand' THEN 1 ELSE 0)
      BY <2>4, WaitingPrimed
    <3>4. Waiting(x) = Cardinality(Places(events, x)) + (IF x \in inHand THEN 1 ELSE 0)
      BY WaitingIs
    <3>5. (x \in inHand' <=> Head(events) = x) /\ x \notin inHand
      BY <2>1
    <3> QED BY <3>1, <3>2, <3>3, <3>4, <3>5
  <2> QED BY <2>1, <2>4, <2>5 DEF EventsKept
<1>3. CASE AddActivity
  <2>1. PICK e \in inHand : \/ table' = One(table, e) /\ lost' = lost
                            \/ lost' = One(lost, e) /\ table' = table
    BY <1>3 DEF AddActivity
  <2>2. inHand = {e} /\ e \in Event
    BY <2>1 DEF OneInHand
  <2>3. inHand' = {} /\ UNCHANGED <<today, events, happened, feedOpen>>
    BY <1>3 DEF AddActivity
  <2>4. /\ table' \in Tally /\ lost' \in Tally
        /\ \A x \in Event : table'[x] + lost'[x] = table[x] + lost[x] + (IF x = e THEN 1 ELSE 0)
    <3>1. table \in Tally /\ lost \in Tally /\ \A x \in Event : table[x] \in Nat /\ lost[x] \in Nat
      BY DEF FeedTypeOK, Tally
    <3> QED BY <2>1, <2>2, <3>1, OneMoreEvent
  <2>5. FeedTypeOK' /\ OneInHand'
    BY <2>3, <2>4 DEF FeedTypeOK, OneInHand
  <2>6. ASSUME NEW x \in Event PROVE happened'[x] = table'[x] + Waiting(x)' + lost'[x]
    <3>1. Waiting(x)' = Cardinality(Places(events, x)) + 0
      BY <2>3, <2>5, WaitingPrimed
    <3>2. Waiting(x) = Cardinality(Places(events, x)) + (IF x = e THEN 1 ELSE 0)
      BY <2>2, WaitingIs
    <3>3. Cardinality(Places(events, x)) \in Nat
      BY PlacesFinite DEF FeedTypeOK
    <3>4. happened[x] = table[x] + Waiting(x) + lost[x] /\ table[x] \in Nat /\ lost[x] \in Nat
      BY DEF EventsKept, FeedTypeOK, Tally
    <3>5. table'[x] \in Nat /\ lost'[x] \in Nat
      BY <2>4 DEF Tally
    <3>6. table'[x] + lost'[x] = table[x] + lost[x] + (IF x = e THEN 1 ELSE 0)
      BY <2>4
    <3>7. happened'[x] = happened[x]
      BY <2>3
    <3> HIDE DEF ActivityIInv
    <3> QED BY <3>1, <3>2, <3>3, <3>4, <3>5, <3>6, <3>7
  <2> QED BY <2>5, <2>6 DEF EventsKept
<1>4. CASE FeedRestarts
  <2>1. /\ lost' = [e \in Event |-> lost[e] + Waiting(e)]
        /\ events' = <<>> /\ inHand' = {} /\ feedOpen' = TRUE
        /\ UNCHANGED <<today, table, happened>>
    BY <1>4 DEF FeedRestarts
  <2>2. \A x \in Event : Waiting(x) \in Nat /\ lost[x] \in Nat /\ table[x] \in Nat
    <3> TAKE x \in Event
    <3>1. Cardinality(Places(events, x)) \in Nat
      BY PlacesFinite DEF FeedTypeOK
    <3>2. Waiting(x) = Cardinality(Places(events, x)) + (IF x \in inHand THEN 1 ELSE 0)
      BY WaitingIs
    <3> QED BY <3>1, <3>2 DEF FeedTypeOK, Tally
  <2>3. FeedTypeOK'
    BY <2>1, <2>2, ActivityOK DEF FeedTypeOK, Tally
  <2>4. ASSUME NEW x \in Event PROVE Waiting(x)' = 0
    <3>1. {i \in DOMAIN events' : events'[i] = x} = {} /\ inHand' \cap {x} = {}
      BY <2>1
    <3> QED BY <3>1, FS_EmptySet DEF Waiting
  <2>5. EventsKept'
    BY <2>1, <2>2, <2>4 DEF EventsKept
  <2> QED BY <2>1, <2>3, <2>5 DEF OneInHand
<1>5. CASE NextDay
  <2>1. today' = today + 1 /\ today < LastDay
        /\ UNCHANGED <<events, inHand, table, lost, happened, feedOpen>>
    BY <1>5 DEF NextDay
  <2>2. FeedTypeOK'
    BY <2>1, ActivityOK DEF FeedTypeOK, Days
  <2> QED BY <2>1, <2>2 DEF OneInHand, EventsKept, Waiting
<1>6. CASE \/ CloseActivity \/ ActivityByDay \/ GridDay \/ GridAnswered \/ UNCHANGED activityVars
  <2>1. UNCHANGED <<today, events, inHand, table, lost, happened>> /\ feedOpen' \in BOOLEAN
    BY <1>6 DEF CloseActivity, ActivityByDay, GridDay, GridAnswered, activityVars, FeedTypeOK
  <2> QED BY <2>1 DEF FeedTypeOK, OneInHand, EventsKept, Waiting
<1> QED
  BY <1>1, <1>2, <1>3, <1>4, <1>5, <1>6 DEF ActivityNext

-----------------------------------------------------------------------------
(* The grid.                                                               *)

(* A grid in which no day has been seen yet.                               *)
NothingYet ==
  /\ grid \in Grid /\ grid.next = grid.from /\ grid.next <= grid.to + 1
  /\ grid.total = 0 /\ grid.failed = 0 /\ grid.max = 0 /\ grid.active = 0
  /\ grid.streak = 0 /\ grid.best = 0

LEMMA NothingSeen == ASSUME NothingYet PROVE GridIInv
<1> USE DEF NothingYet
<1>1. Seen = {} /\ grid.next \in Nat /\ grid.from \in Nat
  BY DEF Seen, Grid, Days
<1>2. RowsSeen(BOOLEAN) = {} /\ RowsSeen({TRUE}) = {} /\ {d \in Seen : Active(d)} = {}
  BY <1>1 DEF RowsSeen
<1>3. CountsRight /\ IsFiniteSet(RowsSeen(BOOLEAN))
  BY <1>2, FS_EmptySet DEF CountsRight
<1>4. StreakIs(grid.streak)
  BY <1>1 DEF StreakIs
<1>5. Runs = {}
  BY <1>1 DEF Runs
<1>6. {On(grid.rows, d) : d \in Seen} \cup {0} = {0} /\ {Length(r) : r \in Runs} \cup {0} = {0}
  BY <1>1, <1>5
<1>7. IsMax({On(grid.rows, d) : d \in Seen} \cup {0}, grid.max)
      /\ IsMax({Length(r) : r \in Runs} \cup {0}, grid.best)
  BY <1>6 DEF IsMax
<1> QED
  BY <1>1, <1>3, <1>4, <1>7 DEF GridIInv

LEMMA NothingSeenNext == NothingYet' => GridIInv'
<1>1. NothingYet => GridIInv
  BY NothingSeen
<1> QED
  BY <1>1, PTL

LEMMA NoGridSeen ==
  /\ NoGrid \in Grid /\ NoGrid.next = NoGrid.from /\ NoGrid.next <= NoGrid.to + 1
  /\ NoGrid.total = 0 /\ NoGrid.failed = 0 /\ NoGrid.max = 0 /\ NoGrid.active = 0
  /\ NoGrid.streak = 0 /\ NoGrid.best = 0
<1>1. NoEvents \in Tally
  BY DEF NoEvents, Tally
<1> QED
  BY <1>1, ActivityOK DEF NoGrid, Grid, Days

(* One round of the loop, field by field.                                  *)
LEMMA GridFields ==
  ASSUME grid \in Grid, GridDay
  PROVE  /\ grid.next \in Nat /\ grid.from \in Nat /\ grid.to \in Nat
         /\ grid.next \in Days /\ grid.next <= grid.to
         /\ On(grid.rows, grid.next) \in Nat
         /\ grid' \in Grid
         /\ grid'.rows = grid.rows /\ grid'.from = grid.from /\ grid'.to = grid.to
         /\ grid'.next = grid.next + 1
         /\ grid'.total = grid.total + On(grid.rows, grid.next)
         /\ grid'.failed = grid.failed + grid.rows[[day |-> grid.next, failed |-> TRUE]]
         /\ grid'.max = IF On(grid.rows, grid.next) > grid.max
                        THEN On(grid.rows, grid.next) ELSE grid.max
         /\ grid'.active = IF Active(grid.next) THEN grid.active + 1 ELSE grid.active
         /\ grid'.streak = IF Active(grid.next) THEN grid.streak + 1 ELSE 0
         /\ grid'.best = IF Active(grid.next) /\ grid.streak + 1 > grid.best
                         THEN grid.streak + 1 ELSE grid.best
<1>1. /\ grid.rows \in Tally /\ grid.from \in Days /\ grid.next \in 1 .. LastDay + 1
      /\ grid.to \in 0 .. LastDay /\ grid.total \in Nat /\ grid.failed \in Nat
      /\ grid.max \in Nat /\ grid.active \in Nat /\ grid.streak \in Nat /\ grid.best \in Nat
  BY DEF Grid
<1>2. grid.next <= grid.to
  BY DEF GridDay
<1>3. grid.next \in Days /\ grid.next + 1 \in 1 .. LastDay + 1
  BY <1>1, <1>2, ActivityOK DEF Days
<1> DEFINE eF == [day |-> grid.next, failed |-> FALSE]
           eT == [day |-> grid.next, failed |-> TRUE]
           n == On(grid.rows, grid.next)
<1>4. eF \in Event /\ eT \in Event
  BY <1>3 DEF Event
<1>5. grid.rows[eF] \in Nat /\ grid.rows[eT] \in Nat
  BY <1>1, <1>4 DEF Tally
<1>6. n \in Nat
  BY <1>5 DEF On
<1>7. grid' = [grid EXCEPT
       !.next = grid.next + 1, !.total = grid.total + n,
       !.failed = grid.failed + grid.rows[eT],
       !.max = IF n > grid.max THEN n ELSE grid.max,
       !.active = IF n > 0 THEN grid.active + 1 ELSE grid.active,
       !.streak = IF n > 0 THEN grid.streak + 1 ELSE 0,
       !.best = IF n > 0 /\ grid.streak + 1 > grid.best THEN grid.streak + 1 ELSE grid.best]
  BY DEF GridDay
<1>8. Active(grid.next) <=> n > 0
  BY DEF Active
<1>9. /\ grid.next \in Nat /\ grid.from \in Nat /\ grid.to \in Nat
  BY <1>1 DEF Days
<1> HIDE DEF n, eT, eF
<1>10. /\ grid.total + n \in Nat /\ grid.failed + grid.rows[eT] \in Nat
       /\ (IF n > grid.max THEN n ELSE grid.max) \in Nat
       /\ (IF n > 0 THEN grid.active + 1 ELSE grid.active) \in Nat
       /\ (IF n > 0 THEN grid.streak + 1 ELSE 0) \in Nat
       /\ (IF n > 0 /\ grid.streak + 1 > grid.best THEN grid.streak + 1 ELSE grid.best) \in Nat
  BY <1>1, <1>5, <1>6
<1>11. grid' \in Grid
  BY <1>1, <1>3, <1>7, <1>10 DEF Grid
<1>12. /\ grid'.rows = grid.rows /\ grid'.from = grid.from /\ grid'.to = grid.to
       /\ grid'.next = grid.next + 1
       /\ grid'.total = grid.total + n
       /\ grid'.failed = grid.failed + grid.rows[eT]
       /\ grid'.max = IF n > grid.max THEN n ELSE grid.max
       /\ grid'.active = IF n > 0 THEN grid.active + 1 ELSE grid.active
       /\ grid'.streak = IF n > 0 THEN grid.streak + 1 ELSE 0
       /\ grid'.best = IF n > 0 /\ grid.streak + 1 > grid.best THEN grid.streak + 1 ELSE grid.best
  BY <1>7 DEF Grid
<1> QED
  BY <1>2, <1>3, <1>6, <1>8, <1>9, <1>11, <1>12 DEF n, eT

LEMMA SeenGrows ==
  ASSUME grid \in Grid, GridDay, grid.from <= grid.next
  PROVE  /\ Seen' = Seen \cup {grid.next} /\ grid.next \notin Seen
         /\ \A d \in Seen : d < grid.next
         /\ \A d : On(grid.rows, d)' = On(grid.rows, d) /\ (Active(d)' <=> Active(d))
<1>1. grid'.rows = grid.rows /\ grid'.from = grid.from /\ grid'.next = grid.next + 1
      /\ grid.next \in Nat /\ grid.from \in Nat
  BY GridFields
<1>2. Seen' = Seen \cup {grid.next} /\ grid.next \notin Seen /\ \A d \in Seen : d < grid.next
  BY <1>1 DEF Seen
<1> QED
  BY <1>1, <1>2 DEF On, Active

(* The rows of one more day join the ones counted.                         *)
LEMMA RowsGrow ==
  ASSUME grid \in Grid, GridDay, grid.from <= grid.next, IsFiniteSet(RowsSeen(BOOLEAN)),
         CountsRight
  PROVE  IsFiniteSet(RowsSeen(BOOLEAN))' /\ CountsRight'
<1> DEFINE d == grid.next
           eF == [day |-> d, failed |-> FALSE]
           eT == [day |-> d, failed |-> TRUE]
           newF == {eF} \X (1 .. grid.rows[eF])
           newT == {eT} \X (1 .. grid.rows[eT])
<1>1. /\ d \in Days /\ grid'.rows = grid.rows
      /\ grid'.total = grid.total + On(grid.rows, d)
      /\ grid'.failed = grid.failed + grid.rows[eT]
      /\ grid'.active = IF Active(d) THEN grid.active + 1 ELSE grid.active
  BY GridFields
<1>2. Seen' = Seen \cup {d} /\ d \notin Seen /\ \A x : Active(x)' <=> Active(x)
  BY SeenGrows
<1>3. eF \in Event /\ eT \in Event /\ eF # eT
  BY <1>1 DEF Event
<1>4. \A x \in Event : x.day = d <=> x = eF \/ x = eT
  BY DEF Event
<1>5. grid.rows[eF] \in Nat /\ grid.rows[eT] \in Nat
  BY <1>3 DEF Grid, Tally
<1>6. On(grid.rows, d) = grid.rows[eF] + grid.rows[eT]
  BY DEF On
<1> DEFINE Copies(x) == {x} \X (1 .. grid.rows[x])
<1>7. RowsSeen(BOOLEAN)' = UNION {Copies(x) : x \in {y \in Event : y.day \in Seen'}}
      /\ RowsSeen(BOOLEAN) = UNION {Copies(x) : x \in {y \in Event : y.day \in Seen}}
      /\ RowsSeen({TRUE})' = UNION {Copies(x) : x \in {y \in Event : y.day \in Seen' /\ y.failed = TRUE}}
      /\ RowsSeen({TRUE}) = UNION {Copies(x) : x \in {y \in Event : y.day \in Seen /\ y.failed = TRUE}}
  BY <1>1 DEF RowsSeen, Event
<1>8. /\ {y \in Event : y.day \in Seen'} = {y \in Event : y.day \in Seen} \cup {eF, eT}
      /\ {y \in Event : y.day \in Seen' /\ y.failed = TRUE}
           = {y \in Event : y.day \in Seen /\ y.failed = TRUE} \cup {eT}
  <2>1. eF.day = d /\ eT.day = d /\ eF.failed = FALSE /\ eT.failed = TRUE
    OBVIOUS
  <2> HIDE DEF eF, eT, d, newF, newT
  <2> QED BY <1>2, <1>3, <1>4, <2>1
<1>9. newF = Copies(eF) /\ newT = Copies(eT)
  OBVIOUS
<1> HIDE DEF newF, newT, eF, eT, d
<1>10. /\ RowsSeen(BOOLEAN)' = (RowsSeen(BOOLEAN) \cup newF) \cup newT
       /\ RowsSeen({TRUE})' = RowsSeen({TRUE}) \cup newT
  BY <1>7, <1>8, <1>9
<1>11. RowsSeen({TRUE}) \subseteq RowsSeen(BOOLEAN)
  BY <1>7
<1>12. RowsSeen(BOOLEAN) \cap newF = {} /\ RowsSeen(BOOLEAN) \cap newT = {} /\ newF \cap newT = {}
       /\ RowsSeen({TRUE}) \cap newT = {}
  <2>1. eF \notin {y \in Event : y.day \in Seen} /\ eT \notin {y \in Event : y.day \in Seen}
    BY <1>2 DEF eF, eT
  <2>2. \A t \in RowsSeen(BOOLEAN) : t[1] \in {y \in Event : y.day \in Seen}
    BY <1>7
  <2>3. (\A t \in newF : t[1] = eF) /\ (\A t \in newT : t[1] = eT)
    BY <1>9
  <2> QED BY <1>3, <1>11, <2>1, <2>2, <2>3
<1>13. /\ IsFiniteSet(newF) /\ Cardinality(newF) = grid.rows[eF]
       /\ IsFiniteSet(newT) /\ Cardinality(newT) = grid.rows[eT]
  BY <1>5, <1>9, CopiesCounted
<1>14. /\ IsFiniteSet(RowsSeen(BOOLEAN) \cup newF)
       /\ Cardinality(RowsSeen(BOOLEAN) \cup newF) = Cardinality(RowsSeen(BOOLEAN)) + grid.rows[eF]
  BY <1>12, <1>13, ApartCounted
<1>15. (RowsSeen(BOOLEAN) \cup newF) \cap newT = {}
  BY <1>12
<1>16. /\ IsFiniteSet(RowsSeen(BOOLEAN)')
       /\ Cardinality(RowsSeen(BOOLEAN)') = Cardinality(RowsSeen(BOOLEAN) \cup newF) + grid.rows[eT]
  BY <1>10, <1>13, <1>14, <1>15, ApartCounted
<1>17. IsFiniteSet(RowsSeen({TRUE}))
  BY <1>11, FS_Subset
<1>18. Cardinality(RowsSeen({TRUE})') = Cardinality(RowsSeen({TRUE})) + grid.rows[eT]
  BY <1>10, <1>12, <1>13, <1>17, ApartCounted
<1>19. Cardinality({x \in Seen : Active(x)}') =
         Cardinality({x \in Seen : Active(x)}) + (IF Active(d) THEN 1 ELSE 0)
  <2>1. IsFiniteSet(Seen)
    <3>1. grid.from \in Int /\ grid.next - 1 \in Int
      BY GridFields
    <3> QED BY <3>1, FS_Interval DEF Seen
  <2>2. IsFiniteSet({x \in Seen : Active(x)})
    BY <2>1, FS_Subset
  <2>3. Cardinality({x \in Seen : Active(x)}) \in Nat
    BY <2>2, FS_CardinalityType
  <2>4. {x \in Seen : Active(x)}' = {x \in Seen \cup {d} : Active(x)}
    BY <1>2
  <2>5. CASE Active(d)
    <3>1. {x \in Seen \cup {d} : Active(x)} = {x \in Seen : Active(x)} \cup {d}
          /\ d \notin {x \in Seen : Active(x)}
      BY <1>2, <2>5
    <3> QED BY <2>2, <2>4, <2>5, <3>1, FS_AddElement
  <2>6. CASE ~Active(d)
    <3>1. {x \in Seen \cup {d} : Active(x)} = {x \in Seen : Active(x)}
      BY <2>6
    <3>2. Cardinality({x \in Seen : Active(x)}') = Cardinality({x \in Seen : Active(x)})
      BY <2>4, <3>1
    <3> QED BY <2>3, <2>6, <3>2
  <2> QED BY <2>5, <2>6
<1>20. grid.total \in Nat /\ grid.failed \in Nat /\ grid.active \in Nat
  BY DEF Grid
<1>21. /\ grid'.total = Cardinality(RowsSeen(BOOLEAN)')
       /\ grid'.failed = Cardinality(RowsSeen({TRUE})')
       /\ grid'.active = Cardinality({x \in Seen : Active(x)}')
  BY <1>1, <1>5, <1>6, <1>14, <1>16, <1>18, <1>19, <1>20 DEF CountsRight
<1> QED
  BY <1>16, <1>21 DEF CountsRight

(* The streaks after one more day, from the streak before it.              *)
LEMMA StreakGrows ==
  ASSUME grid \in Grid, GridDay, grid.from <= grid.next, StreakIs(grid.streak)
  PROVE  StreakIs(grid.streak)'
<1>1. /\ grid.next \in Nat /\ grid.from \in Nat /\ grid.streak \in Nat
      /\ grid'.from = grid.from /\ grid'.next = grid.next + 1
      /\ grid'.streak = IF Active(grid.next) THEN grid.streak + 1 ELSE 0
  BY GridFields DEF Grid
<1>2. \A d : Active(d)' <=> Active(d)
  BY SeenGrows
<1>3. CASE Active(grid.next)
  <2>1. grid'.next - grid'.streak = grid.next - grid.streak /\ grid'.streak \in Nat
        /\ grid'.next - 1 = grid.next /\ grid.next - grid.streak \in Int
    BY <1>1, <1>3
  <2>2. \A d \in grid.next - grid.streak .. grid.next : Active(d)
    <3> TAKE d \in grid.next - grid.streak .. grid.next
    <3>1. d = grid.next \/ d \in grid.next - grid.streak .. grid.next - 1
      BY <1>1, <2>1
    <3> QED BY <1>3, <3>1 DEF StreakIs
  <2> QED BY <1>1, <1>2, <2>1, <2>2 DEF StreakIs
<1>4. CASE ~Active(grid.next)
  <2>1. grid'.streak = 0 /\ grid'.next - 0 = grid.next + 1 /\ grid'.next - 1 = grid.next
        /\ grid'.next - 0 - 1 = grid.next
    BY <1>1, <1>4
  <2>2. grid'.next - 0 .. grid'.next - 1 = {}
    BY <1>1, <2>1
  <2> QED BY <1>1, <1>2, <1>4, <2>1, <2>2 DEF StreakIs
<1> QED
  BY <1>3, <1>4

LEMMA RunsAre ==
  ASSUME grid \in Grid
  PROVE  \A r : r \in Runs <=>
           \E a, b \in Seen : r = <<a, b>> /\ a <= b /\ \A d \in a .. b : Active(d)
BY DEF Runs

(* A run that ends with the last day seen lies in the streak.              *)
LEMMA LastRun ==
  ASSUME grid \in Grid, NEW k, StreakIs(k), NEW a \in Seen, a <= grid.next - 1,
         \A d \in a .. grid.next - 1 : Active(d)
  PROVE  grid.next - 1 - a + 1 <= k
<1>1. grid.next \in Nat /\ grid.from \in Nat /\ a \in Nat /\ grid.from <= a /\ k \in Nat
  BY DEF Grid, Days, Seen, StreakIs
<1>2. CASE a < grid.next - k
  <2>1. grid.next - k - 1 \in a .. grid.next - 1 /\ grid.from <= grid.next - k - 1
    BY <1>1, <1>2
  <2> QED BY <2>1 DEF StreakIs
<1>3. CASE a >= grid.next - k
  BY <1>1, <1>3
<1> QED
  BY <1>1, <1>2, <1>3

LEMMA LengthsInt ==
  ASSUME grid \in Grid
  PROVE  /\ \A r \in Runs : Length(r) \in Nat
         /\ \A r \in Runs' : grid' \in Grid => Length(r) \in Nat
<1>1. ASSUME NEW a \in Nat, NEW b \in Nat, a <= b PROVE Length(<<a, b>>) \in Nat
  BY <1>1 DEF Length
<1>2. Seen \subseteq Nat /\ (grid' \in Grid => Seen' \subseteq Nat)
  BY DEF Seen, Grid, Days
<1>3. (\A r \in Runs : \E a, b \in Seen : r = <<a, b>> /\ a <= b)
      /\ (\A r \in Runs' : \E a, b \in Seen' : r = <<a, b>> /\ a <= b)
  BY DEF Runs
<1> QED
  BY <1>1, <1>2, <1>3

LEMMA BestGrows ==
  ASSUME grid \in Grid, GridDay, grid.from <= grid.next, StreakIs(grid.streak),
         IsMax({Length(r) : r \in Runs} \cup {0}, grid.best)
  PROVE  IsMax({Length(r) : r \in Runs} \cup {0}, grid.best)'
<1> DEFINE S == {Length(r) : r \in Runs}
           T == {Length(r) : r \in Runs'}
<1>1. /\ grid.next \in Nat /\ grid.from \in Nat /\ grid' \in Grid
      /\ grid.streak \in Nat /\ grid.best \in Nat
      /\ grid'.from = grid.from /\ grid'.next = grid.next + 1
      /\ grid'.streak = IF Active(grid.next) THEN grid.streak + 1 ELSE 0
      /\ grid'.best = IF Active(grid.next) /\ grid.streak + 1 > grid.best
                      THEN grid.streak + 1 ELSE grid.best
  BY GridFields DEF Grid
<1>2. Seen' = Seen \cup {grid.next} /\ (\A d : Active(d)' <=> Active(d))
      /\ \A d \in Seen : d < grid.next
  BY SeenGrows
<1>3. Seen \subseteq Nat
  BY <1>1 DEF Seen
<1>4. Runs \subseteq Runs'
  BY <1>2 DEF Runs
<1>5. grid.best \in S \cup {0} /\ \A x \in S \cup {0} : x <= grid.best
  BY DEF IsMax
<1>6. grid.best <= grid'.best /\ grid'.best \in Nat
  BY <1>1
<1>7. StreakIs(grid.streak)'
  BY StreakGrows
<1>8. \A x \in T \cup {0} : x <= grid'.best
  <2> SUFFICES ASSUME NEW r \in Runs' PROVE Length(r) <= grid'.best
    BY <1>6
  <2>1. PICK a \in Seen', b \in Seen' : r = <<a, b>> /\ a <= b /\ \A d \in a .. b : Active(d)
    BY <1>2 DEF Runs
  <2>2. a \in Nat /\ b \in Nat
    BY <1>1, <1>2, <1>3, <2>1
  <2>3. CASE b = grid.next
    <3>1. Active(grid.next)
      BY <2>1, <2>2, <2>3
    <3>2. b = grid'.next - 1 /\ a <= grid'.next - 1
      BY <1>1, <2>1, <2>3
    <3>3. \A d \in a .. grid'.next - 1 : Active(d)'
      BY <1>2, <2>1, <3>2
    <3>4. grid'.next - 1 - a + 1 <= grid'.streak
      <4>1. grid'.streak \in Nat /\ grid'.from <= a
        BY <1>1, <2>1, <3>1 DEF Seen
      <4>2. CASE a < grid'.next - grid'.streak
        <5>1. grid'.next - grid'.streak - 1 \in a .. grid'.next - 1
              /\ grid'.from <= grid'.next - grid'.streak - 1
          BY <1>1, <2>2, <4>1, <4>2
        <5> QED BY <1>7, <3>3, <5>1 DEF StreakIs
      <4>3. CASE a >= grid'.next - grid'.streak
        BY <1>1, <2>2, <4>1, <4>3
      <4> QED BY <1>1, <2>2, <4>1, <4>2, <4>3
    <3>5. Length(r) = grid'.next - 1 - a + 1
      BY <1>1, <2>1, <2>2, <3>2 DEF Length
    <3> QED BY <1>1, <2>2, <3>1, <3>4, <3>5
  <2>4. CASE b # grid.next
    <3>1. b \in Seen /\ a \in Seen
      BY <1>2, <1>3, <2>1, <2>2, <2>4
    <3>2. r \in Runs
      BY <2>1, <3>1 DEF Runs
    <3>3. Length(r) \in Nat /\ Length(r) <= grid.best
      BY <1>5, <3>2, LengthsInt
    <3> QED BY <1>1, <1>6, <3>3
  <2> QED BY <2>3, <2>4
<1>9. grid'.best \in T \cup {0}
  <2>1. CASE grid'.best = grid.best
    BY <1>4, <1>5, <2>1
  <2>2. CASE grid'.best # grid.best
    <3>1. Active(grid.next) /\ grid'.best = grid.streak + 1
      BY <1>1, <2>2
    <3> DEFINE a == grid.next - grid.streak
    <3>2. a \in Seen' /\ grid.next \in Seen' /\ a <= grid.next
      BY <1>1 DEF StreakIs, Seen
    <3>3. \A d \in a .. grid.next : Active(d)'
      <4>1. ASSUME NEW d \in a .. grid.next PROVE d = grid.next \/ d \in a .. grid.next - 1
        BY <1>1
      <4> QED BY <1>2, <3>1, <4>1 DEF StreakIs
    <3>4. <<a, grid.next>> \in Runs'
      BY <3>2, <3>3 DEF Runs
    <3>5. Length(<<a, grid.next>>) = grid.streak + 1
      BY <1>1 DEF Length
    <3> QED BY <3>1, <3>4, <3>5
  <2> QED BY <2>1, <2>2
<1> QED
  BY <1>8, <1>9 DEF IsMax

(* The days seen are days of the feed, and what a day had is a number.     *)
LEMMA SeenAreDays ==
  ASSUME grid \in Grid
  PROVE  Seen \subseteq Days /\ Seen \subseteq Nat /\ \A d \in Seen : On(grid.rows, d) \in Nat
<1>1. LastDay \in Nat /\ grid.from \in 1 .. LastDay /\ grid.next \in 1 .. LastDay + 1
      /\ grid.rows \in Tally
  BY ActivityOK DEF Grid, Days
<1>2. ASSUME NEW d \in Seen PROVE d \in 1 .. LastDay /\ d \in Nat
  BY <1>1, <1>2 DEF Seen
<1>3. ASSUME NEW d \in Seen PROVE On(grid.rows, d) \in Nat
  <2>1. [day |-> d, failed |-> FALSE] \in Event /\ [day |-> d, failed |-> TRUE] \in Event
    BY <1>2, <1>3 DEF Event, Days
  <2>2. grid.rows[[day |-> d, failed |-> FALSE]] \in Nat /\ grid.rows[[day |-> d, failed |-> TRUE]] \in Nat
    BY <1>1, <2>1 DEF Tally
  <2> QED BY <2>2 DEF On
<1> QED
  BY <1>2, <1>3 DEF Days

LEMMA MaxGrows ==
  ASSUME grid \in Grid, GridDay, grid.from <= grid.next,
         IsMax({On(grid.rows, d) : d \in Seen} \cup {0}, grid.max)
  PROVE  IsMax({On(grid.rows, d) : d \in Seen} \cup {0}, grid.max)'
<1> DEFINE n == On(grid.rows, grid.next)
           S == {On(grid.rows, d) : d \in Seen}
<1>1. n \in Nat /\ grid.max \in Nat /\ grid'.rows = grid.rows
      /\ grid'.max = IF n > grid.max THEN n ELSE grid.max
  BY GridFields DEF Grid
<1>2. Seen' = Seen \cup {grid.next}
  BY SeenGrows
<1>3. {On(grid'.rows, d) : d \in Seen'} = S \cup {n}
  BY <1>1, <1>2
<1>4. {On(grid.rows, d) : d \in Seen}' = S \cup {n}
  BY <1>3 DEF On
<1>5. S \subseteq Nat
  BY SeenAreDays
<1>6. grid.max \in S \cup {0} /\ \A x \in S \cup {0} : x <= grid.max
  BY DEF IsMax
<1> HIDE DEF S, n
<1>7. grid'.max \in (S \cup {n}) \cup {0} /\ \A x \in (S \cup {n}) \cup {0} : x <= grid'.max
  BY <1>1, <1>5, <1>6
<1> QED
  BY <1>4, <1>7 DEF IsMax

LEMMA GridStep ==
  ASSUME ActivityIInv, [ActivityNext]_activityVars
  PROVE  grid' \in Grid /\ GridIInv'
<1> USE DEF ActivityIInv
<1>1. CASE GridDay
  <2>1. grid.from <= grid.next
    BY DEF GridIInv
  <2>2. /\ grid' \in Grid /\ grid'.next = grid.next + 1 /\ grid'.to = grid.to
        /\ grid'.from = grid.from /\ grid.next <= grid.to
        /\ grid.next \in Nat /\ grid.from \in Nat /\ grid.to \in Nat
    BY <1>1, GridFields
  <2>3. grid'.next <= grid'.to + 1 /\ grid'.from <= grid'.next
    BY <2>1, <2>2
  <2>4. IsFiniteSet(RowsSeen(BOOLEAN))' /\ CountsRight'
    BY <1>1, <2>1, RowsGrow DEF GridIInv
  <2>5. StreakIs(grid.streak)'
    BY <1>1, <2>1, StreakGrows DEF GridIInv
  <2>6. IsMax({Length(r) : r \in Runs} \cup {0}, grid.best)'
    BY <1>1, <2>1, BestGrows DEF GridIInv
  <2>7. IsMax({On(grid.rows, d) : d \in Seen} \cup {0}, grid.max)'
    BY <1>1, <2>1, MaxGrows DEF GridIInv
  <2> QED BY <2>2, <2>3, <2>4, <2>5, <2>6, <2>7 DEF GridIInv
<1>2. CASE grid' = NoGrid
  <2>1. NothingYet'
    BY <1>2, NoGridSeen DEF NothingYet
  <2> QED BY <2>1, NothingSeenNext DEF NothingYet
<1>3. CASE ActivityByDay
  <2>1. PICK from \in 1 .. today : \E to \in from .. today :
          grid' = [NoGrid EXCEPT !.rows = table, !.from = from, !.next = from, !.to = to]
    BY <1>3 DEF ActivityByDay
  <2>2. PICK to \in from .. today :
          grid' = [NoGrid EXCEPT !.rows = table, !.from = from, !.next = from, !.to = to]
    BY <2>1
  <2>3. /\ from \in Days /\ from \in 1 .. LastDay + 1 /\ to \in 0 .. LastDay /\ from <= to + 1
        /\ table \in Tally
    BY ActivityOK DEF FeedTypeOK, Days
  <2>4. NothingYet'
    BY <2>2, <2>3 DEF NothingYet, NoGrid, Grid
  <2> QED BY <2>4, NothingSeenNext DEF NothingYet
<1>4. CASE UNCHANGED grid
  BY <1>4 DEF GridIInv, CountsRight, RowsSeen, StreakIs, IsMax, Seen, Runs, Active, On, Length
<1>5. \/ GridDay \/ grid' = NoGrid \/ ActivityByDay \/ UNCHANGED grid
  BY DEF ActivityNext, activityVars, LogActivity, WriterTakes, AddActivity, CloseActivity,
         FeedRestarts, NextDay, GridAnswered
<1> QED
  BY <1>1, <1>2, <1>3, <1>4, <1>5

LEMMA ActivityInitIInv == ASSUME ActivityInit PROVE ActivityIInv
<1>1. NothingYet
  BY NoGridSeen DEF ActivityInit, NothingYet
<1> QED
  BY <1>1, NothingSeen, FeedInit DEF ActivityIInv, NothingYet

LEMMA ActivityStepIInv == ASSUME ActivityIInv, [ActivityNext]_activityVars PROVE ActivityIInv'
BY FeedStep, GridStep DEF ActivityIInv

(* The invariant says what the grid should say.                            *)
LEMMA GridIsTrue == ASSUME ActivityIInv PROVE GridTrue
<1> USE DEF ActivityIInv
<1>1. /\ grid.next \in Nat /\ grid.from \in Nat /\ grid.streak \in Nat /\ grid.rows \in Tally
  BY DEF Grid, Days
<1>2. Seen \subseteq Nat /\ Seen \subseteq Days /\ \A d \in Seen : On(grid.rows, d) \in Nat
  BY SeenAreDays
<1>3. grid.max = Max({On(grid.rows, d) : d \in Seen} \cup {0})
  <2> DEFINE S == {On(grid.rows, d) : d \in Seen}
  <2>1. S \in SUBSET Int
    BY <1>2
  <2>2. S \cup {0} \in SUBSET Int
    BY <2>1
  <2>3. IsMax(S \cup {0}, grid.max)
    BY DEF GridIInv
  <2> QED BY <2>2, <2>3, MaxIs
<1>4. grid.best = Max({Length(r) : r \in Runs} \cup {0})
  <2>1. {Length(r) : r \in Runs} \cup {0} \in SUBSET Int
    BY LengthsInt
  <2> QED BY <2>1, MaxIs DEF GridIInv
<1>5. grid.streak = Max({Length(r) : r \in {x \in Runs : x[2] = grid.next - 1}} \cup {0})
  <2> DEFINE last == {x \in Runs : x[2] = grid.next - 1}
             S == {Length(r) : r \in last} \cup {0}
  <2>1. StreakIs(grid.streak)
    BY DEF GridIInv
  <2>2. ASSUME NEW r \in last PROVE Length(r) \in Nat /\ Length(r) <= grid.streak
    <3>1. PICK a \in Seen, b \in Seen : r = <<a, b>> /\ a <= b /\ \A d \in a .. b : Active(d)
      BY <2>2 DEF Runs
    <3>2. b = grid.next - 1
      BY <2>2, <3>1
    <3>3. grid.next - 1 - a + 1 <= grid.streak
      BY <2>1, <3>1, <3>2, LastRun
    <3>4. Length(r) = grid.next - 1 - a + 1
      BY <1>1, <1>2, <3>1, <3>2 DEF Length
    <3> QED BY <2>2, <3>3, <3>4, LengthsInt
  <2>3. S \in SUBSET Int /\ \A x \in S : x <= grid.streak
    BY <1>1, <2>2
  <2>4. grid.streak \in S
    <3>1. CASE grid.streak = 0
      BY <3>1
    <3>2. CASE grid.streak # 0
      <4> DEFINE a == grid.next - grid.streak
                 b == grid.next - 1
      <4>1. a \in Seen /\ b \in Seen /\ a <= b /\ \A d \in a .. b : Active(d)
        BY <1>1, <2>1, <3>2 DEF StreakIs, Seen
      <4>2. <<a, b>> \in last
        BY <4>1 DEF Runs
      <4>3. Length(<<a, b>>) = grid.streak
        BY <1>1 DEF Length
      <4> QED BY <4>2, <4>3
    <3> QED BY <3>1, <3>2
  <2> HIDE DEF S
  <2>5. Max(S) = grid.streak
    BY <2>3, <2>4, MaxIs DEF IsMax
  <2> QED BY <2>5 DEF S
<1>6. CountsRight
  BY DEF GridIInv
<1> QED
  BY <1>3, <1>4, <1>5, <1>6 DEF GridTrue, StreaksRight

(* Whatever the feed drops, loses or closes, every event is in the table   *)
(* once, on its way or known as lost, and the numbers and streaks of every *)
(* grid are those of the rows it was made from, for every range of days    *)
(* (activity.go:146-217).                                                  *)
THEOREM GridIsRight == ActivitySpec => []GridTrue
<1>1. ActivityIInv => GridTrue
  BY GridIsTrue
<1> QED
  BY <1>1, ActivityInitIInv, ActivityStepIInv, PTL DEF ActivitySpec

-----------------------------------------------------------------------------
(***************************************************************************)
(* The services beside each other.  They share no variable, so the         *)
(* invariant of each is kept by its own steps and by everybody else's.     *)
(***************************************************************************)
ServicesIInv ==
  /\ SignInIInv /\ TokenIInv /\ InstIInv /\ LimitIInv /\ DiskIInv /\ ActivityIInv
  /\ HandoverIInv

LEMMA ServicesInitIInv == ASSUME ServicesInit PROVE ServicesIInv
BY SignInInitIInv, TokenInitIInv, InstInitIInv, LimitInitIInv, DiskInitIInv, ActivityInitIInv,
   HandoverInitIInv DEF ServicesInit, ServicesIInv

LEMMA ServicesStepIInv ==
  ASSUME ServicesIInv, [ServicesNext]_servicesVars
  PROVE  ServicesIInv'
<1>1. /\ [SignInNext]_signInVars /\ [TokenNext]_tokenVars /\ [InstNext]_instVars
      /\ [LimitNext]_limitVars /\ [DiskNext]_diskVars /\ [ActivityNext]_activityVars
      /\ [HandoverNext]_handoverVars
  BY DEF ServicesNext, servicesVars, SignInPart, TokenPart, InstPart, LimitPart, DiskPart,
         ActivityPart, HandoverPart
<1>2. SignInIInv' /\ TokenIInv' /\ InstIInv'
  BY <1>1, SignInStepIInv, TokenStepIInv, InstStepIInv DEF ServicesIInv
<1>3. LimitIInv' /\ DiskIInv' /\ ActivityIInv' /\ HandoverIInv'
  BY <1>1, LimitStepIInv, DiskStepIInv, ActivityStepIInv, HandoverStepIInv DEF ServicesIInv
<1> QED
  BY <1>2, <1>3 DEF ServicesIInv

LEMMA ServicesTyped == ASSUME ServicesIInv PROVE TypesOK
<1>1. ActivityTypeOK
  <2>1. inHand \subseteq Event /\ Cardinality(inHand) <= 1
    <3>1. CASE inHand = {}
      BY <3>1, FS_EmptySet
    <3>2. ASSUME NEW e \in Event, inHand = {e} PROVE inHand \subseteq Event /\ Cardinality(inHand) <= 1
      BY <3>2, FS_Singleton
    <3> QED BY <3>1, <3>2 DEF ServicesIInv, ActivityIInv, OneInHand
  <2> QED BY <2>1 DEF ServicesIInv, ActivityIInv, FeedTypeOK, ActivityTypeOK
<1> QED
  BY <1>1 DEF ServicesIInv, SignInIInv, TokenIInv, InstIInv, LimitIInv, DiskIInv, HandoverIInv,
              TypesOK

(* The state of every service stays in its range: users' links, GitLab     *)
(* token pairs, installations, limiter windows (ratelimit.go), disk        *)
(* alerts, the activity feed with its buffer of ActivityCap events, and    *)
(* what a run knows of its server, whichever of them is at work.           *)
THEOREM ServicesTypeCorrect == ServicesSpec => []TypesOK
<1> QED
  BY ServicesInitIInv, ServicesStepIInv, ServicesTyped, PTL DEF ServicesSpec
=============================================================================
