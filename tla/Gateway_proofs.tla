-------------------------- MODULE Gateway_proofs ---------------------------
(* Proofs for the gateway of a server, for any number of sites, handlers   *)
(* and edits at once, with and without faults.                             *)
EXTENDS Gateway, TLAPS

HandState ==
  [op : HandOps \cup {"none"}, site : Sites \cup {None}, pc : HandPCs, seen : Statuses,
   had : BOOLEAN, listed : SUBSET Sites]
RunState == [kind : RunOps \cup {"none"}, pc : RunPCs, had : BOOLEAN, listed : SUBSET Sites]

-----------------------------------------------------------------------------
(* Types.                                                                  *)

LEMMA Constructed ==
  /\ NoRun \in RunState /\ NoHand \in HandState
  /\ NoRun.pc = "idle" /\ NoRun.kind = "none" /\ NoRun.listed = {}
  /\ NoHand.pc = "idle" /\ NoHand.op = "none" /\ NoHand.site = None
BY DEF NoRun, NoHand, RunState, HandState, RunOps, RunPCs, HandPCs, Statuses

LEMMA InitTypeOK == ASSUME Init PROVE TypeOK
<1>1. run \in RunState /\ hand \in [Handlers -> HandState]
  BY Constructed DEF Init
<1>2. status \in [Sites -> Statuses] /\ gateway \in BOOLEAN
  BY DEF Init, Statuses
<1> QED
  BY <1>1, <1>2 DEF Init, TypeOK, RunState, HandState

(* The run goes to another place.                                          *)
LEMMA RunGoes ==
  ASSUME TypeOK, NEW pc \in RunPCs, Goto(pc)
  PROVE  run' \in RunState /\ run'.pc = pc
BY DEF TypeOK, Goto, RunState

(* The same with what ls printed, which it keeps until the script ends.    *)
LEMMA RunLists ==
  ASSUME TypeOK, NEW pc \in RunPCs, NEW l \in SUBSET Sites,
         run' = [run EXCEPT !.listed = l, !.pc = pc]
  PROVE  run' \in RunState /\ run'.pc = pc /\ run'.listed = l
BY DEF TypeOK, RunState

LEMMA RunFails ==
  ASSUME TypeOK, Fail
  PROVE  run' \in RunState /\ run'.pc \in {"rm", "failed"}
BY DEF Fail, Goto, TypeOK, RunPCs, RunState

(* A handler goes to another place, or is done.                            *)
LEMMA HandGoes ==
  ASSUME TypeOK, NEW h \in Handlers, NEW pc \in HandPCs, HandGoto(h, pc)
  PROVE  /\ hand' \in [Handlers -> HandState]
         /\ hand'[h].pc = pc /\ hand'[h].site = hand[h].site
         /\ \A x \in Handlers : x # h => hand'[x] = hand[x]
<1>1. hand \in [Handlers -> HandState]
  BY DEF TypeOK, HandState
<1>2. hand' = [hand EXCEPT ![h] = [hand[h] EXCEPT !.pc = pc]]
  BY <1>1 DEF HandGoto
<1>3. /\ [hand[h] EXCEPT !.pc = pc] \in HandState
      /\ [hand[h] EXCEPT !.pc = pc].pc = pc
      /\ [hand[h] EXCEPT !.pc = pc].site = hand[h].site
  BY <1>1 DEF HandState
<1> QED
  BY <1>1, <1>2, <1>3

LEMMA HandLists ==
  ASSUME TypeOK, NEW h \in Handlers, NEW pc \in HandPCs, NEW l \in SUBSET Sites,
         hand' = [hand EXCEPT ![h].listed = l, ![h].pc = pc]
  PROVE  /\ hand' \in [Handlers -> HandState]
         /\ hand'[h].pc = pc /\ hand'[h].site = hand[h].site /\ hand'[h].listed = l
         /\ \A x \in Handlers : x # h => hand'[x] = hand[x]
<1>1. hand \in [Handlers -> HandState]
  BY DEF TypeOK, HandState
<1>2. hand' = [hand EXCEPT ![h] = [hand[h] EXCEPT !.listed = l, !.pc = pc]]
  BY <1>1
<1>3. /\ [hand[h] EXCEPT !.listed = l, !.pc = pc] \in HandState
      /\ [hand[h] EXCEPT !.listed = l, !.pc = pc].pc = pc
      /\ [hand[h] EXCEPT !.listed = l, !.pc = pc].listed = l
      /\ [hand[h] EXCEPT !.listed = l, !.pc = pc].site = hand[h].site
  BY <1>1 DEF HandState
<1> QED
  BY <1>1, <1>2, <1>3

LEMMA HandReturns ==
  ASSUME TypeOK, NEW h \in Handlers, Return(h)
  PROVE  /\ hand' \in [Handlers -> HandState]
         /\ hand'[h] = NoHand
         /\ \A x \in Handlers : x # h => hand'[x] = hand[x]
BY Constructed DEF TypeOK, HandState, Return

LEMMA RowSaved ==
  ASSUME TypeOK, NEW s \in Sites, NEW result \in Statuses, NEW had \in BOOLEAN,
         SaveRow(s, result, had)
  PROVE  /\ status' \in [Sites -> Statuses] /\ worked' \subseteq Sites
         /\ \A x \in Sites : x # s => status'[x] = status[x]
         /\ status[s] = "none" => status' = status
         /\ status[s] # "none" => status'[s] = result
<1>1. CASE status[s] = "none"
  BY <1>1 DEF TypeOK, SaveRow, rowVars
<1>2. CASE status[s] # "none"
  BY <1>2 DEF TypeOK, SaveRow
<1> QED
  BY <1>1, <1>2

(* What a step may touch: the server, the rows, the run and a handler.     *)
ServerTyped ==
  snippet \subseteq Sites /\ gateway \in BOOLEAN /\ loaded \subseteq Sites
  /\ app \subseteq Sites /\ attached \subseteq app
RowsTyped ==
  status \in [Sites -> Statuses] /\ worked \subseteq Sites
  /\ unsure \subseteq Sites /\ setback \subseteq Sites
RunTyped == turn \in Sites \cup {None} /\ run \in RunState

TypedParts ==
  /\ load \in Loads /\ ServerTyped /\ RowsTyped /\ RunTyped
  /\ hand \in [Handlers -> HandState]

LEMMA TypeParts == (TypeOK <=> TypedParts) /\ (TypeOK' <=> TypedParts')
BY DEF TypedParts, TypeOK, ServerTyped, RowsTyped, RunTyped, RunState, HandState

LEMMA CommandsTyped ==
  ASSUME TypeOK, NEW s \in Sites,
         \/ UNCHANGED serverVars
         \/ WriteSnippet(s) \/ RemoveSnippet(s) \/ EnsureGateway \/ Reload \/ GatewayDown
         \/ ComposeUp(s) \/ ComposeUpFails(s) \/ Connect(s) \/ ConnectFails(s)
  PROVE  ServerTyped'
<1> USE TypeParts DEF TypedParts, ServerTyped
<1>1. CASE UNCHANGED serverVars
  BY <1>1 DEF serverVars
<1>2. CASE WriteSnippet(s) \/ RemoveSnippet(s)
  BY <1>2 DEF WriteSnippet, RemoveSnippet
<1>3. CASE EnsureGateway
  BY <1>3 DEF EnsureGateway
<1>4. CASE Reload
  BY <1>4 DEF Reload
<1>5. CASE GatewayDown
  BY <1>5 DEF GatewayDown
<1>6. CASE ComposeUp(s)
  BY <1>6 DEF ComposeUp
<1>7. CASE ComposeUpFails(s)
  BY <1>7 DEF ComposeUpFails
<1>8. CASE Connect(s)
  BY <1>8 DEF Connect
<1>9. CASE ConnectFails(s)
  BY <1>9 DEF ConnectFails
<1> QED
  BY <1>1, <1>2, <1>3, <1>4, <1>5, <1>6, <1>7, <1>8, <1>9

(* A step of the run moves it to another place or ends it; the rest that   *)
(* is not the server's stays, but for its row.                             *)
LEMMA RunTypeOK ==
  ASSUME TypeOK, turn # None, Run
  PROVE  TypeOK'
<1>1. turn \in Sites /\ load \in Loads /\ RowsTyped /\ hand \in [Handlers -> HandState]
      /\ run.had \in BOOLEAN
  BY TypeParts DEF TypedParts, RunTyped, RunState
<1>2. ServerTyped'
  BY <1>1, CommandsTyped
     DEF Run, Code, SetupSnippet, SetupGateway, SetupReload, Up, ConnectApp, ConnectReload, Health,
         Succeed, Failed, Deadline, CleanupRm, CleanupLook, CleanupEnd, Settle
<1>3. CASE \/ SetupSnippet \/ SetupGateway \/ Up \/ ConnectApp \/ Deadline
           \/ CleanupRm \/ CleanupLook \/ CleanupEnd
  <2>1. /\ UNCHANGED <<rowVars, turn, load, hand, setback>>
        /\ unsure' \subseteq unsure \cup SweptBy[turn] \cup snippet
    BY <1>3 DEF SetupSnippet, SetupGateway, Up, ConnectApp, Deadline, CleanupRm, CleanupLook, CleanupEnd,
                Left, LeftBut, CaughtBy
  <2>2. \/ Fail \/ \E pc \in RunPCs : Goto(pc)
        \/ \E pc \in RunPCs, l \in SUBSET Sites : run' = [run EXCEPT !.listed = l, !.pc = pc]
    BY <1>3, TypeParts DEF SetupSnippet, SetupGateway, Up, ConnectApp, Deadline, CleanupRm, CleanupLook,
                CleanupEnd, RunPCs, TypedParts, ServerTyped
  <2>3. run' \in RunState
    BY <2>2, RunGoes, RunFails, RunLists
  <2>4. snippet \subseteq Sites /\ SweptBy[turn] \subseteq Sites
    BY <1>1, TypeParts, ConstantsOK DEF TypedParts, ServerTyped
  <2>5. unsure' \subseteq Sites
    BY <1>1, <2>1, <2>4 DEF RowsTyped
  <2> QED BY <1>1, <1>2, <2>1, <2>3, <2>5, TypeParts DEF TypedParts, rowVars, RowsTyped, RunTyped
<1>4. CASE Code \/ SetupReload \/ ConnectReload
  <2>1. Persist
    BY <1>4 DEF Code, SetupReload, ConnectReload
  <2>2. Fail \/ \E pc \in RunPCs : Goto(pc)
    BY <1>4 DEF Code, SetupReload, ConnectReload, RunPCs
  <2>3. run' \in RunState
    BY <2>2, RunGoes, RunFails
  <2>4. status' \in [Sites -> Statuses] /\ worked' \subseteq Sites
    <3>1. "running" \in Statuses /\ SaveRow(turn, "running", run.had)
      BY <2>1 DEF Statuses, Persist
    <3> QED BY <1>1, <3>1, RowSaved
  <2> QED BY <1>1, <1>2, <2>1, <2>3, <2>4, TypeParts DEF TypedParts, Persist, RowsTyped, RunTyped
<1>5. CASE Health
  <2>1. run' \in RunState
    BY <1>5, RunGoes, RunFails DEF Health, RunPCs
  <2>2. unsure' \subseteq Sites
    BY <1>1, <1>5 DEF Health, SureOf, RowsTyped
  <2> QED BY <1>1, <1>2, <1>5, <2>1, <2>2, TypeParts DEF TypedParts, Health, rowVars, RowsTyped, RunTyped
<1>6. CASE Succeed \/ Failed
  <2>1. PICK result \in Statuses, had \in BOOLEAN : Settle(result, had)
    BY <1>1, <1>6 DEF Succeed, Failed, Statuses
  <2>2. status' \in [Sites -> Statuses] /\ worked' \subseteq Sites
    BY <1>1, <2>1, RowSaved DEF Settle
  <2>3. setback' \subseteq Sites
    BY <1>1, <2>1 DEF Settle, RowsTyped
  <2>4. UNCHANGED <<load, hand, unsure>>
    BY <2>1 DEF Settle
  <2>5. RunTyped'
    BY <2>1, Constructed DEF Settle, RunTyped
  <2> QED BY <1>1, <1>2, <2>2, <2>3, <2>4, <2>5, TypeParts DEF TypedParts, RowsTyped
<1> QED
  BY <1>3, <1>4, <1>5, <1>6 DEF Run

LEMMA BeginTypeOK ==
  ASSUME TypeOK, NEW s \in Sites, NEW kind \in RunOps, Begin(s, kind)
  PROVE  TypeOK'
<1>1. run' \in RunState
  BY DEF Begin, NoRun, RunState, RunOps, RunPCs
<1>2. status' \in [Sites -> Statuses] /\ worked' \subseteq Sites
  BY DEF Begin, TypeOK, Statuses
<1> QED
  BY <1>1, <1>2, TypeParts DEF TypedParts, Begin, serverVars, ServerTyped, RowsTyped, RunTyped

LEMMA CallTypeOK ==
  ASSUME TypeOK, NEW h \in Handlers, NEW s \in Sites, NEW op \in HandOps, Call(h, s, op)
  PROVE  TypeOK'
<1> DEFINE pc == CASE op \in {"protection", "env"} -> "busy"
                   [] op = "unlink" -> "row" [] op = "teardown" -> "stop"
           r == [op |-> op, site |-> s, listed |-> {},
                 seen |-> IF op = "protection" THEN status[s] ELSE "none",
                 had |-> op = "protection" /\ s \in worked,
                 pc |-> pc]
<1>1. pc \in HandPCs
  BY DEF HandOps, HandPCs
<1>2. hand' = [hand EXCEPT ![h] = r]
  BY DEF Call
<1> HIDE DEF pc
<1>3. r \in HandState
  BY <1>1 DEF HandState, TypeOK, Statuses
<1>4. hand' \in [Handlers -> HandState]
  BY <1>2, <1>3, TypeParts DEF TypedParts
<1> QED
  BY <1>4, TypeParts DEF TypedParts, Call, Apart, rowVars, serverVars, ServerTyped, RowsTyped, RunTyped

LEMMA HandMoves ==
  ASSUME TypeOK, NEW h \in Handlers, Hand(h)
  PROVE  \/ Return(h) \/ \E pc \in HandPCs : HandGoto(h, pc)
         \/ \E pc \in HandPCs, l \in SUBSET Sites :
              hand' = [hand EXCEPT ![h].listed = l, ![h].pc = pc]
<1>1. CASE DeleteLook(h)
  <2>1. snippet \in SUBSET Sites
    BY DEF TypeOK
  <2> QED BY <1>1, <2>1 DEF DeleteLook, HandPCs
<1>2. CASE DeleteEnd(h)
  <2>1. hand' = [hand EXCEPT ![h].listed = {}, ![h].pc = "row"]
    BY <1>2 DEF DeleteEnd
  <2>2. {} \in SUBSET Sites /\ "row" \in HandPCs
    BY DEF HandPCs
  <2> QED BY <2>1, <2>2
<1>3. CASE ~(DeleteLook(h) \/ DeleteEnd(h))
  BY <1>3 DEF Hand, BusyCheck, ProtectionWrite, ProtectionReload, ProtectionSave, EnvUp, EnvCheck,
         EnvConnect, EnvReload, EnvHealth, DeleteStop, DeleteRm, DeleteRow, HandPCs
<1> QED
  BY <1>1, <1>2, <1>3

LEMMA HandTypeOK ==
  ASSUME TypeOK, NEW h \in Handlers, Site(h) \in Sites, Hand(h)
  PROVE  TypeOK'
<1>1. load \in Loads /\ RowsTyped /\ RunTyped /\ hand[h] \in HandState
  BY TypeParts DEF TypedParts
<1>2. hand' \in [Handlers -> HandState]
  <2>1. \/ Return(h) \/ \E pc \in HandPCs : HandGoto(h, pc)
        \/ \E pc \in HandPCs, l \in SUBSET Sites :
             hand' = [hand EXCEPT ![h].listed = l, ![h].pc = pc]
    BY HandMoves
  <2> QED BY <2>1, HandGoes, HandReturns, HandLists
<1>3. ServerTyped'
  <2>1. CASE EnvUp(h) \/ DeleteStop(h)
    BY <2>1, CommandsTyped, TypeParts DEF EnvUp, DeleteStop, TypedParts, ServerTyped, serverVars
  <2>2. CASE ~(EnvUp(h) \/ DeleteStop(h))
    BY <2>2, CommandsTyped
       DEF Hand, BusyCheck, ProtectionWrite, ProtectionReload, ProtectionSave, EnvCheck,
           EnvConnect, EnvReload, EnvHealth, DeleteRm, DeleteLook, DeleteEnd, DeleteRow
  <2> QED BY <2>1, <2>2
<1>4. CASE \/ BusyCheck(h) \/ ProtectionWrite(h) \/ ProtectionReload(h) \/ EnvCheck(h)
           \/ EnvReload(h) \/ DeleteLook(h)
  <2>1. Apart
    BY <1>4 DEF BusyCheck, ProtectionWrite, ProtectionReload, EnvCheck, EnvReload, DeleteLook
  <2> QED BY <1>1, <1>2, <1>3, <2>1, TypeParts DEF TypedParts, Apart, rowVars, RowsTyped, RunTyped
<1>5. CASE \/ EnvUp(h) \/ EnvConnect(h) \/ EnvHealth(h) \/ DeleteStop(h) \/ DeleteRm(h)
           \/ DeleteEnd(h)
  <2>1. UNCHANGED <<rowVars, turn, load, run, setback>>
    BY <1>5 DEF EnvUp, EnvConnect, EnvHealth, DeleteStop, DeleteRm, DeleteEnd, Doom
  <2>2. unsure' \subseteq unsure \cup {Site(h)} \cup SweptBy[Site(h)] \cup snippet
    BY <1>5 DEF EnvUp, EnvConnect, EnvHealth, SureOf, DeleteStop, DeleteRm, DeleteEnd, CaughtBy, Doom
  <2>3. snippet \subseteq Sites /\ SweptBy[Site(h)] \subseteq Sites
    BY TypeParts, ConstantsOK DEF TypedParts, ServerTyped
  <2>4. unsure' \subseteq Sites
    BY <1>1, <2>2, <2>3 DEF RowsTyped
  <2> QED BY <1>1, <1>2, <1>3, <2>1, <2>4, TypeParts DEF TypedParts, rowVars, RowsTyped, RunTyped
<1>6. CASE ProtectionSave(h)
  <2>1. hand[h].seen \in Statuses /\ hand[h].had \in BOOLEAN
    BY <1>1 DEF HandState
  <2>2. status' \in [Sites -> Statuses] /\ worked' \subseteq Sites
    BY <1>6, <2>1, RowSaved DEF ProtectionSave
  <2>3. setback' \subseteq setback \cup {Site(h)} /\ UNCHANGED <<turn, load, run, unsure>>
    BY <1>6 DEF ProtectionSave
  <2> QED BY <1>1, <1>2, <1>3, <2>2, <2>3, TypeParts DEF TypedParts, RowsTyped, RunTyped
<1>7. CASE DeleteRow(h)
  <2>1. status' \in [Sites -> Statuses] /\ worked' \subseteq Sites
    BY <1>1, <1>7 DEF DeleteRow, rowVars, RowsTyped, Statuses
  <2>2. UNCHANGED <<turn, load, run, unsure, setback>>
    BY <1>7 DEF DeleteRow
  <2> QED BY <1>1, <1>2, <1>3, <2>1, <2>2, TypeParts DEF TypedParts, RowsTyped, RunTyped
<1> QED
  BY <1>4, <1>5, <1>6, <1>7 DEF Hand

LEMMA RestartTypeOK == ASSUME TypeOK, Restart PROVE TypeOK'
<1>1. load \in Loads /\ ServerTyped /\ RowsTyped
  BY TypeParts DEF TypedParts
<1>2. status' \in [Sites -> Statuses]
  BY <1>1 DEF Restart, RowsTyped, Statuses
<1>3. turn' = None /\ run' \in RunState /\ hand' \in [Handlers -> HandState]
  BY Constructed DEF Restart
<1>4. load' = load /\ UNCHANGED <<worked, serverVars, unsure, setback>>
  BY DEF Restart
<1> QED
  BY <1>1, <1>2, <1>3, <1>4, TypeParts DEF TypedParts, serverVars, ServerTyped, RowsTyped, RunTyped

(* A handler at work has a site.                                           *)
HandsHaveSites == \A h \in Handlers : hand[h].pc # "idle" => Site(h) \in Sites

Sound == TypeOK /\ HandsHaveSites

LEMMA InitSound == ASSUME Init PROVE Sound
BY InitTypeOK, Constructed DEF Init, Sound, HandsHaveSites

LEMMA StepSound == ASSUME Sound, [Next]_vars PROVE Sound'
<1> USE DEF Sound
<1>1. ASSUME NEW s \in Sites, NEW kind \in RunOps, Begin(s, kind) PROVE Sound'
  BY <1>1, BeginTypeOK DEF Begin, HandsHaveSites, Site
<1>2. ASSUME Run PROVE Sound'
  <2>1. turn # None /\ hand' = hand
    BY <1>2 DEF Run, Step, Code, SetupSnippet, SetupGateway, SetupReload, Up, ConnectApp, ConnectReload,
                Health, Succeed, Failed, Deadline, CleanupRm, CleanupLook, CleanupEnd, Settle,
                Left, LeftBut, Persist
  <2> QED BY <1>2, <2>1, RunTypeOK DEF HandsHaveSites, Site
<1>3. ASSUME NEW h \in Handlers, Hand(h) PROVE Sound'
  <2>1. hand[h].pc # "idle"
    BY <1>3 DEF Hand, At, BusyCheck, ProtectionWrite, ProtectionReload, ProtectionSave, EnvUp, EnvCheck,
           EnvConnect, EnvReload, EnvHealth, DeleteStop, DeleteRm, DeleteLook, DeleteEnd, DeleteRow
  <2>2. Site(h) \in Sites
    BY <2>1 DEF HandsHaveSites
  <2>3. TypeOK'
    BY <1>3, <2>2, HandTypeOK
  <2>4. \/ Return(h) \/ \E pc \in HandPCs : HandGoto(h, pc)
        \/ \E pc \in HandPCs, l \in SUBSET Sites :
             hand' = [hand EXCEPT ![h].listed = l, ![h].pc = pc]
    BY <1>3, HandMoves
  <2>5. HandsHaveSites'
    <3>1. CASE Return(h)
      BY <3>1, HandReturns, Constructed DEF HandsHaveSites, Site
    <3>2. CASE \E pc \in HandPCs : HandGoto(h, pc)
      BY <2>2, <3>2, HandGoes DEF HandsHaveSites, Site
    <3>3. CASE \E pc \in HandPCs, l \in SUBSET Sites :
                 hand' = [hand EXCEPT ![h].listed = l, ![h].pc = pc]
      <4>1. hand'[h].site = hand[h].site /\ \A x \in Handlers : x # h => hand'[x] = hand[x]
        BY <3>3, HandLists
      <4> QED BY <2>2, <4>1 DEF HandsHaveSites, Site
    <3> QED BY <2>4, <3>1, <3>2, <3>3
  <2> QED BY <2>3, <2>5
<1>4. ASSUME NEW h \in Handlers, NEW s \in Sites, NEW op \in HandOps, Call(h, s, op) PROVE Sound'
  <2>1. TypeOK'
    BY <1>4, CallTypeOK
  <2>2. hand'[h].site = s /\ \A x \in Handlers : x # h => hand'[x] = hand[x]
    BY <1>4 DEF Call, TypeOK
  <2> QED BY <2>1, <2>2 DEF HandsHaveSites, Site
<1>5. ASSUME Restart PROVE Sound'
  BY <1>5, RestartTypeOK, Constructed DEF Restart, HandsHaveSites
<1>6. CASE UNCHANGED vars
  BY <1>6, TypeParts
     DEF vars, serverVars, rowVars, TypedParts, ServerTyped, RowsTyped, RunTyped, HandsHaveSites, Site
<1> QED
  BY <1>1, <1>2, <1>3, <1>4, <1>5, <1>6 DEF Next

(* Every variable stays in its range: the locks and flags of the run and   *)
(* of the handlers take no other values than the ones named here.          *)
THEOREM TypeCorrect == Spec => []TypeOK
<1>1. Sound => TypeOK
  BY DEF Sound
<1> QED
  BY <1>1, InitSound, StepSound, PTL DEF Spec

-----------------------------------------------------------------------------
(* A project shown as successful answers.  It does because everything its  *)
(* answer needs stands: the next reload would keep it, and nobody takes a  *)
(* part away without leaving the site among the unsure.                    *)

Stands(s) == s \in snippet /\ gateway /\ s \in loaded /\ s \in attached

Standing == \A s \in Sites : status[s] = "success" /\ s \notin unsure \cup setback => Stands(s)

(* While a run has the server, its row shows "success" only if an edit has *)
(* set it back.                                                            *)
TurnUnsettled == turn # None /\ status[turn] = "success" => turn \in setback

(* From its snippet on, a run has one, unless a deletion took it away; once *)
(* healthy, it has everything.                                             *)
AfterSnippet == {"gateway", "reload", "up", "connect", "reload2", "health", "record"}

RunStands ==
  turn # None =>
    /\ run.pc \in AfterSnippet => turn \in snippet \cup unsure
    /\ run.pc = "record" /\ turn \notin unsure => Stands(turn)

(* Only a script whose ls printed nothing goes on to down.                 *)
DownListed ==
  /\ run.pc = "down" => run.listed = {}
  /\ \A h \in Handlers : At(h, "down") => hand[h].listed = {}

ServedIInv == Sound /\ Standing /\ TurnUnsettled /\ RunStands /\ DownListed

LEMMA InitServed == ASSUME Init PROVE ServedIInv
<1>1. \A h \in Handlers : hand[h].pc = "idle"
  BY Constructed DEF Init
<1>2. run.pc = "idle" /\ turn = None
  BY Constructed DEF Init
<1>3. TurnUnsettled /\ RunStands /\ DownListed
  BY <1>1, <1>2 DEF TurnUnsettled, RunStands, DownListed, At
<1>4. PICK up \in SUBSET Sites :
        /\ status = [s \in Sites |-> IF s \in up THEN "success" ELSE "none"]
        /\ snippet = up /\ gateway = (up # {}) /\ loaded = up /\ attached = up
  BY DEF Init
<1>5. Standing
  BY <1>4 DEF Standing, Stands
<1> QED
  BY <1>3, <1>5, InitSound DEF ServedIInv

(* What a command leaves standing, whoever gives it: s is the site it is   *)
(* for.                                                                    *)
LEMMA CommandsKeep ==
  ASSUME NEW s \in Sites,
         \/ UNCHANGED serverVars
         \/ WriteSnippet(s) \/ RemoveSnippet(s) \/ EnsureGateway \/ Reload
         \/ ComposeUp(s) \/ ComposeUpFails(s) \/ Connect(s) \/ ConnectFails(s)
  PROVE  /\ \A x \in Sites : Stands(x) /\ x # s /\ x \notin SweptBy[s] => Stands(x)'
         /\ \A x \in Sites : x \in snippet /\ x # s => x \in snippet'
<1> USE DEF Stands
<1>1. CASE UNCHANGED serverVars
  BY <1>1 DEF serverVars
<1>2. CASE WriteSnippet(s) \/ RemoveSnippet(s)
  BY <1>2 DEF WriteSnippet, RemoveSnippet
<1>3. CASE EnsureGateway
  BY <1>3 DEF EnsureGateway
<1>4. CASE Reload
  BY <1>4 DEF Reload
<1>5. CASE ComposeUp(s) \/ ComposeUpFails(s)
  BY <1>5 DEF ComposeUp, ComposeUpFails
<1>6. CASE Connect(s) \/ ConnectFails(s)
  BY <1>6 DEF Connect, ConnectFails
<1> QED
  BY <1>1, <1>2, <1>3, <1>4, <1>5, <1>6

(* These take nothing away from anybody.                                   *)
LEMMA QuietCommands ==
  ASSUME NEW s \in Sites,
         UNCHANGED serverVars \/ WriteSnippet(s) \/ EnsureGateway \/ Reload
  PROVE  /\ \A x \in Sites : Stands(x) => Stands(x)'
         /\ snippet \subseteq snippet'
BY DEF Stands, serverVars, WriteSnippet, EnsureGateway, Reload

(* A gateway that goes down under sites, when its ls had printed nothing,  *)
(* leaves all of them unsure.                                              *)
LEMMA DownCatches ==
  ASSUME GatewayDown, CaughtBy({})
  PROVE  /\ \A x \in Sites : Stands(x) => x \in unsure'
         /\ snippet' = snippet /\ unsure \subseteq unsure'
BY DEF GatewayDown, CaughtBy, Stands

(* A step of the run keeps the row of everybody else, and its own from     *)
(* showing success, until it is settled.                                   *)
LEMMA RunKeepsRows ==
  ASSUME Sound, turn \in Sites, UNCHANGED status \/ SaveRow(turn, "running", run.had)
  PROVE  /\ \A x \in Sites : status'[x] = "success" => status[x] = "success"
<1>1. TypeOK /\ "running" \in Statuses /\ run.had \in BOOLEAN
  BY TypeParts DEF Sound, TypedParts, RunTyped, RunState, Statuses
<1> QED
  BY <1>1, RowSaved

(* What a step of the run that keeps the server has to show.               *)
LEMMA RunStep ==
  ASSUME ServedIInv, Sound', turn \in Sites, UNCHANGED <<turn, hand, setback>>,
         \A x \in Sites : status'[x] = "success" => status[x] = "success",
         \A x \in Sites : Stands(x) /\ x # turn => Stands(x)' \/ x \in unsure',
         \A x \in Sites : x \in unsure /\ x # turn => x \in unsure',
         RunStands', run'.pc = "down" => run'.listed = {}
  PROVE  ServedIInv'
<1>1. TurnUnsettled'
  BY DEF ServedIInv, TurnUnsettled
<1>2. Standing'
  BY <1>1, ConstantsOK DEF ServedIInv, Standing, TurnUnsettled
<1>3. DownListed'
  BY DEF ServedIInv, DownListed, At
<1> QED
  BY <1>1, <1>2, <1>3 DEF ServedIInv

LEMMA RunServed ==
  ASSUME ServedIInv, Sound', turn # None, Run
  PROVE  ServedIInv'
<1> USE DEF ServedIInv
<1>1. turn \in Sites /\ turn' \in Sites \cup {None} /\ TypeOK
  BY TypeParts DEF Sound, TypedParts, RunTyped
<1>2. CASE Code \/ SetupReload \/ ConnectReload
  <2>1. UNCHANGED <<turn, hand, setback, unsure>> /\ SaveRow(turn, "running", run.had)
    BY <1>2 DEF Code, SetupReload, ConnectReload, Persist
  <2>2. UNCHANGED serverVars \/ Reload
    BY <1>2 DEF Code, SetupReload, ConnectReload
  <2>3. \A x \in Sites : Stands(x) => Stands(x)'
    BY <1>1, <2>2, QuietCommands
  <2>4. snippet \subseteq snippet'
    BY <1>1, <2>2, QuietCommands
  <2>5. run'.pc \notin {"down", "record"}
    BY <1>1, <1>2, RunGoes, RunFails DEF Code, SetupReload, ConnectReload, RunPCs
  <2>6. run'.pc \in AfterSnippet => run.pc \in AfterSnippet
    <3>1. CASE Code
      BY <1>1, <3>1, RunGoes, RunFails DEF Code, AfterSnippet, RunPCs
    <3>2. CASE SetupReload \/ ConnectReload
      BY <3>2 DEF SetupReload, ConnectReload, Step, AfterSnippet
    <3> QED BY <1>2, <3>1, <3>2
  <2>7. RunStands'
    BY <2>1, <2>4, <2>5, <2>6 DEF RunStands
  <2>8. \A x \in Sites : status'[x] = "success" => status[x] = "success"
    BY <1>1, <2>1, RunKeepsRows
  <2> QED BY <1>1, <2>1, <2>3, <2>5, <2>7, <2>8, RunStep
<1>3. CASE SetupSnippet \/ SetupGateway
  <2>1. UNCHANGED <<turn, hand, setback, unsure, status>>
    BY <1>3 DEF SetupSnippet, SetupGateway, Left, rowVars
  <2>2. UNCHANGED serverVars \/ WriteSnippet(turn) \/ EnsureGateway
    BY <1>3 DEF SetupSnippet, SetupGateway
  <2>3. \A x \in Sites : Stands(x) => Stands(x)'
    BY <1>1, <2>2, QuietCommands
  <2>4. snippet \subseteq snippet'
    BY <1>1, <2>2, QuietCommands
  <2>5. run'.pc \notin {"down", "record"}
    BY <1>1, <1>3, RunGoes, RunFails DEF SetupSnippet, SetupGateway, RunPCs
  <2>6. run'.pc \in AfterSnippet => run.pc \in AfterSnippet \/ turn \in snippet'
    <3>1. CASE SetupSnippet
      BY <1>1, <3>1, RunFails DEF SetupSnippet, WriteSnippet, AfterSnippet
    <3>2. CASE SetupGateway
      BY <3>2 DEF SetupGateway, Step, AfterSnippet
    <3> QED BY <1>3, <3>1, <3>2
  <2>7. RunStands'
    BY <2>1, <2>4, <2>5, <2>6 DEF RunStands
  <2> QED BY <1>1, <2>1, <2>3, <2>5, <2>7, RunStep
<1>4. CASE Up \/ ConnectApp
  <2>1. /\ UNCHANGED <<turn, hand, setback, status>> /\ unsure \subseteq unsure'
        /\ ConnectApp => SweptBy[turn] \subseteq unsure'
    BY <1>4 DEF Up, ConnectApp, Left, LeftBut, rowVars
  <2>2. \A x \in Sites : Stands(x) /\ x # turn => Stands(x)' \/ x \in unsure'
    <3>1. CASE Up
      BY <1>1, <3>1 DEF Up, ComposeUp, ComposeUpFails, Stands
    <3>2. CASE ConnectApp
      BY <1>1, <2>1, <3>2, CommandsKeep DEF ConnectApp
    <3> QED BY <1>4, <3>1, <3>2
  <2>3. snippet' = snippet
    BY <1>4 DEF Up, ConnectApp, ComposeUp, ComposeUpFails, Connect, ConnectFails
  <2>4. run'.pc \notin {"down", "record"} /\ run.pc \in AfterSnippet
    BY <1>1, <1>4, RunGoes, RunFails DEF Up, ConnectApp, Step, RunPCs, AfterSnippet
  <2>5. RunStands'
    BY <2>1, <2>3, <2>4 DEF RunStands
  <2> QED BY <1>1, <2>1, <2>2, <2>4, <2>5, RunStep
<1>5. CASE Health
  <2>1. UNCHANGED <<turn, hand, setback, status, snippet, gateway, loaded, attached>>
    BY <1>5 DEF Health, rowVars, serverVars
  <2>2. /\ \A x \in Sites : x \in unsure /\ x # turn => x \in unsure'
        /\ turn \notin snippet /\ turn \in unsure => turn \in unsure'
    BY <1>5 DEF Health, SureOf
  <2>3. run'.pc # "down" /\ run.pc = "health"
    BY <1>1, <1>5, RunGoes, RunFails DEF Health, Step, RunPCs
  <2>4. turn \in snippet \cup unsure
    BY <2>3 DEF RunStands, AfterSnippet
  <2>5. run'.pc = "record" => Served(turn)
    BY <1>1, <1>5, RunFails DEF Health
  <2>6. turn \in snippet' \cup unsure'
    BY <2>1, <2>2, <2>4
  <2>7. RunStands'
    BY <2>1, <2>5, <2>6 DEF RunStands, Stands, Served
  <2>8. \A x \in Sites : Stands(x) => Stands(x)'
    BY <2>1 DEF Stands
  <2> QED BY <1>1, <2>1, <2>2, <2>3, <2>7, <2>8, RunStep
<1>6. CASE Deadline \/ CleanupLook
  <2>1. UNCHANGED <<turn, hand, setback, unsure, status, snippet, gateway, loaded, attached>>
    BY <1>6 DEF Deadline, CleanupLook, Left, rowVars, serverVars
  <2>2. run'.pc \in {"failed", "clean", "down"} /\ (run'.pc = "down" => run'.listed = {})
    <3>1. CASE Deadline
      BY <1>1, <3>1, RunGoes DEF Deadline, RunPCs
    <3>2. CASE CleanupLook
      BY <1>1, <3>2, RunLists, TypeParts DEF CleanupLook, RunPCs, TypedParts, ServerTyped
    <3> QED BY <1>6, <3>1, <3>2
  <2>3. RunStands'
    BY <2>2 DEF RunStands, AfterSnippet
  <2>4. \A x \in Sites : Stands(x) => Stands(x)'
    BY <2>1 DEF Stands
  <2> QED BY <1>1, <2>1, <2>2, <2>3, <2>4, RunStep
<1>7. CASE CleanupRm
  <2>1. UNCHANGED <<turn, hand, setback, unsure, status>>
    BY <1>7 DEF CleanupRm, Left, rowVars
  <2>2. run'.pc \in {"ls", "failed"}
    BY <1>1, <1>7, RunGoes DEF CleanupRm, RunPCs
  <2>3. RunStands'
    BY <2>2 DEF RunStands, AfterSnippet
  <2>4. \A x \in Sites : Stands(x) /\ x # turn => Stands(x)'
    BY <1>7 DEF CleanupRm, RemoveSnippet, serverVars, Stands
  <2> QED BY <1>1, <2>1, <2>2, <2>3, <2>4, RunStep
<1>8. CASE CleanupEnd
  <2>1. UNCHANGED <<turn, hand, setback, status>>
    BY <1>8 DEF CleanupEnd, rowVars
  <2>2. run'.pc = "failed"
    <3>1. run' = [run EXCEPT !.listed = {}, !.pc = "failed"]
      BY <1>8 DEF CleanupEnd
    <3>2. {} \in SUBSET Sites /\ "failed" \in RunPCs
      BY DEF RunPCs
    <3> QED BY <1>1, <3>1, <3>2, RunLists
  <2>3. RunStands'
    BY <2>2 DEF RunStands, AfterSnippet
  <2>4. CASE Step("clean") /\ Reload /\ unsure' = unsure
    <3>1. \A x \in Sites : Stands(x) => Stands(x)'
      BY <1>1, <2>4, QuietCommands
    <3> QED BY <1>1, <2>1, <2>2, <2>3, <2>4, <3>1, RunStep
  <2>5. CASE Step("down") /\ GatewayDown /\ CaughtBy(run.listed)
    <3>1. run.listed = {}
      BY <2>5 DEF Step, DownListed
    <3>2. (\A x \in Sites : Stands(x) => x \in unsure') /\ unsure \subseteq unsure'
      BY <2>5, <3>1, DownCatches
    <3> QED BY <1>1, <2>1, <2>2, <2>3, <3>2, RunStep
  <2> QED BY <1>8, <2>4, <2>5 DEF CleanupEnd
<1>9. CASE Succeed \/ Failed
  <2>1. PICK result \in {"success", "failed"}, had \in BOOLEAN :
          /\ Settle(result, had)
          /\ result = "success" => run.pc = "record"
    <3>1. run.had \in BOOLEAN
      BY TypeParts DEF Sound, TypedParts, RunTyped, RunState
    <3>2. CASE Succeed
      BY <3>1, <3>2 DEF Succeed, Step
    <3>3. CASE Failed
      BY <3>1, <3>3 DEF Failed
    <3> QED BY <1>9, <3>2, <3>3
  <2>2. /\ setback' = setback \ {turn} /\ turn' = None /\ run'.pc = "idle"
        /\ UNCHANGED <<snippet, gateway, loaded, attached, hand, unsure>>
    BY <2>1, Constructed DEF Settle, serverVars
  <2>3. /\ \A x \in Sites : x # turn => status'[x] = status[x]
        /\ status'[turn] = "success" => result = "success"
    <3>1. SaveRow(turn, result, had) /\ result \in Statuses
      BY <2>1 DEF Settle, Statuses
    <3> QED BY <1>1, <3>1, RowSaved
  <2>4. result = "success" /\ turn \notin unsure => Stands(turn)
    BY <2>1 DEF RunStands
  <2>5. Standing'
    BY <2>2, <2>3, <2>4 DEF Standing, Stands
  <2>6. TurnUnsettled' /\ RunStands' /\ DownListed'
    BY <2>2 DEF TurnUnsettled, RunStands, DownListed, At
  <2> QED BY <2>5, <2>6
<1> QED
  BY <1>2, <1>3, <1>4, <1>5, <1>6, <1>7, <1>8, <1>9 DEF Run

LEMMA BeginServed ==
  ASSUME ServedIInv, Sound', NEW s \in Sites, NEW kind \in RunOps, Begin(s, kind)
  PROVE  ServedIInv'
<1> USE DEF ServedIInv
<1>1. /\ run'.pc = "code" /\ turn' = s
      /\ UNCHANGED <<snippet, gateway, loaded, attached, hand, unsure, setback>>
  BY DEF Begin, serverVars, NoRun
<1>2. status'[s] = "running" /\ \A x \in Sites : x # s => status'[x] = status[x]
  BY TypeParts DEF Begin, Sound, TypedParts, RowsTyped
<1>3. TurnUnsettled' /\ RunStands' /\ DownListed'
  BY <1>1, <1>2 DEF TurnUnsettled, RunStands, DownListed, AfterSnippet, At
<1>4. Standing'
  BY <1>1, <1>2 DEF Standing, Stands
<1> QED
  BY <1>3, <1>4

(* What a step of a handler for site s has to show: what stands keeps      *)
(* standing or becomes unsure, so does the snippet of a run, and a status  *)
(* that changes is set back or gone.                                       *)
LEMMA HandStep ==
  ASSUME ServedIInv, Sound', NEW h \in Handlers, UNCHANGED <<turn, run>>,
         \A x \in Sites : status'[x] = "success" => status[x] = "success" \/ x \in setback',
         setback \subseteq setback',
         \A x \in Sites : Stands(x) => Stands(x)' \/ x \in unsure',
         \A x \in Sites : x \in unsure => Stands(x)' \/ x \in unsure',
         \A x \in Sites : x \in snippet => x \in snippet' \cup unsure',
         \A x \in Handlers : x # h => hand'[x] = hand[x],
         At(h, "down")' => hand'[h].listed = {}
  PROVE  ServedIInv'
<1> USE DEF ServedIInv
<1>1. turn \in Sites \cup {None}
  BY TypeParts DEF Sound, TypedParts, RunTyped
<1>2. Standing'
  BY DEF Standing
<1>3. TurnUnsettled'
  BY <1>1 DEF TurnUnsettled
<1>4. RunStands'
  BY <1>1 DEF RunStands, Stands
<1>5. DownListed'
  BY DEF DownListed, At
<1> QED
  BY <1>2, <1>3, <1>4, <1>5

LEMMA HandServed ==
  ASSUME ServedIInv, Sound', NEW h \in Handlers, Hand(h)
  PROVE  ServedIInv'
<1> USE DEF ServedIInv
<1>1. hand[h].pc # "idle"
  BY DEF Hand, At, BusyCheck, ProtectionWrite, ProtectionReload, ProtectionSave, EnvUp, EnvCheck,
         EnvConnect, EnvReload, EnvHealth, DeleteStop, DeleteRm, DeleteLook, DeleteEnd, DeleteRow
<1>2. Site(h) \in Sites /\ TypeOK /\ status \in [Sites -> Statuses] /\ hand[h] \in HandState
      /\ snippet \subseteq Sites
  BY <1>1, TypeParts DEF Sound, HandsHaveSites, TypedParts, RowsTyped, ServerTyped
<1>3. Return(h) => At(h, "down")' = FALSE /\ \A x \in Handlers : x # h => hand'[x] = hand[x]
  BY <1>2, HandReturns, Constructed DEF At
<1>4. \A pc \in HandPCs : HandGoto(h, pc) =>
        At(h, "down")' = (pc = "down") /\ \A x \in Handlers : x # h => hand'[x] = hand[x]
  BY <1>2, HandGoes DEF At
<1>5. CASE \/ BusyCheck(h) \/ ProtectionWrite(h) \/ ProtectionReload(h) \/ EnvCheck(h)
           \/ EnvReload(h)
  <2>1. UNCHANGED <<turn, run, status, setback, unsure>>
    BY <1>5 DEF BusyCheck, ProtectionWrite, ProtectionReload, EnvCheck, EnvReload, Apart, rowVars
  <2>2. UNCHANGED serverVars \/ WriteSnippet(Site(h)) \/ Reload
    BY <1>5 DEF BusyCheck, ProtectionWrite, ProtectionReload, EnvCheck, EnvReload
  <2>3. (\A x \in Sites : Stands(x) => Stands(x)') /\ snippet \subseteq snippet'
    BY <1>2, <2>2, QuietCommands
  <2>4. Return(h) \/ \E pc \in HandPCs \ {"down"} : HandGoto(h, pc)
    BY <1>5 DEF BusyCheck, ProtectionWrite, ProtectionReload, EnvCheck, EnvReload, HandPCs
  <2>5. ~At(h, "down")' /\ \A x \in Handlers : x # h => hand'[x] = hand[x]
    BY <1>3, <1>4, <2>4
  <2> QED BY <2>1, <2>3, <2>5, HandStep
<1>6. CASE ProtectionSave(h)
  <2>1. UNCHANGED <<turn, run, unsure, serverVars>> /\ Return(h) /\ setback \subseteq setback'
        /\ (status' = status \/ Site(h) \in setback')
    BY <1>6 DEF ProtectionSave
  <2>2. \A x \in Sites : x # Site(h) => status'[x] = status[x]
    <3>1. hand[h].seen \in Statuses /\ hand[h].had \in BOOLEAN
      BY <1>2 DEF HandState
    <3> QED BY <1>2, <1>6, <3>1, RowSaved DEF ProtectionSave
  <2>3. (\A x \in Sites : Stands(x) => Stands(x)') /\ snippet \subseteq snippet'
    BY <1>2, <2>1, QuietCommands
  <2>4. ~At(h, "down")' /\ \A x \in Handlers : x # h => hand'[x] = hand[x]
    BY <1>3, <2>1
  <2> QED BY <2>1, <2>2, <2>3, <2>4, HandStep
<1>7. CASE EnvUp(h) \/ EnvConnect(h)
  <2>1. UNCHANGED <<turn, run, status, setback>>
    BY <1>7 DEF EnvUp, EnvConnect, rowVars
  <2>2. /\ unsure \subseteq unsure'
        /\ \/ Site(h) \in unsure'
           \/ Connect(Site(h)) /\ SweptBy[Site(h)] \subseteq unsure'
    BY <1>7 DEF EnvUp, EnvConnect
  <2>3. \A x \in Sites : Stands(x) => Stands(x)' \/ x \in unsure'
    <3>1. CASE EnvUp(h)
      BY <3>1 DEF EnvUp, ComposeUpFails, Stands
    <3>2. CASE EnvConnect(h)
      <4>1. CASE Connect(Site(h))
        BY <3>2, <4>1 DEF EnvConnect, Connect, ConnectFails, Stands
      <4>2. CASE ConnectFails(Site(h)) /\ unsure' = unsure \cup SweptBy[Site(h)] \cup {Site(h)}
        BY <4>2 DEF ConnectFails, Stands
      <4> QED BY <3>2, <4>1, <4>2 DEF EnvConnect
    <3> QED BY <1>7, <3>1, <3>2
  <2>4. snippet' = snippet
    BY <1>7 DEF EnvUp, EnvConnect, ComposeUpFails, Connect, ConnectFails
  <2>5. Return(h) \/ \E pc \in HandPCs \ {"down"} : HandGoto(h, pc)
    BY <1>7 DEF EnvUp, EnvConnect, HandPCs
  <2>6. ~At(h, "down")' /\ \A x \in Handlers : x # h => hand'[x] = hand[x]
    BY <1>3, <1>4, <2>5
  <2> QED BY <2>1, <2>2, <2>3, <2>4, <2>6, HandStep
<1>8. CASE EnvHealth(h)
  <2>1. UNCHANGED <<turn, run, status, setback, serverVars>> /\ Return(h)
    BY <1>8 DEF EnvHealth, rowVars, serverVars
  <2>2. (\A x \in Sites : Stands(x) => Stands(x)') /\ snippet \subseteq snippet'
    BY <1>2, <2>1, QuietCommands
  <2>3. \A x \in Sites : x \in unsure => Stands(x)' \/ x \in unsure'
    BY <1>8, <2>1 DEF EnvHealth, SureOf, Served, Stands, serverVars
  <2>4. ~At(h, "down")' /\ \A x \in Handlers : x # h => hand'[x] = hand[x]
    BY <1>3, <2>1
  <2> QED BY <2>1, <2>2, <2>3, <2>4, HandStep
<1>9. CASE DeleteStop(h) \/ DeleteRm(h)
  <2>1. UNCHANGED <<turn, run, status, setback>> /\ unsure' = unsure \cup {Site(h)}
    BY <1>9 DEF DeleteStop, DeleteRm, Doom, rowVars
  <2>2. \A x \in Sites : Stands(x) => Stands(x)' \/ x \in unsure'
    BY <1>9, <2>1 DEF DeleteStop, DeleteRm, RemoveSnippet, serverVars, Stands
  <2>3. \A x \in Sites : x \in snippet => x \in snippet' \cup unsure'
    BY <1>9, <2>1 DEF DeleteStop, DeleteRm, RemoveSnippet, serverVars
  <2>4. \E pc \in HandPCs \ {"down"} : HandGoto(h, pc)
    BY <1>9 DEF DeleteStop, DeleteRm, HandPCs
  <2>5. ~At(h, "down")' /\ \A x \in Handlers : x # h => hand'[x] = hand[x]
    BY <1>4, <2>4
  <2> QED BY <2>1, <2>2, <2>3, <2>5, HandStep
<1>10. CASE DeleteLook(h)
  <2>1. UNCHANGED <<turn, run, status, setback, unsure, serverVars>>
    BY <1>10 DEF DeleteLook, Apart, rowVars
  <2>2. (\A x \in Sites : Stands(x) => Stands(x)') /\ snippet \subseteq snippet'
    BY <1>2, <2>1, QuietCommands
  <2>3. PICK pc \in {"clean", "down"} :
          /\ hand' = [hand EXCEPT ![h].listed = snippet, ![h].pc = pc]
          /\ pc = "down" => snippet = {}
    BY <1>10 DEF DeleteLook
  <2>4. /\ hand'[h].pc = pc /\ hand'[h].listed = snippet
        /\ \A x \in Handlers : x # h => hand'[x] = hand[x]
    BY <1>2, <2>3, HandLists DEF HandPCs
  <2>5. At(h, "down")' => hand'[h].listed = {}
    BY <2>3, <2>4 DEF At
  <2> QED BY <2>1, <2>2, <2>4, <2>5, HandStep
<1>11. CASE DeleteEnd(h)
  <2>1. UNCHANGED <<turn, run, status, setback>>
    BY <1>11 DEF DeleteEnd, rowVars
  <2>2. hand'[h].pc = "row" /\ \A x \in Handlers : x # h => hand'[x] = hand[x]
    <3>1. hand' = [hand EXCEPT ![h].listed = {}, ![h].pc = "row"]
      BY <1>11 DEF DeleteEnd
    <3>2. {} \in SUBSET Sites /\ "row" \in HandPCs
      BY DEF HandPCs
    <3> QED BY <1>2, <3>1, <3>2, HandLists
  <2>3. ~At(h, "down")'
    BY <2>2 DEF At
  <2>4. CASE Reload /\ unsure' = unsure
    <3>1. (\A x \in Sites : Stands(x) => Stands(x)') /\ snippet \subseteq snippet'
      BY <1>2, <2>4, QuietCommands
    <3> QED BY <2>1, <2>2, <2>3, <2>4, <3>1, HandStep
  <2>5. CASE At(h, "down") /\ GatewayDown /\ CaughtBy(hand[h].listed)
    <3>1. hand[h].listed = {}
      BY <2>5 DEF DownListed
    <3>2. /\ \A x \in Sites : Stands(x) => x \in unsure'
          /\ snippet' = snippet /\ unsure \subseteq unsure'
      BY <2>5, <3>1, DownCatches
    <3> QED BY <2>1, <2>2, <2>3, <3>2, HandStep
  <2> QED BY <1>11, <2>4, <2>5 DEF DeleteEnd
<1>12. CASE DeleteRow(h)
  <2>1. UNCHANGED <<turn, run, setback, unsure, serverVars>> /\ Return(h)
    BY <1>12 DEF DeleteRow
  <2>2. \A x \in Sites : status'[x] = "success" => status[x] = "success"
    BY <1>2, <1>12 DEF DeleteRow, rowVars
  <2>3. (\A x \in Sites : Stands(x) => Stands(x)') /\ snippet \subseteq snippet'
    BY <1>2, <2>1, QuietCommands
  <2>4. ~At(h, "down")' /\ \A x \in Handlers : x # h => hand'[x] = hand[x]
    BY <1>3, <2>1
  <2> QED BY <2>1, <2>2, <2>3, <2>4, HandStep
<1> QED
  BY <1>5, <1>6, <1>7, <1>8, <1>9, <1>10, <1>11, <1>12 DEF Hand

LEMMA CallServed ==
  ASSUME ServedIInv, Sound', NEW h \in Handlers, NEW s \in Sites, NEW op \in HandOps, Call(h, s, op)
  PROVE  ServedIInv'
<1>1. UNCHANGED <<turn, run, status, setback, unsure, serverVars>>
  BY DEF Call, Apart, rowVars
<1>2. (\A x \in Sites : Stands(x) => Stands(x)') /\ snippet \subseteq snippet'
  BY <1>1, QuietCommands
<1>3. hand'[h].pc # "down" /\ \A x \in Handlers : x # h => hand'[x] = hand[x]
  BY TypeParts DEF Call, HandOps, ServedIInv, Sound, TypedParts
<1>4. ~At(h, "down")'
  BY <1>3 DEF At
<1> QED
  BY <1>1, <1>2, <1>3, <1>4, HandStep

LEMMA RestartServed == ASSUME ServedIInv, Sound', Restart PROVE ServedIInv'
<1> USE DEF ServedIInv
<1>1. /\ turn' = None /\ run'.pc = "idle"
      /\ \A h \in Handlers : hand'[h] = NoHand
      /\ UNCHANGED <<snippet, gateway, loaded, attached, unsure, setback>>
  BY Constructed DEF Restart, serverVars
<1>2. \A s \in Sites : status'[s] = "success" => status[s] = "success"
  BY DEF Restart
<1>3. TurnUnsettled' /\ RunStands' /\ DownListed'
  BY <1>1, Constructed DEF TurnUnsettled, RunStands, DownListed, At
<1>4. Standing'
  BY <1>1, <1>2 DEF Standing, Stands
<1> QED
  BY <1>3, <1>4

LEMMA StepServed == ASSUME ServedIInv, [Next]_vars PROVE ServedIInv'
<1>1. Sound'
  BY StepSound DEF ServedIInv
<1>2. CASE UNCHANGED vars
  BY <1>1, <1>2
     DEF ServedIInv, vars, rowVars, serverVars, Standing, TurnUnsettled, RunStands, DownListed, Stands, At
<1>3. ASSUME Run PROVE ServedIInv'
  <2>1. turn # None
    BY <1>3 DEF Run, Step, Code, SetupSnippet, SetupGateway, SetupReload, Up, ConnectApp, ConnectReload,
                Health, Succeed, Failed, Deadline, CleanupRm, CleanupLook, CleanupEnd
  <2> QED BY <1>1, <1>3, <2>1, RunServed
<1> QED
  BY <1>1, <1>2, <1>3, BeginServed, CallServed, HandServed, RestartServed DEF Next

(* A project shown as successful answers (deployer.go:209,                 *)
(* services.go:1633), for any number of sites, whatever their names, and   *)
(* of handlers and edits at once, with every fault and restart: but for    *)
(* the sites that SuccessIsServed excepts, and for those only until their  *)
(* next health check or run.                                               *)
THEOREM SuccessesAreServed == Spec => []SuccessIsServed
<1>1. ServedIInv => SuccessIsServed
  BY DEF ServedIInv, Standing, Stands, SuccessIsServed, Served
<1> QED
  BY <1>1, InitServed, StepServed, PTL DEF Spec
=============================================================================
