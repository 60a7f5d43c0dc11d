--------------------------- MODULE HostPin_proofs ---------------------------
(* Proofs of the safety properties of HostPin, for any number of           *)
(* connections, handlers, types of host keys, and any faults.              *)
EXTENDS HostPin, TLAPS

(* A connection that knows the row's key is working with the row as it is  *)
(* for as long as nobody deletes it, and once past the callback it has     *)
(* seen the key it expected.                                               *)
KnowsIn(c) ==
  /\ c.epoch <= forgets
  /\ c.pc \in {"dial", "auth"} /\ c.expected # None /\ c.epoch = forgets => pin = c.expected
  /\ c.pc = "auth" => c.seen # None
  /\ c.pc = "auth" /\ c.expected # None => c.seen = c.expected
  /\ c.pc = "trust" => c.expected = None
  /\ c.pc = "open" /\ c.epoch = forgets => pin = c.seen

IInv == TypeOK /\ \A d \in Dialers : KnowsIn(dial[d])

(* The key the machine offers is one of the host keys.                     *)
LEMMA OfferedType ==
  ASSUME ConstantsOK, TypeOK, NEW d \in Dialers
  PROVE  Offered(d) \subseteq HostKeys
<1> SUFFICES ASSUME NEW i \in DOMAIN Preference, Preference[i] \in Negotiable(d)
             PROVE  KeyOf(Preference[i]) \in HostKeys
  BY DEF Offered
<1>1. Preference[i] \in Types /\ server[Preference[i]] # 0
  BY DEF Negotiable, Present, Types
<1>2. server[Preference[i]] \in 1..MaxKeys
  BY <1>1 DEF TypeOK, ConstantsOK
<1> QED
  BY <1>1, <1>2 DEF KeyOf, HostKeys

(* Replacing one connection by one that is typed, has seen a key where it  *)
(* must, and knows what it should, keeps the invariant.                    *)
LEMMA OneConnection ==
  ASSUME IInv, NEW d \in Dialers, NEW c \in DialState,
         c.pc \in {"trust", "open"} => c.seen # None,
         KnowsIn(c),
         dial' = [dial EXCEPT ![d] = c],
         UNCHANGED <<server, made, pin, projects, req, forgets>>,
         hostKeyAlerted' \in BOOLEAN
  PROVE  IInv'
<1>1. dial' \in [Dialers -> DialState]
  BY DEF IInv, TypeOK
<1>2. \A e \in Dialers : dial'[e] = IF e = d THEN c ELSE dial[e]
  BY DEF IInv, TypeOK
<1>3. \A e \in Dialers : dial'[e].pc \in {"trust", "open"} => dial'[e].seen # None
  BY <1>2 DEF IInv, TypeOK
<1>4. TypeOK'
  BY <1>1, <1>3 DEF IInv, TypeOK
<1>5. \A e \in Dialers : KnowsIn(dial[e])'
  <2> SUFFICES ASSUME NEW e \in Dialers PROVE KnowsIn(dial[e])'
    OBVIOUS
  <2>1. CASE e = d
    <3>1. dial'[e] = c
      BY <2>1, <1>2
    <3> QED BY <3>1 DEF KnowsIn
  <2>2. CASE e # d
    <3>1. dial'[e] = dial[e]
      BY <2>2, <1>2
    <3> QED BY <3>1 DEF KnowsIn, IInv
  <2> QED BY <2>1, <2>2
<1> QED
  BY <1>4, <1>5 DEF IInv

LEMMA NoDialKnows == ASSUME ConstantsOK, IInv PROVE NoDial \in DialState /\ KnowsIn(NoDial)
BY DEF ConstantsOK, IInv, TypeOK, NoDial, DialState, KnowsIn

LEMMA InitIInv == ASSUME ConstantsOK, Init PROVE IInv
<1>1. NoDial \in DialState /\ KnowsIn(NoDial)
  BY DEF ConstantsOK, Init, NoDial, DialState, KnowsIn
<1>2. \A d \in Dialers : dial[d] = NoDial
  BY DEF Init
<1>3. TypeOK
  <2>1. server \in [Types -> 0..MaxKeys] /\ \A t \in Types : server[t] <= made
    BY DEF Init, ConstantsOK
  <2>2. dial \in [Dialers -> DialState]
    BY <1>1 DEF Init
  <2>3. \A d \in Dialers : dial[d].pc \in {"trust", "open"} => dial[d].seen # None
    BY <1>2 DEF NoDial
  <2>4. made \in 0..MaxKeys /\ projects \in 0..MaxProjects /\ forgets \in 0..MaxForgets
    BY DEF Init, ConstantsOK
  <2>5. /\ req \in [Requests -> {"idle", "reset", "clear", "look", "forget"}]
        /\ pin \in HostKeys \cup {None} /\ hostKeyAlerted \in BOOLEAN
    BY DEF Init
  <2> QED BY <2>1, <2>2, <2>3, <2>4, <2>5 DEF TypeOK
<1> QED BY <1>1, <1>2, <1>3 DEF IInv

-----------------------------------------------------------------------------
(* The steps of a connection.                                              *)

LEMMA HangupStep ==
  ASSUME ConstantsOK, IInv, NEW d \in Dialers, Hangup(d),
         UNCHANGED <<server, made, pin, projects, req, forgets>>, hostKeyAlerted' \in BOOLEAN
  PROVE  IInv'
<1>1. NoDial.pc \notin {"trust", "open"}
  BY DEF NoDial
<1> QED BY <1>1, NoDialKnows, OneConnection DEF Hangup

LEMMA ReadPinStep ==
  ASSUME ConstantsOK, IInv, NEW d \in Dialers, NEW tofu \in BOOLEAN, ReadPin(d, tofu)
  PROVE  IInv'
<1>1. PICK known \in {pin, None} :
        dial' = [dial EXCEPT ![d] = [pc |-> "dial", tofu |-> tofu, expected |-> known,
                                     seen |-> None, epoch |-> forgets]]
  BY DEF ReadPin
<1> DEFINE c == [pc |-> "dial", tofu |-> tofu, expected |-> known,
                 seen |-> None, epoch |-> forgets]
<1>2. c \in DialState
  BY DEF DialState, IInv, TypeOK
<1>3. KnowsIn(c)
  BY DEF KnowsIn, IInv, TypeOK
<1>4. c.pc \notin {"trust", "open"}
  OBVIOUS
<1>5. dial' = [dial EXCEPT ![d] = c]
  BY <1>1
<1>6. UNCHANGED <<server, made, pin, projects, req, forgets>> /\ hostKeyAlerted' \in BOOLEAN
  BY DEF ReadPin, IInv, TypeOK
<1> HIDE DEF c
<1> QED BY <1>2, <1>3, <1>4, <1>5, <1>6, OneConnection

LEMMA AcceptStep ==
  ASSUME ConstantsOK, IInv, NEW d \in Dialers, Accept(d)
  PROVE  IInv'
<1>1. PICK key \in Offered(d) :
        /\ IF dial[d].expected = None THEN dial[d].tofu ELSE dial[d].expected = key
        /\ dial' = [dial EXCEPT ![d].pc = "auth", ![d].seen = key]
  BY DEF Accept
<1>2. key \in HostKeys /\ key # None
  BY OfferedType DEF IInv, ConstantsOK
<1> DEFINE c == [dial[d] EXCEPT !.pc = "auth", !.seen = key]
<1>3. dial[d] \in DialState /\ dial[d].pc = "dial" /\ KnowsIn(dial[d])
  BY DEF Accept, IInv, TypeOK
<1>4. c \in DialState /\ c.pc = "auth"
  BY <1>2, <1>3 DEF DialState
<1>5. KnowsIn(c)
  BY <1>1, <1>2, <1>3 DEF KnowsIn, DialState
<1>6. dial' = [dial EXCEPT ![d] = c]
  BY <1>1
<1>7. UNCHANGED <<server, made, pin, projects, req, forgets>> /\ hostKeyAlerted' \in BOOLEAN
  BY DEF Accept, IInv, TypeOK
<1> HIDE DEF c
<1> QED BY <1>4, <1>5, <1>6, <1>7, OneConnection

LEMMA AuthenticatedStep ==
  ASSUME ConstantsOK, IInv, NEW d \in Dialers, Authenticated(d)
  PROVE  IInv'
<1> DEFINE c == [dial[d] EXCEPT !.pc = IF dial[d].expected = None THEN "trust" ELSE "open"]
<1>1. dial[d] \in DialState /\ dial[d].pc = "auth" /\ KnowsIn(dial[d])
  BY DEF Authenticated, IInv, TypeOK
<1>2. c \in DialState /\ c.pc \in {"trust", "open"} /\ c.seen # None
  BY <1>1 DEF DialState, KnowsIn
<1>3. KnowsIn(c)
  BY <1>1 DEF KnowsIn, DialState
<1>4. dial' = [dial EXCEPT ![d] = c]
  BY DEF Authenticated
<1>5. UNCHANGED <<server, made, pin, projects, req, forgets>> /\ hostKeyAlerted' \in BOOLEAN
  BY DEF Authenticated, IInv, TypeOK
<1> HIDE DEF c
<1> QED BY <1>2, <1>3, <1>4, <1>5, OneConnection

LEMMA TrustFailsStep ==
  ASSUME ConstantsOK, IInv, NEW d \in Dialers, TrustFails(d)
  PROVE  IInv'
<1> DEFINE c == [dial[d] EXCEPT !.pc = "unpinned"]
<1>1. dial[d] \in DialState /\ KnowsIn(dial[d])
  BY DEF IInv, TypeOK
<1>2. c \in DialState /\ c.pc = "unpinned"
  BY <1>1 DEF DialState
<1>3. KnowsIn(c)
  BY <1>1 DEF KnowsIn, DialState
<1>4. dial' = [dial EXCEPT ![d] = c]
  BY DEF TrustFails
<1>5. UNCHANGED <<server, made, pin, projects, req, forgets>> /\ hostKeyAlerted' \in BOOLEAN
  BY DEF TrustFails, IInv, TypeOK
<1> HIDE DEF c
<1> QED BY <1>2, <1>3, <1>4, <1>5, OneConnection

LEMMA MismatchStep ==
  ASSUME ConstantsOK, IInv, NEW d \in Dialers, Mismatch(d)
  PROVE  IInv'
<1> DEFINE c == IF dial[d].tofu THEN NoDial ELSE [NoDial EXCEPT !.pc = "alert"]
<1>1. NoDial \in DialState /\ KnowsIn(NoDial)
  BY NoDialKnows
<1>2. c \in DialState /\ c.pc \in {"idle", "alert"}
  BY <1>1 DEF DialState, NoDial
<1>3. KnowsIn(c)
  BY <1>1 DEF KnowsIn, NoDial
<1>4. dial' = [dial EXCEPT ![d] = c]
  BY DEF Mismatch
<1>5. UNCHANGED <<server, made, pin, projects, req, forgets>> /\ hostKeyAlerted' \in BOOLEAN
  BY DEF Mismatch, IInv, TypeOK
<1> HIDE DEF c
<1> QED BY <1>2, <1>3, <1>4, <1>5, OneConnection

(* The one step of a connection that touches the row: it makes the row or  *)
(* finds it as it is, so whoever relies on a row of this epoch still can.  *)
LEMMA TrustStep ==
  ASSUME ConstantsOK, IInv, NEW d \in Dialers, TrustHostPin(d)
  PROVE  IInv'
<1> DEFINE c == IF pin' = dial[d].seen THEN [dial[d] EXCEPT !.pc = "open", !.epoch = forgets]
                ELSE NoDial
<1>1. dial[d] \in DialState /\ dial[d].pc = "trust" /\ dial[d].seen # None
  BY DEF TrustHostPin, IInv, TypeOK
<1>2. NoDial \in DialState
  BY NoDialKnows
<1>3. pin' \in HostKeys /\ (pin # None => pin' = pin)
  BY <1>1 DEF TrustHostPin, IInv, TypeOK, DialState
<1>4. forgets \in 0..MaxForgets /\ forgets' = forgets
  BY DEF TrustHostPin, IInv, TypeOK
<1>5. c \in DialState /\ (c.pc \in {"trust", "open"} => c.seen # None)
  BY <1>1, <1>2, <1>4 DEF DialState, NoDial
<1>6. dial' = [dial EXCEPT ![d] = c]
  BY DEF TrustHostPin, Hangup
<1>7. c.epoch <= forgets /\ (c.pc = "open" => pin' = c.seen) /\ c.pc \in {"open", "idle"}
  BY <1>1, <1>4 DEF NoDial, DialState, ConstantsOK
<1> HIDE DEF c
<1>8. \A e \in Dialers : dial'[e] = IF e = d THEN c ELSE dial[e]
  BY <1>6 DEF IInv, TypeOK
<1>9. TypeOK'
  <2>1. dial' \in [Dialers -> DialState]
    BY <1>5, <1>6 DEF IInv, TypeOK
  <2>2. \A e \in Dialers : dial'[e].pc \in {"trust", "open"} => dial'[e].seen # None
    BY <1>5, <1>8 DEF IInv, TypeOK
  <2> QED BY <1>3, <2>1, <2>2 DEF TrustHostPin, IInv, TypeOK
<1>10. \A e \in Dialers : KnowsIn(dial[e])'
  <2> SUFFICES ASSUME NEW e \in Dialers PROVE KnowsIn(dial[e])'
    OBVIOUS
  <2>1. CASE e = d
    <3>1. dial'[e] = c
      BY <2>1, <1>8
    <3> QED BY <3>1, <1>4, <1>7 DEF KnowsIn
  <2>2. CASE e # d
    <3>1. dial'[e] = dial[e] /\ KnowsIn(dial[e]) /\ dial[e] \in DialState
      BY <2>2, <1>8 DEF IInv, TypeOK
    <3>2. dial[e].pc = "open" => dial[e].seen # None
      BY DEF IInv, TypeOK
    <3> QED BY <3>1, <3>2, <1>3, <1>4 DEF KnowsIn
  <2> QED BY <2>1, <2>2
<1> QED
  BY <1>9, <1>10 DEF IInv

LEMMA ConnectionStep ==
  ASSUME ConstantsOK, IInv, NEW d \in Dialers, Connection(d)
  PROVE  IInv'
<1>1. ASSUME NEW tofu \in BOOLEAN, ReadPin(d, tofu) PROVE IInv'
  BY <1>1, ReadPinStep
<1>2. ASSUME Unreachable(d) \/ KeyGone(d) \/ Unknown(d) \/ alertHostKeyOnce(d) \/ Close(d)
      PROVE  IInv'
  <2>1. Hangup(d)
    BY <1>2 DEF Unreachable, KeyGone, Unknown, alertHostKeyOnce, Close
  <2>2. UNCHANGED <<server, made, pin, projects, req, forgets>> /\ hostKeyAlerted' \in BOOLEAN
    BY <1>2 DEF Unreachable, KeyGone, Unknown, alertHostKeyOnce, Close, IInv, TypeOK
  <2> QED BY <2>1, <2>2, HangupStep
<1> QED
  BY <1>1, <1>2, AcceptStep, AuthenticatedStep, TrustFailsStep, MismatchStep, TrustStep
     DEF Connection

-----------------------------------------------------------------------------
(* The steps of the machine, the projects and the handlers.                *)

(* Only deleting the row matters to a connection, and it opens an epoch.   *)
LEMMA ForgetStep ==
  ASSUME ConstantsOK, IInv, NEW h \in Requests, ForgetHostPin(h)
  PROVE  IInv'
<1>1. forgets' = forgets + 1 /\ forgets' \in 0..MaxForgets /\ forgets \in Nat
  BY DEF ForgetHostPin, IInv, TypeOK, ConstantsOK
<1>2. TypeOK'
  BY <1>1 DEF ForgetHostPin, Goto, IInv, TypeOK
<1>3. \A d \in Dialers : KnowsIn(dial[d])'
  <2> SUFFICES ASSUME NEW d \in Dialers PROVE KnowsIn(dial[d])'
    OBVIOUS
  <2>1. dial'[d] = dial[d] /\ dial[d] \in DialState /\ KnowsIn(dial[d])
    BY DEF ForgetHostPin, IInv, TypeOK
  <2>2. dial[d].epoch \in Nat /\ dial[d].epoch <= forgets /\ dial[d].epoch # forgets'
    BY <1>1, <2>1 DEF KnowsIn, DialState, ConstantsOK
  <2> QED BY <1>1, <2>1, <2>2 DEF KnowsIn
<1> QED BY <1>2, <1>3 DEF IInv

LEMMA OtherStep ==
  ASSUME ConstantsOK, IInv, UNCHANGED <<pin, dial, forgets>>,
         server' \in [Types -> 0..MaxKeys], made' \in 0..MaxKeys,
         \A t \in Types : server'[t] <= made',
         projects' \in 0..MaxProjects, hostKeyAlerted' \in BOOLEAN,
         req' \in [Requests -> {"idle", "reset", "clear", "look", "forget"}]
  PROVE  IInv'
BY DEF IInv, TypeOK, KnowsIn

LEMMA RequestStep ==
  ASSUME ConstantsOK, IInv, NEW h \in Requests, Request(h)
  PROVE  IInv'
<1>1. CASE ForgetHostPin(h)
  BY <1>1, ForgetStep
<1>2. CASE DeleteRow(h)
  <2>1. projects' \in 0..MaxProjects
    BY <1>2 DEF DeleteRow, IInv, TypeOK, ConstantsOK
  <2>2. req' \in [Requests -> {"idle", "reset", "clear", "look", "forget"}]
    BY <1>2 DEF DeleteRow, Goto, IInv, TypeOK
  <2> QED BY <1>2, <2>1, <2>2, OtherStep DEF DeleteRow, IInv, TypeOK
<1>3. ASSUME UNCHANGED <<server, made, pin, projects, dial, forgets>>,
             hostKeyAlerted' \in BOOLEAN, NEW pc, Goto(h, pc),
             pc \in {"idle", "reset", "clear", "look", "forget"}
      PROVE  IInv'
  <2>1. req' \in [Requests -> {"idle", "reset", "clear", "look", "forget"}]
    BY <1>3 DEF Goto, IInv, TypeOK
  <2> QED BY <1>3, <2>1, OtherStep DEF IInv, TypeOK
<1>4. hostKeyAlerted \in BOOLEAN
  BY DEF IInv, TypeOK
<1>5. CASE HasDeploymentsOn(h)
  BY <1>3, <1>4, <1>5 DEF HasDeploymentsOn
<1>6. CASE ResetHostKey(h)
  BY <1>3, <1>4, <1>6 DEF ResetHostKey
<1>7. CASE ForgetFails(h)
  BY <1>3, <1>4, <1>7 DEF ForgetFails
<1>8. CASE ClearAlerted(h)
  BY <1>3, <1>8 DEF ClearAlerted
<1> QED
  BY <1>1, <1>2, <1>5, <1>6, <1>7, <1>8 DEF Request

LEMMA MachineStep ==
  ASSUME ConstantsOK, IInv, Machine
  PROVE  IInv'
<1>1. CASE Rebuild
  <2>1. made' = made + 1 /\ made' \in 0..MaxKeys /\ made \in Nat
    BY <1>1 DEF Rebuild, IInv, TypeOK, ConstantsOK
  <2>2. server' \in [Types -> {0, made'}]
    BY <1>1, <2>1 DEF Rebuild
  <2>3. server' \in [Types -> 0..MaxKeys] /\ \A t \in Types : server'[t] <= made'
    BY <2>1, <2>2
  <2> QED BY <1>1, <2>1, <2>3, OtherStep DEF Rebuild, IInv, TypeOK
<1>2. ASSUME NEW t \in Types, AddKey(t) PROVE IInv'
  <2>1. made' = made + 1 /\ made' \in 0..MaxKeys /\ made \in Nat
    BY <1>2 DEF AddKey, IInv, TypeOK, ConstantsOK
  <2>2. server' \in [Types -> 0..MaxKeys]
    BY <1>2, <2>1 DEF AddKey, IInv, TypeOK
  <2>3. \A u \in Types : server'[u] = IF u = t THEN made' ELSE server[u]
    BY <1>2, <2>1 DEF AddKey, IInv, TypeOK
  <2>4. \A u \in Types : server'[u] <= made'
    BY <2>1, <2>3 DEF IInv, TypeOK
  <2> QED BY <1>2, <2>1, <2>2, <2>4, OtherStep DEF AddKey, IInv, TypeOK
<1> QED
  BY <1>1, <1>2 DEF Machine

LEMMA NextIInv == ASSUME ConstantsOK, IInv, [Next]_vars PROVE IInv'
<1>1. CASE Create
  <2>1. projects' \in 0..MaxProjects
    BY <1>1 DEF Create, IInv, TypeOK, ConstantsOK
  <2> QED BY <1>1, <2>1, OtherStep DEF Create, IInv, TypeOK
<1>2. CASE UNCHANGED vars
  BY <1>2 DEF vars, IInv, TypeOK, KnowsIn
<1> QED
  BY <1>1, <1>2, ConnectionStep, RequestStep, MachineStep DEF Next

LEMMA Inductive == Spec => []IInv
<1>1. Init => IInv
  BY InitIInv, ConstantsOK
<1>2. IInv /\ [Next]_vars => IInv'
  BY NextIInv, ConstantsOK
<1> QED BY <1>1, <1>2, PTL DEF Spec

-----------------------------------------------------------------------------
(* The row, the machine and every connection keep their types.             *)
THEOREM TypeCorrect == Spec => []TypeOK
<1>1. IInv => TypeOK
  BY DEF IInv
<1> QED BY <1>1, Inductive, PTL

(* However many connections meet a server for the first time together,     *)
(* whatever statements fail and whenever the row is deleted, the sessions  *)
(* that compared or made the row agree on the server's key (TrustHostPin,  *)
(* dialPinned).                                                            *)
THEOREM OneFingerprint == Spec => []SessionsAgree
<1>1. IInv => SessionsAgree
  BY DEF IInv, KnowsIn, SessionsAgree
<1> QED BY <1>1, Inductive, PTL

(* A connection that knew the row is refused as a swapped key only when    *)
(* the machine no longer has the key asked for, and one that did not only  *)
(* when a key of the row or the key shown is gone from the machine, or the *)
(* two are of different types (HostPin.algos, HostPin.callback and the end *)
(* of dialPinned).                                                         *)
THEOREM MismatchIsChange == Spec => NoFalseAlarm
<1>1. ASSUME TypeOK, NEW d \in Dialers, Mismatch(d)
      PROVE  ~Has(dial[d].expected)
  <2> DEFINE t == dial[d].expected.type
  <2>1. dial[d].expected \in HostKeys /\ dial[d].expected # None
        /\ Negotiable(d) # {} /\ dial[d].expected \notin Offered(d)
    BY <1>1 DEF Mismatch, TypeOK, DialState
  <2>2. Negotiable(d) = {t} /\ t \in Types
    BY <2>1 DEF Negotiable, algos, HostKeys
  <2>3. PICK i \in DOMAIN Preference : Preference[i] = t
    BY <2>2 DEF Types
  <2>4. \A n \in 1..(i - 1) : Preference[n] \notin Negotiable(d)
    <3>1. SUFFICES ASSUME NEW n \in 1..(i - 1), Preference[n] = t PROVE FALSE
      BY <2>2
    <3>2. DOMAIN Preference = 1..Len(Preference) /\ Len(Preference) \in Nat
      BY ConstantsOK DEF ConstantsOK
    <3>3. n \in DOMAIN Preference /\ n # i
      BY <2>3, <3>2
    <3> QED BY <2>3, <3>1, <3>3, ConstantsOK DEF ConstantsOK
  <2>5. KeyOf(t) \in Offered(d)
    BY <2>2, <2>3, <2>4 DEF Offered
  <2> QED BY <2>1, <2>5 DEF KeyOf, HostKeys, Has
<1>2. ASSUME IInv, NEW d \in Dialers, RefusedLate(d)
      PROVE  /\ dial[d].expected = None
             /\ ~Has(pin) \/ ~Has(dial[d].seen) \/ dial[d].seen.type # pin.type
  <2>1. dial[d].pc = "trust" /\ dial[d].seen # None /\ dial[d].seen \in HostKeys \cup {None}
    BY <1>2 DEF RefusedLate, TrustHostPin, IInv, TypeOK, DialState
  <2>2. dial[d].expected = None
    BY <1>2, <2>1 DEF IInv, KnowsIn
  <2>3. pin # None /\ pin \in HostKeys /\ pin # dial[d].seen
    BY <1>2, <2>1 DEF RefusedLate, TrustHostPin, IInv, TypeOK
  <2>4. pin.type # dial[d].seen.type \/ pin.gen # dial[d].seen.gen
    BY <2>1, <2>3 DEF HostKeys
  <2>5. Has(pin) /\ Has(dial[d].seen) => dial[d].seen.type # pin.type
    BY <2>4 DEF Has
  <2> QED BY <2>2, <2>5
<1>3. IInv /\ [Next]_vars =>
        [\A d \in Dialers :
           /\ Mismatch(d) => ~Has(dial[d].expected)
           /\ RefusedLate(d) =>
                /\ dial[d].expected = None
                /\ \/ ~Has(pin) \/ ~Has(dial[d].seen)
                   \/ dial[d].seen.type # pin.type]_vars
  BY <1>1, <1>2 DEF IInv
<1> QED BY <1>3, Inductive, PTL DEF Spec, NoFalseAlarm
=============================================================================
