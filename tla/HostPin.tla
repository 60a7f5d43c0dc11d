------------------------------ MODULE HostPin -------------------------------
(***************************************************************************)
(* Trust on first use: the host key pinned for one user and one address    *)
(* (server_host_keys), the connections that record and compare it, and the *)
(* two ways to forget it.  The machine that answers at the address, its    *)
(* host keys and the negotiation of x/crypto/ssh are the environment.      *)
(***************************************************************************)
EXTENDS Naturals, Sequences, FiniteSets

CONSTANTS
  Dialers,      \* connections being made or open
  Requests,     \* ResetHostKey and Delete in flight
  Preference,   \* types of host keys, in the order the client asks for them
  MaxKeys,      \* host keys the machine has in its life
  MaxProjects,  \* projects of the user on the server
  MaxForgets,
  Faults,       \* statements that may fail
  None

Types == {Preference[i] : i \in DOMAIN Preference}
HostKeys == [type : Types, gen : 1..MaxKeys]

ASSUME ConstantsOK ==
  /\ Preference \in Seq(STRING) \ {<<>>}
  /\ \A i, j \in DOMAIN Preference : Preference[i] = Preference[j] => i = j
  /\ MaxKeys \in Nat \ {0} /\ MaxProjects \in Nat /\ MaxForgets \in Nat
  /\ Faults \subseteq {"HostPin", "TrustHostPin", "ForgetHostPin", "HasDeploymentsOn"}
  /\ None \notin HostKeys

VARIABLES
  server,       \* type -> generation of the key the machine has, 0 for none
  made,         \* generations used
  pin,          \* the row
  projects,     \* rows of deployments on the address
  dial,         \* connections
  req,          \* handlers
  hostKeyAlerted,
  forgets       \* how often the row was deleted

vars == <<server, made, pin, projects, dial, req, hostKeyAlerted, forgets>>

NoDial == [pc |-> "idle", tofu |-> FALSE, expected |-> None, seen |-> None, epoch |-> 0]

(* "open" was compared with the row or made it, "unpinned" was not.        *)
DialState ==
  [pc : {"idle", "dial", "auth", "trust", "alert", "open", "unpinned"},
   tofu : BOOLEAN, expected : HostKeys \cup {None}, seen : HostKeys \cup {None},
   epoch : 0..MaxForgets]

TypeOK ==
  /\ server \in [Types -> 0..MaxKeys] /\ made \in 0..MaxKeys
  /\ \A t \in Types : server[t] <= made
  /\ pin \in HostKeys \cup {None}
  /\ projects \in 0..MaxProjects
  /\ dial \in [Dialers -> DialState]
  /\ \A d \in Dialers : dial[d].pc \in {"trust", "open"} => dial[d].seen # None
  /\ req \in [Requests -> {"idle", "reset", "clear", "look", "forget"}]
  /\ hostKeyAlerted \in BOOLEAN
  /\ forgets \in 0..MaxForgets

Init ==
  /\ made = 1 /\ server \in [Types -> {0, 1}] /\ \E t \in Types : server[t] = 1
  /\ pin = None /\ projects = 0
  /\ dial = [d \in Dialers |-> NoDial]
  /\ req = [h \in Requests |-> "idle"]
  /\ hostKeyAlerted = FALSE /\ forgets = 0

-----------------------------------------------------------------------------
(* The machine.                                                            *)

(* Rebuilt, moved or replaced: every key is new.                           *)
Rebuild ==
  /\ made < MaxKeys
  /\ made' = made + 1
  /\ \E f \in [Types -> {0, made + 1}] : (\E t \in Types : f[t] # 0) /\ server' = f
  /\ UNCHANGED <<pin, projects, dial, req, hostKeyAlerted, forgets>>

AddKey(t) ==
  /\ made < MaxKeys /\ server[t] = 0
  /\ made' = made + 1
  /\ server' = [server EXCEPT ![t] = made + 1]
  /\ UNCHANGED <<pin, projects, dial, req, hostKeyAlerted, forgets>>

Present == {t \in Types : server[t] # 0}
KeyOf(t) == [type |-> t, gen |-> server[t]]

-----------------------------------------------------------------------------
(* dialPinned.                                                             *)

(* Mutant of algos: whatever both sides have.                              *)
algosAny(d) == Types

algos(d) == IF dial[d].expected = None THEN Types ELSE {dial[d].expected.type}

Negotiable(d) == algos(d) \cap Present

(* The key of the first type in the client's list, if there is one.        *)
Offered(d) ==
  {KeyOf(t) : t \in {Preference[i] : i \in {j \in DOMAIN Preference :
                      /\ Preference[j] \in Negotiable(d)
                      /\ \A n \in 1..(j - 1) : Preference[n] \notin Negotiable(d)}}}

Hangup(d) == dial' = [dial EXCEPT ![d] = NoDial]

(* A failed read counts as an unknown server.  CheckAccess dials with no   *)
(* project; the disk monitor never records.                                *)
ReadPin(d, tofu) ==
  /\ dial[d].pc = "idle"
  /\ tofu \/ projects > 0
  /\ \E known \in IF "HostPin" \in Faults THEN {pin, None} ELSE {pin} :
       dial' = [dial EXCEPT ![d] = [pc |-> "dial", tofu |-> tofu, expected |-> known,
                                    seen |-> None, epoch |-> forgets]]
  /\ UNCHANGED <<server, made, pin, projects, req, hostKeyAlerted, forgets>>

Unreachable(d) ==
  /\ dial[d].pc \in {"dial", "auth"}
  /\ Hangup(d)
  /\ UNCHANGED <<server, made, pin, projects, req, hostKeyAlerted, forgets>>

(* "host_key_gone": no key of the pinned type.                             *)
KeyGone(d) ==
  /\ dial[d].pc = "dial" /\ Negotiable(d) = {}
  /\ Hangup(d)
  /\ UNCHANGED <<server, made, pin, projects, req, hostKeyAlerted, forgets>>

(* Mutant of Accept: an unknown server is let in before its key is noted.  *)
AcceptUnseen(d) ==
  /\ dial[d].pc = "dial"
  /\ \E key \in Offered(d) :
       /\ IF dial[d].expected = None THEN dial[d].tofu ELSE dial[d].expected = key
       /\ dial' = [dial EXCEPT ![d].pc = "auth", ![d].seen = dial[d].expected]
  /\ UNCHANGED <<server, made, pin, projects, req, hostKeyAlerted, forgets>>

(* The callback, before authentication.                                    *)
Accept(d) ==
  /\ dial[d].pc = "dial"
  /\ \E key \in Offered(d) :
       /\ IF dial[d].expected = None THEN dial[d].tofu ELSE dial[d].expected = key
       /\ dial' = [dial EXCEPT ![d].pc = "auth", ![d].seen = key]
  /\ UNCHANGED <<server, made, pin, projects, req, hostKeyAlerted, forgets>>

Unknown(d) ==
  /\ dial[d].pc = "dial" /\ Negotiable(d) # {}
  /\ dial[d].expected = None /\ ~dial[d].tofu
  /\ Hangup(d)
  /\ UNCHANGED <<server, made, pin, projects, req, hostKeyAlerted, forgets>>

(* Only the monitor goes on to alertHostKeyOnce.                           *)
Mismatch(d) ==
  /\ dial[d].pc = "dial" /\ Negotiable(d) # {}
  /\ dial[d].expected # None /\ dial[d].expected \notin Offered(d)
  /\ dial' = [dial EXCEPT ![d] = IF dial[d].tofu THEN NoDial ELSE [NoDial EXCEPT !.pc = "alert"]]
  /\ UNCHANGED <<server, made, pin, projects, req, hostKeyAlerted, forgets>>

alertHostKeyOnce(d) ==
  /\ dial[d].pc = "alert"
  /\ hostKeyAlerted' = TRUE
  /\ Hangup(d)
  /\ UNCHANGED <<server, made, pin, projects, req, forgets>>

Authenticated(d) ==
  /\ dial[d].pc = "auth"
  /\ dial' = [dial EXCEPT ![d].pc = IF dial[d].expected = None THEN "trust" ELSE "open"]
  /\ UNCHANGED <<server, made, pin, projects, req, hostKeyAlerted, forgets>>

(* Mutant of TrustHostPin: ON CONFLICT DO UPDATE SET fingerprint.          *)
TrustHostPinLast(d) ==
  /\ dial[d].pc = "trust"
  /\ pin' = dial[d].seen
  /\ dial' = [dial EXCEPT ![d].pc = "open", ![d].epoch = forgets]
  /\ UNCHANGED <<server, made, projects, req, hostKeyAlerted, forgets>>

(* Get-or-create; the loser of two first connections compares.             *)
TrustHostPin(d) ==
  /\ dial[d].pc = "trust"
  /\ pin' = IF pin = None THEN dial[d].seen ELSE pin
  /\ IF pin' = dial[d].seen
     THEN dial' = [dial EXCEPT ![d].pc = "open", ![d].epoch = forgets]
     ELSE Hangup(d)
  /\ UNCHANGED <<server, made, projects, req, hostKeyAlerted, forgets>>

TrustFails(d) ==
  /\ dial[d].pc = "trust" /\ "TrustHostPin" \in Faults
  /\ dial' = [dial EXCEPT ![d].pc = "unpinned"]
  /\ UNCHANGED <<server, made, pin, projects, req, hostKeyAlerted, forgets>>

Close(d) ==
  /\ dial[d].pc \in {"open", "unpinned"}
  /\ Hangup(d)
  /\ UNCHANGED <<server, made, pin, projects, req, hostKeyAlerted, forgets>>

-----------------------------------------------------------------------------
(* Projects come and go; the row goes with the last one or on request.     *)

Goto(h, pc) == req' = [req EXCEPT ![h] = pc]

Create ==
  /\ projects < MaxProjects
  /\ projects' = projects + 1
  /\ UNCHANGED <<server, made, pin, dial, req, hostKeyAlerted, forgets>>

DeleteRow(h) ==
  /\ req[h] = "idle" /\ projects > 0
  /\ projects' = projects - 1
  /\ Goto(h, "look")
  /\ UNCHANGED <<server, made, pin, dial, hostKeyAlerted, forgets>>

(* A failed count counts nothing, and the row is forgotten.                *)
HasDeploymentsOn(h) ==
  /\ req[h] = "look"
  /\ \/ projects > 0 /\ Goto(h, "idle")
     \/ /\ projects = 0 \/ "HasDeploymentsOn" \in Faults
        /\ Goto(h, "forget")
  /\ UNCHANGED <<server, made, pin, projects, dial, hostKeyAlerted, forgets>>

ResetHostKey(h) ==
  /\ req[h] = "idle" /\ projects > 0
  /\ Goto(h, "reset")
  /\ UNCHANGED <<server, made, pin, projects, dial, hostKeyAlerted, forgets>>

ForgetHostPin(h) ==
  /\ req[h] \in {"reset", "forget"} /\ forgets < MaxForgets
  /\ pin' = None /\ forgets' = forgets + 1
  /\ Goto(h, IF req[h] = "reset" THEN "clear" ELSE "idle")
  /\ UNCHANGED <<server, made, projects, dial, hostKeyAlerted>>

(* Delete ignores the error, ResetHostKey answers with it.                 *)
ForgetFails(h) ==
  /\ req[h] \in {"reset", "forget"} /\ "ForgetHostPin" \in Faults
  /\ Goto(h, "idle")
  /\ UNCHANGED <<server, made, pin, projects, dial, hostKeyAlerted, forgets>>

ClearAlerted(h) ==
  /\ req[h] = "clear"
  /\ hostKeyAlerted' = FALSE
  /\ Goto(h, "idle")
  /\ UNCHANGED <<server, made, pin, projects, dial, forgets>>

-----------------------------------------------------------------------------
Connection(d) ==
  \/ \E tofu \in BOOLEAN : ReadPin(d, tofu)
  \/ Unreachable(d) \/ KeyGone(d) \/ Accept(d) \/ Unknown(d) \/ Mismatch(d)
  \/ alertHostKeyOnce(d)
  \/ Authenticated(d) \/ TrustHostPin(d) \/ TrustFails(d) \/ Close(d)

Request(h) ==
  \/ DeleteRow(h) \/ HasDeploymentsOn(h)
  \/ ResetHostKey(h) \/ ForgetHostPin(h) \/ ForgetFails(h) \/ ClearAlerted(h)

Machine == Rebuild \/ \E t \in Types : AddKey(t)

Next ==
  \/ \E d \in Dialers : Connection(d)
  \/ \E h \in Requests : Request(h)
  \/ Create
  \/ Machine

Spec == Init /\ [][Next]_vars

-----------------------------------------------------------------------------
(* Properties.                                                             *)

(* hostkey.go:14 and repo.go:134: "one server = one fingerprint", and two  *)
(* first connections "cannot overwrite each other".  A session that was    *)
(* compared with the row, or made it, has the key of the row for as long   *)
(* as nobody forgets it; two such sessions therefore see one machine.      *)
SessionsAgree ==
  \A d \in Dialers : dial[d].pc = "open" /\ dial[d].epoch = forgets => pin = dial[d].seen

(* algos (ssh.go:69).  There are two refusals as host_key_mismatch: the    *)
(* callback's, during the handshake, and the hang-up after TrustHostPin    *)
(* (hostkey.go:72-77).  A connection that knew the row is refused only     *)
(* when the machine no longer has the key it asked for, however many types *)
(* of keys the machine has and gets.  A connection that found no row (a    *)
(* failed HostPin, or another first connection beside it) asks for any     *)
(* type: it can be refused although the machine still has the key of the   *)
(* row, and then only because it was shown a key of another type or the    *)
(* machine has lost, since, the key it showed.                             *)
Has(key) == server[key.type] = key.gen

RefusedLate(d) == TrustHostPin(d) /\ pin' # dial[d].seen

NoFalseAlarm ==
  [][\A d \in Dialers :
       /\ Mismatch(d) => ~Has(dial[d].expected)
       /\ RefusedLate(d) =>
            /\ dial[d].expected = None
            /\ \/ ~Has(pin) \/ ~Has(dial[d].seen)
               \/ dial[d].seen.type # pin.type]_vars
=============================================================================
