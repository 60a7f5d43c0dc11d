----------------------------- MODULE LogStream -----------------------------
(***************************************************************************)
(* The live log of one run: the buffer of the *Deployment, its subscribers *)
(* with their bounded channels, the Server-Sent-Events handler that replays *)
(* the history and then reads its channel, the end of the run in the order *)
(* the code takes it (SaveFinal, done, terminal line), and the copy of the *)
(* log in the row, which viewers get after a restart.                      *)
(*                                                                         *)
(* A line is its number; 0 is the terminal line (KindDone).                *)
(***************************************************************************)
EXTENDS Naturals, Sequences

CONSTANTS
  Viewers,      \* requests for the log, each may come again
  Buffer,       \* capacity of a subscriber's channel (256)
  LiveCap,      \* maxLiveLogs
  StoredCap,    \* maxStoredLogs
  MaxLines      \* bounds the lines a run logs

ASSUME ConstantsOK ==
  /\ Buffer \in Nat \ {0} /\ LiveCap \in Nat \ {0, 1} /\ StoredCap \in Nat \ {0}
  /\ MaxLines \in Nat

VARIABLES
  logs, total,   \* the buffer and how many lines were logged in all
  done,          \* Deployment.done
  step,          \* where the run is
  stored,        \* logs column of the row
  subs,          \* registered viewers
  chan,          \* viewer -> lines in its channel
  stream,        \* viewer -> its request: "away", "on", "ended"
  todo,          \* viewer -> history still to send
  shown,         \* viewer -> lines sent in this stream
  dropped        \* viewer -> a line was not put in its channel

runVars == <<logs, total, done, step, stored>>
viewVars == <<stream, todo, shown>>
vars == <<runVars, subs, chan, viewVars, dropped>>

Done == 0

TypeOK ==
  /\ logs \in Seq(Nat) /\ Len(logs) <= LiveCap
  /\ total \in Nat /\ done \in BOOLEAN
  /\ step \in {"working", "closing", "announce", "over", "dead"}
  /\ stored \in Seq(Nat) /\ Len(stored) <= StoredCap
  /\ subs \subseteq Viewers
  /\ chan \in [Viewers -> Seq(Nat)]
  /\ \A v \in Viewers : Len(chan[v]) <= Buffer
  /\ stream \in [Viewers -> {"away", "on", "ended"}]
  /\ todo \in [Viewers -> Seq(Nat)]
  /\ shown \in [Viewers -> Seq(Nat)]
  /\ dropped \in [Viewers -> BOOLEAN]

Init ==
  /\ logs = <<>> /\ total = 0 /\ done = FALSE /\ step = "working" /\ stored = <<>>
  /\ subs = {}
  /\ chan = [v \in Viewers |-> <<>>]
  /\ stream = [v \in Viewers |-> "away"]
  /\ todo = [v \in Viewers |-> <<>>]
  /\ shown = [v \in Viewers |-> <<>>]
  /\ dropped = [v \in Viewers |-> FALSE]

(* Mutant of Keep: nothing is thrown away.                                 *)
KeepAll(s, n) == s

(* The last n lines of s.                                                  *)
Keep(s, n) == IF Len(s) > n THEN SubSeq(s, Len(s) - n + 1, Len(s)) ELSE s

-----------------------------------------------------------------------------
(* The run.                                                                *)

(* Deployment.log: the line goes to the buffer and to every channel that   *)
(* has a place for it.                                                     *)
log(line) ==
  /\ logs' = Keep(Append(logs, line), LiveCap)
  /\ chan' = [v \in Viewers |-> IF v \in subs /\ Len(chan[v]) < Buffer
                                THEN Append(chan[v], line) ELSE chan[v]]
  /\ dropped' = [v \in Viewers |-> dropped[v] \/ (v \in subs /\ Len(chan[v]) >= Buffer)]

Work ==
  /\ step = "working" /\ total < MaxLines
  /\ total' = total + 1
  /\ log(total + 1)
  /\ UNCHANGED <<done, step, stored, subs, viewVars>>

(* persist(repo, dep, true): SaveFinal with a snapshot of the log; when it *)
(* fails, persist logs that.                                               *)
SaveFinal ==
  /\ step = "working"
  /\ \/ stored' = Keep(logs, StoredCap) /\ UNCHANGED <<logs, total, chan, dropped>>
     \/ stored' = stored /\ total' = total + 1 /\ log(total + 1)
  /\ step' = "closing"
  /\ UNCHANGED <<done, subs, viewVars>>

(* finish: done under the mutex, then, in a critical section of its own,   *)
(* the terminal line.                                                      *)
SetDone ==
  /\ step = "closing"
  /\ done' = TRUE /\ step' = "announce"
  /\ UNCHANGED <<logs, total, stored, subs, chan, viewVars, dropped>>

Announce ==
  /\ step = "announce"
  /\ log(Done)
  /\ step' = "over"
  /\ UNCHANGED <<total, done, stored, subs, viewVars>>

(* The process dies; from now on Find takes the row.                       *)
Crash ==
  /\ step # "dead"
  /\ step' = "dead" /\ done' = TRUE
  /\ logs' = <<>> /\ subs' = {}
  /\ chan' = [v \in Viewers |-> <<>>]
  /\ stream' = [v \in Viewers |-> "away"]
  /\ todo' = [v \in Viewers |-> <<>>]
  /\ UNCHANGED <<total, stored, shown, dropped>>

-----------------------------------------------------------------------------
(* Handler.Logs.                                                           *)

(* Mutant of Ending: the end of the run is not in the history.             *)
EndingNever == <<>>

(* A history of a run that is over ends with a terminal line of its own.   *)
Ending == IF done THEN <<Done>> ELSE <<>>

(* Mutant of Open: the history is the one of the row.                      *)
OpenFromRow(v) ==
  /\ stream[v] # "on"
  /\ stream' = [stream EXCEPT ![v] = "on"]
  /\ shown' = [shown EXCEPT ![v] = <<>>]
  /\ dropped' = [dropped EXCEPT ![v] = FALSE]
  /\ todo' = [todo EXCEPT ![v] = stored \o Ending]
  /\ subs' = IF step = "dead" THEN subs ELSE subs \cup {v}
  /\ chan' = [chan EXCEPT ![v] = <<>>]
  /\ UNCHANGED runVars

(* Mutant of Open: a viewer that comes again finds its old channel.        *)
OpenOldChannel(v) ==
  /\ stream[v] # "on"
  /\ stream' = [stream EXCEPT ![v] = "on"]
  /\ shown' = [shown EXCEPT ![v] = <<>>]
  /\ dropped' = [dropped EXCEPT ![v] = FALSE]
  /\ IF step = "dead"
     THEN todo' = [todo EXCEPT ![v] = stored \o Ending] /\ subs' = subs
     ELSE todo' = [todo EXCEPT ![v] = logs \o Ending] /\ subs' = subs \cup {v}
  /\ chan' = chan
  /\ UNCHANGED runVars

(* Find and Subscribe.  A copy made from the row has done set, and nobody  *)
(* logs to it.                                                             *)
Open(v) ==
  /\ stream[v] # "on"
  /\ stream' = [stream EXCEPT ![v] = "on"]
  /\ shown' = [shown EXCEPT ![v] = <<>>]
  /\ dropped' = [dropped EXCEPT ![v] = FALSE]
  /\ IF step = "dead"
     THEN todo' = [todo EXCEPT ![v] = stored \o Ending] /\ subs' = subs
     ELSE todo' = [todo EXCEPT ![v] = logs \o Ending] /\ subs' = subs \cup {v}
  /\ chan' = [chan EXCEPT ![v] = <<>>]
  /\ UNCHANGED runVars

(* send, then the handler returns on the terminal line, which unsubscribes *)
(* it.                                                                     *)
Send(v, line) ==
  /\ shown' = [shown EXCEPT ![v] = Append(@, line)]
  /\ IF line = Done
     THEN /\ stream' = [stream EXCEPT ![v] = "ended"]
          /\ subs' = subs \ {v}
     ELSE UNCHANGED <<stream, subs>>
  /\ UNCHANGED <<runVars, dropped>>

SendHistory(v) ==
  /\ stream[v] = "on" /\ todo[v] # <<>>
  /\ Send(v, Head(todo[v]))
  /\ todo' = [todo EXCEPT ![v] = Tail(@)]
  /\ chan' = chan

SendLive(v) ==
  /\ stream[v] = "on" /\ todo[v] = <<>> /\ chan[v] # <<>>
  /\ Send(v, Head(chan[v]))
  /\ chan' = [chan EXCEPT ![v] = Tail(@)]
  /\ todo' = todo

(* The request's context ends; only the loop on the channel looks at it.   *)
Leave(v) ==
  /\ stream[v] = "on" /\ todo[v] = <<>>
  /\ stream' = [stream EXCEPT ![v] = "away"]
  /\ subs' = subs \ {v}
  /\ UNCHANGED <<runVars, chan, todo, shown, dropped>>

Viewer(v) == Open(v) \/ SendHistory(v) \/ SendLive(v) \/ Leave(v)

Next ==
  \/ Work \/ SaveFinal \/ SetDone \/ Announce \/ Crash
  \/ \E v \in Viewers : Viewer(v)

Spec == Init /\ [][Next]_vars

(* The run's worker runs and each of its steps has a timeout; the handler  *)
(* of a stream runs and its client reads.                                  *)
FairSpec ==
  /\ Spec
  /\ WF_vars(SaveFinal \/ SetDone \/ Announce)
  /\ \A v \in Viewers : WF_vars(SendHistory(v) \/ SendLive(v))

-----------------------------------------------------------------------------
(* Properties.                                                             *)

LastOf(s) == IF s = <<>> THEN 0 ELSE s[Len(s)]

(* What is promised: Logs, Subscribe, log and finish together are a feed   *)
(* that never goes back, never repeats and ends only with the run.         *)
Feed == INSTANCE LogFeed WITH
  over <- done, view <- stream, last <- [v \in Viewers |-> LastOf(shown[v])]
FeedSpec == Feed!Spec

(* Lines without a gap up to the newest one, then terminal lines only.     *)
UpTo(s, newest) ==
  \E n \in 0 .. Len(s) :
    /\ n <= newest /\ (n = 0 => newest = 0)
    /\ \A i \in 1 .. n : s[i] = newest - n + i
    /\ \A i \in n + 1 .. Len(s) : s[i] = Done

(* Subscribe copies the history and registers the channel under one lock   *)
(* (model.go:355): as long as no line was dropped, what a live viewer has  *)
(* seen and will get is without a gap up to the newest line.               *)
Seamless == \A v \in subs : ~dropped[v] => UpTo(shown[v] \o todo[v] \o chan[v], total)

(* A page opened after the run ended always closes, and so does one opened *)
(* before, unless its channel was full at some time.                       *)
EndsUnlessDropped ==
  \A v \in Viewers : stream[v] = "on" ~> stream[v] # "on" \/ dropped[v]
=============================================================================
