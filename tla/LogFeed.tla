------------------------------ MODULE LogFeed ------------------------------
(***************************************************************************)
(* What the log page of a run promises a viewer: each line is later than   *)
(* the one shown before it, no line is shown before the run logged it, and *)
(* the stream is closed by the service only when the run is over.  Lines   *)
(* may be missing: a slow viewer never holds up a deploy.                  *)
(***************************************************************************)
EXTENDS Naturals

CONSTANT Viewers

VARIABLES
  total,   \* lines logged so far
  over,    \* the run has ended
  view,    \* viewer -> "away", "on", "ended"
  last     \* viewer -> number of the line shown last, 0 for none

vars == <<total, over, view, last>>

Init ==
  /\ total = 0 /\ over = FALSE
  /\ view = [v \in Viewers |-> "away"]
  /\ last = [v \in Viewers |-> 0]

Log == ~over /\ total' = total + 1 /\ UNCHANGED <<over, view, last>>

Finish == over' = TRUE /\ UNCHANGED <<total, view, last>>

Open(v) ==
  /\ view[v] # "on"
  /\ view' = [view EXCEPT ![v] = "on"]
  /\ last' = [last EXCEPT ![v] = 0]
  /\ UNCHANGED <<total, over>>

Show(v, n) ==
  /\ view[v] = "on" /\ last[v] < n /\ n <= total
  /\ last' = [last EXCEPT ![v] = n]
  /\ UNCHANGED <<total, over, view>>

End(v) ==
  /\ view[v] = "on" /\ over
  /\ view' = [view EXCEPT ![v] = "ended"]
  /\ last' = [last EXCEPT ![v] = 0]
  /\ UNCHANGED <<total, over>>

Leave(v) ==
  /\ view[v] = "on"
  /\ view' = [view EXCEPT ![v] = "away"]
  /\ UNCHANGED <<total, over, last>>

(* The process dies: every stream breaks off and the run is over.          *)
Crash ==
  /\ over' = TRUE
  /\ view' = [v \in Viewers |-> "away"]
  /\ UNCHANGED <<total, last>>

Next ==
  \/ Log \/ Finish \/ Crash
  \/ \E v \in Viewers : Open(v) \/ End(v) \/ Leave(v) \/ \E n \in 1..total : Show(v, n)

Spec == Init /\ [][Next]_vars
=============================================================================
