------------------------------ MODULE Activity ------------------------------
(***************************************************************************)
(* The activity feed (deploy/activity.go): callers put events into a       *)
(* bounded channel without ever waiting, one goroutine writes them to the  *)
(* table, and a request turns a range of days into the grid: a square for  *)
(* every day, the total, the current and the best streak.  Callers after   *)
(* CloseActivity are DeployQueue's subject.                                *)
(***************************************************************************)
EXTENDS FiniteSetsExt, Sequences, Naturals

CONSTANTS
  LastDay,     \* days are 1 .. LastDay
  ActivityCap, \* the size of the channel
  MaxEvents    \* bounds how many events there are

ASSUME ActivityOK == LastDay \in Nat \ {0} /\ ActivityCap \in Nat /\ MaxEvents \in Nat

VARIABLES
  today,
  events,     \* the channel: the events' days and outcomes
  inHand,     \* what the writer took and has not written: none or one event
  table,      \* the rows, per day and outcome
  lost,       \* events that never got a row, per day and outcome
  happened,   \* all events, per day and outcome
  feedOpen,   \* the channel is open
  grid        \* the summary that is being put together

activityVars == <<today, events, inHand, table, lost, happened, feedOpen, grid>>

Days == 1 .. LastDay
Event == [day : Days, failed : BOOLEAN]
Tally == [Event -> Nat]
NoEvents == [e \in Event |-> 0]
NoGrid == [rows |-> NoEvents, from |-> 1, next |-> 1, to |-> 0, total |-> 0, failed |-> 0,
           max |-> 0, active |-> 0, streak |-> 0, best |-> 0]
Grid ==
  [rows : Tally, from : Days, next : 1 .. LastDay + 1, to : 0 .. LastDay, total : Nat,
   failed : Nat, max : Nat, active : Nat, streak : Nat, best : Nat]

ActivityTypeOK ==
  /\ today \in Days
  /\ events \in Seq(Event) /\ Len(events) <= ActivityCap
  /\ inHand \subseteq Event /\ Cardinality(inHand) <= 1
  /\ table \in Tally /\ lost \in Tally /\ happened \in Tally
  /\ feedOpen \in BOOLEAN
  /\ grid \in Grid

ActivityInit ==
  /\ today = 1
  /\ events = <<>> /\ inHand = {}
  /\ table = NoEvents /\ lost = NoEvents /\ happened = NoEvents
  /\ feedOpen = TRUE
  /\ grid = NoGrid

Count(tally) == MapThenSumSet(LAMBDA e : tally[e], Event)
One(tally, e) == [tally EXCEPT ![e] = @ + 1]

-----------------------------------------------------------------------------
(* logActivity: a full channel loses the event.                            *)
LogActivity ==
  /\ feedOpen
  /\ Count(happened) < MaxEvents
  /\ \E failed \in BOOLEAN :
       LET e == [day |-> today, failed |-> failed] IN
       /\ happened' = One(happened, e)
       /\ IF Len(events) < ActivityCap
          THEN events' = Append(events, e) /\ UNCHANGED lost
          ELSE lost' = One(lost, e) /\ UNCHANGED events
  /\ UNCHANGED <<today, inHand, table, feedOpen, grid>>

(* activityWriter; it goes on until a closed channel is empty.             *)
WriterTakes ==
  /\ events # <<>> /\ inHand = {}
  /\ inHand' = {Head(events)}
  /\ events' = Tail(events)
  /\ UNCHANGED <<today, table, lost, happened, feedOpen, grid>>

(* AddActivity: the row carries the time of the event, not of the insert.  *)
AddActivity ==
  /\ \E e \in inHand :
       \/ table' = One(table, e) /\ UNCHANGED lost
       \/ lost' = One(lost, e) /\ UNCHANGED table
  /\ inHand' = {}
  /\ UNCHANGED <<today, events, happened, feedOpen, grid>>

CloseActivity ==
  /\ feedOpen
  /\ feedOpen' = FALSE
  /\ UNCHANGED <<today, events, inHand, table, lost, happened, grid>>

Waiting(e) == Cardinality({i \in DOMAIN events : events[i] = e})
              + Cardinality(inHand \cap {e})

(* The writer is done or five seconds are over, or the process dies: the   *)
(* rest of the channel is gone.                                            *)
FeedRestarts ==
  /\ lost' = [e \in Event |-> lost[e] + Waiting(e)]
  /\ events' = <<>> /\ inHand' = {}
  /\ feedOpen' = TRUE
  /\ grid' = NoGrid
  /\ UNCHANGED <<today, table, happened>>

NextDay ==
  /\ today < LastDay
  /\ today' = today + 1
  /\ UNCHANGED <<events, inHand, table, lost, happened, feedOpen, grid>>

-----------------------------------------------------------------------------
(* Activity: the year's days up to today, from the account's first one.    *)
(* One statement reads them all.                                           *)
ActivityByDay ==
  /\ grid = NoGrid
  /\ \E from \in 1 .. today : \E to \in from .. today :
       grid' = [NoGrid EXCEPT !.rows = table, !.from = from, !.next = from, !.to = to]
  /\ UNCHANGED <<today, events, inHand, table, lost, happened, feedOpen>>

On(rows, d) == rows[[day |-> d, failed |-> FALSE]] + rows[[day |-> d, failed |-> TRUE]]

(* Mutant of GridDay: an empty day leaves the streak as it is.             *)
GridDayKeeping ==
  LET n == On(grid.rows, grid.next) IN
  /\ grid.next <= grid.to
  /\ grid' = [grid EXCEPT
       !.next = @ + 1, !.total = @ + n,
       !.failed = @ + grid.rows[[day |-> grid.next, failed |-> TRUE]],
       !.max = IF n > @ THEN n ELSE @,
       !.active = IF n > 0 THEN @ + 1 ELSE @,
       !.streak = IF n > 0 THEN @ + 1 ELSE @,
       !.best = IF n > 0 /\ grid.streak + 1 > @ THEN grid.streak + 1 ELSE @]
  /\ UNCHANGED <<today, events, inHand, table, lost, happened, feedOpen>>

(* One round of the loop.                                                  *)
GridDay ==
  LET n == On(grid.rows, grid.next) IN
  /\ grid.next <= grid.to
  /\ grid' = [grid EXCEPT
       !.next = @ + 1, !.total = @ + n,
       !.failed = @ + grid.rows[[day |-> grid.next, failed |-> TRUE]],
       !.max = IF n > @ THEN n ELSE @,
       !.active = IF n > 0 THEN @ + 1 ELSE @,
       !.streak = IF n > 0 THEN @ + 1 ELSE 0,
       !.best = IF n > 0 /\ grid.streak + 1 > @ THEN grid.streak + 1 ELSE @]
  /\ UNCHANGED <<today, events, inHand, table, lost, happened, feedOpen>>

GridAnswered ==
  /\ grid # NoGrid /\ grid.next > grid.to
  /\ grid' = NoGrid
  /\ UNCHANGED <<today, events, inHand, table, lost, happened, feedOpen>>

ActivityNext ==
  \/ LogActivity \/ WriterTakes \/ AddActivity \/ CloseActivity \/ FeedRestarts
  \/ NextDay \/ ActivityByDay \/ GridDay \/ GridAnswered

ActivitySpec == ActivityInit /\ [][ActivityNext]_activityVars

-----------------------------------------------------------------------------
(* What the grid should say of the days before next.                       *)
Seen == grid.from .. grid.next - 1
Active(d) == On(grid.rows, d) > 0
Runs == {r \in Seen \X Seen : r[1] <= r[2] /\ \A d \in r[1] .. r[2] : Active(d)}
Length(r) == r[2] - r[1] + 1

(* The rows of those days, one by one.                                     *)
RowsSeen(outcomes) ==
  UNION {{e} \X (1 .. grid.rows[e]) : e \in {x \in Event : x.day \in Seen /\ x.failed \in outcomes}}

CountsRight ==
  /\ grid.total = Cardinality(RowsSeen(BOOLEAN))
  /\ grid.failed = Cardinality(RowsSeen({TRUE}))
  /\ grid.active = Cardinality({d \in Seen : Active(d)})

StreaksRight ==
  /\ grid.max = Max({On(grid.rows, d) : d \in Seen} \cup {0})
  /\ grid.best = Max({Length(r) : r \in Runs} \cup {0})
  /\ grid.streak = Max({Length(r) : r \in {x \in Runs : x[2] = grid.next - 1}} \cup {0})

EventsKept == \A e \in Event : happened[e] = table[e] + Waiting(e) + lost[e]

(* Every event is in the table on its own day, on its way there, or was    *)
(* dropped where the code says so (activity.go:74-76, 136); and what a     *)
(* grid says of them, the best and the current streak (activity.go:33-35)  *)
(* too, is true of the rows it was made from.                              *)
GridTrue == EventsKept /\ CountsRight /\ StreaksRight
=============================================================================
