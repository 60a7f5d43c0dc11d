----------------------------- MODULE JobServer -----------------------------
(***************************************************************************)
(* What the deploy service promises of a run, without handlers, channel,   *)
(* workers and mutexes: a job is submitted once and worked on at most      *)
(* once, while it has the server it needs to itself; it has one outcome    *)
(* for ever, and gives the server back when it has it.  A job without an   *)
(* outcome is lost when the process dies, and only then; what it held is   *)
(* free again.                                                             *)
(***************************************************************************)
CONSTANTS Jobs, Servers, None

VARIABLES
  job,      \* job -> how far it is
  needs,    \* job -> the server it must have to itself, None for a bot's
  holder    \* server -> the job that has it, or None

vars == <<job, needs, holder>>

Outcomes == {"success", "failed"}
Free(s) == holder[s] = None

Init ==
  /\ job = [j \in Jobs |-> "unused"]
  /\ needs = [j \in Jobs |-> None]
  /\ holder = [s \in Servers |-> None]

Submit(j, s) ==
  /\ job[j] = "unused"
  /\ job' = [job EXCEPT ![j] = "queued"]
  /\ needs' = [needs EXCEPT ![j] = s]
  /\ UNCHANGED holder

Occupy(j) ==
  /\ job[j] = "queued" /\ needs[j] # None /\ Free(needs[j])
  /\ holder' = [holder EXCEPT ![needs[j]] = j]
  /\ UNCHANGED <<job, needs>>

Start(j) ==
  /\ job[j] = "queued" /\ (needs[j] # None => holder[needs[j]] = j)
  /\ job' = [job EXCEPT ![j] = "running"]
  /\ UNCHANGED <<needs, holder>>

End(j, outcome) ==
  /\ job[j] = "running" /\ (needs[j] # None => holder[needs[j]] = j)
  /\ job' = [job EXCEPT ![j] = outcome]
  /\ UNCHANGED <<needs, holder>>

Release(j) ==
  /\ job[j] \in Outcomes /\ needs[j] # None /\ holder[needs[j]] = j
  /\ holder' = [holder EXCEPT ![needs[j]] = None]
  /\ UNCHANGED <<job, needs>>

Die ==
  /\ job' = [j \in Jobs |-> IF job[j] \in {"queued", "running"} THEN "lost" ELSE job[j]]
  /\ holder' = [s \in Servers |-> None]
  /\ UNCHANGED needs

Next ==
  \/ \E j \in Jobs :
       \/ \E s \in Servers \cup {None} : Submit(j, s)
       \/ Occupy(j) \/ Start(j) \/ Release(j)
       \/ \E outcome \in Outcomes : End(j, outcome)
  \/ Die

Spec == Init /\ [][Next]_vars
=============================================================================
