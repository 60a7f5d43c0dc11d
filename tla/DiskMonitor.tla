----------------------------- MODULE DiskMonitor -----------------------------
(***************************************************************************)
(* The disk monitor (deploy/diskmon.go): rounds in which one goroutine per *)
(* monitored server, a few at a time, measures the disk over ssh, looks    *)
(* whether the server was reported, stores the new state and sends a       *)
(* notice.  The look and the store are two calls; that no two goroutines   *)
(* have the same server lies in the query and in the round that waits.     *)
(***************************************************************************)
EXTENDS FiniteSets, Naturals

CONSTANTS
  Sites,       \* successful deployments with a key, of paying owners
  Machines,    \* server addresses
  HostOf,      \* site -> the machine it is deployed on
  Pollers      \* diskCheckWorkers

ASSUME DisksOK == HostOf \in [Sites -> Machines] /\ Pollers \in Nat \ {0}

VARIABLES
  disk,        \* machine -> "low" (below 85 %), "mid", "full" (90 % and more)
  probe,       \* site -> its goroutine in the round that goes on
  diskAlerted, \* machine -> whether "full" was the last thing reported
  dipped       \* machine -> whether its disk was low when this process last
               \* reported it full or later, or it was not reported yet

diskVars == <<disk, probe, diskAlerted, dipped>>

Levels == {"low", "mid", "full"}
NoProbe == [at |-> "none", pct |-> "low"]
Probe == [at : {"none", "queued", "ssh", "measured", "send full", "send ok"}, pct : Levels]

DiskTypeOK ==
  /\ disk \in [Machines -> Levels]
  /\ probe \in [Sites -> Probe]
  /\ diskAlerted \in [Machines -> BOOLEAN] /\ dipped \in [Machines -> BOOLEAN]

Polling == {s \in Sites : probe[s].at \notin {"none", "queued"}}
RoundOver == \A s \in Sites : probe[s].at = "none"

NoRound == [s \in Sites |-> NoProbe]
ForAll(b) == [m \in Machines |-> b]

DiskInit ==
  /\ disk = [m \in Machines |-> "low"]
  /\ probe = NoRound
  /\ diskAlerted = ForAll(FALSE) /\ dipped = ForAll(TRUE)

-----------------------------------------------------------------------------
(* Mutant of MonitoredServers: a row for every site.                       *)
MonitoredSites == SUBSET Sites

(* The rows of the query: one per machine, for the machines that have a    *)
(* site whose plan is active.                                              *)
MonitoredServers ==
  {R \in SUBSET Sites : \A s, t \in R : HostOf[s] = HostOf[t] => s = t}

(* checkDisks; it waits for all its goroutines before the next tick.       *)
StartRound ==
  /\ RoundOver
  /\ \E R \in MonitoredServers :
       probe' = [s \in Sites |-> IF s \in R THEN [NoProbe EXCEPT !.at = "queued"] ELSE NoProbe]
  /\ UNCHANGED <<disk, diskAlerted, dipped>>

Acquire(s) ==
  /\ probe[s].at = "queued"
  /\ Cardinality(Polling) < Pollers
  /\ probe' = [probe EXCEPT ![s].at = "ssh"]
  /\ UNCHANGED <<disk, diskAlerted, dipped>>

(* serverDiskPct: the disk as it is now, or no answer.                     *)
Measure(s) ==
  /\ probe[s].at = "ssh"
  /\ probe' \in {[probe EXCEPT ![s] = [at |-> "measured", pct |-> disk[HostOf[s]]]],
                 [probe EXCEPT ![s] = NoProbe]}
  /\ UNCHANGED <<disk, diskAlerted, dipped>>

(* Load, the switch and Store: both thresholds, so that a disk between     *)
(* them changes nothing.  The notice follows.                              *)
Decide(s) ==
  LET m == HostOf[s]
      pct == probe[s].pct
  IN /\ probe[s].at = "measured"
     /\ \/ /\ pct = "full" /\ ~diskAlerted[m]
           /\ diskAlerted' = [diskAlerted EXCEPT ![m] = TRUE]
           /\ probe' = [probe EXCEPT ![s].at = "send full"]
        \/ /\ pct = "low" /\ diskAlerted[m]
           /\ diskAlerted' = [diskAlerted EXCEPT ![m] = FALSE]
           /\ probe' = [probe EXCEPT ![s].at = "send ok"]
        \/ /\ pct # (IF diskAlerted[m] THEN "low" ELSE "full")
           /\ probe' = [probe EXCEPT ![s] = NoProbe]
           /\ UNCHANGED diskAlerted
     /\ UNCHANGED <<disk, dipped>>

NotifyServer(s) ==
  /\ probe[s].at \in {"send full", "send ok"}
  /\ dipped' = IF probe[s].at = "send full"
               THEN [dipped EXCEPT ![HostOf[s]] = disk[HostOf[s]] = "low"] ELSE dipped
  /\ probe' = [probe EXCEPT ![s] = NoProbe]
  /\ UNCHANGED <<disk, diskAlerted>>
-----------------------------------------------------------------------------
(* Somebody else fills the disk or cleans it up.                           *)
DiskChanges ==
  /\ \E m \in Machines, level \in Levels :
       /\ disk[m] # level
       /\ disk' = [disk EXCEPT ![m] = level]
       /\ dipped' = [dipped EXCEPT ![m] = dipped[m] \/ level = "low"]
  /\ UNCHANGED <<probe, diskAlerted>>

(* The process is restarted: what was reported is forgotten with it.       *)
MonitorRestarts ==
  /\ probe' = NoRound
  /\ diskAlerted' = ForAll(FALSE) /\ dipped' = ForAll(TRUE)
  /\ UNCHANGED disk

DiskNext ==
  \/ DiskChanges \/ MonitorRestarts \/ StartRound
  \/ \E s \in Sites : Acquire(s) \/ Measure(s) \/ Decide(s) \/ NotifyServer(s)

DiskSpec == DiskInit /\ [][DiskNext]_diskVars

-----------------------------------------------------------------------------
(* "one alert per server rather than one per project", with hysteresis     *)
(* (diskmon.go:71-73): while the process lives, a machine is reported full *)
(* again only if its disk was really below the lower threshold when the    *)
(* report before went out, or after it.                                    *)
FullOnlyAfterDip ==
  \A s \in Sites : probe[s].at = "send full" => dipped[HostOf[s]]
=============================================================================
