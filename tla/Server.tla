------------------------------- MODULE Server -------------------------------
(***************************************************************************)
(* The parts that a server keeps beside its loops.  The enricher makes its *)
(* queries through the handle that the routes share and reset; a query of  *)
(* it is answered or fails as that handle says.  The whitelist is a file,  *)
(* with the scans that leave out what it names, and snapshots are files    *)
(* made through a handle of the ETL run's own: neither shares any state    *)
(* with the others, so a behaviour is about one of them, its scene, and    *)
(* leaves the others alone.                                                *)
(***************************************************************************)
EXTENDS GraphDriver, Enricher, ShadowIt, Snapshots

CONSTANT Worker   \* the enricher, as a caller of the graph driver

ASSUME WorkerAssumption == Worker \in Callers \ Requests

VARIABLE scene

Enriching == <<driverVars, enrichVars>>
Authorizing == <<whitelistVars, shadowVars>>
vars == <<scene, Enriching, Authorizing, snapshotVars>>

Scenes == {"enricher", "whitelist", "scans", "snapshots"}

\* What the scene leaves alone is as it is before anything was done.
Init ==
  /\ scene \in Scenes /\ DriverInit
  /\ EnricherInit /\ (scene # "enricher" => \A n \in Names : node[n].text # "plain")
  /\ ShadowInit /\ WhitelistInit /\ (scene # "whitelist" => wfile = {})
  /\ SnapshotsInit /\ (scene # "snapshots" => DOMAIN graph.nodes = Things)

WorkerAsks == Asks /\ Enter(Worker) /\ UNCHANGED enrichVars
WorkerEnds == \E answered \in BOOLEAN : Ends(Worker, answered) /\ Queries(answered)
WorkerThinks == Thinks /\ Worker \notin Busy /\ UNCHANGED driverVars
WorkerStarts == Start /\ UNCHANGED driverVars
WorkerStops == Stop /\ Worker \notin Busy /\ UNCHANGED driverVars

DriverStep == (Outage \/ Restored \/ \E c \in Callers : Connecting(c)) /\ UNCHANGED enrichVars
RequestStep ==
  /\ \E c \in Requests :
       Enter(c) \/ Leave(c) \/ Reset(c) \/ Ends(c, TRUE) \/ Ends(c, FALSE)
  /\ UNCHANGED enrichVars

EnrichNext ==
  \/ WorkerAsks \/ WorkerEnds \/ WorkerThinks \/ WorkerStarts \/ WorkerStops
  \/ DriverStep \/ RequestStep
  \/ Beside /\ UNCHANGED driverVars

Next ==
  /\ UNCHANGED scene
  /\ \/ scene = "enricher" /\ EnrichNext /\ UNCHANGED <<Authorizing, snapshotVars>>
     \/ scene = "whitelist" /\ AddNext /\ UNCHANGED <<Enriching, snapshotVars>>
     \/ scene = "scans" /\ (AddNext \/ ScanNext) /\ UNCHANGED <<Enriching, snapshotVars>>
     \/ scene = "snapshots" /\ SnapshotsNext /\ UNCHANGED <<Enriching, Authorizing>>

Spec == Init /\ [][Next]_vars

InScene(A) == scene = "enricher" /\ A /\ UNCHANGED <<scene, Authorizing, snapshotVars>>
ByDriver(A) == InScene(A /\ UNCHANGED enrichVars)

\* The goroutines of the server go on, a server that stopped is started
\* again, and Memgraph comes back.
Fairness ==
  /\ WF_vars(InScene(WorkerAsks)) /\ WF_vars(InScene(WorkerEnds))
  /\ WF_vars(InScene(WorkerThinks)) /\ WF_vars(InScene(WorkerStarts))
  /\ WF_vars(ByDriver(Restored))
  /\ \A c \in Callers :
       /\ WF_vars(ByDriver(Connecting(c)))
       /\ WF_vars(ByDriver(c \in Requests /\ (GiveUp(c) \/ Reset(c))))

FairSpec == Spec /\ Fairness

TypeOK ==
  /\ DriverTypeOK /\ EnricherTypeOK /\ SnapshotsTypeOK
  /\ WhitelistTypeOK /\ ShadowTypeOK
  /\ scene \in Scenes
-----------------------------------------------------------------------------
(* Every eligible name comes to have a category or a cooldown and keeps it *)
(* once Memgraph and Wikipedia answer, whatever outages, requests left by  *)
(* their callers, resets by routes, failed queries and restarts there were *)
(* before: no name without an article keeps the others out of the batches  *)
(* for ever (runTick, pickUncategorized, markMiss and graphdb's Driver and *)
(* Reset).                                                                 *)
EveryNameSettled == scene = "enricher" => <>[]AllSettled

\* Callers who share, lose, leave and reset one handle have one driver among
\* them, their calls fail for a cause, and an error of one's query is no cause
\* to take the driver from another (graphdb's Driver, Reset and retries; the
\* route's errors).
DriverShared == OneDriver /\ FailsForCause /\ ErrorsDisturbNobody

\* Of two writers of one name, neither puts it on a cooldown that nothing
\* justifies nor clears what the gate would pass (markMiss, the purge).
NamesKept == CooledForCause /\ GatedKept

\* A scan, fresh or from the cache, shows the whitelist and the graph as they
\* are (serve of the Shadow IT scan).
ScansCurrent == ApprovalShown /\ AnswerFresh

\* What was written of the graph is whole, kept, listed in order, and differs by
\* what the diff says (internal/snapshot).
SnapshotsHold == EdgesHaveEnds /\ NewestKept /\ WholeBeforeOlder /\ DiffReplays
=============================================================================
