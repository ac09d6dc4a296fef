------------------------------ MODULE EtlIngest ------------------------------
(***************************************************************************)
(* One incremental ETL run after another: what runLocked (internal/etl)    *)
(* extracts from Fleet, what CreateGraphRelationships (internal/ingest)    *)
(* writes to the graph, and when the per-team watermark in .state.json     *)
(* moves.  The runs are already serialised by .etl.lock (module StateFile  *)
(* is about that lock); here Fleet keeps changing while a run walks it,    *)
(* queries fail one by one, and the process may die between any two steps. *)
(*                                                                         *)
(* Time is a counter.  0 stands for "no timestamp", which is also how the  *)
(* code treats an absent watermark or an absent software_updated_at.       *)
(***************************************************************************)
EXTENDS Naturals, FiniteSets

CONSTANTS
  Hosts,      \* Fleet host ids
  Software,   \* software names
  Teams,      \* Fleet teams
  HostTeam,   \* the team of each host (fixed: transfers are not modelled)
  MaxTime,    \* bound on the clock
  hostBatchSize, softwareGroupFlush,  \* hosts per batch
  Margin,     \* watermarkSkewMargin
  Skew,       \* how far this machine's clock may be ahead of Fleet's
  ReapAge,    \* HostReapAgeSeconds
  HostReap,   \* ~cfg.SkipHostReap
  Changes,    \* what may happen in Fleet, a subset of ChangeKinds
  Faults,     \* which queries or processes may fail, a subset of FaultKinds
  QuietFrom   \* when failures stop (for liveness; beyond MaxTime: never)

(***************************************************************************)
(* "users", "hosts", "nodes", "delete", "rels", "stamp", "emptied": an     *)
(* execRetry that gave up on that query.  "prefetch": the swSynced read    *)
(* failed.  "page": a /hosts page could not be fetched.  "shift": a host   *)
(* left Fleet between two pages, so the offset of the next page skips one. *)
(* "reap": a reap query failed.  "save": SaveState failed.  "crash": the   *)
(* process dies, its context is cancelled, Fleet's users cannot be read or *)
(* Memgraph becomes unavailable.                                           *)
(***************************************************************************)
FaultKinds == {"users", "hosts", "nodes", "delete", "rels", "stamp",
               "emptied", "prefetch", "page", "shift", "reap", "save", "crash"}

ChangeKinds == {"enroll", "report", "refresh", "leave"}

ASSUME HostTeamAssumption == HostTeam \in [Hosts -> Teams]
ASSUME TimeAssumption == /\ MaxTime \in Nat \ {0}
                         /\ Margin \in Nat
                         /\ Skew \in Nat
                         /\ ReapAge \in Nat
                         /\ QuietFrom \in Nat
ASSUME BatchAssumption == /\ hostBatchSize \in Nat \ {0}
                          /\ softwareGroupFlush \in Nat \ {0}
\* Fleet's clock and ours differ by less than the margin the code backs off.
ASSUME SkewAssumption == Skew < Margin
ASSUME ReapAssumption == HostReap \in BOOLEAN
ASSUME ChangesAssumption == Changes \subseteq ChangeKinds
ASSUME FaultsAssumption == Faults \subseteq FaultKinds

VARIABLES
  clock,        \* Fleet's clock
  enrolled,     \* the hosts Fleet reports
  updatedAt,    \* updated_at of each host
  swAt,         \* software_updated_at of each host
  software,     \* the software Fleet lists for each host
  node,         \* the hosts with a :Host node
  edges,        \* INSTALLED_ON edges of each host
  stamp,        \* fleet_software_updated_at_synced
  ingested,     \* last_ingest_iso
  watermark,    \* team_syncs of .state.json
  pc,           \* where the run is
  full,         \* cfg.FullScan
  scope,        \* cfg.TeamIDs
  watermarkTS,  \* the watermark this run saves if it completes
  nowISO,       \* when this run's ingest began
  swSynced,     \* the stamps read when the ingest began
  toRead,       \* hosts of the scope the walk has not reached
  truncated,    \* truncErr # nil
  rec,          \* the software and timestamp read for a host
  hostBatch,    \* hosts whose row is not written
  swGrouped,    \* hosts whose software is not written
  emptySWHosts, \* hosts to strip of their edges at the end
  chunk,        \* progress of a host through batchCreateSoftwareGrouped
  failed        \* FailedSoftwareHostIDs

fleetVars == <<clock, enrolled, updatedAt, swAt, software>>
graphVars == <<node, edges, stamp, ingested>>
cfgVars   == <<full, scope, watermarkTS, nowISO, swSynced>>
walkVars  == <<toRead, truncated, rec>>
batchVars == <<hostBatch, swGrouped, emptySWHosts, chunk>>
vars == <<fleetVars, graphVars, watermark, pc, cfgVars, walkVars, batchVars,
          failed>>

Time == 0 .. MaxTime
Record == [sw : SUBSET Software, at : Time]

TypeOK ==
  /\ clock \in Time /\ enrolled \subseteq Hosts
  /\ updatedAt \in [Hosts -> Time] /\ swAt \in [Hosts -> Time]
  /\ software \in [Hosts -> SUBSET Software]
  /\ node \subseteq Hosts /\ edges \in [Hosts -> SUBSET Software]
  /\ stamp \in [Hosts -> Time] /\ ingested \in [Hosts -> Nat]
  /\ watermark \in [Teams -> Nat]
  /\ pc \in {"idle", "fetch", "stream", "chunks", "reap", "sweep", "save"}
  /\ full \in BOOLEAN /\ scope \subseteq Teams
  /\ watermarkTS \in Nat /\ nowISO \in Nat
  /\ swSynced \in [Hosts -> Time]
  /\ toRead \subseteq Hosts /\ truncated \in BOOLEAN
  /\ rec \in [Hosts -> Record]
  /\ hostBatch \subseteq Hosts /\ swGrouped \subseteq Hosts
  /\ emptySWHosts \subseteq Hosts
  /\ chunk \in [Hosts -> {"none", "queued", "pruned", "linked"}]
  /\ failed \subseteq Hosts

(***************************************************************************)
(* A graph and a state file as clear-db leaves them, and a Fleet whose     *)
(* hosts have reported their software.                                     *)
(***************************************************************************)
NoRecord == [sw |-> {}, at |-> 0]

Init ==
  /\ clock = 1 /\ enrolled \in SUBSET Hosts
  /\ updatedAt = [h \in Hosts |-> IF h \in enrolled THEN 1 ELSE 0]
  /\ swAt = updatedAt
  /\ software \in [Hosts -> SUBSET Software]
  /\ \A h \in Hosts \ enrolled : software[h] = {}
  /\ node = {} /\ edges = [h \in Hosts |-> {}]
  /\ stamp = [h \in Hosts |-> 0] /\ ingested = [h \in Hosts |-> 0]
  /\ watermark = [t \in Teams |-> 0]
  /\ pc = "idle" /\ full = FALSE /\ scope = {}
  /\ watermarkTS = 0 /\ nowISO = 0
  /\ swSynced = [h \in Hosts |-> 0]
  /\ toRead = {} /\ truncated = FALSE /\ rec = [h \in Hosts |-> NoRecord]
  /\ hostBatch = {} /\ swGrouped = {} /\ emptySWHosts = {}
  /\ chunk = [h \in Hosts |-> "none"]
  /\ failed = {}

\* A query, request or process of kind k fails.
Fails(k) == k \in Faults /\ clock < QuietFrom

-----------------------------------------------------------------------------
(***************************************************************************)
(* Fleet.  A host changes at most once per tick, which keeps the model     *)
(* finite; a host that never enrolled has updatedAt 0, and ids are not     *)
(* used twice.                                                             *)
(***************************************************************************)
notRead == <<graphVars, watermark, pc, cfgVars, truncated, rec, batchVars,
             failed>>
etlVars == <<notRead, toRead>>

\* A delta walk goes newest first: a host that changes meanwhile moves in
\* front of the pages already fetched, and this walk may not meet it.
MovesToFront(h) ==
  \/ UNCHANGED toRead
  \/ pc = "stream" /\ ~full /\ toRead' = toRead \ {h}

\* No run lasts as long as HostReapAgeSeconds (seven days by default).
RunShorterThanReapAge == pc \notin {"idle", "fetch"} => clock < nowISO + ReapAge

Tick ==
  /\ clock < MaxTime
  /\ RunShorterThanReapAge
  /\ clock' = clock + 1
  /\ UNCHANGED <<enrolled, updatedAt, swAt, software, etlVars>>

Enroll(h) ==
  /\ "enroll" \in Changes
  /\ h \notin enrolled /\ updatedAt[h] = 0
  /\ enrolled' = enrolled \cup {h}
  /\ updatedAt' = [updatedAt EXCEPT ![h] = clock]
  /\ MovesToFront(h)
  /\ UNCHANGED <<clock, swAt, software, notRead>>

\* The host sends an inventory.
Report(h, S) ==
  /\ "report" \in Changes
  /\ h \in enrolled /\ updatedAt[h] < clock
  /\ updatedAt' = [updatedAt EXCEPT ![h] = clock]
  /\ swAt' = [swAt EXCEPT ![h] = clock]
  /\ software' = [software EXCEPT ![h] = S]
  /\ MovesToFront(h)
  /\ UNCHANGED <<clock, enrolled, notRead>>

\* Anything else about the host changes.
Refresh(h) ==
  /\ "refresh" \in Changes
  /\ h \in enrolled /\ updatedAt[h] < clock
  /\ updatedAt' = [updatedAt EXCEPT ![h] = clock]
  /\ MovesToFront(h)
  /\ UNCHANGED <<clock, enrolled, swAt, software, notRead>>

\* With "shift", the host x that was first on the next page moves to the page
\* already fetched when h, which the walk has passed, leaves.
Leave(h) ==
  /\ "leave" \in Changes
  /\ h \in enrolled
  /\ enrolled' = enrolled \ {h}
  /\ \/ UNCHANGED toRead
     \/ /\ Fails("shift") /\ pc = "stream"
        /\ HostTeam[h] \in scope /\ h \notin toRead
        /\ \E x \in toRead : /\ HostTeam[x] = HostTeam[h]
                             /\ toRead' = toRead \ {x}
  /\ UNCHANGED <<clock, updatedAt, swAt, software, notRead>>

Fleet ==
  \/ Tick
  \/ \E h \in Hosts : \/ Enroll(h) \/ Refresh(h) \/ Leave(h)
                      \/ \E S \in SUBSET Software : Report(h, S)

-----------------------------------------------------------------------------
(***************************************************************************)
(* The run: LoadState, the watermark candidate, then the walk of the       *)
(* scope's hosts.                                                          *)
(***************************************************************************)
ResetRun ==
  /\ pc' = "idle" /\ full' = FALSE /\ scope' = {}
  /\ watermarkTS' = 0 /\ nowISO' = 0
  /\ swSynced' = [h \in Hosts |-> 0]
  /\ toRead' = {} /\ truncated' = FALSE
  /\ rec' = [h \in Hosts |-> NoRecord]
  /\ hostBatch' = {} /\ swGrouped' = {} /\ emptySWHosts' = {}
  /\ chunk' = [h \in Hosts |-> "none"]
  /\ failed' = {}

Monus(a, b) == IF a > b THEN a - b ELSE 0

\* The skew margin is forgotten.
BackedOffNone(now) == now
\* now.Add(-watermarkSkewMargin)
BackedOff(now) == Monus(now, Margin)

\* This machine's clock may read anything within Skew of Fleet's.
LocalClock == {now \in 0 .. (clock + Skew) : clock <= now + Skew}

PrefetchedPartial == [h \in {x \in Hosts : edges[x] # {}} |-> stamp[h]]
\* The prefetch returns the stamps of the hosts that have a software edge; a
\* failed one leaves the map empty.
Prefetched == [h \in Hosts |-> IF edges[h] # {} THEN stamp[h] ELSE 0]

\* The watermark candidate comes first; users and labels are fetched next.
runLocked(T, f) ==
  /\ pc = "idle" /\ T # {}
  /\ pc' = "fetch" /\ full' = f /\ scope' = T
  /\ \E now \in LocalClock : watermarkTS' = BackedOff(now)
  /\ UNCHANGED <<fleetVars, graphVars, watermark, nowISO, swSynced, walkVars,
                 batchVars, failed>>

CreateGraphRelationships ==
  /\ pc = "fetch"
  /\ pc' = "stream"
  /\ nowISO' = clock
  /\ \/ swSynced' = Prefetched
     \/ Fails("prefetch") /\ swSynced' = [h \in Hosts |-> 0]
  /\ toRead' = {h \in Hosts : HostTeam[h] \in scope}
  /\ UNCHANGED <<fleetVars, graphVars, watermark, full, scope, watermarkTS,
                 truncated, rec, batchVars, failed>>

\* The watermark a delta walk stops at; a full scan has none.
Since(h) == IF full THEN 0 ELSE watermark[HostTeam[h]]

Yielded(h) == h \in enrolled /\ updatedAt[h] > Since(h)

(***************************************************************************)
(* What to do with the software of a host just read: nothing when Fleet's  *)
(* timestamp is the one stored, a prune when Fleet re-inventoried and now  *)
(* lists nothing, a rewrite when there is something to write.              *)
(***************************************************************************)
UnchangedIfStamped(h) == swSynced[h] # 0  \* any stamp will do
Unchanged(h) == swAt[h] # 0 /\ swSynced[h] = swAt[h]
EmptiedIfSameTime(h) ==  \* the timestamp test is inverted
  software[h] = {} /\ swAt[h] # 0 /\ swSynced[h] = swAt[h]
Emptied(h) == /\ ~Unchanged(h)
              /\ software[h] = {} /\ swAt[h] # 0 /\ swSynced[h] # 0
Rewritten(h) == ~Unchanged(h) /\ software[h] # {}

hostsFull == Cardinality(hostBatch) >= hostBatchSize
swFull == Cardinality(swGrouped) >= softwareGroupFlush

ReadHost(h) ==
  /\ pc = "stream" /\ h \in toRead /\ Yielded(h)
  /\ ~hostsFull /\ ~swFull
  /\ toRead' = toRead \ {h}
  /\ rec' = IF Emptied(h) \/ Rewritten(h)
              THEN [rec EXCEPT ![h] = [sw |-> software[h], at |-> swAt[h]]]
              ELSE rec
  /\ hostBatch' = hostBatch \cup {h}
  /\ emptySWHosts' = IF Emptied(h) THEN emptySWHosts \cup {h}
                                   ELSE emptySWHosts
  /\ swGrouped' = IF Rewritten(h) THEN swGrouped \cup {h} ELSE swGrouped
  /\ UNCHANGED <<fleetVars, graphVars, watermark, pc, cfgVars, truncated,
                 chunk, failed>>

\* A host the walk does not yield: gone from Fleet, or filterHosts stopped at
\* its timestamp.
PassOver(h) ==
  /\ pc = "stream" /\ h \in toRead /\ ~Yielded(h)
  /\ toRead' = toRead \ {h}
  /\ UNCHANGED <<fleetVars, graphVars, watermark, pc, cfgVars, truncated, rec,
                 batchVars, failed>>

\* The hosts read so far are still flushed; the run then ends in truncErr.
PageFails ==
  /\ Fails("page")
  /\ pc = "stream" /\ toRead # {}
  /\ toRead' = {} /\ truncated' = TRUE
  /\ UNCHANGED <<fleetVars, graphVars, watermark, pc, cfgVars, rec, batchVars,
                 failed>>

-----------------------------------------------------------------------------
(***************************************************************************)
(* Flushes: when a batch is full and when the walk is over, hosts always   *)
(* before users and software.  The users are not counted, so the batch of  *)
(* users may be the full one after any host.                               *)
(***************************************************************************)
batchCreateHosts ==
  /\ pc = "stream" /\ hostBatch # {}
  /\ \/ /\ node' = node \cup hostBatch
        /\ ingested' = [h \in Hosts |->
                          IF h \in hostBatch THEN nowISO ELSE ingested[h]]
        /\ UNCHANGED failed
     \/ /\ Fails("hosts")
        /\ failed' = failed \cup hostBatch
        /\ UNCHANGED <<node, ingested>>
  /\ hostBatch' = {}
  /\ UNCHANGED <<fleetVars, edges, stamp, watermark, pc, cfgVars, walkVars,
                 swGrouped, emptySWHosts, chunk>>

\* USES edges are not modelled: all a failed batch of them does is mark its
\* hosts, and that is read when the run ends.
batchCreateUserRelationshipsFails(h) ==
  /\ Fails("users")
  /\ pc = "stream" /\ hostBatch = {}
  /\ HostTeam[h] \in scope
  /\ failed' = failed \cup {h}
  /\ UNCHANGED <<fleetVars, graphVars, watermark, pc, cfgVars, walkVars,
                 batchVars>>

\* batchCreateSoftwareGrouped: the Software nodes first.  When they fail the
\* hosts are marked and their edges left alone.
MergeSoftwareNodes ==
  /\ pc = "stream" /\ hostBatch = {} /\ swGrouped # {}
  /\ swFull \/ toRead = {}
  /\ \/ /\ chunk' = [h \in Hosts |-> IF h \in swGrouped THEN "queued"
                                                       ELSE "none"]
        /\ pc' = "chunks"
        /\ UNCHANGED failed
     \/ /\ Fails("nodes")
        /\ failed' = failed \cup swGrouped
        /\ UNCHANGED <<pc, chunk>>
  /\ swGrouped' = {}
  /\ UNCHANGED <<fleetVars, graphVars, watermark, cfgVars, walkVars,
                 hostBatch, emptySWHosts>>

(***************************************************************************)
(* runChunk, one host at a time: chunks run in parallel, so their queries  *)
(* interleave, and the finest chunk is a host.  A query on a host without  *)
(* a node matches nothing.                                                 *)
(***************************************************************************)
Kept(h) == edges[h] \cap rec[h].sw

DeleteStaleRels(h) ==
  /\ chunk[h] = "queued"
  /\ edges' = [edges EXCEPT ![h] = Kept(h)]
  /\ chunk' = [chunk EXCEPT ![h] = "pruned"]
  /\ UNCHANGED <<fleetVars, node, stamp, ingested, watermark, pc, cfgVars,
                 walkVars, hostBatch, swGrouped, emptySWHosts, failed>>

MergeRels(h) ==
  /\ chunk[h] = "pruned"
  /\ edges' = IF h \in node THEN [edges EXCEPT ![h] = @ \cup rec[h].sw]
                            ELSE edges
  /\ chunk' = [chunk EXCEPT ![h] = "linked"]
  /\ UNCHANGED <<fleetVars, node, stamp, ingested, watermark, pc, cfgVars,
                 walkVars, hostBatch, swGrouped, emptySWHosts, failed>>

ChunkFails(h) ==
  /\ \/ chunk[h] = "queued" /\ Fails("delete")
     \/ chunk[h] = "pruned" /\ Fails("rels")
  /\ chunk' = [chunk EXCEPT ![h] = "none"]
  /\ rec' = [rec EXCEPT ![h] = NoRecord]
  /\ failed' = failed \cup {h}
  /\ UNCHANGED <<fleetVars, graphVars, watermark, pc, cfgVars, toRead,
                 truncated, hostBatch, swGrouped, emptySWHosts>>

SyncedNow(h) == clock  \* when it was written, not when it was reported
SyncedAt(h) == rec[h].at

\* A failed stamp is only logged.
MarkSynced(h) ==
  /\ chunk[h] = "linked"
  /\ \/ h \in node /\ stamp' = [stamp EXCEPT ![h] = SyncedAt(h)]
     \/ h \notin node /\ UNCHANGED stamp
     \/ Fails("stamp") /\ UNCHANGED stamp
  /\ chunk' = [chunk EXCEPT ![h] = "none"]
  /\ rec' = [rec EXCEPT ![h] = NoRecord]
  /\ UNCHANGED <<fleetVars, node, edges, ingested, watermark, pc, cfgVars,
                 toRead, truncated, hostBatch, swGrouped, emptySWHosts,
                 failed>>

ChunksDone ==
  /\ pc = "chunks" /\ \A h \in Hosts : chunk[h] = "none"
  /\ pc' = "stream"
  /\ UNCHANGED <<fleetVars, graphVars, watermark, cfgVars, walkVars,
                 batchVars, failed>>

ReapAnyway == "reap"  \* truncErr is not consulted
\* A walk that was cut short ends the run before the reaps.
AfterIngest == IF truncated THEN "save" ELSE "reap"

\* The last query of the ingest.  Its failure is neither returned nor marked.
PruneEmptied ==
  /\ pc = "stream" /\ toRead = {} /\ hostBatch = {} /\ swGrouped = {}
  /\ \/ /\ edges' = [h \in Hosts |-> IF h \in emptySWHosts THEN {} ELSE edges[h]]
        /\ stamp' = [h \in Hosts |-> IF h \in emptySWHosts \cap node
                                     THEN rec[h].at ELSE stamp[h]]
     \/ Fails("emptied") /\ emptySWHosts # {} /\ UNCHANGED <<edges, stamp>>
  /\ emptySWHosts' = {}
  /\ pc' = AfterIngest
  /\ UNCHANGED <<fleetVars, node, ingested, watermark, cfgVars, walkVars,
                 hostBatch, swGrouped, chunk, failed>>

-----------------------------------------------------------------------------
(***************************************************************************)
(* After the ingest: both reaps are best effort, and the watermark of      *)
(* every team of the scope moves only if the walk was complete and no host *)
(* was marked.                                                             *)
(***************************************************************************)
Stale(h) == h \in node /\ HostTeam[h] \in scope /\ ingested[h] + ReapAge < clock

Drop(S) ==
  /\ node' = node \ S
  /\ edges' = [h \in Hosts |-> IF h \in S THEN {} ELSE edges[h]]
  /\ stamp' = [h \in Hosts |-> IF h \in S THEN 0 ELSE stamp[h]]
  /\ ingested' = [h \in Hosts |-> IF h \in S THEN 0 ELSE ingested[h]]

ReapStaleHosts ==
  /\ pc = "reap"
  /\ \/ full /\ HostReap /\ Drop({h \in Hosts : Stale(h)})
     \/ ~(full /\ HostReap) /\ UNCHANGED graphVars
     \/ Fails("reap") /\ UNCHANGED graphVars
  /\ pc' = "sweep"
  /\ UNCHANGED <<fleetVars, watermark, cfgVars, walkVars, batchVars, failed>>

\* Hosts with no edge of any kind; labels and users are not modelled, so any
\* set of hosts without software may be the one.
ReapUnattached ==
  /\ pc = "sweep"
  /\ \E S \in SUBSET {h \in node : edges[h] = {}} : Drop(S)
  /\ pc' = "save"
  /\ UNCHANGED <<fleetVars, watermark, cfgVars, walkVars, batchVars, failed>>

CompleteIfWalked == ~truncated  \* FailedSoftwareHostIDs is not consulted
Complete == ~truncated /\ failed = {}

SaveWatermark ==
  /\ pc = "save"
  /\ \/ /\ Complete
        /\ watermark' = [t \in Teams |-> IF t \in scope THEN watermarkTS
                                                       ELSE watermark[t]]
     \/ /\ ~Complete \/ Fails("save")
        /\ UNCHANGED watermark
  /\ ResetRun
  /\ UNCHANGED <<fleetVars, graphVars>>

\* The graph and the state file keep what was written.
Crash ==
  /\ Fails("crash") /\ pc # "idle"
  /\ ResetRun
  /\ UNCHANGED <<fleetVars, graphVars, watermark>>

Chunk(h) == \/ DeleteStaleRels(h) \/ MergeRels(h) \/ ChunkFails(h)
            \/ MarkSynced(h)

Run ==
  \/ \E h \in Hosts : ReadHost(h) \/ PassOver(h) \/ Chunk(h)
  \/ CreateGraphRelationships
  \/ batchCreateHosts \/ MergeSoftwareNodes \/ ChunksDone \/ PruneEmptied
  \/ ReapStaleHosts \/ ReapUnattached \/ SaveWatermark

Next ==
  \/ Fleet
  \/ \E T \in SUBSET Teams, f \in BOOLEAN : runLocked(T, f)
  \/ Run
  \/ PageFails
  \/ \E h \in Hosts : batchCreateUserRelationshipsFails(h)
  \/ Crash

Spec == Init /\ [][Next]_vars

(***************************************************************************)
(* Time passes, a run that can take a step takes one, and the OODA loop,   *)
(* which tries each interval, does not find a run of other teams holding   *)
(* the lock every time.  Nothing obliges Fleet to change.                  *)
(***************************************************************************)
Fairness == /\ WF_vars(Tick)
            /\ SF_vars(runLocked(Teams, FALSE))
            /\ WF_vars(Run)

FairSpec == Spec /\ Fairness

-----------------------------------------------------------------------------
(***************************************************************************)
(* The graph shows what Fleet reported at or before a team's watermark.    *)
(* A delta run never asks for those hosts again, so a difference would     *)
(* stay until the host happens to change.  Split by what Fleet lists,      *)
(* because the two cases are written by different code.                    *)
(***************************************************************************)
Covered(h) == h \in enrolled /\ updatedAt[h] <= watermark[HostTeam[h]]

\* A covered host that lists software has exactly those INSTALLED_ON edges.
InstalledNotLost ==
  \A h \in Hosts : Covered(h) /\ software[h] # {} => edges[h] = software[h]

\* A covered host that lists nothing has no INSTALLED_ON edge.
EmptiedNotLost ==
  \A h \in Hosts : Covered(h) /\ software[h] = {} => edges[h] = {}

\* A watermark moves only after a complete extract and ingest (etl.go:620): it
\* passes over neither what a host reports nor that it reports nothing.
NothingLost == InstalledNotLost /\ EmptiedNotLost

\* The short-circuit is safe: a stamp equal to Fleet's current
\* software_updated_at means the edges are already the ones Fleet lists.
StampTruthful ==
  \A h \in Hosts : swAt[h] # 0 /\ stamp[h] = swAt[h] => edges[h] = software[h]

\* Once Fleet is quiet and nothing fails any more, the graph comes to show
\* what Fleet lists and stays that way: a run that failed is made up for by
\* the next ones, delta runs included.
Converges == <>[](\A h \in enrolled : edges[h] = software[h])

\* A full scan's reap never deletes a host that Fleet still reports.
OnlyGoneReaped ==
  [][ReapStaleHosts => \A h \in node \ node' : h \notin enrolled]_vars
=============================================================================
