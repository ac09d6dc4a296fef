-------------------------- MODULE EtlIngestProofs --------------------------
(***************************************************************************)
(* What is proved about EtlIngest for any set of hosts, teams and software *)
(* names, any batch sizes and any clock bound.  The invariants of a run    *)
(* are not inductive: they hold because of what is still pending, so IInv  *)
(* says where every host of the scope stands while the run goes on.        *)
(***************************************************************************)
EXTENDS EtlIngest, TLAPS

\* The ingest has begun.
Ingesting == pc \notin {"idle", "fetch"}

\* The software of h was read and is not yet written or given up.
Pending(h) == h \in swGrouped \/ h \in emptySWHosts \/ chunk[h] # "none"

\* No page is shifted, and no batch of hosts is lost before a reap.
LossFree == "shift" \notin Faults /\ (HostReap => "hosts" \notin Faults)

\* What each phase of a run has already emptied.
Phases ==
  /\ pc \in {"idle", "fetch"} => ~truncated /\ failed = {}
  /\ pc \notin {"stream", "chunks"} =>
       toRead = {} /\ hostBatch = {} /\ swGrouped = {} /\ emptySWHosts = {}
  /\ pc = "chunks" => hostBatch = {} /\ swGrouped = {}
  /\ pc # "chunks" => \A h \in Hosts : chunk[h] = "none"
  /\ pc \in {"reap", "sweep"} => ~truncated

\* Fleet's timestamps, and the watermarks behind them.
Clocks ==
  /\ clock >= 1
  /\ \A h \in Hosts : /\ swAt[h] <= updatedAt[h] /\ updatedAt[h] <= clock
                      /\ swAt[h] = 0 => software[h] = {}
                      /\ updatedAt[h] = 0 => h \notin enrolled /\ h \notin node
  /\ \A h \in hostBatch : updatedAt[h] # 0
  /\ \A t \in Teams : watermark[t] < clock
  /\ pc # "idle" => watermarkTS < clock
  /\ Ingesting => /\ watermarkTS < nowISO /\ nowISO <= clock
                  /\ clock <= nowISO + ReapAge
                  /\ \A t \in Teams : watermark[t] < nowISO

\* A pending write is what Fleet lists, or Fleet has changed since this
\* ingest began.
Recorded(h) ==
  Pending(h) =>
    /\ h \notin toRead
    /\ rec[h].at # 0 /\ rec[h].at <= swAt[h] /\ stamp[h] <= rec[h].at
    /\ rec[h].at = swAt[h] => rec[h].sw = software[h]
    /\ rec[h].at # swAt[h] => updatedAt[h] >= nowISO
    /\ h \in emptySWHosts => /\ rec[h].sw = {}
                             /\ h \notin swGrouped /\ chunk[h] = "none"

\* How far a host's edges are from its record.
Written(h) ==
  /\ chunk[h] = "pruned" => edges[h] \subseteq rec[h].sw
  /\ chunk[h] = "linked" /\ h \in node => edges[h] = rec[h].sw
  /\ h \notin node => edges[h] = {} /\ stamp[h] = 0
  /\ h \in swGrouped => h \in hostBatch \cup node \cup failed
  /\ chunk[h] # "none" => h \in node \cup failed

\* What the stamps claim.
Stamped(h) ==
  /\ stamp[h] <= swAt[h]
  /\ swAt[h] # 0 /\ stamp[h] = swAt[h] => edges[h] = software[h]
  /\ h \in toRead => swSynced[h] = 0 \/ swSynced[h] = stamp[h]

\* A host that this run's watermark will cover is still to be read, still to
\* be written, marked, or right in the graph.
Accounted(h) ==
  /\ Ingesting /\ ~truncated /\ HostTeam[h] \in scope
  /\ h \in enrolled /\ updatedAt[h] <= watermarkTS
  /\ software[h] # {} /\ h \notin failed
  => h \in toRead \/ h \in swGrouped \/ chunk[h] # "none"
       \/ edges[h] = software[h]

\* A full scan has not yet come to an enrolled host, or its node is fresh.
Seen(h) ==
  /\ HostReap /\ full /\ pc \in {"stream", "chunks", "reap"} /\ ~truncated
  /\ HostTeam[h] \in scope /\ h \in enrolled /\ h \in node
  => h \in toRead \/ h \in hostBatch \/ ingested[h] = nowISO

NotLost(h) == Covered(h) /\ software[h] # {} => edges[h] = software[h]

IInv ==
  /\ Phases /\ Clocks
  /\ hostBatch \cap toRead = {}
  /\ \A h \in Hosts : Recorded(h) /\ Written(h) /\ Stamped(h)
  /\ LossFree => \A h \in Hosts : Accounted(h) /\ Seen(h) /\ NotLost(h)

\* No host is left with edges and no stamp: the prefetch is complete, every
\* stamp and every prune is written, and no run dies between two of them.
PruneFree == LossFree /\ Faults \cap {"prefetch", "stamp", "emptied", "crash"} = {}

\* Edges without a stamp are those a run is about to stamp, and the walk goes
\* by the stamps of the hosts with edges.
Marked(h) ==
  edges[h] # {} => /\ stamp[h] # 0 \/ chunk[h] = "linked"
                   /\ h \in toRead => swSynced[h] = stamp[h]

\* Accounted, for a host that lists nothing.
EmptiedAccounted(h) ==
  /\ Ingesting /\ ~truncated /\ HostTeam[h] \in scope
  /\ h \in enrolled /\ updatedAt[h] <= watermarkTS
  /\ software[h] = {} /\ h \notin failed
  => h \in toRead \/ Pending(h) \/ edges[h] = {}

EmptiedKept(h) == Covered(h) /\ software[h] = {} => edges[h] = {}

EInv == PruneFree => \A h \in Hosts : Marked(h) /\ EmptiedAccounted(h) /\ EmptiedKept(h)

-----------------------------------------------------------------------------
LEMMA MonusNat == \A a, b \in Nat : Monus(a, b) \in Nat
  BY DEF Monus

LEMMA NoRecordType == NoRecord \in Record /\ NoRecord.sw = {} /\ NoRecord.at = 0
  BY TimeAssumption DEF NoRecord, Record, Time

LEMMA InitType == Init => TypeOK
<1> SUFFICES ASSUME Init PROVE TypeOK
  OBVIOUS
<1>1. updatedAt \in [Hosts -> Time] /\ swAt \in [Hosts -> Time]
  BY TimeAssumption DEF Init, Time
<1>2. rec \in [Hosts -> Record]
  BY NoRecordType DEF Init
<1>3. stamp \in [Hosts -> Time] /\ ingested \in [Hosts -> Nat]
  BY TimeAssumption DEF Init, Time
<1>4. swSynced \in [Hosts -> Time] /\ watermark \in [Teams -> Nat]
  BY TimeAssumption DEF Init, Time
<1>5. clock \in Time
  BY TimeAssumption DEF Init, Time
<1>6. edges \in [Hosts -> SUBSET Software]
  BY DEF Init
<1>7. chunk \in [Hosts -> {"none", "queued", "pruned", "linked"}]
  BY DEF Init
<1> QED
  BY <1>1, <1>2, <1>3, <1>4, <1>5, <1>6, <1>7 DEF Init, TypeOK

LEMMA ResetType ==
  ASSUME ResetRun
  PROVE  /\ pc' = "idle" /\ full' \in BOOLEAN /\ scope' \subseteq Teams
         /\ watermarkTS' \in Nat /\ nowISO' \in Nat
         /\ swSynced' \in [Hosts -> Time] /\ toRead' \subseteq Hosts
         /\ truncated' \in BOOLEAN /\ rec' \in [Hosts -> Record]
         /\ hostBatch' \subseteq Hosts /\ swGrouped' \subseteq Hosts
         /\ emptySWHosts' \subseteq Hosts
         /\ chunk' \in [Hosts -> {"none", "queued", "pruned", "linked"}]
         /\ failed' \subseteq Hosts
<1>1. swSynced' \in [Hosts -> Time]
  BY TimeAssumption DEF ResetRun, Time
<1>2. rec' \in [Hosts -> Record]
  BY NoRecordType DEF ResetRun
<1>3. chunk' \in [Hosts -> {"none", "queued", "pruned", "linked"}]
  BY DEF ResetRun
<1>4. /\ pc' = "idle" /\ full' \in BOOLEAN /\ scope' \subseteq Teams
      /\ watermarkTS' \in Nat /\ nowISO' \in Nat
      /\ toRead' \subseteq Hosts /\ truncated' \in BOOLEAN
      /\ hostBatch' \subseteq Hosts /\ swGrouped' \subseteq Hosts
      /\ emptySWHosts' \subseteq Hosts /\ failed' \subseteq Hosts
  BY DEF ResetRun
<1> QED
  BY <1>1, <1>2, <1>3, <1>4

\* Every step keeps every variable in its type.
LEMMA NextType == TypeOK /\ [Next]_vars => TypeOK'
<1> SUFFICES ASSUME TypeOK, [Next]_vars PROVE TypeOK'
  OBVIOUS
<1> USE TimeAssumption
<1>1. CASE Fleet
  <2>1. CASE Tick
    BY <2>1 DEF Tick, TypeOK, Time, etlVars, notRead, graphVars, cfgVars,
                batchVars
  <2>2. CASE \E h \in Hosts : Enroll(h) \/ Refresh(h) \/ Leave(h)
    BY <2>2 DEF Enroll, Refresh, Leave, MovesToFront, TypeOK, Time, notRead,
                graphVars, cfgVars, batchVars
  <2>3. CASE \E h \in Hosts, S \in SUBSET Software : Report(h, S)
    BY <2>3 DEF Report, MovesToFront, TypeOK, Time, notRead, graphVars,
                cfgVars, batchVars
  <2> QED
    BY <1>1, <2>1, <2>2, <2>3 DEF Fleet
<1>2. ASSUME NEW T \in SUBSET Teams, NEW f \in BOOLEAN, runLocked(T, f)
      PROVE  TypeOK'
  <2>1. watermarkTS' \in Nat
    BY <1>2, MonusNat DEF runLocked, LocalClock, BackedOff, TypeOK, Time
  <2> QED
    BY <1>2, <2>1 DEF runLocked, TypeOK, fleetVars, graphVars, walkVars,
                      batchVars
<1>3. CASE CreateGraphRelationships
  BY <1>3 DEF CreateGraphRelationships, Prefetched, TypeOK, Time, fleetVars,
              graphVars, batchVars
<1>4. ASSUME NEW h \in Hosts, ReadHost(h)
      PROVE  TypeOK'
  BY <1>4 DEF ReadHost, TypeOK, Record, fleetVars, graphVars, cfgVars
<1>5. ASSUME NEW h \in Hosts, PassOver(h)
      PROVE  TypeOK'
  BY <1>5 DEF PassOver, TypeOK, fleetVars, graphVars, cfgVars, batchVars
<1>6. ASSUME NEW h \in Hosts, Chunk(h)
      PROVE  TypeOK'
  <2> USE DEF TypeOK, fleetVars, cfgVars, walkVars
  <2>1. CASE DeleteStaleRels(h)
    BY <2>1 DEF DeleteStaleRels, Kept
  <2>2. CASE MergeRels(h)
    BY <2>2 DEF MergeRels, Record
  <2>3. CASE ChunkFails(h)
    BY <2>3 DEF ChunkFails, graphVars, Record, NoRecord, Time
  <2>4. CASE MarkSynced(h)
    BY <2>4 DEF MarkSynced, SyncedAt, Record, NoRecord, Time
  <2> QED
    BY <1>6, <2>1, <2>2, <2>3, <2>4 DEF Chunk
<1>7. CASE batchCreateHosts
  BY <1>7 DEF batchCreateHosts, TypeOK, fleetVars, cfgVars, walkVars
<1>8. CASE MergeSoftwareNodes
  BY <1>8 DEF MergeSoftwareNodes, TypeOK, fleetVars, graphVars, cfgVars,
              walkVars
<1>9. CASE ChunksDone
  BY <1>9 DEF ChunksDone, TypeOK, fleetVars, graphVars, cfgVars, walkVars,
              batchVars
<1>10. CASE PruneEmptied
  BY <1>10 DEF PruneEmptied, AfterIngest, TypeOK, Record, fleetVars, cfgVars,
               walkVars
<1>11. CASE ReapStaleHosts
  BY <1>11 DEF ReapStaleHosts, Drop, TypeOK, Time, fleetVars, graphVars,
               cfgVars, walkVars, batchVars
<1>12. CASE ReapUnattached
  BY <1>12 DEF ReapUnattached, Drop, TypeOK, Time, fleetVars, cfgVars,
               walkVars, batchVars
<1>13. CASE SaveWatermark
  BY <1>13, ResetType DEF SaveWatermark, TypeOK, fleetVars, graphVars
<1>14. CASE PageFails
  BY <1>14 DEF PageFails, TypeOK, fleetVars, graphVars, cfgVars, batchVars
<1>15. ASSUME NEW h \in Hosts, batchCreateUserRelationshipsFails(h)
       PROVE  TypeOK'
  BY <1>15 DEF batchCreateUserRelationshipsFails, TypeOK, fleetVars,
               graphVars, cfgVars, walkVars, batchVars
<1>16. CASE Crash
  BY <1>16, ResetType DEF Crash, TypeOK, fleetVars, graphVars
<1>17. CASE UNCHANGED vars
  BY <1>17 DEF vars, TypeOK, fleetVars, graphVars, cfgVars, walkVars,
               batchVars
<1> QED
  BY <1>1, <1>2, <1>3, <1>4, <1>5, <1>6, <1>7, <1>8, <1>9, <1>10, <1>11,
     <1>12, <1>13, <1>14, <1>15, <1>16, <1>17 DEF Next, Run

\* The variables of Fleet, the graph and a run keep their types.
THEOREM TypeCorrect == Spec => []TypeOK
<1>1. Init => TypeOK
  BY InitType
<1>2. TypeOK /\ [Next]_vars => TypeOK'
  BY NextType
<1> QED
  BY <1>1, <1>2, PTL DEF Spec

-----------------------------------------------------------------------------
\* Every step keeps IInv.  In each case: where the run stands, then what is
\* recorded and written of a host x, then what is not lost of it.
LEMMA NextInv == TypeOK /\ TypeOK' /\ IInv /\ [Next]_vars => IInv'
<1> SUFFICES ASSUME TypeOK, TypeOK', IInv, [Next]_vars PROVE IInv'
  OBVIOUS
<1> USE TimeAssumption, HostTeamAssumption, SkewAssumption
<1> USE DEF fleetVars, graphVars, cfgVars, walkVars, batchVars, notRead,
            etlVars, TypeOK, Time, Record
<1> USE DEF IInv, Phases, Clocks, Ingesting, Pending, Recorded, Written,
            Stamped
<1>1. CASE Tick
  <2>1. (Phases /\ Clocks /\ hostBatch \cap toRead = {})'
    BY <1>1 DEF Tick, RunShorterThanReapAge
  <2>2. ASSUME NEW x \in Hosts
        PROVE  (Recorded(x) /\ Written(x) /\ Stamped(x))'
    BY <1>1 DEF Tick, RunShorterThanReapAge
  <2>3. ASSUME LossFree, NEW x \in Hosts
        PROVE  (Accounted(x) /\ Seen(x) /\ NotLost(x))'
    BY <1>1, <2>3 DEF Tick, RunShorterThanReapAge, LossFree, Accounted, Seen,
      NotLost, Covered
  <2> QED
    BY <2>1, <2>2, <2>3
<1>2. ASSUME NEW h \in Hosts, Enroll(h)
      PROVE  IInv'
  <2>1. (Phases /\ Clocks /\ hostBatch \cap toRead = {})'
    BY <1>2 DEF Enroll, MovesToFront
  <2>2. ASSUME NEW x \in Hosts
        PROVE  (Recorded(x) /\ Written(x) /\ Stamped(x))'
    BY <1>2 DEF Enroll, MovesToFront
  <2>3. ASSUME LossFree, NEW x \in Hosts
        PROVE  (Accounted(x) /\ Seen(x) /\ NotLost(x))'
    BY <1>2, <2>3 DEF Enroll, MovesToFront, LossFree, Accounted, Seen,
      NotLost, Covered
  <2> QED
    BY <2>1, <2>2, <2>3
<1>3. ASSUME NEW h \in Hosts, NEW S \in SUBSET Software, Report(h, S)
      PROVE  IInv'
  <2>1. (Phases /\ Clocks /\ hostBatch \cap toRead = {})'
    BY <1>3 DEF Report, MovesToFront
  <2>2. ASSUME NEW x \in Hosts
        PROVE  (Recorded(x) /\ Written(x) /\ Stamped(x))'
    BY <1>3 DEF Report, MovesToFront
  <2>3. ASSUME LossFree, NEW x \in Hosts
        PROVE  (Accounted(x) /\ Seen(x) /\ NotLost(x))'
    BY <1>3, <2>3 DEF Report, MovesToFront, LossFree, Accounted, Seen,
      NotLost, Covered
  <2> QED
    BY <2>1, <2>2, <2>3
<1>4. ASSUME NEW h \in Hosts, Refresh(h)
      PROVE  IInv'
  <2>1. (Phases /\ Clocks /\ hostBatch \cap toRead = {})'
    BY <1>4 DEF Refresh, MovesToFront
  <2>2. ASSUME NEW x \in Hosts
        PROVE  (Recorded(x) /\ Written(x) /\ Stamped(x))'
    BY <1>4 DEF Refresh, MovesToFront
  <2>3. ASSUME LossFree, NEW x \in Hosts
        PROVE  (Accounted(x) /\ Seen(x) /\ NotLost(x))'
    BY <1>4, <2>3 DEF Refresh, MovesToFront, LossFree, Accounted, Seen,
      NotLost, Covered
  <2> QED
    BY <2>1, <2>2, <2>3
<1>5. ASSUME NEW h \in Hosts, Leave(h)
      PROVE  IInv'
  <2>1. (Phases /\ Clocks /\ hostBatch \cap toRead = {})'
    BY <1>5 DEF Leave, Fails
  <2>2. ASSUME NEW x \in Hosts
        PROVE  (Recorded(x) /\ Written(x) /\ Stamped(x))'
    BY <1>5 DEF Leave, Fails
  <2>3. ASSUME LossFree, NEW x \in Hosts
        PROVE  (Accounted(x) /\ Seen(x) /\ NotLost(x))'
    BY <1>5, <2>3 DEF Leave, Fails, LossFree, Accounted, Seen, NotLost,
      Covered
  <2> QED
    BY <2>1, <2>2, <2>3
<1>6. ASSUME NEW T \in SUBSET Teams, NEW f \in BOOLEAN, runLocked(T, f)
      PROVE  IInv'
  <2>1. (Phases /\ Clocks /\ hostBatch \cap toRead = {})'
    BY <1>6 DEF runLocked, LocalClock, BackedOff, Monus
  <2>2. ASSUME NEW x \in Hosts
        PROVE  (Recorded(x) /\ Written(x) /\ Stamped(x))'
    BY <1>6 DEF runLocked, LocalClock, BackedOff, Monus
  <2>3. ASSUME LossFree, NEW x \in Hosts
        PROVE  (Accounted(x) /\ Seen(x) /\ NotLost(x))'
    BY <1>6, <2>3 DEF runLocked, LocalClock, BackedOff, Monus, LossFree,
      Accounted, Seen, NotLost, Covered
  <2> QED
    BY <2>1, <2>2, <2>3
<1>7. CASE CreateGraphRelationships
  <2>1. (Phases /\ Clocks /\ hostBatch \cap toRead = {})'
    BY <1>7 DEF CreateGraphRelationships, Prefetched
  <2>2. ASSUME NEW x \in Hosts
        PROVE  (Recorded(x) /\ Written(x) /\ Stamped(x))'
    BY <1>7 DEF CreateGraphRelationships, Prefetched
  <2>3. ASSUME LossFree, NEW x \in Hosts
        PROVE  (Accounted(x) /\ Seen(x) /\ NotLost(x))'
    BY <1>7, <2>3 DEF CreateGraphRelationships, Prefetched, LossFree,
      Accounted, Seen, NotLost, Covered
  <2> QED
    BY <2>1, <2>2, <2>3
<1>8. ASSUME NEW h \in Hosts, ReadHost(h)
      PROVE  IInv'
  <2>1. (Phases /\ Clocks /\ hostBatch \cap toRead = {})'
    BY <1>8 DEF ReadHost, Yielded, Since, Emptied, Rewritten, Unchanged
  <2>2. ASSUME NEW x \in Hosts
        PROVE  (Recorded(x) /\ Written(x) /\ Stamped(x))'
    BY <1>8 DEF ReadHost, Yielded, Since, Emptied, Rewritten, Unchanged
  <2>3. ASSUME LossFree, NEW x \in Hosts
        PROVE  (Accounted(x) /\ Seen(x) /\ NotLost(x))'
    BY <1>8, <2>3 DEF ReadHost, Yielded, Since, Emptied, Rewritten, Unchanged,
      LossFree, Accounted, Seen, NotLost, Covered
  <2> QED
    BY <2>1, <2>2, <2>3
<1>9. ASSUME NEW h \in Hosts, PassOver(h)
      PROVE  IInv'
  <2>1. (Phases /\ Clocks /\ hostBatch \cap toRead = {})'
    BY <1>9 DEF PassOver, Yielded, Since
  <2>2. ASSUME NEW x \in Hosts
        PROVE  (Recorded(x) /\ Written(x) /\ Stamped(x))'
    BY <1>9 DEF PassOver, Yielded, Since
  <2>3. ASSUME LossFree, NEW x \in Hosts
        PROVE  (Accounted(x) /\ Seen(x) /\ NotLost(x))'
    BY <1>9, <2>3 DEF PassOver, Yielded, Since, LossFree, Accounted, Seen,
      NotLost, Covered
  <2> QED
    BY <2>1, <2>2, <2>3
<1>10. ASSUME NEW h \in Hosts, DeleteStaleRels(h)
      PROVE  IInv'
  <2>1. (Phases /\ Clocks /\ hostBatch \cap toRead = {})'
    BY <1>10 DEF DeleteStaleRels, Kept
  <2>2. ASSUME NEW x \in Hosts
        PROVE  (Recorded(x) /\ Written(x) /\ Stamped(x))'
    <3>1. CASE x = h
      <4>1. Recorded(x)' /\ Written(x)'
        BY <1>10, <3>1 DEF DeleteStaleRels, Kept
      <4>2. stamp[h] = swAt[h] => rec[h].sw = software[h]
        <5>1. /\ stamp[h] <= rec[h].at /\ rec[h].at <= swAt[h]
              /\ rec[h].at = swAt[h] => rec[h].sw = software[h]
          BY <1>10 DEF DeleteStaleRels
        <5>2. stamp[h] \in Nat /\ rec[h].at \in Nat /\ swAt[h] \in Nat
          OBVIOUS
        <5> HIDE DEF TypeOK, IInv
        <5> QED
          BY <5>1, <5>2
      <4>3. stamp[h] = swAt[h] /\ swAt[h] # 0 => edges'[h] = software[h]
        <5>1. edges'[h] = edges[h] \cap rec[h].sw
          BY <1>10 DEF DeleteStaleRels, Kept
        <5> QED
          BY <5>1, <4>2
      <4>4. Stamped(x)'
        BY <1>10, <3>1, <4>3 DEF DeleteStaleRels
      <4> QED
        BY <4>1, <4>4
    <3>2. CASE x # h
      BY <1>10, <3>2 DEF DeleteStaleRels
    <3> QED
      BY <3>1, <3>2
  <2>3. ASSUME LossFree, NEW x \in Hosts
        PROVE  (Accounted(x) /\ Seen(x) /\ NotLost(x))'
    <3>1. Accounted(x)'
      BY <1>10, <2>3 DEF DeleteStaleRels, Kept, LossFree, Accounted
    <3>2. Seen(x)'
      BY <1>10, <2>3 DEF DeleteStaleRels, Kept, LossFree, Seen
    <3>3. NotLost(x)'
      BY <1>10, <2>3 DEF DeleteStaleRels, Kept, LossFree, NotLost, Covered
    <3> QED
      BY <3>1, <3>2, <3>3
  <2> QED
    BY <2>1, <2>2, <2>3
<1>11. ASSUME NEW h \in Hosts, MergeRels(h)
      PROVE  IInv'
  <2>1. (Phases /\ Clocks /\ hostBatch \cap toRead = {})'
    BY <1>11 DEF MergeRels
  <2>2. ASSUME NEW x \in Hosts
        PROVE  (Recorded(x) /\ Written(x) /\ Stamped(x))'
    <3>1. CASE x = h
      <4>1. edges'[h] = IF h \in node THEN edges[h] \cup rec[h].sw ELSE edges[h]
        BY <1>11 DEF MergeRels
      <4>2. edges[h] \subseteq rec[h].sw
        BY <1>11 DEF MergeRels
      <4>3. h \in node => edges'[h] = rec[h].sw
        BY <4>1, <4>2
      <4>4. Recorded(x)' /\ Written(x)'
        BY <1>11, <3>1, <4>1, <4>3 DEF MergeRels
      <4>5. Stamped(x)'
        BY <1>11, <3>1, <4>1, <4>3 DEF MergeRels
      <4> QED
        BY <4>4, <4>5
    <3>2. CASE x # h
      BY <1>11, <3>2 DEF MergeRels
    <3> QED
      BY <3>1, <3>2
  <2>3. ASSUME LossFree, NEW x \in Hosts
        PROVE  (Accounted(x) /\ Seen(x) /\ NotLost(x))'
    BY <1>11, <2>3 DEF MergeRels, LossFree, Accounted, Seen, NotLost, Covered
  <2> QED
    BY <2>1, <2>2, <2>3
<1>12. ASSUME NEW h \in Hosts, ChunkFails(h)
      PROVE  IInv'
  <2>1. (Phases /\ Clocks /\ hostBatch \cap toRead = {})'
    BY <1>12 DEF ChunkFails
  <2>2. ASSUME NEW x \in Hosts
        PROVE  (Recorded(x) /\ Written(x) /\ Stamped(x))'
    BY <1>12 DEF ChunkFails, NoRecord
  <2>3. ASSUME LossFree, NEW x \in Hosts
        PROVE  (Accounted(x) /\ Seen(x) /\ NotLost(x))'
    BY <1>12, <2>3 DEF ChunkFails, LossFree, Accounted, Seen, NotLost, Covered
  <2> QED
    BY <2>1, <2>2, <2>3
<1>13. ASSUME NEW h \in Hosts, MarkSynced(h)
      PROVE  IInv'
  <2>1. (Phases /\ Clocks /\ hostBatch \cap toRead = {})'
    BY <1>13 DEF MarkSynced, SyncedAt
  <2>2. ASSUME NEW x \in Hosts
        PROVE  (Recorded(x) /\ Written(x) /\ Stamped(x))'
    BY <1>13 DEF MarkSynced, SyncedAt, NoRecord
  <2>3. ASSUME LossFree, NEW x \in Hosts
        PROVE  (Accounted(x) /\ Seen(x) /\ NotLost(x))'
    BY <1>13, <2>3 DEF MarkSynced, SyncedAt, LossFree, Accounted, Seen, NotLost, Covered
  <2> QED
    BY <2>1, <2>2, <2>3
<1>14. CASE batchCreateHosts
  <2>1. (Phases /\ Clocks /\ hostBatch \cap toRead = {})'
    BY <1>14 DEF batchCreateHosts, Fails
  <2>2. ASSUME NEW x \in Hosts
        PROVE  (Recorded(x) /\ Written(x) /\ Stamped(x))'
    BY <1>14 DEF batchCreateHosts, Fails
  <2>3. ASSUME LossFree, NEW x \in Hosts
        PROVE  (Accounted(x) /\ Seen(x) /\ NotLost(x))'
    BY <1>14, <2>3 DEF batchCreateHosts, Fails, LossFree, Accounted, Seen,
      NotLost, Covered
  <2> QED
    BY <2>1, <2>2, <2>3
<1>15. CASE MergeSoftwareNodes
  <2>1. (Phases /\ Clocks /\ hostBatch \cap toRead = {})'
    BY <1>15 DEF MergeSoftwareNodes
  <2>2. ASSUME NEW x \in Hosts
        PROVE  (Recorded(x) /\ Written(x) /\ Stamped(x))'
    BY <1>15 DEF MergeSoftwareNodes
  <2>3. ASSUME LossFree, NEW x \in Hosts
        PROVE  (Accounted(x) /\ Seen(x) /\ NotLost(x))'
    BY <1>15, <2>3 DEF MergeSoftwareNodes, LossFree, Accounted, Seen, NotLost,
      Covered
  <2> QED
    BY <2>1, <2>2, <2>3
<1>16. CASE ChunksDone
  <2>1. (Phases /\ Clocks /\ hostBatch \cap toRead = {})'
    BY <1>16 DEF ChunksDone
  <2>2. ASSUME NEW x \in Hosts
        PROVE  (Recorded(x) /\ Written(x) /\ Stamped(x))'
    BY <1>16 DEF ChunksDone
  <2>3. ASSUME LossFree, NEW x \in Hosts
        PROVE  (Accounted(x) /\ Seen(x) /\ NotLost(x))'
    BY <1>16, <2>3 DEF ChunksDone, LossFree, Accounted, Seen, NotLost, Covered
  <2> QED
    BY <2>1, <2>2, <2>3
<1>17. CASE PruneEmptied
  <2>1. (Phases /\ Clocks /\ hostBatch \cap toRead = {})'
    BY <1>17 DEF PruneEmptied, AfterIngest
  <2>2. ASSUME NEW x \in Hosts
        PROVE  (Recorded(x) /\ Written(x) /\ Stamped(x))'
    <3>1. CASE x \in emptySWHosts /\ ~UNCHANGED <<edges, stamp>>
      <4>1. /\ edges'[x] = {} /\ rec[x].sw = {}
            /\ stamp'[x] = IF x \in node THEN rec[x].at ELSE stamp[x]
        BY <1>17, <3>1 DEF PruneEmptied, AfterIngest
      <4>2. rec[x].at = swAt[x] => software[x] = {}
        BY <3>1, <4>1
      <4> QED
        BY <1>17, <3>1, <4>1, <4>2 DEF PruneEmptied, AfterIngest
    <3>2. CASE x \notin emptySWHosts
      BY <1>17, <3>2 DEF PruneEmptied, AfterIngest
    <3>3. CASE UNCHANGED <<edges, stamp>>
      BY <1>17, <3>3 DEF PruneEmptied, AfterIngest
    <3> QED
      BY <3>1, <3>2, <3>3
  <2>3. ASSUME LossFree, NEW x \in Hosts
        PROVE  (Accounted(x) /\ Seen(x) /\ NotLost(x))'
    BY <1>17, <2>3 DEF PruneEmptied, AfterIngest, LossFree, Accounted, Seen, NotLost,
      Covered
  <2> QED
    BY <2>1, <2>2, <2>3
<1>18. CASE ReapStaleHosts
  <2>1. (Phases /\ Clocks /\ hostBatch \cap toRead = {})'
    BY <1>18 DEF ReapStaleHosts, Drop, Stale
  <2>2. ASSUME NEW x \in Hosts
        PROVE  (Recorded(x) /\ Written(x) /\ Stamped(x))'
    BY <1>18 DEF ReapStaleHosts, Drop, Stale
  <2>3. ASSUME LossFree, NEW x \in Hosts
        PROVE  (Accounted(x) /\ Seen(x) /\ NotLost(x))'
    BY <1>18, <2>3 DEF ReapStaleHosts, Drop, Stale, LossFree, Accounted, Seen,
      NotLost, Covered
  <2> QED
    BY <2>1, <2>2, <2>3
<1>19. CASE ReapUnattached
  <2>1. (Phases /\ Clocks /\ hostBatch \cap toRead = {})'
    BY <1>19 DEF ReapUnattached, Drop
  <2>2. ASSUME NEW x \in Hosts
        PROVE  (Recorded(x) /\ Written(x) /\ Stamped(x))'
    BY <1>19 DEF ReapUnattached, Drop
  <2>3. ASSUME LossFree, NEW x \in Hosts
        PROVE  (Accounted(x) /\ Seen(x) /\ NotLost(x))'
    BY <1>19, <2>3 DEF ReapUnattached, Drop, LossFree, Accounted, Seen,
      NotLost, Covered
  <2> QED
    BY <2>1, <2>2, <2>3
<1>20. CASE SaveWatermark
  <2>1. (Phases /\ Clocks /\ hostBatch \cap toRead = {})'
    BY <1>20 DEF SaveWatermark, ResetRun, Complete
  <2>2. ASSUME NEW x \in Hosts
        PROVE  (Recorded(x) /\ Written(x) /\ Stamped(x))'
    BY <1>20 DEF SaveWatermark, ResetRun, Complete
  <2>3. ASSUME LossFree, NEW x \in Hosts
        PROVE  (Accounted(x) /\ Seen(x) /\ NotLost(x))'
    BY <1>20, <2>3 DEF SaveWatermark, ResetRun, Complete, LossFree, Accounted,
      Seen, NotLost, Covered
  <2> QED
    BY <2>1, <2>2, <2>3
<1>21. CASE PageFails
  <2>1. (Phases /\ Clocks /\ hostBatch \cap toRead = {})'
    BY <1>21 DEF PageFails
  <2>2. ASSUME NEW x \in Hosts
        PROVE  (Recorded(x) /\ Written(x) /\ Stamped(x))'
    BY <1>21 DEF PageFails
  <2>3. ASSUME LossFree, NEW x \in Hosts
        PROVE  (Accounted(x) /\ Seen(x) /\ NotLost(x))'
    BY <1>21, <2>3 DEF PageFails, LossFree, Accounted, Seen, NotLost, Covered
  <2> QED
    BY <2>1, <2>2, <2>3
<1>22. ASSUME NEW h \in Hosts, batchCreateUserRelationshipsFails(h)
      PROVE  IInv'
  <2>1. (Phases /\ Clocks /\ hostBatch \cap toRead = {})'
    BY <1>22 DEF batchCreateUserRelationshipsFails
  <2>2. ASSUME NEW x \in Hosts
        PROVE  (Recorded(x) /\ Written(x) /\ Stamped(x))'
    BY <1>22 DEF batchCreateUserRelationshipsFails
  <2>3. ASSUME LossFree, NEW x \in Hosts
        PROVE  (Accounted(x) /\ Seen(x) /\ NotLost(x))'
    BY <1>22, <2>3 DEF batchCreateUserRelationshipsFails, LossFree, Accounted,
      Seen, NotLost, Covered
  <2> QED
    BY <2>1, <2>2, <2>3
<1>23. CASE Crash
  <2>1. (Phases /\ Clocks /\ hostBatch \cap toRead = {})'
    BY <1>23 DEF Crash, ResetRun
  <2>2. ASSUME NEW x \in Hosts
        PROVE  (Recorded(x) /\ Written(x) /\ Stamped(x))'
    BY <1>23 DEF Crash, ResetRun
  <2>3. ASSUME LossFree, NEW x \in Hosts
        PROVE  (Accounted(x) /\ Seen(x) /\ NotLost(x))'
    BY <1>23, <2>3 DEF Crash, ResetRun, LossFree, Accounted, Seen, NotLost,
      Covered
  <2> QED
    BY <2>1, <2>2, <2>3
<1>24. CASE UNCHANGED vars
  BY <1>24 DEF vars, Accounted, Seen, NotLost, Covered
<1> HIDE DEF TypeOK, IInv
<1> QED
  BY <1>1, <1>2, <1>3, <1>4, <1>5, <1>6, <1>7, <1>8, <1>9, <1>10, <1>11,
     <1>12, <1>13, <1>14, <1>15, <1>16, <1>17, <1>18, <1>19, <1>20, <1>21,
     <1>22, <1>23, <1>24
  DEF Next, Run, Chunk, Fleet

-----------------------------------------------------------------------------
\* What NextEmptied shows of each host.
Emptying(x) == Marked(x) /\ EmptiedAccounted(x) /\ EmptiedKept(x)

\* Every step keeps the stamps of hosts with edges, and with them the prune.
LEMMA NextEmptied ==
  ASSUME TypeOK, TypeOK', IInv, IInv', EInv, [Next]_vars, PruneFree, NEW x \in Hosts
  PROVE  Emptying(x)'
<1> USE TimeAssumption, HostTeamAssumption, SkewAssumption
<1> USE DEF fleetVars, graphVars, cfgVars, walkVars, batchVars, notRead, etlVars
<1>0. /\ LossFree /\ Marked(x) /\ EmptiedAccounted(x) /\ EmptiedKept(x)
      /\ Accounted(x) /\ Seen(x) /\ NotLost(x)
      /\ Recorded(x) /\ Written(x) /\ Stamped(x) /\ Phases /\ Clocks
      /\ Faults \cap {"shift", "prefetch", "stamp", "emptied", "crash"} = {}
  BY DEF PruneFree, LossFree, EInv, IInv
<1> USE <1>0 DEF Emptying, Marked, EmptiedAccounted, EmptiedKept, Covered, Ingesting, Pending
<1>1. CASE Tick
  BY <1>1 DEF Tick, RunShorterThanReapAge, TypeOK, Time, Record, Recorded, Written, Stamped,
    Phases, Clocks, NotLost
<1>2. ASSUME NEW h \in Hosts, Enroll(h)
      PROVE  Emptying(x)'
  BY <1>2 DEF Enroll, MovesToFront, TypeOK, Time, Record, Recorded, Written, Stamped,
    Phases, Clocks, NotLost
<1>3. ASSUME NEW h \in Hosts, NEW S \in SUBSET Software, Report(h, S)
      PROVE  Emptying(x)'
  BY <1>3 DEF Report, MovesToFront, TypeOK, Time, Record, Recorded, Written, Stamped,
    Phases, Clocks, NotLost
<1>4. ASSUME NEW h \in Hosts, Refresh(h)
      PROVE  Emptying(x)'
  BY <1>4 DEF Refresh, MovesToFront, TypeOK, Time, Record, Recorded, Written, Stamped,
    Phases, Clocks, NotLost
<1>5. ASSUME NEW h \in Hosts, Leave(h)
      PROVE  Emptying(x)'
  BY <1>5 DEF Leave, Fails, TypeOK, Time, Record, Recorded, Written, Stamped,
    Phases, Clocks, NotLost
<1>6. ASSUME NEW T \in SUBSET Teams, NEW f \in BOOLEAN, runLocked(T, f)
      PROVE  Emptying(x)'
  BY <1>6 DEF runLocked, LocalClock, BackedOff, Monus, TypeOK, Time, Record, Recorded, Written, Stamped,
    Phases, Clocks, NotLost
<1>7. CASE CreateGraphRelationships
  BY <1>7 DEF CreateGraphRelationships, Prefetched, Fails, TypeOK, Time, Record, Recorded, Written, Stamped,
    Phases, Clocks, NotLost
<1>8. ASSUME NEW h \in Hosts, ReadHost(h)
      PROVE  Emptying(x)'
  BY <1>8 DEF ReadHost, Yielded, Since, Emptied, Rewritten, Unchanged, TypeOK, Time, Record, Recorded, Written, Stamped,
    Phases, Clocks, NotLost
<1>9. ASSUME NEW h \in Hosts, PassOver(h)
      PROVE  Emptying(x)'
  BY <1>9 DEF PassOver, Yielded, Since, TypeOK, Time, Record, Recorded, Written, Stamped,
    Phases, Clocks, NotLost
<1>10. ASSUME NEW h \in Hosts, DeleteStaleRels(h)
      PROVE  Emptying(x)'
  BY <1>10 DEF DeleteStaleRels, Kept, TypeOK, Time, Record, Recorded, Written, Stamped,
    Phases, Clocks, NotLost
<1>11. ASSUME NEW h \in Hosts, MergeRels(h)
      PROVE  Emptying(x)'
  BY <1>11 DEF MergeRels, TypeOK, Time, Record, Recorded, Written, Stamped,
    Phases, Clocks, NotLost
<1>12. ASSUME NEW h \in Hosts, ChunkFails(h)
      PROVE  Emptying(x)'
  BY <1>12 DEF ChunkFails, TypeOK, Time, Record, Recorded, Written, Stamped,
    Phases, Clocks, NotLost
<1>13. ASSUME NEW h \in Hosts, MarkSynced(h)
      PROVE  Emptying(x)'
  BY <1>13 DEF MarkSynced, SyncedAt, Fails, TypeOK, Time, Record, Recorded, Written, Stamped,
    Phases, Clocks, NotLost
<1>14. CASE batchCreateHosts
  BY <1>14 DEF batchCreateHosts, TypeOK, Time, Record, Recorded, Written, Stamped,
    Phases, Clocks, NotLost
<1>15. CASE MergeSoftwareNodes
  BY <1>15 DEF MergeSoftwareNodes, TypeOK, Time, Record, Recorded, Written, Stamped,
    Phases, Clocks, NotLost
<1>16. CASE ChunksDone
  BY <1>16 DEF ChunksDone, TypeOK, Time, Record, Recorded, Written, Stamped,
    Phases, Clocks, NotLost
<1>17. CASE PruneEmptied
  BY <1>17 DEF PruneEmptied, AfterIngest, Fails, TypeOK, Time, Record, Recorded, Written, Stamped,
    Phases, Clocks, NotLost
<1>18. CASE ReapStaleHosts
  BY <1>18 DEF ReapStaleHosts, Drop, TypeOK, Time, Record, Recorded, Written, Stamped,
    Phases, Clocks, NotLost
<1>19. CASE ReapUnattached
  BY <1>19 DEF ReapUnattached, Drop, TypeOK, Time, Record, Recorded, Written, Stamped,
    Phases, Clocks, NotLost
<1>20. CASE SaveWatermark
  BY <1>20 DEF SaveWatermark, ResetRun, Complete, TypeOK, Time, Record, Recorded, Written, Stamped,
    Phases, Clocks, NotLost
<1>21. CASE PageFails
  BY <1>21 DEF PageFails, TypeOK, Time, Record, Recorded, Written, Stamped,
    Phases, Clocks, NotLost
<1>22. ASSUME NEW h \in Hosts, batchCreateUserRelationshipsFails(h)
      PROVE  Emptying(x)'
  BY <1>22 DEF batchCreateUserRelationshipsFails, TypeOK, Time, Record, Recorded, Written, Stamped,
    Phases, Clocks, NotLost
<1>23. CASE Crash
  BY <1>23 DEF Crash, Fails, TypeOK, Time, Record, Recorded, Written, Stamped,
    Phases, Clocks, NotLost
<1>24. CASE UNCHANGED vars
  BY <1>24 DEF vars
<1> QED
  BY <1>1, <1>2, <1>3, <1>4, <1>5, <1>6, <1>7, <1>8, <1>9, <1>10, <1>11, <1>12, <1>13, <1>14, <1>15, <1>16, <1>17, <1>18, <1>19, <1>20, <1>21, <1>22, <1>23, <1>24 DEF Next, Run, Chunk, Fleet

-----------------------------------------------------------------------------
LEMMA InitInv == Init => IInv
<1> SUFFICES ASSUME Init PROVE IInv
  OBVIOUS
<1> USE HostTeamAssumption DEF Init, Ingesting
<1>1. Phases /\ Clocks /\ hostBatch \cap toRead = {}
  BY DEF Phases, Clocks
<1>2. ASSUME NEW x \in Hosts
      PROVE  Recorded(x) /\ Written(x) /\ Stamped(x)
  BY DEF Recorded, Written, Stamped, Pending
<1>3. ASSUME NEW x \in Hosts
      PROVE  Accounted(x) /\ Seen(x) /\ NotLost(x)
  BY DEF Accounted, Seen, NotLost, Covered
<1> QED
  BY <1>1, <1>2, <1>3 DEF IInv

\* Where every host stands while runs, failures and Fleet's changes
\* interleave.
THEOREM Inductive == Spec => [](TypeOK /\ IInv)
<1>1. Init => TypeOK /\ IInv
  BY InitType, InitInv
<1>2. TypeOK /\ IInv /\ [Next]_vars => (TypeOK /\ IInv)'
  BY NextType, NextInv
<1> QED
  BY <1>1, <1>2, PTL DEF Spec

\* The short-circuit of the ingest never hides stale edges, whatever fails
\* and whenever a run dies.
THEOREM StampsTruthful == Spec => []StampTruthful
<1>1. IInv => StampTruthful
  BY DEF IInv, Stamped, StampTruthful
<1> QED
  BY <1>1, Inductive, PTL

\* No watermark passes over a host's software, whatever queries fail, as
\* long as no page is shifted and no reap runs on hosts that were not
\* written.
THEOREM InstalledSafe == LossFree => (Spec => []InstalledNotLost)
<1> SUFFICES ASSUME LossFree PROVE Spec => []InstalledNotLost
  OBVIOUS
<1>1. IInv => InstalledNotLost
  BY DEF IInv, NotLost, InstalledNotLost
<1> QED
  BY <1>1, Inductive, PTL

\* Under the same conditions a full scan's reap spares every host that Fleet
\* still reports.
THEOREM ReapSafe == LossFree => (Spec => OnlyGoneReaped)
<1> SUFFICES ASSUME LossFree PROVE Spec => OnlyGoneReaped
  OBVIOUS
<1>1. ASSUME TypeOK, IInv, ReapStaleHosts, NEW h \in node \ node'
      PROVE  h \notin enrolled
  <2>1. h \in Hosts /\ Stale(h) /\ full /\ HostReap
    BY <1>1 DEF ReapStaleHosts, Drop, TypeOK, graphVars
  <2>2. ingested[h] # nowISO /\ HostTeam[h] \in scope
    BY <1>1, <2>1, TimeAssumption
    DEF Stale, IInv, Clocks, Ingesting, TypeOK, Time, ReapStaleHosts
  <2>3. pc = "reap" /\ h \notin toRead /\ h \notin hostBatch /\ ~truncated
    BY <1>1, <2>1 DEF ReapStaleHosts, IInv, Phases
  <2> QED
    BY <1>1, <2>1, <2>2, <2>3 DEF IInv, Seen
<1>2. TypeOK /\ IInv /\ [Next]_vars
        => [ReapStaleHosts => \A h \in node \ node' : h \notin enrolled]_vars
  BY <1>1
<1> QED
  BY <1>2, Inductive, PTL DEF Spec, OnlyGoneReaped

LEMMA InitEmptied == Init => EInv
  BY TimeAssumption, HostTeamAssumption
  DEF Init, EInv, Marked, EmptiedAccounted, EmptiedKept, Covered, Ingesting

\* The watermark also passes over no host that came to report nothing, as long
\* as no host is left with edges and no stamp.
THEOREM NothingIsLost == PruneFree => (Spec => []NothingLost)
<1> SUFFICES ASSUME PruneFree PROVE Spec => []NothingLost
  OBVIOUS
<1>1. Init => TypeOK /\ IInv /\ EInv
  BY InitType, InitInv, InitEmptied
<1>2. TypeOK /\ IInv /\ EInv /\ [Next]_vars => (TypeOK /\ IInv /\ EInv)'
  <2> SUFFICES ASSUME TypeOK, IInv, EInv, [Next]_vars
               PROVE  (TypeOK /\ IInv /\ EInv)'
    OBVIOUS
  <2>1. TypeOK' /\ IInv'
    BY NextType, NextInv
  <2> QED
    BY <2>1, NextEmptied DEF EInv, Emptying
<1>3. IInv /\ EInv => NothingLost
  BY DEF PruneFree, IInv, EInv, NotLost, EmptiedKept, NothingLost, InstalledNotLost,
         EmptiedNotLost
<1> QED
  BY <1>1, <1>2, <1>3, PTL DEF Spec
=============================================================================
