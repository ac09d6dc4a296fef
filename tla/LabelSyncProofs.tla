--------------------------- MODULE LabelSyncProofs ---------------------------
(***************************************************************************)
(* What is proved about LabelSync for any hosts and labels: as long as no  *)
(* sync dies between its queries and no delta loses its DELETE, counting   *)
(* the edges is enough to tell a label that is right from one that is not. *)
(* And whatever came before it, a full rewrite makes a label right.        *)
(***************************************************************************)
EXTENDS LabelSync, FiniteSetTheorems, TLAPS

\* The failures that leave an edge its label's blob does not know of.
NoStrangers == Faults \cap {"remove", "abort", "crash"} = {}

\* Where a label's edges may lead, query by query.
Bounded(l) ==
  /\ edges[l] \subseteq node
  /\ step[l] \in {"none", "todo", "remove", "clear"} => edges[l] \subseteq blob[l]
  /\ step[l] = "add" => edges[l] \subseteq blob[l] \cap memberMap[l]
  /\ step[l] \in {"orphans", "stamp"} => edges[l] \subseteq memberMap[l]
  /\ step[l] \in {"count", "relink"} => edges[l] = {}
  /\ l \notin labelNode => edges[l] = {}
  /\ l \notin labelNode => step[l] \notin {"remove", "add", "orphans"}

LInv ==
  /\ pc # "sync" => \A l \in Labels : step[l] = "none"
  /\ \A l \in Labels : Bounded(l)

LEMMA InitType == Init => TypeOK
  BY BoundsAssumption DEF Init, TypeOK, Steps

LEMMA NextType == TypeOK /\ [Next]_vars => TypeOK'
<1> SUFFICES ASSUME TypeOK, [Next]_vars PROVE TypeOK'
  OBVIOUS
<1> USE BoundsAssumption
    DEF TypeOK, Steps, fleetVars, labelVars, runVars, syncVars, Go
<1>1. CASE Tick
  BY <1>1 DEF Tick
<1>2. ASSUME NEW l \in Labels, NEW M \in SUBSET Hosts, Relabel(l, M)
      PROVE  TypeOK'
  BY <1>2 DEF Relabel
<1>3. ASSUME NEW L \in SUBSET Labels, List(L)
      PROVE  TypeOK'
  BY <1>3 DEF List
<1>4. ASSUME NEW S \in SUBSET Hosts, IngestHosts(S)
      PROVE  TypeOK'
  BY <1>4 DEF IngestHosts
<1>5. ASSUME NEW P \in SUBSET Labels, NEW G \in SUBSET Labels, Fetch(P, G)
      PROVE  TypeOK'
  BY <1>5 DEF Fetch
<1>6. CASE batchMergeLabels
  BY <1>6 DEF batchMergeLabels
<1>7. ASSUME NEW l \in Labels, LabelStep(l)
      PROVE  TypeOK'
  <2>1. CASE Unchanged(l) \/ BeginRewrite(l) \/ BeginDelta(l)
    BY <2>1 DEF Unchanged, BeginRewrite, BeginDelta, Orphaned
  <2>2. CASE DeltaRemove(l) \/ DeltaAdd(l) \/ DeltaOrphans(l)
    BY <2>2 DEF DeltaRemove, DeltaAdd, DeltaOrphans, Added
  <2>3. CASE Clear(l) \/ RewriteOrphans(l) \/ Relink(l)
    BY <2>3 DEF Clear, Cleared, RewriteOrphans, Orphaned, Relink, Relinked
  <2>4. CASE Stamp(l)
    BY <2>4 DEF Stamp
  <2> QED
    BY <1>7, <2>1, <2>2, <2>3, <2>4 DEF LabelStep
<1>8. CASE reapStaleLabels
  BY <1>8 DEF reapStaleLabels, Forget
<1>9. ASSUME NEW S \in SUBSET node, ReapStaleHosts(S)
      PROVE  TypeOK'
  BY <1>9 DEF ReapStaleHosts, Detach
<1>10. ASSUME NEW S \in SUBSET node, ReapUnattached(S)
       PROVE  TypeOK'
  BY <1>10 DEF ReapUnattached, ResetRun, Forget
<1>11. CASE SyncAborts
  BY <1>11 DEF SyncAborts, Counted
<1>12. CASE Crash
  BY <1>12 DEF Crash, ResetRun
<1>13. CASE UNCHANGED vars
  BY <1>13 DEF vars
<1> QED
  BY <1>1, <1>2, <1>3, <1>4, <1>5, <1>6, <1>7, <1>8, <1>9, <1>10, <1>11,
     <1>12, <1>13 DEF Next, Run

\* The variables of Fleet, the graph and a sync keep their types.
THEOREM TypeCorrect == Spec => []TypeOK
  BY InitType, NextType, PTL DEF Spec

-----------------------------------------------------------------------------
LEMMA InitInv == Init => LInv
  BY DEF Init, LInv, Bounded

LEMMA NextInv == NoStrangers /\ TypeOK /\ LInv /\ [Next]_vars => LInv'
<1> SUFFICES ASSUME NoStrangers, TypeOK, LInv, [Next]_vars PROVE LInv'
  OBVIOUS
<1> USE DEF TypeOK, Steps, LInv, Bounded, fleetVars, labelVars, runVars,
            syncVars, Go
<1>1. CASE Tick
  BY <1>1 DEF Tick
<1>2. ASSUME NEW l \in Labels, NEW M \in SUBSET Hosts, Relabel(l, M)
      PROVE  LInv'
  BY <1>2 DEF Relabel
<1>3. ASSUME NEW L \in SUBSET Labels, List(L)
      PROVE  LInv'
  BY <1>3 DEF List
<1>4. ASSUME NEW S \in SUBSET Hosts, IngestHosts(S)
      PROVE  LInv'
  BY <1>4 DEF IngestHosts
<1>5. ASSUME NEW P \in SUBSET Labels, NEW G \in SUBSET Labels, Fetch(P, G)
      PROVE  LInv'
  BY <1>5 DEF Fetch
<1>6. CASE batchMergeLabels
  BY <1>6 DEF batchMergeLabels
<1>7. ASSUME NEW l \in Labels, LabelStep(l)
      PROVE  LInv'
  <2>1. CASE Unchanged(l) \/ BeginRewrite(l) \/ BeginDelta(l)
    BY <1>7, <2>1 DEF LabelStep, Current, Unchanged, BeginRewrite, BeginDelta
  <2>2. CASE DeltaRemove(l)
    <3>1. edges' = [edges EXCEPT ![l] = @ \ (blob[l] \ memberMap[l])]
      BY <2>2 DEF DeltaRemove, NoStrangers, Fails
    <3>2. edges'[l] \subseteq node \cap blob[l] \cap memberMap[l]
      BY <2>2, <3>1 DEF DeltaRemove
    <3> QED
      BY <1>7, <2>2, <3>1, <3>2 DEF LabelStep, DeltaRemove
  <2>3. CASE DeltaAdd(l)
    <3>1. edges'[l] \subseteq node \cap memberMap[l]
      BY <2>3 DEF DeltaAdd, Added
    <3> QED
      BY <1>7, <2>3, <3>1 DEF LabelStep, DeltaAdd
  <2>4. CASE DeltaOrphans(l)
    BY <1>7, <2>4 DEF LabelStep, DeltaOrphans
  <2>5. CASE Clear(l)
    BY <1>7, <2>5 DEF LabelStep, Clear, Cleared
  <2>6. CASE RewriteOrphans(l)
    BY <1>7, <2>6 DEF LabelStep, RewriteOrphans
  <2>7. CASE Relink(l)
    BY <1>7, <2>7 DEF LabelStep, Relink, Relinked
  <2>8. CASE Stamp(l)
    BY <1>7, <2>8 DEF LabelStep, Stamp
  <2> QED
    BY <1>7, <2>1, <2>2, <2>3, <2>4, <2>5, <2>6, <2>7, <2>8 DEF LabelStep
<1>8. CASE reapStaleLabels
  BY <1>8 DEF reapStaleLabels, Forget
<1>9. ASSUME NEW S \in SUBSET node, ReapStaleHosts(S)
      PROVE  LInv'
  BY <1>9 DEF ReapStaleHosts, Detach
<1>10. ASSUME NEW S \in SUBSET node, ReapUnattached(S)
       PROVE  LInv'
  BY <1>10 DEF ReapUnattached, Unlinked, ResetRun, Forget
<1>11. CASE SyncAborts \/ Crash
  BY <1>11 DEF SyncAborts, Crash, NoStrangers, Fails
<1>12. CASE UNCHANGED vars
  BY <1>12 DEF vars
<1> HIDE DEF LInv
<1> QED
  BY <1>1, <1>2, <1>3, <1>4, <1>5, <1>6, <1>7, <1>8, <1>9, <1>10, <1>11,
     <1>12 DEF Next, Run

THEOREM Inductive == NoStrangers => (Spec => [](TypeOK /\ LInv))
<1> SUFFICES ASSUME NoStrangers PROVE Spec => [](TypeOK /\ LInv)
  OBVIOUS
<1>1. Init => TypeOK /\ LInv
  BY InitType, InitInv
<1>2. TypeOK /\ LInv /\ [Next]_vars => (TypeOK /\ LInv)'
  BY NextType, NextInv
<1> QED
  BY <1>1, <1>2, PTL DEF Spec

\* Every HAS_LABEL edge leads to a host in the graph that was a member when
\* the label was last synced, or is one in the sync under way.
THEOREM MembersLinked == NoStrangers => (Spec => []OnlyMembersLinked)
<1> SUFFICES ASSUME NoStrangers PROVE Spec => []OnlyMembersLinked
  OBVIOUS
<1>1. TypeOK /\ LInv => OnlyMembersLinked
  BY DEF TypeOK, Steps, LInv, Bounded, OnlyMembersLinked
<1> QED
  BY <1>1, Inductive, PTL

\* The drift check of syncSingleLabelMembership compares two counts only;
\* they are equal only if the edges are right.
THEOREM DriftExact == NoStrangers => (Spec => DriftCaught)
<1> SUFFICES ASSUME NoStrangers PROVE Spec => DriftCaught
  OBVIOUS
<1>1. ASSUME TypeOK, LInv, NEW l \in Labels, Unchanged(l)
      PROVE  edges[l] = memberMap[l] \cap node
  <2>1. edges[l] \subseteq memberMap[l] \cap node
    BY <1>1 DEF LInv, Bounded, Unchanged, Current, Matches
  <2>2. IsFiniteSet(memberMap[l] \cap node)
    <3>1. memberMap[l] \cap node \in SUBSET Hosts
      BY <1>1 DEF TypeOK
    <3> QED
      BY <3>1, HostsAssumption, FS_Subset
  <2>3. Cardinality(edges[l]) = Cardinality(memberMap[l] \cap node)
    BY <1>1 DEF Unchanged, CountRight, Live
  <2> QED
    BY <2>1, <2>2, <2>3, FS_Subset
<1>2. TypeOK /\ LInv /\ [Next]_vars
        => [\A l \in Labels : LabelStep(l) /\ Unchanged(l)
                              => edges[l] = memberMap[l] \cap node]_vars
  BY <1>1
<1> QED
  BY <1>2, Inductive, PTL DEF Spec, DriftCaught

-----------------------------------------------------------------------------
(***************************************************************************)
(* A full rewrite.  Whatever was left behind by earlier syncs, the label   *)
(* has no edges between the DELETE and the MERGE: nothing else links it,   *)
(* and a sync that dies there is not resumed.                              *)
(***************************************************************************)
Emptied ==
  /\ pc # "sync" => \A l \in Labels : step[l] = "none"
  /\ \A l \in Labels : step[l] \in {"count", "relink"} => edges[l] = {}

LEMMA NextEmptied == TypeOK /\ Emptied /\ [Next]_vars => Emptied'
<1> SUFFICES ASSUME TypeOK, Emptied, [Next]_vars PROVE Emptied'
  OBVIOUS
<1> USE DEF TypeOK, Steps, Emptied, fleetVars, labelVars, runVars, syncVars, Go
<1>1. CASE Tick
  BY <1>1 DEF Tick
<1>2. ASSUME NEW l \in Labels, NEW M \in SUBSET Hosts, Relabel(l, M)
      PROVE  Emptied'
  BY <1>2 DEF Relabel
<1>3. ASSUME NEW L \in SUBSET Labels, List(L)
      PROVE  Emptied'
  BY <1>3 DEF List
<1>4. ASSUME NEW S \in SUBSET Hosts, IngestHosts(S)
      PROVE  Emptied'
  BY <1>4 DEF IngestHosts
<1>5. ASSUME NEW P \in SUBSET Labels, NEW G \in SUBSET Labels, Fetch(P, G)
      PROVE  Emptied'
  BY <1>5 DEF Fetch
<1>6. CASE batchMergeLabels
  BY <1>6 DEF batchMergeLabels
<1>7. ASSUME NEW l \in Labels, LabelStep(l)
      PROVE  Emptied'
  <2>1. CASE Unchanged(l) \/ BeginRewrite(l) \/ BeginDelta(l)
    BY <1>7, <2>1 DEF LabelStep, Unchanged, BeginRewrite, BeginDelta
  <2>2. CASE DeltaRemove(l) \/ DeltaAdd(l) \/ DeltaOrphans(l)
    BY <1>7, <2>2 DEF LabelStep, DeltaRemove, DeltaAdd, DeltaOrphans
  <2>3. CASE Clear(l)
    BY <1>7, <2>3 DEF LabelStep, Clear, Cleared
  <2>4. CASE RewriteOrphans(l) \/ Stamp(l)
    BY <1>7, <2>4 DEF LabelStep, RewriteOrphans, Stamp
  <2>5. CASE Relink(l)
    BY <1>7, <2>5 DEF LabelStep, Relink
  <2> QED
    BY <1>7, <2>1, <2>2, <2>3, <2>4, <2>5 DEF LabelStep
<1>8. CASE reapStaleLabels
  BY <1>8 DEF reapStaleLabels, Forget
<1>9. ASSUME NEW S \in SUBSET node, ReapStaleHosts(S)
      PROVE  Emptied'
  BY <1>9 DEF ReapStaleHosts, Detach
<1>10. ASSUME NEW S \in SUBSET node, ReapUnattached(S)
       PROVE  Emptied'
  BY <1>10 DEF ReapUnattached, ResetRun, Forget
<1>11. CASE SyncAborts \/ Crash
  BY <1>11 DEF SyncAborts, Crash
<1>12. CASE UNCHANGED vars
  BY <1>12 DEF vars
<1> HIDE DEF Emptied
<1> QED
  BY <1>1, <1>2, <1>3, <1>4, <1>5, <1>6, <1>7, <1>8, <1>9, <1>10, <1>11,
     <1>12 DEF Next, Run

\* A full rewrite that loses no MERGE leaves a label with the edges of Fleet's
\* members that have a node, whatever dead syncs, lost deletes and reaps left
\* before it (fullRewriteLabelMembership).
THEOREM RewritesRepair == "relink" \notin Faults => (Spec => RewriteRepairs)
<1> SUFFICES ASSUME "relink" \notin Faults PROVE Spec => RewriteRepairs
  OBVIOUS
<1>1. Init => TypeOK /\ Emptied
  BY InitType DEF Init, Emptied
<1>2. TypeOK /\ Emptied /\ [Next]_vars => (TypeOK /\ Emptied)'
  BY NextType, NextEmptied
<1>3. ASSUME TypeOK, Emptied, NEW l \in labelNode, Relink(l)
      PROVE  edges'[l] = memberMap[l] \cap node
  BY <1>3 DEF TypeOK, Emptied, Relink, Relinked, Fails
<1>4. TypeOK /\ Emptied /\ [Next]_vars
        => [\A l \in labelNode : LabelStep(l) /\ Relink(l)
                                 => edges'[l] = memberMap[l] \cap node]_vars
  BY <1>3
<1> QED
  BY <1>1, <1>2, <1>4, PTL DEF Spec, RewriteRepairs
=============================================================================
