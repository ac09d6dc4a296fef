------------------------------ MODULE LabelSync ------------------------------
(***************************************************************************)
(* How an ETL run mirrors Fleet's labels: the payload and the memberships  *)
(* are fetched before the hosts are ingested, then                         *)
(* SyncLabelsWithMembership brings the HAS_LABEL edges of each label up to *)
(* date (internal/ingest), and the two reaps that follow may delete hosts  *)
(* and labels.  A label node keeps the member set of its last sync, as a   *)
(* hash and as a blob; both are written by one query, so they are one set  *)
(* here.                                                                   *)
(*                                                                         *)
(* A query is a step.  It may be given up after its retries (the sync goes *)
(* on), or fail with an error that ends the sync ("abort"), or the process *)
(* may die ("crash").                                                      *)
(***************************************************************************)
EXTENDS Naturals, FiniteSets

CONSTANTS
  Hosts, Labels,  \* Fleet's ids
  ReapAge,        \* LabelReapAgeSeconds
  MaxTime,        \* bound on the clock
  QuietFrom,      \* when Fleet stops changing and queries stop failing
  MaxStreak,      \* bound on the history variable streak
  Changes,        \* what may change, a subset of ChangeKinds
  Faults          \* what may fail, a subset of FaultKinds

ChangeKinds == {"members", "list", "hosts"}

(***************************************************************************)
(* "page": a page of /labels failed, the rows so far are returned.         *)
(* "fetch": a membership could not be fetched.  "nodes", "remove", "add",  *)
(* "relink": an execRetry that gave up on the MERGE of the labels, on the  *)
(* two queries of a delta, on the MERGE of a rewrite.  "mark":             *)
(* MarkLabelSyncFailure failed.  "reap": a reap failed.                    *)
(***************************************************************************)
FaultKinds == {"page", "fetch", "nodes", "remove", "add", "relink", "abort",
               "mark", "reap", "crash"}

ASSUME HostsAssumption == IsFiniteSet(Hosts)
ASSUME BoundsAssumption == /\ ReapAge \in Nat /\ MaxTime \in Nat
                           /\ QuietFrom \in Nat /\ MaxStreak \in Nat
ASSUME KindsAssumption == Changes \subseteq ChangeKinds /\ Faults \subseteq FaultKinds

VARIABLES
  clock,
  listed, members,      \* Fleet: its labels and their hosts
  node,                 \* the hosts with a :Host node
  labelNode,            \* the labels with a :Label node
  edges,                \* HAS_LABEL
  hashed, blob,         \* labels with a stored hash and blob, and their value
  orphans,              \* orphan_member_ids (not cut at 50)
  lastSynced,           \* last_synced_iso
  failures,             \* consecutive_failures
  streak,               \* history: failed syncs of a label in a row
  pc,                   \* where the run is
  payload, memberMap,   \* labels fetched; members, for those of got
  got,                  \* labels whose membership was fetched
  step                  \* the next query of each label

fleetVars == <<clock, listed, members>>
labelVars == <<labelNode, edges, hashed, blob, orphans, lastSynced, failures>>
runVars   == <<payload, memberMap, got>>
vars == <<fleetVars, node, labelVars, streak, pc, runVars, step>>

Steps == {"none", "todo", "remove", "add", "orphans", "clear", "count",
          "relink", "stamp"}

TypeOK ==
  /\ clock \in 1 .. (MaxTime + 1)
  /\ listed \subseteq Labels /\ members \in [Labels -> SUBSET Hosts]
  /\ node \subseteq Hosts /\ labelNode \subseteq Labels
  /\ edges \in [Labels -> SUBSET Hosts]
  /\ hashed \subseteq Labels /\ blob \in [Labels -> SUBSET Hosts]
  /\ orphans \in [Labels -> SUBSET Hosts]
  /\ lastSynced \in [Labels -> Nat] /\ failures \in [Labels -> Nat]
  /\ streak \in [Labels -> 0 .. MaxStreak]
  /\ pc \in {"idle", "ingest", "sync", "sweep", "unattached"}
  /\ payload \subseteq Labels /\ got \subseteq payload
  /\ memberMap \in [Labels -> SUBSET Hosts]
  /\ step \in [Labels -> Steps]

Init ==
  /\ clock = 1
  /\ listed = Labels /\ members \in [Labels -> SUBSET Hosts]
  /\ node \in SUBSET Hosts
  /\ labelNode = {} /\ edges = [l \in Labels |-> {}]
  /\ hashed = {} /\ blob = [l \in Labels |-> {}]
  /\ orphans = [l \in Labels |-> {}]
  /\ lastSynced = [l \in Labels |-> 0] /\ failures = [l \in Labels |-> 0]
  /\ streak = [l \in Labels |-> 0] /\ pc = "idle"
  /\ payload = {} /\ memberMap = [l \in Labels |-> {}] /\ got = {}
  /\ step = [l \in Labels |-> "none"]

Changing(k) == k \in Changes /\ clock < QuietFrom
Fails(k) == k \in Faults /\ clock < QuietFrom

-----------------------------------------------------------------------------
Tick ==
  /\ clock <= MaxTime
  /\ clock' = clock + 1
  /\ UNCHANGED <<listed, members, node, labelVars, streak, pc, runVars, step>>

Relabel(l, M) ==
  /\ Changing("members")
  /\ members' = [members EXCEPT ![l] = M]
  /\ UNCHANGED <<clock, listed, node, labelVars, streak, pc, runVars, step>>

List(L) ==
  /\ Changing("list")
  /\ listed' = L
  /\ UNCHANGED <<clock, members, node, labelVars, streak, pc, runVars, step>>

-----------------------------------------------------------------------------
(***************************************************************************)
(* The fetch, then the ingest of the hosts.                                *)
(***************************************************************************)
Fetch(P, G) ==
  /\ pc = "idle"
  /\ P \subseteq listed /\ (P # listed => Fails("page"))
  /\ G \subseteq P /\ (G # P => Fails("fetch"))
  /\ pc' = "ingest"
  /\ payload' = P /\ got' = G
  /\ memberMap' = [l \in Labels |-> IF l \in G THEN members[l] ELSE {}]
  /\ UNCHANGED <<fleetVars, node, labelVars, streak, step>>

IngestHosts(S) ==
  /\ pc = "ingest" /\ Changing("hosts")
  /\ node' = node \cup S
  /\ UNCHANGED <<fleetVars, labelVars, streak, pc, runVars, step>>

(***************************************************************************)
(* SyncLabelsWithMembership.  batchMergeLabels first: every label of the   *)
(* payload gets a node, today's date and a clean status.  An empty payload *)
(* goes straight to the reap.                                              *)
(***************************************************************************)
batchMergeLabels ==
  /\ pc = "ingest"
  /\ \/ /\ labelNode' = labelNode \cup payload
        /\ lastSynced' = [l \in Labels |-> IF l \in payload THEN clock
                                                            ELSE lastSynced[l]]
        /\ failures' = [l \in Labels |-> IF l \in payload THEN 0
                                                          ELSE failures[l]]
     \/ Fails("nodes") /\ UNCHANGED <<labelNode, lastSynced, failures>>
  /\ step' = [l \in Labels |-> IF l \in got THEN "todo" ELSE "none"]
  /\ pc' = "sync"
  /\ UNCHANGED <<fleetVars, node, edges, hashed, blob, orphans, streak,
                 runVars>>

Go(l, s) == step' = [step EXCEPT ![l] = s]

\* What the queries on label l read of its node; without one, nothing.
Matches(l) == l \in labelNode /\ l \in hashed /\ blob[l] = memberMap[l]
Live(l) == edges[l]
DriftIgnored(l) == TRUE  \* the edges are not counted
\* The edge count of a label whose hash matches is the one its members with a
\* node would give.
CountRight(l) == Cardinality(Live(l)) = Cardinality(memberMap[l] \cap node)
Orphaned(l) == memberMap[l] \ node

syncVars == <<fleetVars, node, labelNode, lastSynced, failures, streak, pc,
              runVars>>

\* syncSingleLabelMembership: the labels are taken one after the other.
Current(l) == step[l] = "todo" /\ \A k \in Labels : step[k] \in {"none", "todo"}

Unchanged(l) ==
  /\ Current(l) /\ Matches(l) /\ CountRight(l)
  /\ orphans' = [orphans EXCEPT ![l] = Orphaned(l)]
  /\ Go(l, "none")
  /\ UNCHANGED <<syncVars, edges, hashed, blob>>

BeginRewrite(l) ==
  /\ Current(l)
  /\ (Matches(l) /\ ~CountRight(l)) \/ l \notin labelNode \cap hashed
  /\ Go(l, "clear")
  /\ UNCHANGED <<syncVars, edges, hashed, blob, orphans>>

BeginDelta(l) ==
  /\ Current(l)
  /\ l \in labelNode \cap hashed /\ ~Matches(l)
  /\ Go(l, "remove")
  /\ UNCHANGED <<syncVars, edges, hashed, blob, orphans>>

\* deltaApplyLabelMembership
DeltaRemove(l) ==
  /\ step[l] = "remove"
  /\ \/ edges' = [edges EXCEPT ![l] = @ \ (blob[l] \ memberMap[l])]
     \/ Fails("remove") /\ UNCHANGED edges
  /\ Go(l, "add")
  /\ UNCHANGED <<syncVars, hashed, blob, orphans>>

Added(l) == memberMap[l] \ blob[l]

DeltaAdd(l) ==
  /\ step[l] = "add"
  /\ \/ edges' = [edges EXCEPT ![l] = @ \cup (Added(l) \cap node)]
     \/ Fails("add") /\ UNCHANGED edges
  /\ Go(l, "orphans")
  /\ UNCHANGED <<syncVars, hashed, blob, orphans>>

\* Only hosts just added and hosts already known as orphans are looked up.
DeltaOrphans(l) ==
  /\ step[l] = "orphans"
  /\ orphans' = [orphans EXCEPT
                   ![l] = ((Added(l) \cup @) \cap memberMap[l]) \ node]
  /\ Go(l, "stamp")
  /\ UNCHANGED <<syncVars, edges, hashed, blob>>

\* fullRewriteLabelMembership; a label without a node has no edges.
ClearedMembers(l) == edges[l] \ memberMap[l]  \* strangers keep their edges
Cleared(l) == {}

Clear(l) ==
  /\ step[l] = "clear"
  /\ edges' = [edges EXCEPT ![l] = Cleared(l)]
  /\ Go(l, "count")
  /\ UNCHANGED <<syncVars, hashed, blob, orphans>>

RewriteOrphans(l) ==
  /\ step[l] = "count"
  /\ orphans' = IF l \in labelNode THEN [orphans EXCEPT ![l] = Orphaned(l)]
                                   ELSE orphans
  /\ Go(l, "relink")
  /\ UNCHANGED <<syncVars, edges, hashed, blob>>

RelinkAll(l) == memberMap[l]  \* hosts without a node too
Relinked(l) == memberMap[l] \cap node

Relink(l) ==
  /\ step[l] = "relink"
  /\ \/ edges' = IF l \in labelNode THEN [edges EXCEPT ![l] = @ \cup Relinked(l)]
                                    ELSE edges
     \/ Fails("relink") /\ UNCHANGED edges
  /\ Go(l, "stamp")
  /\ UNCHANGED <<syncVars, hashed, blob, orphans>>

\* The hash and the blob are stored whether or not the edges were written.
Stamp(l) ==
  /\ step[l] = "stamp"
  /\ IF l \in labelNode
       THEN /\ hashed' = hashed \cup {l}
            /\ blob' = [blob EXCEPT ![l] = memberMap[l]]
            /\ lastSynced' = [lastSynced EXCEPT ![l] = clock]
       ELSE UNCHANGED <<hashed, blob, lastSynced>>
  /\ Go(l, "none")
  /\ UNCHANGED <<fleetVars, node, labelNode, failures, streak, pc, runVars,
                 edges, orphans>>

\* Deleting a label node deletes its edges and what it stored.
Forget(L) ==
  /\ labelNode' = labelNode \ L
  /\ hashed' = hashed \ L
  /\ edges' = [l \in Labels |-> IF l \in L THEN {} ELSE edges[l]]
  /\ blob' = [l \in Labels |-> IF l \in L THEN {} ELSE blob[l]]
  /\ orphans' = [l \in Labels |-> IF l \in L THEN {} ELSE orphans[l]]
  /\ lastSynced' = [l \in Labels |-> IF l \in L THEN 0 ELSE lastSynced[l]]
  /\ failures' = [l \in Labels |-> IF l \in L THEN 0 ELSE failures[l]]

Old(l) == lastSynced[l] + ReapAge < clock

reapStaleLabels ==
  /\ pc = "sync" /\ \A l \in Labels : step[l] = "none"
  /\ Forget({l \in labelNode \ payload : Old(l)})
  /\ streak' = [l \in Labels |-> 0]
  /\ pc' = "sweep"
  /\ UNCHANGED <<fleetVars, node, runVars, step>>

\* Counted up to MaxStreak.
Counted(f) == [l \in Labels |-> IF l \in labelNode /\ f[l] < MaxStreak
                                 THEN f[l] + 1 ELSE f[l]]

\* Any query of the sync returned an error: MarkLabelSyncFailure.
SyncAborts ==
  /\ Fails("abort")
  /\ pc \in {"ingest", "sync"}
  /\ \/ failures' = Counted(failures)
     \/ Fails("mark") /\ UNCHANGED failures
  /\ streak' = Counted(streak)
  /\ pc' = "sweep"
  /\ step' = [l \in Labels |-> "none"]
  /\ UNCHANGED <<fleetVars, node, labelNode, edges, hashed, blob, orphans,
                 lastSynced, runVars>>

-----------------------------------------------------------------------------
(***************************************************************************)
(* The reaps that end the run.  Which hosts are stale, or have no edge but *)
(* label edges, is not modelled: any may be.                               *)
(***************************************************************************)
ResetPayload == payload' = {} /\ UNCHANGED <<got, memberMap>>
ResetRun == /\ payload' = {} /\ got' = {}
            /\ memberMap' = [l \in Labels |-> {}]

Detach(S) == /\ node' = node \ S
             /\ edges' = [l \in Labels |-> edges[l] \ S]

ReapStaleHosts(S) ==
  /\ pc = "sweep"
  /\ S # {} => Changing("hosts")
  /\ Detach(S)
  /\ pc' = "unattached"
  /\ UNCHANGED <<fleetVars, labelNode, hashed, blob, orphans, lastSynced,
                 failures, streak, runVars, step>>

Unlinked == {h \in node : \A l \in Labels : h \notin edges[l]}

ReapUnattached(S) ==
  /\ pc = "unattached"
  /\ S \subseteq Unlinked /\ (S # {} => Changing("hosts"))
  /\ node' = node \ S
  /\ \/ Forget({l \in labelNode : edges[l] = {}})
     \/ Fails("reap") /\ UNCHANGED labelVars
  /\ streak' = [l \in Labels |-> IF l \in labelNode' THEN streak[l] ELSE 0]
  /\ pc' = "idle" /\ ResetRun
  /\ UNCHANGED <<fleetVars, step>>

Crash ==
  /\ Fails("crash") /\ pc # "idle"
  /\ pc' = "idle" /\ ResetRun
  /\ step' = [l \in Labels |-> "none"]
  /\ UNCHANGED <<fleetVars, node, labelVars, streak>>

LabelStep(l) ==
  /\ pc = "sync"
  /\ \/ Unchanged(l) \/ BeginRewrite(l) \/ BeginDelta(l)
     \/ DeltaRemove(l) \/ DeltaAdd(l) \/ DeltaOrphans(l)
     \/ Clear(l) \/ RewriteOrphans(l) \/ Relink(l)
     \/ Stamp(l)

Run ==
  \/ \E P, G \in SUBSET Labels : Fetch(P, G)
  \/ batchMergeLabels
  \/ \E l \in Labels : LabelStep(l)
  \/ reapStaleLabels
  \/ \E S \in SUBSET node : ReapStaleHosts(S) \/ ReapUnattached(S)

Next ==
  \/ Tick
  \/ \E l \in Labels, M \in SUBSET Hosts : Relabel(l, M)
  \/ \E L \in SUBSET Labels : List(L)
  \/ \E S \in SUBSET Hosts : IngestHosts(S)
  \/ Run \/ SyncAborts \/ Crash

Spec == Init /\ [][Next]_vars

\* The loop starts a run each interval, and a run goes on.
FairSpec == Spec /\ WF_vars(Tick) /\ WF_vars(Run)

-----------------------------------------------------------------------------
\* The drift check is exact: a sync that leaves a label as it is leaves it
\* with the edges of Fleet's members that have a node.
DriftCaught ==
  [][\A l \in Labels : LabelStep(l) /\ Unchanged(l)
                         => edges[l] = memberMap[l] \cap node]_vars

\* A label is linked only to members that its last sync was told of, and only
\* to hosts in the graph; while a sync is writing, to the new members too.
OnlyMembersLinked ==
  \A l \in Labels :
    edges[l] \subseteq node \cap (blob[l] \cup memberMap[l])

\* A full rewrite repairs whatever dead or aborted syncs left behind.
RewriteRepairs ==
  [][\A l \in labelNode : LabelStep(l) /\ Relink(l)
                            => edges'[l] = memberMap[l] \cap node]_vars

\* Once Fleet is quiet, every label Fleet lists gets exactly the edges of its
\* members and keeps them, including members whose node came back.
LabelsConverge ==
  <>[](\A l \in listed : edges[l] = members[l] \cap node)

\* Failed syncs in a row are counted as such: a label that failed three
\* times, which is when the UI warns, counts three.
FailuresCounted ==
  pc = "idle" => \A l \in labelNode : failures[l] >= streak[l]
=============================================================================
