--------------------------- MODULE SnapshotsProofs ---------------------------
(***************************************************************************)
(* What is proved about Snapshots for any nodes and edges of a graph, any  *)
(* number of runs and any retention.  SnapshotsInv says how far the        *)
(* snapshot in the making follows the graph, which only loses nodes while  *)
(* it is written, and what the pruning has still to remove.                *)
(***************************************************************************)
EXTENDS Snapshots, FiniteSetTheorems, TLAPS

Files == {<<>>} \cup {<<g>> : g \in Graphs}

\* The types that the steps need.
SnapsTyped ==
  /\ SnapshotsTypeOK
  /\ snap \in [Times -> [file: Files, meta: BOOLEAN, old: BOOLEAN]]

\* The node queries that were made have read every node there is.
ReadSoFar ==
  \A n \in There \ Nameless, i \in 1 .. 4 :
    i <= section /\ Kind[n] = NodeQueries[i] => n \in DOMAIN draft.nodes

\* Edges have their ends in the graph, in the draft and in the files.
EndsKnown ==
  /\ \A l \in graph.edges : {l.from, l.to} \subseteq There
  /\ wpc = "stream" =>
       ReadSoFar /\ \A l \in draft.edges : {l.from, l.to} \subseteq DOMAIN draft.nodes
  /\ EdgesHaveEnds

\* What each phase of the writer may rely on, and what the retention leaves.
Retained ==
  /\ wpc # "idle" => now \in Times
  /\ \A t \in Written : t <= now
  /\ wpc = "meta" => now \in Written /\ ~snap[now].old
  /\ wpc # "prune" => doomed = {}
  /\ newest # 0 => newest \in Written /\ snap[newest].meta /\ newest \notin doomed
  /\ wpc = "prune" /\ Retain > 0 => Cardinality(Written \ doomed) <= Retain

SnapshotsInv == SnapsTyped /\ EndsKnown /\ Retained
-----------------------------------------------------------------------------
(* Graphs and the files they are written to.                               *)

LEMMA GraphParts ==
  ASSUME NEW g \in Graphs
  PROVE  /\ DOMAIN g.nodes \subseteq Things /\ g.edges \subseteq Links
         /\ g.nodes \in [DOMAIN g.nodes -> Props]
         /\ g = [nodes |-> g.nodes, edges |-> g.edges]
BY DEF Graphs

LEMMA GraphMade ==
  ASSUME NEW S \in SUBSET Things, NEW f \in [S -> Props], NEW E \in SUBSET Links
  PROVE  [nodes |-> f, edges |-> E] \in Graphs
BY DEF Graphs

LEMMA EmptyIsGraph == EmptyGraph \in Graphs /\ DOMAIN EmptyGraph.nodes = {} /\ EmptyGraph.edges = {}
<1>1. <<>> \in [{} -> Props]
  OBVIOUS
<1> QED
  BY <1>1, GraphMade DEF EmptyGraph

LEMMA FileRule ==
  ASSUME NEW g \in Graphs
  PROVE  <<g>> \in Files /\ <<g>> # <<>> /\ <<g>>[1] = g
BY DEF Files

\* A snapshot that was written is a graph.
LEMMA WrittenFiles ==
  ASSUME SnapsTyped, NEW t \in Written
  PROVE  t \in Times /\ File(t) \in Graphs
BY DEF SnapsTyped, SnapshotsTypeOK, Written, File

LEMMA TimesFinite ==
  /\ IsFiniteSet(Times) /\ Times \subseteq Nat \ {0}
  /\ \A S \in SUBSET Times : IsFiniteSet(S) /\ Cardinality(S) \in Nat
<1>1. Cardinality(Times) \in Nat
  BY FS_CardinalityType, SnapshotsAssumption
<1>2. Times \subseteq Nat \ {0}
  BY <1>1, SnapshotsAssumption
<1>3. \A S \in SUBSET Times : IsFiniteSet(S)
  BY FS_Subset, SnapshotsAssumption
<1> QED
  BY <1>2, <1>3, FS_CardinalityType, SnapshotsAssumption
-----------------------------------------------------------------------------
(* The newest k of a set of runs are at most k, and the last is among them.*)

LEMMA LeastElement ==
  ASSUME NEW S \in SUBSET Nat, S # {}
  PROVE  \E m \in S : \A x \in S : m <= x
<1>1. PICK m \in S : \A y \in S : <<y, m>> \notin OpToRel(<, Nat)
  BY WFMin, NatLessThanWellFounded, Zenon
<1>2. \A y \in S : ~(y < m)
  BY <1>1 DEF OpToRel
<1> QED
  BY <1>2

\* No more than k of a set are the newest k of it.
LEMMA NewerBounded ==
  ASSUME NEW T \in SUBSET Times, NEW k \in Nat
  PROVE  Cardinality(Newer(T, k)) <= k
<1> DEFINE N == Newer(T, k)
<1>1. N \in SUBSET T /\ N \in SUBSET Nat
  BY TimesFinite DEF Newer
<1>2. CASE N = {}
  BY <1>2, FS_EmptySet
<1>3. CASE N # {}
  <2>1. PICK m \in N : \A x \in N : m <= x
    BY <1>1, <1>3, LeastElement
  <2> DEFINE Above == {u \in T : u > m}
  <2>2. N \ {m} \in SUBSET Above
    BY <1>1, <2>1
  <2>3. Above \in SUBSET Times /\ N \in SUBSET Times
    BY <1>1
  <2>4. Cardinality(Above) < k
    BY <2>1 DEF Newer
  <2>5. Cardinality(N \ {m}) <= Cardinality(Above)
    BY <2>2, <2>3, TimesFinite, FS_Subset
  <2>6. Cardinality(N \ {m}) = Cardinality(N) - 1
    BY <2>1, <2>3, TimesFinite, FS_RemoveElement
  <2>7. Cardinality(Above) \in Nat /\ Cardinality(N) \in Nat
    BY <2>3, TimesFinite
  <2> QED
    BY <2>4, <2>5, <2>6, <2>7
<1> QED
  BY <1>2, <1>3

\* The last of a set is one of the newest k, if any is kept.
LEMMA LastIsNewer ==
  ASSUME NEW T \in SUBSET Times, NEW t \in T, \A u \in T : u <= t,
         NEW k \in Nat, k > 0
  PROVE  t \in Newer(T, k)
<1>1. \A u \in T : u \in Nat /\ t \in Nat
  BY TimesFinite
<1>2. {u \in T : u > t} = {}
  BY <1>1
<1> QED
  BY <1>2, FS_EmptySet DEF Newer

\* What the pruning leaves is within the retention, and is what was written
\* last, if that is not past the horizon.
LEMMA PruneLeaves ==
  ASSUME NEW t \in Written, \A u \in Written : u <= t, ~snap[t].old
  PROVE  /\ Doomed \subseteq Times /\ t \notin Doomed
         /\ Retain > 0 => Cardinality(Written \ Doomed) <= Retain
<1> DEFINE young == {u \in Written : ~snap[u].old}
           kept == Newer(young, Retain)
<1>1. /\ young \in SUBSET Times /\ t \in young /\ Retain \in Nat
      /\ Written \subseteq Times
  BY SnapshotsAssumption DEF Written
<1>2. Retain > 0 => t \in kept
  BY <1>1, LastIsNewer
<1>3. kept \subseteq young
  BY DEF Newer
<1>4. Retain > 0 => Written \ Doomed = kept
  BY <1>1, <1>3 DEF Doomed
<1>5. Cardinality(kept) <= Retain
  BY <1>1, NewerBounded
<1>6. t \notin Doomed
  BY <1>1, <1>2, SnapshotsAssumption DEF Doomed
<1>7. Doomed \subseteq Written
  BY DEF Doomed
<1> QED
  BY <1>1, <1>4, <1>5, <1>6, <1>7

-----------------------------------------------------------------------------
(* Listing and comparing.                                                  *)

\* A snapshot that has its counts is later, to the listing, than every older one.
LEMMA WholeIsLater ==
  ASSUME SnapsTyped, NEW t \in Written, NEW u \in Written, snap[t].meta, u < t
  PROVE  Later(Key(t), Key(u))
<1>1. t \in Nat /\ u \in Nat /\ t \in Times /\ u \in Times
  BY TimesFinite DEF Written
<1>2. Hour[u] <= Hour[t] /\ Hour[u] \in Nat /\ Hour[t] \in Nat
  BY <1>1, SnapshotsAssumption
<1>3. CASE snap[u].meta
  BY <1>1, <1>2, <1>3 DEF Later, Key
<1>4. CASE ~snap[u].meta
  BY <1>1, <1>2, <1>4 DEF Later, Key
<1> QED
  BY <1>3, <1>4

LEMMA LaterTransitive ==
  ASSUME NEW t \in Times, NEW u \in Times, NEW w \in Times,
         Later(Key(t), Key(u)), Later(Key(w), Key(t))
  PROVE  Later(Key(w), Key(u)) /\ ~Later(Key(t), Key(t))
<1>1. \A x \in Times : /\ Key(x)[1] \in Nat /\ Key(x)[2] \in Nat /\ Key(x)[3] \in Nat
  BY TimesFinite, SnapshotsAssumption DEF Key
<1> QED
  BY <1>1 DEF Later

\* The listing of snapshots puts a whole one before every older one.
LEMMA ListedBefore == SnapsTyped => WholeBeforeOlder
<1> SUFFICES ASSUME SnapsTyped, NEW t \in Written, NEW u \in Written, snap[t].meta, u < t
             PROVE  ListSnapshots(t) < ListSnapshots(u)
  BY DEF WholeBeforeOlder
<1> DEFINE Before(x) == {w \in Written : Later(Key(w), Key(x))}
<1>1. Later(Key(t), Key(u))
  BY WholeIsLater
<1>2. Written \subseteq Times
  BY DEF Written
<1>3. Before(t) \subseteq Before(u)
  BY <1>1, <1>2, LaterTransitive
<1>4. t \in Before(u) /\ t \notin Before(t)
  BY <1>1, <1>2, LaterTransitive
<1>5. /\ IsFiniteSet(Before(u)) /\ Cardinality(Before(u)) \in Nat
      /\ Cardinality(Before(t)) \in Nat
  BY <1>2, TimesFinite
<1>6. Cardinality(Before(t)) # Cardinality(Before(u)) /\ Cardinality(Before(t)) <= Cardinality(Before(u))
  BY <1>3, <1>4, <1>5, FS_Subset
<1> QED
  BY <1>5, <1>6 DEF ListSnapshots

\* Of any two graphs, whoever made them.
LEMMA DiffOfGraphs ==
  ASSUME NEW a \in Graphs, NEW b \in Graphs
  PROVE  LET d == DiffSnapshots(a, b)
             Shown(N) == {n \in N : Kind[n] \in {"host", "user"}}
         IN /\ Shown(DOMAIN b.nodes) = Shown((DOMAIN a.nodes \cup d.added) \ d.removed)
            /\ b.edges = (a.edges \cup d.edgesAdded) \ d.edgesRemoved
            /\ \A n \in DOMAIN a.nodes \cap DOMAIN b.nodes :
                 n \in d.changed <=>
                   [a.nodes[n] EXCEPT !.noisy = 0] # [b.nodes[n] EXCEPT !.noisy = 0]
<1> DEFINE d == DiffSnapshots(a, b)
           Shown(N) == {n \in N : Kind[n] \in {"host", "user"}}
<1>1. \A n \in Things : Kind[n] \in {"host", "user"} => bucketOf(n) \in Buckets
  BY DEF bucketOf, Buckets
<1>2. Shown(DOMAIN b.nodes) = Shown((DOMAIN a.nodes \cup d.added) \ d.removed)
  BY <1>1, GraphParts DEF DiffSnapshots
<1>3. b.edges = (a.edges \cup d.edgesAdded) \ d.edgesRemoved
  BY DEF DiffSnapshots
<1>4. \A p, q \in Props :
        p.plain # q.plain <=> [p EXCEPT !.noisy = 0] # [q EXCEPT !.noisy = 0]
  BY DEF Props
<1>5. \A p, q \in Props : p.plain # q.plain <=> Hash(p) # Hash(q) /\ Drift(p, q) # {}
  BY DEF Props, Hash, Drift
<1>6. ASSUME NEW n \in DOMAIN a.nodes \cap DOMAIN b.nodes
      PROVE  n \in d.changed <=>
               [a.nodes[n] EXCEPT !.noisy = 0] # [b.nodes[n] EXCEPT !.noisy = 0]
  <2>1. a.nodes[n] \in Props /\ b.nodes[n] \in Props
    BY GraphParts
  <2>2. n \in d.changed <=> /\ Hash(a.nodes[n]) # Hash(b.nodes[n])
                            /\ Drift(a.nodes[n], b.nodes[n]) # {}
    BY DEF DiffSnapshots
  <2> QED
    BY <2>1, <2>2, <1>4, <1>5
<1> QED
  BY <1>2, <1>3, <1>6

LEMMA FilesReplay == SnapsTyped => DiffReplays
BY WrittenFiles, DiffOfGraphs DEF DiffReplays
-----------------------------------------------------------------------------
(* The invariant.                                                          *)

LEMMA SnapshotsInitInv == SnapshotsInit => SnapshotsInv
<1> SUFFICES ASSUME SnapshotsInit PROVE SnapshotsInv
  OBVIOUS
<1>1. PICK missing \in {{}} \cup {{n} : n \in Things} :
        graph = [nodes |-> [n \in Things \ missing |-> Bare],
                 edges |-> {l \in Links : {l.from, l.to} \cap missing = {}}]
  BY DEF SnapshotsInit
<1>2. graph \in Graphs /\ There = Things \ missing
      /\ graph.edges = {l \in Links : {l.from, l.to} \cap missing = {}}
  <2>1. Bare \in Props
    BY DEF Bare, Props, Absent
  <2> QED
    BY <1>1, <2>1, GraphMade DEF There
<1>3. \A t \in Times : snap[t] = NoSnap
  BY DEF SnapshotsInit
<1>4. /\ NoSnap.file = <<>> /\ NoSnap.file \in Files
      /\ NoSnap.meta \in BOOLEAN /\ NoSnap.old \in BOOLEAN
  BY DEF NoSnap, Files
<1>5. Written = {}
  BY <1>3, <1>4 DEF Written
<1>6. SnapsTyped
  <2>1. NoSnap \in [file: Files, meta: BOOLEAN, old: BOOLEAN]
    BY DEF NoSnap, Files
  <2>2. snap \in [Times -> [file: Files, meta: BOOLEAN, old: BOOLEAN]]
    BY <2>1 DEF SnapshotsInit
  <2>3. SnapshotsTypeOK
    <3>1. \A t \in Times : /\ snap[t].file = <<>>
                          /\ snap[t].meta \in BOOLEAN /\ snap[t].old \in BOOLEAN
      BY <1>3, <1>4
    <3>2. edits \in 0 .. MaxEdits /\ losses \in 0 .. MaxLosses /\ agings \in 0 .. MaxAgings
      BY SnapshotsAssumption DEF SnapshotsInit
    <3> QED
      BY <1>2, <3>1, <3>2, EmptyIsGraph DEF SnapshotsTypeOK, SnapshotsInit
  <2> QED
    BY <2>2, <2>3 DEF SnapsTyped
<1>7. EndsKnown
  BY <1>2, <1>5, SnapshotsAssumption DEF EndsKnown, EdgesHaveEnds, SnapshotsInit
<1>8. Retained
  BY <1>5 DEF Retained, SnapshotsInit
<1> QED
  BY <1>6, <1>7, <1>8 DEF SnapshotsInv

\* The steps that change the graph leave its edges with their ends, and a
\* writer finds nobody new.
LEMMA GraphChanges ==
  ASSUME SnapsTyped, EndsKnown, Ingest \/ SetProps \/ DetachDelete
  PROVE  /\ graph' \in Graphs
         /\ \A l \in graph'.edges : {l.from, l.to} \subseteq There'
         /\ wpc = "stream" => There' \subseteq There
<1> USE DEF There
<1>1. graph \in Graphs /\ There \subseteq Things /\ graph.edges \subseteq Links
      /\ graph.nodes \in [There -> Props]
      /\ graph = [nodes |-> graph.nodes, edges |-> graph.edges]
  BY GraphParts DEF SnapsTyped, SnapshotsTypeOK
<1>2. CASE Ingest
  <2>1. PICK n \in Things \ There :
          graph' = [nodes |-> [m \in There \cup {n} |->
                       IF m = n THEN [plain |-> 1, noisy |-> 0] ELSE graph.nodes[m]],
                    edges |-> graph.edges \cup
                       {l \in Links : {l.from, l.to} \subseteq There \cup {n}}]
    BY <1>2 DEF Ingest
  <2>2. [plain |-> 1, noisy |-> 0] \in Props
    BY DEF Props
  <2>3. graph' \in Graphs
    BY <1>1, <2>1, <2>2, GraphMade
  <2> QED
    BY <1>1, <1>2, <2>1, <2>3 DEF Ingest, EndsKnown
<1>3. CASE SetProps
  <2>1. PICK n \in There, p \in Props : graph' = [graph EXCEPT !.nodes[n] = p]
    BY <1>3 DEF SetProps
  <2>2. graph' = [nodes |-> [graph.nodes EXCEPT ![n] = p], edges |-> graph.edges]
    BY <1>1, <2>1
  <2>3. graph' \in Graphs
    BY <1>1, <2>2, GraphMade
  <2> QED
    BY <1>1, <2>2, <2>3 DEF EndsKnown
<1>4. CASE DetachDelete
  <2>1. PICK n \in There :
          graph' = [nodes |-> [m \in There \ {n} |-> graph.nodes[m]],
                    edges |-> {l \in graph.edges : n \notin {l.from, l.to}}]
    BY <1>4 DEF DetachDelete
  <2>2. graph' \in Graphs
    BY <1>1, <2>1, GraphMade
  <2> QED
    BY <1>1, <2>1, <2>2 DEF EndsKnown
<1> QED
  BY <1>2, <1>3, <1>4

\* One query of the writer extends the draft by what the graph shows of its kind.
LEMMA DraftGrows ==
  ASSUME SnapsTyped, EndsKnown, writeGraph
  PROVE  /\ draft' \in Graphs /\ section' \in 0 .. 7
         /\ ReadSoFar'
         /\ \A l \in draft'.edges : {l.from, l.to} \subseteq DOMAIN draft'.nodes
<1>1. /\ graph \in Graphs /\ There \subseteq Things /\ graph.edges \subseteq Links
      /\ graph.nodes \in [There -> Props]
  BY GraphParts DEF SnapsTyped, SnapshotsTypeOK, There
<1>2. /\ draft \in Graphs /\ DOMAIN draft.nodes \subseteq Things /\ draft.edges \subseteq Links
      /\ draft.nodes \in [DOMAIN draft.nodes -> Props]
      /\ draft = [nodes |-> draft.nodes, edges |-> draft.edges]
  BY GraphParts DEF SnapsTyped, SnapshotsTypeOK
<1>3. /\ section \in 0 .. 6 /\ section' = section + 1 /\ Len(NodeQueries) = 4
      /\ wpc = "stream" /\ graph' = graph /\ There' = There
      /\ \A i \in 1 .. 4 : Sections[i] = NodeQueries[i]
  BY DEF writeGraph, Sections, NodeQueries, EdgeQueries, SnapsTyped, SnapshotsTypeOK, There
<1>4. CASE section < 4
  <2> DEFINE N == NodeLines(Sections[section + 1])
  <2>1. draft' = WithNodes(N)
    BY <1>3, <1>4 DEF writeGraph
  <2>2. N \subseteq There
    BY DEF NodeLines
  <2>3. draft' = [nodes |-> [n \in DOMAIN draft.nodes \cup N |->
                               IF n \in N THEN graph.nodes[n] ELSE draft.nodes[n]],
                  edges |-> draft.edges]
    BY <1>2, <2>1 DEF WithNodes
  <2>4. draft' \in Graphs
    BY <1>1, <1>2, <2>2, <2>3, GraphMade
  <2>5. DOMAIN draft'.nodes = DOMAIN draft.nodes \cup N /\ draft'.edges = draft.edges
    BY <2>3
  <2>6. ReadSoFar'
    BY <1>3, <1>4, <2>5 DEF ReadSoFar, EndsKnown, NodeLines
  <2> QED
    BY <1>3, <2>4, <2>5, <2>6 DEF EndsKnown
<1>5. CASE section >= 4
  <2> DEFINE E == EdgeLines(Sections[section + 1])
  <2>1. draft' = WithEdges(E)
    BY <1>3, <1>5 DEF writeGraph
  <2>2. draft' = [nodes |-> draft.nodes, edges |-> draft.edges \cup E]
    BY <1>2, <2>1 DEF WithEdges
  <2>3. E \subseteq graph.edges
    BY DEF EdgeLines
  <2>4. draft' \in Graphs
    BY <1>1, <1>2, <2>2, <2>3, GraphMade
  <2>5. \A n \in There \ Nameless : n \in DOMAIN draft.nodes
    <3>1. \A n \in Things : \E i \in 1 .. 4 : Kind[n] = NodeQueries[i]
      BY SnapshotsAssumption DEF NodeQueries, Kinds
    <3> QED
      BY <1>1, <1>3, <1>5, <3>1 DEF EndsKnown, ReadSoFar
  <2>6. \A l \in E : l.from \notin Nameless /\ l.to \notin Nameless
    <3>1. Sections[5] = [from |-> "host", to |-> "label"]
          /\ Sections[6] = [from |-> "user", to |-> "host"]
          /\ Sections[7] = [from |-> "software", to |-> "host"]
      BY DEF Sections, NodeQueries, EdgeQueries
    <3>2. \A l \in E : Kind[l.to] \in {"host", "label"}
      BY <1>3, <1>5, <3>1 DEF EdgeLines
    <3> QED
      BY <3>2, SnapshotsAssumption DEF EdgeLines
  <2>7. \A l \in E : {l.from, l.to} \subseteq DOMAIN draft.nodes
    BY <2>3, <2>5, <2>6 DEF EndsKnown
  <2>8. ReadSoFar'
    BY <1>3, <1>5, <2>2, <2>5 DEF ReadSoFar
  <2> QED
    BY <1>3, <2>2, <2>4, <2>7, <2>8 DEF EndsKnown
<1> QED
  BY <1>3, <1>4, <1>5

\* What is written depends on the files alone, and so do their edges.
LEMMA WrittenStep ==
  ASSUME \A t \in Times : snap'[t].file = snap[t].file
  PROVE  /\ Written' = Written /\ \A t \in Written : File(t)' = File(t)
         /\ EdgesHaveEnds => EdgesHaveEnds'
BY DEF Written, File, EdgesHaveEnds

LEMMA SnapshotsNextInv == SnapshotsInv /\ [SnapshotsNext]_snapshotVars => SnapshotsInv'
<1> SUFFICES ASSUME SnapshotsInv, [SnapshotsNext]_snapshotVars PROVE SnapshotsInv'
  OBVIOUS
<1> USE DEF SnapshotsInv
<1>0. /\ SnapshotsTypeOK /\ SnapsTyped /\ EndsKnown /\ Retained /\ EdgesHaveEnds
      /\ snap \in [Times -> [file: Files, meta: BOOLEAN, old: BOOLEAN]]
      /\ 0 \notin Times /\ Times \subseteq Nat
      /\ MaxEdits \in Nat /\ MaxLosses \in Nat /\ MaxAgings \in Nat
      /\ \A t \in Written : t \in Times
  BY TimesFinite, SnapshotsAssumption DEF SnapsTyped, EndsKnown, Written
<1>1. CASE Ingest \/ SetProps \/ DetachDelete
  <2>1. /\ UNCHANGED <<snap, draft, section, wpc, now, doomed, newest, losses, agings>>
        /\ edits' \in 0 .. MaxEdits
    BY <1>0, <1>1 DEF Ingest, SetProps, DetachDelete, Edit, writing, SnapshotsTypeOK
  <2>2. /\ graph' \in Graphs
        /\ \A l \in graph'.edges : {l.from, l.to} \subseteq There'
        /\ wpc = "stream" => There' \subseteq There
    BY <1>0, <1>1, GraphChanges
  <2>3. SnapsTyped'
    BY <1>0, <2>1, <2>2 DEF SnapsTyped, SnapshotsTypeOK
  <2>4. EndsKnown'
    BY <1>0, <2>1, <2>2 DEF EndsKnown, ReadSoFar, EdgesHaveEnds, Written, File
  <2>5. Retained'
    BY <1>0, <2>1 DEF Retained, Written
  <2> QED
    BY <2>3, <2>4, <2>5
<1>2. CASE Age
  <2>1. PICK t \in Written :
          /\ t = now => wpc = "idle"
          /\ snap' = [snap EXCEPT ![t].old = TRUE]
    BY <1>2 DEF Age
  <2>2. /\ UNCHANGED <<graph, draft, section, wpc, now, doomed, newest, edits, losses>>
        /\ agings' \in 0 .. MaxAgings
    BY <1>0, <1>2 DEF Age, writing, SnapshotsTypeOK
  <2>3. /\ snap' \in [Times -> [file: Files, meta: BOOLEAN, old: BOOLEAN]]
        /\ \A u \in Times : snap'[u].file = snap[u].file /\ snap'[u].meta = snap[u].meta
        /\ \A u \in Times : u # t => snap'[u] = snap[u]
    BY <1>0, <2>1
  <2>4. Written' = Written /\ EdgesHaveEnds'
    BY <1>0, <2>3, WrittenStep
  <2>5. SnapsTyped'
    BY <1>0, <2>2, <2>3 DEF SnapsTyped, SnapshotsTypeOK
  <2>6. EndsKnown'
    BY <1>0, <2>2, <2>4 DEF EndsKnown, ReadSoFar, There
  <2>7. Retained'
    BY <1>0, <2>1, <2>2, <2>3, <2>4 DEF Retained
  <2> QED
    BY <2>5, <2>6, <2>7
<1>3. CASE WriteSnapshot
  <2>1. SnapsTyped'
    BY <1>0, <1>3, EmptyIsGraph DEF WriteSnapshot, SnapsTyped, SnapshotsTypeOK, snapCounts
  <2>2. EndsKnown'
    BY <1>0, <1>3, EmptyIsGraph DEF WriteSnapshot, EndsKnown, ReadSoFar, EdgesHaveEnds, Written,
      File, There
  <2>3. Retained'
    BY <1>0, <1>3 DEF WriteSnapshot, Retained, Written, SnapshotsTypeOK
  <2> QED
    BY <2>1, <2>2, <2>3
<1>4. CASE writeGraph
  <2>1. UNCHANGED <<graph, snap, wpc, now, doomed, newest, edits, losses, agings>>
    BY <1>4 DEF writeGraph, snapCounts
  <2>2. /\ draft' \in Graphs /\ section' \in 0 .. 7 /\ ReadSoFar'
        /\ \A l \in draft'.edges : {l.from, l.to} \subseteq DOMAIN draft'.nodes
    BY <1>0, <1>4, DraftGrows
  <2>3. SnapsTyped'
    BY <1>0, <2>1, <2>2 DEF SnapsTyped, SnapshotsTypeOK
  <2>4. EndsKnown'
    BY <1>0, <2>1, <2>2 DEF EndsKnown, EdgesHaveEnds, Written, File, There
  <2>5. Retained'
    BY <1>0, <2>1 DEF Retained, Written
  <2> QED
    BY <2>3, <2>4, <2>5
<1>5. CASE Finish
  <2>1. /\ snap' = [snap EXCEPT ![now] = [@ EXCEPT !.file = <<draft>>, !.old = FALSE]]
        /\ wpc = "stream" /\ wpc' = "meta" /\ draft' = EmptyGraph /\ section' = 0
        /\ UNCHANGED <<graph, now, doomed, newest, edits, losses, agings>>
    BY <1>5 DEF Finish, snapCounts
  <2>2. now \in Times /\ draft \in Graphs /\ <<draft>> \in Files /\ <<draft>> # <<>>
        /\ <<draft>>[1] = draft
    BY <1>0, <2>1, FileRule DEF Retained, SnapshotsTypeOK
  <2>3. /\ snap' \in [Times -> [file: Files, meta: BOOLEAN, old: BOOLEAN]]
        /\ snap'[now].file = <<draft>> /\ snap'[now].meta = snap[now].meta /\ ~snap'[now].old
        /\ \A t \in Times : t # now => snap'[t] = snap[t]
    BY <1>0, <2>1, <2>2
  <2>4. Written' = Written \cup {now}
    BY <1>0, <2>2, <2>3 DEF Written
  <2>5. File(now)' = draft /\ \A t \in Written : t # now => File(t)' = File(t)
    BY <1>0, <2>1, <2>2, <2>3 DEF File
  <2>6. SnapsTyped'
    <3>1. \A f \in Files : f = <<>> \/ f[1] \in Graphs
      BY DEF Files
    <3>2. \A t \in Times : /\ snap'[t].file = <<>> \/ snap'[t].file[1] \in Graphs
                           /\ snap'[t].meta \in BOOLEAN /\ snap'[t].old \in BOOLEAN
      BY <2>3, <3>1
    <3>3. draft' \in Graphs /\ section' \in 0 .. 7
      BY <2>1, EmptyIsGraph
    <3> QED
      BY <1>0, <2>1, <2>3, <3>2, <3>3 DEF SnapsTyped, SnapshotsTypeOK
  <2>7. EdgesHaveEnds'
    BY <1>0, <2>1, <2>4, <2>5 DEF EdgesHaveEnds, EndsKnown, File
  <2>8. EndsKnown'
    BY <1>0, <2>1, <2>7 DEF EndsKnown, There
  <2>9. Retained'
    BY <1>0, <2>1, <2>2, <2>3, <2>4 DEF Retained
  <2> QED
    BY <2>6, <2>8, <2>9
<1>6. CASE WriteMeta
  <2>1. /\ wpc = "meta" /\ wpc' = "prune" /\ newest' = now /\ doomed' = Doomed
        /\ snap' = [snap EXCEPT ![now].meta = TRUE]
        /\ UNCHANGED <<graph, draft, section, now, edits, losses, agings>>
    BY <1>6 DEF WriteMeta, snapCounts
  <2>2. now \in Written /\ ~snap[now].old /\ \A t \in Written : t <= now
    BY <1>0, <2>1 DEF Retained
  <2>3. /\ Doomed \subseteq Times /\ now \notin Doomed
        /\ Retain > 0 => Cardinality(Written \ Doomed) <= Retain
    BY <2>2, PruneLeaves
  <2>4. /\ snap' \in [Times -> [file: Files, meta: BOOLEAN, old: BOOLEAN]]
        /\ \A t \in Times : snap'[t].file = snap[t].file
        /\ snap'[now].meta
    BY <1>0, <2>1, <2>2
  <2>5. Written' = Written /\ EdgesHaveEnds'
    BY <1>0, <2>4, WrittenStep
  <2>6. SnapsTyped'
    BY <1>0, <2>1, <2>2, <2>3, <2>4 DEF SnapsTyped, SnapshotsTypeOK
  <2>7. EndsKnown'
    BY <1>0, <2>1, <2>5 DEF EndsKnown, There
  <2>8. Retained'
    BY <1>0, <2>1, <2>2, <2>3, <2>4, <2>5 DEF Retained
  <2> QED
    BY <2>6, <2>7, <2>8
<1>7. CASE dropSnapshot
  <2>1. PICK t \in doomed : snap' = [snap EXCEPT ![t] = NoSnap] /\ doomed' = doomed \ {t}
    BY <1>7 DEF dropSnapshot
  <2>2. /\ wpc = "prune"
        /\ UNCHANGED <<graph, draft, section, wpc, now, newest, edits, losses, agings>>
    BY <1>7 DEF dropSnapshot, snapCounts
  <2>3. t \in Times /\ NoSnap \in [file: Files, meta: BOOLEAN, old: BOOLEAN] /\ NoSnap.file = <<>>
    BY <1>0 DEF SnapshotsTypeOK, NoSnap, Files
  <2>4. /\ snap' \in [Times -> [file: Files, meta: BOOLEAN, old: BOOLEAN]]
        /\ snap'[t].file = <<>> /\ \A u \in Times : u # t => snap'[u] = snap[u]
    BY <1>0, <2>1, <2>3
  <2>5. Written' = Written \ {t}
    BY <2>3, <2>4 DEF Written
  <2>6. SnapsTyped'
    BY <1>0, <2>1, <2>2, <2>4 DEF SnapsTyped, SnapshotsTypeOK
  <2>7. EndsKnown'
    <3>1. \A u \in Written' : u \in Written /\ File(u)' = File(u)
      BY <1>0, <2>4, <2>5 DEF File
    <3>2. EdgesHaveEnds'
      BY <1>0, <3>1 DEF EdgesHaveEnds
    <3> QED
      BY <1>0, <2>2, <3>2 DEF EndsKnown, There
  <2>8. (Written \ doomed)' = Written \ doomed
    BY <2>1, <2>5
  <2>9. Retained'
    BY <1>0, <2>1, <2>2, <2>4, <2>5, <2>8 DEF Retained
  <2> QED
    BY <2>6, <2>7, <2>9
<1>8. CASE pruned
  <2>1. SnapsTyped'
    BY <1>0, <1>8 DEF pruned, SnapsTyped, SnapshotsTypeOK, snapCounts
  <2>2. EndsKnown'
    BY <1>0, <1>8 DEF pruned, EndsKnown, EdgesHaveEnds, Written, File, There
  <2>3. Retained'
    BY <1>0, <1>8 DEF pruned, Retained, Written
  <2> QED
    BY <2>1, <2>2, <2>3
<1>9. CASE Abort
  <2>1. /\ wpc' = "idle" /\ draft' = EmptyGraph /\ section' = 0 /\ doomed' = {}
        /\ UNCHANGED <<graph, now, newest, edits, agings>>
        /\ losses' \in 0 .. MaxLosses
    BY <1>0, <1>9 DEF Abort, Loses, SnapshotsTypeOK
  <2>2. /\ snap' \in [Times -> [file: Files, meta: BOOLEAN, old: BOOLEAN]]
        /\ \A t \in Times : snap'[t].meta = snap[t].meta /\ snap'[t].file \in {<<>>, snap[t].file}
        /\ \A t \in Times \ doomed : snap'[t] = snap[t]
    <3>1. CASE snap' = snap
      BY <1>0, <3>1
    <3>2. CASE \E t \in doomed : snap' = [snap EXCEPT ![t].file = <<>>]
      <4>1. PICK t \in doomed : snap' = [snap EXCEPT ![t].file = <<>>]
        BY <3>2
      <4>2. t \in Times /\ <<>> \in Files
        BY <1>0 DEF SnapshotsTypeOK, Files
      <4> QED
        BY <1>0, <4>1, <4>2
    <3> QED
      BY <1>9, <3>1, <3>2 DEF Abort
  <2>3. /\ Written' \subseteq Written /\ Written \ doomed \subseteq Written'
        /\ \A t \in Written' : File(t)' = File(t)
    BY <2>2 DEF Written, File
  <2>4. SnapsTyped'
    BY <1>0, <2>1, <2>2, EmptyIsGraph DEF SnapsTyped, SnapshotsTypeOK, Files
  <2>5. EndsKnown'
    BY <1>0, <2>1, <2>3 DEF EndsKnown, EdgesHaveEnds, File, There
  <2>6. Retained'
    BY <1>0, <2>1, <2>2, <2>3 DEF Retained
  <2> QED
    BY <2>4, <2>5, <2>6
<1>10. CASE UNCHANGED snapshotVars
  <2>1. UNCHANGED <<graph, snap, draft, section, wpc, now, doomed, newest, edits, losses, agings>>
    BY <1>10 DEF snapshotVars, writing, snapCounts
  <2>2. SnapsTyped'
    BY <1>0, <2>1 DEF SnapsTyped, SnapshotsTypeOK
  <2>3. EndsKnown'
    BY <1>0, <2>1 DEF EndsKnown, ReadSoFar, EdgesHaveEnds, Written, File, There
  <2>4. Retained'
    BY <1>0, <2>1 DEF Retained, Written
  <2> QED
    BY <2>2, <2>3, <2>4
<1> QED
  BY <1>1, <1>2, <1>3, <1>4, <1>5, <1>6, <1>7, <1>8, <1>9, <1>10 DEF SnapshotsNext

\* The invariant gives what the run checks of the snapshots.
LEMMA SnapshotsInvHolds ==
  SnapshotsInv =>
    SnapshotsTypeOK /\ EdgesHaveEnds /\ NewestKept /\ WholeBeforeOlder /\ DiffReplays
<1> SUFFICES ASSUME SnapshotsInv
             PROVE  SnapshotsTypeOK /\ EdgesHaveEnds /\ NewestKept /\ WholeBeforeOlder /\ DiffReplays
  OBVIOUS
<1>1. Written \ {} = Written
  OBVIOUS
<1>2. NewestKept
  BY <1>1 DEF NewestKept, SnapshotsInv, Retained
<1> QED
  BY <1>2, ListedBefore, FilesReplay DEF SnapshotsInv, SnapsTyped, EndsKnown
=============================================================================
