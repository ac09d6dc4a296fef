----------------------------- MODULE Snapshots -----------------------------
(***************************************************************************)
(* Snapshots of the graph (internal/snapshot): at the end of an ETL run    *)
(* the nodes and then the edges are streamed, kind by kind, each in a      *)
(* query of its own, into a file; a file with the counts is written next   *)
(* to it; and old snapshots are removed.  Snapshots are listed and two of  *)
(* them compared.  Nothing but the run that holds the ETL lock adds nodes  *)
(* to the graph; others change properties, and clear-db deletes, while a   *)
(* snapshot is being written.                                              *)
(***************************************************************************)
EXTENDS Naturals, FiniteSets, Sequences

CONSTANTS
  Things,      \* nodes of the graph
  Kind,        \* their kinds
  Nameless,    \* nodes whose key is empty: they are left out
  Links,       \* the edges there may be, from a node to another
  Times,       \* the runs that write a snapshot, in their order
  Hour,        \* the hour in which a run was, by a clock that is never set back
  Retain,      \* snapshots kept; 0 is no limit
  MaxEdits,    \* bound on the changes of the graph
  MaxLosses,   \* bound on failures and deaths
  MaxAgings    \* bound on snapshots that come to be past the horizon

Kinds == {"host", "user", "software", "label"}

ASSUME SnapshotsAssumption ==
  /\ Kind \in [Things -> Kinds] /\ Nameless \subseteq {n \in Things : Kind[n] \in {"user", "software"}}
  /\ Links \subseteq [from: Things, to: Things]
  /\ IsFiniteSet(Times) /\ Times = 1 .. Cardinality(Times)
  /\ Hour \in [Times -> Nat] /\ \A t, u \in Times : t < u => Hour[t] <= Hour[u]
  /\ Retain \in Nat /\ MaxEdits \in Nat /\ MaxLosses \in Nat /\ MaxAgings \in Nat

VARIABLES
  graph,     \* the properties of the nodes there are, and the edges
  snap,      \* the file of each snapshot, its counts, and its age
  draft,     \* what is written of the snapshot in the making
  section,   \* queries made for it
  wpc,       \* where the writer is
  now,       \* the last run that began a snapshot
  doomed,    \* snapshots it removes
  newest,    \* history: the last one written to its end
  edits, losses, agings

writing == <<draft, section, wpc, now, doomed>>
snapCounts == <<edits, losses, agings>>
snapshotVars == <<graph, snap, writing, newest, snapCounts>>

Absent == 0
\* A property that may be missing, and one that churns with every run.
Props == [plain: 0 .. 1, noisy: 0 .. 1]
Bare == [plain |-> Absent, noisy |-> Absent]
Graphs == [nodes: UNION {[S -> Props] : S \in SUBSET Things}, edges: SUBSET Links]
EmptyGraph == [nodes |-> <<>>, edges |-> {}]
NoSnap == [file |-> <<>>, meta |-> FALSE, old |-> FALSE]
Written == {t \in Times : snap[t].file # <<>>}

SnapshotsTypeOK ==
  /\ graph \in Graphs
  /\ \A t \in Times : /\ snap[t].file = <<>> \/ snap[t].file[1] \in Graphs
                      /\ snap[t].meta \in BOOLEAN /\ snap[t].old \in BOOLEAN
  /\ draft \in Graphs /\ section \in 0 .. 7
  /\ wpc \in {"idle", "stream", "meta", "prune"}
  /\ now \in Times \cup {0} /\ newest \in Times \cup {0} /\ doomed \subseteq Times
  /\ edits \in 0 .. MaxEdits /\ losses \in 0 .. MaxLosses /\ agings \in 0 .. MaxAgings

SnapshotsInit ==
  /\ \E missing \in {{}} \cup {{n} : n \in Things} :
       graph = [nodes |-> [n \in Things \ missing |-> Bare],
                edges |-> {l \in Links : {l.from, l.to} \cap missing = {}}]
  /\ snap = [t \in Times |-> NoSnap] /\ draft = EmptyGraph /\ section = 0
  /\ wpc = "idle" /\ now = 0 /\ newest = 0 /\ doomed = {}
  /\ edits = 0 /\ losses = 0 /\ agings = 0
-----------------------------------------------------------------------------
(* The graph.                                                              *)

Edit == edits < MaxEdits /\ edits' = edits + 1
Loses(k) == losses < MaxLosses /\ losses' = losses + k
There == DOMAIN graph.nodes

\* Between the snapshots the runs add what is missing.
Ingest ==
  /\ wpc = "idle" /\ Edit
  /\ \E n \in Things \ There :
       graph' = [nodes |-> [m \in There \cup {n} |->
                    IF m = n THEN [plain |-> 1, noisy |-> 0] ELSE graph.nodes[m]],
                 edges |-> graph.edges \cup
                    {l \in Links : {l.from, l.to} \subseteq There \cup {n}}]
  /\ UNCHANGED <<snap, writing, newest, losses, agings>>

\* The enricher and the extension worker write properties at any time.
SetProps ==
  /\ Edit
  /\ \E n \in There, p \in Props :
       p # graph.nodes[n] /\ graph' = [graph EXCEPT !.nodes[n] = p]
  /\ UNCHANGED <<snap, writing, newest, losses, agings>>

DetachDelete ==
  /\ Edit
  /\ \E n \in There :
       graph' = [nodes |-> [m \in There \ {n} |-> graph.nodes[m]],
                 edges |-> {l \in graph.edges : n \notin {l.from, l.to}}]
  /\ UNCHANGED <<snap, writing, newest, losses, agings>>

\* Time passes the horizon of a snapshot, never while it is being written.
Age ==
  /\ agings < MaxAgings /\ agings' = agings + 1
  /\ \E t \in Written : /\ ~snap[t].old /\ (t = now => wpc = "idle")
                       /\ snap' = [snap EXCEPT ![t].old = TRUE]
  /\ UNCHANGED <<graph, writing, newest, edits, losses>>
-----------------------------------------------------------------------------
(* Writing a snapshot.                                                     *)

NodeQueries == <<"host", "user", "software", "label">>
EdgeQueries == <<[from |-> "host", to |-> "label"], [from |-> "user", to |-> "host"],
                 [from |-> "software", to |-> "host"]>>
Sections == NodeQueries \o EdgeQueries

WriteSnapshot ==
  /\ wpc = "idle" /\ now + 1 \in Times
  /\ now' = now + 1 /\ wpc' = "stream" /\ draft' = EmptyGraph /\ section' = 0
  /\ UNCHANGED <<graph, snap, doomed, newest, snapCounts>>

NodeLines(kind) ==
  {n \in There \ Nameless : Kind[n] = kind}
EdgeLinesOfAll(kinds) ==
  {l \in graph.edges : Kind[l.from] = kinds.from /\ Kind[l.to] = kinds.to}
\* An edge is left out when its first end has no key.
EdgeLines(kinds) ==
  {l \in graph.edges : /\ Kind[l.from] = kinds.from /\ Kind[l.to] = kinds.to
                       /\ l.from \notin Nameless}

WithNodes(N) ==
  [draft EXCEPT !.nodes = [n \in DOMAIN @ \cup N |->
                             IF n \in N THEN graph.nodes[n] ELSE draft.nodes[n]]]
WithEdges(E) == [draft EXCEPT !.edges = @ \cup E]

writeGraph ==
  /\ wpc = "stream" /\ section < Len(Sections) /\ section' = section + 1
  /\ draft' = IF section < Len(NodeQueries)
                THEN WithNodes(NodeLines(Sections[section + 1]))
                ELSE WithEdges(EdgeLines(Sections[section + 1]))
  /\ UNCHANGED <<graph, snap, wpc, now, doomed, newest, snapCounts>>

\* The file appears under its name as a whole, with a new time stamp.
Finish ==
  /\ wpc = "stream" /\ section = Len(Sections)
  /\ snap' = [snap EXCEPT ![now] = [@ EXCEPT !.file = <<draft>>, !.old = FALSE]]
  /\ draft' = EmptyGraph /\ section' = 0 /\ wpc' = "meta"
  /\ UNCHANGED <<graph, now, doomed, newest, snapCounts>>

NewerReversed(T, k) == {t \in T : Cardinality({u \in T : u < t}) < k}
Newer(T, k) == {t \in T : Cardinality({u \in T : u > t}) < k}

Doomed ==
  LET young == {t \in Written : ~snap[t].old} IN
  (Written \ young) \cup (IF Retain = 0 THEN {} ELSE young \ Newer(young, Retain))

WriteMeta ==
  /\ wpc = "meta" /\ wpc' = "prune"
  /\ snap' = [snap EXCEPT ![now].meta = TRUE] /\ newest' = now
  /\ doomed' = Doomed
  /\ UNCHANGED <<graph, draft, section, now, snapCounts>>

\* The file of a snapshot goes before its counts.
dropSnapshot ==
  /\ wpc = "prune"
  /\ \E t \in doomed : snap' = [snap EXCEPT ![t] = NoSnap] /\ doomed' = doomed \ {t}
  /\ UNCHANGED <<graph, draft, section, wpc, now, newest, snapCounts>>

pruned ==
  /\ wpc = "prune" /\ doomed = {} /\ wpc' = "idle"
  /\ UNCHANGED <<graph, snap, draft, section, now, doomed, newest, snapCounts>>

\* A query or a write fails, which ends the snapshot and removes the part
\* written; or the process dies, between the two removals of a snapshot too.
Abort ==
  /\ wpc # "idle" /\ Loses(1)
  /\ snap' = snap \/ \E t \in doomed : snap' = [snap EXCEPT ![t].file = <<>>]
  /\ wpc' = "idle" /\ draft' = EmptyGraph /\ section' = 0 /\ doomed' = {}
  /\ UNCHANGED <<graph, now, newest, edits, agings>>

SnapshotsNext ==
  \/ Ingest \/ SetProps \/ DetachDelete \/ Age
  \/ WriteSnapshot \/ writeGraph \/ Finish \/ WriteMeta \/ dropSnapshot \/ pruned
  \/ Abort
-----------------------------------------------------------------------------
(* Listing, newest first.  A snapshot without its counts is listed under   *)
(* its file name, whose time has no colons: within an hour it sorts before *)
(* every time that has.                                                    *)

Key(t) == <<Hour[t], IF snap[t].meta THEN 1 ELSE 0, t>>
Later(k, m) ==
  \/ k[1] > m[1]
  \/ k[1] = m[1] /\ k[2] > m[2]
  \/ k[1] = m[1] /\ k[2] = m[2] /\ k[3] > m[3]

\* How many are listed before a snapshot.
ListUnsorted(t) == Cardinality({u \in Written : u < t})
ListSnapshots(t) == Cardinality({u \in Written : Later(Key(u), Key(t))})

(* Comparing two snapshots.                                                *)

Buckets == {"hosts", "users", "software", "edges"}
\* The plural of a kind is its name and an s.
bucketOf(n) == CASE Kind[n] = "host" -> "hosts" [] Kind[n] = "user" -> "users"
                 [] Kind[n] = "software" -> "softwares" [] OTHER -> "labels"

Hash(p) == p.plain

DriftOfOld(p, q) == {k \in {"plain"} : p[k] # Absent /\ p[k] # q[k]}
\* Properties of either side that differ; the noisy ones are not compared.
Drift(p, q) == {k \in {"plain"} : p[k] # q[k]}

DiffSnapshots(a, b) ==
  LET old == DOMAIN a.nodes  new == DOMAIN b.nodes
  IN [added   |-> {n \in new \ old : bucketOf(n) \in Buckets},
      removed |-> {n \in old \ new : bucketOf(n) \in Buckets},
      changed |-> {n \in old \cap new : /\ Hash(a.nodes[n]) # Hash(b.nodes[n])
                                        /\ Drift(a.nodes[n], b.nodes[n]) # {}},
      edgesAdded |-> b.edges \ a.edges, edgesRemoved |-> a.edges \ b.edges]
-----------------------------------------------------------------------------
File(t) == snap[t].file[1]

(* Every edge of a snapshot joins two nodes of it, though each kind is     *)
(* read in a transaction of its own while nodes go away and properties     *)
(* change: the comparison and its readers never meet an end they do not    *)
(* know (writeGraph, snapshot.go).                                         *)
EdgesHaveEnds ==
  \A t \in Written : \A l \in File(t).edges : {l.from, l.to} \subseteq DOMAIN File(t).nodes

(* The retention never removes the last snapshot that was written to its   *)
(* end, through failures, deaths and horizons, and leaves no more than it  *)
(* is asked to when a snapshot has been written (pruneOld, snapshot.go).   *)
NewestKept ==
  /\ newest # 0 => newest \in Written /\ snap[newest].meta
  /\ wpc = "prune" /\ doomed = {} /\ Retain > 0 => Cardinality(Written) <= Retain

(* A snapshot whose counts were written is listed before every older one,  *)
(* whether or not the death of a writer left snapshots without counts      *)
(* around it (ListSnapshots, snapshot.go).                                 *)
WholeBeforeOlder ==
  \A t, u \in Written :
    snap[t].meta /\ u < t => ListSnapshots(t) < ListSnapshots(u)

(* Applied to the older of two snapshots, their comparison gives the hosts,*)
(* the users and the edges of the newer one, and it reports a node as      *)
(* changed exactly if something other than what churns changed, a property *)
(* that appeared or went included (DiffSnapshots, snapshot.go).            *)
DiffReplays ==
  \A t, u \in Written :
    LET a == File(t)  b == File(u)  d == DiffSnapshots(a, b)
        Shown(N) == {n \in N : Kind[n] \in {"host", "user"}}
    IN /\ Shown(DOMAIN b.nodes) = Shown((DOMAIN a.nodes \cup d.added) \ d.removed)
       /\ b.edges = (a.edges \cup d.edgesAdded) \ d.edgesRemoved
       /\ \A n \in DOMAIN a.nodes \cap DOMAIN b.nodes :
            n \in d.changed <=> [a.nodes[n] EXCEPT !.noisy = 0] # [b.nodes[n] EXCEPT !.noisy = 0]
=============================================================================
