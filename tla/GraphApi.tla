------------------------------ MODULE GraphApi ------------------------------
(***************************************************************************)
(* The routes that walk the graph (internal/api/graphapi): a sample of it, *)
(* a path, the surroundings of a node and its blast radius.  A graph is    *)
(* [kind: node -> kind, links: set of [source, target], hollow: set of     *)
(* nodes whose key property is missing]; a link goes from a user (USES) or *)
(* a software (INSTALLED_ON) to a host.                                    *)
(***************************************************************************)
EXTENDS Integers, FiniteSets, FiniteSetsExt, SequencesExt

CONSTANT CorrelateNodeCap   \* 500 in the code

ASSUME CapAssumption == CorrelateNodeCap \in Nat \ {0}

Nodes(g) == DOMAIN g.kind
Neighbours(g, S) ==
  {n \in Nodes(g) : \E l \in g.links : (l.source = n /\ l.target \in S) \/ (l.target = n /\ l.source \in S)}
Between(g, S) == {l \in g.links : l.source \in S /\ l.target \in S}

serialized(g, S) == S \ g.hollow
-----------------------------------------------------------------------------
(* SampleGraph.  Ties are broken by the node, as by its id in the code.    *)
degree(g, n) == Cardinality({l \in g.links : n \in {l.source, l.target}})
less(g, a, b) == degree(g, a) > degree(g, b) \/ (degree(g, a) = degree(g, b) /\ a < b)
Top(g, S, k) == {n \in S : Cardinality({m \in S : less(g, m, n)}) < k}

types(g) == {g.kind[n] : n \in Nodes(g)}
bucket(g, t) == {n \in Nodes(g) : g.kind[n] = t}
quota(g, limit) == Max({1, limit \div Cardinality(types(g))})

QuotaOnly(g, limit, kept) == kept
Filled(g, limit, kept) ==
  kept \cup Top(g, Nodes(g) \ kept, limit - Cardinality(kept))

SampleGraph(g, limit) ==
  IF Cardinality(Nodes(g)) <= limit THEN [nodes |-> Nodes(g), links |-> g.links]
  ELSE LET kept == Filled(g, limit, UNION {Top(g, bucket(g, t), quota(g, limit)) : t \in types(g)})
       IN [nodes |-> kept, links |-> Between(g, kept)]
-----------------------------------------------------------------------------
(* correlateExpand and correlate.  A hop reads at most one row more than   *)
(* there is room for; which rows of many, the database decides.            *)
LinksOut(g, e) == {l \in g.links : \E a \in e.frontier : \E b \in Nodes(g) \ e.seen : {a, b} = {l.source, l.target}}

NeverOverflow(rows, budget) == FALSE
Overflow(rows, budget) == Cardinality(rows) > budget

Read(g, e, rows, more) ==
  LET met == (UNION {{l.source, l.target} : l \in rows}) \ e.seen
  IN [seen |-> e.seen \cup met, frontier |-> met, links |-> e.links \cup rows,
      truncated |-> e.truncated \/ more]

\* What one more hop may make of an expansion.
Hop(g, e) ==
  LET budget == CorrelateNodeCap - Cardinality(e.seen)
      rows == LinksOut(g, e)
  IN IF budget <= 0 \/ e.frontier = {}
     THEN {[e EXCEPT !.truncated = @ \/ e.frontier # {}, !.frontier = {}]}
     ELSE {Read(g, e, part, Overflow(rows, budget)) :
             part \in kSubset(Min({budget, Cardinality(rows)}), rows)}

correlateExpand(g, seed, depth) ==
  LET after[h \in 0 .. depth] ==
        IF h = 0 THEN {[seen |-> {seed}, frontier |-> {seed}, links |-> {}, truncated |-> FALSE]}
        ELSE UNION {Hop(g, e) : e \in after[h - 1]}
  IN after[depth]

correlate(g, e) ==
  LET nodes == serialized(g, e.seen)
  IN [nodes |-> nodes, truncated |-> e.truncated,
      links |-> {l \in e.links : {l.source, l.target} \subseteq nodes}]
-----------------------------------------------------------------------------
(* path, between two nodes.  The database finds a shortest walk, whichever *)
(* of several it likes.                                                    *)
Shortest(g, from, to, maxHops) ==
  LET walks[k \in 0 .. maxHops] ==
        IF k = 0 THEN {<<from>>}
        ELSE UNION {{Append(w, n) : n \in Neighbours(g, {Last(w)})} : w \in walks[k - 1]}
      reached[k \in 0 .. maxHops] == {w \in walks[k] : Last(w) = to}
      lengths == {k \in 1 .. maxHops : reached[k] # {}}
  IN IF lengths = {} THEN {} ELSE reached[Min(lengths)]

relationship(g, a, b) == IF "user" \in {g.kind[a], g.kind[b]} THEN "uses" ELSE "installed"

EveryOther(i) == i + 2
Following(i) == i + 1

path(g, w) ==
  LET shown[i \in 0 .. Len(w)] ==
        IF i = 0 THEN <<>> ELSE IF w[i] \in g.hollow THEN shown[i - 1] ELSE Append(shown[i - 1], w[i])
      ordered == shown[Len(w)]
  IN [nodes |-> ToSet(ordered), ordered |-> ordered,
      links |-> {[source |-> ordered[i], target |-> ordered[Following(i)],
                  type |-> relationship(g, w[i], w[i + 1])] :
                   i \in {j \in 1 .. Len(w) - 1 : Following(j) <= Len(ordered)}}]
-----------------------------------------------------------------------------
(* blastRadius.  A question is [kind, id, team, labelled, excluded]: the   *)
(* user or software asked about, the team or "all", the hosts the label    *)
(* filter lets through, the accounts to leave out.  teamOf is a host's     *)
(* team, or "none".  Every host has its key: g.hollow is empty.            *)
Hosts(g) == bucket(g, "host")
Users(g) == bucket(g, "user")
UsersOf(g, S) == Neighbours(g, S) \cap Users(g)
HostsOf(g, S) == Neighbours(g, S) \cap Hosts(g)

InTeam(g, teamOf, team) == {h \in Hosts(g) : team \in {"all", teamOf[h]}}

hostReach(g, teamOf, q) == HostsOf(g, {q.id}) \cap InTeam(g, teamOf, q.team) \cap q.labelled
userImpact(g, hosts, q) ==
  UsersOf(g, hosts) \ (q.excluded \cup (IF q.kind = "user" THEN {q.id} ELSE {}))
lateral(g, hosts, users) == HostsOf(g, users) \ hosts

UsedHosts(g, teamOf, q) ==
  Max({1, Cardinality(HostsOf(g, Users(g)) \cap InTeam(g, teamOf, q.team))})

\* Of a graph without a user's link the query of the totals returns no row.
TotalHosts(g, teamOf, q) ==
  IF q.team = "all" /\ UsersOf(g, Hosts(g)) = {} THEN 1
  ELSE Max({1, Cardinality(InTeam(g, teamOf, q.team))})
TotalUsers(g, teamOf, q) ==
  Max({1, Cardinality(UsersOf(g, InTeam(g, teamOf, q.team)))})
GlobalHosts(g) == IF UsersOf(g, Hosts(g)) = {} THEN 1 ELSE Cardinality(Hosts(g))

score(n, d) == Min({(n * 100) \div d, 100})

blastRadius(g, teamOf, q) ==
  LET hosts == hostReach(g, teamOf, q)
      users == userImpact(g, hosts, q)
      moved == lateral(g, hosts, users)
  IN [hosts |-> hosts, users |-> users, lateral |-> moved,
      hostReach |-> score(Cardinality(hosts), TotalHosts(g, teamOf, q)),
      userImpact |-> score(Cardinality(users), TotalUsers(g, teamOf, q)),
      lateralMovement |-> score(Cardinality(moved), GlobalHosts(g))]
-----------------------------------------------------------------------------
(* A sample is as large as it may be, no type is crowded out of it, and of *)
(* two nodes of a type it keeps the one with more links.                   *)
SampleBalanced(g, limit) ==
  LET kept == SampleGraph(g, limit).nodes
  IN /\ Cardinality(kept) = Min({limit, Cardinality(Nodes(g))})
     /\ \A t \in types(g) :
          Cardinality(kept \cap bucket(g, t)) >= Min({limit \div Cardinality(types(g)), Cardinality(bucket(g, t))})
     /\ \A t \in types(g) : \A n \in kept \cap bucket(g, t) : \A m \in bucket(g, t) \ kept : degree(g, n) >= degree(g, m)

Ball(g, seed, depth) ==
  LET ball[h \in 0 .. depth] == IF h = 0 THEN {seed} ELSE ball[h - 1] \cup Neighbours(g, ball[h - 1])
  IN ball[depth]

(* The surroundings are never more than the cap, and unless they are said  *)
(* to be cut they are whole: every node within the depth and every link    *)
(* between two of them, though each hop reads only the links that lead out *)
(* of the last one.                                                        *)
SurroundingsWhole(g, seed, depth) ==
  \A e \in correlateExpand(g, seed, depth) :
    LET shown == correlate(g, e)
        all == serialized(g, Ball(g, seed, depth))
    IN /\ Cardinality(e.seen) <= CorrelateNodeCap
       /\ ~e.truncated => shown.nodes = all /\ shown.links = Between(g, all)

(* A path is shown from end to end: its links join its nodes in order and  *)
(* each is of the type the graph has between the two.  The nodes of legacy *)
(* data that cannot be shown are left out here.                            *)
PathJoined(g, from, to, maxHops) ==
  \A w \in Shortest(g, from, to, maxHops) :
    g.hollow \cap ToSet(w) = {} =>
      LET p == path(g, w)
      IN /\ p.ordered[1] = from /\ Last(p.ordered) = to
         /\ \A i \in 1 .. Len(p.ordered) - 1 : \E l \in p.links : l.source = p.ordered[i] /\ l.target = p.ordered[i + 1]
         /\ \A l \in p.links : /\ \E k \in g.links : {k.source, k.target} = {l.source, l.target}
                               /\ l.type = relationship(g, l.source, l.target)

(* A Host Reach of 100 means every host of the scope, in a scope where any *)
(* user is linked or a team is chosen; leaving accounts out never makes    *)
(* the radius larger.                                                      *)
RadiusInScope(g, teamOf, q) ==
  LET r == blastRadius(g, teamOf, q)
      unfiltered == blastRadius(g, teamOf, [q EXCEPT !.excluded = {}])
  IN /\ (q.team # "all" \/ UsersOf(g, Hosts(g)) # {}) /\ r.hostReach = 100 /\ InTeam(g, teamOf, q.team) # {} =>
          InTeam(g, teamOf, q.team) \subseteq r.hosts
     /\ r.users \subseteq unfiltered.users /\ r.userImpact <= unfiltered.userImpact
     /\ r.lateral \subseteq unfiltered.lateral /\ r.lateralMovement <= unfiltered.lateralMovement
=============================================================================
