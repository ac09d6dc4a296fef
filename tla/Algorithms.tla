----------------------------- MODULE Algorithms -----------------------------
(***************************************************************************)
(* The algorithms of internal/extintel and of the graph routes put         *)
(* together.  A behaviour puts one question to them: what a store's        *)
(* answers make of an item, what a list covers, how versions compare, how  *)
(* a set of facts is scored, which node an extension goes to; what a       *)
(* sample, the surroundings of a node, a path or a blast radius shows of a *)
(* graph.  The sets of questions are the module's bounds.                  *)
(***************************************************************************)
EXTENDS StoreFetch, Feeds, Score, Identity, GraphApi

VARIABLE asked   \* the question, with what it is about

Good == [header |-> "crx3", zip |-> TRUE, files |-> "few", manifest |-> "object", hash |-> TRUE]
Packages == {Good, [Good EXCEPT !.hash = FALSE], [Good EXCEPT !.header = "crx9"],
             [Good EXCEPT !.manifest = "text"]}
Lookup == [rpc |-> "ok", env |-> "payload", update |-> "update", cached |-> FALSE,
           crx |-> "ok", package |-> Good, own |-> "ok", bare |-> FALSE,
           addon |-> "ok", record |-> [status |-> "public", disabled |-> FALSE]]

\* Facts about an item nobody has anything against.
Plain == [builtin |-> FALSE, blocked |-> FALSE, hits |-> {}, status |-> "public",
          manifest |-> "parsed", publisher |-> "none", installs |-> {},
          users |-> 500, days |-> 100, featured |-> FALSE, mv3 |-> TRUE, hash |-> FALSE,
          rating |-> "none", cvss |-> 0, hosts |-> 9, versions |-> 1, fleet |-> 100,
          name |-> {},
          manifestOf |-> [permissions |-> {"storage"}, optional |-> {}, patterns |-> {allURLs, "host"},
                          host_permissions |-> {}, matches |-> {}, privacy |-> {}, csp |-> <<>>]]
Powerful == [Plain.manifestOf EXCEPT !.permissions = {"debugger", "cookies", allURLs}]

Store == [path |-> "store", chromeos |-> FALSE]
Elsewhere == [path |-> "other", chromeos |-> FALSE]
Unreported == [path |-> "none", chromeos |-> FALSE]
OnChromeOS == [path |-> "none", chromeos |-> TRUE]

Init == asked = [about |-> "nothing"]

Unasked == asked.about = "nothing"
Ask(q) == asked' = q

AskChrome ==
  /\ Unasked
  /\ \E env \in Envelope, rpc \in {"ok"} \cup Transient, update \in Update,
     cached \in BOOLEAN, crx \in PackageResponse, p \in Packages :
    Ask([about |-> "lookup", store |-> "chrome",
         r |-> [Lookup EXCEPT !.env = env, !.rpc = rpc, !.update = update,
                              !.cached = cached, !.crx = crx, !.package = p]])

AskEdgeOrOpera ==
  /\ Unasked
  /\ \E store \in {"edge", "opera"}, own \in Endpoint, addon \in PackageResponse,
     bare \in BOOLEAN,
     rpc \in {"ok"} \cup Transient, env \in Envelope, update \in Update :
    Ask([about |-> "lookup", store |-> store,
         r |-> [Lookup EXCEPT !.own = own, !.bare = bare, !.addon = addon, !.rpc = rpc,
                              !.env = env, !.update = update]])

AskFirefoxOrSafari ==
  /\ Unasked
  /\ \E store \in {"firefox", "safari"}, own \in Endpoint, record \in Record,
     cached \in BOOLEAN, crx \in PackageResponse, p \in Packages :
    Ask([about |-> "lookup", store |-> store,
         r |-> [Lookup EXCEPT !.own = own, !.record = record, !.cached = cached,
                              !.crx = crx, !.package = p]])

Parts == {Part(n, s) : n \in 0 .. 1, s \in 0 .. 1}
Versions(parts, n) == UNION {[1 .. k -> parts] : k \in 1 .. n}

AskOrder ==
  /\ Unasked
  /\ \E u, v, w \in Versions(Parts \cup {Star}, 2) :
    Ask([about |-> "order", u |-> u, v |-> v, w |-> w])

AskWildcard ==
  /\ Unasked
  /\ \E v \in Versions(Parts, 3), p \in Versions(Parts, 2) :
    Ask([about |-> "wildcard", v |-> v, p |-> p])

One == <<Part(1, 0)>>
Two == <<Part(2, 0)>>
Only(v) == {[lo |-> v, hi |-> v]}
Records == {{}, {[guid |-> {"a"}, ranges |-> Only(One)]}, {[guid |-> {"a"}, ranges |-> Only(Two)]},
            {[guid |-> {"a", "b"}, ranges |-> {}]}}

\* One page more than is read.
AskList ==
  /\ Unasked
  /\ \E records \in [1 .. (PageLimit + 1) -> Records], next \in [1 .. (PageLimit + 1) -> 0 .. (PageLimit + 1)],
     down \in 0 .. (PageLimit + 1), v \in {One, Two}, id \in {"a", "b"} :
    Ask([about |-> "list", v |-> v, id |-> id,
         site |-> [n \in 1 .. (PageLimit + 1) |->
                     [ok |-> n # down, records |-> records[n], next |-> next[n]]]])

Rows == [kind: {"good"}, id: {"a", "b"}, severity: {"malicious", "unwanted", "listed"}]
          \cup [kind: {"junk", "broken"}]

AskFeed ==
  /\ Unasked
  /\ \E rows \in UNION {[1 .. n -> Rows] : n \in 0 .. 3}, ok, column, builtin \in BOOLEAN,
     platform \in {"chromium", "firefox"}, store \in {"edge", "firefox", "safari"} :
    Ask([about |-> "feed", feed |-> [ok |-> ok, column |-> column, rows |-> rows],
         platform |-> platform, store |-> store, builtin |-> builtin])

AskCapability ==
  /\ Unasked
  /\ \E permissions \in SUBSET {"debugger", "storage", allURLs}, optional \in SUBSET {"debugger", "history", "storage"},
     hosts, matches \in SUBSET {allURLs, "host"}, eval \in BOOLEAN,
     p \in {"debugger", "storage", allURLs, "page"} :
    Ask([about |-> "capability", p |-> p,
         m |-> [Plain.manifestOf EXCEPT
                  !.permissions = permissions, !.optional = optional,
                  !.host_permissions = hosts, !.matches = matches,
                  !.csp = IF eval THEN <<[name |-> "script-src", sources |-> {"unsafe-eval"}]>> ELSE <<>>]])

Directives == [name: {"default-src", "script-src", "script-src-elem"},
               sources: {{}, {"unsafe-eval"}, {"remote"}}]

AskPolicy ==
  /\ Unasked
  /\ \E csp \in UNION {[1 .. n -> Directives] : n \in 0 .. 3}, d \in Directives :
    Ask([about |-> "policy", csp |-> csp, d |-> d])

\* Numbers of users about the limits of the score; -1 is an unknown one.
UserCounts == {-1, 50, 500, 20000, 200000}

AskScore ==
  /\ Unasked
  /\ \E builtin, blocked, powerful \in BOOLEAN, hits \in {{}, {"listed"}, {"unwanted"}},
     manifest \in {"parsed", "error"}, publisher \in {"none", "badge", "known"},
     installs \in {{Store}, {Store, OnChromeOS}, {Store, Elsewhere}, {Store, Unreported}, {OnChromeOS}},
     users \in UserCounts, hosts \in {1, 2, 9}, name \in {{}, {"typosquat"}, {"homoglyph", "path", "affix"}} :
    Ask([about |-> "score",
         x |-> [Plain EXCEPT !.builtin = builtin, !.blocked = blocked, !.hits = hits,
                             !.manifest = manifest, !.publisher = publisher,
                             !.installs = installs, !.users = users, !.hosts = hosts,
                             !.name = name,
                             !.manifestOf = IF powerful THEN Powerful ELSE @]])

Words == UNION {[1 .. n -> 1 .. 3] : n \in 0 .. 4}

AskName == Unasked /\ \E a, b \in Words : Ask([about |-> "name", a |-> a, b |-> b])

\* Rows of Safari extensions: a name as an app store has it, one that looks
\* like an ID, and one that looks like an ID bound to a team.
Team == {None, "T1", "T2"}
Texts == {[id |-> <<"app">>, shapes |-> {"space"}], [id |-> <<"com.a.b">>, shapes |-> {"dotted"}]}
           \cup {[id |-> Bound("com.a", "ext", t), shapes |-> {"dotted", "at"}] : t \in Team}
Installs == {<<>>, <<[words |-> {}, text |-> None, root |-> FALSE, app |-> "App", appex |-> "ext"]>>}
SafariRows == {[source |-> "safari_extensions", words |-> {}, id |-> None, display |-> None,
                vendorId |-> FALSE, name |-> t, paths |-> ps] : t \in Texts, ps \in Installs}
Apps == {<<>>} \cup [{"App"} -> [bundle: {"com.a"}, team: Team]]

AskKey ==
  /\ Unasked
  /\ \E r, s \in SafariRows, rApps, sApps \in Apps :
    Ask([about |-> "key", r |-> r, rApps |-> rApps, s |-> s, sApps |-> sApps])

Kinds == {"host", "user", "software"}
Links(kind) ==
  {[source |-> a, target |-> b] : a \in {n \in DOMAIN kind : kind[n] # "host"},
                                  b \in {n \in DOMAIN kind : kind[n] = "host"}}
Graph(kind, links, hollow) == [kind |-> kind, links |-> links, hollow |-> hollow]

AskSample ==
  /\ Unasked
  /\ \E kind \in [1 .. 5 -> Kinds], limit \in 3 .. 4 : \E links \in SUBSET Links(kind) :
    Ask([about |-> "sample", g |-> Graph(kind, links, {}), limit |-> limit])

TwoHosts == <<"host", "host", "user", "software", "user">>

AskWalk ==
  /\ Unasked
  /\ \E links \in SUBSET Links(TwoHosts), hollow \in {{}, {1}, {3}}, from, to \in 1 .. 5, hops \in 1 .. 3 :
    Ask([about |-> IF from = to THEN "surroundings" ELSE "path",
         g |-> Graph(TwoHosts, links, hollow), from |-> from, to |-> to, hops |-> hops])

Office == <<"host", "host", "host", "user", "user", "software">>
Teams == {<<"t1", "t1", "t2">>, <<"t1", "none", "none">>}

AskRadius ==
  /\ Unasked
  /\ \E links \in SUBSET Links(Office), teamOf \in Teams, id \in {4, 6}, team \in {"all", "t1"},
     labelled \in {1 .. 3, {1, 3}}, excluded \in {{}, {5}} :
    Ask([about |-> "radius", g |-> Graph(Office, links, {}), teamOf |-> teamOf,
         q |-> [kind |-> Office[id], id |-> id, team |-> team, labelled |-> labelled, excluded |-> excluded]])

Next == \/ AskSample \/ AskWalk \/ AskRadius
        \/ AskChrome \/ AskEdgeOrOpera \/ AskFirefoxOrSafari
        \/ AskOrder \/ AskWildcard \/ AskList \/ AskFeed
        \/ AskCapability \/ AskPolicy \/ AskScore \/ AskName \/ AskKey

Spec == Init /\ [][Next]_asked
-----------------------------------------------------------------------------
About(what) == asked.about = what

\* A store out of reach for a moment is never kept as a verdict against an
\* item (FetchStoreMetadata).
Misses == About("lookup") => MissConfirmed(asked.store, asked.r)

\* A rate limit is never lost on the way to the breaker (FetchStoreMetadata).
Limits == About("lookup") => LimitReported(asked.store, asked.r)

\* Never fail open (score.go:301): an item that a store knows but whose
\* package was not read is a threat of its own, whatever adapter it went
\* through.  Apple publishes no packages, and an Edge listing that came without
\* its manifest is not noticed.
Uninspected ==
  About("lookup") =>
    LET m == FetchStoreMetadata(asked.store, asked.r)
    IN /\ asked.store # "safari" /\ ~(asked.store = "edge" /\ asked.r.own = "ok")
       /\ Kept(m) /\ m.manifest \notin {"parsed", "cached"}
       => threatScore([Plain EXCEPT !.status = m.status, !.manifest = m.manifest]) > 0

\* What its store has taken down is a high risk at least, in whatever words the
\* store says so, whichever store was asked in the end, and whatever became of
\* the package (fetchAMOMetadata, FetchChromeListings and the floors of
\* AnalyzeExtension).
TakenDownIsHigh ==
  About("lookup") =>
    LET m == FetchStoreMetadata(asked.store, asked.r)
    IN TakenDown(asked.store, asked.r) =>
         riskBand(AnalyzeExtension([Plain EXCEPT !.status = m.status, !.manifest = m.manifest]))
           \in {"high", "critical"}

\* Versions are ordered, and "1.2.*" means every 1.2.x.
Ordered == About("order") => VersionOrder(asked.u, asked.v, asked.w)
Wildcards == About("wildcard") => WildcardCovers(asked.v, asked.p)

\* What any page of the blocklist blocks is blocked, or the list is refused
\* as a whole.
Covered == About("list") => BlockedCovered(asked.site, asked.id, asked.v)

\* An extension a readable feed calls malicious, in the row that counts, is
\* critical in every store of the feed's platform, built in or not.
ListedIsCritical ==
  About("feed") =>
    LET got == FetchThreatFeed(asked.feed)
        rows == asked.feed.rows
        Malicious(n) == /\ rows[n] = [kind |-> "good", id |-> "a", severity |-> "malicious"]
                        /\ \A k \in (n + 1) .. Len(rows) : rows[k].kind = "good" => rows[k].id # "a"
        hits == MatchThreatFeeds([f |-> [platform |-> asked.platform, entries |-> got.entries]],
                                 asked.store, "a")
    IN /\ got.result = "ok" /\ \E n \in DOMAIN rows : Malicious(n)
       /\ asked.store \in feedPlatforms[asked.platform]
       => riskBand(AnalyzeExtension([Plain EXCEPT !.builtin = asked.builtin, !.hits = hits])) = "critical"

\* More abilities never make an extension look less able.
MoreIsMore == About("capability") => CapabilityMonotone(asked.m, asked.p)

\* A repeated directive changes nothing.
FirstDirective == About("policy") => RepeatChangesNothing(asked.csp, asked.d)

\* More known against an item, or a worse answer of its store, never lowers
\* its score; publisher trust ends with an install from elsewhere.
HitsCount == About("score") => HitNeverLowers(asked.x)
StatusCounts == About("score") => WorseNeverLowers(asked.x)
UnpackedCounts == About("score") => UnpackedNotTrusted(asked.x)

\* The typosquat test against the edit distance.
Typos == About("name") => EditDistance(asked.a, asked.b)

\* Safari extensions on one node are signed alike.
NoLentTeam == About("key") => SignedApart(asked.r, asked.rApps, asked.s, asked.sApps)

\* The dashboard's sample of a graph is full and crowds out no type.
Balanced == About("sample") => SampleBalanced(asked.g, asked.limit)

\* The surroundings of a node are whole, or said to be cut.
WholeOrCut == About("surroundings") => SurroundingsWhole(asked.g, asked.from, asked.hops)

\* A path is shown from end to end.
EndToEnd == About("path") => PathJoined(asked.g, asked.from, asked.to, asked.hops)

\* A blast radius is measured against its scope.
InScope == About("radius") => RadiusInScope(asked.g, asked.teamOf, asked.q)

\* A source that fails, has nothing against an item, or took it down are told
\* from one another by the cache, the breaker and the score.
FailuresTold == Misses /\ Limits /\ Uninspected /\ TakenDownIsHigh

\* An installed version that Mozilla blocks is found to be, on whatever page and
\* in whatever range it is.
BlockedFound == Ordered /\ Wildcards /\ Covered

\* Whatever else is known of an item, more against it never makes its score
\* better: no cap, discount, floor or repeated directive hides it.
ScoreRises == ListedIsCritical /\ MoreIsMore /\ FirstDirective /\ HitsCount /\ StatusCounts

\* Trust is not lent: not to an install from elsewhere, to a name that is almost
\* another's, or to a row that looks like another team's.
TrustEarned == UnpackedCounts /\ Typos /\ NoLentTeam

\* What a route cuts from a graph to show it is whole, or known to be cut.
ShownHolds == Balanced /\ WholeOrCut /\ EndToEnd /\ InScope
=============================================================================
