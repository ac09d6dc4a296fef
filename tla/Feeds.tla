------------------------------- MODULE Feeds -------------------------------
(***************************************************************************)
(* Mozilla's blocklist and the open threat feeds                           *)
(* (internal/extintel/feeds.go): how a document of several pages becomes a *)
(* list, how versions compare, and which extensions a list names.          *)
(***************************************************************************)
EXTENDS Integers, SequencesExt

CONSTANT PageLimit   \* pages read of a list; 20 in the code
ASSUME PageLimitAssumption == PageLimit \in Nat \ {0}

\* A dot part of a version: its number, the rank of its suffix among the
\* suffixes in use (0 for none), or the wildcard "*".
Part(n, s) == [star |-> FALSE, num |-> n, suffix |-> s]
Star == [star |-> TRUE, num |-> 0, suffix |-> 0]

PartOrder(a, b) ==
  \/ ~a.star /\ b.star
  \/ a.num < b.num
  \/ a.num = b.num /\ a.suffix # 0 /\ (b.suffix = 0 \/ a.suffix < b.suffix)
StarIsZero(a, b) ==
  \/ a.num < b.num
  \/ a.num = b.num /\ a.suffix # 0 /\ (b.suffix = 0 \/ a.suffix < b.suffix)
\* A part with a suffix is a pre-release of the part without; "*" is above
\* every number.
comparePart(a, b) ==
  \/ ~a.star /\ b.star
  \/ /\ ~a.star /\ ~b.star
     /\ \/ a.num < b.num
        \/ a.num = b.num /\ a.suffix # 0 /\ (b.suffix = 0 \/ a.suffix < b.suffix)

\* Missing parts are zeroes.
PartAt(v, n) == IF n \in DOMAIN v THEN v[n] ELSE Part(0, 0)

Before(v, w) ==
  \E n \in DOMAIN v \cup DOMAIN w :
    /\ comparePart(PartAt(v, n), PartAt(w, n))
    /\ \A k \in 1 .. (n - 1) : /\ ~comparePart(PartAt(v, k), PartAt(w, k))
                               /\ ~comparePart(PartAt(w, k), PartAt(v, k))

CompareVersions(v, w) == IF Before(v, w) THEN -1 ELSE IF Before(w, v) THEN 1 ELSE 0

\* An open end of a range is the empty sequence.
InRange(v, range) ==
  /\ range.lo = <<>> \/ CompareVersions(v, range.lo) >= 0
  /\ range.hi = <<>> \/ CompareVersions(v, range.hi) <= 0

\* No range is every version; an unknown installed version fails closed.
versionBlocked(ranges, versions) ==
  \/ ranges = {} \/ versions = {}
  \/ \E r \in ranges, v \in versions : InRange(v, r)

\* A GUID stands for the set of the IDs it matches: one for an exact GUID,
\* any for a pattern, none for a pattern that does not compile.
MatchBlocklist(blocklist, id, versions) ==
  \E guid \in DOMAIN blocklist : id \in guid /\ versionBlocked(blocklist[guid], versions)
-----------------------------------------------------------------------------
\* Fetching.  A site is a sequence of pages; a page answers or not, holds
\* records [guid, ranges], and names the page after it (0 for none).

\* The pages w, and the one the last of them names unless it was seen.
Followed(site, w) ==
  LET next == site[Last(w)].next
  IN IF next = 0 \/ next \in Range(w) THEN w ELSE Append(w, next)

\* The pages asked for, in order: from the first, and PageLimit at most.
Walk(site) ==
  LET walk[n \in 1 .. PageLimit] ==
        IF n = 1 THEN <<1>> ELSE Followed(site, walk[n - 1])
  IN walk[PageLimit]

OneRecordKept(site, pages) ==
  LET records == UNION {site[p].records : p \in Range(pages)}
  IN [guid \in {r.guid : r \in records} |-> (CHOOSE r \in records : r.guid = guid).ranges]
\* The records of a GUID become one, with the ranges of them all.
Gathered(site, pages) ==
  LET records == UNION {site[p].records : p \in Range(pages)}
  IN [guid \in {r.guid : r \in records} |->
        UNION {r.ranges : r \in {s \in records : s.guid = guid}}]

\* All or nothing: a partial list must never be taken for the whole one.
FetchMozillaBlocklist(site, unchanged) ==
  LET pages == Walk(site)
      next == site[Last(pages)].next
  IN CASE unchanged -> [result |-> "not_modified"]
       [] ~unchanged /\ (\/ \E p \in Range(pages) : ~site[p].ok
                         \/ next # 0 /\ next \notin Range(pages)) -> [result |-> "failed"]
       [] OTHER -> [result |-> "ok", list |-> Gathered(site, pages)]

\* A threat feed is one CSV document: rows [kind, id, severity], where a row
\* may hold no valid ID ("junk") or break the parser ("broken"); the last row
\* of an ID counts.
FetchThreatFeed(feed) ==
  LET Good == {n \in DOMAIN feed.rows : feed.rows[n].kind = "good"}
      Of(id) == {n \in Good : feed.rows[n].id = id}
      LastOf(id) == CHOOSE n \in Of(id) : \A k \in Of(id) : k <= n
  IN IF ~feed.ok \/ ~feed.column \/ \E n \in DOMAIN feed.rows : feed.rows[n].kind = "broken"
     THEN [result |-> "failed"]
     ELSE [result |-> "ok",
           entries |-> [id \in {feed.rows[n].id : n \in Good} |-> feed.rows[LastOf(id)].severity]]

feedPlatforms == [chromium |-> {"chrome", "chromium", "brave", "vivaldi", "edge", "opera"},
                  firefox |-> {"firefox"}]

\* The severities the feeds give an extension.
MatchThreatFeeds(index, store, id) ==
  {index[f].entries[id] : f \in {g \in DOMAIN index :
     store \in feedPlatforms[index[g].platform] /\ id \in DOMAIN index[g].entries}}
-----------------------------------------------------------------------------
\* The comparison is an order: it can be turned round, and following it twice
\* leads in the same direction.  Ranges mean nothing otherwise.
VersionOrder(u, v, w) ==
  /\ CompareVersions(u, v) = -CompareVersions(v, u)
  /\ CompareVersions(u, v) <= 0 /\ CompareVersions(v, w) <= 0 => CompareVersions(u, w) <= 0

\* "Up to 1.2.*" covers every 1.2.x, however long, and nothing above 1.2: the
\* versions that are not above 1.2 once cut to its length.
WildcardCovers(v, p) ==
  LET cut == [n \in DOMAIN p |-> PartAt(v, n)]
  IN InRange(v, [lo |-> <<>>, hi |-> Append(p, Star)]) <=> CompareVersions(cut, p) <= 0

\* Every page a reader of the site would come to: those in every set of pages
\* that has the first and, with a page, the one after it.
Linked(site) ==
  {p \in DOMAIN site :
     \A S \in SUBSET DOMAIN site :
       1 \in S /\ (\A q \in S : site[q].next \in S \cup {0}) => p \in S}

\* A version that some page of the site blocks is blocked by the list that
\* was read, however the records of its GUID are spread over the pages,
\* if they all name a range or it has one record.
BlockedCovered(site, id, v) ==
  LET got == FetchMozillaBlocklist(site, FALSE)
      all == UNION {site[p].records : p \in Linked(site)}
      Of(guid) == {r \in all : r.guid = guid}
      Ranged(guid) == \/ \A r, s \in Of(guid) : r = s
                      \/ \A r \in Of(guid) : r.ranges # {}
  IN got.result = "ok" =>
       \A r \in all : id \in r.guid /\ versionBlocked(r.ranges, {v}) /\ Ranged(r.guid)
                      => MatchBlocklist(got.list, id, {v})
=============================================================================
