-------------------------- MODULE AlgorithmsProofs --------------------------
(***************************************************************************)
(* What is proved about the algorithms of internal/extintel and of the     *)
(* graph routes for every input, where TLC asks the questions of module    *)
(* Algorithms: lookups, lists and versions, sums over finite sets and the  *)
(* score made of them, whom an install is trusted as, and graphs.          *)
(***************************************************************************)
EXTENDS Algorithms, SequenceTheorems, FiniteSetTheorems, TLAPS

-----------------------------------------------------------------------------
(***************************************************************************)
(* Lookups.  Any answers of any endpoints.                                 *)
(***************************************************************************)
Stores == ChromeFamily \cup {"edge", "opera", "safari", "firefox"}
Lookups == [rpc: Endpoint, env: Envelope, update: Update, cached: BOOLEAN,
            crx: PackageResponse, package: Package, own: Endpoint,
            bare: BOOLEAN, addon: PackageResponse,
            record: Record]

\* What the constructors of a result set.
LEMMA Results ==
  /\ \A s : /\ Meta(s).status = s /\ ~Meta(s).error /\ ~Meta(s).limited
            /\ ~Meta(s).missing
  /\ \A s : /\ WithError(s).status = s /\ WithError(s).error
            /\ ~WithError(s).limited /\ ~WithError(s).missing
  /\ Unknown.status = "unknown" /\ Unknown.error /\ ~Unknown.limited
  /\ ~Unknown.missing
  /\ \A s : /\ Limited(Meta(s)).status = s /\ Limited(Meta(s)).limited
            /\ Limited(Meta(s)).error /\ ~Limited(Meta(s)).missing
  /\ \A s, m : LET e == [Meta(s) EXCEPT !.manifest = m]
               IN /\ e.status = s /\ ~e.error /\ ~e.limited /\ ~e.missing
  /\ \A s : /\ FromCache(Meta(s)).status = s /\ ~FromCache(Meta(s)).error
            /\ ~FromCache(Meta(s)).limited
  /\ \A s : LET e == [Meta(s) EXCEPT !.missing = TRUE]
            IN /\ e.status = s /\ ~e.error /\ ~e.limited /\ e.missing
  BY DEF Meta, WithError, Unknown, Limited, FromCache

\* An answer of the Chrome Web Store that was waited for and is a failure of
\* the moment becomes an unknown item that is not kept, and a rate limit is
\* told (FetchChromeListings, FetchChromeMetadata).
LEMMA ChromeOutcome ==
  ASSUME NEW r \in Lookups
  PROVE  /\ "429" \in ChromeHeard(r) => Chrome(r).limited
         /\ ChromeHeard(r) \cap Transient # {} =>
              ~Kept(Chrome(r)) /\ Chrome(r).status = "unknown"
<1> DEFINE listing == FetchChromeListings(r.rpc, r.env)
<1>0. /\ r.rpc \in Endpoint /\ r.env \in Envelope /\ r.update \in Update
  BY DEF Lookups
<1>1. /\ listing.missing => r.rpc = "ok"
      /\ r.rpc = "429" => listing = Limited(Meta("unknown"))
      /\ r.rpc \in {"5xx", "net"} => listing = Unknown
  BY <1>0, Results DEF FetchChromeListings, RateLimited, Envelope
<1>2. CASE ~listing.missing
  <2>1. ChromeHeard(r) = {r.rpc} /\ Chrome(r) = listing
    BY <1>2 DEF ChromeHeard, Chrome, FetchChromeMetadata
  <2> QED
    BY <1>1, <2>1, Results DEF Transient, Kept
<1>3. CASE listing.missing
  <2>1. ChromeHeard(r) = {"ok", r.update}
    BY <1>1, <1>3 DEF ChromeHeard
  <2>2. /\ r.update = "429" => Chrome(r) = Limited(Meta("unknown"))
        /\ r.update \in {"5xx", "net"} => Chrome(r) = Unknown
    BY <1>3 DEF Chrome, FetchChromeMetadata, RateLimited
  <2> QED
    BY <2>1, <2>2, Results DEF Transient, Kept
<1> QED
  BY <1>2, <1>3

\* What a store's own endpoint that failed for a moment makes of the lookup.
LEMMA OwnOutcome ==
  ASSUME NEW r \in Lookups, NEW own,
         own \in {fetchEdgeMetadata(r), fetchAMOMetadata(r),
                  fetchSafariMetadata(r)}
  PROVE  /\ r.own = "429" => own.limited
         /\ r.own \in Transient => ~Kept(own) /\ own.status = "unknown"
<1>1. /\ r.own = "429" => own = Limited(Meta("unknown"))
      /\ r.own \in {"5xx", "net"} => own = Unknown
  <2>1. /\ r.own = "429" => fetchEdgeMetadata(r) = Limited(Meta("unknown"))
        /\ r.own \in {"5xx", "net"} => fetchEdgeMetadata(r) = Unknown
    BY DEF fetchEdgeMetadata, RateLimited
  <2>2. /\ r.own = "429" => fetchAMOMetadata(r) = Limited(Meta("unknown"))
        /\ r.own \in {"5xx", "net"} => fetchAMOMetadata(r) = Unknown
    BY DEF fetchAMOMetadata, RateLimited
  <2>3. /\ r.own = "429" => fetchSafariMetadata(r) = Limited(Meta("unknown"))
        /\ r.own \in {"5xx", "net"} => fetchSafariMetadata(r) = Unknown
    BY DEF fetchSafariMetadata, RateLimited
  <2> QED
    BY <2>1, <2>2, <2>3
<1> QED
  BY <1>1, Results DEF Transient, Kept

\* No verdict against an item is kept from a lookup whose store, or the store
\* it fell back on, was out of reach for a moment, whatever was answered.
THEOREM MissesAreConfirmed ==
  ASSUME NEW store \in Stores, NEW r \in Lookups
  PROVE  MissConfirmed(store, r) /\ LimitReported(store, r)
<1>1. CASE store \in ChromeFamily
  <2>1. FetchStoreMetadata(store, r) = Chrome(r)
    BY <1>1 DEF FetchStoreMetadata, ChromeFamily
  <2>2. Heard(store, r) = ChromeHeard(r)
    BY <1>1 DEF Heard, AskedChrome
  <2> QED
    BY <2>1, <2>2, ChromeOutcome DEF MissConfirmed, LimitReported
<1>2. CASE store = "edge"
  <2> DEFINE own == fetchEdgeMetadata(r)
  <2>1. FetchStoreMetadata(store, r) = EdgeOrChrome(r)
    BY <1>2 DEF FetchStoreMetadata, ChromeFamily
  <2>2. Heard(store, r) =
          {r.own} \cup (IF own.status = "not_found" THEN ChromeHeard(r) ELSE {})
    BY <1>2 DEF Heard, AskedChrome, ChromeFamily
  <2>3. /\ r.own = "429" => own.limited
        /\ r.own \in Transient => ~Kept(own) /\ own.status = "unknown"
    BY OwnOutcome
  <2>4. CASE own.status # "not_found"
    BY <2>1, <2>2, <2>3, <2>4 DEF EdgeOrChrome, MissConfirmed, LimitReported, Transient
  <2>5. CASE own.status = "not_found"
    <3>1. r.own \notin Transient /\ r.own # "429"
      BY <2>3, <2>5 DEF Transient
    <3>2. Heard(store, r) = {r.own} \cup ChromeHeard(r)
      BY <2>2, <2>5
    <3>3. Chrome(r).status # "not_found" => FetchStoreMetadata(store, r) = Chrome(r)
      BY <2>1, <2>5 DEF EdgeOrChrome
    <3>4. ChromeHeard(r) \cap Transient # {} => Chrome(r).status = "unknown"
      BY ChromeOutcome
    <3>5. Heard(store, r) \cap Transient # {} => ~Kept(FetchStoreMetadata(store, r))
      BY <3>1, <3>2, <3>3, <3>4, ChromeOutcome
    <3>6. "429" \in Heard(store, r) => FetchStoreMetadata(store, r).limited
      BY <3>1, <3>2, <3>3, <3>4, ChromeOutcome DEF Transient
    <3> QED
      BY <3>5, <3>6 DEF MissConfirmed, LimitReported
  <2> QED
    BY <2>4, <2>5
<1>3. CASE store = "opera"
  BY <1>3 DEF MissConfirmed, LimitReported
<1>4. CASE store \in {"safari", "firefox"}
  <2>1. /\ FetchStoreMetadata(store, r) \in
             {fetchSafariMetadata(r), fetchAMOMetadata(r)}
        /\ Heard(store, r) = {r.own}
    BY <1>4 DEF FetchStoreMetadata, Heard, AskedChrome, ChromeFamily
  <2> QED
    BY <2>1, OwnOutcome DEF MissConfirmed, LimitReported, Transient
<1> QED
  BY <1>1, <1>2, <1>3, <1>4 DEF Stores

\* Of a result that is kept, the package was read or will count as not read,
\* or the store has something against the item.
Told(m) == \/ ~Kept(m)
           \/ m.manifest \in {"parsed", "cached", "error", "unavailable"}
           \/ m.status \in {"not_found", "removed", "unlisted"}

LEMMA ResultsTold ==
  /\ \A s : Told(Limited(Meta(s))) /\ Told(FromCache(Meta(s)))
  /\ \A s, m : m \in {"parsed", "cached", "error", "unavailable"} =>
                 Told([Meta(s) EXCEPT !.manifest = m])
  /\ Told(Unknown) /\ Told(WithError("not_found")) /\ Told(WithError("unlisted"))
  /\ Told(Meta("removed"))
  BY DEF Told, Kept, Meta, WithError, Unknown, Limited, FromCache

LEMMA ChromeTold ==
  ASSUME NEW r \in Lookups
  PROVE  Told(Chrome(r))
<1> DEFINE listing == FetchChromeListings(r.rpc, r.env)
<1>0. /\ r.env \in Envelope /\ r.crx \in PackageResponse
      /\ r.update \in Update /\ r.cached \in BOOLEAN
  BY DEF Lookups
<1>1. listing \in {Limited(Meta("unknown")), Unknown,
                   [Meta("public") EXCEPT !.manifest = "parsed"],
                   Meta("removed"), [Meta("unlisted") EXCEPT !.missing = TRUE]}
  BY <1>0 DEF FetchChromeListings, Envelope
<1>2. CASE ~listing.missing
  <2>1. Chrome(r) = listing
    BY <1>2 DEF Chrome, FetchChromeMetadata
  <2>2. listing # [Meta("unlisted") EXCEPT !.missing = TRUE]
    BY <1>2, Results
  <2> QED
    BY <1>1, <2>1, <2>2, ResultsTold
<1>3. CASE listing.missing
  <2>1. ChromePackage(Meta("unlisted"), r.crx, r.package) \in
          {[Meta("unlisted") EXCEPT !.manifest = "unavailable"],
           [Meta("unlisted") EXCEPT !.manifest = "error"],
           [Meta("unlisted") EXCEPT !.manifest = "parsed"]}
    BY <1>0 DEF ChromePackage
  <2>2. Told(ChromePackage(Meta("unlisted"), r.crx, r.package))
    BY <2>1, ResultsTold
  <2>3. Chrome(r) \in {Limited(Meta("unknown")), Unknown, WithError("not_found"),
                       FromCache(Meta("unlisted")),
                       [Meta("unlisted") EXCEPT !.manifest = "unavailable"],
                       ChromePackage(Meta("unlisted"), r.crx, r.package)}
    BY <1>0, <1>3 DEF Chrome, FetchChromeMetadata, Update, Transient
  <2> QED
    BY <2>2, <2>3, ResultsTold
<1> QED
  BY <1>2, <1>3

LEMMA OthersTold ==
  ASSUME NEW r \in Lookups
  PROVE  /\ Told(fetchAMOMetadata(r)) /\ Told(fetchOperaMetadata(r))
         /\ r.own # "ok" => Told(fetchEdgeMetadata(r))
<1>0. /\ r.own \in Endpoint /\ r.addon \in PackageResponse
      /\ r.crx \in PackageResponse /\ r.cached \in BOOLEAN
  BY DEF Lookups
<1> USE DEF RateLimited
<1>1. Told(fetchAMOMetadata(r))
  <2> DEFINE record == Meta(recordStatus(r.record))
             package == amoPackageManifest(record, r.crx, r.package)
  <2>1. package \in {[record EXCEPT !.manifest = "unavailable"],
                     [record EXCEPT !.manifest = "parsed"],
                     [record EXCEPT !.manifest = "error"]}
    BY <1>0 DEF amoPackageManifest
  <2>2. Told(package)
    BY <2>1, ResultsTold
  <2> HIDE DEF package
  <2>3. fetchAMOMetadata(r) \in
          {Limited(Meta("unknown")), WithError("unlisted"),
           WithError("not_found"), Unknown, FromCache(record), package}
    BY <1>0 DEF fetchAMOMetadata, package, Endpoint, Transient
  <2> QED
    BY <2>2, <2>3, ResultsTold
<1>2. Told(fetchOperaMetadata(r))
  <2>1. fetchOperaMetadata(r) \in
          {Limited(Meta("unknown")), WithError("not_found"), Unknown,
           FromCache(Meta("public")), Limited(Meta("public")),
           [Meta("public") EXCEPT !.manifest = "unavailable"],
           [Meta("public") EXCEPT !.manifest = "error"],
           [Meta("public") EXCEPT !.manifest = "parsed"]}
    BY <1>0 DEF fetchOperaMetadata, Endpoint, PackageResponse, Transient
  <2> QED
    BY <2>1, ResultsTold
<1>3. ASSUME r.own # "ok" PROVE Told(fetchEdgeMetadata(r))
  <2>1. fetchEdgeMetadata(r) \in
          {Limited(Meta("unknown")), WithError("not_found"), Unknown}
    BY <1>0, <1>3 DEF fetchEdgeMetadata, Endpoint, Transient
  <2> QED
    BY <2>1, ResultsTold
<1> QED
  BY <1>1, <1>2, <1>3

\* What speaks against an item is in its threat, whatever else there is.
LEMMA ThreatShown ==
  ASSUME NEW x, x.blocked \in BOOLEAN, x.cvss \in Int,
         \/ x.manifest \in {"error", "unavailable"}
         \/ x.status \in {"not_found", "removed", "unlisted", "disabled"}
  PROVE  threatScore(x) > 0
<1> DEFINE status == CASE x.blocked -> 100
                       [] ~x.blocked /\ x.status \in {"removed", "disabled"} -> 45
                       [] ~x.blocked /\ x.status \in {"not_found", "sideloaded"} -> 20
                       [] ~x.blocked /\ x.status = "unlisted" -> 10
                       [] OTHER -> 0
           rating == IF x.rating = "poor" THEN 15 ELSE 0
           manifest == CASE x.manifest = "error" -> 30
                         [] x.manifest = "unavailable" -> 15 [] OTHER -> 0
           cve == CASE x.cvss >= 9 -> 35 [] x.cvss \in 7 .. 8 -> 25
                    [] x.cvss \in 1 .. 6 -> 10 [] OTHER -> 0
<1>1. status \in Nat /\ rating \in Nat /\ manifest \in Nat /\ cve \in Nat
  OBVIOUS
<1>2. status > 0 \/ manifest > 0
  OBVIOUS
<1>3. threatScore(x) = Max({status, rating, manifest, cve})
  BY DEF threatScore
<1> HIDE DEF status, rating, manifest, cve
<1>4. \E m \in {status, rating, manifest, cve} :
        \A y \in {status, rating, manifest, cve} : m >= y
  BY <1>1
<1> QED
  BY <1>1, <1>2, <1>3, <1>4 DEF Max

\* Never fail open: an item that a store knows but whose package was not read
\* is a threat of its own, through every adapter that asks for a package.
THEOREM NothingUninspected ==
  ASSUME NEW store \in Stores, NEW r \in Lookups, NEW x,
         x.blocked \in BOOLEAN, x.cvss \in Int,
         store # "safari", ~(store = "edge" /\ r.own = "ok"),
         Kept(FetchStoreMetadata(store, r)),
         FetchStoreMetadata(store, r).manifest \notin {"parsed", "cached"},
         x.status = FetchStoreMetadata(store, r).status,
         x.manifest = FetchStoreMetadata(store, r).manifest
  PROVE  threatScore(x) > 0
<1>1. FetchStoreMetadata(store, r) \in
        {Chrome(r), fetchAMOMetadata(r), fetchOperaMetadata(r)}
        \cup (IF r.own # "ok" THEN {fetchEdgeMetadata(r)} ELSE {})
  BY DEF Stores, FetchStoreMetadata, EdgeOrChrome, OperaOrChrome, ChromeFamily
<1>2. Told(FetchStoreMetadata(store, r))
  BY <1>1, ChromeTold, OthersTold
<1> QED
  BY <1>2, ThreatShown DEF Told

\* What a store has taken down is told as removed, whether the record says so
\* or carries the flag (recordStatus, FetchChromeListings).
LEMMA TakenDownIsRemoved ==
  ASSUME NEW store \in Stores, NEW r \in Lookups, TakenDown(store, r)
  PROVE  /\ FetchStoreMetadata(store, r).status = "removed"
         /\ FetchStoreMetadata(store, r).manifest
              \in {"none", "cached", "unavailable", "parsed", "error"}
<1>1. CASE AskedChrome(store, r) /\ r.rpc = "ok" /\ r.env = "code7"
  <2>1. Chrome(r) = Meta("removed")
    <3>1. FetchChromeListings(r.rpc, r.env) = Meta("removed")
      BY <1>1 DEF FetchChromeListings, RateLimited
    <3> QED
      BY <3>1, Results DEF Chrome, FetchChromeMetadata
  <2>2. FetchStoreMetadata(store, r) = Chrome(r)
    BY <1>1, <2>1, Results
    DEF AskedChrome, FetchStoreMetadata, EdgeOrChrome, OperaOrChrome, ChromeFamily
  <2> QED
    BY <2>1, <2>2 DEF Meta
<1>2. CASE store = "firefox" /\ r.own = "ok" /\ Withdrawn(r.record)
  <2> DEFINE record == Meta("removed")
  <2>1. recordStatus(r.record) = "removed"
    BY <1>2 DEF recordStatus
  <2>2. FetchStoreMetadata(store, r) = fetchAMOMetadata(r)
    BY <1>2 DEF FetchStoreMetadata, ChromeFamily
  <2>3. fetchAMOMetadata(r) \in {FromCache(record), amoPackageManifest(record, r.crx, r.package)}
    BY <1>2, <2>1 DEF fetchAMOMetadata, RateLimited, Lookups
  <2>4. amoPackageManifest(record, r.crx, r.package) \in
          {[record EXCEPT !.manifest = "unavailable"], [record EXCEPT !.manifest = "parsed"],
           [record EXCEPT !.manifest = "error"]}
    BY DEF amoPackageManifest, Lookups
  <2> QED
    BY <2>2, <2>3, <2>4 DEF Meta, FromCache
<1> QED
  BY <1>1, <1>2 DEF TakenDown

\* Who may have put a question.
LEMMA Asking ==
  ASSUME Next
  PROVE  /\ About("lookup")' =>
              AskChrome \/ AskEdgeOrOpera \/ AskFirefoxOrSafari
         /\ About("order")' => AskOrder
         /\ About("wildcard")' => AskWildcard
         /\ About("list")' => AskList
         /\ About("feed")' => AskFeed
         /\ About("capability")' => AskCapability
         /\ About("policy")' => AskPolicy
         /\ About("score")' => AskScore
         /\ About("name")' => AskName
         /\ About("key")' => AskKey
         /\ About("sample")' => AskSample
         /\ About("path")' => AskWalk
         /\ About("surroundings")' => AskWalk
         /\ About("radius")' => AskRadius
<1>1. AskOrder => asked'.about = "order"
  BY DEF AskOrder, Ask
<1>2. AskWildcard => asked'.about = "wildcard"
  BY DEF AskWildcard, Ask
<1>3. AskList => asked'.about = "list"
  BY DEF AskList, Ask
<1>4. AskFeed => asked'.about = "feed"
  BY DEF AskFeed, Ask
<1>5. AskCapability => asked'.about = "capability"
  BY DEF AskCapability, Ask
<1>6. AskPolicy => asked'.about = "policy"
  BY DEF AskPolicy, Ask
<1>7. AskScore => asked'.about = "score"
  BY DEF AskScore, Ask
<1>8. AskName => asked'.about = "name"
  BY DEF AskName, Ask
<1>9. AskKey => asked'.about = "key"
  BY DEF AskKey, Ask
<1>10. AskSample => asked'.about = "sample"
  BY DEF AskSample, Ask
<1>11. AskRadius => asked'.about = "radius"
  BY DEF AskRadius, Ask
<1>12. AskWalk => asked'.about \in {"path", "surroundings"}
  BY DEF AskWalk, Ask
<1>13. AskChrome => asked'.about = "lookup"
  BY DEF AskChrome, Ask
<1>14. AskEdgeOrOpera => asked'.about = "lookup"
  BY DEF AskEdgeOrOpera, Ask
<1>15. AskFirefoxOrSafari => asked'.about = "lookup"
  BY DEF AskFirefoxOrSafari, Ask
<1> QED
  BY <1>1, <1>2, <1>3, <1>4, <1>5, <1>6, <1>7, <1>8,
     <1>9, <1>10, <1>11, <1>12, <1>13, <1>14, <1>15 DEF Next, About

\* Every lookup that is asked about is one of Lookups.
LEMMA AskedLookups ==
  ASSUME Next, About("lookup")'
  PROVE  asked'.store \in Stores /\ asked'.r \in Lookups
<1>0. Good \in Package
  BY DEF Package, Good
<1>1. Packages \subseteq Package
  <2>1. /\ [Good EXCEPT !.hash = FALSE] \in Package
        /\ [Good EXCEPT !.header = "crx9"] \in Package
        /\ [Good EXCEPT !.manifest = "text"] \in Package
    BY <1>0 DEF Package
  <2> QED
    BY <1>0, <2>1 DEF Packages
<1>2. Lookup \in Lookups
  BY <1>0 DEF Lookups, Lookup, Envelope, Update, PackageResponse, Endpoint,
              Transient, Record
<1>3. {"ok"} \cup Transient \subseteq Endpoint
  BY DEF Endpoint
<1>4. CASE AskChrome
  <2>1. PICK env \in Envelope, rpc \in {"ok"} \cup Transient, update \in Update,
             cached \in BOOLEAN, crx \in PackageResponse, p \in Packages :
          asked' = [about |-> "lookup", store |-> "chrome",
                    r |-> [Lookup EXCEPT !.env = env, !.rpc = rpc,
                             !.update = update, !.cached = cached,
                             !.crx = crx, !.package = p]]
    BY <1>4 DEF AskChrome, Ask
  <2>2. asked'.r \in Lookups
    BY <1>1, <1>2, <1>3, <2>1 DEF Lookups
  <2> QED
    BY <2>1, <2>2 DEF Stores, ChromeFamily
<1>5. CASE AskEdgeOrOpera
  <2>1. PICK store \in {"edge", "opera"}, own \in Endpoint,
             addon \in PackageResponse, bare \in BOOLEAN,
             rpc \in {"ok"} \cup Transient, env \in Envelope,
             update \in Update :
          asked' = [about |-> "lookup", store |-> store,
                    r |-> [Lookup EXCEPT !.own = own, !.bare = bare,
                             !.addon = addon, !.rpc = rpc, !.env = env,
                             !.update = update]]
    BY <1>5 DEF AskEdgeOrOpera, Ask
  <2>2. asked'.r \in Lookups
    BY <1>2, <1>3, <2>1 DEF Lookups
  <2> QED
    BY <2>1, <2>2 DEF Stores
<1>6. CASE AskFirefoxOrSafari
  <2>1. PICK store \in {"firefox", "safari"}, own \in Endpoint,
             record \in Record,
             cached \in BOOLEAN, crx \in PackageResponse, p \in Packages :
          asked' = [about |-> "lookup", store |-> store,
                    r |-> [Lookup EXCEPT !.own = own, !.record = record,
                             !.cached = cached, !.crx = crx, !.package = p]]
    BY <1>6 DEF AskFirefoxOrSafari, Ask
  <2>2. asked'.r \in Lookups
    BY <1>1, <1>2, <2>1 DEF Lookups
  <2> QED
    BY <2>1, <2>2 DEF Stores
<1> QED
  BY <1>4, <1>5, <1>6, Asking
-----------------------------------------------------------------------------
(***************************************************************************)
(* Versions of any length with any numbers and suffixes, pages of any      *)
(* blocklist.                                                              *)
(***************************************************************************)
VersionPart == [star: BOOLEAN, num: Nat, suffix: Nat]
Plainly == {Part(n, s) : n \in Nat, s \in Nat}
Version == Seq(VersionPart)

\* Every set of numbers that is not empty has a least element.
LEMMA LeastElement ==
  ASSUME NEW S \in SUBSET Nat, S # {}
  PROVE  \E m \in S : \A x \in S : m <= x
<1>1. PICK m \in S : \A y \in S : <<y, m>> \notin OpToRel(<, Nat)
  BY WFMin, NatLessThanWellFounded, Zenon
<1>2. \A y \in S : ~(y < m)
  BY <1>1 DEF OpToRel
<1> QED
  BY <1>2

\* Parts are ordered, up to being alike.
LEMMA PartsOrdered ==
  ASSUME NEW a \in VersionPart, NEW b \in VersionPart, NEW c \in VersionPart
  PROVE  /\ ~(comparePart(a, b) /\ comparePart(b, a))
         /\ ~comparePart(a, b) /\ ~comparePart(b, c) => ~comparePart(a, c)
  BY DEF VersionPart, comparePart

LEMMA PartsTyped ==
  ASSUME NEW v \in Version
  PROVE  /\ Len(v) \in Nat /\ DOMAIN v = 1 .. Len(v)
         /\ \A n : PartAt(v, n) \in VersionPart
<1>1. Part(0, 0) \in VersionPart
  BY DEF VersionPart, Part
<1>2. /\ Len(v) \in Nat /\ DOMAIN v = 1 .. Len(v)
      /\ \A n \in DOMAIN v : v[n] \in VersionPart
  BY DEF Version
<1> QED
  BY <1>1, <1>2 DEF PartAt

Alike(v, w, n) == /\ ~comparePart(PartAt(v, n), PartAt(w, n))
                  /\ ~comparePart(PartAt(w, n), PartAt(v, n))

\* Where two versions differ first decides.
LEMMA BeforeAsymmetric ==
  ASSUME NEW v \in Version, NEW w \in Version
  PROVE  ~(Before(v, w) /\ Before(w, v))
<1> SUFFICES ASSUME Before(v, w), Before(w, v) PROVE FALSE
  OBVIOUS
<1>1. PICK n \in DOMAIN v \cup DOMAIN w :
        /\ comparePart(PartAt(v, n), PartAt(w, n))
        /\ \A k \in 1 .. (n - 1) : Alike(v, w, k)
  BY DEF Before, Alike
<1>2. PICK m \in DOMAIN v \cup DOMAIN w :
        /\ comparePart(PartAt(w, m), PartAt(v, m))
        /\ \A k \in 1 .. (m - 1) : Alike(v, w, k)
  BY DEF Before, Alike
<1>3. n \in Nat \ {0} /\ m \in Nat \ {0}
  BY PartsTyped
<1>4. n = m
  <2>1. ~(n < m)
    BY <1>1, <1>2, <1>3 DEF Alike
  <2>2. ~(m < n)
    BY <1>1, <1>2, <1>3 DEF Alike
  <2> QED
    BY <1>3, <2>1, <2>2
<1> QED
  BY <1>1, <1>2, <1>4, PartsTyped, PartsOrdered

\* A version between two others keeps them in order.
LEMMA BeforeBetween ==
  ASSUME NEW u \in Version, NEW v \in Version, NEW w \in Version,
         Before(w, u)
  PROVE  Before(v, u) \/ Before(w, v)
<1>1. PICK n \in DOMAIN w \cup DOMAIN u :
        /\ comparePart(PartAt(w, n), PartAt(u, n))
        /\ \A k \in 1 .. (n - 1) : Alike(w, u, k)
  BY DEF Before, Alike
<1>2. n \in Nat \ {0}
  BY PartsTyped
<1> DEFINE Apart == {k \in 1 .. n : ~Alike(w, v, k) \/ ~Alike(v, u, k)}
<1>3. n \in Apart
  <2>1. ~(Alike(w, v, n) /\ Alike(v, u, n))
    BY <1>1, PartsTyped, PartsOrdered DEF Alike
  <2> QED
    BY <1>2, <2>1
<1>4. PICK k \in Apart : \A j \in Apart : k <= j
  <2>1. Apart \in SUBSET Nat /\ Apart # {}
    BY <1>2, <1>3
  <2> HIDE DEF Apart
  <2> QED
    BY <2>1, LeastElement
<1>5. /\ k \in 1 .. n
      /\ \A j \in 1 .. (k - 1) : Alike(w, v, j) /\ Alike(v, u, j)
  BY <1>2, <1>4
<1>6. comparePart(PartAt(w, k), PartAt(v, k))
        \/ comparePart(PartAt(v, k), PartAt(u, k))
  <2> SUFFICES ASSUME ~comparePart(PartAt(w, k), PartAt(v, k)),
                      ~comparePart(PartAt(v, k), PartAt(u, k))
               PROVE  FALSE
    OBVIOUS
  <2>1. ~comparePart(PartAt(w, k), PartAt(u, k))
    BY PartsTyped, PartsOrdered
  <2>2. k \in 1 .. (n - 1)
    BY <1>1, <1>2, <1>5, <2>1
  <2>3. Alike(w, u, k)
    BY <1>1, <2>2
  <2>4. Alike(w, v, k) /\ Alike(v, u, k)
    <3>1. ~comparePart(PartAt(v, k), PartAt(w, k))
        BY <2>3, PartsTyped, PartsOrdered DEF Alike
    <3>2. ~comparePart(PartAt(u, k), PartAt(v, k))
      BY <2>3, PartsTyped, PartsOrdered DEF Alike
    <3> QED
      BY <3>1, <3>2 DEF Alike
  <2> QED
    BY <1>4, <2>4
<1>7. \A x, y \in Version :
        comparePart(PartAt(x, k), PartAt(y, k)) => k \in DOMAIN x \cup DOMAIN y
  <2>1. ~comparePart(Part(0, 0), Part(0, 0))
    BY DEF comparePart, Part
  <2> QED
    BY <2>1 DEF PartAt
<1>8. CASE comparePart(PartAt(w, k), PartAt(v, k))
  BY <1>5, <1>7, <1>8 DEF Before, Alike
<1>9. CASE comparePart(PartAt(v, k), PartAt(u, k))
  BY <1>5, <1>7, <1>9 DEF Before, Alike
<1> QED
  BY <1>6, <1>8, <1>9

\* Versions are ordered, whatever their lengths, suffixes and wildcards: the
\* comparison can be turned round and followed (CompareVersions).
THEOREM VersionsOrdered ==
  ASSUME NEW u \in Version, NEW v \in Version, NEW w \in Version
  PROVE  VersionOrder(u, v, w)
<1>1. CompareVersions(u, v) = -CompareVersions(v, u)
  BY BeforeAsymmetric DEF CompareVersions
<1>2. ASSUME CompareVersions(u, v) <= 0, CompareVersions(v, w) <= 0
      PROVE  CompareVersions(u, w) <= 0
  <2>1. ~Before(v, u) /\ ~Before(w, v)
    BY <1>2, BeforeAsymmetric DEF CompareVersions
  <2>2. ~Before(w, u)
    BY <2>1, BeforeBetween
  <2> QED
    BY <2>2 DEF CompareVersions
<1> QED
  BY <1>1, <1>2 DEF VersionOrder

\* "1.2.*" as an upper end covers a version of any length exactly if the
\* version, cut to the length of "1.2", is not above it (InRange).
THEOREM WildcardsCover ==
  ASSUME NEW v \in Seq(Plainly), NEW p \in Seq(Plainly)
  PROVE  WildcardCovers(v, p)
<1> DEFINE L == Len(p)
           hi == Append(p, Star)
           cut == [n \in DOMAIN p |-> PartAt(v, n)]
<1>1. /\ Plainly \subseteq VersionPart /\ Star \in VersionPart
      /\ \A a \in Plainly : ~a.star
      /\ Part(0, 0) \in Plainly
  <2>1. Star \in VersionPart
    BY DEF Star, VersionPart
  <2>2. ASSUME NEW n \in Nat, NEW m \in Nat
        PROVE  Part(n, m) \in VersionPart /\ ~Part(n, m).star
    BY DEF Part, VersionPart
  <2>3. Part(0, 0) \in Plainly
    <3>1. \E n \in Nat, m \in Nat : Part(0, 0) = Part(n, m)
      OBVIOUS
    <3> QED
      BY <3>1 DEF Plainly
  <2> QED
    BY <2>1, <2>2, <2>3 DEF Plainly
<1>2. v \in Version /\ p \in Version /\ hi \in Version
  BY <1>1 DEF Version
<1>3. /\ L \in Nat /\ DOMAIN p = 1 .. L /\ Len(hi) = L + 1
      /\ DOMAIN hi = 1 .. L + 1
      /\ \A n \in 1 .. L : hi[n] = p[n]
      /\ hi[L + 1] = Star
  BY <1>1, <1>2, AppendProperties DEF Version
<1>4. \A n : PartAt(v, n) \in Plainly
  BY <1>1 DEF PartAt
<1>5. cut \in Version /\ DOMAIN cut = 1 .. L
  <2>1. \A n \in 1 .. L : PartAt(v, n) \in VersionPart
    BY <1>1, <1>4
  <2> QED
    BY <1>3, <2>1 DEF Version
<1>6. \A n \in 1 .. L : /\ PartAt(hi, n) = PartAt(p, n)
                        /\ PartAt(cut, n) = PartAt(v, n)
  BY <1>3, <1>5 DEF PartAt
<1>7. PartAt(hi, L + 1) = Star
  BY <1>3 DEF PartAt
<1>8. comparePart(PartAt(v, L + 1), Star) /\ ~comparePart(Star, PartAt(v, L + 1))
  BY <1>1, <1>4 DEF comparePart, Star
<1>9. hi # <<>>
  BY <1>1, <1>2, AppendProperties DEF Version
<1> HIDE DEF hi, cut
<1>10. Before(hi, v) => Before(p, cut)
  <2> SUFFICES ASSUME Before(hi, v) PROVE Before(p, cut)
    OBVIOUS
  <2>1. PICK n \in DOMAIN hi \cup DOMAIN v :
          /\ comparePart(PartAt(hi, n), PartAt(v, n))
          /\ \A k \in 1 .. (n - 1) : Alike(hi, v, k)
    BY DEF Before, Alike
  <2>2. n \in Nat \ {0}
    BY <1>2, PartsTyped
  <2>3. n # L + 1
    BY <1>7, <1>8, <2>1
  <2>4. ~(n > L + 1)
    <3> SUFFICES ASSUME n > L + 1 PROVE FALSE
      OBVIOUS
    <3>1. L + 1 \in 1 .. (n - 1)
      BY <1>3, <2>2
    <3> QED
      BY <1>7, <1>8, <2>1, <3>1 DEF Alike
  <2>5. n \in 1 .. L
    BY <1>3, <2>2, <2>3, <2>4
  <2>6. \A k \in 1 .. (n - 1) : k \in 1 .. L
    BY <1>3, <2>5
  <2> QED
    BY <1>3, <1>6, <2>1, <2>5, <2>6 DEF Before, Alike
<1>11. Before(p, cut) => Before(hi, v)
  <2> SUFFICES ASSUME Before(p, cut) PROVE Before(hi, v)
    OBVIOUS
  <2>1. PICK n \in 1 .. L :
          /\ comparePart(PartAt(p, n), PartAt(cut, n))
          /\ \A k \in 1 .. (n - 1) : Alike(p, cut, k)
    BY <1>3, <1>5 DEF Before, Alike
  <2>2. \A k \in 1 .. (n - 1) : k \in 1 .. L
    BY <1>3, <2>1
  <2>3. n \in DOMAIN hi
    BY <1>3, <2>1
  <2> QED
    BY <1>6, <2>1, <2>2, <2>3 DEF Before, Alike
<1>12. InRange(v, [lo |-> <<>>, hi |-> hi]) <=> ~Before(hi, v)
  BY <1>2, <1>9, BeforeAsymmetric DEF InRange, CompareVersions
<1>13. CompareVersions(cut, p) <= 0 <=> ~Before(p, cut)
  BY <1>2, <1>5, BeforeAsymmetric DEF CompareVersions
<1> QED
  BY <1>10, <1>11, <1>12, <1>13 DEF WildcardCovers, hi, cut

\* A list of pages, the first of which is 1; each names one after it or none.
Pages(site) ==
  /\ 1 \in DOMAIN site /\ 0 \notin DOMAIN site
  /\ \A p \in DOMAIN site : site[p].next \in DOMAIN site \cup {0}

\* What a reader has asked for: pages from the first, each named by the last.
Trail(site, w) ==
  /\ w \in Seq(DOMAIN site) /\ Len(w) > 0 /\ w[1] = 1
  /\ \A i \in 1 .. Len(w) - 1 : w[i + 1] = site[w[i]].next

Walked(site, f, m) ==
  f = [n \in 1 .. m |-> IF n = 1 THEN <<1>> ELSE Followed(site, f[n - 1])]

\* The walk of Walk exists for any number of pages.
LEMMA WalkExists ==
  ASSUME NEW site, NEW m \in Nat
  PROVE  \E f : Walked(site, f, m)
<1> DEFINE Bad == {k \in Nat : ~ \E f : Walked(site, f, k)}
<1> SUFFICES ASSUME Bad # {} PROVE FALSE
  OBVIOUS
<1>1. PICK k \in Bad : \A j \in Bad : k <= j
  <2>1. Bad \in SUBSET Nat
    OBVIOUS
  <2> HIDE DEF Bad
  <2> QED
    BY <2>1, LeastElement
<1>2. CASE k = 0
  <2> DEFINE f == [n \in 1 .. 0 |-> <<1>>]
  <2>1. Walked(site, f, 0)
    BY DEF Walked
  <2> QED
    BY <1>1, <1>2, <2>1
<1>3. CASE k # 0
  <2>1. k - 1 \in Nat /\ k \in Nat /\ k - 1 \notin Bad
    BY <1>1, <1>3
  <2>2. PICK g : Walked(site, g, k - 1)
    BY <2>1
  <2> DEFINE f == [n \in 1 .. k |-> IF n = 1 THEN <<1>>
                                             ELSE Followed(site, g[n - 1])]
  <2>3. \A n \in 1 .. k - 1 : f[n] = g[n]
    BY <2>1, <2>2 DEF Walked
  <2>4. \A n \in 1 .. k : n # 1 => n - 1 \in 1 .. k - 1
    BY <2>1
  <2>5. \A n \in 1 .. k : f[n] = IF n = 1 THEN <<1>> ELSE Followed(site, f[n - 1])
    BY <2>3, <2>4
  <2>6. f = [n \in 1 .. k |-> IF n = 1 THEN <<1>> ELSE Followed(site, f[n - 1])]
    BY <2>5
  <2> QED
    BY <1>1, <2>6 DEF Walked
<1> QED
  BY <1>2, <1>3

LEMMA FollowedTrail ==
  ASSUME NEW site, Pages(site), NEW w, Trail(site, w)
  PROVE  Trail(site, Followed(site, w))
<1> DEFINE next == site[Last(w)].next
<1>1. /\ w \in Seq(DOMAIN site) /\ Len(w) \in Nat /\ Len(w) \in 1 .. Len(w)
      /\ w[1] = 1 /\ \A i \in 1 .. Len(w) - 1 : w[i + 1] = site[w[i]].next
  BY DEF Trail
<1>2. Last(w) = w[Len(w)] /\ w[Len(w)] \in DOMAIN site
  BY <1>1, ElementOfSeq DEF Last
<1>3. CASE next = 0 \/ next \in Range(w)
  BY <1>3 DEF Followed
<1>4. CASE ~(next = 0 \/ next \in Range(w))
  <2>1. next \in DOMAIN site
    BY <1>2, <1>4 DEF Pages
  <2> DEFINE q == Append(w, next)
  <2>2. /\ q \in Seq(DOMAIN site) /\ Len(q) = Len(w) + 1
        /\ \A i \in 1 .. Len(w) : q[i] = w[i]
        /\ q[Len(w) + 1] = next
    BY <1>1, <2>1, AppendProperties
  <2>3. Followed(site, w) = q
    BY <1>4 DEF Followed
  <2> HIDE DEF q
  <2>4. ASSUME NEW i \in 1 .. Len(q) - 1
        PROVE  q[i + 1] = site[q[i]].next
    <3>1. CASE i = Len(w)
      BY <1>1, <1>2, <2>2, <3>1
    <3>2. CASE i # Len(w)
      <4>1. i \in 1 .. Len(w) - 1 /\ i \in 1 .. Len(w) /\ i + 1 \in 1 .. Len(w)
        BY <1>1, <2>2, <3>2
      <4> QED
        BY <1>1, <2>2, <4>1
    <3> QED
      BY <3>1, <3>2
  <2>5. q[1] = 1 /\ Len(q) > 0
    BY <1>1, <2>2
  <2> QED
    BY <2>2, <2>3, <2>4, <2>5 DEF Trail
<1> QED
  BY <1>3, <1>4

\* The pages asked for are a trail.
LEMMA WalkIsTrail ==
  ASSUME NEW site, Pages(site)
  PROVE  Trail(site, Walk(site))
<1>1. PICK f : Walked(site, f, PageLimit) /\ Walk(site) = f[PageLimit]
  <2> DEFINE g == CHOOSE g : g = [n \in 1 .. PageLimit |->
                       IF n = 1 THEN <<1>> ELSE Followed(site, g[n - 1])]
  <2>1. Walk(site) = g[PageLimit]
    BY DEF Walk
  <2>2. \E h : h = [n \in 1 .. PageLimit |->
                      IF n = 1 THEN <<1>> ELSE Followed(site, h[n - 1])]
    <3>1. \E h : Walked(site, h, PageLimit)
      BY WalkExists, PageLimitAssumption
    <3> QED
      BY <3>1, Zenon DEF Walked
  <2>3. Walked(site, g, PageLimit)
    BY <2>2 DEF Walked
  <2> QED
    BY <2>1, <2>3
<1> DEFINE Bad == {n \in 1 .. PageLimit : ~Trail(site, f[n])}
<1>2. ASSUME Bad # {} PROVE FALSE
  <2>1. PICK n \in Bad : \A j \in Bad : n <= j
    <3>1. Bad \in SUBSET Nat
      OBVIOUS
    <3> HIDE DEF Bad
    <3> QED
      BY <1>2, <3>1, LeastElement
  <2>2. n \in 1 .. PageLimit /\ ~Trail(site, f[n]) /\ PageLimit \in Nat
    BY PageLimitAssumption
  <2>3. CASE n = 1
    <3>1. f[1] = <<1>>
      BY <1>1, <2>2, <2>3 DEF Walked
    <3>2. Trail(site, <<1>>)
      BY DEF Pages, Trail
    <3> QED
      BY <2>2, <2>3, <3>1, <3>2
  <2>4. CASE n # 1
    <3>1. n - 1 \in 1 .. PageLimit
      BY <2>2, <2>4
    <3>2. n - 1 \notin Bad
      BY <2>1, <2>2
    <3>3. Trail(site, f[n - 1])
      BY <3>1, <3>2
    <3>4. f[n] = Followed(site, f[n - 1])
      BY <1>1, <2>2, <2>4 DEF Walked
    <3> QED
      BY <2>2, <3>3, <3>4, FollowedTrail
  <2> QED
    BY <2>3, <2>4
<1>3. PageLimit \in 1 .. PageLimit
  BY PageLimitAssumption
<1> QED
  BY <1>1, <1>2, <1>3

\* What is asked for is what a reader would come to, and all of it if the last
\* page names none that was not asked for.
LEMMA TrailIsLinked ==
  ASSUME NEW site, Pages(site), NEW w, Trail(site, w)
  PROVE  /\ Range(w) \subseteq Linked(site)
         /\ site[Last(w)].next \in Range(w) \cup {0} =>
              Linked(site) \subseteq Range(w)
<1>1. /\ w \in Seq(DOMAIN site) /\ Len(w) \in Nat /\ Len(w) > 0
      /\ DOMAIN w = 1 .. Len(w) /\ w[1] = 1
      /\ \A i \in 1 .. Len(w) - 1 : w[i + 1] = site[w[i]].next
      /\ \A i \in 1 .. Len(w) : w[i] \in DOMAIN site /\ w[i] # 0
  BY DEF Trail, Pages
<1>2. ASSUME NEW S \in SUBSET DOMAIN site, 1 \in S,
             \A q \in S : site[q].next \in S \cup {0}
      PROVE  \A i \in 1 .. Len(w) : w[i] \in S
  <2> DEFINE Bad == {i \in 1 .. Len(w) : w[i] \notin S}
  <2> SUFFICES ASSUME Bad # {} PROVE FALSE
    OBVIOUS
  <2>1. PICK i \in Bad : \A j \in Bad : i <= j
    <3>1. Bad \in SUBSET Nat
      OBVIOUS
    <3> HIDE DEF Bad
    <3> QED
      BY <3>1, LeastElement
  <2>2. i \in 1 .. Len(w) /\ w[i] \notin S
    OBVIOUS
  <2>3. i # 1
    BY <1>1, <1>2, <2>2
  <2>4. i - 1 \in 1 .. Len(w) - 1 /\ i - 1 \in 1 .. Len(w) /\ (i - 1) + 1 = i
    BY <1>1, <2>2, <2>3
  <2>5. w[i - 1] \in S
    BY <2>1, <2>2, <2>4
  <2>6. w[i] = site[w[i - 1]].next
    BY <1>1, <2>4
  <2>7. w[i] \in S \cup {0}
    BY <1>2, <2>5, <2>6
  <2> QED
    BY <1>1, <2>2, <2>7
<1>3. Range(w) \subseteq Linked(site)
  <2> SUFFICES ASSUME NEW i \in 1 .. Len(w) PROVE w[i] \in Linked(site)
    BY <1>1 DEF Range
  <2> QED
    BY <1>1, <1>2 DEF Linked
<1>4. ASSUME site[Last(w)].next \in Range(w) \cup {0}
      PROVE  Linked(site) \subseteq Range(w)
  <2>1. Range(w) \in SUBSET DOMAIN site
    BY <1>1 DEF Range
  <2>2. 1 \in Range(w)
    <3>1. 1 \in DOMAIN w
      BY <1>1
    <3> QED
      BY <1>1, <3>1 DEF Range
  <2>3. ASSUME NEW i \in 1 .. Len(w)
        PROVE  site[w[i]].next \in Range(w) \cup {0}
    <3>1. CASE i = Len(w)
      BY <1>4, <3>1 DEF Last
    <3>2. CASE i # Len(w)
      <4>1. Len(w) \in Nat /\ DOMAIN w = 1 .. Len(w)
        BY <1>1
      <4>2. i \in 1 .. Len(w) - 1 /\ i + 1 \in 1 .. Len(w)
        <5>1. \A n \in Nat : \A k \in 1 .. n :
                k # n => k \in 1 .. n - 1 /\ k + 1 \in 1 .. n
          OBVIOUS
        <5> QED
          BY <3>2, <4>1, <5>1, Zenon
      <4>3. w[i + 1] = site[w[i]].next
        BY <1>1, <4>2
      <4>4. w[i + 1] \in Range(w)
        BY <4>1, <4>2 DEF Range
      <4> QED
        BY <4>3, <4>4
    <3> QED
      BY <3>1, <3>2
  <2>4. \A q \in Range(w) : site[q].next \in Range(w) \cup {0}
    BY <1>1, <2>3 DEF Range
  <2> QED
    BY <2>1, <2>2, <2>4 DEF Linked
<1> QED
  BY <1>3, <1>4

\* Whatever pages a list has and in whatever order they name each other, what
\* a record on any of them blocks is blocked, or the list is not used
\* (FetchMozillaBlocklist, MatchBlocklist).
THEOREM PagesAreCovered ==
  ASSUME NEW site, Pages(site), NEW id, NEW v
  PROVE  BlockedCovered(site, id, v)
<1> DEFINE got == FetchMozillaBlocklist(site, FALSE)
           pages == Walk(site)
           next == site[Last(pages)].next
           records == UNION {site[p].records : p \in Range(pages)}
           all == UNION {site[p].records : p \in Linked(site)}
           Of(guid) == {r \in all : r.guid = guid}
           Ranged(guid) == \/ \A r, s \in Of(guid) : r = s
                           \/ \A r \in Of(guid) : r.ranges # {}
<1> SUFFICES ASSUME got.result = "ok", NEW r \in all, id \in r.guid,
                    versionBlocked(r.ranges, {v}), Ranged(r.guid)
             PROVE  MatchBlocklist(got.list, id, {v})
  BY DEF BlockedCovered
<1>1. Trail(site, pages)
  BY WalkIsTrail
<1>2. /\ ~(next # 0 /\ next \notin Range(pages))
      /\ got = [result |-> "ok", list |-> Gathered(site, pages)]
  <2>1. ~(\/ \E p \in Range(pages) : ~site[p].ok
          \/ next # 0 /\ next \notin Range(pages))
    <3> SUFFICES ASSUME \/ \E p \in Range(pages) : ~site[p].ok
                        \/ next # 0 /\ next \notin Range(pages)
                 PROVE  got.result = "failed"
      OBVIOUS
    <3> QED
      BY DEF FetchMozillaBlocklist
  <2> QED
    BY <2>1 DEF FetchMozillaBlocklist
<1>3. Linked(site) = Range(pages)
  BY <1>1, <1>2, TrailIsLinked
<1>4. all = records
  BY <1>3
<1>5. /\ r.guid \in DOMAIN got.list
      /\ got.list[r.guid] = UNION {s.ranges : s \in Of(r.guid)}
  <2>1. got.list = [guid \in {s.guid : s \in records} |->
                      UNION {s.ranges : s \in {t \in records : t.guid = guid}}]
    <3> HIDE DEF got, pages
    <3>1. got.list = Gathered(site, pages)
      BY <1>2
    <3> QED
      BY <3>1, Zenon DEF Gathered
  <2>2. got.list = [guid \in {s.guid : s \in all} |-> UNION {s.ranges : s \in Of(guid)}]
    BY <1>4, <2>1, Zenon
  <2>3. r.guid \in {s.guid : s \in all}
    BY Zenon
  <2> HIDE DEF all, got
  <2> QED
    BY <2>2, <2>3
<1> HIDE DEF all, got
<1>6. versionBlocked(got.list[r.guid], {v})
  <2>1. CASE r.ranges = {}
    <3>1. r \in Of(r.guid)
      OBVIOUS
    <3>2. \A s \in Of(r.guid) : s = r
      BY <2>1, <3>1
    <3>3. UNION {s.ranges : s \in Of(r.guid)} = {}
      BY <2>1, <3>2
    <3> QED
      BY <1>5, <3>3 DEF versionBlocked
  <2>2. CASE r.ranges # {}
    <3>1. PICK range \in r.ranges : InRange(v, range)
      BY <2>2 DEF versionBlocked
    <3>2. range \in got.list[r.guid]
      BY <1>5, <3>1
    <3> QED
      BY <3>1, <3>2 DEF versionBlocked
  <2> QED
    BY <2>1, <2>2
<1> QED
  BY <1>5, <1>6 DEF MatchBlocklist

\* What AskOrder, AskWildcard and AskList ask is among what the theorems are about.
LEMMA AskedOfFeeds ==
  ASSUME Next
  PROVE  /\ About("order")' => /\ asked'.u \in Version /\ asked'.v \in Version
                               /\ asked'.w \in Version
         /\ About("wildcard")' => asked'.v \in Seq(Plainly) /\ asked'.p \in Seq(Plainly)
         /\ About("list")' => Pages(asked'.site)
<1>1. /\ Parts \subseteq Plainly
      /\ Parts \cup {Star} \subseteq VersionPart
  <2>1. Parts \subseteq Plainly
    <3> SUFFICES ASSUME NEW x \in Parts PROVE x \in Plainly
      OBVIOUS
    <3>1. PICK n \in 0 .. 1, m \in 0 .. 1 : x = Part(n, m)
      BY DEF Parts
    <3>2. \E i \in Nat, j \in Nat : x = Part(i, j)
      <4>1. n \in Nat /\ m \in Nat
        OBVIOUS
      <4> QED
        BY <3>1, <4>1, Zenon
    <3> QED
      BY <3>2 DEF Plainly
  <2>2. Plainly \subseteq VersionPart
    <3> SUFFICES ASSUME NEW x \in Plainly PROVE x \in VersionPart
      OBVIOUS
    <3>1. PICK n \in Nat, m \in Nat : x = Part(n, m)
      BY DEF Plainly
    <3> QED
      BY <3>1 DEF Part, VersionPart
  <2>3. Star \in VersionPart
    BY DEF Star, VersionPart
  <2> QED
    BY <2>1, <2>2, <2>3
<1>2. ASSUME NEW S, NEW P, P \subseteq S, NEW n \in Nat
      PROVE  Versions(P, n) \subseteq Seq(S)
  <2> SUFFICES ASSUME NEW k \in 1 .. n, NEW v \in [1 .. k -> P] PROVE v \in Seq(S)
    BY DEF Versions
  <2>1. k \in Nat /\ v \in [1 .. k -> S]
    BY <1>2
  <2>2. \A q \in [1 .. k -> S] : q \in Seq(S)
    BY <2>1, SeqDef
  <2> QED
    BY <2>1, <2>2
<1>3. ASSUME About("order")'
      PROVE  asked'.u \in Version /\ asked'.v \in Version /\ asked'.w \in Version
  <2>1. PICK u, v, w \in Versions(Parts \cup {Star}, 2) :
          asked' = [about |-> "order", u |-> u, v |-> v, w |-> w]
    BY <1>3, Asking, Zenon DEF AskOrder, Ask
  <2>2. Versions(Parts \cup {Star}, 2) \subseteq Version
    BY <1>1, <1>2 DEF Version
  <2> HIDE DEF Parts, Version
  <2> QED
    BY <2>1, <2>2
<1>4. ASSUME About("wildcard")'
      PROVE  asked'.v \in Seq(Plainly) /\ asked'.p \in Seq(Plainly)
  <2>1. PICK v \in Versions(Parts, 3), p \in Versions(Parts, 2) :
          asked' = [about |-> "wildcard", v |-> v, p |-> p]
    BY <1>4, Asking, Zenon DEF AskWildcard, Ask
  <2>2. Versions(Parts, 3) \subseteq Seq(Plainly) /\ Versions(Parts, 2) \subseteq Seq(Plainly)
    BY <1>1, <1>2
  <2> QED
    BY <2>1, <2>2
<1>5. ASSUME About("list")'
      PROVE  Pages(asked'.site)
  <2> DEFINE site(records, next, down) ==
        [n \in 1 .. (PageLimit + 1) |-> [ok |-> n # down, records |-> records[n], next |-> next[n]]]
  <2>1. PICK records \in [1 .. (PageLimit + 1) -> Records],
             next \in [1 .. (PageLimit + 1) -> 0 .. (PageLimit + 1)],
             down \in 0 .. (PageLimit + 1), v \in {One, Two}, id \in {"a", "b"} :
          asked' = [about |-> "list", v |-> v, id |-> id, site |-> site(records, next, down)]
    BY <1>5, Asking, Zenon DEF AskList, Ask
  <2>2. asked'.site = site(records, next, down)
    BY <2>1
  <2>3. /\ DOMAIN asked'.site = 1 .. (PageLimit + 1)
        /\ \A p \in 1 .. (PageLimit + 1) : asked'.site[p].next = next[p]
    BY <2>2
  <2>4. /\ 1 \in 1 .. (PageLimit + 1) /\ 0 \notin 1 .. (PageLimit + 1)
        /\ 0 .. (PageLimit + 1) = 1 .. (PageLimit + 1) \cup {0}
    BY PageLimitAssumption
  <2> QED
    BY <2>3, <2>4 DEF Pages
<1> QED
  BY <1>3, <1>4, <1>5

\* Nothing Mozilla blocks is missed: whatever is asked of the versions, of the
\* wildcard or of a list of PageLimit + 1 pages, for every PageLimit
\* (CompareVersions, InRange, FetchMozillaBlocklist, MatchBlocklist).
THEOREM BlockedIsFound == Spec => []BlockedFound
<1>1. Init => BlockedFound
  BY DEF Init, BlockedFound, Ordered, Wildcards, Covered, About
<1>2. BlockedFound /\ [Next]_asked => BlockedFound'
  <2>1. ASSUME Next PROVE Ordered' /\ Wildcards' /\ Covered'
    <3>1. Ordered'
      <4> SUFFICES ASSUME About("order")'
                   PROVE  VersionOrder(asked'.u, asked'.v, asked'.w)
        BY Zenon DEF Ordered
      <4> QED
        BY <2>1, AskedOfFeeds, VersionsOrdered
    <3>2. Wildcards'
      <4> SUFFICES ASSUME About("wildcard")' PROVE WildcardCovers(asked'.v, asked'.p)
        BY Zenon DEF Wildcards
      <4> QED
        BY <2>1, AskedOfFeeds, WildcardsCover
    <3>3. Covered'
      <4> SUFFICES ASSUME About("list")'
                   PROVE  BlockedCovered(asked'.site, asked'.id, asked'.v)
        BY Zenon DEF Covered
      <4> QED
        BY <2>1, AskedOfFeeds, PagesAreCovered
    <3> QED
      BY <3>1, <3>2, <3>3
  <2>2. UNCHANGED asked /\ BlockedFound => BlockedFound'
    BY DEF BlockedFound, Ordered, Wildcards, Covered, About
  <2> QED
    BY <2>1, <2>2 DEF BlockedFound
<1> QED
  BY <1>1, <1>2, PTL DEF Spec
-----------------------------------------------------------------------------
(***************************************************************************)
(* Sums.  SumFunctionOnSet adds the values of a function over a finite set *)
(* in an order of its choice; the sum of a set is that of the set without  *)
(* any element of it, and the element's value.                             *)
(***************************************************************************)
Picked(s) == CHOOSE x \in s : TRUE

Summed(f, h, s) == IF s = {} THEN 0 ELSE f[Picked(s)] + h[s \ {Picked(s)}]

\* h is the sum of f over each subset of S of n elements at most.
UpTo(S, n) == {t \in SUBSET S : Cardinality(t) <= n}
SumsUpTo(f, h, S, n) == h = [s \in UpTo(S, n) |-> Summed(f, h, s)]
Sums(f, h, S) == h = [s \in SUBSET S |-> Summed(f, h, s)]

\* A set of subsets of a finite set that is not empty has one that no other
\* of them is part of.
LEMMA SmallestSet ==
  ASSUME NEW S, IsFiniteSet(S), NEW Q \in SUBSET SUBSET S, Q # {}
  PROVE  \E s \in Q : \A t \in Q : t \subseteq s => t = s
<1> DEFINE sizes == {Cardinality(t) : t \in Q}
<1>1. \A t \in Q : IsFiniteSet(t) /\ Cardinality(t) \in Nat
  BY FS_Subset, FS_CardinalityType
<1>2. sizes \in SUBSET Nat /\ sizes # {}
  BY <1>1
<1>3. PICK n \in sizes : \A m \in sizes : n <= m
  <2> HIDE DEF sizes
  <2> QED
    BY <1>2, LeastElement
<1>4. PICK s \in Q : n = Cardinality(s)
  OBVIOUS
<1>5. ASSUME NEW t \in Q, t \subseteq s PROVE t = s
  <2>1. Cardinality(s) <= Cardinality(t)
    BY <1>3, <1>4
  <2>2. Cardinality(t) <= Cardinality(s) /\ (Cardinality(t) = Cardinality(s) => t = s)
    BY <1>1, <1>5, FS_Subset
  <2> QED
    BY <1>1, <2>1, <2>2
<1> QED
  BY <1>5

LEMMA SumsExist ==
  ASSUME NEW S, IsFiniteSet(S), NEW f
  PROVE  \E h : Sums(f, h, S)
<1> DEFINE Bad == {n \in Nat : ~\E h : SumsUpTo(f, h, S, n)}
<1>0. \A t \in SUBSET S : IsFiniteSet(t) /\ Cardinality(t) \in Nat
  BY FS_Subset, FS_CardinalityType
<1>1. ASSUME Bad # {} PROVE FALSE
  <2>1. PICK n \in Bad : \A m \in Bad : n <= m
    <3>1. Bad \in SUBSET Nat
      OBVIOUS
    <3> HIDE DEF Bad
    <3> QED
      BY <1>1, <3>1, LeastElement
  <2>2. n \in Nat /\ ~\E h : SumsUpTo(f, h, S, n)
    OBVIOUS
  <2>3. CASE n = 0
    <3> DEFINE h == [s \in UpTo(S, n) |-> 0]
    <3>1. \A s \in UpTo(S, n) : s = {}
      <4> SUFFICES ASSUME NEW s \in UpTo(S, n) PROVE s = {}
        OBVIOUS
      <4>1. IsFiniteSet(s) /\ Cardinality(s) \in Nat /\ Cardinality(s) <= 0
        BY <1>0, <2>3 DEF UpTo
      <4> QED
        BY <4>1, FS_EmptySet
    <3>2. SumsUpTo(f, h, S, n)
      BY <3>1 DEF SumsUpTo, Summed
    <3> QED
      BY <2>2, <3>2
  <2>4. CASE n # 0
    <3>1. n - 1 \in Nat /\ n - 1 \notin Bad
      BY <2>1, <2>2, <2>4
    <3>2. PICK h : SumsUpTo(f, h, S, n - 1)
      BY <3>1
    <3> DEFINE k == [s \in UpTo(S, n) |-> Summed(f, h, s)]
    <3>3. ASSUME NEW s \in UpTo(S, n), s # {}
          PROVE  s \ {Picked(s)} \in UpTo(S, n - 1) /\ s \ {Picked(s)} \in UpTo(S, n)
      <4>1. s \in SUBSET S /\ IsFiniteSet(s) /\ Cardinality(s) \in Nat /\ Cardinality(s) <= n
        BY <1>0 DEF UpTo
      <4>2. Picked(s) \in s
        BY <3>3 DEF Picked
      <4>3. Cardinality(s \ {Picked(s)}) = Cardinality(s) - 1
        BY <4>1, <4>2, FS_RemoveElement
      <4>4. s \ {Picked(s)} \in SUBSET S
        BY <4>1
      <4> QED
        BY <2>2, <4>1, <4>3, <4>4 DEF UpTo
    <3>4. \A t \in UpTo(S, n - 1) : t \in UpTo(S, n)
      BY <1>0, <2>2 DEF UpTo
    <3>5. \A t \in UpTo(S, n - 1) : k[t] = h[t]
      BY <3>2, <3>4 DEF SumsUpTo
    <3>6. \A s \in UpTo(S, n) : Summed(f, h, s) = Summed(f, k, s)
      <4> HIDE DEF k
      <4> QED
        BY <3>3, <3>5 DEF Summed
    <3>7. SumsUpTo(f, k, S, n)
      BY <3>6 DEF SumsUpTo
    <3> QED
      BY <2>2, <3>7
  <2> QED
    BY <2>3, <2>4
<1>2. PICK h : SumsUpTo(f, h, S, Cardinality(S))
  BY <1>0, <1>1
<1>3. UpTo(S, Cardinality(S)) = SUBSET S
  BY <1>0, FS_Subset DEF UpTo
<1> QED
  BY <1>2, <1>3 DEF SumsUpTo, Sums

LEMMA SumOfSums ==
  ASSUME NEW S, IsFiniteSet(S), NEW f
  PROVE  \E h : Sums(f, h, S) /\ SumFunctionOnSet(f, S) = h[S]
<1> DEFINE g == CHOOSE g : g = [s \in SUBSET S |->
                     IF s = {} THEN 0 ELSE f[Picked(s)] + g[s \ {Picked(s)}]]
<1>1. SumFunctionOnSet(f, S) = g[S]
  BY DEF SumFunctionOnSet, FoldFunctionOnSet, MapThenFoldSet, Picked
<1>2. \E h : h = [s \in SUBSET S |->
                    IF s = {} THEN 0 ELSE f[Picked(s)] + h[s \ {Picked(s)}]]
  <2>1. \E h : Sums(f, h, S)
    BY SumsExist
  <2> QED
    BY <2>1, Zenon DEF Sums, Summed
<1>3. Sums(f, g, S)
  BY <1>2 DEF Sums, Summed
<1> QED
  BY <1>1, <1>3

\* Any element of a set may be added last.
LEMMA SumOrder ==
  ASSUME NEW S, IsFiniteSet(S), NEW f, \A x \in S : f[x] \in Nat,
         NEW h, Sums(f, h, S)
  PROVE  \A s \in SUBSET S : /\ h[s] \in Nat
                             /\ s = {} => h[s] = 0
                             /\ \A y \in s : h[s] = f[y] + h[s \ {y}]
<1> DEFINE Holds(s) == /\ h[s] \in Nat
                       /\ s = {} => h[s] = 0
                       /\ \A y \in s : h[s] = f[y] + h[s \ {y}]
           Bad == {s \in SUBSET S : ~Holds(s)}
<1>1. ASSUME Bad # {} PROVE FALSE
  <2>1. PICK s \in Bad : \A t \in Bad : t \subseteq s => t = s
    <3>1. Bad \in SUBSET SUBSET S
      OBVIOUS
    <3> HIDE DEF Bad
    <3> QED
      BY <1>1, <3>1, SmallestSet
  <2>2. s \in SUBSET S /\ ~Holds(s)
    OBVIOUS
  <2>3. ASSUME NEW y \in s PROVE Holds(s \ {y})
    <3>1. s \ {y} \in SUBSET S /\ s \ {y} \subseteq s /\ s \ {y} # s
      BY <2>2
    <3>2. s \ {y} \notin Bad
      BY <2>1, <3>1, Zenon
    <3> QED
      BY <3>1, <3>2, Zenon
  <2>4. h[s] = Summed(f, h, s)
    BY <2>2 DEF Sums
  <2>5. CASE s = {}
    BY <2>2, <2>4, <2>5 DEF Summed
  <2>6. CASE s # {}
    <3> DEFINE x == Picked(s)
    <3>1. x \in s /\ h[s] = f[x] + h[s \ {x}]
      BY <2>4, <2>6 DEF Summed, Picked
    <3>2. f[x] \in Nat /\ h[s \ {x}] \in Nat
      BY <2>2, <2>3, <3>1
    <3>3. ASSUME NEW y \in s PROVE h[s] = f[y] + h[s \ {y}]
      <4>1. CASE y = x
        BY <3>1, <4>1
      <4>2. CASE y # x
        <5>1. y \in s \ {x} /\ x \in s \ {y}
          BY <3>1, <4>2
        <5>2. h[s \ {x}] = f[y] + h[(s \ {x}) \ {y}]
          BY <2>3, <3>1, <5>1
        <5>3. h[s \ {y}] = f[x] + h[(s \ {y}) \ {x}]
          BY <2>3, <5>1
        <5>4. (s \ {x}) \ {y} = (s \ {y}) \ {x}
          OBVIOUS
        <5>5. (s \ {x}) \ {y} \in SUBSET S /\ h[(s \ {x}) \ {y}] \in Nat
          <6>1. (s \ {x}) \ {y} \in SUBSET S /\ (s \ {x}) \ {y} \subseteq s /\ (s \ {x}) \ {y} # s
            BY <2>2
          <6>2. (s \ {x}) \ {y} \notin Bad
            BY <2>1, <6>1, Zenon
          <6> QED
            BY <6>1, <6>2
        <5>6. f[y] \in Nat
          BY <2>2
        <5> DEFINE c == h[(s \ {x}) \ {y}]
        <5>7. h[s] = f[x] + (f[y] + c)
          BY <3>1, <5>2
        <5>8. h[s \ {y}] = f[x] + c
          BY <5>3, <5>4
        <5>9. \A i, j, k \in Nat : i + (j + k) = j + (i + k)
          OBVIOUS
        <5> HIDE DEF x, c
        <5>10. f[x] + (f[y] + c) = f[y] + (f[x] + c)
          BY <3>2, <5>5, <5>6, <5>9, Zenon DEF c
        <5> QED
          BY <5>7, <5>8, <5>10
      <4> QED
        BY <4>1, <4>2
    <3>4. h[s] \in Nat
      BY <3>1, <3>2
    <3> QED
      BY <2>2, <2>6, <3>3, <3>4
  <2> QED
    BY <2>5, <2>6
<1> QED
  BY <1>1

\* The sum of a part is the same in the sums of the whole.
LEMMA SumAgree ==
  ASSUME NEW S, IsFiniteSet(S), NEW T \in SUBSET S, NEW f,
         NEW h, Sums(f, h, S), NEW k, Sums(f, k, T)
  PROVE  \A s \in SUBSET T : h[s] = k[s]
<1> DEFINE Bad == {s \in SUBSET T : h[s] # k[s]}
<1>1. ASSUME Bad # {} PROVE FALSE
  <2>1. PICK s \in Bad : \A t \in Bad : t \subseteq s => t = s
    <3>1. Bad \in SUBSET SUBSET T /\ IsFiniteSet(T)
      BY FS_Subset
    <3> HIDE DEF Bad
    <3> QED
      BY <1>1, <3>1, SmallestSet
  <2>2. s \in SUBSET T /\ s \in SUBSET S /\ h[s] # k[s]
    OBVIOUS
  <2>3. h[s] = Summed(f, h, s) /\ k[s] = Summed(f, k, s)
    BY <2>2 DEF Sums
  <2>4. s # {}
    BY <2>2, <2>3 DEF Summed
  <2> DEFINE t == s \ {Picked(s)}
  <2>5. t \subseteq s /\ t # s /\ t \in SUBSET T
    BY <2>2, <2>4 DEF Picked
  <2>6. t \notin Bad
    BY <2>1, <2>5, Zenon
  <2>7. h[t] = k[t]
    BY <2>5, <2>6, Zenon
  <2> QED
    BY <2>2, <2>3, <2>7 DEF Summed
<1> QED
  BY <1>1

LEMMA SumAdds ==
  ASSUME NEW S, IsFiniteSet(S), NEW f, \A x \in S : f[x] \in Nat
  PROVE  /\ SumFunctionOnSet(f, S) \in Nat
         /\ \A y \in S : SumFunctionOnSet(f, S) = f[y] + SumFunctionOnSet(f, S \ {y})
<1>1. PICK h : Sums(f, h, S) /\ SumFunctionOnSet(f, S) = h[S]
  BY SumOfSums
<1>2. h[S] \in Nat /\ \A y \in S : h[S] = f[y] + h[S \ {y}]
  <2>1. S \in SUBSET S
    OBVIOUS
  <2>2. \A s \in SUBSET S : /\ h[s] \in Nat
                            /\ s = {} => h[s] = 0
                            /\ \A y \in s : h[s] = f[y] + h[s \ {y}]
    BY <1>1, SumOrder
  <2> QED
    BY <2>1, <2>2, Zenon
<1>3. ASSUME NEW y \in S PROVE SumFunctionOnSet(f, S \ {y}) = h[S \ {y}]
  <2>1. IsFiniteSet(S \ {y}) /\ S \ {y} \in SUBSET S
    BY FS_Subset
  <2>2. PICK k : Sums(f, k, S \ {y}) /\ SumFunctionOnSet(f, S \ {y}) = k[S \ {y}]
    BY <2>1, SumOfSums
  <2>3. h[S \ {y}] = k[S \ {y}]
    BY <1>1, <2>1, <2>2, SumAgree
  <2> QED
    BY <2>2, <2>3
<1> QED
  BY <1>1, <1>2, <1>3

LEMMA TotalAdds ==
  ASSUME NEW w, \A p \in DOMAIN w : w[p] \in Nat, NEW xs, IsFiniteSet(xs), NEW p
  PROVE  /\ Total(w, xs) \in Nat
         /\ Total(w, xs \cup {p}) =
              Total(w, xs) + (IF p \in DOMAIN w \ xs THEN w[p] ELSE 0)
         /\ Total(w, xs) =
              Total(w, xs \ {p}) + (IF p \in DOMAIN w \cap xs THEN w[p] ELSE 0)
<1>1. ASSUME NEW ys, IsFiniteSet(ys)
      PROVE  /\ Total(w, ys) \in Nat
             /\ p \in DOMAIN w \cap ys => Total(w, ys) = w[p] + Total(w, ys \ {p})
  <2> DEFINE S == ys \cap DOMAIN w
  <2>1. IsFiniteSet(S) /\ \A x \in S : w[x] \in Nat
    BY <1>1, FS_Intersection
  <2>2. /\ SumFunctionOnSet(w, S) \in Nat
        /\ \A y \in S : SumFunctionOnSet(w, S) = w[y] + SumFunctionOnSet(w, S \ {y})
    <3> HIDE DEF S
    <3> QED
      BY <2>1, SumAdds
  <2>3. (ys \ {p}) \cap DOMAIN w = S \ {p}
    OBVIOUS
  <2> QED
    BY <2>2, <2>3 DEF Total
<1>2. IsFiniteSet(xs \cup {p}) /\ IsFiniteSet(xs \ {p})
  BY FS_AddElement, FS_RemoveElement
<1>3. Total(w, xs) \in Nat /\ Total(w, xs \ {p}) \in Nat
  BY <1>1, <1>2
<1>4. Total(w, xs \cup {p}) = Total(w, xs) + (IF p \in DOMAIN w \ xs THEN w[p] ELSE 0)
  <2>1. CASE p \in DOMAIN w \ xs
    <3>1. (xs \cup {p}) \ {p} = xs
      BY <2>1
    <3>2. Total(w, xs \cup {p}) = w[p] + Total(w, xs)
      BY <1>1, <1>2, <2>1, <3>1
    <3> QED
      BY <1>3, <2>1, <3>2
  <2>2. CASE p \notin DOMAIN w \ xs
    <3>1. (xs \cup {p}) \cap DOMAIN w = xs \cap DOMAIN w
      BY <2>2
    <3>2. Total(w, xs \cup {p}) = Total(w, xs)
      BY <3>1, Zenon DEF Total
    <3> QED
      BY <1>3, <2>2, <3>2
  <2> QED
    BY <2>1, <2>2
<1>5. Total(w, xs) = Total(w, xs \ {p}) + (IF p \in DOMAIN w \cap xs THEN w[p] ELSE 0)
  <2>1. CASE p \in DOMAIN w \cap xs
    BY <1>1, <1>3, <2>1
  <2>2. CASE p \notin DOMAIN w \cap xs
    <3>1. (xs \ {p}) \cap DOMAIN w = xs \cap DOMAIN w
      BY <2>2
    <3>2. Total(w, xs \ {p}) = Total(w, xs)
      BY <3>1, Zenon DEF Total
    <3> QED
      BY <1>3, <2>2, <3>2
  <2> QED
    BY <2>1, <2>2
<1> QED
  BY <1>3, <1>4, <1>5
-----------------------------------------------------------------------------
(***************************************************************************)
(* Numbers of the score.                                                   *)
(***************************************************************************)
LEMMA MinOfTwo ==
  ASSUME NEW a \in Int, NEW b \in Int
  PROVE  Min({a, b}) = IF a <= b THEN a ELSE b
<1> DEFINE m == IF a <= b THEN a ELSE b
<1>1. m \in {a, b} /\ \A y \in {a, b} : m <= y
  OBVIOUS
<1>2. \A x \in {a, b} : (\A y \in {a, b} : x <= y) => x = m
  OBVIOUS
<1> QED
  BY <1>1, <1>2 DEF Min

LEMMA MaxOfTwo ==
  ASSUME NEW a \in Int, NEW b \in Int
  PROVE  Max({a, b}) = IF a >= b THEN a ELSE b
<1> DEFINE m == IF a >= b THEN a ELSE b
<1>1. m \in {a, b} /\ \A y \in {a, b} : m >= y
  OBVIOUS
<1>2. \A x \in {a, b} : (\A y \in {a, b} : x >= y) => x = m
  OBVIOUS
<1> QED
  BY <1>1, <1>2 DEF Max

\* Rounding keeps the order.
LEMMA RoundMonotone ==
  ASSUME NEW a \in Nat, NEW b \in Nat, a <= b
  PROVE  /\ pyRound(a, 2) \in Nat /\ pyRound(a, 2) <= pyRound(b, 2) /\ pyRound(a, 2) <= a
         /\ pyRound(a, 10) \in Nat /\ pyRound(a, 10) <= pyRound(b, 10)
         /\ pyRound(a, 100) \in Nat /\ pyRound(a, 100) <= pyRound(b, 100)
<1>1. pyRound(a, 2) \in Nat /\ pyRound(a, 2) <= pyRound(b, 2) /\ pyRound(a, 2) <= a
  BY DEF pyRound
<1>2. pyRound(a, 10) \in Nat /\ pyRound(a, 10) <= pyRound(b, 10)
  BY DEF pyRound
<1>3. pyRound(a, 100) \in Nat /\ pyRound(a, 100) <= pyRound(b, 100)
  BY DEF pyRound
<1> QED
  BY <1>1, <1>2, <1>3

LEMMA DiscountLowers ==
  ASSUME NEW a \in Nat
  PROVE  pyRound(6 * a, 10) \in Nat /\ pyRound(6 * a, 10) <= a
BY DEF pyRound
-----------------------------------------------------------------------------
(***************************************************************************)
(* What an extension is able to do.                                        *)
(***************************************************************************)
\* The texts, and again those that are looked for, which the provers do not
\* know to be texts.
Text == STRING \cup {"public", "unknown", "unlisted", "not_found", "removed", "parsed", "error",
                     "cached", "unavailable", "none", "badge", "known", "store", "other",
                     "storage", "debugger",
                     "cookies", "history", "host", "page", allURLs, "typosquat", "homoglyph",
                     "path", "affix", "script-src", "unsafe-eval"}

Manifests == [permissions: SUBSET Text, optional: SUBSET Text, patterns: SUBSET Text,
              host_permissions: SUBSET Text, matches: SUBSET Text, privacy: SUBSET Nat,
              csp: Seq([name: Text, sources: SUBSET Text])]
Manifest(m) ==
  /\ m \in Manifests
  /\ IsFiniteSet(m.permissions) /\ IsFiniteSet(m.optional)
  /\ IsFiniteSet(m.host_permissions) /\ IsFiniteSet(m.privacy)

\* The points of a manifest whose permissions are sorted as s.
HostPoints(s) == IF allURLs \in s.hosts THEN 20 ELSE Min({10, 2 * Cardinality(s.hosts)})
PagePoints(s) == IF allURLs \in s.matches THEN 10 ELSE IF s.matches # {} THEN 5 ELSE 0
Asks(s) == Total(permissionWeights, s.perms)
           + Min({Total(runtimeWeights, s.optional), Total(permissionWeights, s.perms)})
Declares(m) == Min({8, Total(privacyWeights, m.privacy)})
Reach(s, m) == Asks(s) + HostPoints(s) + PagePoints(s) + Declares(m)
Reached(s, m) == IF s.hosts = {} /\ s.matches = {} THEN pyRound(6 * Reach(s, m), 10)
                 ELSE Reach(s, m)

LEMMA CapabilityIs ==
  ASSUME NEW m
  PROVE  capability(m) = Min({100, Reached(permissionSets(m), m)
                                     + (IF weakCSP(m.csp) THEN 15 ELSE 0)})
BY DEF capability, Reached, Reach, Asks, Declares, HostPoints, PagePoints

LEMMA WeightsTyped ==
  /\ DOMAIN runtimeWeights = DOMAIN permissionWeights
  /\ \A p \in DOMAIN permissionWeights :
       /\ permissionWeights[p] \in Nat /\ runtimeWeights[p] \in Nat
       /\ runtimeWeights[p] <= permissionWeights[p]
  /\ \A c \in DOMAIN privacyWeights : privacyWeights[c] \in Nat
<1>1. \A p \in DOMAIN permissionWeights : permissionWeights[p] \in Nat
  BY DEF permissionWeights
<1>2. \A n \in Nat : pyRound(n, 2) \in Nat /\ pyRound(n, 2) <= n
  BY RoundMonotone
<1>3. \A c \in DOMAIN privacyWeights : privacyWeights[c] \in Nat
  BY DEF privacyWeights
<1>4. /\ DOMAIN runtimeWeights = DOMAIN permissionWeights
      /\ \A p \in DOMAIN permissionWeights : runtimeWeights[p] = pyRound(permissionWeights[p], 2)
  BY Zenon DEF runtimeWeights
<1> QED
  BY <1>1, <1>2, <1>3, <1>4

LEMMA PermissionTotals ==
  ASSUME NEW xs, IsFiniteSet(xs), NEW p
  PROVE  /\ Total(permissionWeights, xs) \in Nat
         /\ Total(runtimeWeights, xs) \in Nat
         /\ Total(permissionWeights, xs \cup {p}) =
              Total(permissionWeights, xs)
                + (IF p \in DOMAIN permissionWeights \ xs THEN permissionWeights[p] ELSE 0)
         /\ Total(runtimeWeights, xs \cup {p}) =
              Total(runtimeWeights, xs)
                + (IF p \in DOMAIN runtimeWeights \ xs THEN runtimeWeights[p] ELSE 0)
         /\ Total(runtimeWeights, xs) =
              Total(runtimeWeights, xs \ {p})
                + (IF p \in DOMAIN runtimeWeights \cap xs THEN runtimeWeights[p] ELSE 0)
<1>1. \A q \in DOMAIN permissionWeights : permissionWeights[q] \in Nat
  BY WeightsTyped
<1>2. \A q \in DOMAIN runtimeWeights : runtimeWeights[q] \in Nat
  BY WeightsTyped
<1>3. /\ Total(permissionWeights, xs) \in Nat
      /\ Total(permissionWeights, xs \cup {p}) =
           Total(permissionWeights, xs)
             + (IF p \in DOMAIN permissionWeights \ xs THEN permissionWeights[p] ELSE 0)
  BY <1>1, TotalAdds, Zenon
<1>4. /\ Total(runtimeWeights, xs) \in Nat
      /\ Total(runtimeWeights, xs \cup {p}) =
           Total(runtimeWeights, xs)
             + (IF p \in DOMAIN runtimeWeights \ xs THEN runtimeWeights[p] ELSE 0)
      /\ Total(runtimeWeights, xs) =
           Total(runtimeWeights, xs \ {p})
             + (IF p \in DOMAIN runtimeWeights \cap xs THEN runtimeWeights[p] ELSE 0)
  BY <1>2, TotalAdds, Zenon
<1> QED
  BY <1>3, <1>4, Zenon

LEMMA PointsTyped ==
  ASSUME NEW m, Manifest(m), NEW s, s = permissionSets(m)
  PROVE  /\ IsFiniteSet(s.perms) /\ IsFiniteSet(s.hosts) /\ IsFiniteSet(s.optional)
         /\ Asks(s) \in Nat /\ HostPoints(s) \in Nat /\ PagePoints(s) \in Nat
         /\ Declares(m) \in Nat /\ Reach(s, m) \in Nat
<1>1. /\ s.perms = m.permissions \ m.patterns
      /\ s.hosts = m.host_permissions \cup (m.permissions \cap m.patterns)
      /\ s.optional = m.optional \ (m.patterns \cup m.permissions)
  BY DEF permissionSets
<1>2. /\ IsFiniteSet(m.permissions) /\ IsFiniteSet(m.optional)
      /\ IsFiniteSet(m.host_permissions) /\ IsFiniteSet(m.privacy)
  BY DEF Manifest
<1>3. IsFiniteSet(s.perms) /\ IsFiniteSet(s.hosts) /\ IsFiniteSet(s.optional)
  <2>1. IsFiniteSet(m.permissions \cap m.patterns)
    BY <1>2, FS_Intersection
  <2>2. IsFiniteSet(m.host_permissions \cup (m.permissions \cap m.patterns))
    BY <1>2, <2>1, FS_Union
  <2>3. /\ s.perms \in SUBSET m.permissions
        /\ s.optional \in SUBSET m.optional
    BY <1>1
  <2>4. IsFiniteSet(s.perms) /\ IsFiniteSet(s.optional)
    BY <1>2, <2>3, FS_Subset
  <2> QED
    BY <1>1, <2>2, <2>4
<1>4. /\ Total(permissionWeights, s.perms) \in Nat
      /\ Total(runtimeWeights, s.optional) \in Nat
      /\ Total(privacyWeights, m.privacy) \in Nat
  BY <1>2, <1>3, WeightsTyped, TotalAdds
<1>5. Asks(s) \in Nat
  BY <1>4, MinOfTwo DEF Asks
<1>6. Declares(m) \in Nat
  BY <1>4, MinOfTwo DEF Declares
<1>7. HostPoints(s) \in Nat
  <2>1. 2 * Cardinality(s.hosts) \in Nat
    BY <1>3, FS_CardinalityType
  <2>2. \A i \in Nat : Min({10, i}) \in Nat
    BY MinOfTwo
  <2> QED
    BY <2>1, <2>2 DEF HostPoints
<1>8. PagePoints(s) \in Nat
  BY DEF PagePoints
<1> QED
  BY <1>3, <1>5, <1>6, <1>7, <1>8 DEF Reach

LEMMA CapabilityTyped ==
  ASSUME NEW m, Manifest(m)
  PROVE  capability(m) \in 0 .. 100
<1> DEFINE s == permissionSets(m)
           r == Reached(s, m)
           weak == IF weakCSP(m.csp) THEN 15 ELSE 0
<1>1. r \in Nat
  <2>1. Reach(s, m) \in Nat
    BY PointsTyped
  <2> HIDE DEF s
  <2> QED
    BY <2>1, DiscountLowers DEF Reached
<1>2. weak \in Nat
  OBVIOUS
<1> HIDE DEF s, r, weak
<1>3. Min({100, r + weak}) \in 0 .. 100
  <2>1. \A i \in Nat : Min({100, i}) = IF 100 <= i THEN 100 ELSE i
    BY MinOfTwo
  <2> QED
    BY <1>1, <1>2, <2>1
<1> QED
  BY <1>3, CapabilityIs DEF s, r, weak

\* With as much asked for, and on as many hosts and pages, an extension is as
\* able.
LEMMA MoreReached ==
  ASSUME NEW m, Manifest(m), NEW k, Manifest(k),
         NEW s, s = permissionSets(m), NEW t, t = permissionSets(k),
         Asks(s) <= Asks(t), s.hosts \subseteq t.hosts, s.matches \subseteq t.matches,
         m.privacy = k.privacy, m.csp = k.csp
  PROVE  capability(m) <= capability(k)
<1>1. /\ Asks(s) \in Nat /\ HostPoints(s) \in Nat /\ PagePoints(s) \in Nat
      /\ Declares(m) \in Nat /\ Reach(s, m) \in Nat
      /\ Asks(t) \in Nat /\ HostPoints(t) \in Nat /\ PagePoints(t) \in Nat
      /\ Declares(k) \in Nat /\ Reach(t, k) \in Nat
      /\ IsFiniteSet(s.hosts) /\ IsFiniteSet(t.hosts)
  BY PointsTyped
<1>2. HostPoints(s) <= HostPoints(t)
  <2>1. /\ Cardinality(s.hosts) \in Nat /\ Cardinality(t.hosts) \in Nat
        /\ Cardinality(s.hosts) <= Cardinality(t.hosts)
    BY <1>1, FS_Subset, FS_CardinalityType
  <2>2. ASSUME NEW i \in Nat, NEW j \in Nat, i <= j
        PROVE  Min({10, 2 * i}) <= Min({10, 2 * j}) /\ Min({10, 2 * j}) <= 20
    <3>1. 2 * i \in Int /\ 2 * j \in Int /\ 2 * i <= 2 * j
      BY <2>2
    <3>2. \A x, y \in Int : x <= y => Min({10, x}) <= Min({10, y}) /\ Min({10, y}) <= 20
      BY MinOfTwo
    <3> QED
      BY <3>1, <3>2
  <2>3. ASSUME NEW i \in Nat PROVE Min({10, 2 * i}) <= 20
    BY <2>2, <2>3
  <2> QED
    BY <2>1, <2>2, <2>3 DEF HostPoints
<1>3. PagePoints(s) <= PagePoints(t)
  BY DEF PagePoints
<1>4. Declares(m) = Declares(k)
  BY DEF Declares
<1>5. Reach(s, m) <= Reach(t, k)
  BY <1>1, <1>2, <1>3, <1>4 DEF Reach
<1>6. /\ Reached(s, m) \in Nat /\ Reached(t, k) \in Nat
      /\ Reached(s, m) <= Reached(t, k)
  <2> DEFINE a == Reach(s, m)
             b == Reach(t, k)
  <2>1. /\ pyRound(6 * a, 10) \in Nat /\ pyRound(6 * a, 10) <= a
        /\ pyRound(6 * b, 10) \in Nat
    BY <1>1, DiscountLowers
  <2>2. pyRound(6 * a, 10) <= pyRound(6 * b, 10)
    <3>1. 6 * a \in Nat /\ 6 * b \in Nat /\ 6 * a <= 6 * b
      BY <1>1, <1>5
    <3> QED
      BY <3>1, RoundMonotone
  <2> HIDE DEF a, b
  <2>3. a \in Nat /\ b \in Nat /\ a <= b
    BY <1>1, <1>5 DEF a, b
  <2>4. /\ Reached(s, m) = IF s.hosts = {} /\ s.matches = {} THEN pyRound(6 * a, 10) ELSE a
        /\ Reached(t, k) = IF t.hosts = {} /\ t.matches = {} THEN pyRound(6 * b, 10) ELSE b
    BY DEF Reached, a, b
  <2> QED
    BY <2>1, <2>2, <2>3, <2>4
<1> DEFINE weak == IF weakCSP(m.csp) THEN 15 ELSE 0
<1>7. /\ capability(m) = Min({100, Reached(s, m) + weak})
      /\ capability(k) = Min({100, Reached(t, k) + weak})
  BY CapabilityIs
<1>8. weak \in Nat
  OBVIOUS
<1> HIDE DEF weak
<1> QED
  BY <1>6, <1>7, <1>8, MinOfTwo

\* Asking for more never looks less able, whatever is asked for already
\* (capability, permissionSets).
THEOREM MoreAsked ==
  ASSUME NEW m, Manifest(m), NEW p \in Text
  PROVE  CapabilityMonotone(m, p)
<1> DEFINE s == permissionSets(m)
<1>1. /\ s.perms = m.permissions \ m.patterns
      /\ s.hosts = m.host_permissions \cup (m.permissions \cap m.patterns)
      /\ s.matches = m.matches
      /\ s.optional = m.optional \ (m.patterns \cup m.permissions)
  BY DEF permissionSets
<1>2. IsFiniteSet(s.perms) /\ IsFiniteSet(s.optional)
  BY PointsTyped
<1> HIDE DEF s
<1> DEFINE req(perms) == Total(permissionWeights, perms)
           run(optional) == Total(runtimeWeights, optional)
<1>3. req(s.perms) \in Nat /\ run(s.optional) \in Nat
  BY <1>2, PermissionTotals
<1>4. ASSUME NEW a \in Nat, NEW b \in Nat, NEW c \in Nat, NEW d \in Nat, NEW e \in Nat,
             b <= d + e, c = a + e
      PROVE  a + Min({b, a}) <= c + Min({d, c})
  <2>1. Min({b, a}) = IF b <= a THEN b ELSE a
    BY MinOfTwo
  <2>2. Min({d, c}) = IF d <= c THEN d ELSE c
    BY MinOfTwo
  <2> QED
    BY <1>4, <2>1, <2>2
<1>5. capability(m) <= capability([m EXCEPT !.permissions = @ \cup {p}])
  <2> DEFINE k == [m EXCEPT !.permissions = @ \cup {p}]
             t == permissionSets(k)
  <2>1. /\ k.permissions = m.permissions \cup {p} /\ k.optional = m.optional
        /\ k.patterns = m.patterns /\ k.host_permissions = m.host_permissions
        /\ k.matches = m.matches /\ k.privacy = m.privacy /\ k.csp = m.csp
    BY DEF Manifest, Manifests
  <2>2. Manifest(k)
    <3>1. IsFiniteSet(m.permissions \cup {p})
      BY FS_AddElement DEF Manifest, Manifests
    <3> QED
      BY <3>1 DEF Manifest, Manifests
  <2> HIDE DEF k
  <2>3. /\ t.perms = (m.permissions \cup {p}) \ m.patterns
        /\ t.hosts = m.host_permissions \cup ((m.permissions \cup {p}) \cap m.patterns)
        /\ t.matches = m.matches
        /\ t.optional = m.optional \ (m.patterns \cup m.permissions \cup {p})
    BY <2>1 DEF permissionSets
  <2>4. Asks(s) <= Asks(t)
    <3>1. CASE p \in m.patterns
      <4>1. t.perms = s.perms /\ t.optional = s.optional
        BY <1>1, <2>3, <3>1
      <4>2. Asks(s) = Asks(t)
        BY <4>1, Zenon DEF Asks
      <4>3. Asks(s) \in Nat
        BY PointsTyped DEF s
      <4> QED
        BY <4>2, <4>3
    <3>2. CASE p \notin m.patterns
      <4> DEFINE e == IF p \in DOMAIN permissionWeights \ s.perms
                      THEN permissionWeights[p] ELSE 0
                 f == IF p \in DOMAIN runtimeWeights \cap s.optional
                      THEN runtimeWeights[p] ELSE 0
      <4>1. t.perms = s.perms \cup {p} /\ t.optional = s.optional \ {p}
        BY <1>1, <2>3, <3>2
      <4>2. /\ req(t.perms) = req(s.perms) + e
            /\ run(s.optional) = run(t.optional) + f
            /\ e \in Nat /\ f \in Nat
        <5>1. req(s.perms \cup {p}) = req(s.perms) + e
          BY <1>2, PermissionTotals
        <5>2. run(s.optional) = run(s.optional \ {p}) + f
          BY <1>2, PermissionTotals
        <5>3. e \in Nat /\ f \in Nat
          BY WeightsTyped
        <5> QED
          BY <4>1, <5>1, <5>2, <5>3
      <4>3. f <= e
        <5>1. CASE p \in DOMAIN runtimeWeights \cap s.optional
          <6>1. p \notin s.perms
            BY <1>1, <5>1
          <6> QED
            BY <5>1, <6>1, WeightsTyped
        <5>2. CASE p \notin DOMAIN runtimeWeights \cap s.optional
          BY <4>2, <5>2
        <5> QED
          BY <5>1, <5>2
      <4>4. req(t.perms) \in Nat /\ run(t.optional) \in Nat
        <5>1. IsFiniteSet(t.perms) /\ IsFiniteSet(t.optional)
          BY <2>2, PointsTyped
        <5> QED
          BY <5>1, PermissionTotals
      <4> HIDE DEF e, f
      <4>5. run(s.optional) <= run(t.optional) + e
        BY <4>2, <4>3, <4>4
      <4> QED
        BY <1>3, <1>4, <4>2, <4>4, <4>5 DEF Asks
    <3> QED
      BY <3>1, <3>2
  <2>5. s.hosts \subseteq t.hosts /\ s.matches \subseteq t.matches
    BY <1>1, <2>3
  <2> HIDE DEF t
  <2>6. capability(m) <= capability(k)
    BY <2>1, <2>2, <2>4, <2>5, MoreReached DEF s, t
  <2> QED
    BY <2>6 DEF k
<1>6. capability(m) <= capability([m EXCEPT !.optional = @ \cup {p}])
  <2> DEFINE k == [m EXCEPT !.optional = @ \cup {p}]
             t == permissionSets(k)
  <2>1. /\ k.permissions = m.permissions /\ k.optional = m.optional \cup {p}
        /\ k.patterns = m.patterns /\ k.host_permissions = m.host_permissions
        /\ k.matches = m.matches /\ k.privacy = m.privacy /\ k.csp = m.csp
    BY DEF Manifest, Manifests
  <2>2. Manifest(k)
    <3>1. IsFiniteSet(m.optional \cup {p})
      BY FS_AddElement DEF Manifest, Manifests
    <3> QED
      BY <3>1 DEF Manifest, Manifests
  <2> HIDE DEF k
  <2>3. /\ t.perms = s.perms /\ t.hosts = s.hosts /\ t.matches = s.matches
        /\ t.optional = (m.optional \cup {p}) \ (m.patterns \cup m.permissions)
    BY <1>1, <2>1 DEF permissionSets
  <2>4. Asks(s) <= Asks(t)
    <3>1. t.optional = s.optional \/ t.optional = s.optional \cup {p}
      BY <1>1, <2>3
    <3>2. run(t.optional) \in Nat /\ run(s.optional) <= run(t.optional)
      <4> DEFINE f == IF p \in DOMAIN runtimeWeights \ s.optional
                      THEN runtimeWeights[p] ELSE 0
      <4>1. run(s.optional \cup {p}) = run(s.optional) + f
        BY <1>2, PermissionTotals
      <4>2. f \in Nat
        BY WeightsTyped
      <4> HIDE DEF f
      <4> QED
        BY <1>3, <3>1, <4>1, <4>2
    <3>3. req(t.perms) = req(s.perms)
      BY <2>3
    <3>4. req(s.perms) = req(s.perms) + 0 /\ run(s.optional) <= run(t.optional) + 0
      BY <1>3, <3>2
    <3> QED
      BY <1>3, <1>4, <3>2, <3>3, <3>4 DEF Asks
  <2> HIDE DEF t
  <2>6. capability(m) <= capability(k)
    BY <2>1, <2>2, <2>3, <2>4, MoreReached DEF s, t
  <2> QED
    BY <2>6 DEF k
<1>7. capability(m) <= capability([m EXCEPT !.host_permissions = @ \cup {p}])
  <2> DEFINE k == [m EXCEPT !.host_permissions = @ \cup {p}]
             t == permissionSets(k)
  <2>1. /\ k.permissions = m.permissions /\ k.optional = m.optional
        /\ k.patterns = m.patterns /\ k.host_permissions = m.host_permissions \cup {p}
        /\ k.matches = m.matches /\ k.privacy = m.privacy /\ k.csp = m.csp
    BY DEF Manifest, Manifests
  <2>2. Manifest(k)
    <3>1. IsFiniteSet(m.host_permissions \cup {p})
      BY FS_AddElement DEF Manifest, Manifests
    <3> QED
      BY <3>1 DEF Manifest, Manifests
  <2> HIDE DEF k
  <2>3. /\ t.perms = s.perms /\ t.matches = s.matches /\ t.optional = s.optional
        /\ s.hosts \subseteq t.hosts
    BY <1>1, <2>1 DEF permissionSets
  <2>4. Asks(s) <= Asks(t)
    <3>1. Asks(s) \in Nat
      BY PointsTyped DEF s
    <3> QED
      BY <2>3, <3>1 DEF Asks
  <2> HIDE DEF t
  <2>6. capability(m) <= capability(k)
    BY <2>1, <2>2, <2>3, <2>4, MoreReached DEF s, t
  <2> QED
    BY <2>6 DEF k
<1>8. capability(m) <= capability([m EXCEPT !.matches = @ \cup {p}])
  <2> DEFINE k == [m EXCEPT !.matches = @ \cup {p}]
             t == permissionSets(k)
  <2>1. /\ k.permissions = m.permissions /\ k.optional = m.optional
        /\ k.patterns = m.patterns /\ k.host_permissions = m.host_permissions
        /\ k.matches = m.matches \cup {p} /\ k.privacy = m.privacy /\ k.csp = m.csp
    BY DEF Manifest, Manifests
  <2>2. Manifest(k)
    BY DEF Manifest, Manifests
  <2> HIDE DEF k
  <2>3. /\ t.perms = s.perms /\ t.hosts = s.hosts /\ t.optional = s.optional
        /\ s.matches \subseteq t.matches
    BY <1>1, <2>1 DEF permissionSets
  <2>4. Asks(s) <= Asks(t)
    <3>1. Asks(s) \in Nat
      BY PointsTyped DEF s
    <3> QED
      BY <2>3, <3>1 DEF Asks
  <2> HIDE DEF t
  <2>6. capability(m) <= capability(k)
    BY <2>1, <2>2, <2>3, <2>4, MoreReached DEF s, t
  <2> QED
    BY <2>6 DEF k
<1> QED
  BY <1>5, <1>6, <1>7, <1>8, Zenon DEF CapabilityMonotone
-----------------------------------------------------------------------------
(***************************************************************************)
(* The score, of any facts about an item.                                  *)
(***************************************************************************)
Severities == {"malicious", "unwanted", "listed"}
Facts(x) ==
  /\ x \in [builtin: BOOLEAN, blocked: BOOLEAN, hits: SUBSET Severities, status: Text,
            manifest: Text, publisher: Text,
            installs: SUBSET [path: Text, chromeos: BOOLEAN], users: Int, days: Int,
            featured: BOOLEAN, mv3: BOOLEAN, hash: BOOLEAN, rating: Text, cvss: Int,
            hosts: Int, versions: Int, fleet: Int, name: SUBSET Text, manifestOf: Manifests]
  /\ IsFiniteSet(x.name) /\ Manifest(x.manifestOf)

Threat(x) == Max({threatScore(x)} \cup {severityThreat(h) : h \in x.hits})
Weighted(x) == 35 * capability(x.manifestOf) + 25 * (100 - trustScore(x)) + 25 * Threat(x)
            + 15 * exposureScore(x) + 100 * (nameAnomalySignals(x) + rarity(x))
Unscored(x) == x.builtin /\ ~x.blocked /\ x.hits = {}

LEMMA ScoreIs ==
  ASSUME NEW x
  PROVE  AnalyzeExtension(x) =
           IF Unscored(x) THEN 0 ELSE Min({100, Max({pyRound(Weighted(x), 100), Floor(x)})})
BY DEF AnalyzeExtension, Unscored, Weighted, Threat

\* A set of numbers with an upper bound has a greatest.
LEMMA GreatestElement ==
  ASSUME NEW S \in SUBSET Nat, S # {}, NEW b \in Nat, \A y \in S : y <= b
  PROVE  Max(S) \in S /\ \A y \in S : y <= Max(S)
<1> DEFINE bounds == {n \in Nat : \A y \in S : y <= n}
<1>1. bounds \in SUBSET Nat /\ bounds # {}
  OBVIOUS
<1>2. PICK m \in bounds : \A n \in bounds : m <= n
  <2> HIDE DEF bounds
  <2> QED
    BY <1>1, LeastElement
<1>3. m \in S
  <2> SUFFICES ASSUME m \notin S PROVE FALSE
    OBVIOUS
  <2>1. m \in Nat /\ \A y \in S : y \in Nat /\ y <= m /\ y # m
    OBVIOUS
  <2>2. PICK z \in S : TRUE
    OBVIOUS
  <2>3. m - 1 \in Nat
    BY <2>1, <2>2
  <2>4. \A y \in S : y <= m - 1
    BY <2>1
  <2>5. m - 1 \in bounds
    BY <2>3, <2>4
  <2>6. m <= m - 1
    BY <1>2, <2>5
  <2> HIDE DEF bounds
  <2> QED
    BY <2>1, <2>6
<1>4. \E x \in S : \A y \in S : x >= y
  BY <1>2, <1>3
<1>5. Max(S) \in S /\ \A y \in S : Max(S) >= y
  BY <1>4 DEF Max
<1> QED
  BY <1>5

LEMMA ThreatScored ==
  ASSUME NEW x, Facts(x)
  PROVE  /\ threatScore(x) \in 0 .. 100
         /\ \A h \in x.hits : severityThreat(h) \in 0 .. 100
         /\ Threat(x) \in 0 .. 100
         /\ threatScore(x) <= Threat(x)
         /\ \A h \in x.hits : severityThreat(h) <= Threat(x)
         /\ Threat(x) = threatScore(x) \/ \E h \in x.hits : Threat(x) = severityThreat(h)
<1>1. threatScore(x) \in 0 .. 100
  <2> DEFINE status == CASE x.blocked -> 100
                  [] ~x.blocked /\ x.status \in {"removed", "disabled"} -> 45
                  [] ~x.blocked /\ x.status \in {"not_found", "sideloaded"} -> 20
                  [] ~x.blocked /\ x.status = "unlisted" -> 10
                  [] OTHER -> 0
             rating == IF x.rating = "poor" THEN 15 ELSE 0
             manifest == CASE x.manifest = "error" -> 30 [] x.manifest = "unavailable" -> 15 [] OTHER -> 0
             cve == CASE x.cvss >= 9 -> 35 [] x.cvss \in 7 .. 8 -> 25 [] x.cvss \in 1 .. 6 -> 10 [] OTHER -> 0
             S == {status, rating, manifest, cve}
  <2>1. status \in 0 .. 100 /\ rating \in 0 .. 100 /\ manifest \in 0 .. 100
    OBVIOUS
  <2>2. cve \in 0 .. 100
    BY DEF Facts
  <2> HIDE DEF status, rating, manifest, cve
  <2>3. S \in SUBSET Nat /\ S # {} /\ \A y \in S : y <= 100
    BY <2>1, <2>2
  <2>4. Max(S) \in S
    <3> HIDE DEF S
    <3> QED
      BY <2>3, GreatestElement
  <2>5. Max(S) \in 0 .. 100
    BY <2>1, <2>2, <2>4
  <2> QED
    BY <2>5, Zenon DEF threatScore, S, status, rating, manifest, cve
<1>2. \A h \in x.hits : severityThreat(h) \in 0 .. 100
  BY DEF Facts, Severities, severityThreat
<1> DEFINE S == {threatScore(x)} \cup {severityThreat(h) : h \in x.hits}
<1>3. S \in SUBSET Nat /\ S # {} /\ \A y \in S : y \in 0 .. 100 /\ y <= 100
  BY <1>1, <1>2
<1>4. Max(S) \in S /\ \A y \in S : y <= Max(S)
  <2> HIDE DEF S
  <2> QED
    BY <1>3, GreatestElement
<1>5. Threat(x) = Max(S)
  BY DEF Threat
<1>6. threatScore(x) \in S /\ \A h \in x.hits : severityThreat(h) \in S
  OBVIOUS
<1>7. \A y \in S : y = threatScore(x) \/ \E h \in x.hits : y = severityThreat(h)
  OBVIOUS
<1> HIDE DEF S
<1> QED
  BY <1>1, <1>2, <1>3, <1>4, <1>5, <1>6, <1>7

\* A threat is as high if the item's own is and the same feeds name it.
LEMMA ThreatRises ==
  ASSUME NEW x, Facts(x), NEW y, Facts(y),
         threatScore(x) <= threatScore(y), x.hits \subseteq y.hits
  PROVE  Threat(x) <= Threat(y)
<1>1. CASE Threat(x) = threatScore(x)
  BY <1>1, ThreatScored
<1>2. CASE \E h \in x.hits : Threat(x) = severityThreat(h)
  BY <1>2, ThreatScored
<1> QED
  BY <1>1, <1>2, ThreatScored

\* What a store's answer is worth, and the rest of what is trusted.
StatusTrust(status) ==
  CASE status = "public" -> 25 [] status = "unlisted" -> 5 [] status = "unknown" -> 8 [] OTHER -> 0
TrustOf(x) ==
  LET badge == IF x.publisher = "badge" THEN 10 ELSE 0
      updated == CASE x.days = 0 -> 0 [] x.days \in 1 .. 365 -> 10
                   [] x.days \in 366 .. 730 -> 4 [] OTHER -> 0
      If(b, n) == IF b THEN n ELSE 0
  IN <<If(reputable(x), 20), badge, updated, popularity(x.users),
       If(x.featured, 5), If(x.mv3, 8), If(x.rating = "good", 5), If(x.hash, 5)>>
Trusted(status, t) ==
  Min({100, StatusTrust(status) + t[1] + t[2] + t[3] + t[4] + t[5] + t[6] + t[7] + t[8]})

LEMMA TrustIs ==
  ASSUME NEW x
  PROVE  trustScore(x) = Trusted(x.status, TrustOf(x))
BY DEF trustScore, Trusted, StatusTrust, TrustOf

LEMMA TrustTyped ==
  ASSUME NEW x, Facts(x), NEW status
  PROVE  /\ TrustOf(x) \in Nat \X Nat \X Nat \X Nat \X Nat \X Nat \X Nat \X Nat
         /\ StatusTrust(status) \in Nat
         /\ Trusted(status, TrustOf(x)) \in 0 .. 100
<1>1. TrustOf(x) \in Nat \X Nat \X Nat \X Nat \X Nat \X Nat \X Nat \X Nat
  <2>1. popularity(x.users) \in Nat
    BY DEF popularity, Facts
  <2>2. (CASE x.days = 0 -> 0 [] x.days \in 1 .. 365 -> 10
           [] x.days \in 366 .. 730 -> 4 [] OTHER -> 0) \in Nat
    BY DEF Facts
  <2> QED
    BY <2>1, <2>2 DEF TrustOf
<1>2. StatusTrust(status) \in Nat
  BY DEF StatusTrust
<1>3. PICK n \in Nat : Trusted(status, TrustOf(x)) = Min({100, n})
  <2> DEFINE t == TrustOf(x)
  <2>1. t[1] \in Nat /\ t[2] \in Nat /\ t[3] \in Nat /\ t[4] \in Nat
        /\ t[5] \in Nat /\ t[6] \in Nat /\ t[7] \in Nat /\ t[8] \in Nat
    BY <1>1
  <2> HIDE DEF t
  <2>2. StatusTrust(status) + t[1] + t[2] + t[3] + t[4] + t[5] + t[6] + t[7] + t[8] \in Nat
    BY <1>2, <2>1
  <2> QED
    BY <2>2 DEF Trusted, t
<1>4. Min({100, n}) = IF 100 <= n THEN 100 ELSE n
  BY MinOfTwo
<1> QED
  BY <1>1, <1>2, <1>3, <1>4

\* A worse answer of the store is worth no more.
LEMMA TrustFalls ==
  ASSUME NEW x, Facts(x), NEW r, NEW s, StatusTrust(r) <= StatusTrust(s)
  PROVE  Trusted(r, TrustOf(x)) <= Trusted(s, TrustOf(x))
<1> DEFINE t == TrustOf(x)
           m == StatusTrust(r) + t[1] + t[2] + t[3] + t[4] + t[5] + t[6] + t[7] + t[8]
           n == StatusTrust(s) + t[1] + t[2] + t[3] + t[4] + t[5] + t[6] + t[7] + t[8]
<1>1. t[1] \in Nat /\ t[2] \in Nat /\ t[3] \in Nat /\ t[4] \in Nat
      /\ t[5] \in Nat /\ t[6] \in Nat /\ t[7] \in Nat /\ t[8] \in Nat
  BY TrustTyped
<1>2. StatusTrust(r) \in Nat /\ StatusTrust(s) \in Nat
  BY DEF StatusTrust
<1> HIDE DEF t
<1>3. m \in Nat /\ n \in Nat /\ m <= n
  BY <1>1, <1>2
<1>4. Trusted(r, t) = Min({100, m}) /\ Trusted(s, t) = Min({100, n})
  BY DEF Trusted
<1> HIDE DEF m, n
<1>5. \A i, j \in Nat : i <= j => Min({100, i}) <= Min({100, j})
  BY MinOfTwo
<1> QED
  BY <1>3, <1>4, <1>5 DEF t

LEMMA OthersTyped ==
  ASSUME NEW x, Facts(x)
  PROVE  /\ capability(x.manifestOf) \in 0 .. 100 /\ exposureScore(x) \in Nat
         /\ nameAnomalySignals(x) \in Nat /\ rarity(x) \in Nat /\ Floor(x) \in 0 .. 100
         /\ Weighted(x) \in Nat
<1>1. capability(x.manifestOf) \in 0 .. 100
  BY CapabilityTyped DEF Facts
<1>2. exposureScore(x) \in Nat
  <2> DEFINE points == CASE x.hosts <= 0 -> 0 [] x.hosts = 1 -> 5 [] x.hosts = 2 -> 7
                  [] x.hosts \in 3 .. 9 -> 15 [] x.hosts \in 10 .. 99 -> 30 [] OTHER -> 60
             many == IF x.versions > 2 THEN 10 ELSE 0
  <2>1. points \in Nat /\ many \in Nat
    BY DEF Facts
  <2> HIDE DEF points, many
  <2>2. Min({100, points + many}) = IF 100 <= points + many THEN 100 ELSE points + many
    BY <2>1, MinOfTwo
  <2>3. Min({100, points + many}) \in Nat
    BY <2>1, <2>2
  <2> QED
    BY <2>3, Zenon DEF exposureScore, points, many
<1>3. nameAnomalySignals(x) \in Nat
  <2> DEFINE like == CASE vouched(x) -> 0 [] "typosquat" \in x.name -> 18
                       [] "affix" \in x.name -> 8 [] OTHER -> 0
             odd == Total(oddities, x.name)
  <2>1. like \in Nat
    OBVIOUS
  <2>2. odd \in Nat
    <3>1. \A o \in DOMAIN oddities : oddities[o] \in Nat
      BY DEF oddities
    <3>2. IsFiniteSet(x.name)
      BY DEF Facts
    <3> QED
      BY <3>1, <3>2, TotalAdds, Zenon
  <2> HIDE DEF like, odd
  <2>3. Min({35, odd + like}) = IF 35 <= odd + like THEN 35 ELSE odd + like
    BY <2>1, <2>2, MinOfTwo
  <2>4. Min({35, odd + like}) \in Nat
    BY <2>1, <2>2, <2>3
  <2> QED
    BY <2>4 DEF nameAnomalySignals, like, odd
<1>4. rarity(x) \in Nat
  BY DEF rarity, Facts
<1>5. Floor(x) \in 0 .. 100
  <2>1. CASE knownBad(x)
    <3>1. x.users \in Int
      BY DEF Facts
    <3>2. widely(x.users) \in 0 .. 100
      BY <3>1 DEF widely
    <3>3. Floor(x) = widely(x.users)
      BY <2>1, Zenon DEF Floor
    <3> QED
      BY <3>2, <3>3
  <2>2. CASE ~knownBad(x) /\ x.hits # {}
    BY <2>2 DEF Floor
  <2>3. CASE ~knownBad(x) /\ x.hits = {}
    BY <2>3 DEF Floor
  <2> QED
    BY <2>1, <2>2, <2>3
<1>6. Weighted(x) \in Nat
  <2>1. trustScore(x) \in 0 .. 100
    BY TrustIs, TrustTyped
  <2>2. Threat(x) \in 0 .. 100
    BY ThreatScored
  <2> DEFINE c == capability(x.manifestOf)
             t == trustScore(x)
             h == Threat(x)
             e == exposureScore(x)
             n == nameAnomalySignals(x)
             q == rarity(x)
  <2>3. /\ c \in Nat /\ t \in 0 .. 100 /\ h \in Nat
        /\ e \in Nat /\ n \in Nat /\ q \in Nat
    BY <1>1, <1>2, <1>3, <1>4, <2>1, <2>2
  <2>4. Weighted(x) = 35 * c + 25 * (100 - t) + 25 * h + 15 * e + 100 * (n + q)
    BY Zenon DEF Weighted
  <2> HIDE DEF c, t, h, e, n, q
  <2> QED
    BY <2>3, <2>4
<1> QED
  BY <1>1, <1>2, <1>3, <1>4, <1>5, <1>6

\* Of two items alike in all else, the one that is more of a threat, is trusted
\* less and has the higher floor scores as high.
LEMMA ScoreRisesWith ==
  ASSUME NEW x, Facts(x), NEW y, Facts(y),
         x.manifestOf = y.manifestOf, exposureScore(x) = exposureScore(y),
         nameAnomalySignals(x) = nameAnomalySignals(y), rarity(x) = rarity(y),
         trustScore(y) <= trustScore(x), Threat(x) <= Threat(y), Floor(x) <= Floor(y),
         Unscored(y) => Unscored(x)
  PROVE  AnalyzeExtension(x) <= AnalyzeExtension(y)
<1>1. Weighted(x) \in Nat /\ Weighted(y) \in Nat /\ Floor(x) \in 0 .. 100 /\ Floor(y) \in 0 .. 100
  BY OthersTyped
<1>2. Weighted(x) <= Weighted(y)
  <2> DEFINE c == capability(x.manifestOf)
             e == exposureScore(x)
             n == nameAnomalySignals(x)
             q == rarity(x)
             t == trustScore(x)
             u == trustScore(y)
             h == Threat(x)
             k == Threat(y)
  <2>1. /\ c \in Nat /\ e \in Nat /\ n \in Nat /\ q \in Nat
        /\ t \in 0 .. 100 /\ u \in 0 .. 100 /\ h \in 0 .. 100 /\ k \in 0 .. 100
        /\ u <= t /\ h <= k
    BY OthersTyped, TrustIs, TrustTyped, ThreatScored
  <2>2. /\ Weighted(x) = 35 * c + 25 * (100 - t) + 25 * h + 15 * e + 100 * (n + q)
        /\ Weighted(y) = 35 * c + 25 * (100 - u) + 25 * k + 15 * e + 100 * (n + q)
    BY Zenon DEF Weighted
  <2> HIDE DEF c, e, n, q, t, u, h, k
  <2> QED
    BY <2>1, <2>2
<1> DEFINE r == pyRound(Weighted(x), 100)
           q == pyRound(Weighted(y), 100)
<1>3. r \in Nat /\ q \in Nat /\ r <= q
  BY <1>1, <1>2, RoundMonotone
<1> HIDE DEF r, q
<1>4. /\ Max({r, Floor(x)}) = IF r >= Floor(x) THEN r ELSE Floor(x)
      /\ Max({q, Floor(y)}) = IF q >= Floor(y) THEN q ELSE Floor(y)
  <2>1. \A i, j \in Nat : Max({i, j}) = IF i >= j THEN i ELSE j
    BY MaxOfTwo
  <2>2. Floor(x) \in Nat /\ Floor(y) \in Nat
    BY <1>1
  <2> QED
    BY <1>3, <2>1, <2>2, Zenon
<1> DEFINE i == Max({r, Floor(x)})
           j == Max({q, Floor(y)})
<1>5. i \in Nat /\ j \in Nat /\ i <= j
  BY <1>1, <1>3, <1>4
<1> HIDE DEF i, j
<1>6. /\ Min({100, i}) = IF 100 <= i THEN 100 ELSE i
      /\ Min({100, j}) = IF 100 <= j THEN 100 ELSE j
  BY <1>5, MinOfTwo
<1>7. /\ AnalyzeExtension(x) = IF Unscored(x) THEN 0 ELSE Min({100, i})
      /\ AnalyzeExtension(y) = IF Unscored(y) THEN 0 ELSE Min({100, j})
  BY ScoreIs DEF i, j, r, q
<1> QED
  BY <1>5, <1>6, <1>7

\* Items that differ in what is known against them alone.
SameItem(x, y) ==
  /\ x.manifestOf = y.manifestOf /\ x.publisher = y.publisher /\ x.installs = y.installs
  /\ x.users = y.users /\ x.days = y.days /\ x.featured = y.featured /\ x.mv3 = y.mv3
  /\ x.hash = y.hash /\ x.rating = y.rating /\ x.hosts = y.hosts /\ x.cvss = y.cvss
  /\ x.versions = y.versions /\ x.fleet = y.fleet /\ x.name = y.name
  /\ x.manifest = y.manifest /\ x.builtin = y.builtin

LEMMA SameScored ==
  ASSUME NEW x, NEW y, SameItem(x, y)
  PROVE  /\ TrustOf(x) = TrustOf(y) /\ exposureScore(x) = exposureScore(y)
         /\ nameAnomalySignals(x) = nameAnomalySignals(y) /\ rarity(x) = rarity(y)
<1>1. reputable(x) = reputable(y)
  BY DEF SameItem, reputable
<1>2. vouched(x) = vouched(y)
  BY <1>1 DEF SameItem, vouched
<1>3. TrustOf(x) = TrustOf(y)
  BY <1>1 DEF SameItem, TrustOf
<1>4. exposureScore(x) = exposureScore(y)
  BY DEF SameItem, exposureScore
<1>5. nameAnomalySignals(x) = nameAnomalySignals(y)
  BY <1>2 DEF SameItem, nameAnomalySignals
<1>6. rarity(x) = rarity(y)
  BY <1>1 DEF SameItem, rarity
<1> QED
  BY <1>3, <1>4, <1>5, <1>6

\* What becomes known against an item never lowers its score, whatever else is
\* known of it (AnalyzeExtension, score.go).
THEOREM HitsNeverHide ==
  ASSUME NEW x, Facts(x)
  PROVE  HitNeverLowers(x)
<1>1. ASSUME NEW more \in SUBSET Severities
      PROVE  AnalyzeExtension(x) <= AnalyzeExtension([x EXCEPT !.hits = x.hits \cup more])
  <2> DEFINE y == [x EXCEPT !.hits = x.hits \cup more]
  <2>1. Facts(y)
    BY DEF Facts
  <2>2. SameItem(x, y)
    BY DEF SameItem, Facts
  <2>3. /\ y.hits = x.hits \cup more /\ y.blocked = x.blocked /\ y.status = x.status
        /\ x.hits \subseteq y.hits
    BY DEF Facts
  <2> HIDE DEF y
  <2>4. trustScore(x) = trustScore(y)
    BY <2>2, <2>3, SameScored, TrustIs
  <2>5. threatScore(x) = threatScore(y)
    BY <2>2, <2>3 DEF threatScore, SameItem
  <2>6. threatScore(x) \in 0 .. 100 /\ trustScore(x) \in 0 .. 100
    BY ThreatScored, TrustIs, TrustTyped
  <2>7. Threat(x) <= Threat(y)
    BY <2>1, <2>3, <2>5, <2>6, ThreatRises
  <2>8. Floor(x) <= Floor(y)
    <3>1. widely(x.users) >= 85 /\ widely(x.users) = widely(y.users)
      <4>1. x.users \in Int /\ x.users = y.users
        BY <2>2 DEF Facts, SameItem
      <4> QED
        BY <4>1 DEF widely
    <3>2. widely(x.users) \in Int
      <4>1. x.users \in Int
        BY DEF Facts
      <4> QED
        BY <4>1 DEF widely
    <3>3. knownBad(x) => knownBad(y)
      BY <2>3 DEF knownBad
    <3>4. nameAnomalySignals(x) = nameAnomalySignals(y)
      BY <2>2, SameScored
    <3>5. CASE knownBad(y)
      BY <3>1, <3>2, <3>5 DEF Floor
    <3>6. CASE ~knownBad(y) /\ x.hits # {}
      BY <2>3, <3>3, <3>6 DEF Floor
    <3>7. CASE ~knownBad(y) /\ x.hits = {}
      BY <2>3, <3>3, <3>4, <3>7 DEF Floor
    <3> QED
      BY <3>5, <3>6, <3>7
  <2>9. Unscored(y) => Unscored(x)
    BY <2>2, <2>3 DEF Unscored, SameItem
  <2>10. trustScore(y) <= trustScore(x)
    BY <2>4, <2>6
  <2>11. /\ x.manifestOf = y.manifestOf /\ exposureScore(x) = exposureScore(y)
         /\ nameAnomalySignals(x) = nameAnomalySignals(y) /\ rarity(x) = rarity(y)
    BY <2>2, SameScored DEF SameItem
  <2>12. AnalyzeExtension(x) <= AnalyzeExtension(y)
    BY <2>1, <2>7, <2>8, <2>9, <2>10, <2>11, ScoreRisesWith
  <2> QED
    BY <2>12 DEF y
<1>2. AnalyzeExtension(x) <= AnalyzeExtension([x EXCEPT !.blocked = TRUE])
  <2> DEFINE y == [x EXCEPT !.blocked = TRUE]
  <2>1. Facts(y)
    BY DEF Facts
  <2>2. SameItem(x, y)
    BY DEF SameItem, Facts
  <2>3. y.hits = x.hits /\ y.blocked = TRUE /\ y.status = x.status
    BY DEF Facts
  <2> HIDE DEF y
  <2>4. trustScore(x) = trustScore(y)
    BY <2>2, <2>3, SameScored, TrustIs
  <2>5. Threat(x) \in 0 .. 100 /\ Threat(y) \in 0 .. 100 /\ threatScore(y) \in 0 .. 100
        /\ trustScore(x) \in 0 .. 100 /\ threatScore(y) <= Threat(y)
    BY <2>1, ThreatScored, TrustIs, TrustTyped
  <2>6. threatScore(y) = 100
    <3> DEFINE rating == IF y.rating = "poor" THEN 15 ELSE 0
               manifest == CASE y.manifest = "error" -> 30 [] y.manifest = "unavailable" -> 15 [] OTHER -> 0
               cve == CASE y.cvss >= 9 -> 35 [] y.cvss \in 7 .. 8 -> 25 [] y.cvss \in 1 .. 6 -> 10 [] OTHER -> 0
               S == {100, rating, manifest, cve}
    <3>1. threatScore(y) = Max(S)
      BY <2>3 DEF threatScore
    <3>2. rating \in 0 .. 100 /\ manifest \in 0 .. 100
      OBVIOUS
    <3>3. cve \in 0 .. 100
      <4>1. y.cvss \in Int
        BY <2>1 DEF Facts
      <4> QED
        BY <4>1
    <3> HIDE DEF rating, manifest, cve
    <3>4. S \in SUBSET Nat /\ S # {} /\ (\A z \in S : z <= 100) /\ 100 \in S
      BY <3>2, <3>3
    <3> HIDE DEF S
    <3>5. Max(S) \in S /\ \A z \in S : z <= Max(S)
      BY <3>4, GreatestElement
    <3>6. 100 <= Max(S) /\ Max(S) <= 100 /\ Max(S) \in Nat
      BY <3>4, <3>5
    <3> QED
      BY <3>1, <3>6
  <2>7. Threat(x) <= Threat(y)
    BY <2>5, <2>6
  <2>8. Floor(x) <= Floor(y)
    <3>1. widely(x.users) >= 85 /\ widely(x.users) = widely(y.users) /\ widely(x.users) \in Int
      <4>1. x.users \in Int /\ x.users = y.users
        BY <2>2 DEF Facts, SameItem
      <4> QED
        BY <4>1 DEF widely
    <3>2. Floor(y) = widely(y.users)
      BY <2>3 DEF Floor, knownBad
    <3>3. CASE knownBad(x)
      BY <3>1, <3>2, <3>3 DEF Floor
    <3>4. CASE ~knownBad(x)
      BY <3>1, <3>2, <3>4 DEF Floor
    <3> QED
      BY <3>3, <3>4
  <2>9. ~Unscored(y)
    BY <2>3 DEF Unscored
  <2>10. trustScore(y) <= trustScore(x)
    BY <2>4, <2>5
  <2>11. /\ x.manifestOf = y.manifestOf /\ exposureScore(x) = exposureScore(y)
         /\ nameAnomalySignals(x) = nameAnomalySignals(y) /\ rarity(x) = rarity(y)
    BY <2>2, SameScored DEF SameItem
  <2>12. AnalyzeExtension(x) <= AnalyzeExtension(y)
    BY <2>1, <2>7, <2>8, <2>9, <2>10, <2>11, ScoreRisesWith
  <2> QED
    BY <2>12 DEF y
<1> QED
  BY <1>1, <1>2 DEF HitNeverLowers, Severities

\* The threat of a store's answer; the item's own is the worst of four.
StatusThreat(status) ==
  CASE status \in {"removed", "disabled"} -> 45 [] status \in {"not_found", "sideloaded"} -> 20
    [] status = "unlisted" -> 10 [] OTHER -> 0

LEMMA WorseIsMoreThreat ==
  ASSUME NEW x, Facts(x), NEW y, Facts(y), SameItem(x, y), x.blocked = y.blocked,
         x.hits = y.hits, StatusThreat(x.status) <= StatusThreat(y.status)
  PROVE  Threat(x) <= Threat(y)
<1> DEFINE own(z) == IF z.blocked THEN 100 ELSE StatusThreat(z.status)
           rating == IF x.rating = "poor" THEN 15 ELSE 0
           manifest == CASE x.manifest = "error" -> 30 [] x.manifest = "unavailable" -> 15 [] OTHER -> 0
           cve == CASE x.cvss >= 9 -> 35 [] x.cvss \in 7 .. 8 -> 25 [] x.cvss \in 1 .. 6 -> 10 [] OTHER -> 0
<1>1. x.cvss \in Int /\ x.blocked \in BOOLEAN /\ y.blocked \in BOOLEAN
  BY DEF Facts
<1>2. /\ threatScore(x) = Max({own(x), rating, manifest, cve})
      /\ threatScore(y) = Max({own(y), rating, manifest, cve})
  <2>1. /\ own(x) = CASE x.blocked -> 100
                  [] ~x.blocked /\ x.status \in {"removed", "disabled"} -> 45
                  [] ~x.blocked /\ x.status \in {"not_found", "sideloaded"} -> 20
                  [] ~x.blocked /\ x.status = "unlisted" -> 10
                  [] OTHER -> 0
        /\ own(y) = CASE y.blocked -> 100
                  [] ~y.blocked /\ y.status \in {"removed", "disabled"} -> 45
                  [] ~y.blocked /\ y.status \in {"not_found", "sideloaded"} -> 20
                  [] ~y.blocked /\ y.status = "unlisted" -> 10
                  [] OTHER -> 0
    BY <1>1 DEF StatusThreat
  <2>2. y.rating = x.rating /\ y.manifest = x.manifest /\ y.cvss = x.cvss
    BY DEF SameItem
  <2> HIDE DEF own
  <2> QED
    BY <2>1, <2>2 DEF threatScore
<1>3. own(x) \in 0 .. 100 /\ own(y) \in 0 .. 100 /\ own(x) <= own(y)
  BY <1>1 DEF StatusThreat
<1>4. rating \in 0 .. 100 /\ manifest \in 0 .. 100 /\ cve \in 0 .. 100
  BY <1>1
<1> HIDE DEF rating, manifest, cve, own
<1> DEFINE S == {own(x), rating, manifest, cve}
           T == {own(y), rating, manifest, cve}
<1>5. /\ S \in SUBSET Nat /\ S # {} /\ \A z \in S : z <= 100
      /\ T \in SUBSET Nat /\ T # {} /\ \A z \in T : z <= 100
  BY <1>3, <1>4
<1>6. \A z \in S : \E w \in T : z <= w
  BY <1>3, <1>4
<1>7. threatScore(x) = Max(S) /\ threatScore(y) = Max(T)
  BY <1>2
<1> HIDE DEF S, T
<1>8. Max(S) \in S /\ Max(T) \in T /\ \A w \in T : w <= Max(T)
  BY <1>5, GreatestElement
<1>9. Max(S) <= Max(T)
  <2>1. PICK w \in T : Max(S) <= w
    BY <1>6, <1>8
  <2>2. w <= Max(T) /\ w \in Nat /\ Max(S) \in Nat /\ Max(T) \in Nat
    BY <1>5, <1>8, <2>1
  <2> QED
    BY <2>1, <2>2
<1>10. threatScore(x) <= threatScore(y)
  BY <1>7, <1>9
<1>11. x.hits \subseteq y.hits
  OBVIOUS
<1> QED
  BY <1>10, <1>11, ThreatRises

\* A worse answer of the store never gives a lower score (AnalyzeExtension,
\* trustScore, threatScore).
THEOREM WorseAnswersCount ==
  ASSUME NEW x, Facts(x)
  PROVE  WorseNeverLowers(x)
<1> SUFFICES ASSUME NEW n \in 1 .. 4
             PROVE  AnalyzeExtension([x EXCEPT !.status = ByStatus[n]])
                      <= AnalyzeExtension([x EXCEPT !.status = ByStatus[n + 1]])
  BY DEF WorseNeverLowers
<1> DEFINE y == [x EXCEPT !.status = ByStatus[n]]
           z == [x EXCEPT !.status = ByStatus[n + 1]]
<1>0. \/ ByStatus[n] = "public" /\ ByStatus[n + 1] = "unknown"
      \/ ByStatus[n] = "unknown" /\ ByStatus[n + 1] = "unlisted"
      \/ ByStatus[n] = "unlisted" /\ ByStatus[n + 1] = "not_found"
      \/ ByStatus[n] = "not_found" /\ ByStatus[n + 1] = "removed"
  BY DEF ByStatus
<1>1. ByStatus[n] \in Text /\ ByStatus[n + 1] \in Text
  <2>1. /\ "public" \in Text /\ "unknown" \in Text /\ "unlisted" \in Text
        /\ "not_found" \in Text /\ "removed" \in Text
    BY Zenon DEF Text
  <2> QED
    BY <1>0, <2>1, Zenon
<1>2. Facts(y) /\ Facts(z)
  BY <1>1 DEF Facts
<1>3. SameItem(y, z)
  BY DEF SameItem, Facts
<1>4. /\ y.hits = z.hits /\ y.blocked = z.blocked
      /\ y.status = ByStatus[n] /\ z.status = ByStatus[n + 1]
  BY DEF Facts
<1> HIDE DEF y, z
<1>5. \/ y.status = "public" /\ z.status = "unknown"
      \/ y.status = "unknown" /\ z.status = "unlisted"
      \/ y.status = "unlisted" /\ z.status = "not_found"
      \/ y.status = "not_found" /\ z.status = "removed"
  BY <1>0, <1>4
<1>6. trustScore(z) <= trustScore(y)
  <2>1. StatusTrust(z.status) <= StatusTrust(y.status)
    BY <1>5 DEF StatusTrust
  <2>2. TrustOf(y) = TrustOf(z)
    BY <1>3, SameScored
  <2> QED
    BY <1>2, <2>1, <2>2, TrustIs, TrustFalls
<1>7. Threat(y) <= Threat(z)
  <2>1. StatusThreat(y.status) <= StatusThreat(z.status)
    BY <1>5 DEF StatusThreat
  <2> QED
    BY <1>2, <1>3, <1>4, <2>1, WorseIsMoreThreat
<1>8. Floor(y) <= Floor(z)
  <2>1. knownBad(y) = knownBad(z) /\ widely(y.users) = widely(z.users)
    BY <1>3, <1>4 DEF knownBad, SameItem
  <2>2. nameAnomalySignals(y) = nameAnomalySignals(z)
    BY <1>3, SameScored
  <2>3. CASE knownBad(y)
    <3>1. Floor(y) = Floor(z) /\ Floor(y) \in 0 .. 100
      BY <1>2, <2>1, <2>3, OthersTyped DEF Floor
    <3> QED
      BY <3>1
  <2>4. CASE ~knownBad(y) /\ y.hits # {}
    BY <1>4, <2>1, <2>4 DEF Floor
  <2>5. CASE ~knownBad(y) /\ y.hits = {}
    BY <1>4, <1>5, <2>1, <2>2, <2>5 DEF Floor
  <2> QED
    BY <2>3, <2>4, <2>5
<1>9. Unscored(z) => Unscored(y)
  BY <1>3, <1>4 DEF Unscored, SameItem
<1>10. /\ y.manifestOf = z.manifestOf /\ exposureScore(y) = exposureScore(z)
       /\ nameAnomalySignals(y) = nameAnomalySignals(z) /\ rarity(y) = rarity(z)
  BY <1>3, SameScored DEF SameItem
<1>11. AnalyzeExtension(y) <= AnalyzeExtension(z)
  BY <1>2, <1>6, <1>7, <1>8, <1>9, <1>10, ScoreRisesWith
<1> QED
  BY <1>11 DEF y, z

\* Who a readable feed calls malicious, in the row that counts, is known to be
\* bad, and what is known to be bad is critical.
LEMMA MaliciousIsHit ==
  ASSUME NEW feed, feed.rows \in Seq(Rows), NEW platform, NEW store, NEW n \in DOMAIN feed.rows,
         feed.rows[n] = [kind |-> "good", id |-> "a", severity |-> "malicious"],
         \A k \in (n + 1) .. Len(feed.rows) : feed.rows[k].kind = "good" => feed.rows[k].id # "a",
         FetchThreatFeed(feed).result = "ok",
         store \in feedPlatforms[platform]
  PROVE  MatchThreatFeeds([f |-> [platform |-> platform, entries |-> FetchThreatFeed(feed).entries]],
                          store, "a") = {"malicious"}
<1> DEFINE rows == feed.rows
           got == FetchThreatFeed(feed)
           Goods == {k \in DOMAIN rows : rows[k].kind = "good"}
           Of(id) == {k \in Goods : rows[k].id = id}
           LastOf(id) == CHOOSE k \in Of(id) : \A j \in Of(id) : j <= k
           entries == [id \in {rows[k].id : k \in Goods} |-> rows[LastOf(id)].severity]
<1>1. got.entries = entries
  <2>1. got = [result |-> "failed"] \/ got = [result |-> "ok", entries |-> entries]
    BY Zenon DEF FetchThreatFeed
  <2>2. got # [result |-> "failed"]
    <3> SUFFICES ASSUME got = [result |-> "failed"] PROVE FALSE
      OBVIOUS
    <3> QED
      OBVIOUS
  <2> HIDE DEF got, entries
  <2> QED
    BY <2>1, <2>2
<1>2. n \in Of("a") /\ \A k \in Of("a") : k <= n
  <2>1. DOMAIN rows = 1 .. Len(rows) /\ Len(rows) \in Nat
    OBVIOUS
  <2>2. ASSUME NEW k \in Of("a") PROVE k <= n
    <3>1. k \in 1 .. Len(rows) /\ n \in 1 .. Len(rows)
      BY <2>1
    <3>2. ~(k \in (n + 1) .. Len(rows))
      OBVIOUS
    <3> QED
      BY <2>1, <3>1, <3>2
  <2> QED
    BY <2>2
<1>3. LastOf("a") = n
  <2>1. LastOf("a") \in Of("a") /\ \A j \in Of("a") : j <= LastOf("a")
    BY <1>2, Zenon
  <2>2. LastOf("a") \in Int /\ n \in Int
    <3>1. \A k \in Of("a") : k \in Int
      OBVIOUS
    <3> QED
      BY <1>2, <2>1, <3>1
  <2>3. LastOf("a") <= n /\ n <= LastOf("a")
    BY <1>2, <2>1
  <2> HIDE DEF LastOf
  <2> QED
    BY <2>2, <2>3
<1>4. "a" \in DOMAIN got.entries /\ got.entries["a"] = "malicious"
  <2>1. "a" \in {rows[k].id : k \in Goods}
    BY <1>2
  <2>2. entries["a"] = rows[LastOf("a")].severity
    BY <2>1, Zenon
  <2>3. entries["a"] = "malicious"
    <3>1. rows[n].severity = "malicious"
      OBVIOUS
    <3> HIDE DEF entries, rows
    <3> QED
      BY <1>3, <2>2, <3>1, Zenon
  <2>4. DOMAIN entries = {rows[k].id : k \in Goods}
    BY Zenon
  <2> HIDE DEF got, entries
  <2> QED
    BY <1>1, <2>1, <2>3, <2>4
<1> HIDE DEF got
<1> QED
  BY <1>4 DEF MatchThreatFeeds, got

\* The score of what is scored is not under its floor.
LEMMA FloorHolds ==
  ASSUME NEW x, Facts(x), ~Unscored(x), Floor(x) \in 0 .. 100
  PROVE  AnalyzeExtension(x) \in Floor(x) .. 100
<1> DEFINE r == pyRound(Weighted(x), 100)
           i == Max({r, Floor(x)})
<1>1. Weighted(x) \in Nat /\ Weighted(x) <= Weighted(x)
  BY OthersTyped
<1>2. r \in Nat
  BY <1>1, RoundMonotone
<1> HIDE DEF r
<1>3. i \in Nat /\ i >= Floor(x)
  <2>1. \A a, b \in Nat : Max({a, b}) = IF a >= b THEN a ELSE b
    BY MaxOfTwo
  <2> QED
    BY <1>2, <2>1
<1> HIDE DEF i
<1>4. Min({100, i}) = IF 100 <= i THEN 100 ELSE i
  BY <1>3, MinOfTwo
<1>5. AnalyzeExtension(x) = Min({100, i})
  BY ScoreIs DEF i, r
<1> QED
  BY <1>3, <1>4, <1>5

\* What a blocklist or a feed calls malicious is critical (AnalyzeExtension).
THEOREM BadIsCritical ==
  ASSUME NEW x, Facts(x), knownBad(x)
  PROVE  riskBand(AnalyzeExtension(x)) = "critical"
<1>1. Floor(x) \in 85 .. 96
  <2>1. x.users \in Int
    BY DEF Facts
  <2>2. Floor(x) = widely(x.users)
    BY Zenon DEF Floor
  <2> QED
    BY <2>1, <2>2 DEF widely
<1>2. ~Unscored(x)
  BY DEF Unscored, knownBad, Facts
<1>3. AnalyzeExtension(x) \in 85 .. 100
  BY <1>1, <1>2, FloorHolds
<1> QED
  BY <1>3 DEF riskBand

\* What a store has taken down is a high risk at least, whatever else is known
\* of the item (recordStatus, FetchChromeListings, AnalyzeExtension).
THEOREM TakenDownIsFlagged ==
  ASSUME NEW store \in Stores, NEW r \in Lookups, TakenDown(store, r),
         NEW x, Facts(x), ~x.builtin, x.status = FetchStoreMetadata(store, r).status
  PROVE  riskBand(AnalyzeExtension(x)) \in {"high", "critical"}
<1>1. x.status = "removed"
  BY TakenDownIsRemoved
<1>2. CASE knownBad(x)
  BY <1>2, BadIsCritical
<1>3. CASE ~knownBad(x)
  <2>1. Floor(x) \in {60, 70}
    BY <1>1, <1>3 DEF Floor
  <2>2. AnalyzeExtension(x) \in 60 .. 100
    BY <2>1, FloorHolds DEF Unscored
  <2> QED
    BY <2>2 DEF riskBand
<1> QED
  BY <1>2, <1>3

\* A directive whose name is there already changes nothing: the first of each
\* name is the same (weakCSP).
THEOREM RepeatsAreIgnored ==
  ASSUME NEW Directive, NEW csp \in Seq(Directive), NEW d \in Directive
  PROVE  RepeatChangesNothing(csp, d)
<1> SUFFICES ASSUME d.name \in Names(csp)
             PROVE  weakCSP(Append(csp, d)) <=> weakCSP(csp)
  BY DEF RepeatChangesNothing
<1> DEFINE long == Append(csp, d)
           L == Len(csp)
<1>1. /\ L \in Nat /\ DOMAIN csp = 1 .. L /\ DOMAIN long = 1 .. L + 1
      /\ \A n \in 1 .. L : long[n] = csp[n]
      /\ long[L + 1] = d
  BY AppendProperties
<1> HIDE DEF long
<1>2. PICK m \in 1 .. L : csp[m].name = d.name
  BY <1>1 DEF Names
<1>3. Names(long) = Names(csp)
  <2>1. \A n \in 1 .. L + 1 : n \in 1 .. L \/ n = L + 1
    BY <1>1
  <2>2. \A n \in 1 .. L : n \in 1 .. L + 1
    BY <1>1
  <2>3. ASSUME NEW n \in 1 .. L + 1 PROVE \E k \in 1 .. L : csp[k].name = long[n].name
    BY <1>1, <1>2, <2>1
  <2>4. ASSUME NEW n \in 1 .. L PROVE \E k \in 1 .. L + 1 : long[k].name = csp[n].name
    BY <1>1, <2>2
  <2> QED
    <3>1. ASSUME NEW name \in Names(long) PROVE name \in Names(csp)
      <4>1. PICK n \in 1 .. L + 1 : name = long[n].name
        BY <1>1 DEF Names
      <4>2. PICK k \in 1 .. L : csp[k].name = name
        BY <2>3, <4>1
      <4> QED
        BY <1>1, <4>2 DEF Names
    <3>2. ASSUME NEW name \in Names(csp) PROVE name \in Names(long)
      <4>1. PICK n \in 1 .. L : name = csp[n].name
        BY <1>1 DEF Names
      <4>2. PICK k \in 1 .. L + 1 : long[k].name = name
        BY <2>4, <4>1
      <4> QED
        BY <1>1, <4>2 DEF Names
    <3> QED
      BY <3>1, <3>2
<1>4. ASSUME NEW name \in Names(csp)
      PROVE  FirstOf(long, name) = FirstOf(csp, name)
  <2> DEFINE IsFirst(c, n) == c[n].name = name /\ \A k \in 1 .. (n - 1) : c[k].name # name
  <2>1. PICK j \in 1 .. L : csp[j].name = name /\ \A i \in 1 .. L : csp[i].name = name => j <= i
    <3> DEFINE Of == {n \in 1 .. L : csp[n].name = name}
    <3>1. Of \in SUBSET Nat /\ Of # {}
      BY <1>1 DEF Names
    <3>2. PICK j \in Of : \A i \in Of : j <= i
      <4> HIDE DEF Of
      <4> QED
        BY <3>1, LeastElement
    <3> QED
      BY <3>2
  <2>2. IsFirst(csp, j) /\ j \in DOMAIN csp
    <3>1. \A k \in 1 .. (j - 1) : k \in 1 .. L /\ ~(j <= k)
      BY <1>1
    <3> QED
      BY <1>1, <2>1, <3>1
  <2>3. ASSUME NEW n \in DOMAIN csp, IsFirst(csp, n) PROVE n = j
    <3>1. j <= n
      BY <1>1, <2>1, <2>3
    <3>2. ~(j \in 1 .. (n - 1))
      BY <2>1, <2>3
    <3>3. n \in 1 .. L /\ j \in 1 .. L
      BY <1>1
    <3> QED
      BY <1>1, <3>1, <3>2, <3>3
  <2>4. ASSUME NEW n \in DOMAIN long PROVE IsFirst(long, n) <=> n = j
    <3>1. CASE n = L + 1
      <4>1. j \in 1 .. (n - 1) /\ long[j].name = name /\ n # j
        BY <1>1, <2>1, <3>1
      <4> QED
        BY <4>1
    <3>2. CASE n \in 1 .. L
      <4>1. \A k \in 1 .. (n - 1) : k \in 1 .. L
        BY <1>1, <3>2
      <4>2. IsFirst(long, n) <=> IsFirst(csp, n)
        BY <1>1, <3>2, <4>1
      <4> QED
        BY <1>1, <2>2, <2>3, <3>2, <4>2
    <3> QED
      BY <1>1, <3>1, <3>2
  <2>5. j \in DOMAIN long
    BY <1>1
  <2> HIDE DEF IsFirst
  <2>6. (CHOOSE n \in DOMAIN long : IsFirst(long, n)) = j
    BY <2>4, <2>5
  <2>7. (CHOOSE n \in DOMAIN csp : IsFirst(csp, n)) = j
    BY <2>2, <2>3
  <2>8. FirstOf(long, name) = long[j].sources /\ FirstOf(csp, name) = csp[j].sources
    BY <2>6, <2>7, Zenon DEF FirstOf, IsFirst
  <2> QED
    BY <1>1, <2>8
<1>5. ASSUME NEW S, NEW chain \in Seq(S)
      PROVE  Effective(long, chain) = Effective(csp, chain)
  <2> DEFINE c == CHOOSE n \in DOMAIN chain : chain[n] \in Names(csp)
                    /\ \A k \in 1 .. (n - 1) : chain[k] \notin Names(csp)
  <2>1. CASE \E n \in DOMAIN chain : chain[n] \in Names(csp)
    <3> DEFINE Hits == {n \in DOMAIN chain : chain[n] \in Names(csp)}
    <3>1. Hits \in SUBSET Nat /\ Hits # {} /\ DOMAIN chain = 1 .. Len(chain) /\ Len(chain) \in Nat
      BY <2>1
    <3>2. PICK n \in Hits : \A k \in Hits : n <= k
      <4> HIDE DEF Hits
      <4> QED
        BY <3>1, LeastElement
    <3>3. \A k \in 1 .. (n - 1) : chain[k] \notin Names(csp)
      <4>1. \A k \in 1 .. (n - 1) : k \in DOMAIN chain /\ ~(n <= k)
        BY <3>1
      <4> QED
        BY <3>2, <4>1
    <3>4. chain[c] \in Names(csp)
      BY <3>2, <3>3, Zenon
    <3>5. Effective(csp, chain) = FirstOf(csp, chain[c])
      BY <2>1, Zenon DEF Effective
    <3>6. Effective(long, chain) = FirstOf(long, chain[c])
      BY <1>3, <2>1, Zenon DEF Effective
    <3> QED
      BY <1>4, <3>4, <3>5, <3>6, Zenon
  <2>2. CASE ~\E n \in DOMAIN chain : chain[n] \in Names(csp)
    BY <1>3, <2>2, Zenon DEF Effective
  <2> QED
    BY <2>1, <2>2
<1> DEFINE S == {"script-src", "default-src", "script-src-elem"}
<1>6. /\ <<"script-src", "default-src">> \in Seq(S)
      /\ <<"script-src-elem", "script-src", "default-src">> \in Seq(S)
  <2>1. "script-src" \in S /\ "default-src" \in S /\ "script-src-elem" \in S
    OBVIOUS
  <2>2. \A a, b, c \in S : <<a, b>> \in Seq(S) /\ <<a, b, c>> \in Seq(S)
    <3> HIDE DEF S
    <3> QED
      OBVIOUS
  <2> QED
    BY <2>1, <2>2, Zenon
<1>7. /\ Effective(long, <<"script-src", "default-src">>)
             = Effective(csp, <<"script-src", "default-src">>)
      /\ Effective(long, <<"script-src-elem", "script-src", "default-src">>)
             = Effective(csp, <<"script-src-elem", "script-src", "default-src">>)
  BY <1>5, <1>6
<1> QED
  BY <1>7, Zenon DEF weakCSP, long

LEMMA SmallSets ==
  /\ IsFiniteSet({})
  /\ \A a, b, c : /\ IsFiniteSet({a}) /\ IsFiniteSet({a, b}) /\ IsFiniteSet({a, b, c})
                  /\ \A S \in SUBSET {a, b, c} : IsFiniteSet(S)
<1>1. IsFiniteSet({})
  BY FS_EmptySet
<1>2. ASSUME NEW a, NEW b, NEW c
      PROVE  /\ IsFiniteSet({a}) /\ IsFiniteSet({a, b}) /\ IsFiniteSet({a, b, c})
             /\ \A S \in SUBSET {a, b, c} : IsFiniteSet(S)
  <2>1. IsFiniteSet({a})
    BY FS_Singleton
  <2>2. IsFiniteSet({a, b})
    <3>1. {a, b} = {a} \cup {b}
      OBVIOUS
    <3> QED
      BY <2>1, <3>1, FS_AddElement
  <2>3. IsFiniteSet({a, b, c})
    <3>1. {a, b, c} = {a, b} \cup {c}
      OBVIOUS
    <3> QED
      BY <2>2, <3>1, FS_AddElement
  <2> QED
    BY <2>1, <2>2, <2>3, FS_Subset
<1> QED
  BY <1>1, <1>2

LEMMA PlainIsFacts ==
  /\ Facts(Plain) /\ Manifest(Plain.manifestOf) /\ Manifest(Powerful)
<1>1. /\ "public" \in Text /\ "parsed" \in Text /\ "none" \in Text
      /\ "storage" \in Text /\ "host" \in Text /\ allURLs \in Text
      /\ "debugger" \in Text /\ "cookies" \in Text
  BY Zenon DEF Text
<1> DEFINE empty == <<>>
           p == [permissions |-> {"storage"}, optional |-> {}, patterns |-> {allURLs, "host"},
                 host_permissions |-> {}, matches |-> {}, privacy |-> {}, csp |-> empty]
<1>2. empty \in Seq([name: Text, sources: SUBSET Text])
  OBVIOUS
<1>3. Plain.manifestOf = p
  BY DEF Plain
<1>4. p \in Manifests
  <2> HIDE DEF empty
  <2> QED
    BY <1>1, <1>2 DEF Manifests
<1>5. Manifest(p)
  BY <1>4, SmallSets DEF Manifest
<1>6. Powerful = [p EXCEPT !.permissions = {"debugger", "cookies", allURLs}]
  BY <1>3 DEF Powerful
<1> HIDE DEF p
<1>7. Manifest(Powerful)
  <2> DEFINE more == {"debugger", "cookies", allURLs}
  <2>1. more \in SUBSET Text /\ IsFiniteSet(more)
    BY <1>1, SmallSets
  <2> HIDE DEF more
  <2>2. Powerful \in Manifests /\ Powerful.permissions = more /\ Powerful.optional = p.optional
        /\ Powerful.host_permissions = p.host_permissions /\ Powerful.privacy = p.privacy
    BY <1>5, <1>6, <2>1 DEF Manifest, Manifests, more
  <2> QED
    BY <1>5, <2>1, <2>2 DEF Manifest
<1>8. Facts(Plain)
  <2>1. Plain = [builtin |-> FALSE, blocked |-> FALSE, hits |-> {}, status |-> "public",
          manifest |-> "parsed", publisher |-> "none", installs |-> {},
          users |-> 500, days |-> 100, featured |-> FALSE, mv3 |-> TRUE, hash |-> FALSE,
          rating |-> "none", cvss |-> 0, hosts |-> 9, versions |-> 1, fleet |-> 100,
          name |-> {}, manifestOf |-> p]
    BY Zenon DEF Plain, p
  <2> QED
    BY <1>1, <1>5, <2>1, SmallSets DEF Facts, Manifest
<1> QED
  BY <1>3, <1>5, <1>7, <1>8

LEMMA FactsChanged ==
  ASSUME NEW x, Facts(x)
  PROVE  /\ \A v \in BOOLEAN : Facts([x EXCEPT !.builtin = v]) /\ Facts([x EXCEPT !.blocked = v])
         /\ \A v \in SUBSET Severities : Facts([x EXCEPT !.hits = v])
         /\ \A v \in Text : Facts([x EXCEPT !.manifest = v]) /\ Facts([x EXCEPT !.publisher = v])
         /\ \A v, w \in Text : Facts([x EXCEPT !.status = v, !.manifest = w])
         /\ \A v \in SUBSET [path: Text, chromeos: BOOLEAN] : Facts([x EXCEPT !.installs = v])
         /\ \A v \in Int : Facts([x EXCEPT !.users = v]) /\ Facts([x EXCEPT !.hosts = v])
         /\ \A v \in SUBSET Text : IsFiniteSet(v) => Facts([x EXCEPT !.name = v])
         /\ \A v \in Manifests : Manifest(v) => Facts([x EXCEPT !.manifestOf = v])
<1>1. \A v \in BOOLEAN : Facts([x EXCEPT !.builtin = v]) /\ Facts([x EXCEPT !.blocked = v])
  BY DEF Facts
<1>2. \A v \in SUBSET Severities : Facts([x EXCEPT !.hits = v])
  BY DEF Facts
<1>3. \A v \in Text : Facts([x EXCEPT !.manifest = v]) /\ Facts([x EXCEPT !.publisher = v])
  BY DEF Facts
<1>4. \A v \in SUBSET [path: Text, chromeos: BOOLEAN] : Facts([x EXCEPT !.installs = v])
  BY DEF Facts
<1>5. \A v \in Int : Facts([x EXCEPT !.users = v]) /\ Facts([x EXCEPT !.hosts = v])
  BY DEF Facts
<1>6. \A v \in SUBSET Text : IsFiniteSet(v) => Facts([x EXCEPT !.name = v])
  BY DEF Facts
<1>7. \A v \in Manifests : Manifest(v) => Facts([x EXCEPT !.manifestOf = v])
  BY DEF Facts
<1>8. \A v, w \in Text : Facts([x EXCEPT !.status = v, !.manifest = w])
  BY DEF Facts
<1> QED
  BY <1>1, <1>2, <1>3, <1>4, <1>5, <1>6, <1>7, <1>8

\* What AskFeed, AskCapability, AskPolicy and AskScore ask is among what the
\* theorems are about.
LEMMA AskedOfScore ==
  ASSUME Next
  PROVE  /\ About("feed")' => asked'.feed.rows \in Seq(Rows) /\ asked'.builtin \in BOOLEAN
         /\ About("capability")' => Manifest(asked'.m) /\ asked'.p \in Text
         /\ About("policy")' => asked'.csp \in Seq(Directives) /\ asked'.d \in Directives
         /\ About("score")' => Facts(asked'.x)
<1>0. ASSUME NEW S, NEW k \in Nat
      PROVE  UNION {[1 .. n -> S] : n \in 0 .. k} \subseteq Seq(S)
  <2> SUFFICES ASSUME NEW n \in 0 .. k, NEW q \in [1 .. n -> S] PROVE q \in Seq(S)
    OBVIOUS
  <2>1. n \in Nat
    OBVIOUS
  <2> QED
    BY <2>1, SeqDef
<1>1. ASSUME About("feed")'
      PROVE  asked'.feed.rows \in Seq(Rows) /\ asked'.builtin \in BOOLEAN
  <2>1. PICK rows \in UNION {[1 .. n -> Rows] : n \in 0 .. 3}, ok \in BOOLEAN,
             column \in BOOLEAN, builtin \in BOOLEAN,
             platform \in {"chromium", "firefox"}, store \in {"edge", "firefox", "safari"} :
          asked' = [about |-> "feed", feed |-> [ok |-> ok, column |-> column, rows |-> rows],
                    platform |-> platform, store |-> store, builtin |-> builtin]
    BY <1>1, Asking, Zenon DEF AskFeed, Ask
  <2>2. rows \in Seq(Rows)
    BY <1>0
  <2> QED
    BY <2>1, <2>2
<1>2. ASSUME About("capability")'
      PROVE  Manifest(asked'.m) /\ asked'.p \in Text
  <2> DEFINE csp(eval) == IF eval THEN <<[name |-> "script-src", sources |-> {"unsafe-eval"}]>> ELSE <<>>
             m(permissions, optional, hosts, matches, eval) ==
               [Plain.manifestOf EXCEPT !.permissions = permissions, !.optional = optional,
                  !.host_permissions = hosts, !.matches = matches, !.csp = csp(eval)]
  <2>1. PICK permissions \in SUBSET {"debugger", "storage", allURLs},
             optional \in SUBSET {"debugger", "history", "storage"},
             hosts \in SUBSET {allURLs, "host"}, matches \in SUBSET {allURLs, "host"},
             eval \in BOOLEAN, p \in {"debugger", "storage", allURLs, "page"} :
          asked' = [about |-> "capability", p |-> p,
                    m |-> m(permissions, optional, hosts, matches, eval)]
    BY <1>2, Asking, Zenon DEF AskCapability, Ask
  <2>2. /\ "script-src" \in Text /\ "unsafe-eval" \in Text /\ "storage" \in Text
        /\ "debugger" \in Text /\ "history" \in Text /\ "host" \in Text
        /\ "page" \in Text /\ allURLs \in Text
    BY Zenon DEF Text
  <2>3. csp(eval) \in Seq([name: Text, sources: SUBSET Text])
    <3> DEFINE d == [name |-> "script-src", sources |-> {"unsafe-eval"}]
    <3>1. d \in [name: Text, sources: SUBSET Text]
      BY <2>2
    <3> HIDE DEF d
    <3>2. <<d>> \in Seq([name: Text, sources: SUBSET Text])
          /\ <<>> \in Seq([name: Text, sources: SUBSET Text])
      BY <3>1
    <3> QED
      BY <3>2 DEF d
  <2>4. /\ permissions \in SUBSET Text /\ optional \in SUBSET Text
        /\ hosts \in SUBSET Text /\ matches \in SUBSET Text /\ p \in Text
    BY <2>2
  <2>5. IsFiniteSet(permissions) /\ IsFiniteSet(optional) /\ IsFiniteSet(hosts)
    <3>1. hosts \in SUBSET {allURLs, "host", "host"}
      OBVIOUS
    <3> QED
      BY <3>1, SmallSets
  <2> DEFINE k == m(permissions, optional, hosts, matches, eval)
  <2>6. asked'.m = k /\ asked'.p = p
    BY <2>1
  <2> HIDE DEF csp
  <2>7. Manifest(k)
    <3>1. k \in Manifests
      BY <2>3, <2>4, PlainIsFacts DEF Manifest, Manifests
    <3>2. /\ k.permissions = permissions /\ k.optional = optional
          /\ k.host_permissions = hosts /\ k.privacy = Plain.manifestOf.privacy
      BY PlainIsFacts DEF Manifest, Manifests
    <3> QED
      BY <2>5, <3>1, <3>2, PlainIsFacts DEF Manifest
  <2> QED
    BY <2>4, <2>6, <2>7
<1>3. ASSUME About("policy")'
      PROVE  asked'.csp \in Seq(Directives) /\ asked'.d \in Directives
  <2>1. PICK csp \in UNION {[1 .. n -> Directives] : n \in 0 .. 3}, d \in Directives :
          asked' = [about |-> "policy", csp |-> csp, d |-> d]
    BY <1>3, Asking, Zenon DEF AskPolicy, Ask
  <2>2. csp \in Seq(Directives)
    BY <1>0
  <2> QED
    BY <2>1, <2>2
<1>4. ASSUME About("score")'
      PROVE  Facts(asked'.x)
  <2>1. PICK builtin \in BOOLEAN, blocked \in BOOLEAN, powerful \in BOOLEAN,
             hits \in {{}, {"listed"}, {"unwanted"}}, manifest \in {"parsed", "error"},
             publisher \in {"none", "badge", "known"},
             installs \in {{Store}, {Store, OnChromeOS}, {Store, Elsewhere},
                           {Store, Unreported}, {OnChromeOS}},
             users \in UserCounts, hosts \in {1, 2, 9},
             name \in {{}, {"typosquat"}, {"homoglyph", "path", "affix"}} :
          asked' = [about |-> "score",
                    x |-> [Plain EXCEPT !.builtin = builtin, !.blocked = blocked, !.hits = hits,
                             !.manifest = manifest, !.publisher = publisher,
                             !.installs = installs, !.users = users, !.hosts = hosts,
                             !.name = name,
                             !.manifestOf = IF powerful THEN Powerful ELSE @]]
    BY <1>4, Asking, Zenon DEF AskScore, Ask
  <2>2. /\ "none" \in Text /\ "badge" \in Text /\ "known" \in Text /\ "parsed" \in Text
        /\ "error" \in Text /\ "store" \in Text /\ "other" \in Text /\ "typosquat" \in Text
        /\ "homoglyph" \in Text /\ "path" \in Text /\ "affix" \in Text
    BY Zenon DEF Text
  <2>3. /\ manifest \in Text /\ publisher \in Text /\ name \in SUBSET Text
        /\ users \in Int /\ hosts \in Int
    <3>1. manifest \in Text /\ publisher \in Text /\ name \in SUBSET Text
      BY <2>2
    <3>2. users \in Int /\ hosts \in Int
      BY DEF UserCounts
    <3> QED
      BY <3>1, <3>2
  <2>4. installs \in SUBSET [path: Text, chromeos: BOOLEAN]
    <3>1. /\ Store \in [path: Text, chromeos: BOOLEAN]
          /\ OnChromeOS \in [path: Text, chromeos: BOOLEAN]
          /\ Elsewhere \in [path: Text, chromeos: BOOLEAN]
          /\ Unreported \in [path: Text, chromeos: BOOLEAN]
      BY <2>2 DEF Store, OnChromeOS, Elsewhere, Unreported
    <3> QED
      BY <3>1
  <2>5. hits \in SUBSET Severities
    BY DEF Severities
  <2>6. IsFiniteSet(name)
    BY SmallSets
  <2> DEFINE m == IF powerful THEN Powerful ELSE Plain.manifestOf
  <2>7. Manifest(m)
    BY PlainIsFacts
  <2>8. m \in Manifests
    BY <2>7 DEF Manifest
  <2> DEFINE a == [Plain EXCEPT !.builtin = builtin]
             b == [a EXCEPT !.blocked = blocked]
             c == [b EXCEPT !.hits = hits]
             d == [c EXCEPT !.manifest = manifest]
             e == [d EXCEPT !.publisher = publisher]
             f == [e EXCEPT !.installs = installs]
             g == [f EXCEPT !.users = users]
             h == [g EXCEPT !.hosts = hosts]
             i == [h EXCEPT !.name = name]
             x == [i EXCEPT !.manifestOf = m]
  <2>9. asked'.x = [Plain EXCEPT !.builtin = builtin, !.blocked = blocked, !.hits = hits,
                             !.manifest = manifest, !.publisher = publisher,
                             !.installs = installs, !.users = users, !.hosts = hosts,
                             !.name = name, !.manifestOf = m]
    BY <2>1
  <2>10. asked'.x = x
    BY <2>9, Zenon
  <2> HIDE DEF m
  <2>11. Facts(a)
    BY PlainIsFacts, FactsChanged, Zenon
  <2> HIDE DEF a
  <2>12. Facts(b)
    BY <2>11, FactsChanged, Zenon
  <2> HIDE DEF b
  <2>13. Facts(c)
    BY <2>5, <2>12, FactsChanged, Zenon
  <2> HIDE DEF c
  <2>14. Facts(d)
    BY <2>3, <2>13, FactsChanged, Zenon
  <2> HIDE DEF d
  <2>15. Facts(e)
    BY <2>3, <2>14, FactsChanged, Zenon
  <2> HIDE DEF e
  <2>16. Facts(f)
    BY <2>4, <2>15, FactsChanged, Zenon
  <2> HIDE DEF f
  <2>17. Facts(g)
    BY <2>3, <2>16, FactsChanged, Zenon
  <2> HIDE DEF g
  <2>18. Facts(h)
    BY <2>3, <2>17, FactsChanged, Zenon
  <2> HIDE DEF h
  <2>19. Facts(i)
    BY <2>3, <2>6, <2>18, FactsChanged, Zenon
  <2> HIDE DEF i
  <2>20. Facts(x)
    BY <2>7, <2>8, <2>19, FactsChanged, Zenon
  <2> QED
    BY <2>10, <2>20, Zenon
<1> QED
  BY <1>1, <1>2, <1>3, <1>4

\* More against an extension never makes its score better: whatever is asked of
\* a feed, a manifest, a policy or the facts about an item (FetchThreatFeed,
\* MatchThreatFeeds, capability, weakCSP, AnalyzeExtension).
THEOREM ScoreNeverFalls == Spec => []ScoreRises
<1>1. Init => ScoreRises
  BY DEF Init, ScoreRises, ListedIsCritical, MoreIsMore, FirstDirective, HitsCount,
         StatusCounts, About
<1>2. ASSUME Next PROVE ScoreRises'
  <2>1. ListedIsCritical'
    <3> DEFINE feed == asked'.feed
               rows == feed.rows
               got == FetchThreatFeed(feed)
               Malicious(n) == /\ rows[n] = [kind |-> "good", id |-> "a", severity |-> "malicious"]
                               /\ \A k \in (n + 1) .. Len(rows) :
                                    rows[k].kind = "good" => rows[k].id # "a"
               hits == MatchThreatFeeds([f |-> [platform |-> asked'.platform,
                                                entries |-> got.entries]], asked'.store, "a")
               x == [Plain EXCEPT !.builtin = asked'.builtin, !.hits = hits]
    <3> SUFFICES ASSUME About("feed")', got.result = "ok", \E n \in DOMAIN rows : Malicious(n),
                        asked'.store \in feedPlatforms[asked'.platform]
                 PROVE  riskBand(AnalyzeExtension(x)) = "critical"
      BY Zenon DEF ListedIsCritical
    <3>1. rows \in Seq(Rows) /\ asked'.builtin \in BOOLEAN
      BY <1>2, AskedOfScore
    <3>2. PICK n \in DOMAIN rows : Malicious(n)
      OBVIOUS
    <3>3. hits = {"malicious"}
      BY <3>1, <3>2, MaliciousIsHit
    <3>4. hits \in SUBSET Severities
      BY <3>3 DEF Severities
    <3> HIDE DEF hits
    <3>5. Facts(x)
      <4> DEFINE y == [Plain EXCEPT !.builtin = asked'.builtin]
      <4>1. Facts(y)
        BY <3>1, PlainIsFacts, FactsChanged, Zenon
      <4>2. x = [y EXCEPT !.hits = hits]
        BY Zenon
      <4> HIDE DEF y, x
      <4> QED
        BY <3>4, <4>1, <4>2, FactsChanged, Zenon
    <3>6. x.hits = hits
      BY PlainIsFacts DEF Facts
    <3> HIDE DEF x
    <3>7. knownBad(x)
      BY <3>3, <3>6 DEF knownBad
    <3> QED
      BY <3>5, <3>7, BadIsCritical
  <2>2. MoreIsMore'
    <3> SUFFICES ASSUME About("capability")' PROVE CapabilityMonotone(asked'.m, asked'.p)
      BY Zenon DEF MoreIsMore
    <3> QED
      BY <1>2, AskedOfScore, MoreAsked
  <2>3. FirstDirective'
    <3> SUFFICES ASSUME About("policy")' PROVE RepeatChangesNothing(asked'.csp, asked'.d)
      BY Zenon DEF FirstDirective
    <3> QED
      BY <1>2, AskedOfScore, RepeatsAreIgnored
  <2>4. HitsCount'
    <3> SUFFICES ASSUME About("score")' PROVE HitNeverLowers(asked'.x)
      BY Zenon DEF HitsCount
    <3> QED
      BY <1>2, AskedOfScore, HitsNeverHide
  <2>5. StatusCounts'
    <3> SUFFICES ASSUME About("score")' PROVE WorseNeverLowers(asked'.x)
      BY Zenon DEF StatusCounts
    <3> QED
      BY <1>2, AskedOfScore, WorseAnswersCount
  <2> QED
    BY <2>1, <2>2, <2>3, <2>4, <2>5 DEF ScoreRises
<1>3. ScoreRises /\ [Next]_asked => ScoreRises'
  <2>1. ScoreRises /\ UNCHANGED asked => ScoreRises'
    BY DEF ScoreRises, ListedIsCritical, MoreIsMore, FirstDirective, HitsCount,
           StatusCounts, About
  <2> QED
    BY <1>2, <2>1
<1> QED
  BY <1>1, <1>3, PTL DEF Spec

\* A source that fails, one that has nothing against an item, and one that took
\* it down are told from one another: the parts of FailuresTold for all lookups,
\* and so for those asked about (FetchStoreMetadata, AnalyzeExtension).
THEOREM FailuresAreTold == Spec => []FailuresTold
<1>1. Init => FailuresTold
  BY DEF Init, FailuresTold, Misses, Limits, Uninspected, TakenDownIsHigh, About
<1>2. FailuresTold /\ [Next]_asked => FailuresTold'
  <2> SUFFICES ASSUME Next, About("lookup")'
               PROVE  FailuresTold'
    BY DEF FailuresTold, Misses, Limits, Uninspected, TakenDownIsHigh, About
  <2> DEFINE store == asked'.store
             r == asked'.r
             m == FetchStoreMetadata(store, r)
             x == [Plain EXCEPT !.status = m.status, !.manifest = m.manifest]
  <2>1. store \in Stores /\ r \in Lookups
    BY AskedLookups
  <2>2. Misses' /\ Limits'
    BY <2>1, MissesAreConfirmed DEF Misses, Limits
  <2>3. /\ x.blocked \in BOOLEAN /\ x.cvss \in Int
        /\ x.status = m.status /\ x.manifest = m.manifest
    BY DEF Plain
  <2>5. TakenDown(store, r) => riskBand(AnalyzeExtension(x)) \in {"high", "critical"}
    <3> SUFFICES ASSUME TakenDown(store, r)
                 PROVE  riskBand(AnalyzeExtension(x)) \in {"high", "critical"}
      OBVIOUS
    <3>1. m.status = "removed" /\ m.manifest \in {"none", "cached", "unavailable", "parsed", "error"}
      BY <2>1, TakenDownIsRemoved
    <3>2. m.status \in Text /\ m.manifest \in Text
      BY <3>1 DEF Text
    <3> HIDE DEF m
    <3>3. Facts(x)
      BY <3>2, PlainIsFacts, FactsChanged, Zenon
    <3>4. ~x.builtin
      BY DEF Plain
    <3> HIDE DEF x
    <3> QED
      BY <2>1, <2>3, <3>3, <3>4, TakenDownIsFlagged DEF m
  <2>6. TakenDownIsHigh'
    BY <2>5, Zenon DEF TakenDownIsHigh, x, m, store, r
  <2> HIDE DEF x
  <2>4. ASSUME store # "safari", ~(store = "edge" /\ r.own = "ok"),
               Kept(m), m.manifest \notin {"parsed", "cached"}
        PROVE  threatScore(x) > 0
    BY <2>1, <2>3, <2>4, NothingUninspected
  <2>7. Uninspected'
    BY <2>4 DEF Uninspected, x
  <2> QED
    BY <2>2, <2>6, <2>7 DEF FailuresTold
<1> QED
  BY <1>1, <1>2, PTL DEF Spec
-----------------------------------------------------------------------------
(***************************************************************************)
(* Trust.                                                                  *)
(***************************************************************************)

\* A known publisher gives nothing to an item that one host has from elsewhere
\* (storeInstallVerified, reputable).
THEOREM UnpackedIsNotTrusted ==
  ASSUME NEW x, Facts(x)
  PROVE  UnpackedNotTrusted(x)
<1> SUFFICES ASSUME NEW i \in x.installs, i.path = "other" \/ (i.path = "none" /\ ~i.chromeos)
             PROVE  AnalyzeExtension([x EXCEPT !.publisher = "known"])
                      = AnalyzeExtension([x EXCEPT !.publisher = "none"])
  BY DEF UnpackedNotTrusted
<1> DEFINE y == [x EXCEPT !.publisher = "known"]
           z == [x EXCEPT !.publisher = "none"]
<1>1. ~storeInstallVerified(x.installs)
  BY DEF storeInstallVerified
<1>2. /\ y.publisher = "known" /\ z.publisher = "none"
      /\ y.installs = x.installs /\ z.installs = x.installs
      /\ y.manifestOf = z.manifestOf /\ y.users = z.users /\ y.days = z.days
      /\ y.featured = z.featured /\ y.mv3 = z.mv3 /\ y.hash = z.hash /\ y.rating = z.rating
      /\ y.hosts = z.hosts /\ y.cvss = z.cvss /\ y.versions = z.versions /\ y.fleet = z.fleet
      /\ y.name = z.name /\ y.manifest = z.manifest /\ y.builtin = z.builtin
      /\ y.status = z.status /\ y.blocked = z.blocked /\ y.hits = z.hits
  BY DEF Facts
<1> HIDE DEF y, z
<1>3. ~reputable(y) /\ ~reputable(z)
  BY <1>1, <1>2 DEF reputable
<1>4. ~vouched(y) /\ ~vouched(z)
  BY <1>2, <1>3 DEF vouched
<1>5. trustScore(y) = trustScore(z)
  <2>1. TrustOf(y) = TrustOf(z)
    BY <1>2, <1>3 DEF TrustOf
  <2> QED
    BY <1>2, <2>1, TrustIs
<1>6. Threat(y) = Threat(z)
  <2>1. threatScore(y) = threatScore(z)
    BY <1>2 DEF threatScore
  <2> QED
    BY <1>2, <2>1 DEF Threat
<1>7. nameAnomalySignals(y) = nameAnomalySignals(z)
  BY <1>2, <1>4 DEF nameAnomalySignals
<1>8. rarity(y) = rarity(z) /\ exposureScore(y) = exposureScore(z)
  BY <1>2, <1>3 DEF rarity, exposureScore
<1>9. Weighted(y) = Weighted(z)
  BY <1>2, <1>5, <1>6, <1>7, <1>8, Zenon DEF Weighted
<1>10. Floor(y) = Floor(z) /\ Unscored(y) = Unscored(z)
  BY <1>2, <1>7 DEF Floor, Unscored, knownBad
<1>11. AnalyzeExtension(y) = AnalyzeExtension(z)
  BY <1>9, <1>10, ScoreIs
<1> QED
  BY <1>11 DEF y, z

\* A sequence without one of its elements.
LEMMA WithoutOne ==
  ASSUME NEW S, NEW s \in Seq(S), NEW n \in 1 .. Len(s)
  PROVE  /\ DOMAIN Without(s, n) = 1 .. (Len(s) - 1)
         /\ \A k \in 1 .. (Len(s) - 1) : /\ k < n => Without(s, n)[k] = s[k]
                                         /\ k >= n => Without(s, n)[k] = s[k + 1]
BY DEF Without

LEMMA MinIsLeast ==
  ASSUME NEW P \in SUBSET Nat, P # {}
  PROVE  Min(P) \in P /\ \A k \in P : Min(P) <= k
<1>1. \E m \in P : \A k \in P : m <= k
  BY LeastElement
<1> QED
  BY <1>1 DEF Min

\* From where they part the longer goes on as the shorter, one place later.
Skips(parts, s, l) == parts = {} \/ \A n \in Min(parts) .. Len(s) : s[n] = l[n + 1]
\* The shorter is the longer without an element.
Shortened(l, s) == \E n \in DOMAIN l : Without(l, n) = s

\* Skipping an element of the longer where the two part finds the one it has
\* over the shorter.
LEMMA SkipOne ==
  ASSUME NEW S, NEW s \in Seq(S), NEW l \in Seq(S), Len(l) = Len(s) + 1,
         NEW parts, parts = {n \in DOMAIN s : s[n] # l[n]}
  PROVE  Skips(parts, s, l) <=> Shortened(l, s)
<1>1. /\ Len(s) \in Nat /\ DOMAIN s = 1 .. Len(s) /\ DOMAIN l = 1 .. (Len(s) + 1)
      /\ (Len(s) + 1) - 1 = Len(s) /\ Len(l) = Len(s) + 1
  OBVIOUS
<1>2. ASSUME NEW n \in 1 .. (Len(s) + 1)
      PROVE  Without(l, n) = s <=> \A k \in 1 .. Len(s) : /\ k < n => s[k] = l[k]
                                                          /\ k >= n => s[k] = l[k + 1]
  <2> DEFINE w == Without(l, n)
  <2>1. /\ DOMAIN w = 1 .. Len(s)
        /\ \A k \in 1 .. Len(s) : (k < n => w[k] = l[k]) /\ (k >= n => w[k] = l[k + 1])
    BY <1>1, WithoutOne
  <2>2. w = [k \in 1 .. Len(s) |-> w[k]] /\ s = [k \in 1 .. Len(s) |-> s[k]]
    BY <1>1, <2>1 DEF Without
  <2>3. \A k \in 1 .. Len(s) : k < n \/ k >= n
    BY <1>1
  <2> HIDE DEF w
  <2>4. w = s <=> \A k \in 1 .. Len(s) : w[k] = s[k]
    BY <2>2
  <2> QED
    BY <2>1, <2>3, <2>4 DEF w
<1>3. parts \in SUBSET Nat /\ parts \subseteq 1 .. Len(s)
  BY <1>1
<1>4. ASSUME parts = {} PROVE \E n \in DOMAIN l : Without(l, n) = s
  <2>1. Len(s) + 1 \in 1 .. (Len(s) + 1) /\ \A k \in 1 .. Len(s) : k < Len(s) + 1 /\ ~(k >= Len(s) + 1)
    BY <1>1
  <2>2. \A k \in 1 .. Len(s) : s[k] = l[k]
    BY <1>1, <1>4
  <2>3. Without(l, Len(s) + 1) = s
    BY <1>2, <2>1, <2>2
  <2> QED
    BY <1>1, <2>1, <2>3
<1>5. ASSUME parts # {}, \A n \in Min(parts) .. Len(s) : s[n] = l[n + 1]
      PROVE  \E n \in DOMAIN l : Without(l, n) = s
  <2> DEFINE m == Min(parts)
  <2>1. m \in parts /\ \A k \in parts : m <= k
    BY <1>3, <1>5, MinIsLeast
  <2> HIDE DEF m
  <2>2. m \in 1 .. Len(s) /\ m \in 1 .. (Len(s) + 1)
    BY <1>1, <1>3, <2>1
  <2>3. ASSUME NEW k \in 1 .. Len(s), k < m PROVE s[k] = l[k]
    <3>1. k \notin parts
      BY <1>1, <2>1, <2>2, <2>3
    <3> QED
      BY <1>1, <3>1
  <2>4. ASSUME NEW k \in 1 .. Len(s), k >= m PROVE s[k] = l[k + 1]
    <3>1. k \in m .. Len(s)
      BY <2>2, <2>4
    <3> QED
      BY <1>5, <3>1 DEF m
  <2>5. Without(l, m) = s
    BY <1>2, <2>2, <2>3, <2>4
  <2> QED
    BY <1>1, <2>2, <2>5
<1>6. ASSUME NEW n \in DOMAIN l, Without(l, n) = s, parts # {}
      PROVE  \A k \in Min(parts) .. Len(s) : s[k] = l[k + 1]
  <2> DEFINE m == Min(parts)
  <2>1. m \in parts
    BY <1>3, <1>6, MinIsLeast
  <2> HIDE DEF m
  <2>2. n \in 1 .. (Len(s) + 1) /\ m \in 1 .. Len(s) /\ s[m] # l[m]
    BY <1>1, <1>3, <2>1
  <2>3. \A k \in 1 .. Len(s) : (k < n => s[k] = l[k]) /\ (k >= n => s[k] = l[k + 1])
    BY <1>2, <1>6, <2>2
  <2>4. ~(m < n)
    BY <2>2, <2>3
  <2>5. \A k \in m .. Len(s) : k \in 1 .. Len(s) /\ k >= n
    BY <1>1, <2>2, <2>4
  <2> QED
    BY <2>3, <2>5 DEF m
<1> QED
  BY <1>4, <1>5, <1>6 DEF Skips, Shortened

\* The places where two texts of one length differ are few enough to be one
\* edit (editDistanceAtMostOne).
FewPlaces(a, b, d) ==
  \/ Cardinality(d) <= 1
  \/ \E n \in d : d = {n, n + 1} /\ a[n] = b[n + 1] /\ a[n + 1] = b[n]
\* One edit makes one of two texts of one length of the other.
OnePlace(a, b) ==
  \/ a = b
  \/ \E n \in DOMAIN a : Without(a, n) = Without(b, n)
  \/ \E n \in 1 .. (Len(a) - 1) : Swapped(a, n) = b

\* Sequences of one length are one edit apart if they differ in one place, or in
\* two neighbours that are swapped.
LEMMA EditInPlace ==
  ASSUME NEW S, NEW a \in Seq(S), NEW b \in Seq(S), Len(a) = Len(b),
         NEW diffs, diffs = {n \in DOMAIN a : a[n] # b[n]}
  PROVE  FewPlaces(a, b, diffs) <=> OnePlace(a, b)
<1> DEFINE L == Len(a)
<1>1. /\ L \in Nat /\ DOMAIN a = 1 .. L /\ DOMAIN b = 1 .. L /\ Len(b) = L
      /\ a = [k \in 1 .. L |-> a[k]] /\ b = [k \in 1 .. L |-> b[k]]
  OBVIOUS
<1>2. diffs \subseteq 1 .. L /\ \A k \in 1 .. L : k \in diffs <=> a[k] # b[k]
  BY <1>1
<1> HIDE DEF L
<1>3. IsFiniteSet(diffs) /\ Cardinality(diffs) \in Nat
  <2>1. IsFiniteSet(1 .. L)
    <3>1. 1 \in Int /\ L \in Int
      BY <1>1
    <3> QED
      BY <3>1, FS_Interval
  <2> QED
    BY <1>2, <2>1, FS_Subset, FS_CardinalityType
<1>4. a = b <=> diffs = {}
  BY <1>1, <1>2
<1>5. ASSUME NEW n \in 1 .. L
      PROVE  Without(a, n) = Without(b, n) <=> diffs \subseteq {n}
  <2> DEFINE v == Without(a, n)
             w == Without(b, n)
  <2>1. /\ DOMAIN v = 1 .. (L - 1) /\ DOMAIN w = 1 .. (L - 1)
        /\ \A k \in 1 .. (L - 1) : /\ k < n => v[k] = a[k] /\ w[k] = b[k]
                                   /\ k >= n => v[k] = a[k + 1] /\ w[k] = b[k + 1]
    <3>1. n \in 1 .. Len(a) /\ n \in 1 .. Len(b) /\ Len(a) = L /\ Len(b) = L
      BY <1>1 DEF L
    <3>2. /\ DOMAIN v = 1 .. (L - 1)
          /\ \A k \in 1 .. (L - 1) : (k < n => v[k] = a[k]) /\ (k >= n => v[k] = a[k + 1])
      BY <3>1, WithoutOne
    <3>3. /\ DOMAIN w = 1 .. (L - 1)
          /\ \A k \in 1 .. (L - 1) : (k < n => w[k] = b[k]) /\ (k >= n => w[k] = b[k + 1])
      BY <3>1, WithoutOne
    <3> HIDE DEF v, w
    <3> QED
      BY <3>2, <3>3
  <2>2. v = [k \in 1 .. (L - 1) |-> v[k]] /\ w = [k \in 1 .. (L - 1) |-> w[k]]
    BY <2>1, <1>1 DEF Without, L
  <2> HIDE DEF v, w
  <2>3. ASSUME v = w, NEW k \in 1 .. L, k # n PROVE a[k] = b[k]
    <3>1. CASE k < n
      <4>1. k \in 1 .. (L - 1)
        BY <1>1, <3>1
      <4> QED
        BY <2>1, <2>3, <3>1, <4>1
    <3>2. CASE k > n
      <4>1. k - 1 \in 1 .. (L - 1) /\ k - 1 >= n /\ (k - 1) + 1 = k
        BY <1>1, <3>2
      <4> QED
        BY <2>1, <2>3, <4>1
    <3> QED
      BY <1>1, <2>3, <3>1, <3>2
  <2>4. ASSUME diffs \subseteq {n}, NEW k \in 1 .. (L - 1) PROVE v[k] = w[k]
    <3>1. CASE k < n
      <4>1. k \in 1 .. L /\ k \notin diffs
        BY <1>1, <2>4, <3>1
      <4> QED
        BY <1>2, <2>1, <3>1, <4>1
    <3>2. CASE k >= n
      <4>1. k + 1 \in 1 .. L /\ k + 1 \notin diffs
        BY <1>1, <2>4, <3>2
      <4> QED
        BY <1>2, <2>1, <3>2, <4>1
    <3> QED
      BY <1>1, <3>1, <3>2
  <2>5. v = w => diffs \subseteq {n}
    BY <1>2, <2>3
  <2>6. diffs \subseteq {n} => v = w
    BY <2>2, <2>4
  <2> QED
    BY <2>5, <2>6 DEF v, w
<1>6. ASSUME NEW n \in 1 .. (L - 1)
      PROVE  Swapped(a, n) = b <=>
               /\ a[n] = b[n + 1] /\ a[n + 1] = b[n]
               /\ diffs \subseteq {n, n + 1}
  <2> DEFINE w == Swapped(a, n)
  <2>1. n \in 1 .. L /\ n + 1 \in 1 .. L /\ n # n + 1
    BY <1>1
  <2>2. /\ w = [k \in 1 .. L |-> w[k]]
        /\ w[n + 1] = a[n] /\ w[n] = a[n + 1]
        /\ \A k \in 1 .. L : k \notin {n, n + 1} => w[k] = a[k]
    BY <1>1, <2>1 DEF Swapped
  <2> HIDE DEF w
  <2>3. w = b <=> \A k \in 1 .. L : w[k] = b[k]
    BY <1>1, <2>2
  <2>4. ASSUME w = b PROVE a[n] = b[n + 1] /\ a[n + 1] = b[n] /\ diffs \subseteq {n, n + 1}
    BY <1>2, <2>2, <2>4
  <2>5. ASSUME a[n] = b[n + 1], a[n + 1] = b[n], diffs \subseteq {n, n + 1} PROVE w = b
    <3> SUFFICES ASSUME NEW k \in 1 .. L PROVE w[k] = b[k]
      BY <2>3
    <3>1. CASE k \in {n, n + 1}
      BY <2>2, <2>5, <3>1
    <3>2. CASE k \notin {n, n + 1}
      BY <1>2, <2>2, <2>5, <3>2
    <3> QED
      BY <3>1, <3>2
  <2> QED
    BY <2>4, <2>5 DEF w
<1>7. ASSUME Cardinality(diffs) <= 1
      PROVE  a = b \/ \E n \in DOMAIN a : Without(a, n) = Without(b, n)
  <2>1. CASE Cardinality(diffs) = 0
    BY <1>3, <1>4, <2>1, FS_EmptySet
  <2>2. CASE Cardinality(diffs) = 1
    <3>1. PICK n : diffs = {n}
      BY <1>3, <2>2, FS_Singleton
    <3>2. n \in 1 .. L
      BY <1>2, <3>1
    <3> QED
      BY <1>1, <1>5, <3>1, <3>2
  <2> QED
    BY <1>3, <1>7, <2>1, <2>2
<1>8. ASSUME NEW n \in diffs, diffs = {n, n + 1}, a[n] = b[n + 1], a[n + 1] = b[n]
      PROVE  \E m \in 1 .. (L - 1) : Swapped(a, m) = b
  <2>1. n \in 1 .. (L - 1)
    <3>1. n \in 1 .. L /\ n + 1 \in 1 .. L
      BY <1>2, <1>8
    <3> QED
      BY <1>1, <3>1
  <2> QED
    BY <1>6, <1>8, <2>1
<1>9. ASSUME NEW n, diffs \subseteq {n} PROVE Cardinality(diffs) <= 1
  <2>1. IsFiniteSet({n}) /\ Cardinality({n}) = 1
    BY FS_Singleton
  <2> QED
    BY <1>9, <2>1, FS_Subset
<1>10. a = b => Cardinality(diffs) <= 1
  BY <1>4, <1>9
<1>11. ASSUME NEW n \in 1 .. (L - 1), Swapped(a, n) = b
       PROVE  \/ Cardinality(diffs) <= 1
              \/ \E m \in diffs : diffs = {m, m + 1} /\ a[m] = b[m + 1] /\ a[m + 1] = b[m]
  <2>1. a[n] = b[n + 1] /\ a[n + 1] = b[n] /\ diffs \subseteq {n, n + 1}
    BY <1>6, <1>11
  <2>2. n \in 1 .. L /\ n + 1 \in 1 .. L
    BY <1>1
  <2>3. n \in diffs <=> n + 1 \in diffs
    BY <1>2, <2>1, <2>2
  <2>4. CASE n \in diffs
    BY <2>1, <2>3, <2>4
  <2>5. CASE n \notin diffs
    BY <1>9, <2>1, <2>3, <2>5
  <2> QED
    BY <2>4, <2>5
<1>12. \A n \in DOMAIN a : Without(a, n) = Without(b, n) => Cardinality(diffs) <= 1
  BY <1>1, <1>5, <1>9
<1> QED
  BY <1>7, <1>8, <1>10, <1>11, <1>12 DEF L, FewPlaces, OnePlace

\* The typosquat test is the edit distance it says, of any two names
\* (editDistanceAtMostOne).
THEOREM TyposAreEdits ==
  ASSUME NEW S, NEW a \in Seq(S), NEW b \in Seq(S)
  PROVE  EditDistance(a, b)
<1> DEFINE Shorter == IF Len(a) < Len(b) THEN a ELSE b
           Longer == IF Len(a) < Len(b) THEN b ELSE a
           diffs == {n \in DOMAIN a : a[n] # b[n]}
           parts == {n \in DOMAIN Shorter : Shorter[n] # Longer[n]}
           Same == \/ Cardinality(diffs) <= 1
                   \/ \E n \in diffs : diffs = {n, n + 1} /\ a[n] = b[n + 1] /\ a[n + 1] = b[n]
           Skip == parts = {} \/ \A n \in Min(parts) .. Len(Shorter) : Shorter[n] = Longer[n + 1]
<1>1. /\ Len(a) \in Nat /\ Len(b) \in Nat
      /\ DOMAIN a = 1 .. Len(a) /\ DOMAIN b = 1 .. Len(b)
  OBVIOUS
<1>2. editDistanceAtMostOne(a, b) =
        CASE Len(a) = Len(b) -> Same [] Len(Longer) = Len(Shorter) + 1 -> Skip [] OTHER -> FALSE
  BY Zenon DEF editDistanceAtMostOne
<1>3. /\ \A n \in DOMAIN b : DOMAIN Without(b, n) = 1 .. (Len(b) - 1)
      /\ \A n \in DOMAIN a : DOMAIN Without(a, n) = 1 .. (Len(a) - 1)
      /\ \A n \in 1 .. (Len(a) - 1) : DOMAIN Swapped(a, n) = 1 .. Len(a)
  BY <1>1 DEF Without, Swapped
<1>4. ASSUME NEW i \in Nat, NEW j \in Nat, 1 .. i = 1 .. j PROVE i = j
  <2>1. i \in 1 .. i \/ i = 0
    OBVIOUS
  <2>2. j \in 1 .. j \/ j = 0
    OBVIOUS
  <2> QED
    BY <1>4, <2>1, <2>2
<1>5. /\ \A n \in DOMAIN b : Len(b) - 1 \in Nat
      /\ \A n \in DOMAIN a : Len(a) - 1 \in Nat
  BY <1>1
<1>6. /\ \A n \in DOMAIN b : Without(b, n) = a => Len(b) - 1 = Len(a)
      /\ \A n \in DOMAIN a : Without(a, n) = b => Len(a) - 1 = Len(b)
      /\ \A n \in 1 .. (Len(a) - 1) : Swapped(a, n) = b => Len(a) = Len(b)
  <2>1. ASSUME NEW n \in DOMAIN b, Without(b, n) = a PROVE Len(b) - 1 = Len(a)
    BY <1>1, <1>3, <1>4, <1>5, <2>1
  <2>2. ASSUME NEW n \in DOMAIN a, Without(a, n) = b PROVE Len(a) - 1 = Len(b)
    BY <1>1, <1>3, <1>4, <1>5, <2>2
  <2>3. ASSUME NEW n \in 1 .. (Len(a) - 1), Swapped(a, n) = b PROVE Len(a) = Len(b)
    BY <1>1, <1>3, <1>4, <2>3
  <2> QED
    BY <2>1, <2>2, <2>3
<1> DEFINE Edited == \/ a = b
                     \/ \E n \in DOMAIN b : Without(b, n) = a
                     \/ \E n \in DOMAIN a : Without(a, n) = b
                     \/ Len(a) = Len(b) /\ \E n \in DOMAIN a : Without(a, n) = Without(b, n)
                     \/ \E n \in 1 .. (Len(a) - 1) : Swapped(a, n) = b
<1>len. ASSUME NEW i \in Nat, NEW j \in Nat
        PROVE  /\ i = j => j - 1 # i /\ i - 1 # j /\ i # j + 1 /\ j # i + 1
               /\ i < j => i # j /\ i - 1 # j
               /\ ~(i < j) /\ i # j => j - 1 # i
               /\ i < j /\ j # i + 1 => j - 1 # i /\ i - 1 # j
               /\ ~(i < j) /\ i # j + 1 => i = j \/ (j - 1 # i /\ i - 1 # j)
  OBVIOUS
<1>lens. /\ Len(a) = Len(b) => /\ Len(b) - 1 # Len(a) /\ Len(a) - 1 # Len(b)
                               /\ Len(a) # Len(b) + 1 /\ Len(b) # Len(a) + 1
         /\ Len(a) < Len(b) => Len(a) # Len(b) /\ Len(a) - 1 # Len(b)
         /\ ~(Len(a) < Len(b)) /\ Len(a) # Len(b) => Len(b) - 1 # Len(a)
         /\ Len(a) < Len(b) /\ Len(b) # Len(a) + 1 => Len(b) - 1 # Len(a) /\ Len(a) - 1 # Len(b)
         /\ ~(Len(a) < Len(b)) /\ Len(a) # Len(b) + 1
              => Len(a) = Len(b) \/ (Len(b) - 1 # Len(a) /\ Len(a) - 1 # Len(b))
  <2>1. Len(a) \in Nat /\ Len(b) \in Nat
    BY <1>1
  <2> QED
    BY <1>len, <2>1, Zenon
<1>way. \/ Len(a) < Len(b) /\ Shorter = a /\ Longer = b
        \/ ~(Len(a) < Len(b)) /\ Shorter = b /\ Longer = a
  BY Zenon
<1>7. CASE Len(a) = Len(b)
  <2>1. Same <=> \/ a = b
                 \/ \E n \in DOMAIN a : Without(a, n) = Without(b, n)
                 \/ \E n \in 1 .. (Len(a) - 1) : Swapped(a, n) = b
    <3>1. FewPlaces(a, b, diffs) <=> OnePlace(a, b)
      <4>1. a \in Seq(S) /\ b \in Seq(S) /\ Len(a) = Len(b)
        BY <1>7
      <4>2. diffs = {n \in DOMAIN a : a[n] # b[n]}
        BY Zenon
      <4> HIDE DEF diffs
      <4> QED
        BY <4>1, <4>2, EditInPlace, Zenon
    <3> QED
      BY <3>1, Zenon DEF FewPlaces, OnePlace
  <2>2. /\ ~\E n \in DOMAIN b : Without(b, n) = a
        /\ ~\E n \in DOMAIN a : Without(a, n) = b
    BY <1>6, <1>7, <1>lens, Zenon
  <2>3. ~(Len(Longer) = Len(Shorter) + 1)
    <3> HIDE DEF Shorter, Longer
    <3> QED
      BY <1>7, <1>lens, <1>way, Zenon
  <2> HIDE DEF Same, Skip, Shorter, Longer
  <2>4. editDistanceAtMostOne(a, b) = Same
    BY <1>2, <1>7, <2>3, Zenon
  <2>5. Edited <=> Same
    BY <1>7, <2>1, <2>2, Zenon
  <2> QED
    BY <2>4, <2>5, Zenon DEF EditDistance
<1>8. CASE Len(a) # Len(b) /\ Len(Longer) = Len(Shorter) + 1
  <2>1. Skip <=> \E n \in DOMAIN Longer : Without(Longer, n) = Shorter
    <3>1. Shorter \in Seq(S) /\ Longer \in Seq(S) /\ Len(Longer) = Len(Shorter) + 1
      BY <1>8
    <3>2. parts = {n \in DOMAIN Shorter : Shorter[n] # Longer[n]}
      OBVIOUS
    <3> HIDE DEF parts, Shorter, Longer
    <3>3. Skips(parts, Shorter, Longer) <=> Shortened(Longer, Shorter)
      BY <3>1, <3>2, SkipOne, Zenon
    <3> QED
      BY <3>3, Zenon DEF Skips, Shortened
  <2> HIDE DEF Same, Skip
  <2>2. editDistanceAtMostOne(a, b) = Skip
    <3> HIDE DEF Shorter, Longer
    <3> QED
      BY <1>2, <1>8, Zenon
  <2>3. a # b /\ ~\E n \in 1 .. (Len(a) - 1) : Swapped(a, n) = b
    BY <1>6, <1>8, Zenon
  <2>4. Edited <=> \E n \in DOMAIN Longer : Without(Longer, n) = Shorter
    <3>1. CASE Len(a) < Len(b)
      <4>1. Shorter = a /\ Longer = b
        BY <3>1
      <4>2. ~\E n \in DOMAIN a : Without(a, n) = b
        BY <1>6, <1>lens, <3>1, Zenon
      <4> HIDE DEF Shorter, Longer
      <4> QED
        BY <1>8, <2>3, <4>1, <4>2, Zenon
    <3>2. CASE ~(Len(a) < Len(b))
      <4>1. Shorter = b /\ Longer = a
        BY <3>2
      <4>2. ~\E n \in DOMAIN b : Without(b, n) = a
        BY <1>6, <1>8, <1>lens, <3>2, Zenon
      <4> HIDE DEF Shorter, Longer
      <4> QED
        BY <1>8, <2>3, <4>1, <4>2, Zenon
    <3> QED
      BY <3>1, <3>2
  <2> HIDE DEF Edited
  <2>5. editDistanceAtMostOne(a, b) <=> Edited
    BY <2>1, <2>2, <2>4, Zenon
  <2> QED
    BY <2>5, Zenon DEF EditDistance, Edited
<1>9. CASE Len(a) # Len(b) /\ Len(Longer) # Len(Shorter) + 1
  <2>1. editDistanceAtMostOne(a, b) = FALSE
    <3> HIDE DEF Shorter, Longer, Same, Skip
    <3> QED
      BY <1>2, <1>9, Zenon
  <2>2. /\ a # b
        /\ ~\E n \in DOMAIN b : Without(b, n) = a
        /\ ~\E n \in DOMAIN a : Without(a, n) = b
        /\ ~\E n \in 1 .. (Len(a) - 1) : Swapped(a, n) = b
    <3>1. Len(b) - 1 # Len(a) /\ Len(a) - 1 # Len(b)
      <4> HIDE DEF Shorter, Longer
      <4> QED
        BY <1>9, <1>lens, <1>way, Zenon
    <3> QED
      BY <1>6, <1>9, <3>1, Zenon
  <2> QED
    BY <1>9, <2>1, <2>2, Zenon DEF EditDistance
<1> QED
  BY <1>7, <1>8, <1>9

\* A row of a Safari extension, whose texts come from T and whose paths come
\* from P; a text that looks like an ID bound to a team has an "@".
SafariRow(r, T, P) ==
  /\ r.source = "safari_extensions" /\ r.id = None
  /\ r.name \in T /\ r.display \in T
  /\ r.paths \in Seq(P) /\ \A p \in P : p.text \in T
  /\ \A t \in T : t = None \/ \A b, e, team : t.id = Bound(b, e, team) => "at" \in t.shapes

\* An app whose team is not known, or is named otherwise than one that is not.
Known(app) == app.team = None \/ app.team # "unsigned"

\* What the first text that tells an ID says never looks like an ID bound to a
\* team (inferExtensionID).
LEMMA NoTeamInferred ==
  ASSUME NEW r, NEW T, NEW P, SafariRow(r, T, P)
  PROVE  inferExtensionID(r) = None \/ \A b, e, team : inferExtensionID(r) # Bound(b, e, team)
<1> DEFINE said == <<r.name, r.display>> \o [n \in DOMAIN r.paths |-> r.paths[n].text]
           telling == {n \in DOMAIN said : said[n] # None /\ Tells(r.source, said[n])}
<1>1. said \in Seq(T)
  <2>1. [n \in DOMAIN r.paths |-> r.paths[n].text] \in Seq(T)
    <3>1. r.paths \in Seq(P) /\ \A p \in P : p.text \in T
      BY DEF SafariRow
    <3> QED
      BY <3>1
  <2>2. <<r.name, r.display>> \in Seq(T)
    BY DEF SafariRow
  <2> QED
    BY <2>1, <2>2
<1> HIDE DEF said
<1>2. telling \in SUBSET Nat /\ \A n \in telling : said[n] \in T
  BY <1>1
<1>3. inferExtensionID(r) = IF telling = {} THEN None ELSE said[Min(telling)].id
  BY Zenon DEF inferExtensionID, said
<1>4. ASSUME telling # {}, NEW b, NEW e, NEW team PROVE said[Min(telling)].id # Bound(b, e, team)
  <2>1. Min(telling) \in telling
    <3> HIDE DEF telling
    <3> QED
      BY <1>2, <1>4, MinIsLeast
  <2>2. PICK t : t = said[Min(telling)]
    OBVIOUS
  <2>3. t \in T /\ t # None /\ Tells(r.source, t)
    BY <1>2, <2>1, <2>2
  <2>4. "at" \notin t.shapes
    BY <2>3 DEF Tells, SafariRow
  <2> QED
    BY <2>2, <2>3, <2>4 DEF SafariRow
<1> QED
  BY <1>3, <1>4

\* The key of a Safari extension names its team, or it has none
\* (DeriveExtensionIdentity, WithSafariApp).
LEMMA KeyNamesTeam ==
  ASSUME NEW r, NEW T, NEW P, SafariRow(r, T, P),
         NEW apps, \A at \in DOMAIN apps : Known(apps[at]),
         NEW x, x = WithSafariApp(DeriveExtensionIdentity(r), apps)
  PROVE  \/ /\ x.team = None
            /\ \A b, e, team : x.key # <<"ext", "safari", Bound(b, e, team)>>
         \/ /\ Known(x)
            /\ \E b, e : x.key = <<"ext", "safari", Bound(b, e, x.team)>>
<1> DEFINE d == DeriveExtensionIdentity(r)
<1>1. d.store = "safari" /\ d.team = None
  BY DEF DeriveExtensionIdentity, inferStore, SafariRow
<1>2. \A b, e, team : d.key # <<"ext", "safari", Bound(b, e, team)>>
  <2>1. r.id = None
    BY DEF SafariRow
  <2>2. CASE inferExtensionID(r) = None
    <3>1. \E src : d.key = <<"name", d.store, src>>
      BY <2>1, <2>2 DEF DeriveExtensionIdentity
    <3> QED
      BY <3>1
  <2>3. CASE inferExtensionID(r) # None
    <3>1. d.key = <<"ext", d.store, inferExtensionID(r)>>
      BY <2>1, <2>3 DEF DeriveExtensionIdentity
    <3> QED
      BY <2>3, <3>1, NoTeamInferred
  <2> QED
    BY <2>2, <2>3
<1>3. DOMAIN d = {"store", "id", "team", "key", "path", "builtin"}
  BY DEF DeriveExtensionIdentity
<1> HIDE DEF d
<1>4. CASE d.path = None \/ d.path.app \notin DOMAIN apps
  <2>1. x = d
    BY <1>4 DEF WithSafariApp, d
  <2> QED
    BY <1>1, <1>2, <2>1
<1>5. CASE d.path # None /\ d.path.app \in DOMAIN apps
  <2> DEFINE app == apps[d.path.app]
             id == Bound(app.bundle, d.path.appex, app.team)
  <2>1. x = [d EXCEPT !.id = id, !.key = <<"ext", "safari", id>>, !.team = app.team]
    BY <1>1, <1>5, Zenon DEF WithSafariApp, d
  <2>2. Known(app)
    BY <1>5
  <2> HIDE DEF app
  <2>3. x.team = app.team /\ x.key = <<"ext", "safari", id>>
    <3> HIDE DEF id
    <3> QED
      BY <1>3, <2>1
  <2> QED
    BY <2>2, <2>3 DEF Known
<1> QED
  BY <1>4, <1>5

\* Safari extensions that share a node are signed by one team, whatever rows
\* any two hosts report and whatever apps are known of each (WithSafariApp).
THEOREM TeamsAreNotLent ==
  ASSUME NEW r, NEW s, NEW T, NEW P, SafariRow(r, T, P), NEW Q, SafariRow(s, T, Q),
         NEW rApps, \A at \in DOMAIN rApps : Known(rApps[at]),
         NEW sApps, \A at \in DOMAIN sApps : Known(sApps[at])
  PROVE  SignedApart(r, rApps, s, sApps)
<1> DEFINE x == WithSafariApp(DeriveExtensionIdentity(r), rApps)
           y == WithSafariApp(DeriveExtensionIdentity(s), sApps)
           Bare(z) == z.team = None /\ \A b, e, team : z.key # <<"ext", "safari", Bound(b, e, team)>>
           Signed(z) == Known(z) /\ \E b, e : z.key = <<"ext", "safari", Bound(b, e, z.team)>>
<1>1. (Bare(x) \/ Signed(x)) /\ (Bare(y) \/ Signed(y))
  BY KeyNamesTeam
<1>2. SignedApart(r, rApps, s, sApps) <=> (x.key = y.key => x.team = y.team)
  BY Zenon DEF SignedApart
<1> HIDE DEF x, y
<1>3. ASSUME x.key = y.key PROVE x.team = y.team
  <2>1. CASE Bare(x)
    BY <1>1, <1>3, <2>1
  <2>2. CASE Signed(x) /\ Bare(y)
    BY <1>3, <2>2
  <2>3. CASE Signed(x) /\ Signed(y)
    <3>1. PICK b1, e1 : x.key = <<"ext", "safari", Bound(b1, e1, x.team)>>
      BY <2>3
    <3>2. PICK b2, e2 : y.key = <<"ext", "safari", Bound(b2, e2, y.team)>>
      BY <2>3
    <3>3. Bound(b1, e1, x.team) = Bound(b2, e2, y.team)
      <4>1. \A i, j : <<"ext", "safari", i>> = <<"ext", "safari", j>> => i = j
        OBVIOUS
      <4> QED
        BY <1>3, <3>1, <3>2, <4>1, Zenon
    <3> QED
      BY <2>3, <3>3 DEF Bound, Known
  <2> QED
    BY <1>1, <2>1, <2>2, <2>3
<1> QED
  BY <1>2, <1>3

\* The names and the rows of Safari extensions that are asked about.
LEMMA AskedOfTrust ==
  ASSUME Next
  PROVE  /\ About("name")' => asked'.a \in Seq(1 .. 3) /\ asked'.b \in Seq(1 .. 3)
         /\ About("key")' => /\ asked'.r \in SafariRows /\ asked'.s \in SafariRows
                             /\ asked'.rApps \in Apps /\ asked'.sApps \in Apps
<1>1. ASSUME About("name")' PROVE asked'.a \in Seq(1 .. 3) /\ asked'.b \in Seq(1 .. 3)
  <2>1. PICK a \in Words, b \in Words : asked' = [about |-> "name", a |-> a, b |-> b]
    BY <1>1, Asking, Zenon DEF AskName, Ask
  <2>2. Words \subseteq Seq(1 .. 3)
    <3> SUFFICES ASSUME NEW n \in 0 .. 4, NEW q \in [1 .. n -> 1 .. 3] PROVE q \in Seq(1 .. 3)
      BY DEF Words
    <3>1. n \in Nat
      OBVIOUS
    <3> QED
      BY <3>1, SeqDef
  <2> QED
    BY <2>1, <2>2
<1>2. ASSUME About("key")'
      PROVE  /\ asked'.r \in SafariRows /\ asked'.s \in SafariRows
             /\ asked'.rApps \in Apps /\ asked'.sApps \in Apps
  <2>1. PICK r \in SafariRows, s \in SafariRows, rApps \in Apps, sApps \in Apps :
          asked' = [about |-> "key", r |-> r, rApps |-> rApps, s |-> s, sApps |-> sApps]
    BY <1>2, Asking, Zenon DEF AskKey, Ask
  <2> QED
    BY <2>1
<1> QED
  BY <1>1, <1>2

\* They are such rows as any host may report.
LEMMA SafariAsked ==
  ASSUME NEW r \in SafariRows
  PROVE  \E P : SafariRow(r, Texts \cup {None}, P)
<1> DEFINE T == Texts \cup {None}
           place == [words |-> {}, text |-> None, root |-> FALSE, app |-> "App", appex |-> "ext"]
           P == {place}
<1>1. PICK t \in Texts, ps \in Installs :
        r = [source |-> "safari_extensions", words |-> {}, id |-> None, display |-> None,
             vendorId |-> FALSE, name |-> t, paths |-> ps]
  BY DEF SafariRows
<1>2. ps \in Seq(P) /\ \A p \in P : p.text \in T
  <2>1. ps = <<>> \/ ps = <<place>>
    BY <1>1 DEF Installs
  <2>2. place.text = None
    OBVIOUS
  <2> HIDE DEF place
  <2>3. ps \in Seq(P)
    <3>1. \A z : <<z>> \in Seq({z}) /\ <<>> \in Seq({z})
      OBVIOUS
    <3> QED
      BY <2>1, <3>1, Zenon
  <2> HIDE DEF T
  <2>4. None \in T
    BY DEF T
  <2> QED
    BY <2>2, <2>3, <2>4
<1>3. ASSUME NEW u \in T, u # None, NEW b, NEW e, NEW team, u.id = Bound(b, e, team)
      PROVE  "at" \in u.shapes
  <2>1. Len(u.id) = 3
    BY <1>3 DEF Bound
  <2>2. u.id # <<"app">> /\ u.id # <<"com.a.b">>
    BY <2>1
  <2> QED
    BY <1>3, <2>2 DEF Texts
<1>4. \A u \in T : u = None \/ \A b, e, team : u.id = Bound(b, e, team) => "at" \in u.shapes
  BY <1>3, Zenon
<1> HIDE DEF T, P, place
<1>5. SafariRow(r, T, P)
  <2>1. /\ r.source = "safari_extensions" /\ r.id = None /\ r.name = t /\ r.display = None
        /\ r.paths = ps
    BY <1>1
  <2>2. t \in T /\ None \in T
    BY <1>1 DEF T
  <2> QED
    BY <1>2, <1>4, <2>1, <2>2, Zenon DEF SafariRow
<1> QED
  BY <1>5, Zenon DEF T

\* Trust is not lent to an install from elsewhere, to a name one edit away from
\* another, or to a row that looks like another team's (TrustEarned).
THEOREM TrustIsEarned == Spec => []TrustEarned
<1>1. Init => TrustEarned
  BY DEF Init, TrustEarned, UnpackedCounts, Typos, NoLentTeam, About
<1>2. ASSUME Next PROVE TrustEarned'
  <2>1. UnpackedCounts'
    <3> SUFFICES ASSUME About("score")' PROVE UnpackedNotTrusted(asked'.x)
      BY Zenon DEF UnpackedCounts
    <3> QED
      BY <1>2, AskedOfScore, UnpackedIsNotTrusted
  <2>2. Typos'
    <3> SUFFICES ASSUME About("name")' PROVE EditDistance(asked'.a, asked'.b)
      BY Zenon DEF Typos
    <3> QED
      BY <1>2, AskedOfTrust, TyposAreEdits, Zenon
  <2>3. NoLentTeam'
    <3> SUFFICES ASSUME About("key")'
                 PROVE  SignedApart(asked'.r, asked'.rApps, asked'.s, asked'.sApps)
      BY Zenon DEF NoLentTeam
    <3>1. \A apps \in Apps : \A at \in DOMAIN apps : Known(apps[at])
      <4>1. \A team \in Team : team = None \/ team # "unsigned"
        BY DEF Team
      <4> QED
        BY <4>1 DEF Apps, Known
    <3> QED
      BY <1>2, <3>1, AskedOfTrust, SafariAsked, TeamsAreNotLent, Zenon
  <2> QED
    BY <2>1, <2>2, <2>3 DEF TrustEarned
<1>3. TrustEarned /\ [Next]_asked => TrustEarned'
  <2>1. TrustEarned /\ UNCHANGED asked => TrustEarned'
    BY DEF TrustEarned, UnpackedCounts, Typos, NoLentTeam, About
  <2> QED
    BY <1>2, <2>1
<1> QED
  BY <1>1, <1>3, PTL DEF Spec

-----------------------------------------------------------------------------
(***************************************************************************)
(* Graphs.  Any graph, any node, any number of hops.                       *)
(***************************************************************************)
\* A graph of the routes: finitely many nodes, in the order of their ids, and links
\* between two of them.
GraphOf(g) ==
  /\ IsFiniteSet(Nodes(g)) /\ Nodes(g) \subseteq Nat
  /\ g.links \subseteq [source: Nodes(g), target: Nodes(g)] /\ IsFiniteSet(g.links)

\* A quotient grows with what is divided, and a full one is of a whole.
LEMMA ScoreGrows ==
  ASSUME NEW n \in Nat, NEW m \in Nat, NEW d \in Nat \ {0}
  PROVE  /\ n <= m => score(n, d) <= score(m, d)
         /\ score(n, d) = 100 => d <= n
<1> DEFINE a == (n * 100) \div d
           b == (m * 100) \div d
<1>1. a \in Nat /\ b \in Nat
  OBVIOUS
<1>2. n <= m => a <= b
  OBVIOUS
<1>3. a >= 100 => n >= d
  OBVIOUS
<1>4. score(n, d) = Min({a, 100}) /\ score(m, d) = Min({b, 100})
  BY DEF score
<1> HIDE DEF a, b
<1>5. score(n, d) = (IF a <= 100 THEN a ELSE 100) /\ score(m, d) = (IF b <= 100 THEN b ELSE 100)
  <2>1. 100 \in Nat
    OBVIOUS
  <2> QED
    BY <1>1, <1>4, <2>1, MinOfTwo
<1> QED
  BY <1>1, <1>2, <1>3, <1>5

LEMMA BucketOf ==
  ASSUME NEW g, GraphOf(g), NEW S
  PROVE  /\ Hosts(g) \subseteq Nodes(g) /\ Users(g) \subseteq Nodes(g)
         /\ UsersOf(g, S) \subseteq Nodes(g) /\ HostsOf(g, S) \subseteq Nodes(g)
BY DEF Hosts, Users, UsersOf, HostsOf, bucket, Neighbours

\* A full reach means every host of the scope, and leaving accounts out never
\* makes a blast radius larger, of any node of any graph (blastRadius).
THEOREM RadiiAreInScope ==
  ASSUME NEW g, GraphOf(g), NEW teamOf, NEW q,
         DOMAIN q = {"kind", "id", "team", "labelled", "excluded"},
         q = [i \in DOMAIN q |-> q[i]]
  PROVE  RadiusInScope(g, teamOf, q)
<1> DEFINE u == [q EXCEPT !.excluded = {}]
           hosts == hostReach(g, teamOf, q)
           users == userImpact(g, hosts, q)
           all == userImpact(g, hosts, u)
           scope == InTeam(g, teamOf, q.team)
<1>1. /\ u.kind = q.kind /\ u.id = q.id /\ u.team = q.team /\ u.labelled = q.labelled
      /\ u.excluded = {}
  OBVIOUS
<1> HIDE DEF u
<1>2. hostReach(g, teamOf, u) = hosts
  BY <1>1 DEF hostReach
<1>3. hosts \subseteq Nodes(g) /\ scope \subseteq Nodes(g) /\ hosts \subseteq scope
  BY BucketOf DEF hostReach, InTeam
<1>4. users \subseteq all /\ all \subseteq Nodes(g)
  BY <1>1, BucketOf DEF userImpact
<1> HIDE DEF hosts, users, all, scope
<1>5. lateral(g, hosts, users) \subseteq lateral(g, hosts, all) /\ lateral(g, hosts, all) \subseteq Nodes(g)
  <2>1. Neighbours(g, users) \subseteq Neighbours(g, all)
    BY <1>4 DEF Neighbours
  <2> QED
    BY <2>1, BucketOf DEF lateral, HostsOf
<1>6. ASSUME NEW S, NEW R, S \subseteq R, R \subseteq Nodes(g)
      PROVE  /\ Cardinality(S) \in Nat /\ Cardinality(R) \in Nat
             /\ Cardinality(S) <= Cardinality(R)
             /\ IsFiniteSet(R) /\ (Cardinality(R) <= Cardinality(S) => S = R)
  <2>1. IsFiniteSet(R)
    BY <1>6, FS_Subset DEF GraphOf
  <2>2. IsFiniteSet(S) /\ Cardinality(S) <= Cardinality(R) /\ (Cardinality(R) = Cardinality(S) => R = S)
    BY <1>6, <2>1, FS_Subset
  <2>3. Cardinality(S) \in Nat /\ Cardinality(R) \in Nat
    BY <2>1, <2>2, FS_CardinalityType
  <2> QED
    BY <2>1, <2>2, <2>3
<1>7. ASSUME NEW k \in Nat PROVE Max({1, k}) \in Nat \ {0} /\ k <= Max({1, k})
  <2>1. 1 \in Nat
    OBVIOUS
  <2> QED
    BY <2>1, MaxOfTwo
<1>8. /\ TotalHosts(g, teamOf, q) \in Nat \ {0}
      /\ q.team # "all" \/ UsersOf(g, Hosts(g)) # {}
           => Cardinality(scope) <= TotalHosts(g, teamOf, q)
      /\ TotalHosts(g, teamOf, u) = TotalHosts(g, teamOf, q)
  <2>1. Cardinality(scope) \in Nat
    BY <1>3, <1>6
  <2> QED
    BY <1>1, <1>7, <2>1 DEF TotalHosts, scope
<1>9. TotalUsers(g, teamOf, q) \in Nat \ {0} /\ TotalUsers(g, teamOf, u) = TotalUsers(g, teamOf, q)
  <2>1. Cardinality(UsersOf(g, InTeam(g, teamOf, q.team))) \in Nat
    BY <1>6, BucketOf
  <2> QED
    BY <1>1, <1>7, <2>1 DEF TotalUsers
<1> DEFINE r == blastRadius(g, teamOf, q)
           s == blastRadius(g, teamOf, u)
<1>10. /\ r.hosts = hosts /\ r.users = users /\ r.lateral = lateral(g, hosts, users)
       /\ r.hostReach = score(Cardinality(hosts), TotalHosts(g, teamOf, q))
       /\ r.userImpact = score(Cardinality(users), TotalUsers(g, teamOf, q))
       /\ r.lateralMovement = score(Cardinality(lateral(g, hosts, users)), GlobalHosts(g))
  BY DEF blastRadius, hosts, users
<1>11. /\ s.users = all /\ s.lateral = lateral(g, hosts, all)
       /\ s.userImpact = score(Cardinality(all), TotalUsers(g, teamOf, q))
       /\ s.lateralMovement = score(Cardinality(lateral(g, hosts, all)), GlobalHosts(g))
  BY <1>2, <1>9 DEF blastRadius, all
<1> HIDE DEF r, s
<1>12. ASSUME q.team # "all" \/ UsersOf(g, Hosts(g)) # {}, r.hostReach = 100 PROVE scope \subseteq hosts
  <2>1. Cardinality(hosts) \in Nat /\ TotalHosts(g, teamOf, q) \in Nat \ {0}
    BY <1>3, <1>6, <1>8
  <2>2. TotalHosts(g, teamOf, q) <= Cardinality(hosts)
    BY <1>10, <1>12, <2>1, ScoreGrows
  <2>3. Cardinality(scope) \in Nat /\ Cardinality(scope) <= Cardinality(hosts)
    BY <1>3, <1>6, <1>8, <1>12, <2>1, <2>2
  <2> QED
    BY <1>3, <1>6, <2>3
<1>13. r.userImpact <= s.userImpact
  BY <1>4, <1>6, <1>9, <1>10, <1>11, ScoreGrows
<1>14. r.lateralMovement <= s.lateralMovement
  <2>1. GlobalHosts(g) \in Nat \ {0}
    <3>1. CASE UsersOf(g, Hosts(g)) = {}
      BY <3>1 DEF GlobalHosts
    <3>2. CASE UsersOf(g, Hosts(g)) # {}
      <4>1. Hosts(g) # {}
        BY <3>2 DEF UsersOf, Neighbours
      <4>2. IsFiniteSet(Hosts(g)) /\ Cardinality(Hosts(g)) \in Nat
        BY <1>6, BucketOf
      <4> QED
        BY <3>2, <4>1, <4>2, FS_EmptySet DEF GlobalHosts
    <3> QED
      BY <3>1, <3>2
  <2> QED
    BY <1>5, <1>6, <1>10, <1>11, <2>1, ScoreGrows
<1> QED
  BY <1>4, <1>5, <1>10, <1>11, <1>12, <1>13, <1>14 DEF RadiusInScope, r, s, u, scope

LEMMA DegreesAreNat == ASSUME NEW g, GraphOf(g), NEW n PROVE degree(g, n) \in Nat
<1>1. {l \in g.links : n \in {l.source, l.target}} \subseteq g.links
  OBVIOUS
<1> QED
  BY <1>1, FS_Subset, FS_CardinalityType DEF degree, GraphOf

\* The order of a bucket is strict and total.
LEMMA LessIsOrder ==
  ASSUME NEW g, GraphOf(g), NEW a \in Nodes(g), NEW b \in Nodes(g), NEW c \in Nodes(g)
  PROVE  /\ ~less(g, a, a)
         /\ a # b => less(g, a, b) \/ less(g, b, a)
         /\ less(g, a, b) /\ less(g, b, c) => less(g, a, c)
         /\ ~less(g, a, b) => degree(g, b) >= degree(g, a)
<1>1. a \in Nat /\ b \in Nat /\ c \in Nat
  BY DEF GraphOf
<1>2. degree(g, a) \in Nat /\ degree(g, b) \in Nat /\ degree(g, c) \in Nat
  BY DegreesAreNat
<1> QED
  BY <1>1, <1>2 DEF less

\* How many of a set come before a node.
Place(g, S, n) == Cardinality({m \in S : less(g, m, n)})

\* The places of a set of nodes are all the numbers below its size, one for
\* each.
LEMMA PlacesAreOnto ==
  ASSUME NEW g, GraphOf(g), NEW S \in SUBSET Nodes(g)
  PROVE  /\ Cardinality(S) \in Nat /\ IsFiniteSet(S)
         /\ \A n \in S : Place(g, S, n) \in 0 .. (Cardinality(S) - 1)
         /\ \A n, m \in S : Place(g, S, n) = Place(g, S, m) => n = m
         /\ \A n, m \in S : Place(g, S, n) <= Place(g, S, m) => n = m \/ less(g, n, m)
         /\ \A i \in 0 .. (Cardinality(S) - 1) : \E n \in S : Place(g, S, n) = i
<1>1. IsFiniteSet(S) /\ Cardinality(S) \in Nat
  BY FS_Subset, FS_CardinalityType DEF GraphOf
<1> DEFINE K == Cardinality(S)
           before(n) == {m \in S : less(g, m, n)}
<1>2. ASSUME NEW n \in S
      PROVE  /\ IsFiniteSet(before(n)) /\ Place(g, S, n) = Cardinality(before(n))
             /\ Place(g, S, n) \in Nat /\ Place(g, S, n) \in 0 .. (K - 1)
  <2>1. before(n) \subseteq S /\ n \notin before(n)
    BY LessIsOrder
  <2> HIDE DEF before
  <2>2. IsFiniteSet(before(n)) /\ Cardinality(before(n)) <= K /\ Cardinality(before(n)) # K
    BY <1>1, <2>1, FS_Subset
  <2>3. Cardinality(before(n)) \in Nat
    BY <2>2, FS_CardinalityType
  <2> QED
    BY <1>1, <2>2, <2>3 DEF Place, before
<1>3. ASSUME NEW n \in S, NEW m \in S, less(g, n, m) PROVE Place(g, S, n) < Place(g, S, m)
  <2>1. before(n) \subseteq before(m) /\ n \in before(m) /\ n \notin before(n)
    BY <1>3, LessIsOrder
  <2> HIDE DEF before
  <2>2. IsFiniteSet(before(m)) /\ IsFiniteSet(before(n))
    BY <1>2
  <2>3. Cardinality(before(n)) <= Cardinality(before(m))
        /\ Cardinality(before(m)) # Cardinality(before(n))
    BY <2>1, <2>2, FS_Subset
  <2> QED
    BY <1>2, <2>3
<1>4. \A n, m \in S : Place(g, S, n) <= Place(g, S, m) => n = m \/ less(g, n, m)
  <2> SUFFICES ASSUME NEW n \in S, NEW m \in S, Place(g, S, n) <= Place(g, S, m), n # m
               PROVE  less(g, n, m)
    OBVIOUS
  <2>1. less(g, n, m) \/ less(g, m, n)
    BY LessIsOrder
  <2>2. ~less(g, m, n)
    <3>1. Place(g, S, n) \in Nat /\ Place(g, S, m) \in Nat
      BY <1>2
    <3>2. less(g, m, n) => Place(g, S, m) < Place(g, S, n)
      BY <1>3
    <3> QED
      BY <3>1, <3>2
  <2> QED
    BY <2>1, <2>2
<1>5. \A n, m \in S : Place(g, S, n) = Place(g, S, m) => n = m
  <2> SUFFICES ASSUME NEW n \in S, NEW m \in S, Place(g, S, n) = Place(g, S, m), n # m
               PROVE  FALSE
    OBVIOUS
  <2>1. less(g, n, m) \/ less(g, m, n)
    BY LessIsOrder
  <2>2. Place(g, S, n) \in Nat /\ Place(g, S, m) \in Nat
    BY <1>2
  <2>3. Place(g, S, n) < Place(g, S, m) \/ Place(g, S, m) < Place(g, S, n)
    BY <1>3, <2>1
  <2> QED
    BY <2>2, <2>3
<1>6. \A i \in 0 .. (K - 1) : \E n \in S : Place(g, S, n) = i
  <2> DEFINE f == [n \in S |-> Place(g, S, n)]
             I == 0 .. (K - 1)
  <2>1. f \in [S -> I] /\ \A n, m \in S : f[n] = f[m] => n = m
    BY <1>2, <1>5
  <2>2. f \in Injection(S, I)
    BY <2>1 DEF Injection, IsInjective
  <2>3. IsFiniteSet(I) /\ Cardinality(I) = K
    <3>1. 0 \in Int /\ K - 1 \in Int
      BY <1>1
    <3> QED
      BY <1>1, <3>1, FS_Interval
  <2>4. f \in Surjection(S, I)
    <3> HIDE DEF f, I
    <3> QED
      BY <2>2, <2>3, FS_Injection
  <2> QED
    BY <2>4 DEF Surjection
<1> QED
  BY <1>1, <1>2, <1>4, <1>5, <1>6

\* The top of a set has as many nodes as were asked for or there are, and none
\* left out has more links than one that is in (sort.Slice and the cut).
LEMMA TopsAre ==
  ASSUME NEW g, GraphOf(g), NEW S \in SUBSET Nodes(g), NEW k \in Nat
  PROVE  /\ Top(g, S, k) \subseteq S /\ IsFiniteSet(Top(g, S, k))
         /\ Cardinality(Top(g, S, k)) = Min({k, Cardinality(S)})
         /\ \A n \in Top(g, S, k), m \in S \ Top(g, S, k) : degree(g, n) >= degree(g, m)
<1> DEFINE T == Top(g, S, k)
           c == Min({k, Cardinality(S)})
           I == 0 .. (c - 1)
           f == [n \in T |-> Place(g, S, n)]
<1>1. Cardinality(S) \in Nat /\ IsFiniteSet(S)
  BY PlacesAreOnto
<1>2. T = {n \in S : Place(g, S, n) < k}
  BY DEF Top, Place
<1>3. c \in Nat /\ c <= k /\ c <= Cardinality(S) /\ (c = k \/ c = Cardinality(S))
  BY <1>1, MinOfTwo
<1> HIDE DEF T, c
<1>4. IsFiniteSet(T) /\ Cardinality(T) \in Nat
  BY <1>1, <1>2, FS_Subset, FS_CardinalityType
<1>5. f \in [T -> I] /\ \A n, m \in T : f[n] = f[m] => n = m
  BY <1>1, <1>2, <1>3, PlacesAreOnto
<1>6. \A i \in I : \E n \in T : f[n] = i
  <2> SUFFICES ASSUME NEW i \in I PROVE \E n \in T : f[n] = i
    OBVIOUS
  <2>1. i \in 0 .. (Cardinality(S) - 1) /\ i < k
    BY <1>1, <1>3
  <2>2. PICK n \in S : Place(g, S, n) = i
    BY <2>1, PlacesAreOnto
  <2> QED
    BY <1>2, <2>1, <2>2
<1>7. f \in Bijection(T, I)
  BY <1>5, <1>6 DEF Bijection, Injection, Surjection, IsInjective
<1>8. IsFiniteSet(I) /\ Cardinality(I) = c
  <2>1. 0 \in Int /\ c - 1 \in Int
    BY <1>3
  <2> QED
    BY <1>3, <2>1, FS_Interval
<1>9. Cardinality(T) = c
  <2> HIDE DEF f, I
  <2> QED
    BY <1>4, <1>7, <1>8, FS_Bijection DEF ExistsBijection
<1>10. ASSUME NEW n \in T, NEW m \in S \ T PROVE degree(g, n) >= degree(g, m)
  <2>1. n \in S /\ Place(g, S, n) < k /\ ~(Place(g, S, m) < k)
    BY <1>2, <1>10
  <2>2. ~(Place(g, S, m) <= Place(g, S, n))
    BY <1>1, <2>1, PlacesAreOnto
  <2>3. ~less(g, m, n)
    <3>1. Place(g, S, n) <= Place(g, S, m) /\ n # m
      <4>1. Place(g, S, n) \in Nat /\ Place(g, S, m) \in Nat
        BY <1>1, <2>1, PlacesAreOnto
      <4> QED
        BY <2>2, <4>1
    <3>2. less(g, n, m)
      BY <2>1, <3>1, PlacesAreOnto
    <3> QED
      BY <2>1, <3>2, LessIsOrder
  <2> QED
    BY <2>1, <2>3, LessIsOrder
<1> QED
  BY <1>2, <1>4, <1>9, <1>10 DEF T, c

LEMMA BelowIsFinite ==
  ASSUME NEW q \in Nat
  PROVE  IsFiniteSet(0 .. (q - 1)) /\ Cardinality(0 .. (q - 1)) = q
<1>1. 0 \in Int /\ q - 1 \in Int
  OBVIOUS
<1> QED
  BY <1>1, FS_Interval

\* The quotas never ask for more than the limit, if there are no more types.
LEMMA QuotasFit ==
  ASSUME NEW g, GraphOf(g), NEW limit \in Nat \ {0}, Cardinality(types(g)) <= limit, types(g) # {}
  PROVE  /\ IsFiniteSet(types(g)) /\ Cardinality(types(g)) \in Nat \ {0}
         /\ limit \div Cardinality(types(g)) \in Nat /\ quota(g, limit) \in Nat
         /\ quota(g, limit) >= limit \div Cardinality(types(g))
         /\ Cardinality(types(g)) * quota(g, limit) <= limit
<1> DEFINE N == Cardinality(types(g))
<1>1. IsFiniteSet(types(g))
  <2> DEFINE f == [n \in Nodes(g) |-> g.kind[n]]
  <2>1. f \in Surjection(Nodes(g), types(g))
    BY DEF Surjection, types
  <2> HIDE DEF f
  <2> QED
    BY <2>1, FS_Surjection DEF GraphOf
<1>2. N \in Nat \ {0}
  BY <1>1, FS_CardinalityType, FS_EmptySet
<1>3. N <= limit
  OBVIOUS
<1>4. quota(g, limit) = Max({1, limit \div N})
  BY DEF quota
<1> HIDE DEF N
<1> DEFINE d == limit \div N
<1>5. d \in Nat /\ N * d <= limit /\ d >= 1
  BY <1>2, <1>3
<1> HIDE DEF d
<1>6. quota(g, limit) = d
  <2>1. quota(g, limit) = IF 1 >= d THEN 1 ELSE d
    <3>1. 1 \in Int /\ d \in Int
      BY <1>5
    <3> QED
      BY <1>4, <3>1, MaxOfTwo DEF d
  <2> QED
    BY <1>5, <2>1
<1> QED
  BY <1>1, <1>2, <1>5, <1>6 DEF d, N

\* A sample of any graph is as large as it may be and crowds out no type, for
\* any limit that has room for one node of each (SampleGraph).
THEOREM SamplesAreBalanced ==
  ASSUME NEW g, GraphOf(g), NEW limit \in Nat \ {0}, Cardinality(types(g)) <= limit
  PROVE  SampleBalanced(g, limit)
<1> DEFINE N == Nodes(g)
           kept == SampleGraph(g, limit).nodes
           share == limit \div Cardinality(types(g))
<1>1. IsFiniteSet(N) /\ Cardinality(N) \in Nat
  BY FS_CardinalityType DEF GraphOf
<1>2. ASSUME NEW t PROVE /\ bucket(g, t) \subseteq N /\ IsFiniteSet(bucket(g, t))
                         /\ Cardinality(bucket(g, t)) \in Nat
  BY PlacesAreOnto DEF bucket
<1>3. ASSUME NEW n \in N PROVE g.kind[n] \in types(g) /\ n \in bucket(g, g.kind[n])
  BY DEF types, bucket
<1>4. CASE Cardinality(N) <= limit
  <2>1. kept = N
    BY <1>4 DEF SampleGraph
  <2>2. Cardinality(kept) = Min({limit, Cardinality(N)})
    BY <1>1, <1>4, <2>1, MinOfTwo
  <2>3. ASSUME NEW t \in types(g)
        PROVE  /\ Cardinality(kept \cap bucket(g, t)) >= Min({share, Cardinality(bucket(g, t))})
               /\ \A n \in kept \cap bucket(g, t) : \A m \in bucket(g, t) \ kept :
                    degree(g, n) >= degree(g, m)
    <3>1. kept \cap bucket(g, t) = bucket(g, t) /\ bucket(g, t) \ kept = {}
      BY <1>2, <2>1
    <3>2. share \in Nat
      BY <2>3, QuotasFit
    <3> HIDE DEF share
    <3>3. Min({share, Cardinality(bucket(g, t))}) <= Cardinality(bucket(g, t))
      BY <1>2, <3>2, MinOfTwo
    <3> QED
      BY <3>1, <3>3
  <2> QED
    BY <2>2, <2>3 DEF SampleBalanced
<1>5. CASE Cardinality(N) > limit
  <2> DEFINE q == quota(g, limit)
             top(t) == Top(g, bucket(g, t), q)
             first == UNION {top(t) : t \in types(g)}
             rest == Top(g, N \ first, limit - Cardinality(first))
  <2>1. kept = first \cup rest
    BY <1>1, <1>5 DEF SampleGraph, Filled
  <2>2. types(g) # {}
    <3>1. N # {}
      BY <1>1, <1>5, FS_EmptySet
    <3> QED
      BY <1>3, <3>1
  <2>3. /\ IsFiniteSet(types(g)) /\ Cardinality(types(g)) \in Nat \ {0}
        /\ share \in Nat /\ q \in Nat /\ share <= q
        /\ Cardinality(types(g)) * q <= limit
    BY <2>2, QuotasFit
  <2> HIDE DEF kept, share, q
  <2>4. ASSUME NEW t
        PROVE  /\ top(t) \subseteq bucket(g, t) /\ IsFiniteSet(top(t))
               /\ Cardinality(top(t)) = Min({q, Cardinality(bucket(g, t))})
               /\ \A n \in top(t), m \in bucket(g, t) \ top(t) : degree(g, n) >= degree(g, m)
    BY <1>2, <2>3, TopsAre
  <2>5. first \subseteq N
    BY <1>2, <2>4
  <2>6. ASSUME NEW n \in first PROVE n \in top(g.kind[n]) /\ g.kind[n] \in types(g)
    <3>1. PICK t \in types(g) : n \in top(t)
      OBVIOUS
    <3>2. g.kind[n] = t
      BY <2>4, <3>1 DEF bucket
    <3> QED
      BY <3>1, <3>2
  <2>7. IsFiniteSet(first) /\ Cardinality(first) \in Nat /\ Cardinality(first) <= limit
    <3> DEFINE I == 0 .. (q - 1)
               P == types(g) \X I
               f == [n \in first |-> <<g.kind[n], Place(g, bucket(g, g.kind[n]), n)>>]
    <3>1. IsFiniteSet(I) /\ Cardinality(I) = q
      BY <2>3, BelowIsFinite
    <3>2. IsFiniteSet(P) /\ Cardinality(P) = Cardinality(types(g)) * q
      <4> HIDE DEF I
      <4> QED
        BY <2>3, <3>1, FS_Product
    <3>3. ASSUME NEW n \in first
          PROVE  Place(g, bucket(g, g.kind[n]), n) \in I /\ g.kind[n] \in types(g)
                 /\ n \in bucket(g, g.kind[n])
      <4>1. n \in top(g.kind[n]) /\ g.kind[n] \in types(g)
        BY <2>6
      <4>2. n \in bucket(g, g.kind[n]) /\ Place(g, bucket(g, g.kind[n]), n) < q
        BY <4>1 DEF Top, Place
      <4>3. Place(g, bucket(g, g.kind[n]), n) \in Nat
        BY <1>2, <4>2, PlacesAreOnto
      <4> QED
        BY <2>3, <4>1, <4>2, <4>3
    <3>4. ASSUME NEW n \in first, NEW m \in first, f[n] = f[m] PROVE n = m
      <4>1. g.kind[n] = g.kind[m]
            /\ Place(g, bucket(g, g.kind[n]), n) = Place(g, bucket(g, g.kind[m]), m)
        BY <3>4
      <4> HIDE DEF first
      <4> QED
        BY <1>2, <3>3, <4>1, PlacesAreOnto
    <3>5. f \in Injection(first, P)
      BY <3>3, <3>4 DEF Injection, IsInjective
    <3> HIDE DEF f, P, first
    <3>6. IsFiniteSet(first) /\ Cardinality(first) <= Cardinality(P)
      BY <3>2, <3>5, FS_Injection
    <3>7. Cardinality(first) \in Nat
      BY <3>6, FS_CardinalityType
    <3> QED
      BY <2>3, <3>2, <3>6, <3>7
  <2> HIDE DEF first, top
  <2>8. limit - Cardinality(first) \in Nat
    BY <2>7
  <2>9. /\ rest \subseteq N \ first /\ IsFiniteSet(rest)
        /\ Cardinality(rest) = Min({limit - Cardinality(first), Cardinality(N \ first)})
        /\ \A n \in rest, m \in (N \ first) \ rest : degree(g, n) >= degree(g, m)
    BY <2>8, TopsAre
  <2>10. Cardinality(N \ first) = Cardinality(N) - Cardinality(first)
    <3>1. N \cap first = first
      BY <2>5
    <3> QED
      BY <1>1, <3>1, FS_Difference
  <2> HIDE DEF rest
  <2>11. Cardinality(rest) = limit - Cardinality(first)
    BY <1>1, <1>5, <2>7, <2>8, <2>9, <2>10, MinOfTwo
  <2>12. IsFiniteSet(kept) /\ Cardinality(kept) = limit
    <3>1. first \cap rest = {}
      BY <2>9
    <3>2. Cardinality(kept) = Cardinality(first) + Cardinality(rest) - 0
      BY <2>1, <2>7, <2>9, <3>1, FS_Union, FS_EmptySet
    <3>3. IsFiniteSet(kept)
      BY <2>1, <2>7, <2>9, FS_Union
    <3> QED
      BY <2>7, <2>11, <3>2, <3>3
  <2>13. Cardinality(kept) = Min({limit, Cardinality(N)})
    BY <1>1, <1>5, <2>12, MinOfTwo
  <2>14. ASSUME NEW t \in types(g)
         PROVE  Cardinality(kept \cap bucket(g, t)) >= Min({share, Cardinality(bucket(g, t))})
    <3>1. top(t) \subseteq kept \cap bucket(g, t)
      BY <2>1, <2>4 DEF first
    <3>2. IsFiniteSet(kept \cap bucket(g, t)) /\ Cardinality(kept \cap bucket(g, t)) \in Nat
      BY <2>12, FS_Subset, FS_CardinalityType
    <3>3. Cardinality(top(t)) <= Cardinality(kept \cap bucket(g, t))
      BY <3>1, <3>2, FS_Subset
    <3>4. Cardinality(top(t)) = Min({q, Cardinality(bucket(g, t))})
      BY <2>4
    <3>5. Min({share, Cardinality(bucket(g, t))}) <= Min({q, Cardinality(bucket(g, t))})
      BY <1>2, <2>3, MinOfTwo
    <3>6. Min({share, Cardinality(bucket(g, t))}) \in Nat /\ Min({q, Cardinality(bucket(g, t))}) \in Nat
      BY <1>2, <2>3, MinOfTwo
    <3> QED
      BY <3>2, <3>3, <3>4, <3>5, <3>6
  <2>15. ASSUME NEW t \in types(g), NEW n \in kept \cap bucket(g, t), NEW m \in bucket(g, t) \ kept
         PROVE  degree(g, n) >= degree(g, m)
    <3>1. CASE n \in first
      <4>1. n \in top(t)
        BY <2>6, <2>15, <3>1 DEF bucket
      <4>2. m \in bucket(g, t) \ top(t)
        BY <2>1, <2>15 DEF first
      <4> QED
        BY <2>4, <4>1, <4>2
    <3>2. CASE n \in rest
      <4>1. m \in (N \ first) \ rest
        BY <1>2, <2>1, <2>15
      <4> QED
        BY <2>9, <3>2, <4>1
    <3> QED
      BY <2>1, <2>15, <3>1, <3>2
  <2> QED
    BY <2>13, <2>14, <2>15 DEF SampleBalanced, kept, share
<1> QED
  BY <1>1, <1>4, <1>5

\* What f makes of its first numbers.
Recursion(f, X, base, G, m) ==
  f \in [0 .. m -> X] /\ f[0] = base /\ \A h \in 1 .. m : f[h] = G[h][f[h - 1]]

\* A function that is defined by recursion on its numbers exists.
LEMMA RecursionExists ==
  ASSUME NEW X, NEW base \in X, NEW G \in [Nat -> [X -> X]], NEW m \in Nat
  PROVE  \E f : Recursion(f, X, base, G, m)
<1> DEFINE Defined(k) == \E f : Recursion(f, X, base, G, k)
           Bad == {k \in Nat : ~Defined(k)}
<1> SUFFICES ASSUME Bad # {} PROVE FALSE
  OBVIOUS
<1>1. PICK k \in Bad : \A j \in Bad : k <= j
  <2>1. Bad \in SUBSET Nat
    OBVIOUS
  <2> HIDE DEF Bad
  <2> QED
    BY <2>1, LeastElement
<1>2. CASE k = 0
  <2> DEFINE f == [h \in 0 .. 0 |-> base]
  <2>1. f \in [0 .. 0 -> X] /\ f[0] = base /\ 1 .. 0 = {}
    OBVIOUS
  <2>2. Defined(0)
    <3> HIDE DEF f
    <3>1. Recursion(f, X, base, G, 0)
      BY <2>1 DEF Recursion
    <3> QED
      BY <3>1
  <2> QED
    BY <1>1, <1>2, <2>2
<1>3. CASE k # 0
  <2>1. k - 1 \in Nat /\ k \in Nat \ {0} /\ k - 1 \notin Bad
    <3>1. k \in Nat
      OBVIOUS
    <3> HIDE DEF Bad
    <3> QED
      BY <1>1, <1>3, <3>1
  <2>2. PICK p \in [0 .. (k - 1) -> X] :
          p[0] = base /\ \A h \in 1 .. (k - 1) : p[h] = G[h][p[h - 1]]
    BY <2>1 DEF Recursion
  <2> DEFINE f == [h \in 0 .. k |-> IF h = k THEN G[k][p[k - 1]] ELSE p[h]]
  <2>3. p[k - 1] \in X
    BY <2>1, <2>2
  <2>4. G[k][p[k - 1]] \in X
    BY <2>1, <2>3
  <2>5. f \in [0 .. k -> X]
    BY <2>1, <2>2, <2>4
  <2>6. f[0] = base
    BY <2>1, <2>2
  <2>7. ASSUME NEW h \in 1 .. k PROVE f[h] = G[h][f[h - 1]]
    <3>1. f[h - 1] = p[h - 1]
      BY <2>1
    <3>2. CASE h = k
      BY <2>1, <3>1, <3>2
    <3>3. CASE h # k
      <4>1. h \in 1 .. (k - 1) /\ f[h] = p[h]
        BY <2>1, <3>3
      <4> QED
        BY <2>2, <3>1, <4>1
    <3> QED
      BY <3>2, <3>3
  <2>8. Defined(k)
    <3> HIDE DEF f
    <3>1. Recursion(f, X, base, G, k)
      BY <2>5, <2>6, <2>7 DEF Recursion
    <3> QED
      BY <3>1
  <2> QED
    BY <1>1, <2>8
<1> QED
  BY <1>2, <1>3

\* What holds of the first number and passes on holds of all.
LEMMA NumbersFollow ==
  ASSUME NEW m \in Nat, NEW S \in SUBSET Nat, 0 \in S,
         \A h \in 0 .. (m - 1) : h \in S => h + 1 \in S
  PROVE  0 .. m \subseteq S
<1> DEFINE Bad == (0 .. m) \ S
<1> SUFFICES ASSUME Bad # {} PROVE FALSE
  OBVIOUS
<1>1. PICK k \in Bad : \A j \in Bad : k <= j
  <2>1. Bad \in SUBSET Nat
    OBVIOUS
  <2> HIDE DEF Bad
  <2> QED
    BY <2>1, LeastElement
<1>2. k # 0 /\ k \in 1 .. m
  BY <1>1
<1>3. k - 1 \in 0 .. (m - 1) /\ k - 1 \notin Bad
  BY <1>1, <1>2
<1>4. k - 1 \in S
  BY <1>2, <1>3
<1> QED
  BY <1>1, <1>2, <1>3, <1>4

Expansions(g) ==
  [seen: SUBSET Nodes(g), frontier: SUBSET Nodes(g), links: SUBSET g.links, truncated: BOOLEAN]

\* A link leads from a user or a software to a host.
Sided(g) == \A l \in g.links : g.kind[l.source] # "host" /\ g.kind[l.target] = "host"

LEMMA HopTyped ==
  ASSUME NEW g, GraphOf(g), NEW e \in Expansions(g)
  PROVE  Hop(g, e) \subseteq Expansions(g)
<1> DEFINE budget == CorrelateNodeCap - Cardinality(e.seen)
           rows == LinksOut(g, e)
<1>1. [e EXCEPT !.truncated = @ \/ e.frontier # {}, !.frontier = {}] \in Expansions(g)
  BY DEF Expansions
<1>2. ASSUME NEW part \in SUBSET rows PROVE Read(g, e, part, Overflow(rows, budget)) \in Expansions(g)
  <2>1. part \subseteq g.links
    BY DEF LinksOut
  <2>2. UNION {{l.source, l.target} : l \in part} \subseteq Nodes(g)
    BY <2>1 DEF GraphOf
  <2>3. Overflow(rows, budget) \in BOOLEAN
    BY DEF Overflow
  <2> HIDE DEF rows, budget
  <2> QED
    BY <2>1, <2>2, <2>3 DEF Read, Expansions
<1>3. kSubset(Min({budget, Cardinality(rows)}), rows) \subseteq SUBSET rows
  BY DEF kSubset
<1> HIDE DEF rows, budget
<1>4. Hop(g, e) \subseteq {[e EXCEPT !.truncated = @ \/ e.frontier # {}, !.frontier = {}]}
         \cup {Read(g, e, part, Overflow(rows, budget)) : part \in SUBSET rows}
  BY <1>3 DEF Hop, rows, budget
<1> QED
  BY <1>1, <1>2, <1>4

\* What is known of an expansion of so many hops: it is within the cap, and
\* unless it is said to be cut it has every node so far, with every link between
\* two of them, and only its last nodes can have others beside them.
Spread(g, e, ball) ==
  /\ IsFiniteSet(e.seen) /\ e.frontier \subseteq e.seen
  /\ Cardinality(e.seen) <= CorrelateNodeCap
  /\ ~e.truncated =>
       /\ e.seen = ball /\ e.links = Between(g, ball)
       /\ Neighbours(g, e.seen \ e.frontier) \subseteq e.seen
       /\ \/ \A n \in e.frontier : g.kind[n] = "host"
          \/ \A n \in e.frontier : g.kind[n] # "host"

LEMMA HopKeeps ==
  ASSUME NEW g, GraphOf(g), Sided(g), NEW e \in Expansions(g), NEW ball, Spread(g, e, ball),
         NEW x \in Hop(g, e)
  PROVE  Spread(g, x, ball \cup Neighbours(g, ball))
<1> DEFINE budget == CorrelateNodeCap - Cardinality(e.seen)
           rows == LinksOut(g, e)
           wide == ball \cup Neighbours(g, ball)
<1>1. /\ e.seen \subseteq Nodes(g) /\ e.frontier \subseteq e.seen /\ e.links \subseteq g.links
      /\ e.truncated \in BOOLEAN /\ IsFiniteSet(e.seen)
      /\ Cardinality(e.seen) \in Nat /\ Cardinality(e.seen) <= CorrelateNodeCap
      /\ CorrelateNodeCap \in Nat
  BY FS_CardinalityType, CapAssumption DEF Expansions, Spread
<1>2. CASE budget <= 0 \/ e.frontier = {}
  <2>1. x = [e EXCEPT !.truncated = @ \/ e.frontier # {}, !.frontier = {}]
    BY <1>2 DEF Hop
  <2>2. /\ x.seen = e.seen /\ x.links = e.links /\ x.frontier = {}
        /\ x.truncated = (e.truncated \/ e.frontier # {})
    BY <2>1 DEF Expansions
  <2>3. ASSUME ~x.truncated
        PROVE  x.seen = wide /\ x.links = Between(g, wide) /\ Neighbours(g, x.seen) \subseteq x.seen
    <3>1. ~e.truncated /\ e.frontier = {}
      BY <2>2, <2>3
    <3>2. e.seen = ball /\ e.links = Between(g, ball) /\ Neighbours(g, e.seen) \subseteq e.seen
      <4>1. e.seen \ e.frontier = e.seen
        BY <3>1
      <4> QED
        BY <3>1, <4>1 DEF Spread
    <3>3. wide = ball
      BY <3>2
    <3> HIDE DEF wide
    <3> QED
      BY <2>2, <3>2, <3>3
  <2>4. x.seen \ x.frontier = x.seen
    BY <2>2
  <2> HIDE DEF wide
  <2> QED
    BY <1>1, <2>2, <2>3, <2>4 DEF Spread, wide
<1>3. CASE ~(budget <= 0 \/ e.frontier = {})
  <2>1. budget \in Nat
    BY <1>1, <1>3
  <2>2. PICK part \in kSubset(Min({budget, Cardinality(rows)}), rows) :
          x = Read(g, e, part, Overflow(rows, budget))
    BY <1>3 DEF Hop
  <2>3. part \subseteq rows /\ Cardinality(part) = Min({budget, Cardinality(rows)})
    BY DEF kSubset
  <2>4. rows \subseteq g.links
    BY DEF LinksOut
  <2>5. IsFiniteSet(rows) /\ IsFiniteSet(part) /\ Cardinality(rows) \in Nat /\ Cardinality(part) \in Nat
    BY <2>3, <2>4, FS_Subset, FS_CardinalityType DEF GraphOf
  <2>6. Cardinality(part) <= budget /\ (Cardinality(rows) <= budget => part = rows)
    <3> HIDE DEF rows, budget
    <3>1. Cardinality(rows) <= budget => Cardinality(part) = Cardinality(rows)
      BY <2>1, <2>3, <2>5, MinOfTwo
    <3>2. Cardinality(part) <= budget
      BY <2>1, <2>3, <2>5, MinOfTwo
    <3> QED
      BY <2>3, <2>5, <3>1, <3>2, FS_Subset
  <2> DEFINE met == (UNION {{l.source, l.target} : l \in part}) \ e.seen
  <2>7. /\ x.seen = e.seen \cup met /\ x.frontier = met /\ x.links = e.links \cup part
        /\ x.truncated = (e.truncated \/ Overflow(rows, budget))
    BY <2>2 DEF Read
  <2>8. ASSUME NEW l \in rows
        PROVE  \E a \in e.frontier : \E b \in Nodes(g) \ e.seen : {a, b} = {l.source, l.target}
    BY DEF LinksOut
  <2>9. IsFiniteSet(met) /\ Cardinality(met) <= Cardinality(part)
    <3> DEFINE out == {l \in part : {l.source, l.target} \ e.seen # {}}
               f == [l \in part |-> CHOOSE n \in {l.source, l.target} : n \notin e.seen]
    <3>1. ASSUME NEW l \in part
          PROVE  f[l] \in met /\ \A n \in {l.source, l.target} : n \notin e.seen => n = f[l]
      <4>1. PICK a \in e.frontier, b \in Nodes(g) \ e.seen : {a, b} = {l.source, l.target}
        BY <2>3, <2>8
      <4>2. \A n \in {l.source, l.target} : n \notin e.seen => n = b
        BY <1>1, <4>1
      <4>3. b \in {l.source, l.target} /\ b \notin e.seen
        BY <4>1
      <4>4. f[l] \in {l.source, l.target} /\ f[l] \notin e.seen
        BY <4>3
      <4> QED
        BY <4>2, <4>4
    <3>2. ASSUME NEW n \in met PROVE \E l \in part : f[l] = n
      <4>1. PICK l \in part : n \in {l.source, l.target} /\ n \notin e.seen
        OBVIOUS
      <4> HIDE DEF f
      <4> QED
        BY <3>1, <4>1
    <3>3. f \in [part -> met]
      BY <3>1
    <3>4. f \in Surjection(part, met)
      <4> HIDE DEF f, met
      <4> QED
        BY <3>2, <3>3 DEF Surjection
    <3> HIDE DEF f, met
    <3> QED
      BY <2>5, <3>4, FS_Surjection
  <2>10. IsFiniteSet(x.seen) /\ Cardinality(x.seen) <= CorrelateNodeCap
    <3> HIDE DEF met, rows
    <3>1. IsFiniteSet(e.seen \cup met) /\ IsFiniteSet(e.seen \cap met)
          /\ Cardinality(e.seen \cup met)
               = Cardinality(e.seen) + Cardinality(met) - Cardinality(e.seen \cap met)
      BY <1>1, <2>9, FS_Union, FS_Intersection
    <3>2. Cardinality(met) \in Nat /\ Cardinality(e.seen \cap met) \in Nat
      BY <2>9, <3>1, FS_CardinalityType
    <3>3. Cardinality(met) <= CorrelateNodeCap - Cardinality(e.seen)
      BY <1>1, <2>5, <2>6, <2>9, <3>2
    <3> QED
      BY <1>1, <2>7, <3>1, <3>2, <3>3
  <2>11. ASSUME ~x.truncated
         PROVE  /\ x.seen = wide /\ x.links = Between(g, wide)
                /\ Neighbours(g, x.seen \ x.frontier) \subseteq x.seen
                /\ \/ \A n \in x.frontier : g.kind[n] = "host"
                   \/ \A n \in x.frontier : g.kind[n] # "host"
    <3>1. ~e.truncated /\ part = rows
      <4>1. ~e.truncated /\ ~(Cardinality(rows) > budget)
        BY <2>7, <2>11 DEF Overflow
      <4> QED
        BY <2>1, <2>5, <2>6, <4>1
    <3>2. /\ e.seen = ball /\ e.links = Between(g, ball)
          /\ Neighbours(g, e.seen \ e.frontier) \subseteq e.seen
          /\ \/ \A n \in e.frontier : g.kind[n] = "host"
             \/ \A n \in e.frontier : g.kind[n] # "host"
      BY <3>1 DEF Spread
    <3>3. \A l \in g.links : l.source \in Nodes(g) /\ l.target \in Nodes(g)
      BY DEF GraphOf
    <3>4. \A l \in g.links : /\ l.source \in e.frontier /\ l.target \notin e.seen => l \in rows
                             /\ l.target \in e.frontier /\ l.source \notin e.seen => l \in rows
      BY <3>3 DEF LinksOut
    <3>5. \A l \in g.links : /\ l.source \in e.seen /\ l.target \notin e.seen => l.source \in e.frontier
                             /\ l.target \in e.seen /\ l.source \notin e.seen => l.target \in e.frontier
      BY <3>2, <3>3 DEF Neighbours
    <3>6. \A n \in met : \E l \in rows : \/ n = l.source /\ l.target \in e.frontier
                                         \/ n = l.target /\ l.source \in e.frontier
      BY <1>1, <2>8, <3>1
    <3>7. x.seen = wide
      <4>1. met \subseteq Neighbours(g, ball)
        BY <1>1, <2>4, <3>2, <3>3, <3>6 DEF Neighbours
      <4>2. ASSUME NEW n \in Neighbours(g, ball), n \notin e.seen PROVE n \in met
        <5>1. PICK l \in g.links : \/ l.source = n /\ l.target \in e.seen
                                   \/ l.target = n /\ l.source \in e.seen
          BY <3>2 DEF Neighbours
        <5>2. l \in rows
          BY <3>4, <3>5, <4>2, <5>1
        <5> QED
          BY <3>1, <4>2, <5>1, <5>2
      <4> HIDE DEF met
      <4> QED
        BY <2>7, <3>2, <4>1, <4>2
    <3>8. \/ \A n \in met : g.kind[n] = "host"
          \/ \A n \in met : g.kind[n] # "host"
      <4> HIDE DEF met
      <4> QED
        BY <2>4, <3>2, <3>6 DEF Sided
    <3>9. Neighbours(g, x.seen \ x.frontier) \subseteq x.seen
      <4>1. x.seen \ x.frontier = ball
        BY <2>7, <3>2
      <4> QED
        BY <3>7, <4>1
    <3>10. x.links = Between(g, wide)
      <4>1. ASSUME NEW l \in x.links PROVE l \in Between(g, wide)
        <5>1. CASE l \in e.links
          BY <3>2, <5>1 DEF Between
        <5>2. CASE l \in rows
          <6>1. l \in g.links /\ {l.source, l.target} \subseteq e.seen \cup met
            BY <2>4, <3>1, <5>2
          <6> HIDE DEF met, wide
          <6> QED
            BY <2>7, <3>7, <6>1 DEF Between
        <5> QED
          BY <2>7, <3>1, <4>1, <5>1, <5>2
      <4>2. ASSUME NEW l \in Between(g, wide) PROVE l \in x.links
        <5> HIDE DEF met, wide
        <5>1. l \in g.links /\ l.source \in e.seen \cup met /\ l.target \in e.seen \cup met
          BY <2>7, <3>7 DEF Between
        <5>2. CASE l.source \in e.seen /\ l.target \in e.seen
          BY <2>7, <3>2, <5>1, <5>2 DEF Between
        <5>3. CASE l.source \notin e.seen /\ l.target \notin e.seen
          BY <3>8, <5>1, <5>3 DEF Sided
        <5>4. CASE \/ l.source \in e.seen /\ l.target \notin e.seen
                   \/ l.target \in e.seen /\ l.source \notin e.seen
          BY <2>7, <3>1, <3>4, <3>5, <5>1, <5>4
        <5> QED
          BY <5>2, <5>3, <5>4
      <4> QED
        BY <4>1, <4>2
    <3> QED
      BY <2>7, <3>7, <3>8, <3>9, <3>10
  <2>12. x.frontier \subseteq x.seen
    BY <2>7
  <2> HIDE DEF wide, met, rows, budget
  <2> QED
    BY <2>10, <2>11, <2>12 DEF Spread, wide
<1> QED
  BY <1>2, <1>3

\* Before the first hop.
Unspread(seed) ==
  [seen |-> {seed}, frontier |-> {seed}, links |-> {}, truncated |-> FALSE]

\* What one more hop makes of any of some expansions.
Hops(g, s) == UNION {Hop(g, e) : e \in s}

HopsOf(f, g, seed, depth) ==
  /\ correlateExpand(g, seed, depth) = f[depth] /\ f[0] = {Unspread(seed)}
  /\ \A h \in 1 .. depth : f[h] = Hops(g, f[h - 1])

\* What the hops are, one after the other.
LEMMA HopsAre ==
  ASSUME NEW g, GraphOf(g), NEW seed \in Nodes(g), NEW depth \in Nat
  PROVE  \E f : HopsOf(f, g, seed, depth)
<1> DEFINE X == SUBSET Expansions(g)
           G == [h \in Nat |-> [s \in X |-> Hops(g, s)]]
           c == CHOOSE c : c = [h \in 0 .. depth |-> IF h = 0 THEN {Unspread(seed)} ELSE Hops(g, c[h - 1])]
<1>1. \A s \in X : Hops(g, s) \in X
  BY HopTyped DEF Hops
<1>2. {Unspread(seed)} \in X
  BY DEF Unspread, Expansions
<1>3. G \in [Nat -> [X -> X]]
  <2> HIDE DEF X
  <2> QED
    BY <1>1
<1>4. \A h \in Nat, s \in X : G[h][s] = Hops(g, s)
  OBVIOUS
<1>5. correlateExpand(g, seed, depth) = c[depth]
  BY DEF correlateExpand, Unspread, Hops
<1>6. \E f : f = [h \in 0 .. depth |-> IF h = 0 THEN {Unspread(seed)} ELSE Hops(g, f[h - 1])]
  <2> HIDE DEF X, G, c
  <2>1. PICK f : Recursion(f, X, {Unspread(seed)}, G, depth)
    BY <1>2, <1>3, RecursionExists
  <2>2. ASSUME NEW h \in 1 .. depth PROVE f[h] = Hops(g, f[h - 1])
    <3>1. h \in Nat /\ h - 1 \in 0 .. depth
      OBVIOUS
    <3>2. f[h - 1] \in X
      BY <2>1, <3>1 DEF Recursion
    <3> QED
      BY <1>4, <2>1, <3>1, <3>2 DEF Recursion
  <2>3. f = [h \in 0 .. depth |-> IF h = 0 THEN {Unspread(seed)} ELSE Hops(g, f[h - 1])]
    BY <2>1, <2>2 DEF Recursion
  <2> QED
    BY <2>3
<1>7. c = [h \in 0 .. depth |-> IF h = 0 THEN {Unspread(seed)} ELSE Hops(g, c[h - 1])]
  BY <1>6
<1> HIDE DEF c
<1>8. c[0] = {Unspread(seed)}
  BY <1>7
<1>9. ASSUME NEW h \in 1 .. depth PROVE c[h] = Hops(g, c[h - 1])
  <2>1. h \in 0 .. depth /\ h # 0
    OBVIOUS
  <2> QED
    BY <1>7, <2>1
<1> QED
  BY <1>5, <1>8, <1>9 DEF HopsOf

\* A set of nodes with those beside it.
Wider(g, s) == s \cup Neighbours(g, s)

BallsOf(f, g, seed, depth) ==
  /\ Ball(g, seed, depth) = f[depth] /\ f[0] = {seed}
  /\ \A h \in 1 .. depth : f[h] = Wider(g, f[h - 1])

\* What the balls around a node are, one after the other.
LEMMA BallsAre ==
  ASSUME NEW g, GraphOf(g), NEW seed \in Nodes(g), NEW depth \in Nat
  PROVE  \E f : BallsOf(f, g, seed, depth)
<1> DEFINE X == SUBSET Nodes(g)
           G == [h \in Nat |-> [s \in X |-> Wider(g, s)]]
           c == CHOOSE c : c = [h \in 0 .. depth |-> IF h = 0 THEN {seed} ELSE Wider(g, c[h - 1])]
<1>1. \A s \in X : Wider(g, s) \in X
  BY DEF Neighbours, Wider
<1>2. {seed} \in X
  OBVIOUS
<1>3. G \in [Nat -> [X -> X]]
  <2> HIDE DEF X
  <2> QED
    BY <1>1
<1>4. \A h \in Nat, s \in X : G[h][s] = Wider(g, s)
  OBVIOUS
<1>5. Ball(g, seed, depth) = c[depth]
  BY DEF Ball, Wider
<1>6. \E f : f = [h \in 0 .. depth |-> IF h = 0 THEN {seed} ELSE Wider(g, f[h - 1])]
  <2> HIDE DEF X, G, c
  <2>1. PICK f : Recursion(f, X, {seed}, G, depth)
    BY <1>2, <1>3, RecursionExists
  <2>2. ASSUME NEW h \in 1 .. depth PROVE f[h] = Wider(g, f[h - 1])
    <3>1. h \in Nat /\ h - 1 \in 0 .. depth
      OBVIOUS
    <3>2. f[h - 1] \in X
      BY <2>1, <3>1 DEF Recursion
    <3> QED
      BY <1>4, <2>1, <3>1, <3>2 DEF Recursion
  <2>3. f = [h \in 0 .. depth |-> IF h = 0 THEN {seed} ELSE Wider(g, f[h - 1])]
    BY <2>1, <2>2 DEF Recursion
  <2> QED
    BY <2>3
<1>7. c = [h \in 0 .. depth |-> IF h = 0 THEN {seed} ELSE Wider(g, c[h - 1])]
  BY <1>6
<1> HIDE DEF c
<1>8. c[0] = {seed}
  BY <1>7
<1>9. ASSUME NEW h \in 1 .. depth PROVE c[h] = Wider(g, c[h - 1])
  <2>1. h \in 0 .. depth /\ h # 0
    OBVIOUS
  <2> QED
    BY <1>7, <2>1
<1> QED
  BY <1>5, <1>8, <1>9 DEF BallsOf

\* The surroundings that are not said to be cut are whole.
THEOREM SurroundingsAreWhole ==
  ASSUME NEW g, GraphOf(g), Sided(g), NEW seed \in Nodes(g), NEW depth \in Nat
  PROVE  SurroundingsWhole(g, seed, depth)
<1>1. PICK f : /\ correlateExpand(g, seed, depth) = f[depth] /\ f[0] = {Unspread(seed)}
               /\ \A h \in 1 .. depth : f[h] = Hops(g, f[h - 1])
  <2>1. PICK f : HopsOf(f, g, seed, depth)
    BY HopsAre
  <2> QED
    BY <2>1 DEF HopsOf
<1>2. PICK b : /\ Ball(g, seed, depth) = b[depth] /\ b[0] = {seed}
               /\ \A h \in 1 .. depth : b[h] = Wider(g, b[h - 1])
  <2>1. PICK b : BallsOf(b, g, seed, depth)
    BY BallsAre
  <2> QED
    BY <2>1 DEF BallsOf
<1> DEFINE Fine(h) == \A e \in f[h] : e \in Expansions(g) /\ Spread(g, e, b[h])
           S == {h \in Nat : Fine(h)}
<1>3. 0 \in S
  <2>1. Unspread(seed) \in Expansions(g)
    BY DEF Unspread, Expansions
  <2>2. \A l \in g.links : ~(l.source = seed /\ l.target = seed)
    BY DEF Sided
  <2>3. Between(g, {seed}) = {} /\ Neighbours(g, {}) = {}
    BY <2>2 DEF Between, Neighbours
  <2>4. IsFiniteSet({seed}) /\ Cardinality({seed}) <= CorrelateNodeCap
    BY FS_Singleton, CapAssumption
  <2>5. /\ Unspread(seed).seen = {seed} /\ Unspread(seed).frontier = {seed}
        /\ Unspread(seed).links = {}
    BY DEF Unspread
  <2>6. Unspread(seed).seen \ Unspread(seed).frontier = {}
    BY <2>5
  <2>7. Spread(g, Unspread(seed), {seed})
    BY <2>3, <2>4, <2>5, <2>6 DEF Spread
  <2> QED
    BY <1>1, <1>2, <2>1, <2>7
<1>4. ASSUME NEW h \in 0 .. (depth - 1), h \in S PROVE h + 1 \in S
  <2>1. /\ h + 1 \in 1 .. depth /\ (h + 1) - 1 = h /\ h + 1 \in Nat /\ Fine(h)
    BY <1>4
  <2>2. /\ f[h + 1] = UNION {Hop(g, e) : e \in f[h]}
        /\ b[h + 1] = b[h] \cup Neighbours(g, b[h])
    BY <1>1, <1>2, <2>1 DEF Hops, Wider
  <2>3. ASSUME NEW x \in f[h + 1]
        PROVE  x \in Expansions(g) /\ Spread(g, x, b[h + 1])
    <3>1. PICK e \in f[h] : x \in Hop(g, e)
      BY <2>2
    <3>2. e \in Expansions(g) /\ Spread(g, e, b[h])
      BY <2>1
    <3> QED
      BY <2>2, <3>1, <3>2, HopTyped, HopKeeps
  <2> QED
    BY <2>1, <2>3
<1>5. depth \in S
  <2>1. S \in SUBSET Nat /\ depth \in 0 .. depth
    OBVIOUS
  <2> HIDE DEF S
  <2> QED
    BY <1>3, <1>4, <2>1, NumbersFollow
<1>6. ASSUME NEW e \in correlateExpand(g, seed, depth)
      PROVE  /\ Cardinality(e.seen) <= CorrelateNodeCap
             /\ ~e.truncated =>
                  /\ e.seen = Ball(g, seed, depth) /\ e.links = Between(g, Ball(g, seed, depth))
  BY <1>1, <1>2, <1>5, <1>6 DEF Spread
<1>7. ASSUME NEW e \in correlateExpand(g, seed, depth), ~e.truncated
      PROVE  /\ correlate(g, e).nodes = serialized(g, Ball(g, seed, depth))
             /\ correlate(g, e).links = Between(g, serialized(g, Ball(g, seed, depth)))
  <2>1. e.seen = Ball(g, seed, depth) /\ e.links = Between(g, Ball(g, seed, depth))
    BY <1>6, <1>7
  <2> QED
    BY <2>1 DEF correlate, serialized, Between
<1>8. \A e \in correlateExpand(g, seed, depth) : correlate(g, e).truncated = e.truncated
  BY DEF correlate
<1> QED
  BY <1>6, <1>7 DEF SurroundingsWhole

\* A walk of the graph from a node.
WalkFrom(g, from, w) ==
  /\ w \in Seq(Nodes(g)) /\ Len(w) >= 1 /\ w[1] = from
  /\ \A i \in 1 .. Len(w) - 1 : w[i + 1] \in Neighbours(g, {w[i]})

\* The walks that are one link longer.
LongerWalks(g, walks) == UNION {{Append(w, n) : n \in Neighbours(g, {Last(w)})} : w \in walks}

WalksOf(f, g, from, maxHops) ==
  /\ f[0] = {<<from>>} /\ \A k \in 1 .. maxHops : f[k] = LongerWalks(g, f[k - 1])

\* A longer walk is one too.
LEMMA WalkGrows ==
  ASSUME NEW g, NEW from, NEW w, WalkFrom(g, from, w), NEW n \in Neighbours(g, {Last(w)})
  PROVE  WalkFrom(g, from, Append(w, n))
<1> DEFINE a == Append(w, n)
<1>1. n \in Nodes(g) /\ w \in Seq(Nodes(g)) /\ Len(w) \in Nat /\ Len(w) >= 1
  BY DEF WalkFrom, Neighbours
<1>2. /\ a \in Seq(Nodes(g)) /\ Len(a) = Len(w) + 1 /\ a[Len(w) + 1] = n
      /\ \A i \in 1 .. Len(w) : a[i] = w[i]
  BY <1>1
<1>3. Last(w) = w[Len(w)]
  BY DEF Last
<1> HIDE DEF a
<1>4. a[1] = from
  BY <1>1, <1>2 DEF WalkFrom
<1>5. ASSUME NEW i \in 1 .. Len(a) - 1 PROVE a[i + 1] \in Neighbours(g, {a[i]})
  <2>1. CASE i = Len(w)
    <3>1. a[i] = Last(w) /\ a[i + 1] = n
      BY <1>1, <1>2, <1>3, <2>1
    <3> QED
      BY <3>1
  <2>2. CASE i # Len(w)
    <3>1. i \in 1 .. Len(w) - 1 /\ i \in 1 .. Len(w) /\ i + 1 \in 1 .. Len(w)
      BY <1>1, <1>2, <2>2
    <3>2. a[i] = w[i] /\ a[i + 1] = w[i + 1]
      BY <1>2, <3>1
    <3> QED
      BY <3>1, <3>2 DEF WalkFrom
  <2> QED
    BY <2>1, <2>2
<1>6. WalkFrom(g, from, a)
  BY <1>1, <1>2, <1>4, <1>5 DEF WalkFrom
<1> QED
  BY <1>6 DEF a

\* What is found is a walk between the two.
LEMMA ShortestIsWalk ==
  ASSUME NEW g, NEW from \in Nodes(g), NEW to, NEW maxHops \in Nat,
         NEW w \in Shortest(g, from, to, maxHops)
  PROVE  WalkFrom(g, from, w) /\ Last(w) = to
<1> DEFINE X == SUBSET Seq(Nodes(g))
           Y == {s \in X : \A v \in s : WalkFrom(g, from, v)}
           G == [k \in Nat |-> [s \in Y |-> LongerWalks(g, s)]]
           c == CHOOSE c : c = [k \in 0 .. maxHops |->
                   IF k = 0 THEN {<<from>>} ELSE LongerWalks(g, c[k - 1])]
           reached == [k \in 0 .. maxHops |-> {v \in c[k] : Last(v) = to}]
           lengths == {k \in 1 .. maxHops : reached[k] # {}}
<1>1. Shortest(g, from, to, maxHops) = IF lengths = {} THEN {} ELSE reached[Min(lengths)]
  BY DEF Shortest, LongerWalks
<1>2. WalkFrom(g, from, <<from>>)
  BY DEF WalkFrom
<1>3. {<<from>>} \in Y
  BY <1>2 DEF WalkFrom
<1>4. ASSUME NEW s \in Y PROVE LongerWalks(g, s) \in Y
  <2>1. ASSUME NEW x \in LongerWalks(g, s) PROVE WalkFrom(g, from, x)
    <3>1. PICK v \in s : x \in {Append(v, n) : n \in Neighbours(g, {Last(v)})}
      BY DEF LongerWalks
    <3>2. PICK n \in Neighbours(g, {Last(v)}) : x = Append(v, n)
      BY <3>1
    <3> QED
      BY <3>2, WalkGrows
  <2>2. LongerWalks(g, s) \subseteq Seq(Nodes(g))
    BY <2>1 DEF WalkFrom
  <2> QED
    BY <2>1, <2>2
<1>5. G \in [Nat -> [Y -> Y]] /\ \A k \in Nat, s \in Y : G[k][s] = LongerWalks(g, s)
  <2> HIDE DEF Y
  <2> QED
    BY <1>4
<1>6. c = [k \in 0 .. maxHops |-> IF k = 0 THEN {<<from>>} ELSE LongerWalks(g, c[k - 1])]
  <2> HIDE DEF Y, G
  <2>1. PICK f : Recursion(f, Y, {<<from>>}, G, maxHops)
    BY <1>3, <1>5, RecursionExists
  <2>2. ASSUME NEW k \in 1 .. maxHops PROVE f[k] = LongerWalks(g, f[k - 1])
    <3>1. k \in Nat /\ k - 1 \in 0 .. maxHops
      OBVIOUS
    <3>2. f[k - 1] \in Y
      BY <2>1, <3>1 DEF Recursion
    <3> QED
      BY <1>5, <2>1, <3>1, <3>2 DEF Recursion
  <2>3. f = [k \in 0 .. maxHops |-> IF k = 0 THEN {<<from>>} ELSE LongerWalks(g, f[k - 1])]
    BY <2>1, <2>2 DEF Recursion
  <2> QED
    BY <2>3
<1> HIDE DEF c
<1> DEFINE S == {k \in Nat : c[k] \in Y}
<1>7. 0 \in S
  <2>1. c[0] = {<<from>>}
    BY <1>6
  <2> QED
    BY <1>3, <2>1
<1>8. ASSUME NEW k \in 0 .. (maxHops - 1), k \in S PROVE k + 1 \in S
  <2>1. k + 1 \in 0 .. maxHops /\ k + 1 # 0 /\ (k + 1) - 1 = k /\ k + 1 \in Nat
    OBVIOUS
  <2>2. c[k + 1] = LongerWalks(g, c[k])
    BY <1>6, <2>1
  <2>3. c[k] \in Y
    BY <1>8
  <2>4. c[k + 1] \in Y
    BY <1>4, <2>2, <2>3
  <2> QED
    BY <2>1, <2>4
<1>9. 0 .. maxHops \subseteq S
  <2>1. S \in SUBSET Nat
    OBVIOUS
  <2> HIDE DEF S
  <2> QED
    BY <1>7, <1>8, <2>1, NumbersFollow
<1>10. lengths # {} /\ w \in reached[Min(lengths)]
  BY <1>1
<1>11. Min(lengths) \in lengths
  <2>1. PICK m \in lengths : \A j \in lengths : m <= j
    <3>1. lengths \in SUBSET Nat
      OBVIOUS
    <3> HIDE DEF lengths
    <3> QED
      BY <1>10, <3>1, LeastElement
  <2> HIDE DEF lengths
  <2> QED
    BY <2>1 DEF Min
<1>12. PICK k \in 0 .. maxHops : w \in reached[k]
  <2>1. Min(lengths) \in 0 .. maxHops
    BY <1>11
  <2> QED
    BY <1>10, <2>1
<1>13. w \in c[k] /\ Last(w) = to /\ k \in S
  BY <1>9, <1>12
<1> QED
  BY <1>13

\* A walk without hollow nodes is shown as it is.
LEMMA WalkIsShown ==
  ASSUME NEW g, NEW w \in Seq(Nodes(g)), g.hollow \cap ToSet(w) = {}
  PROVE  path(g, w).ordered = w
<1> DEFINE X == Seq(Nodes(g))
           one(h, s) == IF w[h] \in g.hollow THEN s ELSE Append(s, w[h])
           G == [h \in Nat |-> [s \in X |-> IF h \in 1 .. Len(w) THEN one(h, s) ELSE s]]
           c == CHOOSE c : c = [i \in 0 .. Len(w) |-> IF i = 0 THEN <<>>
                   ELSE IF w[i] \in g.hollow THEN c[i - 1] ELSE Append(c[i - 1], w[i])]
<1>1. path(g, w).ordered = c[Len(w)]
  BY DEF path
<1>2. Len(w) \in Nat /\ \A i \in 1 .. Len(w) : w[i] \in Nodes(g) /\ w[i] \notin g.hollow
  BY DEF ToSet
<1>3. G \in [Nat -> [X -> X]]
  BY <1>2
<1>4. \A h \in 1 .. Len(w), s \in X : G[h][s] = Append(s, w[h])
  BY <1>2
<1>5. c = [i \in 0 .. Len(w) |-> IF i = 0 THEN <<>>
             ELSE IF w[i] \in g.hollow THEN c[i - 1] ELSE Append(c[i - 1], w[i])]
  <2>1. <<>> \in X
    OBVIOUS
  <2> HIDE DEF X, G, c
  <2>2. PICK f : Recursion(f, X, <<>>, G, Len(w))
    BY <1>2, <1>3, <2>1, RecursionExists
  <2>3. ASSUME NEW h \in 1 .. Len(w) PROVE f[h] = Append(f[h - 1], w[h])
    <3>1. h - 1 \in 0 .. Len(w)
      BY <1>2
    <3>2. f[h - 1] \in X
      BY <2>2, <3>1 DEF Recursion
    <3> QED
      BY <1>4, <2>2, <3>2 DEF Recursion
  <2>4. f = [i \in 0 .. Len(w) |-> IF i = 0 THEN <<>>
               ELSE IF w[i] \in g.hollow THEN f[i - 1] ELSE Append(f[i - 1], w[i])]
    BY <1>2, <2>2, <2>3 DEF Recursion
  <2> QED
    BY <2>4 DEF c
<1> HIDE DEF c, G
<1>6. c[0] = <<>>
  BY <1>2, <1>5
<1>7. ASSUME NEW h \in 1 .. Len(w) PROVE c[h] = Append(c[h - 1], w[h])
  <2>1. h \in 0 .. Len(w) /\ h # 0
    BY <1>2
  <2> QED
    BY <1>2, <1>5, <2>1
<1> DEFINE Upto(h) == c[h] \in X /\ Len(c[h]) = h /\ \A j \in 1 .. h : c[h][j] = w[j]
           S == {h \in 0 .. Len(w) : Upto(h)}
<1>8. 0 \in S
  <2>1. <<>> \in X /\ Len(<<>>) = 0 /\ 1 .. 0 = {}
    OBVIOUS
  <2>2. Upto(0)
    BY <1>6, <2>1
  <2> QED
    BY <1>2, <2>2
<1>9. ASSUME NEW h \in 0 .. (Len(w) - 1), h \in S PROVE h + 1 \in S
  <2> DEFINE s == c[h]
             t == c[h + 1]
  <2>1. h + 1 \in 1 .. Len(w) /\ (h + 1) - 1 = h /\ h + 1 \in 0 .. Len(w) /\ h \in Nat
    BY <1>2
  <2>2. t = Append(s, w[h + 1]) /\ w[h + 1] \in Nodes(g)
    BY <1>2, <1>7, <2>1
  <2>3. s \in X /\ Len(s) = h /\ \A j \in 1 .. h : s[j] = w[j]
    BY <1>9
  <2> HIDE DEF s, t
  <2>4. t \in X /\ Len(t) = h + 1 /\ \A j \in 1 .. (h + 1) : t[j] = w[j]
    BY <2>1, <2>2, <2>3
  <2> QED
    BY <2>1, <2>4 DEF t
<1>10. Len(w) \in S
  <2>1. S \in SUBSET Nat /\ Len(w) \in 0 .. Len(w)
    BY <1>2
  <2> HIDE DEF S
  <2> QED
    BY <1>2, <1>8, <1>9, <2>1, NumbersFollow
<1>11. c[Len(w)] \in X /\ Len(c[Len(w)]) = Len(w) /\ \A j \in 1 .. Len(w) : c[Len(w)][j] = w[j]
  BY <1>10
<1>12. c[Len(w)] = w
  BY <1>11
<1> QED
  BY <1>1, <1>12

\* A path is shown from end to end.
THEOREM PathsAreJoined ==
  ASSUME NEW g, GraphOf(g), NEW from \in Nodes(g), NEW to, NEW maxHops \in Nat
  PROVE  PathJoined(g, from, to, maxHops)
<1> SUFFICES ASSUME NEW w \in Shortest(g, from, to, maxHops), g.hollow \cap ToSet(w) = {}
             PROVE  /\ path(g, w).ordered[1] = from /\ Last(path(g, w).ordered) = to
                    /\ \A i \in 1 .. Len(path(g, w).ordered) - 1 : \E l \in path(g, w).links :
                         l.source = path(g, w).ordered[i] /\ l.target = path(g, w).ordered[i + 1]
                    /\ \A l \in path(g, w).links :
                         /\ \E k \in g.links : {k.source, k.target} = {l.source, l.target}
                         /\ l.type = relationship(g, l.source, l.target)
  BY DEF PathJoined
<1>1. /\ w \in Seq(Nodes(g)) /\ Len(w) \in Nat /\ Len(w) >= 1 /\ w[1] = from /\ Last(w) = to
      /\ \A i \in 1 .. Len(w) - 1 : w[i + 1] \in Neighbours(g, {w[i]})
  BY ShortestIsWalk DEF WalkFrom
<1>2. path(g, w).ordered = w
  BY <1>1, WalkIsShown
<1> DEFINE link(i) == [source |-> w[i], target |-> w[i + 1], type |-> relationship(g, w[i], w[i + 1])]
<1>3. path(g, w).links = {link(i) : i \in 1 .. Len(w) - 1}
  <2>1. path(g, w).links =
          {[source |-> path(g, w).ordered[i], target |-> path(g, w).ordered[Following(i)],
            type |-> relationship(g, w[i], w[i + 1])] :
             i \in {j \in 1 .. Len(w) - 1 : Following(j) <= Len(path(g, w).ordered)}}
    BY DEF path
  <2>2. {j \in 1 .. Len(w) - 1 : Following(j) <= Len(w)} = 1 .. Len(w) - 1
    BY <1>1 DEF Following
  <2> QED
    BY <1>2, <2>1, <2>2 DEF Following
<1>4. ASSUME NEW i \in 1 .. Len(w) - 1
      PROVE  /\ link(i) \in path(g, w).links /\ link(i).source = w[i] /\ link(i).target = w[i + 1]
             /\ link(i).type = relationship(g, link(i).source, link(i).target)
             /\ \E k \in g.links : {k.source, k.target} = {link(i).source, link(i).target}
  <2>1. PICK k \in g.links : \/ k.source = w[i + 1] /\ k.target = w[i]
                             \/ k.target = w[i + 1] /\ k.source = w[i]
    BY <1>1 DEF Neighbours
  <2>2. {k.source, k.target} = {w[i], w[i + 1]}
    BY <2>1
  <2> QED
    BY <1>3, <2>2
<1> HIDE DEF link
<1>5. \A i \in 1 .. Len(w) - 1 : \E l \in path(g, w).links : l.source = w[i] /\ l.target = w[i + 1]
  BY <1>4
<1>6. ASSUME NEW l \in path(g, w).links
      PROVE  /\ \E k \in g.links : {k.source, k.target} = {l.source, l.target}
             /\ l.type = relationship(g, l.source, l.target)
  <2>1. PICK i \in 1 .. Len(w) - 1 : l = link(i)
    BY <1>3
  <2> QED
    BY <1>4, <2>1
<1>7. Len(path(g, w).ordered) = Len(w)
  BY <1>2
<1> QED
  BY <1>1, <1>2, <1>5, <1>6, <1>7

\* The links that are asked about lead from a user or a software to a host.
LEMMA LinksAreSided ==
  ASSUME NEW m \in Nat, NEW kind \in [1 .. m -> Kinds], NEW links \in SUBSET Links(kind), NEW hollow
  PROVE  /\ GraphOf(Graph(kind, links, hollow)) /\ Sided(Graph(kind, links, hollow))
         /\ Nodes(Graph(kind, links, hollow)) = 1 .. m
<1> DEFINE g == Graph(kind, links, hollow)
<1>1. g.kind = kind /\ g.links = links /\ Nodes(g) = 1 .. m
  BY DEF Graph, Nodes
<1>2. /\ \A l \in links : l \in [source: 1 .. m, target: 1 .. m]
      /\ \A l \in links : kind[l.source] # "host" /\ kind[l.target] = "host"
  BY DEF Links
<1>3. IsFiniteSet(1 .. m)
  <2>1. 1 \in Int /\ m \in Int
    OBVIOUS
  <2> QED
    BY <2>1, FS_Interval
<1>4. IsFiniteSet(links)
  <2>1. IsFiniteSet((1 .. m) \X (1 .. m))
    BY <1>3, FS_Product
  <2> DEFINE f == [p \in (1 .. m) \X (1 .. m) |-> [source |-> p[1], target |-> p[2]]]
             all == {f[p] : p \in (1 .. m) \X (1 .. m)}
  <2>2. links \subseteq all
    <3> SUFFICES ASSUME NEW l \in links PROVE l \in all
      OBVIOUS
    <3>1. l = [source |-> l.source, target |-> l.target] /\ l.source \in 1 .. m /\ l.target \in 1 .. m
      BY <1>2
    <3>2. <<l.source, l.target>> \in (1 .. m) \X (1 .. m) /\ f[<<l.source, l.target>>] = l
      BY <3>1
    <3> HIDE DEF f
    <3> QED
      BY <3>2
  <2>3. IsFiniteSet(all)
    <3>1. f \in Surjection((1 .. m) \X (1 .. m), all)
      BY DEF Surjection
    <3> HIDE DEF f, all
    <3> QED
      BY <2>1, <3>1, FS_Surjection
  <2> HIDE DEF all
  <2> QED
    BY <2>2, <2>3, FS_Subset
<1> HIDE DEF g
<1>5. GraphOf(g) /\ Sided(g)
  BY <1>1, <1>2, <1>3, <1>4 DEF GraphOf, Sided
<1> QED
  BY <1>1, <1>5 DEF g

\* There are as many types as kinds at most.
LEMMA FewTypes ==
  ASSUME NEW m \in Nat, NEW kind \in [1 .. m -> Kinds], NEW g, g.kind = kind
  PROVE  Cardinality(types(g)) <= 3
<1>1. types(g) \subseteq {"host"} \cup {"user"} \cup {"software"}
  BY DEF types, Nodes, Kinds
<1>2. /\ IsFiniteSet({"host"}) /\ Cardinality({"host"}) = 1
      /\ IsFiniteSet({"user"}) /\ Cardinality({"user"}) = 1
      /\ IsFiniteSet({"software"}) /\ Cardinality({"software"}) = 1
  BY FS_Singleton
<1> DEFINE two == {"host"} \cup {"user"}
           three == two \cup {"software"}
<1>3. IsFiniteSet(two) /\ IsFiniteSet(three) /\ Cardinality(three) <= 3
  <2>1. \A A, B : IsFiniteSet(A) /\ IsFiniteSet(B) =>
          /\ IsFiniteSet(A \cup B)
          /\ Cardinality(A \cup B) \in Nat
          /\ Cardinality(A \cup B) <= Cardinality(A) + Cardinality(B)
    <3> SUFFICES ASSUME NEW A, NEW B, IsFiniteSet(A), IsFiniteSet(B)
                 PROVE  /\ IsFiniteSet(A \cup B) /\ Cardinality(A \cup B) \in Nat
                        /\ Cardinality(A \cup B) <= Cardinality(A) + Cardinality(B)
      OBVIOUS
    <3>1. /\ IsFiniteSet(A \cup B) /\ IsFiniteSet(A \cap B)
          /\ Cardinality(A \cup B) = Cardinality(A) + Cardinality(B) - Cardinality(A \cap B)
      BY FS_Union, FS_Intersection
    <3>2. Cardinality(A) \in Nat /\ Cardinality(B) \in Nat /\ Cardinality(A \cap B) \in Nat
          /\ Cardinality(A \cup B) \in Nat
      BY <3>1, FS_CardinalityType
    <3> QED
      BY <3>1, <3>2
  <2>2. IsFiniteSet(two) /\ Cardinality(two) \in Nat /\ Cardinality(two) <= 2
    BY <1>2, <2>1
  <2> HIDE DEF two
  <2>3. /\ IsFiniteSet(three) /\ Cardinality(three) \in Nat
        /\ Cardinality(three) <= Cardinality(two) + Cardinality({"software"})
    BY <1>2, <2>1, <2>2
  <2> HIDE DEF three
  <2> QED
    BY <1>2, <2>2, <2>3
<1>4. types(g) \subseteq three
  BY <1>1
<1> HIDE DEF three
<1>5. Cardinality(types(g)) <= Cardinality(three) /\ Cardinality(types(g)) \in Nat
      /\ Cardinality(three) \in Nat
  BY <1>3, <1>4, FS_Subset, FS_CardinalityType
<1> QED
  BY <1>3, <1>5

\* What AskSample, AskWalk and AskRadius ask is among what the theorems are about.
LEMMA AskedOfGraphs ==
  ASSUME Next
  PROVE  /\ About("sample")' => /\ GraphOf(asked'.g) /\ asked'.limit \in Nat \ {0}
                                /\ Cardinality(types(asked'.g)) <= asked'.limit
         /\ About("surroundings")' \/ About("path")' =>
              /\ GraphOf(asked'.g) /\ Sided(asked'.g)
              /\ asked'.from \in Nodes(asked'.g) /\ asked'.hops \in Nat
         /\ About("radius")' => /\ GraphOf(asked'.g)
                                /\ DOMAIN asked'.q = {"kind", "id", "team", "labelled", "excluded"}
                                /\ asked'.q = [i \in DOMAIN asked'.q |-> asked'.q[i]]
<1>1. ASSUME About("sample")'
      PROVE  /\ GraphOf(asked'.g) /\ asked'.limit \in Nat \ {0}
             /\ Cardinality(types(asked'.g)) <= asked'.limit
  <2>1. PICK kind \in [1 .. 5 -> Kinds], limit \in 3 .. 4 : \E links \in SUBSET Links(kind) :
          asked' = [about |-> "sample", g |-> Graph(kind, links, {}), limit |-> limit]
    BY <1>1, Asking, Zenon DEF AskSample, Ask
  <2>2. PICK links \in SUBSET Links(kind) :
          asked' = [about |-> "sample", g |-> Graph(kind, links, {}), limit |-> limit]
    BY <2>1
  <2> DEFINE g == Graph(kind, links, {})
  <2>3. g.kind = kind /\ 5 \in Nat
    BY DEF Graph
  <2>few. Cardinality(types(g)) <= 3
    <3> HIDE DEF g
    <3> QED
      BY <2>3, FewTypes, Zenon
  <2>4. GraphOf(g)
    BY <2>3, LinksAreSided
  <2> HIDE DEF g
  <2>5. Cardinality(types(g)) <= 3 /\ Cardinality(types(g)) \in Nat
    <3>1. IsFiniteSet(types(g))
      <4>1. \A n \in Nodes(g) : g.kind[n] \in types(g)
        BY DEF types
      <4>2. [n \in Nodes(g) |-> g.kind[n]] \in Surjection(Nodes(g), types(g))
        BY <4>1 DEF Surjection, types
      <4> QED
        BY <2>4, <4>2, FS_Surjection DEF GraphOf
    <3> QED
      BY <2>few, <3>1, FS_CardinalityType
  <2>6. asked'.g = g /\ asked'.limit = limit
    BY <2>2 DEF g
  <2> QED
    BY <2>4, <2>5, <2>6
<1>2. ASSUME About("surroundings")' \/ About("path")'
      PROVE  /\ GraphOf(asked'.g) /\ Sided(asked'.g)
             /\ asked'.from \in Nodes(asked'.g) /\ asked'.hops \in Nat
  <2>1. PICK links \in SUBSET Links(TwoHosts), hollow \in {{}, {1}, {3}}, from \in 1 .. 5,
             to \in 1 .. 5, hops \in 1 .. 3 :
          asked' = [about |-> IF from = to THEN "surroundings" ELSE "path",
                    g |-> Graph(TwoHosts, links, hollow), from |-> from, to |-> to, hops |-> hops]
    BY <1>2, Asking, Zenon DEF AskWalk, Ask
  <2>2. TwoHosts \in [1 .. 5 -> Kinds] /\ 5 \in Nat
    BY DEF TwoHosts, Kinds
  <2>3. /\ GraphOf(Graph(TwoHosts, links, hollow)) /\ Sided(Graph(TwoHosts, links, hollow))
        /\ Nodes(Graph(TwoHosts, links, hollow)) = 1 .. 5
    BY <2>2, LinksAreSided
  <2>4. /\ asked'.g = Graph(TwoHosts, links, hollow) /\ asked'.from = from /\ asked'.hops = hops
    BY <2>1
  <2>5. hops \in Nat
    OBVIOUS
  <2> QED
    BY <2>3, <2>4, <2>5
<1>3. ASSUME About("radius")'
      PROVE  /\ GraphOf(asked'.g)
             /\ DOMAIN asked'.q = {"kind", "id", "team", "labelled", "excluded"}
             /\ asked'.q = [i \in DOMAIN asked'.q |-> asked'.q[i]]
  <2>1. PICK links \in SUBSET Links(Office), teamOf \in Teams, id \in {4, 6}, team \in {"all", "t1"},
             labelled \in {1 .. 3, {1, 3}}, excluded \in {{}, {5}} :
          asked' = [about |-> "radius", g |-> Graph(Office, links, {}), teamOf |-> teamOf,
                    q |-> [kind |-> Office[id], id |-> id, team |-> team, labelled |-> labelled,
                           excluded |-> excluded]]
    BY <1>3, Asking, Zenon DEF AskRadius, Ask
  <2>2. Office \in [1 .. 6 -> Kinds] /\ 6 \in Nat
    BY DEF Office, Kinds
  <2>3. GraphOf(Graph(Office, links, {}))
    BY <2>2, LinksAreSided
  <2> DEFINE q == [kind |-> Office[id], id |-> id, team |-> team, labelled |-> labelled,
                   excluded |-> excluded]
  <2>4. DOMAIN q = {"kind", "id", "team", "labelled", "excluded"} /\ q = [i \in DOMAIN q |-> q[i]]
    OBVIOUS
  <2>5. asked'.g = Graph(Office, links, {}) /\ asked'.q = q
    BY <2>1
  <2> HIDE DEF q
  <2> QED
    BY <2>3, <2>4, <2>5
<1> QED
  BY <1>1, <1>2, <1>3

\* What a route cuts from a graph to show it is whole, or known to be cut
\* (ShownHolds).
THEOREM WhatIsShownHolds == Spec => []ShownHolds
<1>1. Init => ShownHolds
  BY DEF Init, ShownHolds, Balanced, WholeOrCut, EndToEnd, InScope, About
<1>2. ASSUME Next PROVE ShownHolds'
  <2>1. Balanced'
    <3> SUFFICES ASSUME About("sample")' PROVE SampleBalanced(asked'.g, asked'.limit)
      BY Zenon DEF Balanced
    <3> QED
      BY <1>2, AskedOfGraphs, SamplesAreBalanced, Zenon
  <2>2. WholeOrCut'
    <3> SUFFICES ASSUME About("surroundings")'
                 PROVE  SurroundingsWhole(asked'.g, asked'.from, asked'.hops)
      BY Zenon DEF WholeOrCut
    <3> QED
      BY <1>2, AskedOfGraphs, SurroundingsAreWhole, Zenon
  <2>3. EndToEnd'
    <3> SUFFICES ASSUME About("path")' PROVE PathJoined(asked'.g, asked'.from, asked'.to, asked'.hops)
      BY Zenon DEF EndToEnd
    <3> QED
      BY <1>2, AskedOfGraphs, PathsAreJoined, Zenon
  <2>4. InScope'
    <3> SUFFICES ASSUME About("radius")' PROVE RadiusInScope(asked'.g, asked'.teamOf, asked'.q)
      BY Zenon DEF InScope
    <3> QED
      BY <1>2, AskedOfGraphs, RadiiAreInScope, Zenon
  <2> QED
    BY <2>1, <2>2, <2>3, <2>4 DEF ShownHolds
<1>3. ShownHolds /\ [Next]_asked => ShownHolds'
  <2>1. ShownHolds /\ UNCHANGED asked => ShownHolds'
    BY DEF ShownHolds, Balanced, WholeOrCut, EndToEnd, InScope, About
  <2> QED
    BY <1>2, <2>1
<1> QED
  BY <1>1, <1>3, PTL DEF Spec
=============================================================================
