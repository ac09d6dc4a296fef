---------------------------- MODULE StoreFetch ----------------------------
(***************************************************************************)
(* The anonymous store adapters (internal/extintel/stores.go): what a      *)
(* lookup makes of the answers of a store's endpoints.  An answer is the   *)
(* class of an HTTP response the code tells apart; the listing facts of a  *)
(* page (names, counts, dates) are left out, the outcome is kept: the      *)
(* status, whether an error is set, whether the store limits its rate, and *)
(* what became of the package.                                             *)
(***************************************************************************)
EXTENDS Naturals, FiniteSets

\* Responses: "ok" well formed, "bad" a 200 that cannot be used, "void" a 200
\* without a result, "large" a 200 over the size cap, "429" also a 503 with
\* Retry-After, "5xx" any other server error, "net" no response at all.
Transient == {"429", "5xx", "net"}
Endpoint == {"ok", "bad", "void", "404", "401"} \cup Transient
PackageResponse == {"ok", "404", "large", "void"} \cup Transient
Update == {"update", "noupdate", "error", "noelement", "bad", "404"} \cup Transient

ChromeFamily == {"chrome", "brave", "vivaldi", "chromium"}

\* A package: how its header reads and what its manifest entry is.
Package == [header: {"zip", "crx2", "crx3", "crx9", "short", "beyond"},
            zip: BOOLEAN, files: {"few", "many"},
            manifest: {"none", "large", "text", "object"}, hash: BOOLEAN]

Meta(s) == [status |-> s, error |-> FALSE, limited |-> FALSE, missing |-> FALSE,
            manifest |-> "none"]
Unknown == [Meta("unknown") EXCEPT !.error = TRUE]
WithError(s) == [Meta(s) EXCEPT !.error = TRUE]
Limited(m) == [m EXCEPT !.error = TRUE, !.limited = TRUE]

\* markRateLimited: 429, or 503 with Retry-After.
RateLimited(r) == r = "429"

\* parseCRX: the manifest of a CRX2, CRX3 or ZIP payload; only the manifest
\* entry is unpacked, and only up to a cap.
Parsed(p) ==
  /\ p.header \in {"zip", "crx2", "crx3"}
  /\ p.zip /\ p.files = "few" /\ p.manifest = "object"

\* A version's manifest may be on disk already; its package is then not asked
\* for.
FromCache(m) == [m EXCEPT !.manifest = "cached"]
-----------------------------------------------------------------------------
\* Chrome: the batched listing RPC, then update2 for what it does not list.

\* RPC envelopes of one ID: a payload, a payload of another shape, a code, or
\* none at all.
Envelope == {"payload", "drift", "code5", "code7", "code8", "code13", "absent"}

\* Answers of the listing RPC about one ID.
FetchChromeListings(rpc, env) ==
  IF RateLimited(rpc) THEN Limited(Meta("unknown"))
  ELSE IF rpc # "ok" THEN Unknown
  ELSE CASE env = "payload" -> [Meta("public") EXCEPT !.manifest = "parsed"]
         [] env = "code5" -> [Meta("unlisted") EXCEPT !.missing = TRUE]
         [] env = "code7" -> Meta("removed")
         [] env = "code8" -> Limited(Meta("unknown"))
         [] OTHER -> Unknown

\* The package of an unlisted item.
ChromePackage(m, resp, p) ==
  CASE resp = "large" -> [m EXCEPT !.manifest = "unavailable"]
    [] resp # "large" /\ resp # "ok" -> [m EXCEPT !.manifest = "error"]
    [] resp = "ok" -> [m EXCEPT !.manifest =
                         IF p.hash /\ Parsed(p) THEN "parsed" ELSE "error"]

FetchChromeMetadata(listing, r) ==
  IF ~listing.missing THEN listing
  ELSE IF RateLimited(r.update) THEN Limited(Meta("unknown"))
  ELSE CASE r.update \in {"net", "5xx", "404", "bad"} -> Unknown
         [] r.update \in {"error", "noelement"} -> WithError("not_found")
         [] r.update \in {"update", "noupdate"} /\ r.cached -> FromCache(Meta("unlisted"))
         [] r.update = "noupdate" /\ ~r.cached -> [Meta("unlisted") EXCEPT !.manifest = "unavailable"]
         [] OTHER -> ChromePackage(Meta("unlisted"), r.crx, r.package)

Chrome(r) == FetchChromeMetadata(FetchChromeListings(r.rpc, r.env), r)
-----------------------------------------------------------------------------
\* The other stores ask their own endpoint.

\* Edge's listing carries the manifest; one without it is taken as it is.

EdgeWithoutLimit(r) ==
  CASE r.own \in {"404", "void"} -> WithError("not_found")
    [] r.own \in {"net", "5xx", "401", "bad", "429"} -> Unknown
    [] r.own = "ok" -> [Meta("public") EXCEPT !.manifest = IF r.bare THEN "none" ELSE "parsed"]
fetchEdgeMetadata(r) ==
  CASE RateLimited(r.own) -> Limited(Meta("unknown"))
    [] r.own \in {"404", "void"} -> WithError("not_found")
    [] r.own \in {"net", "5xx", "401", "bad"} -> Unknown
    [] r.own = "ok" -> [Meta("public") EXCEPT !.manifest = IF r.bare THEN "none" ELSE "parsed"]

amoPackageOrListing(m, resp, p) ==
  CASE resp # "ok" -> m
    [] resp = "ok" /\ p.hash /\ Parsed(p) -> [m EXCEPT !.manifest = "parsed"]
    [] OTHER -> [m EXCEPT !.manifest = "error"]
\* What the AMO package adds; the API's own permissions stay.
amoPackageManifest(m, resp, p) ==
  CASE resp # "ok" -> [m EXCEPT !.manifest = "unavailable"]
    [] resp = "ok" /\ p.hash /\ Parsed(p) -> [m EXCEPT !.manifest = "parsed"]
    [] OTHER -> [m EXCEPT !.manifest = "error"]

\* A record: its status, and whether it is flagged as disabled besides.
Record == [status: {"public", "unlisted", "self", "disabled", "removed", "deleted"},
           disabled: BOOLEAN]
Withdrawn(record) == record.disabled \/ record.status \in {"disabled", "removed", "deleted"}

StatusAlone(record) ==
  CASE record.status \in {"disabled", "removed", "deleted"} -> "removed"
    [] record.status \in {"unlisted", "self"} -> "unlisted"
    [] OTHER -> "public"
recordStatus(record) ==
  CASE Withdrawn(record) -> "removed"
    [] ~Withdrawn(record) /\ record.status \in {"unlisted", "self"} -> "unlisted"
    [] OTHER -> "public"

fetchAMOMetadata(r) ==
  CASE RateLimited(r.own) -> Limited(Meta("unknown"))
    [] r.own = "401" -> WithError("unlisted")
    [] r.own = "404" -> WithError("not_found")
    [] r.own \in {"net", "5xx", "bad", "void"} -> Unknown
    [] r.own = "ok" /\ r.cached -> FromCache(Meta(recordStatus(r.record)))
    [] OTHER -> amoPackageManifest(Meta(recordStatus(r.record)), r.crx, r.package)

\* A listing page that is not the one asked for is drift, not a miss.  A
\* package that cannot be had just now leaves the item for the next cycle.
fetchOperaMetadata(r) ==
  CASE RateLimited(r.own) -> Limited(Meta("unknown"))
    [] r.own = "404" -> WithError("not_found")
    [] r.own \in {"net", "5xx", "401", "bad", "void"} -> Unknown
    [] r.own = "ok" /\ r.cached -> FromCache(Meta("public"))
    [] r.own = "ok" /\ ~r.cached ->
         CASE RateLimited(r.addon) -> Limited(Meta("public"))
           [] r.addon \in {"net", "5xx"} -> Unknown
           [] r.addon = "large" -> [Meta("public") EXCEPT !.manifest = "unavailable"]
           [] r.addon \in {"404", "void"} -> [Meta("public") EXCEPT !.manifest = "error"]
           [] r.addon = "ok" -> [Meta("public") EXCEPT !.manifest =
                                 IF Parsed(r.package) THEN "parsed" ELSE "error"]

\* An app outside the App Store is a normal channel, not a missing item.
fetchSafariMetadata(r) ==
  CASE RateLimited(r.own) -> Limited(Meta("unknown"))
    [] r.own \in {"net", "5xx", "404", "401", "bad"} -> Unknown
    [] r.own = "void" -> Meta("off_store")
    [] r.own = "ok" -> Meta("public")

EdgeOrWhatever(r) ==
  LET own == fetchEdgeMetadata(r)
  IN IF own.status = "not_found" /\ Chrome(r).status \notin {"not_found", "unknown"}
     THEN Chrome(r) ELSE own
\* Edge and Opera install from the Chrome Web Store too.
EdgeOrChrome(r) ==
  LET own == fetchEdgeMetadata(r)
  IN IF own.status = "not_found" /\ Chrome(r).status # "not_found"
     THEN Chrome(r) ELSE own

OperaOrChrome(r) ==
  LET own == fetchOperaMetadata(r)
  IN IF /\ own.status # "public" /\ ~own.limited
        /\ Chrome(r).status \notin {"not_found", "unknown"}
     THEN Chrome(r) ELSE own

FetchStoreMetadata(store, r) ==
  CASE store \in ChromeFamily -> Chrome(r)
    [] store = "edge" -> EdgeOrChrome(r)
    [] store = "opera" -> OperaOrChrome(r)
    [] store = "safari" -> fetchSafariMetadata(r)
    [] store = "firefox" -> fetchAMOMetadata(r)

\* What the worker makes of it (listingFor): a limited answer trips the
\* breaker, an unknown one with an error is a failure, the rest is kept.
Kept(m) == ~m.limited /\ ~(m.status = "unknown" /\ m.error)
-----------------------------------------------------------------------------
\* The answers a lookup really waited for.
AskedChrome(store, r) ==
  \/ store \in ChromeFamily
  \/ store = "edge" /\ fetchEdgeMetadata(r).status = "not_found"
  \/ store = "opera" /\ fetchOperaMetadata(r).status # "public" /\ ~fetchOperaMetadata(r).limited
ChromeHeard(r) ==
  {r.rpc} \cup (IF FetchChromeListings(r.rpc, r.env).missing THEN {r.update} ELSE {})
Heard(store, r) ==
  (IF store \in ChromeFamily THEN {} ELSE {r.own}) \cup
  (IF AskedChrome(store, r) THEN ChromeHeard(r) ELSE {})

\* A store that was out of reach for a moment is not a store that does not
\* know the item: no verdict against an item (not found, removed, off the
\* store) is kept from a lookup one of whose listing endpoints failed on the
\* way.  Opera is left out: by its comment a failure of the Chrome Web Store
\* keeps Opera's own miss.
MissConfirmed(store, r) ==
  LET m == FetchStoreMetadata(store, r)
  IN store # "opera" /\ Kept(m) /\ m.status \in {"not_found", "removed", "off_store"}
       => Heard(store, r) \cap Transient = {}

\* The store that was asked says that it took the item down.
TakenDown(store, r) ==
  \/ AskedChrome(store, r) /\ r.rpc = "ok" /\ r.env = "code7"
  \/ store = "firefox" /\ r.own = "ok" /\ Withdrawn(r.record)

\* A rate limit of a listing endpoint always reaches the worker's breaker, so
\* the rest of the store is left alone in this cycle.  Opera's fallback is
\* left out for the same reason.
LimitReported(store, r) ==
  "429" \in Heard(store, r) /\ store # "opera" => FetchStoreMetadata(store, r).limited
=============================================================================
