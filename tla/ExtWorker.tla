----------------------------- MODULE ExtWorker -----------------------------
(***************************************************************************)
(* The extension-intelligence worker (internal/extworker).  A cycle loads  *)
(* the threat feed and Mozilla's blocklist through a disk cache with       *)
(* conditional requests, plans the extensions whose inputs changed or      *)
(* whose store listing is due, and drains them in chunks: one batched      *)
(* lookup for the Chrome family, then the items of the chunk in parallel,  *)
(* then one write by key and one by name.  There is no record of what is   *)
(* left to do but the fingerprint on the nodes and the age of the copies.  *)
(*                                                                         *)
(* A listing is the number of its published version, a list is the set of  *)
(* the extensions on it; how either becomes a score is in Algorithms.      *)
(***************************************************************************)
EXTENDS Naturals, FiniteSets, FiniteSetsExt

CONSTANTS
  Items,       \* groups of extension nodes, one per canonical key
  Listings,    \* cache keys of store listings
  ListingOf,   \* the listing an item is looked up under; Safari extensions
               \* of one app share theirs
  Local,       \* items without a lookup: built in, no ID, or no adapter
  StoreOf,     \* the store of a listing
  Chrome,      \* listings answered by the batched lookup
  Suspects,    \* items the lists may come to name
  Named,       \* legacy items written by name, not by key
  Rank,        \* order of the items by the number of hosts that have them
  BatchSize,   \* items per chunk
  MaxVersion,  \* bound on the versions of a listing or an extension
  MaxChanges,  \* bound on the changes of the world and the agings of copies
  MaxFaults,   \* bound on the failures of a behaviour
  Faults,      \* kinds of failures that happen
  None         \* no copy, no ETag, no fingerprint

FaultKinds == {"db", "list", "lookup", "limit", "disk", "torn", "loss",
               "panic", "kill", "stop"}
Docs == {"feed", "blocklist"}
Version == 0 .. MaxVersion

ASSUME ItemsAssumption ==
  /\ Local \subseteq Items /\ Named \subseteq Items /\ Suspects \subseteq Items
  /\ Chrome \subseteq Listings /\ ListingOf \in [Items \ Local -> Listings]
  /\ Rank \in [Items -> Nat]
ASSUME BoundsAssumption ==
  /\ BatchSize \in Nat \ {0} /\ MaxVersion \in Nat
  /\ MaxChanges \in Nat /\ MaxFaults \in Nat
ASSUME FaultsAssumption == Faults \subseteq FaultKinds

VARIABLES
  published,  \* what each list says now: its number v and the items on it
  listing,    \* the version each store lists now
  host,       \* the version of each extension on the hosts
  changes,    \* changes and agings so far
  quiet,      \* the world has stopped changing and nothing fails any more
  faults,     \* failures so far
  copy,       \* disk: the last good copy of each list
  etag,       \* disk: the ETag kept next to it
  fresh,      \* lists whose copy is younger than its TTL
  unsaved,    \* history: lists whose last contents were used and not written
  torn,       \* history: those of them whose ETag was written
  cache,      \* disk: listing copies with the host versions seen
  aged,       \* listings whose copy is older than its TTL
  node,       \* graph: fingerprint and score of each item
  offlist,    \* history: items off the blocklist since they were marked bad
  pc,         \* where the loop is
  at,         \* the list being loaded
  got,        \* its new contents, between the fetch and the two writes
  held,       \* the contents of the lists this cycle uses
  work,       \* the plan of this cycle
  todo,       \* planned items not yet in a chunk
  chunk,      \* the items in hand
  job,        \* progress of each item in hand
  tripped,    \* stores rate limited in this cycle
  cancelled   \* the server is shutting down

world == <<published, listing, host, changes, quiet>>
lists == <<copy, etag, fresh, unsaved, torn>>
copies == <<cache, aged>>
graph == <<node, offlist>>
loading == <<at, got, held>>
cycle == <<work, todo, chunk, job, tripped>>
vars == <<world, faults, lists, copies, graph, pc, loading, cycle, cancelled>>

Verdict == [host: Version, entry: BOOLEAN, hit: BOOLEAN]
Meta == [kind: {"listed"}, version: Version] \cup [kind: {"local", "unknown"}]
ListCopy == [v: Nat, on: SUBSET Items]
Copy == [version: Version, seen: SUBSET Version]
Stamp == [base: Verdict, cached: Copy \cup {None}]
Score == [base: Verdict, listing: Meta]
Answer == [kind: {"ok"}, version: Version] \cup
          [kind: {"failed", "limited", "missing", "none"}]
State == {"", "local", "cached", "fetched", "failed", "stale", "deferred"}
Job == [step: {"idle", "todo", "asked", "told", "done"}, pre: Answer,
        saw: Copy \cup {None}, answer: Answer, state: State, meta: Meta,
        row: [fp: Stamp, score: Score] \cup {None}]

\* No copy and no score is taken for one.
ASSUME NoneAssumption == None \notin Nat /\ None \notin ListCopy /\ None \notin Score

Said(k) == [kind |-> k]
Listed(v) == [kind |-> "listed", version |-> v]
Ok(l) == [kind |-> "ok", version |-> listing[l]]
IdleJob == [step |-> "idle", pre |-> Said("none"), saw |-> None,
            answer |-> Said("none"), state |-> "", meta |-> Said("unknown"),
            row |-> None]
NoList == [d \in Docs |-> {}]

Failing(k) == k \in Faults /\ ~quiet /\ faults < MaxFaults
Fault(k) == Failing(k) /\ faults' = faults + 1
NoFault == UNCHANGED faults
-----------------------------------------------------------------------------
Init ==
  /\ published = [d \in Docs |-> [v |-> 0, on |-> {}]]
  /\ listing = [l \in Listings |-> 0] /\ host = [i \in Items |-> 0]
  /\ changes = 0 /\ quiet = FALSE /\ faults = 0
  /\ copy = [d \in Docs |-> None] /\ etag = [d \in Docs |-> None] /\ fresh = {}
  /\ unsaved = {} /\ torn = {}
  /\ cache = [l \in Listings |-> None] /\ aged = {}
  /\ node = [i \in Items |-> [fp |-> None, score |-> None]] /\ offlist = {}
  /\ pc = "off" /\ at = "feed" /\ got = None /\ held = NoList
  /\ work = <<>> /\ todo = {} /\ chunk = {}
  /\ job = [i \in Items |-> IdleJob] /\ tripped = {} /\ cancelled = FALSE

\* The world: the stores, the lists and the hosts change, copies age.

worker == <<pc, loading, cycle, cancelled>>

Changes ==
  /\ ~quiet /\ changes < MaxChanges /\ changes' = changes + 1
  /\ UNCHANGED <<quiet, faults, lists, copies, node, worker>>

Publish(l) ==
  /\ Changes
  /\ listing[l] < MaxVersion
  /\ listing' = [listing EXCEPT ![l] = @ + 1]
  /\ UNCHANGED <<published, host, offlist>>

Upgrade(i) ==
  /\ Changes
  /\ host[i] < MaxVersion
  /\ host' = [host EXCEPT ![i] = @ + 1]
  /\ UNCHANGED <<published, listing, offlist>>

\* The lists name other extensions too, so none of them is ever empty.
Relist(d, i) ==
  /\ Changes
  /\ published' = [published EXCEPT ![d] =
       [v |-> @.v + 1, on |-> IF i \in @.on THEN @.on \ {i} ELSE @.on \cup {i}]]
  /\ offlist' = offlist \cup (Items \ published'["blocklist"].on)
  /\ UNCHANGED <<listing, host>>

Age ==
  /\ ~quiet /\ changes < MaxChanges /\ changes' = changes + 1
  /\ \/ \E l \in Listings \ aged :
          cache[l] # None /\ aged' = aged \cup {l} /\ UNCHANGED fresh
     \/ fresh # {} /\ fresh' = {} /\ UNCHANGED aged
  /\ UNCHANGED <<published, listing, host, quiet, faults, copy, etag, unsaved, torn,
                 cache, graph, worker>>

\* A copy is found unreadable; its ETag is in another file.
Lose(d) ==
  /\ copy[d] # None /\ Fault("loss")
  /\ copy' = [copy EXCEPT ![d] = None] /\ fresh' = fresh \ {d}
  /\ UNCHANGED <<world, etag, unsaved, torn, copies, graph, worker>>

\* From here on nothing changes or fails.  By then every TTL has run out;
\* what is refreshed afterwards stays young.
Quieten ==
  /\ ~quiet /\ pc \in {"off", "idle"} /\ quiet' = TRUE
  /\ aged' = Listings /\ fresh' = {}
  /\ UNCHANGED <<published, listing, host, changes, faults, copy, etag, unsaved,
                 torn, cache, graph, worker>>
-----------------------------------------------------------------------------
\* The loop, and the ways out of a cycle.

NoCycle == /\ at' = "feed" /\ got' = None /\ held' = NoList
           /\ work' = <<>> /\ todo' = {} /\ chunk' = {}
           /\ job' = [i \in Items |-> IdleJob] /\ tripped' = {}

EndCycle ==
  /\ pc' = IF cancelled THEN "off" ELSE "idle"
  /\ cancelled' = FALSE
  /\ NoCycle

Start ==
  /\ pc = "off" /\ pc' = "idle"
  /\ UNCHANGED <<world, faults, lists, copies, graph, loading, cycle, cancelled>>

Kill ==
  /\ pc # "off" /\ Fault("kill")
  /\ pc' = "off" /\ cancelled' = FALSE
  /\ NoCycle
  /\ UNCHANGED <<world, lists, copies, graph>>

Stop ==
  /\ pc # "off" /\ ~cancelled /\ Fault("stop")
  /\ IF pc = "idle" THEN pc' = "off" /\ UNCHANGED cancelled
                    ELSE cancelled' = TRUE /\ UNCHANGED pc
  /\ UNCHANGED <<world, lists, copies, graph, loading, cycle>>

DbFails == Fault("db") \/ (cancelled /\ NoFault)

\* The count of the hosts may fail and end the cycle before it began.
runCycle ==
  /\ pc = "idle"
  /\ \/ NoFault /\ pc' = "lists"
     \/ Fault("db") /\ UNCHANGED pc
  /\ UNCHANGED <<world, lists, copies, graph, loading, cycle, cancelled>>

\* Use contents s for the list at hand and go on with the next one.
Hold(s) ==
  /\ held' = [held EXCEPT ![at] = s] /\ got' = None
  /\ IF at = "feed" THEN at' = "blocklist" /\ pc' = "lists"
                    ELSE at' = at /\ pc' = "plan"
  /\ UNCHANGED <<cycle, cancelled>>

UseNothing == Hold({})
\* An expired copy beats none.  Without a copy the feed is left out, and
\* without a blocklist there is no cycle.
UseStale == IF copy[at] # None THEN Hold(copy[at].on)
            ELSE IF at = "feed" THEN Hold({}) ELSE EndCycle

validators == IF copy[at] = None THEN None ELSE etag[at]

UseFreshList ==
  /\ pc = "lists" /\ at \in fresh
  /\ Hold(copy[at].on)
  /\ UNCHANGED <<world, faults, lists, copies, graph>>

\* 304: the copy is confirmed and its TTL starts again.
NotModified ==
  /\ pc = "lists" /\ at \notin fresh /\ ~cancelled
  /\ validators = published[at].v
  /\ fresh' = IF copy[at] = None THEN fresh ELSE fresh \cup {at}
  /\ UseStale
  /\ UNCHANGED <<world, faults, copy, etag, unsaved, torn, copies, graph>>

FetchList ==
  /\ pc = "lists" /\ at \notin fresh /\ ~cancelled
  /\ validators # published[at].v
  /\ got' = published[at] /\ pc' = "doc"
  /\ UNCHANGED <<world, faults, lists, copies, graph, at, held, cycle, cancelled>>

FetchListFails ==
  /\ pc = "lists" /\ at \notin fresh
  /\ Fault("list") \/ (cancelled /\ NoFault)
  /\ UseStale
  /\ UNCHANGED <<world, lists, copies, graph>>

SaveDocOrLog ==
  /\ pc = "doc" /\ pc' = "meta"
  /\ \/ /\ NoFault /\ copy' = [copy EXCEPT ![at] = got] /\ fresh' = fresh \cup {at}
     \/ Fault("disk") /\ UNCHANGED <<copy, fresh>>
  /\ UNCHANGED <<world, etag, unsaved, torn, copies, graph, loading, cycle, cancelled>>
\* conditionalFetch writes the copy, then its ETag; a failed write is logged
\* and the fetched contents are used all the same.
SaveDoc ==
  /\ pc = "doc"
  /\ \/ /\ NoFault /\ pc' = "meta"
        /\ copy' = [copy EXCEPT ![at] = got] /\ fresh' = fresh \cup {at}
        /\ unsaved' = unsaved \ {at} /\ torn' = torn \ {at}
        /\ UNCHANGED <<loading, cycle, cancelled>>
     \/ /\ Fault("disk") /\ Hold(got.on)
        /\ unsaved' = unsaved \cup {at} /\ UNCHANGED <<copy, fresh, torn>>
     \/ /\ Fault("torn") /\ pc' = "meta"
        /\ unsaved' = unsaved \cup {at} /\ torn' = torn \cup {at}
        /\ UNCHANGED <<copy, fresh, loading, cycle, cancelled>>
  /\ UNCHANGED <<world, etag, copies, graph>>

SaveMeta ==
  /\ pc = "meta"
  /\ \/ NoFault /\ etag' = [etag EXCEPT ![at] = got.v]
     \/ Fault("disk") /\ UNCHANGED etag
  /\ Hold(got.on)
  /\ UNCHANGED <<world, copy, fresh, unsaved, torn, copies, graph>>
-----------------------------------------------------------------------------
\* Planning.

KnownBad(i) == node[i].score # None /\ node[i].score.base.entry
HitShown(i) == node[i].score # None /\ node[i].score.base.hit

fingerprint(i) == [host |-> host[i], entry |-> i \in held["blocklist"],
                   hit |-> i \in held["feed"]]
withListing(i, base) ==
  [base |-> base, cached |-> IF i \in Local THEN None ELSE cache[ListingOf[i]]]

newHit(i) == LET b == fingerprint(i)
             IN (b.entry /\ ~KnownBad(i)) \/ (b.hit /\ ~HitShown(i))

DueUnlessAged(i) ==
  /\ i \notin Local
  /\ LET l == ListingOf[i]
     IN \/ cache[l] = None \/ newHit(i)
        \/ host[i] > cache[l].version /\ host[i] \notin cache[l].seen
listingDue(i) ==
  /\ i \notin Local
  /\ LET l == ListingOf[i]
     IN \/ cache[l] = None \/ l \in aged \/ newHit(i)
        \/ host[i] > cache[l].version /\ host[i] \notin cache[l].seen

changedItem(i) == node[i].fp # withListing(i, fingerprint(i))

Planned == {i \in Items : listingDue(i) \/ changedItem(i)}

plan ==
  /\ pc = "plan"
  /\ \/ /\ NoFault /\ pc' = "chunks"
        /\ todo' = Planned
        /\ work' = [i \in Planned |-> [base |-> fingerprint(i), due |-> listingDue(i),
                                       changed |-> changedItem(i)]]
        /\ UNCHANGED <<loading, chunk, job, tripped, cancelled>>
     \/ DbFails /\ EndCycle
  /\ UNCHANGED <<world, lists, copies, graph>>
-----------------------------------------------------------------------------
\* Chunks.

BreakerOfFamily(l) == IF l \in Chrome THEN "Chrome" ELSE StoreOf[l]
\* A rate limit found by one lookup makes the rest of its store wait.  Every
\* Chrome-family store shares one breaker; another store has its own.
breakerKey(l) == IF l \in Chrome THEN "chrome" ELSE StoreOf[l]
Breakers == {"chrome"} \cup {StoreOf[l] : l \in Listings}

chromeDue(i) == work[i].due /\ i \notin Local /\ ListingOf[i] \in Chrome

Answers(i) == {Ok(ListingOf[i])} \cup (IF Failing("lookup") THEN {Said("failed")} ELSE {})
                \cup (IF Failing("limit") THEN {Said("limited")} ELSE {})
Costs(a) == faults' = IF a.kind \in {"failed", "limited"} THEN faults + 1 ELSE faults

\* The batched lookup answers for the chunk as a whole; a listing it does not
\* know is asked for by itself later.
prefetchChrome(c) ==
  LET ids == {i \in c : chromeDue(i)}
      Take(f) == job' = [i \in Items |-> IF i \in c
                   THEN [IdleJob EXCEPT !.step = "todo", !.pre = f[i]] ELSE IdleJob]
      All(a) == [i \in Items |-> IF i \in ids THEN a ELSE Said("none")]
  IN IF ids = {} \/ "chrome" \in tripped
     THEN Take(All(Said("none"))) /\ NoFault /\ UNCHANGED tripped
     ELSE \/ /\ ~cancelled /\ NoFault /\ UNCHANGED tripped
             /\ \E missing \in SUBSET ids :
                  Take([i \in Items |-> IF i \notin ids THEN Said("none")
                          ELSE IF i \in missing THEN Said("missing")
                          ELSE Ok(ListingOf[i])])
          \/ /\ Fault("lookup") \/ (cancelled /\ NoFault)
             /\ Take(All(Said("failed"))) /\ UNCHANGED tripped
          \/ /\ Fault("limit") /\ tripped' = tripped \cup {"chrome"}
             /\ Take(All(Said("limited")))

BeginChunk ==
  /\ pc = "chunks" /\ todo # {} /\ ~cancelled
  /\ \E c \in kSubset(Min({BatchSize, Cardinality(todo)}), todo) :
       /\ \A i \in c, j \in todo \ c : Rank[i] <= Rank[j]
       /\ chunk' = c /\ todo' = todo \ c /\ prefetchChrome(c)
  /\ pc' = "items"
  /\ UNCHANGED <<world, lists, copies, graph, loading, work, cancelled>>

Finish ==
  /\ pc = "chunks" /\ (todo = {} \/ cancelled)
  /\ EndCycle
  /\ UNCHANGED <<world, faults, lists, copies, graph>>

Tell(i, s, m) ==
  job' = [job EXCEPT ![i].step = "told", ![i].state = s, ![i].meta = m]

\* No answer: the last good listing if there is one.
FallBack(i, saw, good, none) ==
  IF saw # None THEN Tell(i, good, Listed(saw.version)) ELSE Tell(i, none, Said("unknown"))

\* The part of listingFor before the store is asked.
listingFor(i) ==
  LET l == ListingOf[i]
      saved == cache[l] # None /\ ~work[i].due
  IN
  /\ job[i].step = "todo" /\ ~cancelled
  /\ \/ i \in Local /\ Tell(i, "local", Said("local")) /\ NoFault
     \/ /\ i \notin Local /\ saved
        /\ Tell(i, "cached", Listed(cache[l].version)) /\ NoFault
     \/ /\ i \notin Local /\ ~saved /\ breakerKey(l) \in tripped
        /\ FallBack(i, cache[l], "stale", "deferred") /\ NoFault
     \/ /\ i \notin Local /\ ~saved /\ breakerKey(l) \notin tripped
        /\ \E a \in IF job[i].pre.kind \in {"none", "missing"}
                    THEN Answers(i) ELSE {job[i].pre} :
             /\ job' = [job EXCEPT ![i].step = "asked", ![i].answer = a, ![i].saw = cache[l]]
             /\ IF a = job[i].pre THEN NoFault ELSE Costs(a)
  /\ UNCHANGED <<world, lists, copies, graph, pc, loading, work, todo, chunk,
                 tripped, cancelled>>

\* Items not started when the server stops are left for the next cycle.
Defer(i) ==
  /\ job[i].step = "todo" /\ cancelled
  /\ job' = [job EXCEPT ![i].step = "done", ![i].state = "deferred"]
  /\ UNCHANGED <<world, faults, lists, copies, graph, pc, loading, work, todo,
                 chunk, tripped, cancelled>>

\* The host versions seen are kept while the listed version stays.
Merged(i, saw, v) ==
  [version |-> v, seen |-> {work[i].base.host} \cup
     (IF saw # None /\ saw.version = v THEN saw.seen ELSE {})]

AnsweredBefore(i) ==
  LET l == ListingOf[i]
      a == job[i].answer
      saw == job[i].saw
  IN
  /\ job[i].step = "asked"
  /\ \/ /\ a.kind = "limited" /\ tripped' = tripped \cup {breakerKey(l)}
        /\ FallBack(i, saw, "stale", "deferred")
        /\ NoFault /\ UNCHANGED copies
     \/ /\ a.kind = "failed" /\ FallBack(i, saw, "failed", "failed")
        /\ NoFault /\ UNCHANGED <<tripped, copies>>
     \/ /\ a.kind = "ok" /\ FallBack(i, saw, "fetched", "fetched")
        /\ \/ /\ NoFault /\ aged' = aged \ {l}
              /\ cache' = [cache EXCEPT ![l] = Merged(i, saw, a.version)]
           \/ Fault("disk") /\ UNCHANGED copies
        /\ UNCHANGED tripped
  /\ UNCHANGED <<world, lists, graph, pc, loading, work, todo, chunk, cancelled>>
\* The part of listingFor after the answer.
Answered(i) ==
  LET l == ListingOf[i]
      a == job[i].answer
      saw == job[i].saw
  IN
  /\ job[i].step = "asked"
  /\ \/ /\ a.kind = "limited" /\ tripped' = tripped \cup {breakerKey(l)}
        /\ FallBack(i, saw, "stale", "deferred")
        /\ NoFault /\ UNCHANGED copies
     \/ /\ a.kind = "failed" /\ FallBack(i, saw, "failed", "failed")
        /\ NoFault /\ UNCHANGED <<tripped, copies>>
     \/ /\ a.kind = "ok" /\ Tell(i, "fetched", Listed(a.version))
        /\ \/ /\ NoFault /\ aged' = aged \ {l}
              /\ cache' = [cache EXCEPT ![l] = Merged(i, saw, a.version)]
           \/ Fault("disk") /\ UNCHANGED copies
        /\ UNCHANGED tripped
  /\ UNCHANGED <<world, lists, graph, pc, loading, work, todo, chunk, cancelled>>

localHit(i) == work[i].base.entry \/ work[i].base.hit

\* Nothing is written for an item that waits, or that is as it was.
Skips(i) ==
  \/ job[i].state = "deferred" /\ ~(work[i].changed /\ localHit(i))
  \/ job[i].state \in {"cached", "local", "stale"} /\ ~work[i].changed

\* The fingerprint is taken again: the lookup may have replaced the copy.
scoreItem(i) ==
  /\ job[i].step = "told"
  /\ \/ /\ NoFault
        /\ job' = [job EXCEPT ![i].step = "done",
             ![i].row = IF Skips(i) THEN None
               ELSE [fp |-> withListing(i, work[i].base),
                     score |-> [base |-> work[i].base, listing |-> job[i].meta]]]
     \/ Fault("panic") /\ job' = [job EXCEPT ![i].step = "done"]
  /\ UNCHANGED <<world, lists, copies, graph, pc, loading, work, todo, chunk,
                 tripped, cancelled>>

Rows(names) == {i \in chunk : job[i].row # None /\ (i \in Named <=> names)}

Write(is) ==
  /\ node' = [i \in Items |-> IF i \in is THEN job[i].row ELSE node[i]]
  /\ offlist' = {i \in Items : /\ i \in offlist
                               /\ i \in is => i \notin published["blocklist"].on}

ChunkDone == /\ pc' = "chunks" /\ chunk' = {} /\ job' = [i \in Items |-> IdleJob]

\* writeRows: by key first; if that fails the rows by name are not tried.
WriteByKey ==
  /\ pc = "items" /\ \A i \in chunk : job[i].step = "done"
  /\ \/ /\ NoFault /\ ~cancelled /\ Write(Rows(FALSE))
        /\ pc' = "names" /\ UNCHANGED <<chunk, job>>
     \/ DbFails /\ ChunkDone /\ UNCHANGED graph
  /\ UNCHANGED <<world, lists, copies, loading, work, todo, tripped, cancelled>>

WriteByName ==
  /\ pc = "names" /\ ChunkDone
  /\ \/ NoFault /\ ~cancelled /\ Write(Rows(TRUE))
     \/ DbFails /\ UNCHANGED graph
  /\ UNCHANGED <<world, lists, copies, loading, work, todo, tripped, cancelled>>
-----------------------------------------------------------------------------
World == \/ \E l \in Listings : Publish(l)
         \/ \E i \in Items : Upgrade(i)
         \/ \E d \in Docs, i \in Suspects : Relist(d, i)
         \/ Age
         \/ \E d \in Docs : Lose(d)
         \/ Quieten

ListStep == UseFreshList \/ NotModified \/ FetchList \/ FetchListFails \/ SaveDoc \/ SaveMeta

ItemStep(i) == listingFor(i) \/ Defer(i) \/ Answered(i) \/ scoreItem(i)

CycleStep == \/ Start \/ runCycle \/ ListStep \/ plan \/ BeginChunk \/ Finish
             \/ \E i \in Items : ItemStep(i)
             \/ WriteByKey \/ WriteByName

Next == World \/ CycleStep \/ Kill \/ Stop

Spec == Init /\ [][Next]_vars
FairSpec == Spec /\ WF_vars(CycleStep)
-----------------------------------------------------------------------------
\* Every variable has its type.
TypeOK ==
  /\ published \in [Docs -> ListCopy] /\ listing \in [Listings -> Version]
  /\ host \in [Items -> Version] /\ changes \in Nat /\ quiet \in BOOLEAN
  /\ faults \in Nat
  /\ copy \in [Docs -> ListCopy \cup {None}] /\ etag \in [Docs -> Nat \cup {None}]
  /\ fresh \subseteq Docs /\ unsaved \subseteq Docs /\ torn \subseteq unsaved
  /\ cache \in [Listings -> Copy \cup {None}] /\ aged \subseteq Listings
  /\ node \in [Items -> [fp: Stamp \cup {None}, score: Score \cup {None}]]
  /\ offlist \subseteq Items
  /\ pc \in {"off", "idle", "lists", "doc", "meta", "plan", "chunks", "items", "names"}
  /\ at \in Docs /\ got \in ListCopy \cup {None} /\ held \in [Docs -> SUBSET Items]
  /\ todo \subseteq Items /\ chunk \subseteq Items
  /\ DOMAIN work \subseteq Items
  /\ \A i \in DOMAIN work : work[i] \in [base: Verdict, due: BOOLEAN, changed: BOOLEAN]
  /\ job \in [Items -> Job]
  /\ tripped \subseteq Breakers /\ cancelled \in BOOLEAN

\* The ETag next to a copy is never newer than the copy, so a 304 confirms
\* what is on disk: conditionalFetch writes the copy first, and a crash, a
\* full disk or a lost copy in between leaves an old ETag at worst.  Only if
\* the copy alone cannot be written does the code store the new ETag.
EtagTruthful ==
  \A d \in Docs \ torn :
    copy[d] # None /\ etag[d] # None => etag[d] <= copy[d].v

SharesListing(i) ==
  \E j \in Items \ (Local \cup {i}) : i \notin Local /\ ListingOf[j] = ListingOf[i]

\* A node stamped with a copy of a listing was scored from that listing or a
\* later one, if no other item shares it: an item whose lookup failed, waited
\* or was not saved must not look done to the next plan.
FingerprintTruthful ==
  \A i \in Items :
    (node[i].fp # None /\ ~SharesListing(i)) =>
      /\ node[i].fp.base = node[i].score.base
      /\ node[i].fp.cached # None =>
           /\ node[i].score.listing.kind = "listed"
           /\ node[i].fp.cached.version <= node[i].score.listing.version

\* Once an extension is marked known bad, the mark goes only if Mozilla's
\* list has been without it since: no failed fetch, lost copy or restart
\* scores it against an empty list, nor against an older one unless the newer
\* contents were used and not saved.
KnownBadKept ==
  [][\A i \in Items : KnownBad(i) /\ ~KnownBad(i)' =>
       i \in offlist \/ "blocklist" \in unsaved]_vars

UpToDate(i) ==
  node[i].score = [base |-> [host |-> host[i], entry |-> i \in published["blocklist"].on,
                             hit |-> i \in published["feed"].on],
                   listing |-> IF i \in Local THEN Said("local")
                                ELSE Listed(listing[ListingOf[i]])]

\* When nothing changes or fails any more and the TTLs have run out, every
\* item comes to be scored from what its store, the lists and the hosts say,
\* and the plan comes to be empty: nothing is asked for again every cycle.
Converges ==
  <>[](quiet /\ torn = {} => (\A i \in Items : UpToDate(i)) /\ (pc = "plan" => Planned = {}))
=============================================================================
