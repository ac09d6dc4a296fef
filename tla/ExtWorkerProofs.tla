-------------------------- MODULE ExtWorkerProofs --------------------------
(***************************************************************************)
(* Theorems of the extension worker, for any number of extensions and      *)
(* listings, any number of failures, and lists and listings that change    *)
(* without a bound the proofs use.                                         *)
(*                                                                         *)
(* The hard part is that a cycle works on what it loaded: the contents of  *)
(* a list between the fetch and the two files (got), the lists of this     *)
(* cycle (held), the bases they gave the planned items (work) and the      *)
(* answers in hand (job).  Each invariant below follows one kind of fact   *)
(* through these stages to the nodes.                                      *)
(***************************************************************************)
EXTENDS ExtWorker, TLAPS

Loading == {"doc", "meta"}
InChunk == {"items", "names"}
Draining == {"chunks"} \cup InChunk
Scoring == {"plan"} \cup Draining

\* What is in hand at which point of the loop.
InHand ==
  /\ pc \in Loading => got # None
  /\ \A d \in fresh : copy[d] # None
  /\ pc \notin Draining => DOMAIN work = {} /\ todo = {}
  /\ pc \notin InChunk => chunk = {}
  /\ todo \cup chunk \subseteq DOMAIN work
  /\ \A i \in Items \ chunk : job[i].step = "idle" /\ job[i].row = None
  /\ \A i \in Local : job[i].step # "asked"

Typed == TypeOK /\ InHand

\* The numbers of a list only grow from the ETag on disk to the contents in
\* hand to what is published, and once the copy is written it is those
\* contents.
EtagInv ==
  /\ EtagTruthful
  /\ \A d \in Docs : etag[d] # None => etag[d] <= published[d].v
  /\ pc \in Loading => /\ got.v <= published[at].v
                       /\ etag[at] # None => etag[at] <= got.v
  /\ pc = "meta" /\ at \notin torn => copy[at] \in {None, got}

B == "blocklist"

\* Contents of the blocklist that the worker may still score with.
InUse(i) == \/ i \in held[B]
            \/ copy[B] # None /\ i \in copy[B].on
            \/ pc \in Loading /\ at = B /\ i \in got.on

\* An item that is marked and never left the list since is on every copy of
\* the list that may still be used, unless contents were used and not saved;
\* an item on such a copy that is off the list now was seen to leave it.
MarkInv ==
  /\ \A i \in Items : KnownBad(i) /\ i \notin offlist =>
       /\ i \in published[B].on
       /\ pc \in Loading /\ at = B => i \in got.on
       /\ B \notin unsaved => /\ copy[B] # None => i \in copy[B].on
                              /\ pc \in Scoring => i \in held[B]
  /\ \A i \in Items : InUse(i) /\ i \notin published[B].on => i \in offlist
  /\ pc \in Scoring /\ B \notin unsaved /\ copy[B] # None => held[B] = copy[B].on
  /\ \A i \in DOMAIN work : work[i].base.entry <=> i \in held[B]
  /\ \A i \in Items : job[i].row # None => job[i].row.score.base = work[i].base

\* A fingerprint f does not claim more than score s was made from.
Claims(f, s) == /\ f.base = s.base
                /\ f.cached # None => /\ s.listing.kind = "listed"
                                      /\ f.cached.version <= s.listing.version

\* The copy of item i's listing is not newer than what its job knows.
JobInv(i) ==
  LET l == ListingOf[i]  j == job[i]
  IN /\ j.step = "todo" /\ j.pre.kind = "ok" /\ cache[l] # None
          => cache[l].version <= j.pre.version
     /\ j.step = "asked" => /\ j.saw = cache[l]
                            /\ j.answer.kind = "ok" /\ j.saw # None
                                 => j.saw.version <= j.answer.version
     /\ j.step = "told" /\ cache[l] # None
          => j.meta.kind = "listed" /\ cache[l].version <= j.meta.version

\* An answer is not newer than the listing.
Heard(i) == \A a \in {job[i].pre, job[i].answer} :
              a.kind = "ok" => i \notin Local /\ a.version <= listing[ListingOf[i]]

Backed(i) == /\ i \notin Local => JobInv(i)
             /\ job[i].row # None => Claims(job[i].row.fp, job[i].row.score)

\* No copy and no answer is newer than the listing, and of an item that
\* shares its listing with none, the copy is not newer than its answer.
StampInv ==
  /\ FingerprintTruthful
  /\ \A l \in Listings : cache[l] # None => cache[l].version <= listing[l]
  /\ \A i \in Items : Heard(i) /\ (~SharesListing(i) => Backed(i))
-----------------------------------------------------------------------------
\* Every step is one of these.
LEMMA Steps ==
  ASSUME [Next]_vars
  PROVE  \/ \E l \in Listings : Publish(l)
         \/ \E i \in Items : Upgrade(i)
         \/ \E d \in Docs, i \in Suspects : Relist(d, i)
         \/ Age \/ \E d \in Docs : Lose(d)
         \/ Quieten \/ Start \/ runCycle
         \/ UseFreshList \/ NotModified \/ FetchList \/ FetchListFails
         \/ SaveDoc \/ SaveMeta
         \/ plan \/ BeginChunk \/ Finish
         \/ \E i \in Items : listingFor(i) \/ Defer(i) \/ Answered(i) \/ scoreItem(i)
         \/ WriteByKey \/ WriteByName \/ Kill \/ Stop
         \/ UNCHANGED vars
  BY DEF Next, World, CycleStep, ListStep, ItemStep

LEMMA IdleJobTyped == IdleJob \in Job /\ IdleJob.step = "idle" /\ IdleJob.row = None
  BY DEF IdleJob, Job, Said, Answer, Meta, State

\* A cycle that is over leaves nothing in hand.
LEMMA NothingInHand ==
  ASSUME NoCycle
  PROVE  /\ at' \in Docs /\ got' = None /\ held' \in [Docs -> SUBSET Items]
         /\ DOMAIN work' = {} /\ todo' = {} /\ chunk' = {}
         /\ job' \in [Items -> Job]
         /\ \A i \in Items : job[i]'.step = "idle" /\ job[i]'.row = None
         /\ tripped' = {}
<1>1. DOMAIN work' = {}
  BY DEF NoCycle
<1> QED
  BY <1>1, IdleJobTyped DEF NoCycle, NoList, Docs

LEMMA InitTyped == Init => Typed
<1> SUFFICES ASSUME Init PROVE Typed
  OBVIOUS
<1>1. DOMAIN work = {}
  BY DEF Init
<1>2. job \in [Items -> Job] /\ \A i \in Items : job[i].step = "idle" /\ job[i].row = None
  BY IdleJobTyped DEF Init
<1>3. published \in [Docs -> ListCopy]
  BY DEF Init, ListCopy
<1>4. /\ held \in [Docs -> SUBSET Items] /\ 0 \in Version
  BY BoundsAssumption DEF Init, NoList, Version
<1>5. quiet \in BOOLEAN /\ cancelled \in BOOLEAN
  BY Zenon DEF Init
<1>6. TypeOK
  BY <1>1, <1>2, <1>3, <1>4, <1>5 DEF Init, TypeOK, Docs
<1>7. InHand
  BY <1>1, <1>2, ItemsAssumption DEF Init, InHand, Loading, Draining, InChunk
<1> QED
  BY <1>6, <1>7 DEF Typed

\* Going on with contents s of the list at hand keeps what is in hand in order.
LEMMA HoldTyped ==
  ASSUME Typed, NEW s \in SUBSET Items, Hold(s), pc \in {"lists"} \cup Loading
  PROVE  /\ pc' \in {"lists", "plan"} /\ at' \in Docs /\ got' = None
         /\ held' \in [Docs -> SUBSET Items]
         /\ UNCHANGED <<work, todo, chunk, job, tripped, cancelled>>
         /\ DOMAIN work' = {} /\ todo' = {} /\ chunk' = {}
  BY DEF Typed, TypeOK, InHand, Hold, Docs, Loading, Draining, InChunk, cycle

LEMMA EndCycleTyped ==
  ASSUME Typed, EndCycle
  PROVE  /\ pc' \in {"off", "idle"} /\ cancelled' \in BOOLEAN /\ NoCycle
  BY DEF Typed, TypeOK, EndCycle

LEMMA UseStaleTyped ==
  ASSUME Typed, UseStale, pc = "lists"
  PROVE  \/ EndCycle
         \/ \E s \in SUBSET Items : Hold(s)
<1>1. CASE copy[at] # None
  BY <1>1 DEF UseStale, Typed, TypeOK, ListCopy
<1>2. CASE copy[at] = None
  BY <1>2, {} \in SUBSET Items DEF UseStale
<1> QED
  BY <1>1, <1>2

LEMMA FaultsTyped ==
  ASSUME Typed, NEW k, Fault(k) \/ NoFault
  PROVE  faults' \in Nat
  BY DEF Typed, TypeOK, Fault, NoFault

\* What a lookup tells of an item changes nothing else of its job.
LEMMA TellJob ==
  ASSUME Typed, NEW i \in Items, NEW s \in State, NEW m \in Meta, Tell(i, s, m)
  PROVE  /\ job' \in [Items -> Job]
         /\ \A k \in Items \ {i} : job'[k] = job[k]
         /\ job'[i].step = "told" /\ job'[i].state = s /\ job'[i].meta = m
         /\ job'[i].pre = job[i].pre /\ job'[i].saw = job[i].saw
         /\ job'[i].answer = job[i].answer /\ job'[i].row = job[i].row
<1> DEFINE j == [job[i] EXCEPT !.step = "told", !.state = s, !.meta = m]
<1>1. job[i] \in Job /\ job \in [Items -> Job]
  BY DEF Typed, TypeOK
<1>2. j \in Job /\ j.step = "told" /\ j.state = s /\ j.meta = m
      /\ j.pre = job[i].pre /\ j.saw = job[i].saw /\ j.answer = job[i].answer
      /\ j.row = job[i].row
  BY <1>1 DEF Job
<1>3. job' = [job EXCEPT ![i] = j]
  BY <1>1 DEF Tell
<1> HIDE DEF j
<1> QED
  BY <1>1, <1>2, <1>3

\* Listings and answers that the worker comes to have are ones.
LEMMA SaidTyped ==
  /\ \A v \in Version : Listed(v) \in Meta /\ Listed(v).kind = "listed" /\ Listed(v).version = v
  /\ \A k \in {"local", "unknown"} : Said(k) \in Meta
  /\ \A k \in {"failed", "limited", "missing", "none"} : Said(k) \in Answer /\ Said(k).kind = k
  BY DEF Said, Listed, Meta, Answer

LEMMA OkTyped ==
  ASSUME Typed, NEW l \in Listings
  PROVE  Ok(l) \in Answer /\ Ok(l).kind = "ok" /\ Ok(l).version = listing[l]
  BY DEF Ok, Answer, Typed, TypeOK

LEMMA Looked ==
  ASSUME NEW i \in Items \ Local
  PROVE  ListingOf[i] \in Listings
  BY ItemsAssumption

LEMMA FallBackJob ==
  ASSUME Typed, NEW i \in Items, NEW saw \in Copy \cup {None}, NEW good \in State,
         NEW none \in State, FallBack(i, saw, good, none)
  PROVE  \E s \in State, m \in Meta :
           Tell(i, s, m) /\ (saw # None => m = Listed(saw.version))
  BY SaidTyped DEF FallBack, Copy

\* The jobs of a new chunk: to do, with what the batched lookup said.
LEMMA PrefetchJobs ==
  ASSUME Typed, NEW c \in SUBSET Items, prefetchChrome(c)
  PROVE  /\ faults' \in Nat /\ tripped' \subseteq tripped \cup Breakers
         /\ \E f \in [Items -> Answer] :
              /\ job' = [i \in Items |-> IF i \in c
                   THEN [IdleJob EXCEPT !.step = "todo", !.pre = f[i]] ELSE IdleJob]
              /\ \A i \in Items : f[i].kind = "ok" => i \notin Local /\ f[i] = Ok(ListingOf[i])
<1> DEFINE ids == {i \in c : chromeDue(i)}
           Take(f) == job' = [i \in Items |-> IF i \in c
                   THEN [IdleJob EXCEPT !.step = "todo", !.pre = f[i]] ELSE IdleJob]
           All(a) == [i \in Items |-> IF i \in ids THEN a ELSE Said("none")]
           Some(missing) == [i \in Items |-> IF i \notin ids THEN Said("none")
                               ELSE IF i \in missing THEN Said("missing")
                               ELSE Ok(ListingOf[i])]
           Fine(f) == /\ f \in [Items -> Answer]
                      /\ \A i \in Items : f[i].kind = "ok" =>
                           i \notin Local /\ f[i] = Ok(ListingOf[i])
<1>1. \A k \in {"failed", "limited", "none"} : Fine(All(Said(k)))
  BY SaidTyped
<1>2. \A i \in ids : i \in Items \ Local
  BY DEF chromeDue
<1>3. \A missing \in SUBSET ids : Fine(Some(missing))
  BY <1>2, SaidTyped, OkTyped, Looked
<1>4. /\ NoFault \/ Fault("lookup") \/ Fault("limit")
      /\ tripped' \in {tripped, tripped \cup {"chrome"}}
      /\ \/ \E k \in {"failed", "limited", "none"} : Take(All(Said(k)))
         \/ \E missing \in SUBSET ids : Take(Some(missing))
  <2> HIDE DEF Fine
  <2> QED
    BY Zenon DEF prefetchChrome
<1>5. \E f : Fine(f) /\ Take(f)
  <2> HIDE DEF Fine, Take, All, Some, ids
  <2> QED
    BY <1>1, <1>3, <1>4
<1> QED
  BY <1>4, <1>5, FaultsTyped DEF Breakers

LEMMA OneChanged ==
  ASSUME NEW S, NEW T, NEW f \in [S -> T], NEW i \in S, NEW j \in T, NEW g,
         g = [f EXCEPT ![i] = j]
  PROVE  g \in [S -> T] /\ g[i] = j /\ \A k \in S \ {i} : g[k] = f[k]
OBVIOUS

LEMMA AskJob ==
  ASSUME Typed, NEW i \in Items \ Local, NEW a \in Answer,
         job' = [job EXCEPT ![i].step = "asked", ![i].answer = a, ![i].saw = cache[ListingOf[i]]]
  PROVE  /\ job' \in [Items -> Job]
         /\ \A k \in Items \ {i} : job'[k] = job[k]
         /\ job'[i].step = "asked" /\ job'[i].answer = a /\ job'[i].saw = cache[ListingOf[i]]
         /\ job'[i].pre = job[i].pre /\ job'[i].row = job[i].row
<1> DEFINE j == [job[i] EXCEPT !.step = "asked", !.answer = a, !.saw = cache[ListingOf[i]]]
<1>1. job[i] \in Job /\ job \in [Items -> Job] /\ cache[ListingOf[i]] \in Copy \cup {None}
  BY Looked DEF Typed, TypeOK
<1>2. j \in Job /\ j.step = "asked" /\ j.answer = a /\ j.saw = cache[ListingOf[i]]
      /\ j.pre = job[i].pre /\ j.row = job[i].row
  BY <1>1 DEF Job
<1>3. job' = [job EXCEPT ![i] = j]
  BY <1>1
<1>4. i \in Items
  OBVIOUS
<1> HIDE DEF j
<1>5. \A h : h = [job EXCEPT ![i] = j] =>
        h \in [Items -> Job] /\ h[i] = j /\ \A k \in Items \ {i} : h[k] = job[k]
  <2> SUFFICES ASSUME NEW h, h = [job EXCEPT ![i] = j]
               PROVE  h \in [Items -> Job] /\ h[i] = j /\ \A k \in Items \ {i} : h[k] = job[k]
    OBVIOUS
  <2>1. j \in Job
    BY <1>2
  <2> QED
    BY <1>1, <1>4, <2>1, OneChanged, Zenon
<1>6. job' \in [Items -> Job] /\ job'[i] = j /\ \A k \in Items \ {i} : job'[k] = job[k]
  BY <1>3, <1>5, Zenon
<1> QED
  BY <1>2, <1>6, Zenon

LEMMA DoneJob ==
  ASSUME Typed, NEW i \in Items, NEW s \in State,
         NEW r \in [fp: Stamp, score: Score] \cup {None},
         \/ job' = [job EXCEPT ![i].step = "done", ![i].row = r]
         \/ job' = [job EXCEPT ![i].step = "done"]
         \/ job' = [job EXCEPT ![i].step = "done", ![i].state = s]
  PROVE  /\ job' \in [Items -> Job]
         /\ \A k \in Items \ {i} : job'[k] = job[k]
         /\ job'[i].step = "done" /\ job'[i].row \in {r, job[i].row}
         /\ job'[i].pre = job[i].pre /\ job'[i].answer = job[i].answer
<1>1. job[i] \in Job /\ job \in [Items -> Job]
  BY DEF Typed, TypeOK
<1>2. \E j \in Job : /\ job' = [job EXCEPT ![i] = j]
                     /\ j.step = "done" /\ j.row \in {r, job[i].row}
                     /\ j.pre = job[i].pre /\ j.answer = job[i].answer
  <2>1. CASE job' = [job EXCEPT ![i].step = "done", ![i].row = r]
    <3> DEFINE j == [job[i] EXCEPT !.step = "done", !.row = r]
    <3>1. j \in Job /\ j.step = "done" /\ j.row = r
          /\ j.pre = job[i].pre /\ j.answer = job[i].answer
      BY <1>1 DEF Job
    <3>2. job' = [job EXCEPT ![i] = j]
      BY <1>1, <2>1
    <3> QED
      BY <3>1, <3>2
  <2>2. CASE job' = [job EXCEPT ![i].step = "done"]
    <3> DEFINE j == [job[i] EXCEPT !.step = "done"]
    <3>1. j \in Job /\ j.step = "done" /\ j.row = job[i].row
          /\ j.pre = job[i].pre /\ j.answer = job[i].answer
      BY <1>1 DEF Job
    <3>2. job' = [job EXCEPT ![i] = j]
      BY <1>1, <2>2
    <3> QED
      BY <3>1, <3>2
  <2>3. CASE job' = [job EXCEPT ![i].step = "done", ![i].state = s]
    <3> DEFINE j == [job[i] EXCEPT !.step = "done", !.state = s]
    <3>1. j \in Job /\ j.step = "done" /\ j.row = job[i].row
          /\ j.pre = job[i].pre /\ j.answer = job[i].answer
      BY <1>1 DEF Job
    <3>2. job' = [job EXCEPT ![i] = j]
      BY <1>1, <2>3
    <3> QED
      BY <3>1, <3>2
  <2> QED
    BY <2>1, <2>2, <2>3
<1> QED
  BY <1>1, <1>2

\* What scoreItem writes down, when it writes.
RowOf(i) == [fp |-> withListing(i, work[i].base),
             score |-> [base |-> work[i].base, listing |-> job[i].meta]]

LEMMA InHandHasWork ==
  ASSUME Typed, NEW i \in Items, job[i].step # "idle"
  PROVE  /\ i \in chunk /\ i \in DOMAIN work /\ pc \in InChunk
         /\ work[i] \in [base: Verdict, due: BOOLEAN, changed: BOOLEAN]
         /\ work[i].base \in Verdict
  BY DEF Typed, TypeOK, InHand

LEMMA RowTyped ==
  ASSUME Typed, NEW i \in Items, job[i].step # "idle"
  PROVE  RowOf(i) \in [fp: Stamp, score: Score]
<1>1. work[i].base \in Verdict /\ job[i].meta \in Meta
  BY InHandHasWork DEF Typed, TypeOK, Job
<1>2. i \notin Local => cache[ListingOf[i]] \in Copy \cup {None}
  BY Looked DEF Typed, TypeOK
<1> QED
  BY <1>1, <1>2 DEF RowOf, withListing, Stamp, Score

LEMMA MergedTyped ==
  ASSUME Typed, NEW i \in Items, job[i].step # "idle",
         NEW saw \in Copy \cup {None}, NEW v \in Version
  PROVE  Merged(i, saw, v) \in Copy /\ Merged(i, saw, v).version = v
<1>1. work[i].base.host \in Version
  BY InHandHasWork DEF Verdict
<1>2. saw # None => saw.seen \subseteq Version
  BY DEF Copy
<1> QED
  BY <1>1, <1>2 DEF Merged, Copy

\* The steps of an item, as what they do to its job and to its listing's copy.
LEMMA listingForJob ==
  ASSUME Typed, NEW i \in Items, listingFor(i)
  PROVE  /\ job[i].step = "todo" /\ faults' \in Nat
         /\ \/ \E s \in State, m \in Meta :
                 /\ Tell(i, s, m)
                 /\ i \notin Local /\ cache[ListingOf[i]] # None =>
                      m = Listed(cache[ListingOf[i]].version)
            \/ /\ i \notin Local
               /\ \E a \in Answer :
                    /\ job' = [job EXCEPT ![i].step = "asked", ![i].answer = a,
                                         ![i].saw = cache[ListingOf[i]]]
                    /\ a.kind = "ok" => a \in {job[i].pre, Ok(ListingOf[i])}
<1> DEFINE l == ListingOf[i]
<1>1. job[i].step = "todo" /\ job[i].pre \in Answer
  BY DEF listingFor, Typed, TypeOK, Job
<1>2. {"local", "cached", "stale", "deferred"} \subseteq State
  BY DEF State
<1>3. CASE i \in Local /\ Tell(i, "local", Said("local")) /\ NoFault
  BY <1>1, <1>2, <1>3, FaultsTyped, SaidTyped
<1>4. CASE /\ i \notin Local /\ cache[l] # None
           /\ Tell(i, "cached", Listed(cache[l].version)) /\ NoFault
  <2>1. cache[l].version \in Version
    BY <1>4, Looked DEF Typed, TypeOK, Copy
  <2> QED
    BY <1>1, <1>2, <1>4, <2>1, FaultsTyped, SaidTyped
<1>5. CASE /\ i \notin Local
           /\ FallBack(i, cache[l], "stale", "deferred") /\ NoFault
  <2>1. cache[l] \in Copy \cup {None}
    BY <1>5, Looked DEF Typed, TypeOK
  <2> QED
    BY <1>1, <1>2, <1>5, <2>1, FaultsTyped, FallBackJob
<1>6. CASE /\ i \notin Local
           /\ \E a \in IF job[i].pre.kind \in {"none", "missing"}
                       THEN Answers(i) ELSE {job[i].pre} :
                /\ job' = [job EXCEPT ![i].step = "asked", ![i].answer = a, ![i].saw = cache[l]]
                /\ IF a = job[i].pre THEN NoFault ELSE Costs(a)
  <2>1. PICK a \in Answers(i) \cup {job[i].pre} :
          /\ job' = [job EXCEPT ![i].step = "asked", ![i].answer = a, ![i].saw = cache[l]]
          /\ NoFault \/ Costs(a)
    BY <1>6
  <2>2. a \in Answer /\ (a.kind = "ok" => a \in {job[i].pre, Ok(l)})
    BY <1>1, <1>6, SaidTyped, OkTyped, Looked DEF Answers
  <2>3. faults' \in Nat
    BY <2>1 DEF NoFault, Costs, Typed, TypeOK
  <2> QED
    BY <1>1, <1>6, <2>1, <2>2, <2>3
<1> QED
  BY <1>3, <1>4, <1>5, <1>6 DEF listingFor

LEMMA AnsweredJob ==
  ASSUME Typed, NEW i \in Items, Answered(i)
  PROVE  /\ job[i].step = "asked" /\ i \notin Local /\ faults' \in Nat
         /\ tripped' \subseteq tripped \cup Breakers
         /\ \/ \E s \in State, m \in Meta :
                 /\ Tell(i, s, m) /\ UNCHANGED copies
                 /\ job[i].saw # None => m = Listed(job[i].saw.version)
            \/ /\ job[i].answer.kind = "ok" /\ job[i].answer.version \in Version
               /\ \E s \in State : Tell(i, s, Listed(job[i].answer.version))
               /\ \/ UNCHANGED copies
                  \/ \E c \in Copy :
                       /\ c.version = job[i].answer.version
                       /\ cache' = [cache EXCEPT ![ListingOf[i]] = c]
                       /\ aged' \subseteq aged
<1> DEFINE l == ListingOf[i]  a == job[i].answer  saw == job[i].saw
<1>1. job[i].step = "asked" /\ a \in Answer /\ saw \in Copy \cup {None} /\ l \in Listings
  BY Looked DEF Answered, Typed, TypeOK, InHand, Job
<1>2. {"fetched", "failed", "stale", "deferred"} \subseteq State
  BY DEF State
<1>3. breakerKey(l) \in Breakers
  BY <1>1 DEF breakerKey, Breakers
<1>0. i \notin Local
  BY <1>1 DEF Typed, InHand
<1>4. CASE /\ a.kind = "limited" /\ tripped' = tripped \cup {breakerKey(l)}
           /\ FallBack(i, saw, "stale", "deferred")
           /\ NoFault /\ UNCHANGED copies
  BY <1>0, <1>1, <1>2, <1>3, <1>4, FallBackJob, FaultsTyped
<1>5. CASE /\ a.kind = "failed" /\ FallBack(i, saw, "failed", "failed")
           /\ NoFault /\ UNCHANGED <<tripped, copies>>
  BY <1>0, <1>1, <1>2, <1>5, FallBackJob, FaultsTyped
<1>6. CASE /\ a.kind = "ok" /\ Tell(i, "fetched", Listed(a.version))
           /\ \/ /\ NoFault /\ aged' = aged \ {l}
                 /\ cache' = [cache EXCEPT ![l] = Merged(i, saw, a.version)]
              \/ Fault("disk") /\ UNCHANGED copies
           /\ UNCHANGED tripped
  <2>1. a.version \in Version
    BY <1>1, <1>6 DEF Answer
  <2>2. Merged(i, saw, a.version) \in Copy /\ Merged(i, saw, a.version).version = a.version
    BY <1>1, <2>1, MergedTyped
  <2> QED
    BY <1>0, <1>1, <1>2, <1>6, <2>1, <2>2, FaultsTyped
<1> QED
  BY <1>0, <1>4, <1>5, <1>6 DEF Answered

LEMMA NextTyped == Typed /\ [Next]_vars => Typed'
<1> SUFFICES ASSUME Typed, [Next]_vars PROVE Typed'
  OBVIOUS
<1> USE DEF world, lists, copies, graph, loading, cycle, worker
<1>0. 0 \in Version /\ None \notin Nat /\ None \notin ListCopy
  BY BoundsAssumption, NoneAssumption DEF Version
<1>1. ASSUME NEW l \in Listings, Publish(l)
      PROVE  Typed'
  <2>1. listing[l] + 1 \in Version
    BY <1>1, BoundsAssumption DEF Publish, Typed, TypeOK, Version
  <2>2. listing' \in [Listings -> Version]
    BY <1>1, <2>1 DEF Publish, Typed, TypeOK
  <2> QED
    BY <1>1, <2>2 DEF Typed, TypeOK, InHand, Publish, Changes
<1>2. ASSUME NEW i \in Items, Upgrade(i)
      PROVE  Typed'
  <2>1. host[i] + 1 \in Version
    BY <1>2, BoundsAssumption DEF Upgrade, Typed, TypeOK, Version
  <2>2. host' \in [Items -> Version]
    BY <1>2, <2>1 DEF Upgrade, Typed, TypeOK
  <2> QED
    BY <1>2, <2>2 DEF Typed, TypeOK, InHand, Upgrade, Changes
<1>3. ASSUME NEW d \in Docs, NEW i \in Suspects, Relist(d, i)
      PROVE  Typed'
  <2> DEFINE p == [v |-> published[d].v + 1,
                   on |-> IF i \in published[d].on THEN published[d].on \ {i}
                                                   ELSE published[d].on \cup {i}]
  <2>1. published[d] \in ListCopy /\ i \in Items
    BY <1>3, ItemsAssumption DEF Typed, TypeOK
  <2>2. p \in ListCopy
    BY <2>1 DEF ListCopy
  <2>3. published' = [published EXCEPT ![d] = p]
    BY <1>3 DEF Relist
  <2>4. published' \in [Docs -> ListCopy]
    BY <2>2, <2>3 DEF Typed, TypeOK
  <2>5. offlist' \subseteq Items
    BY <1>3 DEF Relist, Typed, TypeOK
  <2> HIDE DEF p
  <2> QED
    BY <1>3, <2>4, <2>5 DEF Typed, TypeOK, InHand, Relist, Changes
<1>4. CASE Age
  BY <1>4 DEF Typed, TypeOK, InHand, Age
<1>5. ASSUME NEW d \in Docs, Lose(d)
      PROVE  Typed'
  BY <1>5 DEF Typed, TypeOK, InHand, Lose, Fault
<1>6. CASE Quieten
  BY <1>6 DEF Typed, TypeOK, InHand, Quieten
<1>7. CASE Start
  BY <1>7 DEF Typed, TypeOK, InHand, Start, Loading, Draining, InChunk
<1>8. CASE runCycle
  <2>1. pc' \in {"idle", "lists"} /\ faults' \in Nat /\ pc = "idle"
    BY <1>8, FaultsTyped DEF runCycle
  <2>2. TypeOK'
    BY <1>8, <2>1 DEF runCycle, Typed, TypeOK
  <2>3. InHand'
    BY <1>8, <2>1 DEF runCycle, Typed, InHand, Loading, Draining, InChunk
  <2> QED
    BY <2>2, <2>3 DEF Typed
<1>9. CASE Stop
  <2>1. pc' \in {"off", pc} /\ pc # "off" /\ cancelled' \in BOOLEAN /\ faults' \in Nat
        /\ (pc' = pc \/ pc = "idle")
    BY <1>9, FaultsTyped DEF Stop, Typed, TypeOK
  <2>2. TypeOK'
    BY <1>9, <2>1 DEF Stop, Typed, TypeOK
  <2>3. InHand'
    BY <1>9, <2>1 DEF Stop, Typed, InHand, Loading, Draining, InChunk
  <2> QED
    BY <2>2, <2>3 DEF Typed
<1>10. CASE Kill
  <2>1. pc' = "off" /\ NoCycle /\ cancelled' = FALSE /\ faults' \in Nat
    BY <1>10, FaultsTyped DEF Kill
  <2> QED
    BY <1>10, <2>1, NothingInHand, ItemsAssumption DEF Kill, Typed, TypeOK, InHand, Loading, Draining, InChunk
<1>11. ASSUME EndCycle, faults' \in Nat, UNCHANGED <<world, copies, graph>>,
              fresh' \subseteq Docs, UNCHANGED <<copy, etag, unsaved, torn>>,
              \A d \in fresh' : copy[d] # None
       PROVE  Typed'
  BY <1>11, EndCycleTyped, NothingInHand, ItemsAssumption DEF Typed, TypeOK, InHand, Loading, Draining, InChunk
<1>12. ASSUME NEW s \in SUBSET Items, Hold(s), pc \in {"lists"} \cup Loading,
              faults' \in Nat, UNCHANGED <<world, copies, graph>>,
              copy' \in [Docs -> ListCopy \cup {None}], etag' \in [Docs -> Nat \cup {None}],
              fresh' \subseteq Docs, unsaved' \subseteq Docs, torn' \subseteq unsaved',
              \A d \in fresh' : copy'[d] # None
       PROVE  Typed'
  BY <1>12, HoldTyped DEF Typed, TypeOK, InHand, Loading, Draining, InChunk
<1>13. CASE UseFreshList
  <2>1. copy[at].on \in SUBSET Items
    BY <1>13 DEF UseFreshList, Typed, TypeOK, InHand, ListCopy
  <2> QED
    BY <1>13, <1>12, <2>1 DEF UseFreshList, Typed, TypeOK, InHand
<1>14. CASE NotModified
  <2>1. /\ pc = "lists" /\ UseStale /\ faults' \in Nat /\ fresh' \subseteq Docs
        /\ \A d \in fresh' : copy[d] # None
        /\ UNCHANGED <<world, copy, etag, unsaved, torn, copies, graph>>
    BY <1>14 DEF NotModified, Typed, TypeOK, InHand
  <2>2. CASE EndCycle
    BY <1>11, <2>1, <2>2
  <2>3. ASSUME NEW s \in SUBSET Items, Hold(s)
        PROVE  Typed'
    BY <1>12, <2>1, <2>3 DEF Typed, TypeOK
  <2> QED
    BY <2>1, <2>2, <2>3, UseStaleTyped
<1>15. CASE FetchListFails
  <2>1. /\ pc = "lists" /\ UseStale /\ faults' \in Nat
        /\ UNCHANGED <<world, lists, copies, graph>>
    BY <1>15, FaultsTyped DEF FetchListFails
  <2>2. CASE EndCycle
    BY <1>11, <2>1, <2>2 DEF Typed, TypeOK, InHand
  <2>3. ASSUME NEW s \in SUBSET Items, Hold(s)
        PROVE  Typed'
    BY <1>12, <2>1, <2>3 DEF Typed, TypeOK, InHand
  <2> QED
    BY <2>1, <2>2, <2>3, UseStaleTyped
<1>16. CASE FetchList
  <2>1. got' \in ListCopy
    BY <1>16 DEF FetchList, Typed, TypeOK
  <2>2. TypeOK'
    BY <1>16, <2>1 DEF FetchList, Typed, TypeOK
  <2>3. InHand'
    BY <1>0, <1>16, <2>1 DEF FetchList, Typed, InHand, Loading, Draining, InChunk
  <2> QED
    BY <2>2, <2>3 DEF Typed
<1>17. CASE SaveDoc
  <2>1. pc = "doc" /\ got \in ListCopy /\ at \in Docs /\ None \notin ListCopy
    BY <1>17, <1>0 DEF SaveDoc, Typed, TypeOK, InHand, Loading
  <2>2. CASE /\ NoFault /\ pc' = "meta"
             /\ copy' = [copy EXCEPT ![at] = got] /\ fresh' = fresh \cup {at}
             /\ unsaved' = unsaved \ {at} /\ torn' = torn \ {at}
             /\ UNCHANGED <<loading, cycle, cancelled>>
    BY <1>17, <2>1, <2>2 DEF NoFault, SaveDoc, Typed, TypeOK, InHand, Loading, Draining, InChunk
  <2>3. CASE /\ Fault("disk") /\ Hold(got.on)
             /\ unsaved' = unsaved \cup {at} /\ UNCHANGED <<copy, fresh, torn>>
    BY <1>17, <1>12, <2>1, <2>3, FaultsTyped DEF SaveDoc, Typed, TypeOK, InHand, ListCopy, Loading
  <2>4. CASE /\ Fault("torn") /\ pc' = "meta"
             /\ unsaved' = unsaved \cup {at} /\ torn' = torn \cup {at}
             /\ UNCHANGED <<copy, fresh, loading, cycle, cancelled>>
    BY <1>17, <2>1, <2>4, FaultsTyped
       DEF SaveDoc, Typed, TypeOK, InHand, Loading, Draining, InChunk
  <2> QED
    BY <1>17, <2>2, <2>3, <2>4 DEF SaveDoc
<1>18. CASE SaveMeta
  <2>1. pc = "meta" /\ got \in ListCopy /\ Hold(got.on) /\ faults' \in Nat
    BY <1>18, FaultsTyped DEF SaveMeta, Typed, TypeOK, InHand, Loading
  <2>2. got.on \in SUBSET Items /\ etag' \in [Docs -> Nat \cup {None}]
    BY <1>18, <2>1 DEF SaveMeta, Typed, TypeOK, ListCopy
  <2> QED
    BY <1>18, <1>12, <2>1, <2>2 DEF SaveMeta, Typed, TypeOK, InHand, Loading
<1>19. CASE plan
  <2>1. CASE DbFails /\ EndCycle
    BY <1>19, <1>11, <2>1, FaultsTyped DEF plan, DbFails, Typed, TypeOK, InHand
  <2>2. CASE ~(DbFails /\ EndCycle)
    <3>1. /\ pc = "plan" /\ pc' = "chunks" /\ todo' = Planned /\ NoFault
          /\ work' = [i \in Planned |-> [base |-> fingerprint(i), due |-> listingDue(i),
                                         changed |-> changedItem(i)]]
          /\ UNCHANGED <<loading, chunk, job, tripped, cancelled, world, lists, copies, graph>>
      BY <1>19, <2>2 DEF plan
    <3>2. Planned \subseteq Items
      BY DEF Planned
    <3>3. \A i \in Items : fingerprint(i) \in Verdict
      BY DEF fingerprint, Verdict, Typed, TypeOK
    <3>4. \A i \in Items : listingDue(i) \in BOOLEAN /\ changedItem(i) \in BOOLEAN
      BY Zenon DEF listingDue, changedItem
    <3>5. \A i \in DOMAIN work' : work'[i] \in [base: Verdict, due: BOOLEAN, changed: BOOLEAN]
      BY <3>1, <3>2, <3>3, <3>4
    <3>6. DOMAIN work' = Planned
      BY <3>1
    <3>7. TypeOK'
      BY <3>1, <3>2, <3>5, <3>6 DEF Typed, TypeOK, NoFault
    <3>8. InHand'
      BY <3>1, <3>2, <3>6 DEF Typed, InHand, Loading, Draining, InChunk
    <3> QED
      BY <3>7, <3>8 DEF Typed
  <2> QED
    BY <2>1, <2>2
<1>20. CASE Finish
  BY <1>20, <1>11 DEF Finish, Typed, TypeOK, InHand
<1>21. CASE BeginChunk
  <2>1. PICK c \in SUBSET todo : chunk' = c /\ todo' = todo \ c /\ prefetchChrome(c)
    BY <1>21 DEF BeginChunk, kSubset
  <2>2. c \in SUBSET Items /\ chunk' \cup todo' \subseteq DOMAIN work
    BY <2>1 DEF Typed, TypeOK, InHand
  <2>3. PICK f \in [Items -> Answer] :
          job' = [i \in Items |-> IF i \in c
                   THEN [IdleJob EXCEPT !.step = "todo", !.pre = f[i]] ELSE IdleJob]
    BY <2>1, <2>2, PrefetchJobs
  <2>4. job' \in [Items -> Job]
    BY <2>3, IdleJobTyped DEF Job
  <2>5. \A i \in Items \ c : job'[i] = IdleJob
    BY <2>3
  <2>6. faults' \in Nat /\ tripped' \subseteq tripped \cup Breakers
    BY <2>1, <2>2, PrefetchJobs
  <2>7. /\ pc = "chunks" /\ pc' = "items"
        /\ UNCHANGED <<world, lists, copies, graph, loading, work, cancelled>>
    BY <1>21 DEF BeginChunk
  <2>8. TypeOK'
    BY <2>1, <2>2, <2>4, <2>6, <2>7 DEF Typed, TypeOK
  <2>9. \A i \in c : job'[i].step = "todo"
    BY <2>2, <2>3, IdleJobTyped DEF Job
  <2>10. InHand'
    BY <2>1, <2>2, <2>5, <2>7, <2>9, IdleJobTyped, ItemsAssumption DEF Typed, InHand, Loading, Draining, InChunk
  <2> QED
    BY <2>8, <2>10 DEF Typed
<1>22. ASSUME NEW i \in Items, job[i].step # "idle",
              \A k \in Items \ {i} : job'[k] = job[k], job' \in [Items -> Job],
              job'[i].step = "asked" => i \notin Local, faults' \in Nat, tripped' \subseteq Breakers,
              cache' \in [Listings -> Copy \cup {None}], aged' \subseteq Listings,
              UNCHANGED <<world, lists, graph, pc, loading, work, todo, chunk, cancelled>>
       PROVE  Typed'
  <2>1. i \in chunk
    BY <1>22 DEF Typed, InHand
  <2>2. TypeOK'
    BY <1>22 DEF Typed, TypeOK
  <2>3. InHand'
    BY <1>22, <2>1, ItemsAssumption DEF Typed, InHand, Loading, Draining, InChunk
  <2> QED
    BY <2>2, <2>3 DEF Typed
<1>23. ASSUME NEW i \in Items, listingFor(i)
       PROVE  Typed'
  <2>1. job[i].step # "idle" /\ faults' \in Nat
    BY <1>23, listingForJob
  <2>2. /\ job' \in [Items -> Job] /\ \A k \in Items \ {i} : job'[k] = job[k]
        /\ job'[i].step = "asked" => i \notin Local
    <3>1. CASE \E s \in State, m \in Meta : Tell(i, s, m)
      <4>1. PICK s \in State, m \in Meta : Tell(i, s, m)
        BY <3>1
      <4>2. job'[i].step = "told"
        BY <4>1, TellJob
      <4> QED
        BY <4>1, <4>2, TellJob
    <3>2. CASE /\ i \notin Local
               /\ \E a \in Answer :
                    job' = [job EXCEPT ![i].step = "asked", ![i].answer = a,
                                       ![i].saw = cache[ListingOf[i]]]
      <4>1. PICK a \in Answer :
              job' = [job EXCEPT ![i].step = "asked", ![i].answer = a,
                                 ![i].saw = cache[ListingOf[i]]]
        BY <3>2
      <4> QED
        BY <3>2, <4>1, AskJob
    <3> QED
      BY <1>23, <3>1, <3>2, listingForJob
  <2>3. /\ UNCHANGED <<world, lists, graph, pc, loading, work, todo, chunk, cancelled>>
        /\ UNCHANGED <<cache, aged, tripped>>
    BY <1>23 DEF listingFor, lists, copies
  <2>4. /\ tripped \subseteq Breakers /\ aged \subseteq Listings
        /\ cache \in [Listings -> Copy \cup {None}]
    BY DEF Typed, TypeOK
  <2> QED
    BY <1>22, <2>1, <2>2, <2>3, <2>4
<1>24. ASSUME NEW i \in Items, Defer(i)
       PROVE  Typed'
  <2>1. "deferred" \in State
    BY DEF State
  <2>2. /\ job' \in [Items -> Job] /\ \A k \in Items \ {i} : job'[k] = job[k]
        /\ job'[i].step # "asked"
    BY <1>24, <2>1, DoneJob DEF Defer
  <2> QED
    BY <1>22, <1>24, <2>2 DEF Defer, Typed, TypeOK
<1>25. ASSUME NEW i \in Items, Answered(i)
       PROVE  Typed'
  <2>1. /\ job[i].step = "asked" /\ faults' \in Nat /\ ListingOf[i] \in Listings
        /\ tripped' \subseteq Breakers
    BY <1>25, AnsweredJob, Looked DEF Typed, TypeOK
  <2>2. \E s \in State, m \in Meta : Tell(i, s, m)
    BY <1>25, AnsweredJob, SaidTyped
  <2>3. /\ job' \in [Items -> Job] /\ \A k \in Items \ {i} : job'[k] = job[k]
        /\ job'[i].step = "told"
    BY <2>2, TellJob
  <2>4. cache' \in [Listings -> Copy \cup {None}] /\ aged' \subseteq Listings
    <3>1. \/ UNCHANGED copies
          \/ /\ aged' \subseteq aged
             /\ \E c \in Copy : cache' = [cache EXCEPT ![ListingOf[i]] = c]
      BY <1>25, AnsweredJob
    <3> QED
      BY <2>1, <3>1 DEF Typed, TypeOK
  <2> QED
    BY <1>22, <1>25, <2>1, <2>3, <2>4 DEF Answered
<1>26. ASSUME NEW i \in Items, scoreItem(i)
       PROVE  Typed'
  <2>1. job[i].step = "told" /\ faults' \in Nat /\ RowOf(i) \in [fp: Stamp, score: Score]
    BY <1>26, FaultsTyped, RowTyped DEF scoreItem
  <2>2. \E r \in {RowOf(i), None} :
          \/ job' = [job EXCEPT ![i].step = "done", ![i].row = r]
          \/ job' = [job EXCEPT ![i].step = "done"]
    BY <1>26 DEF scoreItem, RowOf
  <2>3. "" \in State
    BY DEF State
  <2>4. /\ job' \in [Items -> Job] /\ \A k \in Items \ {i} : job'[k] = job[k]
        /\ job'[i].step # "asked"
    BY <2>1, <2>2, <2>3, DoneJob
  <2> QED
    BY <1>22, <1>26, <2>1, <2>4 DEF scoreItem, Typed, TypeOK
<1>27. ASSUME NEW is \in SUBSET chunk, Write(is), \A i \in is : job[i].row # None
       PROVE  node' \in [Items -> [fp: Stamp \cup {None}, score: Score \cup {None}]]
              /\ offlist' \subseteq Items
  <2>1. \A i \in is : job[i].row \in [fp: Stamp \cup {None}, score: Score \cup {None}]
    BY <1>27 DEF Typed, TypeOK, Job
  <2> QED
    BY <1>27, <2>1 DEF Write, Typed, TypeOK
<1>28. ASSUME ChunkDone, faults' \in Nat, offlist' \subseteq Items,
              node' \in [Items -> [fp: Stamp \cup {None}, score: Score \cup {None}]],
              UNCHANGED <<world, lists, copies, loading, work, todo, tripped, cancelled>>,
              pc \in InChunk
       PROVE  Typed'
  <2>1. /\ job' \in [Items -> Job] /\ pc' = "chunks" /\ chunk' = {}
        /\ \A i \in Items : job'[i].step = "idle" /\ job'[i].row = None
    BY <1>28, IdleJobTyped DEF ChunkDone
  <2> QED
    BY <1>28, <2>1, ItemsAssumption DEF Typed, TypeOK, InHand, Loading, Draining, InChunk
<1>29. CASE WriteByKey
  <2>1. CASE /\ NoFault /\ ~cancelled /\ Write(Rows(FALSE))
             /\ pc' = "names" /\ UNCHANGED <<chunk, job>>
    <3>1. node' \in [Items -> [fp: Stamp \cup {None}, score: Score \cup {None}]]
          /\ offlist' \subseteq Items
      BY <1>27, <2>1 DEF Rows
    <3>2. faults' = faults /\ pc = "items"
          /\ UNCHANGED <<world, lists, copies, loading, work, todo, tripped, cancelled>>
      BY <1>29, <2>1 DEF WriteByKey, NoFault
    <3> QED
      BY <2>1, <3>1, <3>2 DEF Typed, TypeOK, InHand, Loading, Draining, InChunk
  <2>2. CASE DbFails /\ ChunkDone /\ UNCHANGED graph
    BY <1>28, <1>29, <2>2, FaultsTyped DEF WriteByKey, DbFails, Typed, TypeOK, InChunk
  <2> QED
    BY <1>29, <2>1, <2>2 DEF WriteByKey
<1>30. CASE WriteByName
  <2>1. /\ node' \in [Items -> [fp: Stamp \cup {None}, score: Score \cup {None}]]
        /\ offlist' \subseteq Items /\ faults' \in Nat
    BY <1>27, <1>30, FaultsTyped DEF WriteByName, DbFails, Rows, Typed, TypeOK
  <2> QED
    BY <1>28, <1>30, <2>1 DEF WriteByName, InChunk
<1>31. CASE UNCHANGED vars
  BY <1>31 DEF vars, Typed, TypeOK, InHand
<1> QED
  BY Steps, <1>1, <1>2, <1>3, <1>4, <1>5, <1>6, <1>7, <1>8, <1>9, <1>10, <1>13, <1>14,
     <1>15, <1>16, <1>17, <1>18, <1>19, <1>20, <1>21, <1>23, <1>24, <1>25, <1>26, <1>29,
     <1>30, <1>31

\* Every variable keeps its type, and what is in hand at each point of the
\* loop is what the code there expects.
THEOREM WorkerTyped == Spec => []TypeOK
<1>1. Spec => []Typed
  BY InitTyped, NextTyped, PTL DEF Spec
<1> QED
  BY <1>1, PTL DEF Typed
-----------------------------------------------------------------------------
\* Where the steps that do not load a list leave the loop.
LEMMA OtherSteps ==
  ASSUME Typed,
         \/ \E l \in Listings : Publish(l)
         \/ \E i \in Items : Upgrade(i)
         \/ Age \/ Quieten \/ Start \/ runCycle
         \/ plan \/ BeginChunk \/ Finish
         \/ \E i \in Items : listingFor(i) \/ Defer(i) \/ Answered(i) \/ scoreItem(i)
         \/ WriteByKey \/ WriteByName \/ Kill \/ Stop
         \/ UNCHANGED vars
  PROVE  /\ UNCHANGED <<published, etag, copy, unsaved, torn>>
         /\ \/ UNCHANGED <<pc, at, got>>
            \/ pc' \notin Loading
<1> USE DEF world, lists, copies, graph, loading, cycle, worker, vars
<1>1. ASSUME NEW l \in Listings, Publish(l)
      PROVE  UNCHANGED <<published, etag, copy, unsaved, torn, pc, at, got>>
  BY <1>1 DEF Publish, Changes
<1>2. ASSUME NEW i \in Items, Upgrade(i)
      PROVE  UNCHANGED <<published, etag, copy, unsaved, torn, pc, at, got>>
  BY <1>2 DEF Upgrade, Changes
<1>3. ASSUME Age \/ Quieten \/ UNCHANGED vars
      PROVE  UNCHANGED <<published, etag, copy, unsaved, torn, pc, at, got>>
  BY <1>3 DEF Age, Quieten
<1>4. ASSUME Start \/ runCycle \/ Kill \/ Stop
      PROVE  /\ UNCHANGED <<published, etag, copy, unsaved, torn>>
             /\ UNCHANGED <<pc, at, got>> \/ pc' \notin Loading
  BY <1>4 DEF Start, runCycle, Kill, Stop, Loading
<1>5. ASSUME plan \/ Finish
      PROVE  UNCHANGED <<published, etag, copy, unsaved, torn>> /\ pc' \notin Loading
  BY <1>5 DEF plan, Finish, EndCycle, Loading
<1>6. ASSUME BeginChunk \/ WriteByKey \/ WriteByName
      PROVE  UNCHANGED <<published, etag, copy, unsaved, torn>> /\ pc' \notin Loading
  BY <1>6 DEF BeginChunk, WriteByKey, WriteByName, ChunkDone, Loading
<1>7. ASSUME NEW i \in Items, listingFor(i) \/ Defer(i) \/ Answered(i) \/ scoreItem(i)
      PROVE  UNCHANGED <<published, etag, copy, unsaved, torn, pc, at, got>>
  BY <1>7 DEF listingFor, Defer, Answered, scoreItem
<1> QED
  BY <1>1, <1>2, <1>3, <1>4, <1>5, <1>6, <1>7

\* After a list is used or the cycle is given up nothing is being loaded.
LEMMA NotLoading ==
  ASSUME Typed, pc \in {"lists"} \cup Loading,
         UseStale \/ EndCycle \/ \E s : Hold(s)
  PROVE  pc' \notin Loading
  BY DEF UseStale, EndCycle, Hold, Loading

LEMMA InitEtag == Init => EtagInv
  BY DEF Init, EtagInv, EtagTruthful, Loading

LEMMA NextEtag == Typed /\ EtagInv /\ [Next]_vars => EtagInv'
<1> SUFFICES ASSUME Typed, EtagInv, [Next]_vars PROVE EtagInv'
  OBVIOUS
<1> USE DEF world, lists, copies, graph, loading, cycle, worker
<1>0. /\ at \in Docs /\ None \notin Nat
      /\ \A d \in Docs : /\ etag[d] # None => etag[d] \in Nat
                         /\ copy[d] # None => copy[d].v \in Nat
                         /\ published[d].v \in Nat
      /\ pc \in Loading => got.v \in Nat /\ got # None
      /\ copy \in [Docs -> ListCopy \cup {None}] /\ etag \in [Docs -> Nat \cup {None}]
  BY NoneAssumption DEF Typed, TypeOK, InHand, ListCopy
<1>1. ASSUME UNCHANGED <<published, etag, copy, torn>>,
             UNCHANGED <<pc, at, got>> \/ pc' \notin Loading
      PROVE  EtagInv'
  BY <1>1 DEF EtagInv, EtagTruthful, Loading
<1>2. ASSUME NEW d \in Docs, NEW i \in Suspects, Relist(d, i)
      PROVE  EtagInv'
  <2>1. /\ \A e \in Docs : published'[e].v \in Nat /\ published[e].v <= published'[e].v
        /\ UNCHANGED <<etag, copy, torn, pc, at, got>>
    BY <1>0, <1>2 DEF Relist, Changes, Typed, TypeOK
  <2> QED
    BY <1>0, <2>1 DEF EtagInv, EtagTruthful, Loading
<1>3. ASSUME NEW d \in Docs, Lose(d)
      PROVE  EtagInv'
  BY <1>0, <1>3 DEF Lose, EtagInv, EtagTruthful, Loading
<1>4. CASE UseFreshList \/ NotModified \/ FetchListFails
  BY <1>1, <1>4, NotLoading DEF UseFreshList, NotModified, FetchListFails
<1>5. CASE FetchList
  BY <1>0, <1>5 DEF FetchList, EtagInv, EtagTruthful, Loading
<1>6. CASE SaveDoc
  <2>1. CASE Fault("disk") /\ Hold(got.on) /\ UNCHANGED <<copy, torn>>
    BY <1>1, <1>6, <2>1, NotLoading DEF SaveDoc, Loading
  <2>2. CASE /\ pc' = "meta" /\ copy' = [copy EXCEPT ![at] = got] /\ torn' = torn \ {at}
             /\ UNCHANGED <<loading, etag, published>>
    BY <1>0, <1>6, <2>2 DEF SaveDoc, EtagInv, EtagTruthful, Loading
  <2>3. CASE /\ pc' = "meta" /\ torn' = torn \cup {at}
             /\ UNCHANGED <<copy, loading, etag, published>>
    BY <1>0, <1>6, <2>3 DEF SaveDoc, EtagInv, EtagTruthful, Loading
  <2> QED
    BY <1>6, <2>1, <2>2, <2>3 DEF SaveDoc
<1>7. CASE SaveMeta
  <2>1. pc = "meta" /\ pc' \notin Loading /\ UNCHANGED <<published, copy, torn>>
    BY <1>7, NotLoading DEF SaveMeta, Loading
  <2>2. etag' \in {etag, [etag EXCEPT ![at] = got.v]}
    BY <1>7 DEF SaveMeta
  <2> QED
    BY <1>0, <2>1, <2>2 DEF EtagInv, EtagTruthful, Loading
<1> QED
  BY Steps, OtherSteps, <1>1, <1>2, <1>3, <1>4, <1>5, <1>6, <1>7

\* A 304 confirms what is on disk: for any number of lost copies, failed
\* writes, kills and restarts the ETag kept is never newer than the copy.
THEOREM EtagsAreTruthful == Spec => []EtagTruthful
<1>1. Spec => [](Typed /\ EtagInv)
  BY InitTyped, NextTyped, InitEtag, NextEtag, PTL DEF Spec
<1> QED
  BY <1>1, PTL DEF EtagInv
-----------------------------------------------------------------------------
LEMMA InitMark == Init => MarkInv
<1> SUFFICES ASSUME Init PROVE MarkInv
  OBVIOUS
<1>1. \A i \in Items : ~KnownBad(i) /\ ~InUse(i) /\ job[i].row = None
  BY IdleJobTyped DEF Init, KnownBad, InUse, B, NoList, Docs, Loading
<1>2. DOMAIN work = {} /\ pc \notin Scoring
  BY DEF Init, Scoring, Draining, InChunk
<1> QED
  BY <1>1, <1>2 DEF MarkInv

LEMMA NextMark ==
  ASSUME Typed, Typed', EtagInv, MarkInv, [Next]_vars
  PROVE  MarkInv'
<1> USE DEF world, lists, copies, graph, loading, cycle, worker
<1>0. /\ at \in Docs /\ B \in Docs /\ None \notin Nat /\ None \notin ListCopy
      /\ pc \in Loading => got \in ListCopy
      /\ copy \in [Docs -> ListCopy \cup {None}] /\ held \in [Docs -> SUBSET Items]
      /\ \A d \in Docs : copy[d] # None => copy[d] \in ListCopy
  BY NoneAssumption DEF B, Docs, Typed, TypeOK, InHand
<1>1. ASSUME UNCHANGED <<published, node, offlist, copy, unsaved, pc, at, got, held, work>>,
             \A i \in Items : job'[i].row = job[i].row
      PROVE  MarkInv'
  BY <1>1 DEF MarkInv, KnownBad, InUse
<1>2. ASSUME UNCHANGED <<published, node, offlist, copy, unsaved>>,
             pc' \notin Loading \cup Scoring, held'[B] \in {held[B], {}}
      PROVE  MarkInv'
  <2>1. DOMAIN work' = {} /\ \A i \in Items : job'[i].row = None
    BY <1>2 DEF Typed, InHand, Scoring, Draining, InChunk
  <2> QED
    BY <1>2, <2>1 DEF MarkInv, KnownBad, InUse
<1>3. ASSUME EndCycle, UNCHANGED <<published, node, offlist, copy, unsaved>>
      PROVE  MarkInv'
  BY <1>2, <1>3 DEF EndCycle, NoCycle, NoList, B, Docs, Loading, Scoring, Draining, InChunk
<1>4. ASSUME NEW d \in Docs, NEW i \in Suspects, Relist(d, i)
      PROVE  MarkInv'
  <2>1. /\ offlist' = offlist \cup (Items \ published'[B].on)
        /\ UNCHANGED <<node, copy, unsaved, pc, at, got, held, work, job>>
    BY <1>4 DEF Relist, Changes, B
  <2> QED
    BY <2>1 DEF MarkInv, KnownBad, InUse
<1>5. ASSUME NEW d \in Docs, Lose(d)
      PROVE  MarkInv'
  <2>1. /\ copy' = [copy EXCEPT ![d] = None]
        /\ UNCHANGED <<published, node, offlist, unsaved, pc, at, got, held, work, job>>
    BY <1>5 DEF Lose
  <2>2. copy'[B] = None \/ copy'[B] = copy[B]
    BY <1>0, <2>1
  <2> QED
    BY <2>1, <2>2 DEF MarkInv, KnownBad, InUse
\* Going on with contents s, which every mark is on and which only name
\* items that are on the list or left it.
<1>6. ASSUME NEW s, Hold(s), pc \in {"lists"} \cup Loading,
             UNCHANGED <<published, node, offlist, copy>>, unsaved \subseteq unsaved',
             at = B => \A i \in s \ published[B].on : i \in Items => i \in offlist,
             at = B /\ B \notin unsaved' =>
                /\ \A i \in Items : KnownBad(i) /\ i \notin offlist => i \in s
                /\ copy[B] # None => copy[B].on = s
      PROVE  MarkInv'
  <2>1. DOMAIN work' = {} /\ \A i \in Items : job'[i].row = None
    BY <1>6 DEF Typed, InHand, Scoring, Draining, InChunk, Loading, Hold
  <2>2. \/ at # B /\ pc' = "lists" /\ held'[B] = held[B]
        \/ at = B /\ pc' = "plan" /\ held'[B] = s
    BY <1>0, <1>6 DEF Hold, B, Docs
  <2>3. \A i \in Items : InUse(i)' => InUse(i) \/ (at = B /\ i \in s)
    BY <1>6, <2>2 DEF InUse, Loading
  <2>4. \A i \in Items : InUse(i)' /\ i \notin published'[B].on => i \in offlist'
    BY <1>6, <2>3 DEF MarkInv
  <2>5. \A i \in Items : KnownBad(i)' <=> KnownBad(i)
    BY <1>6 DEF KnownBad
  <2>6. pc' \notin Loading /\ (pc' \in Scoring => at = B)
    BY <2>2 DEF Loading, Scoring, Draining, InChunk
  <2>7. \A i \in Items : KnownBad(i)' /\ i \notin offlist' =>
          /\ i \in published'[B].on
          /\ B \notin unsaved' => /\ copy'[B] # None => i \in copy'[B].on
                                  /\ pc' \in Scoring => i \in held'[B]
    BY <1>6, <2>2, <2>5, <2>6 DEF MarkInv
  <2>8. pc' \in Scoring /\ B \notin unsaved' /\ copy'[B] # None => held'[B] = copy'[B].on
    BY <1>6, <2>2, <2>6
  <2> QED
    BY <2>1, <2>4, <2>6, <2>7, <2>8 DEF MarkInv
<1>7. ASSUME copy[at] # None
      PROVE  /\ at = B => \A i \in copy[at].on \ published[B].on : i \in Items => i \in offlist
             /\ at = B /\ B \notin unsaved =>
                  \A i \in Items : KnownBad(i) /\ i \notin offlist => i \in copy[at].on
  BY <1>7 DEF MarkInv, InUse
<1>8. CASE UseFreshList
  <2>1. pc = "lists" /\ copy[at] # None /\ Hold(copy[at].on)
        /\ UNCHANGED <<published, node, offlist, copy, unsaved>>
    BY <1>8 DEF UseFreshList, Typed, InHand
  <2> QED
    BY <1>6, <1>7, <2>1
<1>9. ASSUME UseStale, pc = "lists", UNCHANGED <<published, node, offlist, copy, unsaved>>
      PROVE  MarkInv'
  <2>1. CASE EndCycle
    BY <1>3, <1>9, <2>1
  <2>2. CASE copy[at] # None /\ Hold(copy[at].on)
    BY <1>6, <1>7, <1>9, <2>2
  <2>3. CASE at = "feed" /\ Hold({})
    BY <1>6, <1>9, <2>3 DEF B
  <2> QED
    BY <1>9, <2>1, <2>2, <2>3 DEF UseStale
<1>10. CASE NotModified \/ FetchListFails
  BY <1>9, <1>10 DEF NotModified, FetchListFails
<1>11. CASE FetchList
  <2>1. /\ pc = "lists" /\ pc' = "doc" /\ got' = published[at] /\ at' = at
        /\ UNCHANGED <<published, node, offlist, copy, unsaved, held, work, job>>
    BY <1>11 DEF FetchList
  <2>2. \A i \in Items : InUse(i)' => InUse(i) \/ i \in published[B].on
    BY <2>1 DEF InUse, Loading
  <2>3. pc' \notin Scoring
    BY <2>1 DEF Scoring, Draining, InChunk
  <2> QED
    BY <2>1, <2>2, <2>3 DEF MarkInv, KnownBad
<1>12. ASSUME at = B, pc \in Loading
       PROVE  /\ \A i \in got.on \ published[B].on : i \in Items => i \in offlist
              /\ \A i \in Items : KnownBad(i) /\ i \notin offlist => i \in got.on
  BY <1>12 DEF MarkInv, InUse
<1>13. CASE SaveDoc
  <2>1. pc = "doc" /\ UNCHANGED <<published, node, offlist>>
    BY <1>13 DEF SaveDoc
  <2>2. CASE /\ Fault("disk") /\ Hold(got.on)
             /\ unsaved' = unsaved \cup {at} /\ UNCHANGED <<copy, fresh, torn>>
    <3>1. at = B => B \in unsaved'
      BY <2>2
    <3> QED
      BY <1>6, <1>12, <2>1, <2>2, <3>1 DEF Loading
  <2>3. ASSUME pc' = "meta", UNCHANGED <<loading, cycle, cancelled>>,
               \/ copy' = [copy EXCEPT ![at] = got] /\ unsaved' = unsaved \ {at}
               \/ copy' = copy /\ unsaved' = unsaved \cup {at}
        PROVE  MarkInv'
    <3>1. \/ copy'[B] = copy[B] /\ (B \in unsaved' <=> B \in unsaved)
          \/ at = B /\ copy'[B] = got
          \/ copy'[B] = copy[B] /\ B \in unsaved'
      BY <1>0, <2>3
    <3>2. pc' \in Loading /\ pc \in Loading /\ pc' \notin Scoring
      BY <2>1, <2>3 DEF Loading, Scoring, Draining, InChunk
    <3>3. \A i \in Items : InUse(i)' => InUse(i)
      BY <2>3, <3>1, <3>2 DEF InUse
    <3>4. \A i \in Items : KnownBad(i)' <=> KnownBad(i)
      BY <2>1 DEF KnownBad
    <3>5. \A i \in Items : InUse(i)' /\ i \notin published'[B].on => i \in offlist'
      BY <2>1, <3>3 DEF MarkInv
    <3>6. \A i \in Items : KnownBad(i)' /\ i \notin offlist' =>
            /\ i \in published'[B].on
            /\ pc' \in Loading /\ at' = B => i \in got'.on
            /\ B \notin unsaved' => (copy'[B] # None => i \in copy'[B].on)
      BY <1>12, <2>1, <2>3, <3>1, <3>2, <3>4 DEF MarkInv
    <3> QED
      BY <2>3, <3>2, <3>5, <3>6 DEF MarkInv
  <2> QED
    BY <1>13, <2>2, <2>3 DEF SaveDoc
<1>14. CASE SaveMeta
  <2>1. /\ pc = "meta" /\ Hold(got.on)
        /\ UNCHANGED <<published, node, offlist, copy, unsaved, torn>>
    BY <1>14 DEF SaveMeta
  <2>2. at = B /\ B \notin unsaved => copy[B] \in {None, got}
    BY <2>1 DEF EtagInv, Typed, TypeOK
  <2> QED
    BY <1>6, <1>12, <2>1, <2>2 DEF Loading
<1>15. CASE Start \/ runCycle \/ Kill
  <2>1. /\ UNCHANGED <<published, node, offlist, copy, unsaved>>
        /\ held'[B] \in {held[B], {}} /\ pc' \in {"off", "idle", "lists"}
    BY <1>15 DEF Start, runCycle, Kill, NoCycle, NoList, B, Docs
  <2> QED
    BY <1>2, <2>1 DEF Loading, Scoring, Draining, InChunk
<1>16. CASE Stop
  <2>1. /\ UNCHANGED <<published, node, offlist, copy, unsaved, at, got, held, work, job>>
        /\ pc' = "off" \/ pc' = pc
    BY <1>16 DEF Stop
  <2> QED
    BY <1>1, <1>2, <2>1 DEF Loading, Scoring, Draining, InChunk
<1>17. CASE plan
  <2>1. UNCHANGED <<published, node, offlist, copy, unsaved>> /\ pc = "plan"
    BY <1>17 DEF plan
  <2>2. CASE EndCycle
    BY <1>3, <2>1, <2>2
  <2>3. CASE ~EndCycle
    <3>1. /\ pc' = "chunks" /\ UNCHANGED <<at, got, held, job>>
          /\ \A i \in DOMAIN work' : work'[i].base = fingerprint(i)
      BY <1>17, <2>3 DEF plan
    <3>0. \A i : fingerprint(i).entry <=> i \in held[B]
      BY DEF fingerprint, B
    <3>2. \A i \in DOMAIN work' : work'[i].base.entry <=> i \in held'[B]
      BY <3>0, <3>1
    <3>3. \A i \in Items : job'[i].row = None
      BY <2>1, <3>1 DEF Typed, InHand, InChunk
    <3>4. pc \notin Loading /\ pc' \notin Loading /\ pc \in Scoring /\ pc' \in Scoring
      BY <2>1, <3>1 DEF Loading, Scoring, Draining, InChunk
    <3> QED
      BY <2>1, <3>1, <3>2, <3>3, <3>4 DEF MarkInv, KnownBad, InUse
  <2> QED
    BY <2>2, <2>3
<1>18. CASE Finish
  BY <1>3, <1>18 DEF Finish
\* Steps from one point of a chunk to another, that only change the jobs.
<1>19. ASSUME UNCHANGED <<published, node, offlist, copy, unsaved, at, got, held, work>>,
              pc \in Draining, pc' \in Draining,
              \A i \in Items : job'[i].row # None =>
                job'[i].row = job[i].row \/ job'[i].row.score.base = work[i].base
       PROVE  MarkInv'
  <2>1. \A i \in Items : job'[i].row # None => job'[i].row.score.base = work'[i].base
    BY <1>19 DEF MarkInv
  <2>2. pc \notin Loading /\ pc' \notin Loading /\ pc \in Scoring /\ pc' \in Scoring
    BY <1>19 DEF Loading, Scoring, Draining, InChunk
  <2> QED
    BY <1>19, <2>1, <2>2 DEF MarkInv, KnownBad, InUse
<1>20. CASE BeginChunk
  <2>1. PICK c \in SUBSET todo : prefetchChrome(c)
    BY <1>20 DEF BeginChunk, kSubset
  <2>2. c \in SUBSET Items
    BY DEF Typed, TypeOK
  <2>3. PICK f \in [Items -> Answer] :
          job' = [i \in Items |-> IF i \in c
                   THEN [IdleJob EXCEPT !.step = "todo", !.pre = f[i]] ELSE IdleJob]
    BY <2>1, <2>2, PrefetchJobs
  <2>4. \A i \in Items : job'[i].row = None
    BY <2>3, IdleJobTyped DEF Job
  <2> QED
    BY <1>19, <1>20, <2>4 DEF BeginChunk, Draining, InChunk
<1>21. ASSUME NEW i \in Items, listingFor(i)
       PROVE  MarkInv'
  <2>1. \A k \in Items : job'[k].row = job[k].row
    BY <1>21, listingForJob, TellJob, AskJob
  <2> QED
    BY <1>1, <1>21, <2>1 DEF listingFor
<1>22. ASSUME NEW i \in Items, Defer(i)
       PROVE  MarkInv'
  <2>1. "deferred" \in State /\ None \in [fp: Stamp, score: Score] \cup {None}
    BY DEF State
  <2>2. /\ \A k \in Items \ {i} : job'[k] = job[k]
        /\ job'[i].row \in {job[i].row, None}
    <3>1. job' = [job EXCEPT ![i].step = "done", ![i].state = "deferred"]
      BY <1>22 DEF Defer
    <3> QED
      BY <2>1, <3>1, DoneJob
  <2>3. job[i].step # "idle" /\ pc \in Draining
    BY <1>22, InHandHasWork DEF Defer, Draining
  <2> QED
    BY <1>19, <1>22, <2>2, <2>3 DEF Defer
<1>23. ASSUME NEW i \in Items, Answered(i)
       PROVE  MarkInv'
  <2>1. \E s \in State, m \in Meta : Tell(i, s, m)
    BY <1>23, AnsweredJob, SaidTyped
  <2>2. \A k \in Items : job'[k].row = job[k].row
    BY <2>1, TellJob
  <2> QED
    BY <1>1, <1>23, <2>2 DEF Answered
<1>24. ASSUME NEW i \in Items, scoreItem(i)
       PROVE  MarkInv'
  <2>1. job[i].step # "idle" /\ RowOf(i) \in [fp: Stamp, score: Score]
    BY <1>24, RowTyped DEF scoreItem
  <2>2. \E r \in {RowOf(i), None} :
          \/ job' = [job EXCEPT ![i].step = "done", ![i].row = r]
          \/ job' = [job EXCEPT ![i].step = "done"]
    BY <1>24 DEF scoreItem, RowOf
  <2>3. "" \in State
    BY DEF State
  <2>4. /\ \A k \in Items \ {i} : job'[k] = job[k]
        /\ job'[i].row \in {RowOf(i), None, job[i].row}
    BY <2>1, <2>2, <2>3, DoneJob
  <2>5. RowOf(i).score.base = work[i].base
    BY DEF RowOf
  <2>6. pc \in Draining
    BY <2>1, InHandHasWork DEF Draining
  <2> QED
    BY <1>19, <1>24, <2>4, <2>5, <2>6 DEF scoreItem
\* An item is marked from the list this cycle holds; the mark of one that is
\* off the list now was made when it had been seen to leave.
<1>25. ASSUME NEW is \in SUBSET chunk, Write(is), \A i \in is : job[i].row # None,
              UNCHANGED <<published, copy, unsaved, at, got, held, work>>,
              pc \in InChunk, pc' \in Draining,
              \A i \in Items : job'[i].row \in {job[i].row, None}
       PROVE  MarkInv'
  <2>1. \A i \in is : i \in Items /\ i \in DOMAIN work
    BY <1>25 DEF Typed, TypeOK, InHand
  <2>2. pc \notin Loading /\ pc' \notin Loading /\ pc \in Scoring /\ pc' \in Scoring
    BY <1>25 DEF Loading, Scoring, Draining, InChunk
  <2>3. \A i \in is : KnownBad(i)' => i \in held[B]
    BY <1>25, <2>1 DEF MarkInv, KnownBad, Write
  <2>4. \A i \in Items \ is : KnownBad(i)' <=> KnownBad(i)
    BY <1>25 DEF KnownBad, Write
  <2>5. \A i \in Items : /\ i \in offlist' => i \in offlist
                         /\ i \in is /\ i \in published[B].on => i \notin offlist'
                         /\ i \notin is \/ i \notin published[B].on =>
                              (i \in offlist' <=> i \in offlist)
    BY <1>25 DEF Write, B
  <2>6. \A i \in Items : InUse(i)' /\ i \notin published'[B].on => i \in offlist'
    BY <1>25, <2>2, <2>5 DEF MarkInv, InUse
  <2>7. ASSUME NEW i \in Items, KnownBad(i)', i \notin offlist'
        PROVE  /\ i \in published'[B].on
               /\ B \notin unsaved' => /\ copy'[B] # None => i \in copy'[B].on
                                       /\ i \in held'[B]
    <3>1. CASE i \in is
      <4>1. i \in held[B]
        BY <2>3, <2>7, <3>1
      <4>2. i \in published[B].on
        BY <2>5, <2>6, <2>7, <4>1, <1>25 DEF InUse
      <4>3. B \notin unsaved /\ copy[B] # None => held[B] = copy[B].on
        BY <2>2 DEF MarkInv
      <4> QED
        BY <1>25, <4>1, <4>2, <4>3
    <3>2. CASE i \notin is
      <4>1. KnownBad(i) /\ i \notin offlist
        BY <2>4, <2>5, <2>7, <3>2
      <4> QED
        BY <1>25, <2>2, <4>1 DEF MarkInv
    <3> QED
      BY <3>1, <3>2
  <2>8. \A i \in DOMAIN work' : work'[i].base.entry <=> i \in held'[B]
    BY <1>25 DEF MarkInv
  <2>9. \A i \in Items : job'[i].row # None => job'[i].row.score.base = work'[i].base
    BY <1>25 DEF MarkInv
  <2>10. pc' \in Scoring /\ B \notin unsaved' /\ copy'[B] # None => held'[B] = copy'[B].on
    BY <1>25, <2>2 DEF MarkInv
  <2> QED
    BY <2>2, <2>6, <2>7, <2>8, <2>9, <2>10 DEF MarkInv
<1>26. ASSUME ChunkDone, UNCHANGED <<published, node, offlist, copy, unsaved, loading, work>>,
              pc \in InChunk
       PROVE  MarkInv'
  <2>1. pc' = "chunks" /\ \A i \in Items : job'[i].row = None
    BY <1>26, IdleJobTyped DEF ChunkDone
  <2> QED
    BY <1>19, <1>26, <2>1 DEF Draining
<1>27. CASE WriteByKey
  <2>1. CASE /\ NoFault /\ ~cancelled /\ Write(Rows(FALSE))
             /\ pc' = "names" /\ UNCHANGED <<chunk, job>>
    BY <1>25, <1>27, <2>1 DEF WriteByKey, Rows, Draining, InChunk
  <2>2. CASE DbFails /\ ChunkDone /\ UNCHANGED graph
    BY <1>26, <1>27, <2>2 DEF WriteByKey, InChunk
  <2> QED
    BY <1>27, <2>1, <2>2 DEF WriteByKey
<1>28. CASE WriteByName
  <2>1. CASE NoFault /\ ~cancelled /\ Write(Rows(TRUE))
    <3>1. pc' = "chunks" /\ \A i \in Items : job'[i].row = None
      BY <1>28, IdleJobTyped DEF WriteByName, ChunkDone
    <3> QED
      BY <1>25, <1>28, <2>1, <3>1 DEF WriteByName, Rows, Draining, InChunk
  <2>2. CASE DbFails /\ UNCHANGED graph
    BY <1>26, <1>28, <2>2 DEF WriteByName, InChunk
  <2> QED
    BY <1>28, <2>1, <2>2 DEF WriteByName
<1>29. ASSUME NEW l \in Listings, Publish(l)
       PROVE  MarkInv'
  BY <1>1, <1>29 DEF Publish, Changes
<1>30. ASSUME NEW i \in Items, Upgrade(i)
       PROVE  MarkInv'
  BY <1>1, <1>30 DEF Upgrade, Changes
<1>31. CASE Age \/ Quieten \/ UNCHANGED vars
  BY <1>1, <1>31 DEF Age, Quieten, vars
<1> QED
  BY Steps, <1>4, <1>5, <1>8, <1>10, <1>11, <1>13, <1>14, <1>15, <1>16, <1>17, <1>18, <1>20,
     <1>21, <1>22, <1>23, <1>24, <1>27, <1>28, <1>29, <1>30, <1>31

\* Only the two writes change what the nodes show.
LEMMA NodesStay ==
  ASSUME [Next]_vars
  PROVE  \/ UNCHANGED node
         \/ (WriteByKey \/ WriteByName) /\ \E names \in BOOLEAN : Write(Rows(names))
<1> USE DEF world, lists, copies, graph, loading, cycle, worker
<1>1. ASSUME WriteByKey \/ WriteByName
      PROVE  UNCHANGED node \/ \E names \in BOOLEAN : Write(Rows(names))
  BY <1>1 DEF WriteByKey, WriteByName
<1>2. ASSUME \/ \E l \in Listings : Publish(l)
             \/ \E i \in Items : Upgrade(i)
             \/ \E d \in Docs, i \in Suspects : Relist(d, i)
             \/ Age \/ \E d \in Docs : Lose(d)
             \/ Quieten \/ Start \/ runCycle \/ Kill \/ Stop \/ UNCHANGED vars
      PROVE  UNCHANGED node
  BY <1>2 DEF Publish, Upgrade, Relist, Changes, Age, Lose, Quieten, Start, runCycle,
              Kill, Stop, vars
<1>3. ASSUME \/ UseFreshList \/ NotModified \/ FetchList \/ FetchListFails
             \/ SaveDoc \/ SaveMeta \/ plan \/ BeginChunk \/ Finish
      PROVE  UNCHANGED node
  BY <1>3 DEF UseFreshList, NotModified, FetchList, FetchListFails, SaveDoc, SaveMeta,
              plan, BeginChunk, Finish
<1>4. ASSUME NEW i \in Items, listingFor(i) \/ Defer(i) \/ Answered(i) \/ scoreItem(i)
      PROVE  UNCHANGED node
  BY <1>4 DEF listingFor, Defer, Answered, scoreItem
<1> QED
  BY Steps, <1>1, <1>2, <1>3, <1>4

\* For any number of failures: a mark goes only when Mozilla's list was seen
\* without the extension, or contents were used that could not be saved.
THEOREM MarksAreKept == Spec => KnownBadKept
<1> DEFINE Kept == \A i \in Items : KnownBad(i) /\ ~KnownBad(i)' =>
                     i \in offlist \/ "blocklist" \in unsaved
           IInv == Typed /\ EtagInv /\ MarkInv
<1>1. Init => IInv
  BY InitTyped, InitEtag, InitMark
<1>2. IInv /\ [Next]_vars => IInv'
  BY NextTyped, NextEtag, NextMark
<1>3. IInv /\ [Next]_vars => Kept
  <2> SUFFICES ASSUME IInv, [Next]_vars, NEW i \in Items, KnownBad(i), ~KnownBad(i)',
                      i \notin offlist, B \notin unsaved
               PROVE  FALSE
    BY DEF B
  <2>1. PICK names \in BOOLEAN : Write(Rows(names)) /\ (WriteByKey \/ WriteByName)
    BY NodesStay DEF KnownBad
  <2>2. i \in Rows(names)
    BY <2>1 DEF Write, KnownBad
  <2>3. node'[i] = job[i].row /\ job[i].row # None
    BY <2>1, <2>2 DEF Write, Rows
  <2>4. job[i].row.score \in Score /\ None \notin Score
    BY <2>3, NoneAssumption DEF Typed, TypeOK, Job
  <2>5. ~job[i].row.score.base.entry
    BY <2>3, <2>4 DEF KnownBad
  <2>6. i \in DOMAIN work /\ pc \in Scoring
    BY <2>1, <2>2 DEF Rows, Typed, InHand, WriteByKey, WriteByName, Scoring, Draining, InChunk
  <2>7. i \notin held[B]
    BY <2>3, <2>5, <2>6 DEF MarkInv
  <2> QED
    BY <2>6, <2>7 DEF MarkInv
<1> QED
  BY <1>1, <1>2, <1>3, PTL DEF Spec, KnownBadKept
-----------------------------------------------------------------------------
LEMMA InitStamp == Init => StampInv
<1> SUFFICES ASSUME Init PROVE StampInv
  OBVIOUS
<1>1. FingerprintTruthful
  BY DEF Init, FingerprintTruthful
<1>2. \A i \in Items : /\ job[i].step = "idle" /\ job[i].row = None
                       /\ job[i].pre.kind = "none" /\ job[i].answer.kind = "none"
  BY DEF Init, IdleJob, Said
<1>3. \A l \in Listings : cache[l] = None
  BY DEF Init
<1> QED
  BY <1>1, <1>2, <1>3 DEF StampInv, Heard, Backed, JobInv

LEMMA NextStamp ==
  ASSUME Typed, Typed', StampInv, [Next]_vars
  PROVE  StampInv'
<1> USE DEF world, lists, copies, graph, loading, cycle, worker
<1>0. /\ listing \in [Listings -> Version] /\ cache \in [Listings -> Copy \cup {None}]
      /\ listing' \in [Listings -> Version] /\ cache' \in [Listings -> Copy \cup {None}]
      /\ job \in [Items -> Job] /\ job' \in [Items -> Job]
      /\ Version \subseteq Nat
      /\ \A l \in Listings : cache[l] # None => cache[l].version \in Version
  BY BoundsAssumption DEF Typed, TypeOK, Version, Copy
<1>n. \A l \in Listings : /\ listing[l] \in Nat /\ listing'[l] \in Nat
                          /\ cache[l] # None => cache[l].version \in Nat
  BY <1>0
<1>1. ASSUME UNCHANGED <<node, cache, job>>,
             \A l \in Listings : listing[l] <= listing'[l]
      PROVE  StampInv'
  <2>1. \A l \in Listings : cache'[l] # None => cache'[l].version <= listing'[l]
    BY <1>n, <1>1 DEF StampInv
  <2>2. ASSUME NEW i \in Items
        PROVE  Heard(i)'
    <3>1. \A a \in {job[i].pre, job[i].answer} : a.kind = "ok" => a.version \in Nat
      BY <1>0 DEF Job, Answer
    <3>2. Heard(i) /\ (i \notin Local => ListingOf[i] \in Listings)
      BY Looked DEF StampInv
    <3>3. i \notin Local => /\ listing[ListingOf[i]] \in Nat /\ listing'[ListingOf[i]] \in Nat
                           /\ listing[ListingOf[i]] <= listing'[ListingOf[i]]
      BY <1>0, <1>1, <3>2
    <3> QED
      BY <1>1, <3>1, <3>2, <3>3 DEF Heard
  <2>3. FingerprintTruthful'
    BY <1>1 DEF StampInv, FingerprintTruthful
  <2>4. \A i \in Items : Backed(i)' <=> Backed(i)
    BY <1>1 DEF Backed, JobInv
  <2> QED
    BY <2>1, <2>2, <2>3, <2>4 DEF StampInv
<1>2. ASSUME UNCHANGED listing, FingerprintTruthful', UNCHANGED cache,
             \A i \in Items : job'[i] = IdleJob
      PROVE  StampInv'
  <2>1. \A i \in Items : /\ job'[i].step = "idle" /\ job'[i].row = None
                         /\ job'[i].pre.kind = "none" /\ job'[i].answer.kind = "none"
    <3>1. /\ IdleJob.step = "idle" /\ IdleJob.row = None
          /\ IdleJob.pre.kind = "none" /\ IdleJob.answer.kind = "none"
      BY DEF IdleJob, Said
    <3> QED
      BY <1>2, <3>1
  <2>2. \A i \in Items : Heard(i)' /\ Backed(i)'
    BY <2>1 DEF Heard, Backed, JobInv
  <2> QED
    BY <1>2, <2>2 DEF StampInv
<1>3. UNCHANGED node => FingerprintTruthful'
  BY DEF StampInv, FingerprintTruthful
<1>4. ASSUME EndCycle \/ NoCycle, UNCHANGED <<node, listing, cache>>
      PROVE  StampInv'
  BY <1>2, <1>3, <1>4 DEF EndCycle, NoCycle
<1>5. ASSUME NEW l \in Listings, Publish(l)
      PROVE  StampInv'
  <2>1. listing' = [listing EXCEPT ![l] = listing[l] + 1] /\ UNCHANGED <<node, cache, job>>
    BY <1>5 DEF Publish, Changes
  <2>2. \A k \in Listings : listing[k] <= listing'[k]
    BY <1>0, <1>n, <2>1
  <2> QED
    BY <1>1, <2>1, <2>2
<1>6. ASSUME \/ \E i \in Items : Upgrade(i)
             \/ \E d \in Docs, i \in Suspects : Relist(d, i)
             \/ Age \/ \E d \in Docs : Lose(d)
             \/ Quieten \/ Start \/ runCycle \/ FetchList \/ Stop
             \/ UNCHANGED vars
      PROVE  StampInv'
  <2>1. UNCHANGED <<node, cache, job, listing>>
    BY <1>6 DEF Upgrade, Relist, Changes, Age, Lose, Quieten, Start, runCycle,
                FetchList, Stop, vars
  <2> QED
    BY <1>n, <1>1, <2>1
<1>7. ASSUME \/ EndCycle
             \/ \E s : Hold(s)
             \/ UNCHANGED job,
             UNCHANGED <<node, listing, cache>>
      PROVE  StampInv'
  BY <1>n, <1>1, <1>4, <1>7 DEF Hold
<1>8. CASE \/ UseFreshList \/ NotModified \/ FetchListFails \/ SaveDoc \/ SaveMeta
           \/ plan \/ Finish \/ Kill
  <2>1. CASE UseFreshList \/ SaveDoc \/ SaveMeta
    BY <1>7, <2>1 DEF UseFreshList, SaveDoc, SaveMeta
  <2>2. CASE NotModified \/ FetchListFails
    BY <1>7, <2>2 DEF NotModified, FetchListFails, UseStale
  <2>3. CASE plan \/ Finish
    BY <1>7, <2>3 DEF plan, Finish
  <2>4. CASE Kill
    BY <1>4, <2>4 DEF Kill
  <2> QED
    BY <1>8, <2>1, <2>2, <2>3, <2>4
<1>9. CASE BeginChunk
  <2>1. PICK c \in SUBSET todo : prefetchChrome(c)
    BY <1>9 DEF BeginChunk, kSubset
  <2>2. c \in SUBSET Items
    BY DEF Typed, TypeOK
  <2>3. PICK f \in [Items -> Answer] :
          /\ job' = [i \in Items |-> IF i \in c
                   THEN [IdleJob EXCEPT !.step = "todo", !.pre = f[i]] ELSE IdleJob]
          /\ \A i \in Items : f[i].kind = "ok" => i \notin Local /\ f[i] = Ok(ListingOf[i])
    BY <2>1, <2>2, PrefetchJobs
  <2>4. \A i \in Items : /\ job'[i].pre.kind = "ok" => job'[i].pre = f[i]
                         /\ job'[i].answer.kind = "none" /\ job'[i].row = None
                         /\ job'[i].step \in {"idle", "todo"}
    BY <2>3 DEF IdleJob, Said
  <2>5. UNCHANGED <<node, listing, cache>>
    BY <1>9 DEF BeginChunk
  <2>6. ASSUME NEW i \in Items
        PROVE  Heard(i)' /\ Backed(i)'
    <3>1. job'[i].pre.kind = "ok" =>
            /\ i \notin Local /\ ListingOf[i] \in Listings
            /\ job'[i].pre.version = listing[ListingOf[i]]
      <4> SUFFICES ASSUME job'[i].pre.kind = "ok"
                   PROVE  /\ i \notin Local /\ ListingOf[i] \in Listings
                          /\ job'[i].pre.version = listing[ListingOf[i]]
        OBVIOUS
      <4>1. job'[i].pre = f[i]
        BY <2>4
      <4>2. i \notin Local /\ f[i] = Ok(ListingOf[i])
        BY <2>3, <4>1
      <4>3. ListingOf[i] \in Listings
        BY <4>2, Looked
      <4> QED
        BY <4>1, <4>2, <4>3, OkTyped
    <3>2. i \notin Local /\ cache[ListingOf[i]] # None =>
            cache[ListingOf[i]].version <= listing[ListingOf[i]]
      BY Looked DEF StampInv
    <3>3. Heard(i)'
      BY <1>n, <2>4, <2>5, <3>1 DEF Heard
    <3>4. Backed(i)'
      BY <2>4, <2>5, <3>1, <3>2 DEF Backed, JobInv
    <3> QED
      BY <3>3, <3>4
  <2> QED
    BY <1>3, <2>5, <2>6 DEF StampInv
\* A step of item k: the others have their own jobs and, unless they share
\* it, their own listings.
<1>10. ASSUME NEW k \in Items, UNCHANGED <<node, listing>>,
              \A i \in Items \ {k} : job'[i] = job[i],
              \A l \in Listings : cache'[l] # None => cache'[l].version <= listing[l],
              \A l \in Listings : cache'[l] = cache[l] \/ (k \notin Local /\ l = ListingOf[k]),
              Heard(k)', ~SharesListing(k) => Backed(k)'
       PROVE  StampInv'
  <2>1. ASSUME NEW i \in Items, i # k
        PROVE  Heard(i)' /\ (~SharesListing(i) => Backed(i)')
    <3>1. Heard(i)'
      BY <1>10, <2>1 DEF Heard, StampInv
    <3>2. ASSUME ~SharesListing(i)
          PROVE  Backed(i)'
      <4>1. i \notin Local => cache'[ListingOf[i]] = cache[ListingOf[i]]
        BY <1>10, <2>1, <3>2, Looked DEF SharesListing
      <4>2. Backed(i)
        BY <3>2 DEF StampInv
      <4> QED
        BY <1>10, <2>1, <4>1, <4>2 DEF Backed, JobInv
    <3> QED
      BY <3>1, <3>2
  <2>2. FingerprintTruthful'
    BY <1>3, <1>10
  <2>3. \A i \in Items : Heard(i)' /\ (~SharesListing(i) => Backed(i)')
    BY <1>10, <2>1
  <2>4. \A l \in Listings : cache'[l] # None => cache'[l].version <= listing'[l]
    BY <1>10
  <2> QED
    BY <2>2, <2>3, <2>4 DEF StampInv
<1>11. ASSUME NEW k \in Items, listingFor(k)
       PROVE  StampInv'
  <2> DEFINE l == ListingOf[k]
  <2>1. UNCHANGED <<node, listing, cache>> /\ job[k].step = "todo"
    BY <1>11, listingForJob DEF listingFor
  <2>2. Heard(k) /\ (~SharesListing(k) => Backed(k))
    BY DEF StampInv
  <2>3. k \notin Local => l \in Listings
    BY Looked
  <2>4. k \notin Local /\ cache[l] # None => cache[l].version <= listing[l]
    BY <2>3 DEF StampInv
  <2>5. ASSUME NEW s \in State, NEW m \in Meta, Tell(k, s, m),
               k \notin Local /\ cache[l] # None => m = Listed(cache[l].version)
        PROVE  StampInv'
    <3>1. /\ \A i \in Items \ {k} : job'[i] = job[i]
          /\ job'[k].step = "told" /\ job'[k].meta = m /\ job'[k].pre = job[k].pre
          /\ job'[k].answer = job[k].answer /\ job'[k].row = job[k].row
      BY <2>5, TellJob
    <3>2. k \notin Local /\ cache[l] # None =>
            m.kind = "listed" /\ m.version = cache[l].version /\ cache[l].version \in Nat
      BY <1>n, <2>3, <2>5 DEF Listed
    <3>3. Heard(k)'
      BY <2>1, <2>2, <3>1 DEF Heard
    <3>4. ~SharesListing(k) => Backed(k)'
      BY <2>1, <2>2, <3>1, <3>2 DEF Backed, JobInv
    <3> QED
      BY <1>10, <2>1, <3>1, <3>3, <3>4 DEF StampInv
  <2>6. ASSUME k \notin Local, NEW a \in Answer,
               a.kind = "ok" => a \in {job[k].pre, Ok(l)},
               job' = [job EXCEPT ![k].step = "asked", ![k].answer = a, ![k].saw = cache[l]]
        PROVE  StampInv'
    <3>1. /\ \A i \in Items \ {k} : job'[i] = job[i]
          /\ job'[k].step = "asked" /\ job'[k].answer = a /\ job'[k].saw = cache[l]
          /\ job'[k].pre = job[k].pre /\ job'[k].row = job[k].row
      BY <2>6, AskJob
    <3>2. Ok(l).version = listing[l] /\ listing[l] \in Nat
      BY <1>n, <2>3, <2>6, OkTyped
    <3>3. Heard(k)'
      BY <2>1, <2>2, <2>6, <3>1, <3>2 DEF Heard
    <3>4. ~SharesListing(k) /\ a.kind = "ok" /\ cache[l] # None => cache[l].version <= a.version
      BY <2>1, <2>2, <2>4, <2>6, <3>2 DEF Backed, JobInv
    <3>5. ~SharesListing(k) => Backed(k)'
      BY <2>1, <2>2, <3>1, <3>4 DEF Backed, JobInv
    <3> QED
      BY <1>10, <2>1, <3>1, <3>3, <3>5 DEF StampInv
  <2> QED
    BY <1>11, <2>5, <2>6, listingForJob
<1>12. ASSUME NEW k \in Items, Defer(k)
       PROVE  StampInv'
  <2>1. "deferred" \in State /\ None \in [fp: Stamp, score: Score] \cup {None}
    BY DEF State
  <2>2. /\ \A i \in Items \ {k} : job'[i] = job[i]
        /\ job'[k].step = "done" /\ job'[k].row \in {None, job[k].row}
        /\ job'[k].pre = job[k].pre /\ job'[k].answer = job[k].answer
    BY <1>12, <2>1, DoneJob DEF Defer
  <2>3. UNCHANGED <<node, listing, cache>>
    BY <1>12 DEF Defer
  <2>4. Heard(k) /\ (~SharesListing(k) => Backed(k))
    BY DEF StampInv
  <2>5. Heard(k)'
    BY <2>2, <2>3, <2>4 DEF Heard
  <2>6. ~SharesListing(k) => Backed(k)'
    BY <2>2, <2>4 DEF Backed, JobInv
  <2> QED
    BY <1>10, <2>2, <2>3, <2>5, <2>6 DEF StampInv
<1>13. ASSUME NEW k \in Items, Answered(k)
       PROVE  StampInv'
  <2> DEFINE l == ListingOf[k]
  <2>1. UNCHANGED <<node, listing>> /\ k \notin Local /\ l \in Listings /\ job[k].step = "asked"
    BY <1>13, AnsweredJob, Looked DEF Answered
  <2>2. Heard(k) /\ (~SharesListing(k) => Backed(k))
    BY DEF StampInv
  <2>3. ~SharesListing(k) => job[k].saw = cache[l]
    BY <2>1, <2>2 DEF Backed, JobInv
  \* What was told is at least the copy that is there now.
  <2>4. ASSUME NEW s \in State, NEW m \in Meta, Tell(k, s, m),
               \A j \in Listings : cache'[j] = cache[j] \/ j = l,
               cache'[l] # None => cache'[l].version <= listing[l],
               ~SharesListing(k) /\ cache'[l] # None =>
                 m.kind = "listed" /\ cache'[l].version <= m.version
        PROVE  StampInv'
    <3>1. /\ \A i \in Items \ {k} : job'[i] = job[i]
          /\ job'[k].step = "told" /\ job'[k].meta = m /\ job'[k].pre = job[k].pre
          /\ job'[k].answer = job[k].answer /\ job'[k].row = job[k].row
      BY <2>4, TellJob
    <3>2. Heard(k)'
      BY <2>1, <2>2, <3>1 DEF Heard
    <3>3. ~SharesListing(k) => Backed(k)'
      BY <2>2, <2>4, <3>1 DEF Backed, JobInv
    <3>4. \A j \in Listings : cache'[j] # None => cache'[j].version <= listing[j]
      BY <2>4 DEF StampInv
    <3> QED
      BY <1>10, <2>1, <2>4, <3>1, <3>2, <3>3, <3>4
  <2>5. cache[l] # None => cache[l].version <= listing[l] /\ cache[l].version \in Nat
    BY <1>n, <2>1 DEF StampInv
  <2>6. ASSUME NEW s \in State, NEW m \in Meta, Tell(k, s, m), UNCHANGED cache,
               job[k].saw # None => m = Listed(job[k].saw.version)
        PROVE  StampInv'
    <3>1. ~SharesListing(k) /\ cache'[l] # None =>
            m.kind = "listed" /\ cache'[l].version <= m.version
      BY <2>3, <2>5, <2>6 DEF Listed
    <3> QED
      BY <2>4, <2>5, <2>6, <3>1
  <2>7. ASSUME job[k].answer.kind = "ok", job[k].answer.version \in Version,
               NEW s \in State, Tell(k, s, Listed(job[k].answer.version)),
               \/ UNCHANGED cache
               \/ \E c \in Copy : /\ c.version = job[k].answer.version
                                 /\ cache' = [cache EXCEPT ![l] = c]
        PROVE  StampInv'
    <3> DEFINE m == Listed(job[k].answer.version)
    <3>1. /\ m \in Meta /\ m.kind = "listed" /\ m.version = job[k].answer.version
          /\ job[k].answer.version \in Nat
      BY <1>0, <2>7, SaidTyped
    <3>2. job[k].answer.version <= listing[l]
      BY <2>2, <2>7 DEF Heard
    <3>3. CASE UNCHANGED cache
      <4>1. ~SharesListing(k) /\ cache[l] # None => cache[l].version <= m.version
        BY <2>1, <2>2, <2>3, <2>7, <3>1 DEF Backed, JobInv
      <4> QED
        BY <2>4, <2>5, <2>7, <3>1, <3>3, <4>1
    <3>4. ASSUME NEW c \in Copy, c.version = job[k].answer.version,
                 cache' = [cache EXCEPT ![l] = c]
          PROVE  StampInv'
      <4>1. cache'[l] = c /\ \A j \in Listings : cache'[j] = cache[j] \/ j = l
        BY <1>0, <2>1, <3>4
      <4>2. cache'[l].version <= listing[l] /\ cache'[l].version <= m.version
        BY <3>1, <3>2, <3>4, <4>1
      <4> QED
        BY <2>4, <2>7, <3>1, <4>1, <4>2
    <3> QED
      BY <2>7, <3>3, <3>4
  <2> QED
    BY <1>13, <2>6, <2>7, AnsweredJob
<1>14. ASSUME NEW k \in Items, scoreItem(k)
       PROVE  StampInv'
  <2>1. job[k].step = "told" /\ RowOf(k) \in [fp: Stamp, score: Score]
    BY <1>14, RowTyped DEF scoreItem
  <2>2. \E r \in {RowOf(k), None} :
          \/ job' = [job EXCEPT ![k].step = "done", ![k].row = r]
          \/ job' = [job EXCEPT ![k].step = "done"]
    BY <1>14 DEF scoreItem, RowOf
  <2>3. "" \in State
    BY DEF State
  <2>4. /\ \A i \in Items \ {k} : job'[i] = job[i]
        /\ job'[k].step = "done" /\ job'[k].row \in {RowOf(k), None, job[k].row}
        /\ job'[k].pre = job[k].pre /\ job'[k].answer = job[k].answer
    <3>1. PICK r \in {RowOf(k), None} :
            \/ job' = [job EXCEPT ![k].step = "done", ![k].row = r]
            \/ job' = [job EXCEPT ![k].step = "done"]
      BY <2>2
    <3>2. r \in [fp: Stamp, score: Score] \cup {None}
      BY <2>1
    <3> QED
      BY <2>3, <3>1, <3>2, DoneJob
  <2>5. UNCHANGED <<node, listing, cache>>
    BY <1>14 DEF scoreItem
  <2>6. Heard(k) /\ (~SharesListing(k) => Backed(k))
    BY DEF StampInv
  <2>7. Backed(k) => Claims(RowOf(k).fp, RowOf(k).score)
    BY <2>1 DEF Backed, JobInv, Claims, RowOf, withListing
  <2>8. Heard(k)'
    BY <2>4, <2>5, <2>6 DEF Heard
  <2>9. ~SharesListing(k) => Backed(k)'
    BY <2>4, <2>6, <2>7 DEF Backed, JobInv
  <2> QED
    BY <1>10, <2>4, <2>5, <2>8, <2>9 DEF StampInv
<1>15. ASSUME NEW names \in BOOLEAN, Write(Rows(names))
       PROVE  FingerprintTruthful'
  <2>1. \A i \in Items : ~SharesListing(i) /\ job[i].row # None =>
          Claims(job[i].row.fp, job[i].row.score)
    BY DEF StampInv, Backed
  <2>2. \A i \in Items : node'[i] = node[i] \/ (node'[i] = job[i].row /\ job[i].row # None)
    BY <1>15 DEF Write, Rows
  <2> QED
    BY <2>1, <2>2 DEF StampInv, FingerprintTruthful, Claims
<1>16. CASE WriteByKey
  <2>1. CASE Write(Rows(FALSE)) /\ UNCHANGED job
    <3>1. FingerprintTruthful'
      BY <1>15, <2>1
    <3>2. UNCHANGED <<cache, listing, job>>
      BY <1>16, <2>1 DEF WriteByKey
    <3>3. \A i \in Items : (Heard(i)' <=> Heard(i)) /\ (Backed(i)' <=> Backed(i))
      BY <3>2 DEF Heard, Backed, JobInv
    <3> QED
      BY <3>1, <3>2, <3>3 DEF StampInv
  <2>2. CASE ChunkDone /\ UNCHANGED graph
    BY <1>2, <1>3, <1>16, <2>2 DEF WriteByKey, ChunkDone
  <2> QED
    BY <1>16, <2>1, <2>2 DEF WriteByKey
<1>17. CASE WriteByName
  <2>1. FingerprintTruthful'
    BY <1>3, <1>15, <1>17 DEF WriteByName
  <2> QED
    BY <1>2, <1>17, <2>1 DEF WriteByName, ChunkDone
<1> QED
  BY Steps, <1>5, <1>6, <1>8, <1>9, <1>11, <1>12, <1>13, <1>14, <1>16, <1>17

\* For any number of items, listings and failures, and any interleaving of the
\* items of a chunk: a node's fingerprint never claims a newer listing than
\* its score was made from, if the item shares its listing with no other.
THEOREM StampsAreTruthful == Spec => []FingerprintTruthful
<1>1. Spec => [](Typed /\ StampInv)
  BY InitTyped, NextTyped, InitStamp, NextStamp, PTL DEF Spec
<1> QED
  BY <1>1, PTL DEF StampInv
=============================================================================
