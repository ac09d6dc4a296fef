# fleet-hound: verification project

TLA+ models of fleet-hound, the properties TLC checks on small instances of
them, and the theorems TLAPS proves about them for every instance.

fleet-hound mirrors a Fleet server into a Memgraph graph (hosts, users,
software, labels), enriches the graph, and serves a dashboard over it. What can
go wrong in it silently is the mirror: a host whose software is never fetched
again because a watermark moved past it, a label whose wrong edges look right,
a state file in which one process undoes what another saved. Beside the mirror
stand a worker that rates browser extensions, an enricher, snapshots and a
whitelist, each of which must finish what failed before and lose nothing
meanwhile. The models are about that.

## The system

| Part | State it keeps | Operations | Talks to |
|---|---|---|---|
| ETL run (`internal/etl`, `internal/fleet`, `internal/ingest`) | the graph; `team_syncs` in `.state.json` | extract hosts page by page, write hosts, users, software, reap, move the watermark | Fleet (HTTP), Memgraph, the state file |
| Label sync (`internal/ingest`) | `:Label` nodes with hash, blob, orphans, failure counter; `HAS_LABEL` edges | match, delta, full rewrite, stamp, reap | Memgraph; runs inside an ETL run |
| State file and lock (`internal/etl`) | `.state.json`, `.etl.lock` | load, save, flock, clear-db | every ETL run, the OODA loop, clear-db |
| OODA loop (`internal/ooda`) | cadence in memory and in `.state.json`, status file, cycle history, findings | observe, orient, decide, act | ETL run, triggers of the other workers |
| Workers (`internal/workerutil`) | lock files, trigger files, handles | elect a leader once, sleep until a deadline or a trigger, stop | OODA loop, enricher, extension worker, API |
| Extension worker (`internal/extworker`, `internal/extintel`) | fingerprints and scores on `:Software`, caches on disk | plan, fetch listings, score, write by chunks | stores and feeds (HTTP), Memgraph |
| Enricher (`internal/enrich`) | categories and misses on `:Software` | pick, fetch in parallel, write or mark a miss | Wikipedia, Memgraph |
| Snapshots (`internal/snapshot`) | `.jsonl.gz` and meta files | write, prune, list, diff | ETL run, API |
| Whitelist (`internal/app`) | `whitelist.json` | load, add under a flock | API |
| Shadow IT scan (`internal/api/shadowit`) | answers, for thirty seconds | scan, keep, replay | whitelist, graph |
| Graph driver (`internal/graphdb`) | one cached driver | get, query with retry, reset | everything |
| Server (`internal/server`) | handles of started workers | start on demand, stop, shut down | everything |
| Other routes, catalogue, configuration, dashboard | none that outlives a request | queries, samples, walks, formatting | graph |

`PROJECT.json` lists every part with its files and what is modelled of it, and
the hazards with the lines where they bite and the properties that cover them.

### What is hard about it, and what makes it correct

* **ETL run.** Queries fail one at a time, most failures are only logged, the
  process may die anywhere, and Fleet changes while its pages are read. Correct
  means: the graph holds everything up to the watermark; a stamp that lets the
  next run skip a host's software is never a lie; a reap deletes only what left
  Fleet; and what one run missed a later one makes up for.
* **Label sync.** A label with an unchanged hash is skipped if a *count* of its
  edges is right. Correct means that the count cannot be right by accident,
  that rewrites repair, that what Fleet lists is not reaped.
* **State file.** Three kinds of process read, change and write one file, one
  of them under a lock. Correct means mutual exclusion of the runs, a watermark
  the graph can back, a full-scan cadence that survives crashes.
* **OODA loop, workers.** One leader per worker across processes, no trigger
  lost, no cycle id used twice.
* **Extension worker.** Three kinds of cache, each with a file of its own for its
  age, and one fingerprint on a node that says what a score was made from. Correct
  means that neither a copy nor a fingerprint claims more than was seen, that
  known bad is not forgotten when a list is out of reach, and that what is not
  finished is tried again.
* **Extension intelligence.** Answers of stores and lists fail in a dozen ways, and
  the score has caps, discounts and floors. Correct means that a failure is not a
  verdict, that more against an item never makes it look better, and that
  trust ends where an install is not the store's.
* **Enricher, graph driver.** One driver is shared, and closed under its users'
  queries. Correct means one driver at a time, failures only for a cause, a driver
  that the errors of one caller take from no other, a cooldown only for a miss, and
  no name starved.
* **Snapshots, whitelist, scan.** Two files that must agree, readers beside writers,
  a cache beside the file its answers were made from.

## Modules

| Module | Models | State it corresponds to |
|---|---|---|
| `EtlIngest` | ETL runs one after the other: `runLocked`, `ExtractHostPages`, `CreateGraphRelationships` and its batches, both reaps | `node`, `edges`, `stamp`, `ingested`: the graph; `watermark`: `team_syncs`; `hostBatch`, `swGrouped`, `emptySWHosts`, `swSynced`, `failed`: the variables of that name; `chunk`: where `runChunk` is for a host |
| `LabelSync` | `SyncLabelsWithMembership` and what precedes and follows it in a run | `hashed`, `blob`, `orphans`, `failures`, `lastSynced`: properties of `:Label`; `payload`, `memberMap`, `got`: what was fetched; `step`: the next query of a label |
| `StateFile` | every reader and writer of `.state.json` and `.etl.lock` | `file`, `lockFile`; `st`, `ts`: the state a run loaded and its watermark; `ls`: `loopState`; `buf`: what `SaveFullScanCadence` loaded |
| `OodaLoop` | the OODA loop as a worker of several servers: election, cycle, sleep, triggers, shutdown, restart | `lock`: the flock; `once`: `oodaOnce` and how far `Start` came; `mem`, `statusFile`: `sharedStatus` and its file; `trigger`: mtime of the trigger file; `findings`, `cycles`: those files |
| `ExtWorker` | cycles of the extension worker: `runCycle`, `plan`, `listingFor`, `scoreItem`, `writeRows`, `conditionalFetch` | `copy`, `etag`, `fresh`, `cache`, `aged`: the files of the caches and their ages; `node`: fingerprint and score of an item; `pc`, `work`, `chunk`, `job`: where the cycle is |
| `StoreFetch` | what a lookup makes of the answers of its endpoints: `FetchStoreMetadata` and the adapters | none: operators |
| `Feeds` | `CompareVersions`, ranges, the paged blocklist, the threat feeds | none |
| `Score` | `AnalyzeExtension`: the parts of the score, its floors, the bands; the typosquat test | none |
| `Identity` | `DeriveExtensionIdentity`: which node an extension goes to | none |
| `GraphApi` | `SampleGraph`, `correlateExpand`, `path`, `blastRadius` | none |
| `Algorithms` | the five above together, asked one question at a time | `asked`: the question |
| `GraphDriver` | the shared driver: `Driver`, queries, `Reset` | `driver`, `opened`: the handle and the drivers not closed; `call`: where each caller is; `left`: callers whose context has ended |
| `Enricher` | `runTick`, `pickUncategorized`, `RunCategorization`, `markMiss`, the purge | `node`: category, miss and text of each name |
| `Authorized` | abstract: a set of names that only grows | |
| `Whitelist` | `Load`, `Add`, `Save` under the flock; implements `Authorized` | `wfile`: `whitelist.json`; `adding`: where each request is |
| `ShadowIt` | `serve` of the Shadow IT scan beside the whitelist | `answers`: the cache; `mtime`: of the file; `viewing`: where each request is |
| `Snapshots` | `WriteSnapshot`, `pruneOld`, `ListSnapshots`, `DiffSnapshots` | `snap`: the graph and meta files; `draft`, `wpc`: the write under way; `graph`: what is written |
| `Server` | `Enricher` through `GraphDriver`, `Whitelist` with `ShadowIt`, `Snapshots` | the variables of the five, and `scene` |
| `MCEtlIngest`, `MCLabelSync`, `MCStateFile`, `MCOodaLoop`, `MCExtWorker`, `MCServer` | values of the constants and symmetry sets for TLC | |
| `EtlIngestProofs`, `LabelSyncProofs`, `StateFileProofs`, `OodaLoopProofs`, `ExtWorkerProofs`, `SnapshotsProofs`, `ServerProofs` | theorems about the module of the name | |
| `AlgorithmsProofs` | theorems about `StoreFetch`, `Feeds`, `Score`, `Identity`, `GraphApi` and `Algorithms` | |

The first three meet at two places. `EtlIngest` takes runs to be serialised,
which is what `StateFile` shows of the lock and when it fails. `StateFile`
reduces the graph to the time up to which it is complete: a complete run brings
it from the watermark it started at to its own time, which is what
`InstalledNotLost` of `EtlIngest` says of a run. `OodaLoop` shows that one loop runs
at a time, which `StateFile` assumes; what a cycle does to the state file is there.
`ExtWorker` reduces a listing to a version and a list to a set of items;
`Algorithms` shows what the two come to mean for a score. `Server` puts the
enricher on the driver that the routes reset, and the scan beside the requests
that change what it leaves out.

### EtlIngest

Fleet is part of the model: hosts enroll, report software, change and leave at
any moment, also while a run walks the pages. A run is one action per query or
per decision: `runLocked`, `CreateGraphRelationships` (the prefetch of the stamps),
`ReadHost`/`PassOver` for each host, `batchCreateHosts`, `MergeSoftwareNodes`, then
for each host of the batch, interleaved as the chunks are, `DeleteStaleRels`,
`MergeRels`, `MarkSynced`; then `PruneEmptied`, `ReapStaleHosts`, `ReapUnattached`,
`SaveWatermark`. Each failure the code handles is a member of the constant
`Faults`; each run names the ones it allows. Since a delta walk goes newest first, a
host that changes during the walk may be met or not (`MovesToFront`).

Left out: `USES` edges (a failed batch of them only marks its hosts, which is
modelled), schema migrations and dedupe sweeps, the orphan supplement, transfers
between teams, a host met twice by one walk, the version tag of a stamp.
`RunShorterThanReapAge` assumes that no run lasts as long as the reap age
(seven days).

### LabelSync

`Fetch` and `IngestHosts` come before the sync, the reaps after it. The labels are
taken one after the other, each query a step. A given-up query lets the sync go
on, as `execRetry` does; `abort` is an error that ends it. Hash and blob are one
set because one query writes both. The list of orphans is not cut at 50, and
the other properties of a label are left out.

### StateFile

Loading and saving are separate steps; a save is one step because it is a
rename. `FullScanEvery` and `Threshold` (one and a half cadences, in ticks) are
constants. The watermarks of the teams are one number. `LockPurged` says
whether clear-db was given the path of the lock that is in use, which is so on
the host and not in the container (`/app/.etl.lock` against
`/app/config/.etl.lock`).

### OodaLoop

A server calls `Start` once, from a probe or a request: it loads the status file,
tries the lock, and leads or never tries again. These are separate steps, since
other servers run in between. A cycle is cut where another process, a
shutdown or a kill can come in between two effects: the ETL run, the queries of
Decide, the write of the findings, the row of the history with its trim, the
record of the cycle in the status. `Shutdown` cancels the context; the code notices
at the places where it looks (`Abandons`). `Wait` frees the lock when the loop is
over, the end of the process in any case; giving up the wait is `Kill`. A panic
is recovered and the loop goes on. A trigger is a touch of a file, and
only the order of its mtimes matters, so `trigger` counts touches. Two requests may
both pass the cooldown before one of them touches.

Left out: `last_phase`, `last_error`, the counters, the audit line, and failures of the
status file's own flush, which are only logged.

### ExtWorker

The world is part of the model: stores publish, hosts upgrade, lists name and
drop items, copies age and are lost. A cycle loads the threat feed and the
blocklist with conditional requests (`UseFreshList`, `NotModified`, `FetchList`,
`FetchListFails`, then `SaveDoc` and `SaveMeta`, which are two files), reads the nodes and
plans (`plan`), and takes the plan by chunks. An item of a chunk looks its listing
up, falls back on a copy, waits for the breaker, or finds what a sibling just
fetched (`listingFor`, `Defer`, `Answered`); these interleave, as the goroutines do.
`scoreItem` computes the fingerprint; `WriteByKey` and `WriteByName` are the two
queries of a chunk. What a node keeps is the stamp it was given and, as history,
what it was scored from. `Faults` and `MaxFaults` bound the failures, one kind of which
may be a panic, a kill or a shutdown.

Left out: the shared status, the coverage counts, the removal of orphaned cache
files, and the election, which is that of `OodaLoop`.

### StoreFetch, Feeds, Score, Identity

Operators, each the function of its name in the code. An answer of an endpoint
is a member of a small set (`"ok"`, a kind of failure that passes, not found, a body
of the wrong shape), a manifest its permissions and patterns, a version a
sequence of parts, an item what is known about it. A part of a version is its
number and the text that follows it, which the code compares as text (the last
two of Mozilla's four fields are in it); `CompareVersions` is their order. A record of
Mozilla's has a status and a flag, which `recordStatus` turns into the status an
item is scored with: `TakenDownIsHigh` is that what a store took down, as its own
record or the listing of the Chrome store says, is of high risk at least.

Left out: the extraction of facts from store pages, the texts of the signals,
the HTTP client with its retries, JSON; a directive of a content security policy
that has no sources, such as `script-src;`, which the expression of the code
does not see and passes over for `default-src`; rows of Safari extensions to which
the host gives an `extension_id` of its own.

### GraphApi

A graph is its nodes with their kinds and its links. Which rows a `LIMIT` cuts and
which of several shortest paths is found is the database's choice:
`correlateExpand` gives every outcome and `Shortest` every walk. Ties of degree are
broken by the node, as by its id in the code; quotients are exact, where
the code divides floats and truncates.

### GraphDriver and Enricher

A call to the driver waits for the mutex, probes a bounded number of times, gets a
session, and ends. It fails when Memgraph does not answer the probes or refuses the
credentials, when the connection of its session is lost or its driver closed, and,
with Memgraph in reach, in two more ways. Its caller may leave (`Leave`: a client
that goes away, or the limit of 120 s on a request; the context of a worker ends
with the worker only): a probe cut short is a service that is unavailable,
like one that was not answered. And Memgraph may answer a query with an error
(`Refused`): transient, which the route reports as a 503, or the query's own, which is a 500.
A route whose error is a service that is unavailable resets the handle, and after an
authentication error, a transient one or one of the query it does not (`Fail`). Which
error the driver library makes of a driver that was closed or of a context that
ended in a query is left open: `QueryFails` has both. Memgraph goes away and comes back.
The worker of the enricher picks,
looks up in parallel, and writes category or miss; at a start it purges the
descriptions the gate would not pass, in two queries. `RunCategorization` runs
beside it from every ETL run and reads and writes the same nodes. In `Server` each of
the worker's queries is answered or fails as the driver says; `RunCategorization` has
a driver of its own process.

Left out: how a category is inferred from text (a text is plain, or passes the
gate, or names software), the status file and the trigger.

### Whitelist, Authorized, ShadowIt

An addition takes the flock, reads the file, extends the list and renames a new
file over the old. Several servers may do so, hence the descriptor of its own.
The abstract module knows a set of names and additions that read nothing;
`Whitelist` implements it with `authorized <- NormalizeWhitelist(wfile)` and
`blind <- Unread`, so the abstract specification is a property of the run:
`OnlyGrows`.

A scan looks in its cache under the arguments and the modification time of the
file, otherwise reads the whitelist, queries the graph, and keeps the answer under
the key it began with. There is one set of arguments, each write has a time of
its own, and the graph is the time at which it was read.

### Snapshots

A snapshot streams nodes and edges kind by kind, each in its own query, while
properties change and clear-db deletes; then come the rename, the meta file, and the
removal of old ones, one file at a time. A write may fail or its process die
anywhere. A removal succeeds: the code ignores its errors (`snapshot.go:298-299`),
and what they leave is a snapshot too many until the next retention, perhaps without
its meta file and so listed by its hour, or a meta file that nothing lists. Listing
sorts by the meta file's time or, without one, by the name, which has the hour only.
A node is its noisy and its other properties.

### Server

The three groups share no state, so a behaviour is about one of them, its
`scene`, and leaves the others at their start: `enricher` (`Enricher` through
`GraphDriver`), `whitelist`, `scans` (`Whitelist` with `ShadowIt`, from an empty file) and
`snapshots`.

## What TLC checks

Every run is in `PROJECT.json` with its properties. Runs that pass:

| Run | Shows | Bounds |
|---|---|---|
| `EtlLive` | what the watermark covers is in the graph, software and absence of software, with runs of other teams, a skewed clock and the failures that mark their host or cut the walk, except for a DELETE that is given up; after the last failure delta runs repair the graph (liveness) | 1 host, 2 teams, margin 2, skew 1, time 4, failures until time 3 |
| `EtlReap` | full scans beside delta runs reap only what left Fleet, and lose no software, through half-written hosts and crashes | 2 hosts, batches of 2, reap age 1, time 3 |
| `EtlShift` | stamps stay truthful when a page shifts and when stamps, their prefetch or the prune of emptied hosts fail | 2 hosts, batches of 1, time 3 |
| `LabelLive` | the count-based drift check is exact as long as no edge unknown to the record can appear; labels end up with their members' edges (liveness) | 2 hosts, failures until time 2 |
| `LabelRepair` | a full rewrite repairs whatever crashes, aborts and lost deletes left | 2 hosts, reap age 1, time 2 |
| `StateRace` | exclusion of the runs, and until the graph is wiped a watermark it backs, with two manual runs, clear-db, the loop and every failure | 2 runs, cadence 2, time 3 |
| `StateLoop` | the loop's cadence survives its crashes, the full scan is never late, and forced full scans recur for ever (liveness) | cadence 3, threshold 4, time 8 |
| `OodaPair` | one loop among servers that overlap, and a status file that shows it | 2 servers, interval 1, time 2, 3 stops or kills, 1 row of history |
| `ExtWorker` | a copy's ETag and a node's fingerprint claim no more than was seen, known bad is not forgotten; a quiet world comes to be scored as it is, and is then left in peace (liveness) | 2 extensions of one Safari app, 1 of the Chrome store, 1 built-in; chunks of 2, 2 versions, 2 changes of the world, 1 failure |
| `Algorithms` | a failure is not a verdict and not hidden; versions are ordered; what is on any page is blocked; more against an item never lowers its score; samples, surroundings, paths and radii show what they say | one question at a time: answers of every endpoint, versions of 3 parts, lists of 3 pages of which 2 are read, words of 4 letters, graphs of 5 or 6 nodes, surroundings of 3 |
| `Server` | one driver, failures for a cause, errors that disturb no other caller, cooldowns for a miss; the whitelist implements a set that only grows, and scans show it; snapshots are whole, kept, listed in order, and their diffs replay; every name is settled (liveness) | 3 names and batches of 1, 2 callers, 2 probes, 1 mishap of the driver (an outage, a caller that leaves, or an error of a query), 2 incidents; 2 additions and 2 scans, 1 accident; 3 snapshots of which 2 are kept, 5 nodes, 1 edit, 1 loss, 1 aging |
| `OodaSolo` | ids repeat only after a kill or a panic; a shutdown leaves the findings alone; each trigger is followed by a cycle that begins after it (liveness) | 1 server restarted, interval 1, cooldown 1, time 2, 2 stops, kills or panics, 2 rows of history |

The bounds are the smallest in which the interesting cases occur. Losing a host takes a
run that moves the watermark, a change, and a run that skips it: time 3, and one more
for a margin of 2. A reap takes a scan, a tick beyond the reap age, and another scan.
The drift check can only be fooled with two hosts, one too many and one too few. A race
on the state file takes two writers, of which the loop is always one, and exclusion
three contenders. The cadence takes two periods. An election takes two servers and three
stops, so that each leads and one comes back; a repeated id takes a kill and a restart.
Batches of one and of two cover a flush per host and a flush of several. The extension
worker takes two items on one listing, a third on a store with a breaker, and one
without any listing; a chunk smaller than the plan; and a failure after a change. A lost
update of the whitelist takes two additions, a stale answer one addition and two scans.
Retention takes one snapshot more than is kept, and two within an hour. The algorithms
compare and combine at most three of anything (transitivity, a page after the last, a
type beyond its quota). Hosts share nothing but the batch they are in, and labels
nothing but the run: one host, or one label, is enough where batches are not at stake.
What more hosts, teams and runs add is what the theorems are for. Symmetry is used only
where no liveness is checked. `CHECK_DEADLOCK` is off throughout: time is bounded, and a
system whose clock has run out and where nobody starts a run may stop.

Invariants that belong together are checked as one, as conjunctions of named parts: those of
`Algorithms` are `FailuresTold` (lookups), `BlockedFound` (lists and versions), `ScoreRises` (the
score), `TrustEarned` (installs, names, keys) and `ShownHolds` (the graph routes); those of `Server`
are `DriverShared`, `NamesKept`, `ScansCurrent` and `SnapshotsHold`, one for each part. The parts
bear the names used below.

Two parts of these compare the code with a definition of what it should
compute: the typosquat test with the edit distance, and surroundings with the ball
of the depth. The rest relate two answers of the code.

Fairness. `EtlLive` and `LabelLive` assume that time passes and that a run that can take
a step takes one (a run is a sequential program; the chunks are waited for). The OODA
loop starts a run each interval: weakly fair for labels; strongly for hosts, because
runs of other teams may hold the lock when it tries, and are assumed not to do so every
time. In `StateLoop` the loop may die again and again; strong fairness of `BeginCycle`
and `SaveFullScanCadence` says that it does not die every time at the same line.
`OodaSolo` assumes that a process that can take a step takes one, and that a server that
is down is started again and probed, as the container's restart policy and health check
do; time need not pass, so a trigger is served by a wake-up and not by the interval.
`ExtWorker` assumes that the loop goes on: weak fairness of its next step, whatever that
is, which includes starting again after a kill, as the restart policy does. Nothing
obliges the world to come to rest; `Converges` speaks of when it does, with every time
to live run out. `Server` assumes that the worker's goroutine goes on, that a caller in
the driver does, that a route that must reset or give up does so, and that Memgraph
comes back; no fairness is assumed of requests, of `RunCategorization`, of cooldowns
that end, or of lookups that succeed. Nothing obliges Fleet to change, a query to
succeed before `QuietFrom`, or anybody to start a run by hand.

Failures that a passing run leaves out are those whose effect the code does not make
good; the list below, and the conditions of the theorems, say which.
`EtlLive` leaves out the failures that are only logged, and crashes: each may leave
a host with edges and no stamp. It leaves out the DELETE that is given up too, which
is in `EtlReap`. `LabelLive` leaves out the three that let an
edge appear that the label's record does not know of.

### Known disagreements

What the code does where a property above has a condition, or a comment says
otherwise. Those of the first list appear as counterexamples when a constant of a
run is changed; those of the second are conditions of a property.

* `InstalledNotLost` fails with `"emptied"` in `Faults`: when the prune of hosts that
  came to report no software fails, the watermark moves over the edges it left.
* `InstalledNotLost` fails with `"shift"`: paging by number skips a host when another
  leaves, and the walk counts as complete.
* `DriftCaught` fails with `"remove"` and `"add"`: both queries of a delta are given up,
  the hash is stored, and wrong edges in the right number are never seen again.
* `EmptiedNotLost` also fails with `"prefetch"`, `"stamp"` or `"crash"` in `Faults`: an
  empty map of stamps, or a host with edges and no stamp, switches the prune off
  (`ingest.go:966-990`).
* `OnlyGoneReaped` fails with `"hosts"`: a host that the scan saw is reaped because its
  batch was given up (`ingest.go:1117-1122`).
* `DriftCaught` fails with `"crash"` or `"abort"` and hosts that are reaped
  (`ingest.go:1770`).
* `CadenceKept` fails with a manual run: one that loaded the file before the loop's
  update writes the older cadence back (`etl.go:638`).
* The watermark of the file goes back, though not ahead of the graph, with a manual run:
  the loop's update is not under the lock, and one that overlaps the end of the run puts
  the older watermark back (`etl.go:199`).
* `FailuresCounted`, that the counter the dashboard warns about from three on counts the
  syncs that failed in a row, fails after two: each sync clears it before the part that
  may fail (`ingest.go:1687`).
* `HistoryOrdered` without its condition fails when servers overlap: the status is
  loaded before the lock is tried, and a server that gets the lock after another one's
  last cycle uses that cycle's id again (`ooda.go:669`).
* `MutualExclusion` fails with `LockPurged`: removing a held lock file ends exclusion
  (`cleardb.go:236`).
* `file.wm <= graph` fails once clear-db has begun: a run or a cadence update in flight
  undoes the wipe of the watermark, and delta cycles then skip what the empty graph
  lacks (`cleardb.go:231`).

Of the extension worker and its intelligence:

* If only the copy of a list cannot be written, its new ETag is written all the
  same, and a 304 then confirms the older copy (`extworker.go:185-209`): `torn`.
* Contents of a list that were fetched but could not be saved are used in that cycle; if
  the next fetch fails, the older copy on disk is used ("an expired list beats none",
  `extworker.go:1073-1074`), and an extension that was marked known bad may lose the
  mark: `unsaved`, a condition of `KnownBadKept`.
* A Safari extension whose sibling in the same chunk refreshed their listing may
  be stamped with a copy it was not scored from: `FingerprintTruthful` leaves shared
  listings out (`extworker.go:851-886`).
* An item Opera does not know, and whose second lookup in the Chrome store fails,
  is kept as not found (`stores.go:1271-1281`). A package that fails for a moment is
  kept as `manifest_error` by the Chrome adapter (`stores.go:676-683`), as unknown by
  Opera's.
* An Edge listing without its manifest looks like a clean one (`stores.go:745-790`), though
  `score.go:301` says "Never fail open"; `Uninspected` leaves Edge and Safari out.
* Records of one GUID, one with ranges and one without, are merged into the ranges
  (`feeds.go:78-85`), where the one without blocks every version (`feeds.go:220`).
* An empty threat feed counts as one that failed.
* Whether an extension is built in is told at ingestion from all its paths, and
  later from the ten that are stored (`identity.go:270-289`).

Of the server's parts:

* A purge clears a name by what it read in the query before, so a text written in
  between goes too (`categorize.go:70-90`): the condition of `GatedKept`.
* `QueueRemaining` counts every name, its comment says the eligible ones (`enrich.go:77`).
* An addition that could not read the whitelist replaces it by its one name, and
  one whose write fails reports success (`app.go:160-187`): `StartAnew` of `Authorized`.
* A scan that could not read the whitelist shows all it names, and the answer is
  cached like any other (`routes.go:157-167`): the condition of `ApprovalShown`.
* A route that finds the connection dead closes the driver under the queries of
  the others, which its comment accepts: `excused` (`workersapi/routes.go:455`).
* A request that was left while it probed fails with the error of a dead connection
  (`graphdb.go:113-126`), and its route then closes a driver that another caller has made
  since, with Memgraph up all the time, though the route says "Only a dead connection
  warrants a new driver" (`workersapi/routes.go:456-457`). `OnlyDeadReset` of
  `GraphDriver` states that and fails; `met` is the condition of `ErrorsDisturbNobody`.
* Software and labels that came or went are never in a diff: their bucket is made by
  adding an s, which gives `softwares` and `labels`, and a diff has only `hosts`, `users`,
  `software` and `edges` (`snapshot.go:536-554`): the condition of `DiffReplays`.
* A snapshot whose writer died before the meta file is listed by its hour alone,
  perhaps out of order within it: the condition of `WholeBeforeOlder`.
* A path through a node that cannot be shown joins the nodes around it by links of
  other nodes' types (`traversal.go:243`): the condition of `EndToEnd`.
* In a graph where no user is linked all totals of the blast radius are one, so any
  software reaches a hundred per cent of the hosts (`blast.go:185-216`): the condition
  of `InScope`.

## What is proved

For all values of the constants, under the assumptions stated in the modules:

* `EtlIngestProofs`. `TypeCorrect`; `StampsTruthful`, without conditions on the
  failures; `InstalledSafe` and `ReapSafe`, under `LossFree`: no page shifts, and hosts
  are not reaped if a batch of hosts may fail (both are needed, see
  above). The inductive invariant `IInv`
  accounts for every host of the scope between its reading and the saving of the
  watermark: it is still to be read, in a batch, in a chunk, written, or marked,
  and a host that changed since its reading is newer than the watermark the run
  will save. The properties alone are not inductive: they speak of the saved
  watermark, and say nothing of a run under way.
  `NothingIsLost` adds hosts that came to report nothing, under `PruneFree`: also no
  crash and no failure of the prefetch, of a stamp or of the prune itself, each of which is a
  disagreement above. It needs one more invariant, `EInv`: edges without a stamp
  are only those that the run under way is about to stamp.
* `LabelSyncProofs`. `TypeCorrect`; `MembersLinked` and `DriftExact` under
  `NoStrangers`: no crash, no abort, no lost DELETE
  (see the third disagreement). The invariant bounds a label's edges query by
  query, so that at the check they are a subset of the right ones; a subset
  with the same finite number of elements is the whole set. `RewritesRepair` needs no such
  condition, only that no MERGE of the rewrite is given up (the hash is stored all the
  same, and the next sync has to notice): it starts from no edges.
* `StateFileProofs`. `TypeCorrect`; `Excludes` unless the lock file is removed: who
  holds a lock holds the inode at the path; `WatermarkSafe`, until clear-db begins:
  every copy of the state that may be written back is backed by the graph;
  `CadenceSafe` and `FullScansDue` for a loop that is alone with its file (a manual
  run breaks the first, see above): the file's count is at least the number of
  cycles since the last forced scan.
* `OodaLoopProofs`. `TypeCorrect`, which bounds the history when its writes succeed;
  `OneLeader` and `LeaderShown`: a loop holds the lock, and only the loop writes its
  status; `FindingsKept`: queries are cut short only in a server that is stopping, and
  its cycle ends before it writes; `HistoryInOrder`, whose condition (one server at a time) is
  the property's own: memory and file have the same next id, no row is above it, and each
  crash pays for one row that has the next id already.
* `ExtWorkerProofs`, for any number of failures, where the run has one. `WorkerTyped`;
  `EtagsAreTruthful`: versions only grow from the ETag on disk over the contents in hand to what
  is published; `MarksAreKept` (`KnownBadKept`): an item that is marked is on every copy of
  the blocklist that may still be used; `StampsAreTruthful` (`FingerprintTruthful`): no copy is newer
  than the answer in hand, and what is stamped was in it.
* `SnapshotsProofs` and `ServerProofs`. `ServerTyped`; `OneHandle` (`DriverShared`, its three
  parts): at most one caller probes, and only with no driver; who has lost the driver of his
  session was using it when it was reset; who is about to reset it does so after an outage or
  because he left; `NamesAreKept` (`NamesKept`): what is on a
  cooldown, found missing or in hand to be marked was looked up and missed, and no
  name that passed the gate is in a purge selected before; `ScansAreCurrent` (`ScansCurrent`):
  an answer under the present time of the whitelist shows nothing the whitelist has;
  `SnapshotsAreWhole` (`SnapshotsHold`): the
  snapshot in the making lies between the graph at its first query and at its last, and
  retention always has the newest left; and the refinement: `WhitelistOnlyGrows`, that initial
  states of `Server` are initial states of `Authorized` and each of its steps is a step of
  `Authorized` or none, because who holds the lock and has read the file has read what it
  still is. Each scene has an invariant of its own (`DriverInv`, `EnricherInv`, `WhitelistInv`,
  `ScansInv`, `SnapshotsInv`) that the other scenes leave alone.
* `AlgorithmsProofs`. The algorithms for every input, not those of the run alone; each of the
  five invariants of `Algorithms` then follows, because what is asked is such an input.
  Lookups: any answers of any endpoints (`MissesAreConfirmed`, `NothingUninspected`,
  `TakenDownIsFlagged`).
  Lists: versions of any length, any number of pages and records (`VersionsOrdered`,
  `WildcardsCover`, `PagesAreCovered`).
  Score: any manifest, any policy, any facts (`MoreAsked`, `RepeatsAreIgnored`, `HitsNeverHide`,
  `WorseAnswersCount`, `BadIsCritical`, `UnpackedIsNotTrusted`). The parts of a score are a sum over a finite set, about
  which the library has no theorem, so the module proves what it needs: that a sum over a
  finite set exists and that it takes its elements in any order.
  Names and keys: names over any alphabet, of any length (`TyposAreEdits`), any rows of Safari extensions
  (`TeamsAreNotLent`).
  Graphs: any finite graph (`SamplesAreBalanced`, `SurroundingsAreWhole`, `PathsAreJoined`,
  `RadiiAreInScope`). A sample needs room for one node of each type, of which the code has few,
  while its limit is 20 at least (`graph.go:244`). Surroundings need links that lead from users and
  software to hosts: a link between two nodes of the last hop would be read by neither
  hop; there is none, because the nodes a hop finds are all hosts or none is. A path needs nothing.

Induction over numbers is by the least counterexample, which the library's theorem on
well-founded relations gives, since a theorem with an operator for parameter cannot be
used; a recursive function is first shown to exist, because the prover knows it only as what
satisfies its equation, if anything does. `GraphApi` and `Identity` are written with
recursive functions and sets of positions where `SelectSeq` would be shorter: the prover knows
nothing of that operator.

Only model-checked: the liveness properties (`EtlIngest` and `ExtWorker`'s `Converges`,
`LabelsConverge`, `FullScansRecur`, `TriggerServed`, `EveryNameSettled`), which need reasoning
about fairness that the prover does not do. Every safety property and every action
property that a run checks is proved, under the conditions named here.

## Not modelled

* Of the ETL run: `USES` edges, schema migrations and dedupe sweeps, the orphan
  supplement, transfers between teams, a host met twice by one walk.
* Of the OODA loop: the queries of Decide, the counters and `last_error`.
* Of the extension worker: the status file, coverage counts, orphaned cache files.
* Of extension intelligence: the extraction of facts from store pages and the wording
  of signals, which is text processing; the HTTP client.
* Of the enricher: the inference of categories from text.
* Of the server: the HTTP shutdown; the election of the enricher and the extension
  worker, which is the loop's.
* Of the routes: the rules of the Shadow IT detections, search, entities, labels, filters, the
  lists and details of extensions: single queries and formatting, with no state.
* Catalogue, configuration, JSON, the self-check command, the dashboard, the
  deployment scripts: tables, parsing, presentation.

## Plan

1. `EtlIngest`, `LabelSync`, `StateFile`, `OodaLoop` with their proofs: done.
2. `ExtWorker`, the algorithms, and the parts of `Server`, with their proofs: done.
3. Refinements between modules that so far meet only in words: that a run of `EtlIngest`
   does to watermark and graph what `StateFile` takes it to do; that the
   listing of `ExtWorker` is what `StoreFetch` makes of the answers.
4. The safety half of the liveness properties: that a quiet world, once scored, stays as it is
   (`ExtWorker`), and that labels that are right stay right.
