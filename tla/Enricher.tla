------------------------------ MODULE Enricher ------------------------------
(***************************************************************************)
(* Categories for software (internal/enrich): the worker, which looks the  *)
(* rarest uncategorized names up in ticks, and RunCategorization, which    *)
(* the command line and every ETL run call beside it.  Both write the same *)
(* nodes; what says that a name was looked up is a stamp on its node, and  *)
(* what says that its text passed the software gate is a flag on it.       *)
(***************************************************************************)
EXTENDS Naturals, FiniteSets

CONSTANTS
  Names,       \* software by name
  Eligible,    \* names whose sources and kind the worker looks up
  Catalog,     \* names the local catalog knows
  Legacy,      \* names described before there was a gate
  Rank,        \* the number of hosts that have a name
  Threshold,   \* hosts up to which RunCategorization takes a name up itself
  BatchSize,   \* names per tick
  MaxIncidents \* bound on the stops of the worker, the calls of
               \* RunCategorization, the cooldowns that end, and the lookups
               \* and writes that fail, all together

ASSUME EnricherAssumption ==
  /\ Eligible \subseteq Names /\ Catalog \subseteq Names /\ Legacy \subseteq Names
  /\ Rank \in [Names -> Nat] /\ Threshold \in Nat /\ BatchSize \in Nat \ {0}
  /\ MaxIncidents \in Nat

VARIABLES
  node,      \* graph: category, description, gate flag and stamp of a name
  epc,       \* where the worker is
  purge,     \* names the purge has selected
  picked,    \* names of the batch not yet answered
  found,     \* answers of the batch not yet written
  list,      \* names RunCategorization has still to look up
  hand,      \* the name and the answer it is about to write
  incidents,
  misses,    \* history: names found missing, cleared or done since they cooled
  settled    \* history: names enriched, but not behind a purge's back

worker == <<epc, purge, picked, found>>
enrichVars == <<node, worker, list, hand, incidents, misses, settled>>

\* A description is kept as what the gate's pattern says of it alone: the
\* gate itself saw the whole extract, of which the first sentence is kept.
Text == {"none", "plain", "software"}
Node == [category: BOOLEAN, text: Text, gate: BOOLEAN, cool: BOOLEAN]
Hits == {"plain", "software"}
Answers == Hits \cup {"miss"}
Nothing == [n \in Names |-> "none"]
NoHand == [name |-> "none", answer |-> "none"]

EnricherTypeOK ==
  /\ node \in [Names -> Node]
  /\ epc \in {"off", "start", "clear", "tick", "fetch", "sleep"}
  /\ purge \subseteq Names /\ picked \subseteq Names
  /\ found \in [Names -> Answers \cup {"none"}]
  /\ list \subseteq Names
  /\ hand = NoHand \/ hand \in [name: Names, answer: Answers]
  /\ incidents \in 0 .. MaxIncidents
  /\ misses \subseteq Names /\ settled \subseteq Names

EnricherInit ==
  /\ \E text \in [Legacy -> Hits] :
       node = [n \in Names |-> IF n \in Legacy
                 THEN [category |-> TRUE, text |-> text[n], gate |-> FALSE, cool |-> FALSE]
                 ELSE [category |-> FALSE, text |-> "none", gate |-> FALSE, cool |-> FALSE]]
  /\ epc = "off" /\ purge = {} /\ picked = {} /\ found = Nothing
  /\ list = {} /\ hand = NoHand
  /\ incidents = 0
  /\ misses = {} /\ settled = {}

Open(n) == ~node[n].category /\ ~node[n].cool

\* The rarest of a set, at most k of them.
Rarest(names, k) ==
  {n \in names : Cardinality({o \in names : Rank[o] < Rank[n]}) < k}

Incident == incidents < MaxIncidents /\ incidents' = incidents + 1

\* What a lookup says: the catalog first, without a request, then Wikipedia.
Said(n) == IF n \in Catalog THEN Hits ELSE Answers
-----------------------------------------------------------------------------
(* The worker.  Its queries go through the handle that it shares with the  *)
(* routes, and are answered or fail there.                                 *)

Start ==
  /\ epc = "off" /\ epc' = "start"
  /\ UNCHANGED <<node, purge, picked, found, list, hand, incidents, misses, settled>>

Impostors ==
  {n \in Names \ Catalog : node[n].text = "plain" /\ ~node[n].gate}

PurgeSelect(answered) ==
  /\ epc = "start"
  /\ purge' = IF answered THEN Impostors ELSE {}
  /\ epc' = IF purge' = {} THEN "tick" ELSE "clear"
  /\ UNCHANGED <<node, picked, found, list, hand, incidents, misses, settled>>

Cleared(n) == [node[n] EXCEPT !.category = FALSE, !.text = "none", !.cool = TRUE]

PurgeClear(answered) ==
  /\ epc = "clear" /\ epc' = "tick" /\ purge' = {}
  /\ node' = IF answered
               THEN [n \in Names |-> IF n \in purge THEN Cleared(n) ELSE node[n]]
               ELSE node
  /\ misses' = misses \cup purge
  /\ UNCHANGED <<picked, found, list, hand, incidents, settled>>

pickUncategorized(answered) ==
  /\ epc = "tick"
  /\ picked' = IF answered THEN Rarest({n \in Eligible : Open(n)}, BatchSize) ELSE {}
  /\ epc' = IF picked' = {} THEN "sleep" ELSE "fetch"
  /\ UNCHANGED <<node, purge, found, list, hand, incidents, misses, settled>>

DroppedAsMiss == "miss"
\* The lookups of a batch run in parallel; of one that fails nothing is kept.
Dropped == "none"

Lookup(n) ==
  /\ epc = "fetch" /\ n \in picked /\ picked' = picked \ {n}
  /\ \/ /\ \E a \in Said(n) :
             /\ found' = [found EXCEPT ![n] = a]
             /\ misses' = IF a = "miss" THEN misses \cup {n} ELSE misses
        /\ UNCHANGED incidents
     \/ /\ n \notin Catalog /\ Incident
        /\ found' = [found EXCEPT ![n] = Dropped]
        /\ UNCHANGED misses
  /\ UNCHANGED <<node, epc, purge, list, hand, settled>>

Fetched == epc = "fetch" /\ picked = {}

ForgetMiss(n, answered) ==
  /\ Fetched /\ found[n] = "miss" /\ found' = [found EXCEPT ![n] = "none"]
  /\ UNCHANGED <<node, epc, purge, picked, list, hand, incidents, misses, settled>>
markMiss(n, answered) ==
  /\ Fetched /\ found[n] = "miss" /\ found' = [found EXCEPT ![n] = "none"]
  /\ node' = IF answered THEN [node EXCEPT ![n].cool = TRUE] ELSE node
  /\ UNCHANGED <<epc, purge, picked, list, hand, incidents, misses, settled>>

EnrichedUngated(n, text) ==
  [node[n] EXCEPT !.category = TRUE, !.text = text]
Enriched(n, text) ==
  [node[n] EXCEPT !.category = TRUE, !.text = text, !.gate = TRUE]

Settle(n) == settled' = IF n \in purge THEN settled ELSE settled \cup {n}

writeCategories(n, answered) ==
  /\ Fetched /\ found[n] \in Hits /\ found' = [found EXCEPT ![n] = "none"]
  /\ IF answered
       THEN node' = [node EXCEPT ![n] = Enriched(n, found[n])] /\ Settle(n)
       ELSE UNCHANGED <<node, settled>>
  /\ UNCHANGED <<epc, purge, picked, list, hand, incidents, misses>>

EndTick ==
  /\ Fetched /\ found = Nothing /\ epc' = "sleep"
  /\ UNCHANGED <<node, purge, picked, found, list, hand, incidents, misses, settled>>

Wake ==
  /\ epc = "sleep" /\ epc' = "tick"
  /\ UNCHANGED <<node, purge, picked, found, list, hand, incidents, misses, settled>>

\* A shutdown or a kill, between two queries: what was found is dropped.
Stop ==
  /\ epc # "off" /\ Incident
  /\ epc' = "off" /\ purge' = {} /\ picked' = {} /\ found' = Nothing
  /\ UNCHANGED <<node, list, hand, misses, settled>>

\* The steps that are a query, and those that are not.
Asks == epc \in {"start", "clear", "tick"} \/ (Fetched /\ found # Nothing)

Queries(answered) ==
  \/ PurgeSelect(answered) \/ PurgeClear(answered) \/ pickUncategorized(answered)
  \/ \E n \in Names : markMiss(n, answered) \/ writeCategories(n, answered)

Thinks == (\E n \in Names : Lookup(n)) \/ EndTick \/ Wake
-----------------------------------------------------------------------------
(* RunCategorization, on a driver of its own, one name after the other.    *)

selectCandidates == {n \in Eligible : Open(n) /\ Rank[n] <= Threshold}

\* A name given by the operator is taken whatever its node says; several
\* names are several runs.
RunCategorization ==
  /\ list = {} /\ hand = NoHand /\ Incident
  /\ \/ list' = selectCandidates
     \/ \E n \in Names : list' = {n}
  /\ UNCHANGED <<node, worker, hand, misses, settled>>

getSoftwareInfo(n) ==
  /\ n \in list /\ hand = NoHand /\ list' = list \ {n}
  /\ \/ /\ \E a \in Said(n) :
             /\ hand' = [name |-> n, answer |-> a]
             /\ misses' = misses \cup {n}
        /\ UNCHANGED incidents
     \/ n \notin Catalog /\ Incident /\ UNCHANGED <<hand, misses>>
  /\ UNCHANGED <<node, worker, settled>>

Recorded(n, a) ==
  [(IF a \in Hits THEN Enriched(n, a) ELSE node[n]) EXCEPT !.cool = TRUE]

enrichNames ==
  /\ hand # NoHand /\ hand' = NoHand
  /\ node' = [node EXCEPT ![hand.name] = Recorded(hand.name, hand.answer)]
  /\ IF hand.answer \in Hits THEN Settle(hand.name) ELSE UNCHANGED settled
  /\ UNCHANGED <<worker, list, incidents, misses>>

\* Three attempts failed and the name is passed over, or the error is one
\* that ends the run, as a cancelled context does.
enrichFails ==
  /\ hand # NoHand /\ Incident /\ hand' = NoHand
  /\ list' \in {list, {}}
  /\ UNCHANGED <<node, worker, misses, settled>>

InHand(n) == found[n] # "none" \/ hand.name = n

\* ENRICH_FAILURE_COOLDOWN_DAYS have passed since the stamp of a name.
Expire(n) ==
  /\ node[n].cool /\ Incident
  /\ node' = [node EXCEPT ![n].cool = FALSE]
  /\ misses' = IF InHand(n) THEN misses ELSE misses \ {n}
  /\ UNCHANGED <<worker, list, hand, settled>>

Beside ==
  \/ RunCategorization \/ enrichNames \/ enrichFails
  \/ \E n \in Names : getSoftwareInfo(n) \/ Expire(n)
-----------------------------------------------------------------------------
(* A name is on its cooldown only after a definite answer about it, or     *)
(* when the purge cleared it: no failed or cancelled lookup, of the worker *)
(* or of RunCategorization, hides a name for a week (fetchBatch and        *)
(* enrichNames).                                                           *)
CooledForCause == \A n \in Names : node[n].cool => n \in misses

(* What passed the gate stays, though its first sentence alone would not   *)
(* pass it: no later start of the worker purges it, whoever wrote it,      *)
(* unless it was written between the two queries of a purge that had       *)
(* selected the older text of that name (writeCategories and               *)
(* PurgeNonSoftwareDescriptions).                                          *)
GatedKept == \A n \in settled : node[n].category

\* An eligible name the worker has nothing left to do about.
AllSettled == \A n \in Eligible : node[n].category \/ node[n].cool
=============================================================================
