---------------------------- MODULE ServerProofs ----------------------------
(***************************************************************************)
(* What is proved about Server: for any callers of the graph driver and    *)
(* any number of probes and mishaps, any names and batch size of the       *)
(* enricher, any requests that add to the whitelist and any scans beside   *)
(* them, and any snapshots.  A step of one scene leaves the others alone,  *)
(* so each part has an invariant of its own, and a lemma that its steps    *)
(* keep it.                                                                *)
(***************************************************************************)
EXTENDS Server, SnapshotsProofs

-----------------------------------------------------------------------------
(* The graph driver.  Of the callers at most one probes, and only for an   *)
(* empty handle, so that the driver it makes is the only one open.  A      *)
(* caller that Memgraph, the handle or its own context has failed is       *)
(* excused from then on.  Who resets the handle, or has lost his driver,   *)
(* does so after an outage or a departure.                                 *)

DriverInv ==
  /\ DriverTypeOK
  /\ opened = {driver} \ {0}
  /\ \A c \in Callers : call[c].step = "probing" =>
       driver = 0 /\ \A d \in Callers : call[d].step = "probing" => d = c
  /\ memgraph # "up" => Busy \subseteq excused /\ met # {}
  /\ left \subseteq excused /\ (left # {} => met # {})
  /\ \A c \in left : call[c].step \in {"waiting", "probing", "session"}
  /\ \A c \in Callers :
       call[c].step = "session" /\ call[c].on \notin opened => c \in excused /\ met # {}
  /\ \A c \in Callers : call[c].step = "resetting" => met # {}
  /\ failed \subseteq excused

(* The enricher.  What it has found missing, and the name it is about to   *)
(* write, were answered since they last cooled; what is settled has its    *)
(* gate flag and is in no purge that was selected before.                  *)

EnricherInv ==
  /\ EnricherTypeOK
  /\ \A n \in Names : node[n].cool \/ found[n] = "miss" => n \in misses
  /\ hand # NoHand => hand.name \in misses
  /\ \A n \in settled : node[n].category /\ node[n].gate /\ n \notin purge

(* The whitelist.  The request that holds the lock alone has read the file *)
(* as it is, or nothing.                                                   *)

WhitelistInv ==
  /\ WhitelistTypeOK
  /\ \A p, q \in Holding : p = q
  /\ \A p \in Adders :
       /\ adding[p].step # "new" => adding[p].name \in Software
       /\ adding[p].step \in {"new", "waiting", "locked"} => adding[p].list = {} /\ ~adding[p].unread
       /\ adding[p].unread => adding[p].list = {}
       /\ adding[p].step = "read" /\ ~adding[p].unread =>
            adding[p].list = NormalizeWhitelist(wfile)

(* The scans.  While nobody failed to read the whitelist it only grows; an *)
(* answer kept under the present time of the whitelist, or a scan begun    *)
(* under it, shows nothing that the whitelist names.                       *)

ScansTyped ==
  /\ ShadowTypeOK
  /\ \A v \in Viewers : /\ viewing[v].key <= mtime /\ viewing[v].begun <= clock
                        /\ viewing[v].step = "new" => viewing[v].answer = NoAnswer
                        /\ viewing[v].step = "new" => viewing[v].approved = {}

ScansFresh ==
  /\ \A k \in DOMAIN answers : answers[k].at <= answers[k].seenAt
  /\ \A v \in Viewers :
       /\ viewing[v].step \in {"asked", "scanning"} => viewing[v].answer.at = viewing[v].begun
       /\ viewing[v].step = "scanned" =>
            /\ viewing[v].answer.at = viewing[v].begun
            /\ viewing[v].begun <= viewing[v].answer.seenAt
  /\ AnswerFresh

ScansApproved ==
  ~Blind =>
    /\ mtime \in DOMAIN answers => answers[mtime].shown \cap NormalizeWhitelist(wfile) = {}
    /\ \A v \in Viewers :
         /\ viewing[v].approved \subseteq NormalizeWhitelist(wfile)
         /\ viewing[v].step \in {"scanning", "scanned"} =>
              /\ viewing[v].answer.shown \cap viewing[v].approved = {}
              /\ viewing[v].key = mtime =>
                   viewing[v].answer.shown \cap NormalizeWhitelist(wfile) = {}
         /\ viewing[v].step = "answered" =>
              viewing[v].answer.shown \cap viewing[v].approved = {}

ScansInv == ScansTyped /\ ScansFresh /\ ScansApproved
-----------------------------------------------------------------------------
(* The driver's part.                                                      *)

\* A number is left for a new driver: one is open at most, and every caller
\* is on one at most.
LEMMA NewIsNew ==
  ASSUME DriverTypeOK, opened \subseteq {driver}
  PROVE  New \in Drivers /\ New \notin opened
<1> DEFINE on == [c \in Callers |-> call[c].on]
           Used == {on[c] : c \in Callers}
<1>1. IsFiniteSet(Callers) /\ Cardinality(Callers) \in Nat
  BY DriverAssumption, FS_CardinalityType
<1>2. on \in Surjection(Callers, Used)
  BY DEF Surjection
<1>3. IsFiniteSet(Used) /\ Cardinality(Used) <= Cardinality(Callers)
  <2> HIDE DEF Used, on
  <2> QED
    BY <1>1, <1>2, FS_Surjection
<1>4. /\ IsFiniteSet(Used \cup {driver})
      /\ Cardinality(Used \cup {driver}) <= Cardinality(Callers) + 1
  <2> HIDE DEF Used
  <2>1. Cardinality(Used) \in Nat
    BY <1>3, FS_CardinalityType
  <2>2. /\ IsFiniteSet(Used \cup {driver})
        /\ Cardinality(Used \cup {driver}) \in {Cardinality(Used), Cardinality(Used) + 1}
    BY <1>3, FS_AddElement, Zenon
  <2> QED
    BY <1>1, <1>3, <2>1, <2>2
<1>5. /\ IsFiniteSet(Drivers) /\ Cardinality(Drivers) = Cardinality(Callers) + 2
  BY <1>1, FS_Interval DEF Drivers
<1>6. ~(Drivers \subseteq Used \cup {driver})
  <2> HIDE DEF Used
  <2> SUFFICES ASSUME Drivers \subseteq Used \cup {driver} PROVE FALSE
    OBVIOUS
  <2>1. Cardinality(Drivers) <= Cardinality(Used \cup {driver})
    BY <1>4, FS_Subset
  <2>2. Cardinality(Used \cup {driver}) \in Nat
    BY <1>4, FS_CardinalityType
  <2> QED
    BY <1>1, <1>4, <1>5, <2>1, <2>2
<1>7. \E d \in Drivers : d \notin opened /\ \A c \in Callers : call[c].on # d
  BY <1>6
<1> QED
  BY <1>7 DEF New

LEMMA DriverInitInv == DriverInit => DriverInv
BY DriverAssumption DEF DriverInit, DriverInv, DriverTypeOK, Call, Idle, Busy

\* A caller that fails has an excuse, and resets the handle only after an outage
\* or a departure.
LEMMA FailKeeps ==
  ASSUME DriverInv, NEW c \in Callers, NEW unavailable \in BOOLEAN, Fail(c, unavailable),
         c \in excused', unavailable => met # {},
         excused \subseteq excused', excused' \subseteq Callers,
         mishaps' \in 0 .. MaxMishaps, UNCHANGED <<memgraph, driver, opened, met>>
  PROVE  DriverInv'
<1>1. /\ call \in [Callers -> Call] /\ failed' = failed \cup {c} /\ left' = left \ {c}
      /\ [Idle EXCEPT !.step = "resetting"] \in Call /\ Idle \in Call
      /\ [Idle EXCEPT !.step = "resetting"].step = "resetting" /\ Idle.step = "idle"
  BY DriverAssumption DEF DriverInv, DriverTypeOK, Fail, Call, Idle
<1>2. /\ call' \in [Callers -> Call] /\ call'[c].step \in {"idle", "resetting"}
      /\ call'[c].step = "resetting" => unavailable
      /\ \A d \in Callers : d # c => call'[d] = call[d]
  BY <1>1 DEF Fail
<1>3. Busy' \subseteq Busy \cup {c}
  BY <1>2 DEF Busy
<1> QED
  BY <1>1, <1>2, <1>3 DEF DriverInv, DriverTypeOK

LEMMA DriverNextInv ==
  ASSUME DriverInv,
         \/ Outage \/ Restored
         \/ \E c \in Callers :
              \/ Enter(c) \/ Leave(c) \/ Connecting(c)
              \/ Ends(c, TRUE) \/ Ends(c, FALSE) \/ Reset(c)
         \/ UNCHANGED driverVars
  PROVE  DriverInv'
<1>0. /\ DriverTypeOK /\ call \in [Callers -> Call] /\ Idle \in Call /\ Idle.step = "idle"
      /\ left \subseteq excused /\ met \subseteq {"outage", "departure"}
      /\ Attempts \in Nat \ {0} /\ MaxMishaps \in Nat
      /\ opened = {driver} \ {0} /\ driver \in Drivers \cup {0} /\ failed \subseteq excused
      /\ failed \subseteq Callers /\ excused \subseteq Callers
      /\ Cardinality(Callers) \in Nat
  BY DriverAssumption, FS_CardinalityType DEF DriverInv, DriverTypeOK, Idle, Call
<1>1. CASE Outage
  <2>1. /\ mishaps' \in 0 .. MaxMishaps /\ met' = met \cup {"outage"}
        /\ UNCHANGED <<driver, opened, call, left, failed>> /\ excused' = excused \cup Busy
        /\ memgraph' \in {"down", "locked"}
    BY <1>0, <1>1 DEF Outage, Mishap, DriverTypeOK
  <2>2. Busy' = Busy /\ Busy \subseteq Callers
    BY <2>1 DEF Busy
  <2> QED
    BY <1>0, <2>1, <2>2 DEF DriverInv, DriverTypeOK
<1>2. CASE Restored
  BY <1>0, <1>2 DEF Restored, DriverInv, DriverTypeOK, Busy
<1>3. ASSUME NEW c \in Callers, Enter(c) PROVE DriverInv'
  <2>1. /\ call' \in [Callers -> Call] /\ call'[c].step = "waiting"
        /\ \A d \in Callers : d # c => call'[d] = call[d]
    BY <1>0, <1>3 DEF Enter, Call
  <2>2. Busy' = Busy \cup {c} /\ c \notin Busy
    BY <1>0, <1>3, <2>1 DEF Busy, Enter
  <2> QED
    BY <1>0, <1>3, <2>1, <2>2 DEF Enter, DriverInv, DriverTypeOK
<1>4. ASSUME NEW c \in Callers, Driver(c) PROVE DriverInv'
  <2>1. UNCHANGED <<memgraph, mishaps, driver, opened, left, failed, excused, met>>
    BY <1>4 DEF Driver
  <2>2. \A d \in Callers : d # c => call'[d] = call[d]
    BY <1>0, <1>4 DEF Driver
  <2>3. CASE driver # 0
    <3>1. /\ call' \in [Callers -> Call] /\ call'[c].step = "session" /\ call'[c].on = driver
      BY <1>0, <1>4, <2>3 DEF Driver, Call
    <3>2. Busy' = Busy
      BY <1>0, <1>4, <2>2, <3>1 DEF Busy, Driver
    <3> QED
      BY <1>0, <2>1, <2>2, <2>3, <3>1, <3>2 DEF DriverInv, DriverTypeOK
  <2>4. CASE driver = 0
    <3>1. /\ call' \in [Callers -> Call] /\ call'[c].step = "probing"
          /\ \A d \in Callers : call[d].step # "probing"
      BY <1>0, <1>4, <2>4 DEF Driver, Call, Unlocked
    <3>2. Busy' = Busy
      BY <1>0, <1>4, <2>2, <3>1 DEF Busy, Driver
    <3> QED
      BY <1>0, <2>1, <2>2, <2>4, <3>1, <3>2 DEF DriverInv, DriverTypeOK
  <2> QED
    BY <2>3, <2>4
<1>5. ASSUME NEW c \in Callers, Connect(c) PROVE DriverInv'
  <2>1. New \in Drivers /\ New \notin opened
    BY <1>0, NewIsNew
  <2>2. driver = 0 /\ opened = {} /\ \A d \in Callers : call[d].step = "probing" => d = c
    BY <1>0, <1>5 DEF DriverInv, Connect
  <2>3. /\ driver' = New /\ opened' = {New} /\ New # 0
        /\ UNCHANGED <<memgraph, mishaps, left, failed, excused, met>> /\ memgraph = "up"
    BY <1>0, <1>5, <2>1, <2>2 DEF Connect, Drivers
  <2>4. /\ call' \in [Callers -> Call] /\ call'[c].step = "session" /\ call'[c].on = New
        /\ \A d \in Callers : d # c => call'[d] = call[d]
    BY <1>0, <1>5, <2>1 DEF Connect, Call
  <2> QED
    BY <1>0, <2>1, <2>2, <2>3, <2>4 DEF DriverInv, DriverTypeOK
<1>6. ASSUME NEW c \in Callers, Retry(c) PROVE DriverInv'
  <2>1. /\ call' \in [Callers -> Call] /\ call'[c].step = "probing" /\ call[c].step = "probing"
        /\ \A d \in Callers : d # c => call'[d] = call[d]
    BY <1>0, <1>6 DEF Retry, Call
  <2>2. Busy' = Busy
    BY <1>0, <2>1 DEF Busy
  <2> QED
    BY <1>0, <1>6, <2>1, <2>2 DEF Retry, DriverInv, DriverTypeOK
<1>7. ASSUME NEW c \in Callers, GiveUp(c) PROVE DriverInv'
  <2>1. c \in excused /\ met # {}
    BY <1>7 DEF GiveUp, DriverInv, Busy
  <2>2. /\ \E unavailable \in BOOLEAN : Fail(c, unavailable)
        /\ UNCHANGED <<memgraph, mishaps, driver, opened, excused, met>>
    BY <1>7 DEF GiveUp
  <2> QED
    BY <1>0, <2>1, <2>2, FailKeeps DEF DriverTypeOK
<1>8. ASSUME NEW c \in Callers, Query(c) PROVE DriverInv'
  <2>1. /\ call' \in [Callers -> Call] /\ call'[c].step = "idle"
        /\ \A d \in Callers : d # c => call'[d] = call[d]
    BY <1>0, <1>8 DEF Query
  <2>2. Busy' \subseteq Busy
    BY <1>0, <2>1 DEF Busy
  <2> QED
    BY <1>0, <1>8, <2>1, <2>2 DEF Query, DriverInv, DriverTypeOK
<1>9. ASSUME NEW c \in Callers, QueryFails(c) PROVE DriverInv'
  <2>1. c \in excused /\ met # {}
    BY <1>9 DEF QueryFails, Served, DriverInv, Busy
  <2>2. /\ \E unavailable \in BOOLEAN : Fail(c, unavailable)
        /\ UNCHANGED <<memgraph, mishaps, driver, opened, excused, met>>
    BY <1>9 DEF QueryFails
  <2> QED
    BY <1>0, <2>1, <2>2, FailKeeps DEF DriverTypeOK
<1>10. ASSUME NEW c \in Callers, Refused(c) PROVE DriverInv'
  <2>1. mishaps' \in 0 .. MaxMishaps
    BY <1>0, <1>10 DEF Refused, Mishap, DriverTypeOK
  <2>2. /\ Fail(c, FALSE) /\ excused' = excused \cup {c}
        /\ UNCHANGED <<memgraph, driver, opened, met>>
    BY <1>10, Zenon DEF Refused
  <2> QED
    BY <1>0, <2>1, <2>2, FailKeeps
<1>11. ASSUME NEW c \in Callers, Leave(c) PROVE DriverInv'
  <2>1. /\ left' = left \cup {c} /\ excused' = excused \cup {c} /\ met' = met \cup {"departure"}
        /\ mishaps' \in 0 .. MaxMishaps /\ UNCHANGED <<memgraph, driver, opened, call, failed>>
        /\ call[c].step \in {"waiting", "probing", "session"}
    BY <1>0, <1>11 DEF Leave, Mishap, DriverTypeOK
  <2>2. Busy' = Busy
    BY <2>1 DEF Busy
  <2> QED
    BY <1>0, <2>1, <2>2 DEF DriverInv, DriverTypeOK
<1>12. ASSUME NEW c \in Callers, Reset(c) PROVE DriverInv'
  <2>1. /\ call' \in [Callers -> Call] /\ call'[c].step = "idle"
        /\ \A d \in Callers : d # c => call'[d] = call[d]
        /\ call[c].step = "resetting" /\ \A d \in Callers : call[d].step # "probing"
    BY <1>0, <1>12 DEF Reset, Unlocked
  <2>2. /\ driver' = 0 /\ opened' = {} /\ excused' = excused \cup OnDriver
        /\ UNCHANGED <<memgraph, mishaps, left, failed, met>>
    BY <1>0, <1>12 DEF Reset
  <2>3. Busy' \subseteq Busy /\ OnDriver \subseteq Callers
    BY <1>0, <2>1 DEF Busy, OnDriver
  <2>4. met # {} /\ \A d \in Callers : call'[d].step = "session" => d \in excused'
    BY <1>0, <1>12, <2>1, <2>2 DEF DriverInv, OnDriver, Reset
  <2>5. left \subseteq excused' /\ \A d \in left : call'[d] = call[d]
    BY <1>0, <2>1, <2>2 DEF DriverInv
  <2> QED
    BY <1>0, <2>1, <2>2, <2>3, <2>4, <2>5 DEF DriverInv, DriverTypeOK
<1>13. CASE UNCHANGED driverVars
  BY <1>0, <1>13 DEF driverVars, DriverInv, DriverTypeOK, Busy
<1> QED
  BY <1>1, <1>2, <1>3, <1>4, <1>5, <1>6, <1>7, <1>8, <1>9, <1>10, <1>11, <1>12, <1>13
  DEF Connecting, Ends
-----------------------------------------------------------------------------
(* The enricher's part.                                                    *)

LEMMA EnricherInitInv == EnricherInit => EnricherInv
<1> SUFFICES ASSUME EnricherInit PROVE EnricherInv
  OBVIOUS
<1>1. PICK text \in [Legacy -> Hits] :
        node = [n \in Names |-> IF n \in Legacy
                  THEN [category |-> TRUE, text |-> text[n], gate |-> FALSE, cool |-> FALSE]
                  ELSE [category |-> FALSE, text |-> "none", gate |-> FALSE, cool |-> FALSE]]
  BY DEF EnricherInit
<1>2. node \in [Names -> Node] /\ \A n \in Names : ~node[n].cool
  BY <1>1 DEF Node, Hits, Text
<1> QED
  BY <1>2, EnricherAssumption DEF EnricherInit, EnricherInv, EnricherTypeOK, Nothing

\* What the nodes of names become.
LEMMA NodesMade ==
  ASSUME EnricherTypeOK, NEW n \in Names, NEW a \in Answers
  PROVE  /\ Cleared(n) \in Node /\ ~Cleared(n).category /\ Cleared(n).gate = node[n].gate
         /\ a \in Hits =>
              /\ Enriched(n, a) \in Node /\ Enriched(n, a).category /\ Enriched(n, a).gate
              /\ Enriched(n, a).cool = node[n].cool
         /\ Recorded(n, a) \in Node
         /\ node[n].category \/ a \in Hits => Recorded(n, a).category
         /\ node[n].gate \/ a \in Hits => Recorded(n, a).gate
         /\ [node[n] EXCEPT !.cool = TRUE] \in Node
         /\ [node[n] EXCEPT !.cool = FALSE] \in Node
<1>1. node[n] \in Node
  BY DEF EnricherTypeOK
<1>2. a \in Hits =>
        /\ Enriched(n, a) \in Node /\ Enriched(n, a).category /\ Enriched(n, a).gate
        /\ Enriched(n, a).cool = node[n].cool
  BY <1>1 DEF Enriched, Node, Hits, Text
<1>3. Cleared(n) \in Node /\ ~Cleared(n).category /\ Cleared(n).gate = node[n].gate
  BY <1>1 DEF Cleared, Node, Text
<1>4. \A x \in Node : /\ [x EXCEPT !.cool = TRUE] \in Node /\ [x EXCEPT !.cool = FALSE] \in Node
                      /\ [x EXCEPT !.cool = TRUE].category = x.category
                      /\ [x EXCEPT !.cool = TRUE].gate = x.gate
  BY DEF Node
<1>5. CASE a \in Hits
  BY <1>1, <1>2, <1>3, <1>4, <1>5 DEF Recorded
<1>6. CASE a \notin Hits
  BY <1>1, <1>2, <1>3, <1>4, <1>6 DEF Recorded
<1> QED
  BY <1>5, <1>6

\* The steps of the worker.
LEMMA WorkerKeeps ==
  ASSUME EnricherInv,
         \/ Start \/ Stop \/ Thinks
         \/ \E answered \in BOOLEAN : Queries(answered)
  PROVE  EnricherInv'
<1>0. /\ EnricherTypeOK /\ node \in [Names -> Node] /\ found \in [Names -> Answers \cup {"none"}]
      /\ purge \subseteq Names /\ picked \subseteq Names /\ misses \subseteq Names
      /\ settled \subseteq Names /\ Eligible \subseteq Names
      /\ Nothing \in [Names -> Answers \cup {"none"}]
      /\ \A n \in Names : Nothing[n] = "none"
      /\ incidents \in 0 .. MaxIncidents /\ MaxIncidents \in Nat
      /\ {"miss"} \cup Hits = Answers /\ "none" \notin Answers /\ "miss" \notin Hits
  BY EnricherAssumption DEF EnricherInv, EnricherTypeOK, Nothing, Answers, Hits
<1>1. CASE Start
  BY <1>0, <1>1 DEF Start, EnricherInv, EnricherTypeOK
<1>2. CASE Stop
  <2>1. incidents' \in 0 .. MaxIncidents
    BY <1>0, <1>2 DEF Stop, Incident
  <2> QED
    BY <1>0, <1>2, <2>1 DEF Stop, EnricherInv, EnricherTypeOK
<1>3. ASSUME NEW n \in Names, Lookup(n) PROVE EnricherInv'
  <2>1. UNCHANGED <<node, epc, purge, list, hand, settled>> /\ picked' \subseteq picked
    BY <1>3 DEF Lookup
  <2>2. /\ found' \in [Names -> Answers \cup {"none"}]
        /\ misses \subseteq misses' /\ misses' \subseteq Names
        /\ \A m \in Names : m # n => found'[m] = found[m]
        /\ found'[n] = "miss" => n \in misses'
        /\ incidents' \in 0 .. MaxIncidents
    <3>1. CASE \E a \in Said(n) :
                 /\ found' = [found EXCEPT ![n] = a]
                 /\ misses' = IF a = "miss" THEN misses \cup {n} ELSE misses
                 /\ UNCHANGED incidents
      <4>1. Said(n) \subseteq Answers
        BY <1>0 DEF Said
      <4> QED
        BY <1>0, <3>1, <4>1
    <3>2. CASE /\ Incident /\ found' = [found EXCEPT ![n] = Dropped]
               /\ UNCHANGED misses
      BY <1>0, <3>2 DEF Incident, Dropped
    <3> QED
      BY <1>3, <3>1, <3>2 DEF Lookup
  <2>3. EnricherTypeOK'
    BY <1>0, <2>1, <2>2 DEF EnricherTypeOK
  <2> QED
    BY <1>0, <2>1, <2>2, <2>3 DEF EnricherInv
<1>4. CASE EndTick
  BY <1>0, <1>4 DEF EndTick, EnricherInv, EnricherTypeOK
<1>5. CASE Wake
  BY <1>0, <1>5 DEF Wake, EnricherInv, EnricherTypeOK
<1>6. ASSUME NEW answered \in BOOLEAN, PurgeSelect(answered) PROVE EnricherInv'
  <2>1. purge' \subseteq Impostors /\ Impostors \subseteq Names
    BY <1>6 DEF PurgeSelect, Impostors
  <2>2. EnricherTypeOK'
    BY <1>0, <1>6, <2>1 DEF PurgeSelect, EnricherTypeOK
  <2>3. \A n \in settled : n \notin purge'
    BY <2>1 DEF Impostors, EnricherInv
  <2> QED
    BY <1>0, <1>6, <2>2, <2>3 DEF PurgeSelect, EnricherInv
<1>7. ASSUME NEW answered \in BOOLEAN, PurgeClear(answered) PROVE EnricherInv'
  <2>1. /\ purge' = {} /\ misses' = misses \cup purge
        /\ UNCHANGED <<picked, found, list, hand, incidents, settled>> /\ epc' = "tick"
    BY <1>7 DEF PurgeClear
  <2>2. /\ node' \in [Names -> Node]
        /\ \A n \in Names \ purge : node'[n] = node[n]
    <3>1. "miss" \in Answers
      BY <1>0
    <3> QED
      BY <1>0, <1>7, <3>1, NodesMade DEF PurgeClear
  <2>3. EnricherTypeOK'
    BY <1>0, <2>1, <2>2 DEF EnricherTypeOK
  <2> QED
    BY <1>0, <2>1, <2>2, <2>3 DEF EnricherInv
<1>8. ASSUME NEW answered \in BOOLEAN, pickUncategorized(answered) PROVE EnricherInv'
  <2>1. picked' \subseteq Names
    BY <1>0, <1>8 DEF pickUncategorized, Rarest
  <2> QED
    BY <1>0, <1>8, <2>1 DEF pickUncategorized, EnricherInv, EnricherTypeOK
<1>9. ASSUME NEW answered \in BOOLEAN, NEW n \in Names, markMiss(n, answered) PROVE EnricherInv'
  <2>1. /\ UNCHANGED <<epc, purge, picked, list, hand, incidents, misses, settled>>
        /\ found' = [found EXCEPT ![n] = "none"] /\ n \in misses
    BY <1>9 DEF markMiss, EnricherInv
  <2>2. /\ node' \in [Names -> Node]
        /\ \A m \in Names : /\ node'[m].category = node[m].category
                            /\ node'[m].gate = node[m].gate
                            /\ m # n => node'[m] = node[m]
    <3>1. [node[n] EXCEPT !.cool = TRUE] \in Node
      BY <1>0, NodesMade
    <3>2. /\ [node[n] EXCEPT !.cool = TRUE].category = node[n].category
          /\ [node[n] EXCEPT !.cool = TRUE].gate = node[n].gate
      BY <1>0 DEF Node
    <3>3. node' = node \/ node' = [node EXCEPT ![n] = [node[n] EXCEPT !.cool = TRUE]]
      BY <1>0, <1>9 DEF markMiss
    <3> QED
      BY <1>0, <3>1, <3>2, <3>3
  <2>3. EnricherTypeOK'
    BY <1>0, <2>1, <2>2 DEF EnricherTypeOK
  <2> QED
    BY <1>0, <2>1, <2>2, <2>3 DEF EnricherInv
<1>10. ASSUME NEW answered \in BOOLEAN, NEW n \in Names, writeCategories(n, answered)
       PROVE  EnricherInv'
  <2>1. /\ UNCHANGED <<epc, purge, picked, list, hand, incidents, misses>>
        /\ found' = [found EXCEPT ![n] = "none"] /\ found[n] \in Hits /\ found[n] \in Answers
    BY <1>0, <1>10 DEF writeCategories
  <2>2. /\ Enriched(n, found[n]) \in Node /\ Enriched(n, found[n]).category
        /\ Enriched(n, found[n]).gate /\ Enriched(n, found[n]).cool = node[n].cool
    BY <1>0, <2>1, NodesMade
  <2>3. CASE answered
    BY <1>0, <1>10, <2>1, <2>2, <2>3 DEF writeCategories, Settle, EnricherInv, EnricherTypeOK
  <2>4. CASE ~answered
    BY <1>0, <1>10, <2>1, <2>4 DEF writeCategories, EnricherInv, EnricherTypeOK
  <2> QED
    BY <2>3, <2>4
<1> QED
  BY <1>1, <1>2, <1>3, <1>4, <1>5, <1>6, <1>7, <1>8, <1>9, <1>10 DEF Thinks, Queries

\* The steps beside it.
LEMMA BesideKeeps ==
  ASSUME EnricherInv, Beside
  PROVE  EnricherInv'
<1>0. /\ EnricherTypeOK /\ node \in [Names -> Node]
      /\ list \subseteq Names /\ misses \subseteq Names /\ settled \subseteq Names
      /\ hand = NoHand \/ hand \in [name: Names, answer: Answers]
      /\ incidents \in 0 .. MaxIncidents /\ MaxIncidents \in Nat /\ Eligible \subseteq Names
      /\ {"miss"} \cup Hits = Answers
  BY EnricherAssumption DEF EnricherInv, EnricherTypeOK, Answers, Hits
<1> USE DEF worker
<1>1. CASE RunCategorization
  <2>1. list' \subseteq Names /\ incidents' \in 0 .. MaxIncidents
    BY <1>0, <1>1 DEF RunCategorization, selectCandidates, Incident
  <2> QED
    BY <1>0, <1>1, <2>1 DEF RunCategorization, EnricherInv, EnricherTypeOK
<1>2. ASSUME NEW n \in Names, getSoftwareInfo(n) PROVE EnricherInv'
  <2>1. list' \subseteq Names /\ UNCHANGED <<node, epc, purge, picked, found, settled>>
    BY <1>0, <1>2 DEF getSoftwareInfo
  <2>2. Said(n) \subseteq Answers
    BY <1>0 DEF Said
  <2>3. CASE \E a \in Said(n) : /\ hand' = [name |-> n, answer |-> a]
                                /\ misses' = misses \cup {n} /\ UNCHANGED incidents
    BY <1>0, <2>1, <2>2, <2>3 DEF EnricherInv, EnricherTypeOK
  <2>4. CASE Incident /\ UNCHANGED <<hand, misses>>
    BY <1>0, <2>1, <2>4 DEF Incident, EnricherInv, EnricherTypeOK
  <2> QED
    BY <1>2, <2>3, <2>4 DEF getSoftwareInfo
<1>3. CASE enrichNames
  <2> DEFINE n == hand.name  a == hand.answer
  <2>1. n \in Names /\ a \in Answers /\ n \in misses
    BY <1>0, <1>3 DEF enrichNames, EnricherInv
  <2>2. /\ Recorded(n, a) \in Node
        /\ node[n].category \/ a \in Hits => Recorded(n, a).category
        /\ node[n].gate \/ a \in Hits => Recorded(n, a).gate
    BY <1>0, <2>1, NodesMade
  <2>3. /\ node' = [node EXCEPT ![n] = Recorded(n, a)] /\ hand' = NoHand
        /\ UNCHANGED <<epc, purge, picked, found, list, incidents, misses>>
        /\ IF a \in Hits THEN Settle(n) ELSE UNCHANGED settled
    BY <1>3 DEF enrichNames
  <2>4. settled' \subseteq Names /\ \A m \in settled' : m \in settled \/ (m = n /\ a \in Hits /\ n \notin purge)
    BY <1>0, <2>1, <2>3 DEF Settle
  <2>5. /\ node' \in [Names -> Node] /\ node'[n] = Recorded(n, a)
        /\ \A m \in Names : m # n => node'[m] = node[m]
    BY <1>0, <2>1, <2>2, <2>3
  <2>6. EnricherTypeOK'
    BY <1>0, <2>3, <2>4, <2>5 DEF EnricherTypeOK
  <2> QED
    BY <1>0, <2>1, <2>2, <2>3, <2>4, <2>5, <2>6 DEF EnricherInv
<1>4. CASE enrichFails
  BY <1>0, <1>4 DEF enrichFails, Incident, EnricherInv, EnricherTypeOK
<1>5. ASSUME NEW n \in Names, Expire(n) PROVE EnricherInv'
  <2>1. /\ node' = [node EXCEPT ![n] = [node[n] EXCEPT !.cool = FALSE]]
        /\ incidents' \in 0 .. MaxIncidents
        /\ UNCHANGED <<epc, purge, picked, found, list, hand, settled>>
        /\ misses' = IF InHand(n) THEN misses ELSE misses \ {n}
    BY <1>0, <1>5 DEF Expire, Incident
  <2>2. /\ node' \in [Names -> Node] /\ ~node'[n].cool
        /\ \A m \in Names : m # n => node'[m] = node[m]
        /\ node'[n].category = node[n].category /\ node'[n].gate = node[n].gate
    BY <1>0, <2>1 DEF Node
  <2>3. EnricherTypeOK'
    BY <1>0, <2>1, <2>2 DEF EnricherTypeOK
  <2> QED
    BY <1>0, <2>1, <2>2, <2>3 DEF EnricherInv, InHand
<1> QED
  BY <1>1, <1>2, <1>3, <1>4, <1>5 DEF Beside
-----------------------------------------------------------------------------
(* The whitelist's part, and what the whitelist promises.                  *)

\* Normalizing what a request saves adds its name and loses none.
LEMMA Normalizing ==
  /\ \A E \in SUBSET Entries : NormalizeWhitelist(E) \subseteq Software
  /\ \A S \in SUBSET Software : NormalizeWhitelist(S) = S
BY WhitelistAssumption DEF NormalizeWhitelist

LEMMA WhitelistInitInv == WhitelistInit => WhitelistInv
BY WhitelistAssumption DEF WhitelistInit, WhitelistInv, WhitelistTypeOK, NoRequest, Adding, Holding

\* What every step of a request leaves of the others.
LEMMA RequestStepKeeps ==
  ASSUME WhitelistInv, NEW p \in Adders,
         Authorize(p) \/ Lock(p) \/ Load(p) \/ Save(p) \/ Release(p) \/ Abandon(p)
  PROVE  /\ adding' \in [Adders -> Adding] /\ accidents' \in 0 .. MaxAccidents
         /\ \A q \in Adders : q # p => adding'[q] = adding[q]
         /\ adding[p].unread => adding'[p].unread
         /\ wfile' # wfile => Save(p) /\ Writes(p)
<1>0. /\ adding \in [Adders -> Adding] /\ accidents \in 0 .. MaxAccidents /\ MaxAccidents \in Nat
      /\ wfile \subseteq Entries
  BY WhitelistAssumption DEF WhitelistInv, WhitelistTypeOK
<1>1. Accident => accidents' \in 0 .. MaxAccidents
  BY <1>0 DEF Accident
<1>2. CASE Authorize(p)
  <2>1. PICK s \in Software :
          adding' = [adding EXCEPT ![p] = [adding[p] EXCEPT !.step = "waiting", !.name = s]]
    BY <1>2 DEF Authorize
  <2>2. /\ [adding[p] EXCEPT !.step = "waiting", !.name = s] \in Adding
        /\ [adding[p] EXCEPT !.step = "waiting", !.name = s].unread = adding[p].unread
    BY <1>0 DEF Adding
  <2> QED
    BY <1>0, <1>2, <2>1, <2>2 DEF Authorize
<1>3. CASE Lock(p)
  BY <1>0, <1>3 DEF Lock, Adding
<1>4. CASE Load(p)
  <2>1. NormalizeWhitelist(wfile) \subseteq Software
    BY <1>0, Normalizing
  <2>2. CASE /\ adding' = [adding EXCEPT ![p].step = "read", ![p].list = NormalizeWhitelist(wfile)]
             /\ UNCHANGED accidents
    <3>1. /\ [adding[p] EXCEPT !.step = "read", !.list = NormalizeWhitelist(wfile)] \in Adding
          /\ [adding[p] EXCEPT !.step = "read", !.list = NormalizeWhitelist(wfile)].unread
               = adding[p].unread
      BY <1>0, <2>1 DEF Adding
    <3> QED
      BY <1>0, <1>4, <2>2, <3>1 DEF Load
  <2>3. CASE /\ Accident
             /\ adding' = [adding EXCEPT ![p].step = "read", ![p].unread = TRUE]
    <3>1. /\ [adding[p] EXCEPT !.step = "read", !.unread = TRUE] \in Adding
          /\ [adding[p] EXCEPT !.step = "read", !.unread = TRUE].unread
      BY <1>0 DEF Adding
    <3> QED
      BY <1>0, <1>1, <1>4, <2>3, <3>1 DEF Load
  <2> QED
    BY <1>4, <2>2, <2>3 DEF Load
<1>5. CASE Save(p)
  BY <1>0, <1>1, <1>5 DEF Save, Writes, Adding
<1>6. CASE Release(p)
  BY <1>0, <1>6 DEF Release, Adding
<1>7. CASE Abandon(p)
  BY <1>0, <1>1, <1>7 DEF Abandon, Adding
<1> QED
  BY <1>2, <1>3, <1>4, <1>5, <1>6, <1>7

\* A request that saves what it has read, or nothing, adds its name to that.
LEMMA SaveAdds ==
  ASSUME WhitelistInv, NEW p \in Adders, Save(p), wfile' # wfile
  PROVE  /\ wfile' \subseteq Entries
         /\ adding[p].name \in Software /\ p \in Holding
         /\ ~adding[p].unread =>
              NormalizeWhitelist(wfile)' = NormalizeWhitelist(wfile) \cup {adding[p].name}
         /\ adding[p].unread => NormalizeWhitelist(wfile)' = {adding[p].name}
<1>1. /\ adding[p].step = "read" /\ wfile' = adding[p].list \cup {adding[p].name}
      /\ p \in Holding
  BY DEF Save, Holding
<1>2. adding[p].name \in Software /\ adding[p].list \subseteq Software
  BY <1>1 DEF WhitelistInv, WhitelistTypeOK, Adding
<1>3. NormalizeWhitelist(wfile)' = wfile'
  <2>1. wfile' \in SUBSET Software
    BY <1>1, <1>2
  <2>2. NormalizeWhitelist(wfile') = wfile'
    BY <2>1, Normalizing
  <2> QED
    BY <2>2
<1> QED
  BY <1>1, <1>2, <1>3, WhitelistAssumption DEF WhitelistInv

LEMMA WhitelistNextInv ==
  ASSUME WhitelistInv, WhitelistNext
  PROVE  WhitelistInv'
<1>1. PICK p \in Adders :
        Authorize(p) \/ Lock(p) \/ Load(p) \/ Save(p) \/ Release(p) \/ Abandon(p)
  BY DEF WhitelistNext
<1>2. /\ adding' \in [Adders -> Adding] /\ accidents' \in 0 .. MaxAccidents
      /\ \A q \in Adders : q # p => adding'[q] = adding[q]
  BY <1>1, RequestStepKeeps
<1>3. /\ adding \in [Adders -> Adding] /\ wfile \subseteq Entries
  BY DEF WhitelistInv, WhitelistTypeOK
<1>4. CASE Authorize(p)
  BY <1>2, <1>3, <1>4 DEF Authorize, NoRequest, Adding, WhitelistInv, WhitelistTypeOK, Holding
<1>5. CASE Lock(p)
  BY <1>2, <1>3, <1>5 DEF Lock, LockFree, Adding, WhitelistInv, WhitelistTypeOK, Holding
<1>6. CASE Load(p)
  <2>1. /\ adding'[p].step = "read" /\ adding'[p].name = adding[p].name
        /\ adding[p].step = "locked" /\ UNCHANGED wfile
        /\ adding[p].list = {} /\ ~adding[p].unread
        /\ \/ adding'[p].list = NormalizeWhitelist(wfile) /\ adding'[p].unread = adding[p].unread
           \/ adding'[p].list = adding[p].list /\ adding'[p].unread
    BY <1>3, <1>6 DEF Load, Adding, WhitelistInv
  <2>2. Holding' = Holding
    BY <1>2, <2>1 DEF Holding
  <2> QED
    BY <1>2, <1>3, <2>1, <2>2 DEF WhitelistInv, WhitelistTypeOK, NormalizeWhitelist
<1>7. CASE Save(p)
  <2>1. /\ adding'[p] = [adding[p] EXCEPT !.step = "saved"] /\ adding[p].step = "read"
    BY <1>3, <1>7 DEF Save
  <2>2. /\ adding'[p].step = "saved" /\ adding'[p].name = adding[p].name
        /\ adding'[p].list = adding[p].list /\ adding'[p].unread = adding[p].unread
    BY <1>3, <2>1 DEF Adding
  <2>3. Holding' = Holding /\ p \in Holding
    BY <1>2, <2>1, <2>2 DEF Holding
  <2>4. \A q \in Adders : q # p => adding[q].step # "read"
    BY <2>3 DEF WhitelistInv, Holding
  <2>5. wfile' \subseteq Entries
    BY <1>3, <1>7, SaveAdds
  <2> QED
    BY <1>2, <2>1, <2>2, <2>3, <2>4, <2>5 DEF WhitelistInv, WhitelistTypeOK
<1>8. CASE Release(p) \/ Abandon(p)
  <2>1. /\ adding'[p].step = "done" /\ adding'[p].name = adding[p].name
        /\ adding'[p].list = adding[p].list /\ adding'[p].unread = adding[p].unread
        /\ adding[p].step # "new" /\ UNCHANGED wfile
    BY <1>3, <1>8 DEF Release, Abandon, Adding
  <2>2. Holding' \subseteq Holding
    BY <1>2, <2>1 DEF Holding
  <2> QED
    BY <1>2, <1>3, <2>1, <2>2 DEF WhitelistInv, WhitelistTypeOK, NormalizeWhitelist
<1> QED
  BY <1>1, <1>4, <1>5, <1>6, <1>7, <1>8

\* Every step of a request is one that the whitelist promises, or none.
LEMMA WhitelistImplements ==
  ASSUME WhitelistInv, WhitelistNext
  PROVE  Abstract!Next \/ UNCHANGED <<NormalizeWhitelist(wfile), Unread>>
<1>1. PICK p \in Adders :
        Authorize(p) \/ Lock(p) \/ Load(p) \/ Save(p) \/ Release(p) \/ Abandon(p)
  BY DEF WhitelistNext
<1>2. /\ adding' \in [Adders -> Adding]
      /\ \A q \in Adders : q # p => adding'[q] = adding[q]
  BY <1>1, RequestStepKeeps
<1>3. /\ adding \in [Adders -> Adding] /\ wfile \subseteq Entries
  BY DEF WhitelistInv, WhitelistTypeOK
<1>4. CASE Authorize(p) \/ Lock(p) \/ Release(p)
  <2>1. adding[p].step # "read" /\ adding'[p].step # "read" /\ UNCHANGED wfile
    BY <1>3, <1>4 DEF Authorize, Lock, Release, NoRequest, Adding
  <2>2. Unread' = Unread
    BY <1>2, <2>1 DEF Unread
  <2> QED
    BY <2>1, <2>2 DEF NormalizeWhitelist
<1>5. CASE Load(p)
  <2>1. adding[p].step # "read" /\ UNCHANGED wfile
    BY <1>5 DEF Load
  <2>2. Unread \subseteq Unread'
    BY <1>2, <2>1 DEF Unread
  <2>3. Unread' \subseteq Software
    BY <1>1, WhitelistNextInv DEF Unread, WhitelistInv, WhitelistNext
  <2> QED
    BY <2>1, <2>2, <2>3 DEF Abstract!Next, Abstract!ReadNothing, NormalizeWhitelist
<1>6. CASE Abandon(p)
  <2>1. adding'[p].step # "read" /\ UNCHANGED wfile
    BY <1>3, <1>6 DEF Abandon, Adding
  <2>2. Unread' \subseteq Unread
    BY <1>2, <2>1 DEF Unread
  <2> QED
    BY <2>1, <2>2 DEF Abstract!Next, Abstract!GiveUp, NormalizeWhitelist
<1>7. CASE Save(p)
  <2>1. /\ adding[p].step = "read" /\ adding'[p].step = "saved" /\ p \in Holding
        /\ adding[p].name \in Software
    BY <1>3, <1>7 DEF Save, Adding, Holding, WhitelistInv
  <2>2. \A q \in Adders : adding[q].step = "read" => q = p
    BY <2>1 DEF WhitelistInv, Holding
  <2>3. Unread' = {} /\ Unread = IF adding[p].unread THEN {adding[p].name} ELSE {}
    BY <1>2, <2>1, <2>2 DEF Unread
  <2>4. CASE wfile' = wfile
    BY <2>3, <2>4 DEF Abstract!Next, Abstract!GiveUp, NormalizeWhitelist
  <2>5. CASE wfile' # wfile /\ ~adding[p].unread
    BY <1>7, <2>1, <2>3, <2>5, SaveAdds DEF Abstract!Next, Abstract!Authorize
  <2>6. CASE wfile' # wfile /\ adding[p].unread
    BY <1>7, <2>1, <2>3, <2>6, SaveAdds DEF Abstract!Next, Abstract!StartAnew
  <2> QED
    BY <2>4, <2>5, <2>6
<1> QED
  BY <1>1, <1>4, <1>5, <1>6, <1>7
-----------------------------------------------------------------------------
(* The scans' part.                                                        *)

LEMMA ScansInitInv == ShadowInit => ScansInv
<1> SUFFICES ASSUME ShadowInit PROVE ScansInv
  OBVIOUS
<1>1. DOMAIN answers = {}
  BY DEF ShadowInit
<1>2. NoAnswer \in Answer
  BY ShadowAssumption DEF NoAnswer, Answer
<1>3. ScansTyped
  BY <1>1, <1>2, ShadowAssumption DEF ShadowInit, ScansTyped, ShadowTypeOK, Viewing
<1> QED
  BY <1>1, <1>3 DEF ShadowInit, ScansInv, ScansFresh, AnswerFresh, ScansApproved

\* A request that adds to the whitelist, or fails to, leaves the scans right:
\* what was kept or begun before a write is under an older time than the new.
LEMMA AddKeepsScans ==
  ASSUME WhitelistInv, ScansInv, AddNext
  PROVE  ScansInv'
<1> DEFINE N == NormalizeWhitelist(wfile)
<1>1. PICK p \in Adders :
        Authorize(p) \/ Lock(p) \/ Load(p) \/ Save(p) \/ Release(p) \/ Abandon(p)
  BY DEF AddNext, WhitelistNext
<1>2. /\ UNCHANGED <<clock, viewing, answers>>
      /\ mtime \in Nat /\ mtime' \in {mtime, mtime + 1}
  BY DEF AddNext, ScansInv, ScansTyped, ShadowTypeOK
<1>3. /\ \A k \in DOMAIN answers : k \in 0 .. mtime /\ answers[k] \in Answer
      /\ viewing \in [Viewers -> Viewing]
      /\ \A v \in Viewers : viewing[v].key <= mtime /\ viewing[v].key \in Nat
  BY DEF ScansInv, ScansTyped, ShadowTypeOK, Viewing
<1>4. ScansTyped'
  BY <1>2, <1>3 DEF ScansInv, ScansTyped, ShadowTypeOK
<1>5. ScansFresh'
  BY <1>2 DEF ScansInv, ScansFresh, AnswerFresh
<1>6. ~Blind' => ~Blind
  BY <1>1, <1>2, RequestStepKeeps DEF Blind
<1>7. CASE wfile' = wfile
  <2>1. N' = N
    BY <1>7 DEF NormalizeWhitelist
  <2>2. mtime' = mtime + 1 => mtime' \notin DOMAIN answers /\ \A v \in Viewers : viewing[v].key # mtime'
    BY <1>2, <1>3
  <2> HIDE DEF N
  <2>3. ScansApproved'
    <3>1. (~Blind =>
             /\ mtime \in DOMAIN answers => answers[mtime].shown \cap N = {}
             /\ \A v \in Viewers :
                  /\ viewing[v].approved \subseteq N
                  /\ viewing[v].step \in {"scanning", "scanned"} =>
                       /\ viewing[v].answer.shown \cap viewing[v].approved = {}
                       /\ viewing[v].key = mtime => viewing[v].answer.shown \cap N = {}
                  /\ viewing[v].step = "answered" =>
                       viewing[v].answer.shown \cap viewing[v].approved = {})'
      BY <1>2, <1>3, <1>6, <2>1, <2>2 DEF ScansInv, ScansApproved, N
    <3> QED
      BY <3>1 DEF ScansApproved, N
  <2> QED
    BY <1>4, <1>5, <2>3 DEF ScansInv
<1>8. CASE wfile' # wfile
  <2>1. Save(p) /\ Writes(p)
    BY <1>1, <1>8, RequestStepKeeps
  <2>2. mtime' = mtime + 1
    BY <2>1 DEF AddNext
  <2>3. mtime' \notin DOMAIN answers /\ \A v \in Viewers : viewing[v].key # mtime'
    BY <1>2, <1>3, <2>2
  <2>4. ~Blind => N \subseteq N'
    BY <1>8, <2>1, SaveAdds DEF Blind
  <2> HIDE DEF N
  <2>5. (~Blind =>
           /\ mtime \in DOMAIN answers => answers[mtime].shown \cap N = {}
           /\ \A v \in Viewers :
                /\ viewing[v].approved \subseteq N
                /\ viewing[v].step \in {"scanning", "scanned"} =>
                     /\ viewing[v].answer.shown \cap viewing[v].approved = {}
                     /\ viewing[v].key = mtime => viewing[v].answer.shown \cap N = {}
                /\ viewing[v].step = "answered" =>
                     viewing[v].answer.shown \cap viewing[v].approved = {})'
    BY <1>2, <1>3, <1>6, <2>3, <2>4 DEF ScansInv, ScansApproved, N
  <2>6. ScansApproved'
    BY <2>5 DEF ScansApproved, N
  <2> QED
    BY <1>4, <1>5, <2>6 DEF ScansInv
<1> QED
  BY <1>7, <1>8

\* So does every step of a scan.
LEMMA ScanKeeps ==
  ASSUME WhitelistInv, ScansInv, ScanNext
  PROVE  ScansInv' /\ UNCHANGED <<wfile, adding>> /\ accidents' \in 0 .. MaxAccidents
<1> DEFINE N == NormalizeWhitelist(wfile)
<1>0. /\ ScansTyped /\ ScansFresh /\ ScansApproved /\ AnswerFresh
      /\ viewing \in [Viewers -> Viewing] /\ clock \in 0 .. MaxClock /\ mtime \in Nat
      /\ \A k \in DOMAIN answers : k \in 0 .. mtime /\ answers[k] \in Answer
      /\ CacheTTL \in Nat \ {0} /\ MaxClock \in Nat
      /\ N \subseteq Software
      /\ \A v \in Viewers : /\ viewing[v].answer \in Answer /\ viewing[v].key \in Nat
                            /\ viewing[v].begun \in 0 .. MaxClock
                            /\ viewing[v].begun <= clock /\ viewing[v].key <= mtime
      /\ NoAnswer \in Answer /\ accidents \in 0 .. MaxAccidents /\ MaxAccidents \in Nat
  BY Normalizing, ShadowAssumption, WhitelistAssumption
  DEF ScansInv, ScansTyped, ScansFresh, ShadowTypeOK, Viewing, WhitelistInv, WhitelistTypeOK,
      NoAnswer, Answer
<1>1. UNCHANGED <<wfile, adding>> /\ accidents' \in 0 .. MaxAccidents /\ N' = N
  <2>1. UNCHANGED <<wfile, adding>>
    BY DEF ScanNext, whitelistVars
  <2>2. accidents' \in 0 .. MaxAccidents
    <3>1. accidents' = accidents \/ Accident
      BY DEF ScanNext, whitelistVars, ReadWhitelist
    <3> QED
      BY <1>0, <3>1 DEF Accident
  <2>3. N' = N
    BY <2>1 DEF NormalizeWhitelist
  <2> QED
    BY <1>0, <2>1, <2>2, <2>3
<1> HIDE DEF N
<1>2. ASSUME NEW v \in Viewers, Ask(v) PROVE ScansInv'
  <2> DEFINE hit == cacheKey \in DOMAIN answers /\ Fresh(answers[cacheKey])
             x == IF hit THEN answers[mtime] ELSE [NoAnswer EXCEPT !.at = clock]
  <2>1. /\ viewing' = [viewing EXCEPT ![v] =
             [step |-> IF hit THEN "answered" ELSE "asked", key |-> mtime, begun |-> clock,
              approved |-> N, answer |-> x]]
        /\ UNCHANGED <<clock, mtime, answers>> /\ viewing[v].step = "new"
    BY <1>2 DEF Ask, cacheKey, N
  <2>2. x \in Answer
    BY <1>0 DEF cacheKey, NoAnswer, Answer
  <2>3. /\ viewing' \in [Viewers -> Viewing]
        /\ viewing'[v].step = (IF hit THEN "answered" ELSE "asked")
        /\ viewing'[v].key = mtime /\ viewing'[v].begun = clock /\ viewing'[v].approved = N
        /\ viewing'[v].answer = x
        /\ \A w \in Viewers : w # v => viewing'[w] = viewing[w]
    <3> HIDE DEF hit, x
    <3> QED
      BY <1>0, <2>1, <2>2 DEF Viewing
  <2>4. ScansTyped'
    BY <1>0, <2>1, <2>3 DEF ScansTyped, ShadowTypeOK
  <2>5. ~hit => x.at = clock
    BY DEF NoAnswer
  <2>6. hit => clock - x.seenAt < CacheTTL
    <3>1. hit => x.at <= x.seenAt /\ clock - x.at < CacheTTL
      BY <1>0 DEF ScansFresh, cacheKey, Fresh
    <3> QED
      BY <1>0, <2>2, <3>1 DEF Answer
  <2>7. ScansFresh'
    <3> HIDE DEF hit, x
    <3> QED
      BY <1>0, <2>1, <2>3, <2>5, <2>6 DEF ScansFresh, AnswerFresh
  <2>8. ~Blind' => ~Blind
    <3>1. ~viewing[v].answer.unread
      BY <1>0, <2>1 DEF ScansTyped, NoAnswer
    <3> QED
      BY <1>1, <2>3, <3>1 DEF Blind
  <2>9. hit /\ ~Blind => x.shown \cap N = {}
    BY <1>0 DEF ScansApproved, cacheKey, N
  <2>10. ScansApproved'
    <3> HIDE DEF hit, x
    <3> QED
      BY <1>0, <1>1, <2>1, <2>3, <2>8, <2>9 DEF ScansApproved, N
  <2> QED
    BY <2>4, <2>7, <2>10 DEF ScansInv
<1>3. ASSUME NEW v \in Viewers, ReadWhitelist(v) PROVE ScansInv'
  <2>1. /\ UNCHANGED <<clock, mtime, answers>> /\ viewing[v].step = "asked"
    BY <1>3 DEF ReadWhitelist
  <2>2. PICK x \in Answer :
          /\ viewing' = [viewing EXCEPT ![v] = [viewing[v] EXCEPT !.step = "scanning", !.answer = x]]
          /\ x.at = viewing[v].answer.at /\ (x.unread \/ x.shown = Software \ N)
          /\ viewing[v].answer.unread => x.unread
    <3>1. CASE viewing' = [viewing EXCEPT ![v].step = "scanning",
                             ![v].answer.shown = Software \ NormalizeWhitelist(wfile)]
      <4> DEFINE y == [viewing[v].answer EXCEPT !.shown = Software \ N]
      <4>1. /\ y \in Answer /\ y.at = viewing[v].answer.at /\ y.shown = Software \ N
            /\ y.unread = viewing[v].answer.unread
        BY <1>0 DEF Answer
      <4>2. viewing' = [viewing EXCEPT ![v] = [viewing[v] EXCEPT !.step = "scanning", !.answer = y]]
        BY <1>0, <3>1 DEF N, Viewing
      <4> QED
        BY <4>1, <4>2
    <3>2. CASE viewing' = [viewing EXCEPT ![v].step = "scanning",
                             ![v].answer.shown = Software, ![v].answer.unread = TRUE]
      <4> DEFINE y == [viewing[v].answer EXCEPT !.shown = Software, !.unread = TRUE]
      <4>1. y \in Answer /\ y.at = viewing[v].answer.at /\ y.unread
        BY <1>0 DEF Answer
      <4>2. viewing' = [viewing EXCEPT ![v] = [viewing[v] EXCEPT !.step = "scanning", !.answer = y]]
        BY <1>0, <3>2 DEF Viewing
      <4> QED
        BY <4>1, <4>2
    <3> QED
      BY <1>3, <3>1, <3>2 DEF ReadWhitelist
  <2>3. /\ viewing' \in [Viewers -> Viewing]
        /\ viewing'[v].step = "scanning" /\ viewing'[v].key = viewing[v].key
        /\ viewing'[v].begun = viewing[v].begun /\ viewing'[v].approved = viewing[v].approved
        /\ viewing'[v].answer = x
        /\ \A w \in Viewers : w # v => viewing'[w] = viewing[w]
    BY <1>0, <2>2 DEF Viewing
  <2>4. ScansTyped'
    BY <1>0, <2>1, <2>3 DEF ScansTyped, ShadowTypeOK
  <2>5. ScansFresh'
    BY <1>0, <2>1, <2>2, <2>3 DEF ScansFresh, AnswerFresh
  <2>6. ~Blind' => ~Blind /\ x.shown = Software \ N
    BY <1>1, <2>2, <2>3 DEF Blind
  <2>7. ScansApproved'
    BY <1>0, <1>1, <2>1, <2>3, <2>6 DEF ScansApproved, N
  <2> QED
    BY <2>4, <2>5, <2>7 DEF ScansInv
<1>4. ASSUME NEW v \in Viewers, Detect(v) PROVE ScansInv'
  <2> DEFINE x == [viewing[v].answer EXCEPT !.seenAt = clock]
  <2>1. /\ UNCHANGED <<clock, mtime, answers>> /\ viewing[v].step = "scanning"
        /\ viewing' = [viewing EXCEPT ![v] = [viewing[v] EXCEPT !.step = "scanned", !.answer = x]]
    BY <1>0, <1>4 DEF Detect, Viewing
  <2>2. /\ x \in Answer /\ x.seenAt = clock /\ x.at = viewing[v].answer.at
        /\ x.shown = viewing[v].answer.shown /\ x.unread = viewing[v].answer.unread
    BY <1>0 DEF Answer
  <2> HIDE DEF x
  <2>3. /\ viewing' \in [Viewers -> Viewing]
        /\ viewing'[v].step = "scanned" /\ viewing'[v].key = viewing[v].key
        /\ viewing'[v].begun = viewing[v].begun /\ viewing'[v].approved = viewing[v].approved
        /\ viewing'[v].answer = x
        /\ \A w \in Viewers : w # v => viewing'[w] = viewing[w]
    BY <1>0, <2>1, <2>2 DEF Viewing
  <2>4. ScansTyped'
    BY <1>0, <2>1, <2>3 DEF ScansTyped, ShadowTypeOK
  <2>5. ScansFresh'
    BY <1>0, <2>1, <2>2, <2>3 DEF ScansFresh, AnswerFresh
  <2>6. ~Blind' => ~Blind
    BY <1>1, <2>2, <2>3 DEF Blind
  <2>7. ScansApproved'
    BY <1>0, <1>1, <2>1, <2>2, <2>3, <2>6 DEF ScansApproved, N
  <2> QED
    BY <2>4, <2>5, <2>7 DEF ScansInv
<1>5. ASSUME NEW v \in Viewers, Reply(v) PROVE ScansInv'
  <2> DEFINE key == viewing[v].key
  <2>1. /\ UNCHANGED <<clock, mtime>> /\ viewing[v].step = "scanned"
        /\ viewing' = [viewing EXCEPT ![v].step = "answered"]
        /\ answers' = Cached(key, viewing[v].answer)
    BY <1>5 DEF Reply, Go, Stored
  <2>2. /\ DOMAIN answers' \subseteq DOMAIN answers \cup {key}
        /\ \A k \in DOMAIN answers' :
             answers'[k] = IF k = key THEN viewing[v].answer ELSE answers[k]
    BY <2>1 DEF Cached
  <2>3. /\ viewing' \in [Viewers -> Viewing]
        /\ viewing'[v].step = "answered" /\ viewing'[v].key = viewing[v].key
        /\ viewing'[v].begun = viewing[v].begun /\ viewing'[v].approved = viewing[v].approved
        /\ viewing'[v].answer = viewing[v].answer
        /\ \A w \in Viewers : w # v => viewing'[w] = viewing[w]
    BY <1>0, <2>1 DEF Viewing
  <2>4. ScansTyped'
    BY <1>0, <2>1, <2>2, <2>3 DEF ScansTyped, ShadowTypeOK
  <2>5. viewing[v].begun - viewing[v].answer.seenAt < CacheTTL
    <3>1. viewing[v].begun <= viewing[v].answer.seenAt
      BY <1>0, <2>1 DEF ScansFresh
    <3>2. viewing[v].begun \in Nat /\ viewing[v].answer.seenAt \in Nat
      BY <1>0 DEF Answer
    <3> QED
      BY <1>0, <3>1, <3>2
  <2>6. ScansFresh'
    BY <1>0, <2>1, <2>2, <2>3, <2>5 DEF ScansFresh, AnswerFresh
  <2>7. ~Blind' => ~Blind
    BY <1>1, <2>3 DEF Blind
  <2>8. ScansApproved'
    BY <1>0, <1>1, <2>1, <2>2, <2>3, <2>7 DEF ScansApproved, N
  <2> QED
    BY <2>4, <2>6, <2>8 DEF ScansInv
<1>6. ASSUME NEW v \in Viewers, FailScan(v) PROVE ScansInv'
  <2>1. /\ UNCHANGED <<clock, mtime, answers>>
        /\ viewing' = [viewing EXCEPT ![v].step = "failed"]
        /\ viewing[v].step \in {"asked", "scanning"}
    BY <1>6 DEF FailScan, Go
  <2>2. /\ viewing' \in [Viewers -> Viewing]
        /\ viewing'[v].step = "failed" /\ viewing'[v].key = viewing[v].key
        /\ viewing'[v].begun = viewing[v].begun /\ viewing'[v].approved = viewing[v].approved
        /\ viewing'[v].answer = viewing[v].answer
        /\ \A w \in Viewers : w # v => viewing'[w] = viewing[w]
    BY <1>0, <2>1 DEF Viewing
  <2>3. ScansTyped'
    BY <1>0, <2>1, <2>2 DEF ScansTyped, ShadowTypeOK
  <2>4. ScansFresh'
    BY <1>0, <2>1, <2>2 DEF ScansFresh, AnswerFresh
  <2>5. ~Blind' => ~Blind
    BY <1>1, <2>2 DEF Blind
  <2>6. ScansApproved'
    BY <1>0, <1>1, <2>1, <2>2, <2>5 DEF ScansApproved, N
  <2> QED
    BY <2>3, <2>4, <2>6 DEF ScansInv
<1>7. CASE Tick
  <2>1. clock' = clock + 1 /\ clock' \in 0 .. MaxClock /\ UNCHANGED <<mtime, viewing, answers>>
    BY <1>0, <1>7 DEF Tick
  <2>2. ScansTyped'
    BY <1>0, <2>1 DEF ScansTyped, ShadowTypeOK
  <2>3. ScansFresh'
    BY <1>0, <2>1 DEF ScansFresh, AnswerFresh
  <2>4. ScansApproved'
    BY <1>0, <1>1, <2>1 DEF ScansApproved, Blind, N
  <2> QED
    BY <1>1, <2>2, <2>3, <2>4 DEF ScansInv
<1>8. ScansInv'
  BY <1>2, <1>3, <1>4, <1>5, <1>6, <1>7 DEF ScanNext
<1> QED
  BY <1>1, <1>8
-----------------------------------------------------------------------------
(* The server.                                                             *)

ServerInv ==
  /\ scene \in Scenes
  /\ DriverInv /\ EnricherInv /\ WhitelistInv /\ ScansInv /\ SnapshotsInv

\* What a scene leaves alone stays right.
LEMMA PartsStay ==
  /\ EnricherInv /\ UNCHANGED enrichVars => EnricherInv'
  /\ WhitelistInv /\ UNCHANGED <<wfile, adding>> /\ accidents' \in 0 .. MaxAccidents => WhitelistInv'
  /\ ScansInv /\ UNCHANGED <<whitelistVars, shadowVars>> => ScansInv'
<1>1. EnricherInv /\ UNCHANGED enrichVars => EnricherInv'
  BY DEF EnricherInv, EnricherTypeOK, enrichVars, worker
<1>2. WhitelistInv /\ UNCHANGED <<wfile, adding>> /\ accidents' \in 0 .. MaxAccidents => WhitelistInv'
  BY DEF WhitelistInv, WhitelistTypeOK, Holding, NormalizeWhitelist
<1>3. ASSUME ScansInv, UNCHANGED <<whitelistVars, shadowVars>> PROVE ScansInv'
  <2>1. UNCHANGED <<wfile, adding, accidents, clock, mtime, viewing, answers>>
    BY <1>3 DEF whitelistVars, shadowVars
  <2>2. ScansTyped'
    BY <1>3, <2>1 DEF ScansInv, ScansTyped, ShadowTypeOK
  <2>3. ScansFresh'
    BY <1>3, <2>1 DEF ScansInv, ScansFresh, AnswerFresh
  <2>4. ScansApproved'
    BY <1>3, <2>1 DEF ScansInv, ScansApproved, Blind, NormalizeWhitelist
  <2> QED
    BY <2>2, <2>3, <2>4 DEF ScansInv
<1> QED
  BY <1>1, <1>2, <1>3

LEMMA ServerInitInv == Init => ServerInv
BY DriverInitInv, EnricherInitInv, WhitelistInitInv, ScansInitInv, SnapshotsInitInv
DEF Init, ServerInv

\* The enricher with its handle, and the requests that share it.
LEMMA EnrichNextInv ==
  ASSUME DriverInv, EnricherInv, EnrichNext
  PROVE  DriverInv' /\ EnricherInv'
<1>1. Worker \in Callers /\ Requests \subseteq Callers
  BY DriverAssumption, WorkerAssumption
<1>2. CASE WorkerAsks
  BY <1>1, <1>2, DriverNextInv, PartsStay DEF WorkerAsks
<1>3. CASE WorkerEnds
  <2>1. PICK answered \in BOOLEAN : Ends(Worker, answered) /\ Queries(answered)
    BY <1>3 DEF WorkerEnds
  <2>2. DriverInv'
    BY <1>1, <2>1, DriverNextInv
  <2> QED
    BY <2>1, <2>2, WorkerKeeps
<1>4. CASE WorkerThinks \/ WorkerStarts \/ WorkerStops
  BY <1>4, DriverNextInv, WorkerKeeps DEF WorkerThinks, WorkerStarts, WorkerStops
<1>5. CASE DriverStep
  BY <1>5, DriverNextInv, PartsStay DEF DriverStep
<1>6. CASE RequestStep
  BY <1>1, <1>6, DriverNextInv, PartsStay DEF RequestStep
<1>7. CASE Beside /\ UNCHANGED driverVars
  BY <1>7, DriverNextInv, BesideKeeps
<1> QED
  BY <1>2, <1>3, <1>4, <1>5, <1>6, <1>7 DEF EnrichNext

LEMMA ServerNextInv == ServerInv /\ [Next]_vars => ServerInv'
<1> SUFFICES ASSUME ServerInv, [Next]_vars PROVE ServerInv'
  OBVIOUS
<1>0. /\ scene \in Scenes
      /\ DriverInv /\ EnricherInv /\ WhitelistInv /\ ScansInv /\ SnapshotsInv
      /\ accidents \in 0 .. MaxAccidents
  BY DEF ServerInv, WhitelistInv, WhitelistTypeOK
<1>1. UNCHANGED Enriching => DriverInv' /\ EnricherInv'
  BY <1>0, DriverNextInv, PartsStay DEF Enriching
<1>2. UNCHANGED Authorizing => WhitelistInv' /\ ScansInv'
  BY <1>0, PartsStay DEF Authorizing, whitelistVars
<1>3. UNCHANGED snapshotVars => SnapshotsInv'
  BY <1>0, SnapshotsNextInv
<1>4. scene' = scene
  BY DEF Next, vars
<1>5. CASE EnrichNext /\ UNCHANGED <<Authorizing, snapshotVars>>
  BY <1>0, <1>2, <1>3, <1>4, <1>5, EnrichNextInv DEF ServerInv
<1>6. CASE AddNext /\ UNCHANGED <<Enriching, snapshotVars>>
  <2>1. WhitelistInv' /\ ScansInv'
    BY <1>0, <1>6, WhitelistNextInv, AddKeepsScans DEF AddNext
  <2> QED
    BY <1>0, <1>1, <1>3, <1>4, <1>6, <2>1 DEF ServerInv
<1>7. CASE ScanNext /\ UNCHANGED <<Enriching, snapshotVars>>
  <2>1. WhitelistInv' /\ ScansInv'
    BY <1>0, <1>7, ScanKeeps, PartsStay
  <2> QED
    BY <1>0, <1>1, <1>3, <1>4, <1>7, <2>1 DEF ServerInv
<1>8. CASE SnapshotsNext /\ UNCHANGED <<Enriching, Authorizing>>
  <2>1. SnapshotsInv'
    BY <1>0, <1>8, SnapshotsNextInv
  <2> QED
    BY <1>0, <1>1, <1>2, <1>4, <1>8, <2>1 DEF ServerInv
<1>9. CASE UNCHANGED vars
  BY <1>0, <1>1, <1>2, <1>3, <1>9 DEF vars, ServerInv
<1> QED
  BY <1>5, <1>6, <1>7, <1>8, <1>9 DEF Next

THEOREM ServerInvariant == Spec => []ServerInv
BY ServerInitInv, ServerNextInv, PTL DEF Spec

(* In every state the variables have their types.                          *)
THEOREM ServerTyped == Spec => []TypeOK
<1>1. ServerInv => TypeOK
  BY SnapshotsInvHolds
  DEF ServerInv, TypeOK, DriverInv, EnricherInv, WhitelistInv, ScansInv, ScansTyped
<1> QED
  BY <1>1, ServerInvariant, PTL

(* However many callers share, lose, leave and reset the handle, it has    *)
(* one driver; a call fails only for an outage or a reset during it, with  *)
(* its own context, or with an error of its own query; and such an error   *)
(* takes the driver from nobody (Driver and Reset, graphdb.go, and the     *)
(* errors of the route, routes.go).                                        *)
THEOREM OneHandle == Spec => []DriverShared
<1>1. ServerInv => DriverShared
  BY DEF ServerInv, DriverInv, DriverShared, OneDriver, FailsForCause,
         ErrorsDisturbNobody, HasDriver
<1> QED
  BY <1>1, ServerInvariant, PTL

(* Neither writer of the names puts one on a cooldown for nothing, nor     *)
(* clears one that passed the gate (markMiss, enrichNames and the purge).  *)
THEOREM NamesAreKept == Spec => []NamesKept
<1>1. ServerInv => NamesKept
  BY DEF ServerInv, EnricherInv, NamesKept, CooledForCause, GatedKept, EnricherTypeOK
<1> QED
  BY <1>1, ServerInvariant, PTL

(* A scan, from the cache or not, shows nothing authorized before it was   *)
(* asked for, and a graph younger than the TTL (serve, routes.go).         *)
THEOREM ScansAreCurrent == Spec => []ScansCurrent
<1>1. ServerInv => ScansCurrent
  BY DEF ServerInv, ScansInv, ScansFresh, ScansApproved, ScansCurrent, ApprovalShown
<1> QED
  BY <1>1, ServerInvariant, PTL

(* Snapshots are whole, the newest is kept and no more than the retention, *)
(* whole ones are listed in order, and a diff replays (snapshot.go).       *)
THEOREM SnapshotsAreWhole == Spec => []SnapshotsHold
<1>1. ServerInv => SnapshotsHold
  BY SnapshotsInvHolds DEF ServerInv, SnapshotsHold
<1> QED
  BY <1>1, ServerInvariant, PTL

(* The whitelist implements the set that only grows: initial states and    *)
(* steps of the server map to those of Authorized (Whitelist.Add, app.go). *)
THEOREM WhitelistOnlyGrows == Spec => OnlyGrows
<1> DEFINE shown == <<NormalizeWhitelist(wfile), Unread>>
<1>1. Init => Abstract!Init
  BY Normalizing DEF Init, WhitelistInit, Abstract!Init, Unread, NoRequest
<1>2. ServerInv /\ [Next]_vars => [Abstract!Next]_shown
  <2> SUFFICES ASSUME ServerInv, [Next]_vars PROVE Abstract!Next \/ UNCHANGED shown
    OBVIOUS
  <2>1. CASE UNCHANGED <<wfile, adding>>
    BY <2>1 DEF NormalizeWhitelist, Unread
  <2>2. CASE AddNext
    BY <2>2, WhitelistImplements DEF AddNext, ServerInv
  <2>3. AddNext \/ UNCHANGED <<wfile, adding>>
    BY ScanKeeps DEF Next, vars, ServerInv, Authorizing, whitelistVars
  <2> QED
    BY <2>1, <2>2, <2>3
<1> QED
  BY <1>1, <1>2, ServerInvariant, PTL DEF Spec, OnlyGrows, Abstract!Spec
=============================================================================
