------------------------------ MODULE ShadowIt ------------------------------
(***************************************************************************)
(* GET /api/shadow-it beside the requests that authorize software.  Scans  *)
(* are slow, so their answers are cached under the arguments and the       *)
(* whitelist's modification time.  One set of arguments; every write of    *)
(* the whitelist has a time of its own.                                    *)
(***************************************************************************)
EXTENDS Whitelist

CONSTANTS
  Viewers,   \* requests
  CacheTTL,  \* cacheTTL, in ticks
  CacheMax,  \* answers kept
  MaxClock

ASSUME ShadowAssumption == CacheTTL \in Nat \ {0} /\ CacheMax \in Nat \ {0} /\ MaxClock \in Nat

VARIABLES
  clock,
  mtime,    \* of the whitelist
  viewing,  \* where each request is, what it asked for and what it found
  answers   \* the cache

shadowVars == <<clock, mtime, viewing, answers>>

\* What a scan showed, of the graph of which time, and when it was asked for.
Answer == [at: 0 .. MaxClock, seenAt: 0 .. MaxClock, shown: SUBSET Software, unread: BOOLEAN]
NoAnswer == [at |-> 0, seenAt |-> 0, shown |-> {}, unread |-> FALSE]

Viewing == [step: {"new", "asked", "scanning", "scanned", "answered", "failed"},
            key: Nat, begun: 0 .. MaxClock, approved: SUBSET Software, answer: Answer]

ShadowTypeOK ==
  /\ clock \in 0 .. MaxClock /\ mtime \in Nat
  /\ viewing \in [Viewers -> Viewing]
  /\ \A k \in DOMAIN answers : k \in 0 .. mtime /\ answers[k] \in Answer

ShadowInit ==
  /\ clock = 0 /\ mtime = 0 /\ answers = <<>>
  /\ viewing = [v \in Viewers |-> [step |-> "new", key |-> 0, begun |-> 0,
                                   approved |-> {}, answer |-> NoAnswer]]

Go(v, step) == viewing' = [viewing EXCEPT ![v].step = step]

KeyOfArguments == 0
cacheKey == mtime
Fresh(answer) == clock - answer.at < CacheTTL

Ask(v) ==
  /\ viewing[v].step = "new"
  /\ LET hit == cacheKey \in DOMAIN answers /\ Fresh(answers[cacheKey])
     IN viewing' = [viewing EXCEPT
          ![v] = [step |-> IF hit THEN "answered" ELSE "asked",
                  key |-> cacheKey, begun |-> clock, approved |-> NormalizeWhitelist(wfile),
                  answer |-> IF hit THEN answers[cacheKey] ELSE [NoAnswer EXCEPT !.at = clock]]]
  /\ UNCHANGED <<clock, mtime, answers>>

\* The whitelist is read once, after the thresholds were queried; one that
\* cannot be read is empty.
ReadWhitelist(v) ==
  /\ viewing[v].step = "asked"
  /\ \/ viewing' = [viewing EXCEPT ![v].step = "scanning",
                      ![v].answer.shown = Software \ NormalizeWhitelist(wfile)]
        /\ UNCHANGED accidents
     \/ /\ Accident
        /\ viewing' = [viewing EXCEPT ![v].step = "scanning",
                         ![v].answer.shown = Software, ![v].answer.unread = TRUE]
  /\ UNCHANGED <<clock, mtime, answers>>

\* The detections leave out what the whitelist they were given names.
Detect(v) ==
  /\ viewing[v].step = "scanning"
  /\ viewing' = [viewing EXCEPT ![v].step = "scanned", ![v].answer.seenAt = clock]
  /\ UNCHANGED <<clock, mtime, answers>>

StoredNow(v) == [viewing[v].answer EXCEPT !.at = clock]
Stored(v) == viewing[v].answer
Cached(k, answer) ==
  LET old == IF Cardinality(DOMAIN answers) >= CacheMax THEN {} ELSE DOMAIN answers
  IN [j \in old \cup {k} |-> IF j = k THEN answer ELSE answers[j]]

Reply(v) ==
  /\ viewing[v].step = "scanned" /\ Go(v, "answered")
  /\ answers' = Cached(viewing[v].key, Stored(v))
  /\ UNCHANGED <<clock, mtime>>

\* A query fails: the answer is an error, and none is kept.
FailScan(v) ==
  /\ viewing[v].step \in {"asked", "scanning"} /\ Go(v, "failed")
  /\ UNCHANGED <<clock, mtime, answers>>

Tick ==
  /\ clock < MaxClock /\ clock' = clock + 1
  /\ UNCHANGED <<mtime, viewing, answers>>

\* A write of the whitelist is a rename of a new file.
Writes(p) == Save(p) /\ adding[p].name \notin adding[p].list /\ UNCHANGED accidents

ScanNext ==
  \/ /\ \E v \in Viewers : Ask(v) \/ Detect(v) \/ Reply(v) \/ FailScan(v)
     /\ UNCHANGED whitelistVars
  \/ \E v \in Viewers : ReadWhitelist(v) /\ UNCHANGED <<wfile, adding>>
  \/ Tick /\ UNCHANGED whitelistVars

AddNext ==
  /\ WhitelistNext
  /\ mtime' = IF \E p \in Adders : Writes(p) THEN mtime + 1 ELSE mtime
  /\ UNCHANGED <<clock, viewing, answers>>

Blind ==
  \/ \E p \in Adders : adding[p].unread
  \/ \E v \in Viewers : viewing[v].answer.unread
-----------------------------------------------------------------------------
(* "Approving software is visible on the next read" (routes.go:27): what   *)
(* was authorized before a request came is not in its answer, scanned or   *)
(* cached, as long as every reader could read the file.                    *)
ApprovalShown ==
  \A v \in Viewers :
    viewing[v].step = "answered" /\ ~Blind => viewing[v].answer.shown \cap viewing[v].approved = {}

(* "Graph changes show up within the TTL" (routes.go:28): an answer tells  *)
(* of a graph less than a TTL older than the request, however long the     *)
(* scan that found it took, and whichever of two scans was kept last.      *)
AnswerFresh ==
  \A v \in Viewers :
    viewing[v].step = "answered" => viewing[v].begun - viewing[v].answer.seenAt < CacheTTL
=============================================================================
