------------------------------- MODULE Score -------------------------------
(***************************************************************************)
(* The risk score of an extension (internal/extintel/score.go) and the     *)
(* trust it rests on (publishers.go).  Points are the code's; the texts of *)
(* the signals are left out.  0.35, 0.25 and 0.15 are exact here: a sum    *)
(* that lies half way between two scores may round either way in the code. *)
(***************************************************************************)
EXTENDS Integers, FiniteSets, FiniteSetsExt, Functions, Sequences

\* Half to even, as Python rounds.
pyRound(n, d) ==
  LET q == n \div d
      r == 2 * (n % d)
  IN IF r > d \/ (r = d /\ q % 2 = 1) THEN q + 1 ELSE q

permissionWeights == [debugger |-> 25, nativeMessaging |-> 20, proxy |-> 20,
  userScripts |-> 15, cookies |-> 15, webRequest |-> 15, management |-> 15,
  declarativeNetRequest |-> 15, declarativeNetRequestWithHostAccess |-> 15,
  scripting |-> 12, clipboardRead |-> 12, tabCapture |-> 10, history |-> 8,
  identity |-> 8, downloads |-> 6, offscreen |-> 6, activeTab |-> 2, storage |-> 1,
  contextMenus |-> 1, alarms |-> 1, notifications |-> 1, sidePanel |-> 1]
privacyWeights == [c \in {1, 3, 4, 5, 7} |-> CASE c = 4 -> 4 [] c \in {3, 5} -> 3 [] OTHER -> 2]
\* The sum of the weights of what has one.
Total(weights, xs) == SumFunctionOnSet(weights, xs \cap DOMAIN weights)

\* Granted at runtime, a permission has half its weight.
runtimeWeights == [p \in DOMAIN permissionWeights |-> pyRound(permissionWeights[p], 2)]

allURLs == "all"   \* any of the patterns that match every URL

\* A host pattern among the permissions counts as a host; what is required is
\* not optional.
permissionSets(m) ==
  [perms |-> m.permissions \ m.patterns,
   hosts |-> m.host_permissions \cup (m.permissions \cap m.patterns),
   matches |-> m.matches,
   optional |-> m.optional \ (m.patterns \cup m.permissions)]

\* A policy is a sequence of directives [name, sources]; browsers honour the
\* first of a name, and a directive falls back on the next of its chain.
Names(csp) == {csp[n].name : n \in DOMAIN csp}
LastNamed(csp, name) ==
  csp[CHOOSE n \in DOMAIN csp : csp[n].name = name /\ \A k \in (n + 1) .. Len(csp) : csp[k].name # name].sources
FirstOf(csp, name) ==
  csp[CHOOSE n \in DOMAIN csp : csp[n].name = name /\ \A k \in 1 .. (n - 1) : csp[k].name # name].sources
Effective(csp, chain) ==
  IF \E n \in DOMAIN chain : chain[n] \in Names(csp)
  THEN FirstOf(csp, chain[CHOOSE n \in DOMAIN chain : chain[n] \in Names(csp)
                            /\ \A k \in 1 .. (n - 1) : chain[k] \notin Names(csp)])
  ELSE {}
weakCSP(csp) ==
  LET script == Effective(csp, <<"script-src", "default-src">>)
      element == Effective(csp, <<"script-src-elem", "script-src", "default-src">>)
  IN "unsafe-eval" \in script \/ "remote" \in script \cup element

CapabilityDiscountReversed(m) ==
  LET s == permissionSets(m)
      required == Total(permissionWeights, s.perms)
      runtime == Min({Total(runtimeWeights, s.optional), required})
      host == IF allURLs \in s.hosts THEN 20 ELSE Min({10, 2 * Cardinality(s.hosts)})
      content == IF allURLs \in s.matches THEN 10 ELSE IF s.matches # {} THEN 5 ELSE 0
      declared == Min({8, Total(privacyWeights, m.privacy)})
      reach == required + runtime + host + content + declared
      score == IF s.hosts = {} THEN reach ELSE pyRound(6 * reach, 10)
  IN Min({100, score + (IF weakCSP(m.csp) THEN 15 ELSE 0)})
capability(m) ==
  LET s == permissionSets(m)
      required == Total(permissionWeights, s.perms)
      \* no more than the required
      runtime == Min({Total(runtimeWeights, s.optional), required})
      host == IF allURLs \in s.hosts THEN 20 ELSE Min({10, 2 * Cardinality(s.hosts)})
      content == IF allURLs \in s.matches THEN 10 ELSE IF s.matches # {} THEN 5 ELSE 0
      declared == Min({8, Total(privacyWeights, m.privacy)})
      reach == required + runtime + host + content + declared
      score == IF s.hosts = {} /\ s.matches = {} THEN pyRound(6 * reach, 10) ELSE reach
  IN Min({100, score + (IF weakCSP(m.csp) THEN 15 ELSE 0)})
-----------------------------------------------------------------------------
SomeInstallVerified(installs) ==
  \E i \in installs : i.path = "store"
\* An install is [path: {"store", "other", "none"}, chromeos: BOOLEAN].
storeInstallVerified(installs) ==
  /\ \A i \in installs : i.path = "store" \/ (i.path = "none" /\ i.chromeos)
  /\ \E i \in installs : i.path = "store"

\* Trust is by an immutable ID of the store, never by a name, and only if no
\* host has the extension from elsewhere.
reputable(x) == x.publisher = "known" /\ storeInstallVerified(x.installs)

\* floor(4 * log10(users + 1)), 12 at most; -1 is an unknown number.
popularity(users) == CASE users <= 0 -> 0 [] users = 50 -> 6 [] users = 500 -> 10 [] OTHER -> 12

TrustByDefault(x) ==
  LET status == CASE x.status = "public" -> 25 [] x.status = "unlisted" -> 5 [] OTHER -> 8
      badge == IF x.publisher = "badge" THEN 10 ELSE 0
      If(b, n) == IF b THEN n ELSE 0
  IN Min({100, status + If(reputable(x), 20) + badge + 10 + popularity(x.users)
                 + If(x.featured, 5) + If(x.mv3, 8) + If(x.rating = "good", 5) + If(x.hash, 5)})
trustScore(x) ==
  LET status == CASE x.status = "public" -> 25 [] x.status = "unlisted" -> 5
                  [] x.status = "unknown" -> 8 [] OTHER -> 0
      badge == IF x.publisher = "badge" THEN 10 ELSE 0
      updated == CASE x.days = 0 -> 0 [] x.days \in 1 .. 365 -> 10
                   [] x.days \in 366 .. 730 -> 4 [] OTHER -> 0
      If(b, n) == IF b THEN n ELSE 0
  IN Min({100, status + If(reputable(x), 20) + badge + updated + popularity(x.users)
                 + If(x.featured, 5) + If(x.mv3, 8) + If(x.rating = "good", 5) + If(x.hash, 5)})

\* The worst of what speaks against it.  What could not be inspected must not
\* look clean.
threatScore(x) ==
  LET status == CASE x.blocked -> 100
                  [] ~x.blocked /\ x.status \in {"removed", "disabled"} -> 45
                  [] ~x.blocked /\ x.status \in {"not_found", "sideloaded"} -> 20
                  [] ~x.blocked /\ x.status = "unlisted" -> 10
                  [] OTHER -> 0
      rating == IF x.rating = "poor" THEN 15 ELSE 0
      manifest == CASE x.manifest = "error" -> 30 [] x.manifest = "unavailable" -> 15 [] OTHER -> 0
      cve == CASE x.cvss >= 9 -> 35 [] x.cvss \in 7 .. 8 -> 25 [] x.cvss \in 1 .. 6 -> 10 [] OTHER -> 0
  IN Max({status, rating, manifest, cve})

severityThreat(h) == CASE h = "malicious" -> 100 [] h = "unwanted" -> 70 [] h = "listed" -> 45

\* 15 * log10(hosts + 1), 60 at most, for the numbers of hosts in use.
exposureScore(x) ==
  LET points == CASE x.hosts <= 0 -> 0 [] x.hosts = 1 -> 5 [] x.hosts = 2 -> 7
                  [] x.hosts \in 3 .. 9 -> 15 [] x.hosts \in 10 .. 99 -> 30 [] OTHER -> 60
  IN Min({100, points + (IF x.versions > 2 THEN 10 ELSE 0)})

\* Oddities of a name, each with its weight.
oddities == [path |-> 12, homoglyph |-> 20, control |-> 15, long |-> 6, dotted |-> 4]

vouched(x) == \/ reputable(x)
              \/ x.publisher = "badge" /\ x.users >= 100000 /\ storeInstallVerified(x.installs)

\* x.name is "none" or the set of its oddities and of its likeness to a brand.
nameAnomalySignals(x) ==
  IF x.name = {"missing"} THEN 12
  ELSE Min({35, Total(oddities, x.name)
              + (CASE vouched(x) -> 0 [] "typosquat" \in x.name -> 18
                   [] "affix" \in x.name -> 8 [] OTHER -> 0)})

rarity(x) ==
  (CASE x.users < 0 \/ x.users > 999 \/ reputable(x) -> 0 [] x.users < 100 -> 8 [] OTHER -> 4)
  + (CASE x.hosts <= 1 -> 4
       [] x.hosts > 1 /\ x.fleet >= 10 /\ 100 * x.hosts < 3 * x.fleet -> 3
       [] OTHER -> 0)

knownBad(x) == x.blocked \/ "malicious" \in x.hits

\* The floor of what is known to be bad, by its users.
widely(users) ==
  CASE users >= 100000 -> 96 [] users >= 10000 /\ users < 100000 -> 92 [] OTHER -> 85

FloorOfOneFeed(x) ==
  CASE x.blocked -> widely(x.users)
    [] ~x.blocked /\ x.hits = {"malicious"} -> 85
    [] ~x.blocked /\ x.hits = {"unwanted"} -> 70
    [] ~x.blocked /\ x.hits = {"listed"} -> 60
    [] OTHER -> 0
\* What is known against an extension sets a floor under its score.
Floor(x) ==
  CASE knownBad(x) -> widely(x.users)
    [] ~knownBad(x) /\ x.hits # {} -> IF "unwanted" \in x.hits THEN 70 ELSE 60
    [] ~knownBad(x) /\ x.hits = {} /\ x.status = "removed" -> 60
    [] ~knownBad(x) /\ x.hits = {} /\ x.status = "not_found" /\ nameAnomalySignals(x) >= 18 -> 55
    [] OTHER -> 0

AnalyzeBuiltinFirst(x) ==
  LET threat == Max({threatScore(x)} \cup {severityThreat(h) : h \in x.hits})
      sum == 35 * capability(x.manifestOf) + 25 * (100 - trustScore(x)) + 25 * threat
               + 15 * exposureScore(x) + 100 * (nameAnomalySignals(x) + rarity(x))
  IN IF x.builtin THEN 0 ELSE Min({100, Max({pyRound(sum, 100), Floor(x)})})
\* A built-in extension is scored only if something is known against it.
AnalyzeExtension(x) ==
  LET threat == Max({threatScore(x)} \cup {severityThreat(h) : h \in x.hits})
      sum == 35 * capability(x.manifestOf) + 25 * (100 - trustScore(x)) + 25 * threat
               + 15 * exposureScore(x) + 100 * (nameAnomalySignals(x) + rarity(x))
  IN IF x.builtin /\ ~x.blocked /\ x.hits = {} THEN 0
     ELSE Min({100, Max({pyRound(sum, 100), Floor(x)})})

riskBand(score) == CASE score >= 75 -> "critical" [] score \in 50 .. 74 -> "high"
                     [] score \in 25 .. 49 -> "medium" [] OTHER -> "low"
-----------------------------------------------------------------------------
EditsOnly(a, b) ==
  LET Shorter == IF Len(a) < Len(b) THEN a ELSE b
      Longer == IF Len(a) < Len(b) THEN b ELSE a
      parts == {n \in DOMAIN Shorter : Shorter[n] # Longer[n]}
  IN CASE Len(a) = Len(b) -> Cardinality({n \in DOMAIN a : a[n] # b[n]}) <= 1
       [] Len(Longer) = Len(Shorter) + 1 ->
            parts = {} \/ \A n \in Min(parts) .. Len(Shorter) : Shorter[n] = Longer[n + 1]
       [] OTHER -> FALSE
\* The length of a and b differs by one at most and one edit, or one swap of
\* neighbours, makes them equal.
editDistanceAtMostOne(a, b) ==
  LET diffs == {n \in DOMAIN a : a[n] # b[n]}
      Shorter == IF Len(a) < Len(b) THEN a ELSE b
      Longer == IF Len(a) < Len(b) THEN b ELSE a
      \* the first place where they part is where a letter is skipped
      parts == {n \in DOMAIN Shorter : Shorter[n] # Longer[n]}
  IN CASE Len(a) = Len(b) ->
            \/ Cardinality(diffs) <= 1
            \/ \E n \in diffs : diffs = {n, n + 1} /\ a[n] = b[n + 1] /\ a[n + 1] = b[n]
       [] Len(Longer) = Len(Shorter) + 1 ->
            parts = {} \/ \A n \in Min(parts) .. Len(Shorter) : Shorter[n] = Longer[n + 1]
       [] OTHER -> FALSE
-----------------------------------------------------------------------------
\* Nothing that becomes known against an extension lowers its score: not a
\* hit of one more feed, not a blocklist entry, for built-in ones neither.
HitNeverLowers(x) ==
  \A more \in SUBSET {"malicious", "unwanted", "listed"} :
    /\ AnalyzeExtension(x) <= AnalyzeExtension([x EXCEPT !.hits = x.hits \cup more])
    /\ AnalyzeExtension(x) <= AnalyzeExtension([x EXCEPT !.blocked = TRUE])

\* All else equal, a worse answer of the store never gives a lower score.
ByStatus == <<"public", "unknown", "unlisted", "not_found", "removed">>
WorseNeverLowers(x) ==
  \A n \in 1 .. 4 : AnalyzeExtension([x EXCEPT !.status = ByStatus[n]])
                      <= AnalyzeExtension([x EXCEPT !.status = ByStatus[n + 1]])

\* Asking for more never looks less capable: one more permission, required or
\* optional, one more host, or one more page to run on.
CapabilityMonotone(m, p) ==
  /\ capability(m) <= capability([m EXCEPT !.permissions = @ \cup {p}])
  /\ capability(m) <= capability([m EXCEPT !.optional = @ \cup {p}])
  /\ capability(m) <= capability([m EXCEPT !.host_permissions = @ \cup {p}])
  /\ capability(m) <= capability([m EXCEPT !.matches = @ \cup {p}])

\* Browsers honour the first directive of a name: more of the same name, as
\* a package may carry them, change nothing.
RepeatChangesNothing(csp, d) == d.name \in Names(csp) => (weakCSP(Append(csp, d)) <=> weakCSP(csp))

\* A known publisher gives nothing to an extension that one host has from
\* elsewhere, or from a place it does not report.
UnpackedNotTrusted(x) ==
  \A i \in x.installs : (i.path = "other" \/ (i.path = "none" /\ ~i.chromeos)) =>
    AnalyzeExtension([x EXCEPT !.publisher = "known"]) = AnalyzeExtension([x EXCEPT !.publisher = "none"])

\* The typosquat test is the edit distance it says: a and b are equal, or one
\* letter removed, replaced or added, or two neighbours swapped, makes them so.
Without(s, n) == [k \in 1 .. (Len(s) - 1) |-> IF k < n THEN s[k] ELSE s[k + 1]]
Swapped(s, n) == [s EXCEPT ![n] = s[n + 1], ![n + 1] = s[n]]
EditDistance(a, b) ==
  editDistanceAtMostOne(a, b) <=>
    \/ a = b
    \/ \E n \in DOMAIN b : Without(b, n) = a
    \/ \E n \in DOMAIN a : Without(a, n) = b
    \/ Len(a) = Len(b) /\ \E n \in DOMAIN a : Without(a, n) = Without(b, n)
    \/ \E n \in 1 .. (Len(a) - 1) : Swapped(a, n) = b
=============================================================================
