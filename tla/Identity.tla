------------------------------ MODULE Identity ------------------------------
(***************************************************************************)
(* The identity of a browser extension (internal/extintel/identity.go):    *)
(* the store and the key of its node, from the row a host reports, and the *)
(* binding of a Safari extension to the app that contains it.              *)
(*                                                                         *)
(* A text a host reports is a record: what it says (id) and the set of its *)
(* shapes, of which the code tells these apart.                            *)
(***************************************************************************)
EXTENDS Naturals, SequencesExt

CONSTANT None
ASSUME NoneAssumption == None \notin STRING

Shape == {"extid",   \* contains a Chromium extension ID
          "guid",    \* is a Firefox add-on ID
          "dotted",  \* has two dots at least
          "space", "at"}

\* What the words of the browser column name, in the order they are tried.
browserWords == <<"edge", "brave", "opera", "vivaldi", "chromium">>
\* What a path may name, in that order; Chromium's does not count.
pathWords == <<"edge", "brave", "opera", "vivaldi">>

FirstIn(words, said) ==
  words[CHOOSE n \in DOMAIN words : words[n] \in said /\ \A k \in 1 .. (n - 1) : words[k] \notin said]

\* row.words: the browsers named; row.paths: a sequence of [words, ...].
inferStore(row) ==
  LET Telling == {n \in DOMAIN row.paths : row.paths[n].words \cap Range(pathWords) # {}}
      first == CHOOSE n \in Telling : \A k \in Telling : n <= k
  IN CASE row.source = "firefox_addons" -> "firefox"
       [] row.source = "safari_extensions" -> "safari"
       [] row.source = "ie_extensions" -> "edge"
       [] row.source = "chrome_extensions" ->
            IF row.words \cap Range(browserWords) # {} THEN FirstIn(browserWords, row.words)
            ELSE IF Telling # {} THEN FirstIn(pathWords, row.paths[first].words) ELSE "chrome"
       [] OTHER -> "unknown"

TellsAnyDotted(source, text) ==
  CASE source \in {"chrome_extensions", "ie_extensions"} -> "extid" \in text.shapes
    [] source = "firefox_addons" -> "guid" \in text.shapes
    [] source = "safari_extensions" -> "dotted" \in text.shapes /\ "space" \notin text.shapes
    [] OTHER -> FALSE
\* "@" is kept for keys bound to a signing team.
Tells(source, text) ==
  CASE source \in {"chrome_extensions", "ie_extensions"} -> "extid" \in text.shapes
    [] source = "firefox_addons" -> "guid" \in text.shapes
    [] source = "safari_extensions" ->
         "dotted" \in text.shapes /\ {"space", "at"} \cap text.shapes = {}
    [] OTHER -> FALSE

\* The name, then the display name, then the paths.
inferExtensionID(row) ==
  LET said == <<row.name, row.display>> \o [n \in DOMAIN row.paths |-> row.paths[n].text]
      telling == {n \in DOMAIN said : said[n] # None /\ Tells(row.source, said[n])}
  IN IF telling = {} THEN None ELSE said[Min(telling)].id

\* An ID the vendor ships, or an install under the browser's own root.
isBuiltin(row) == row.vendorId \/ \E n \in DOMAIN row.paths : row.paths[n].root

DeriveExtensionIdentity(row) ==
  LET store == inferStore(row)
      id == IF row.id # None THEN row.id ELSE inferExtensionID(row)
      src == IF row.name # None THEN row.name ELSE row.display
  IN [store |-> store, id |-> id, team |-> None,
      key |-> IF id # None THEN <<"ext", store, id>> ELSE <<"name", store, src>>,
      path |-> IF row.paths = <<>> THEN None ELSE row.paths[1],
      builtin |-> isBuiltin(row)]

\* The ID of a Safari extension whose app is known.
Bound(bundle, appex, team) == <<bundle, appex, IF team = None THEN "unsigned" ELSE team>>

\* apps: the apps of the same host, by path, with bundle ID and team.
WithSafariApp(ext, apps) ==
  IF ext.store # "safari" \/ ext.path = None THEN ext
  ELSE IF ext.path.app \notin DOMAIN apps THEN ext
  ELSE LET app == apps[ext.path.app]
           id == Bound(app.bundle, ext.path.appex, app.team)
       IN [ext EXCEPT !.id = id, !.key = <<"ext", "safari", id>>, !.team = app.team]
-----------------------------------------------------------------------------
\* Two rows of Safari extensions, of any hosts, that come to share a node are
\* signed by the same team: one host cannot lend another its team, whatever
\* names it reports, and however either app is unknown.
SignedApart(r, rApps, s, sApps) ==
  LET x == WithSafariApp(DeriveExtensionIdentity(r), rApps)
      y == WithSafariApp(DeriveExtensionIdentity(s), sApps)
  IN x.key = y.key => x.team = y.team
=============================================================================
