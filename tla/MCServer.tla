------------------------------ MODULE MCServer ------------------------------
EXTENDS Server, TLC

CONSTANTS rare, common, known, enricher, route, r1, r2, v1, v2, h, u, s, x, l, slack, Slack, zoom

\* A legacy name that many hosts have, a rare name, one of the catalog.
MCRank == (rare :> 1) @@ (common :> 3) @@ (known :> 2)

\* An entry of an operator that is one of the names once normalized.
MCNormal == (slack :> slack) @@ (Slack :> slack) @@ (zoom :> zoom) @@ (" " :> "")

MCKind == (h :> "host") @@ (u :> "user") @@ (s :> "software") @@ (x :> "software") @@ (l :> "label")
Link(n, m) == [from |-> n, to |-> m]
MCLinks == {Link(h, l), Link(u, h), Link(s, h), Link(x, h)}
\* Two runs within an hour, and one in the next.
MCHour == <<1, 1, 2>>
=============================================================================
