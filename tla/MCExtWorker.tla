--------------------------- MODULE MCExtWorker ---------------------------
EXTENDS ExtWorker, TLC

CONSTANTS e1, e2, e3, e4, app, crx

\* Two Safari extensions of one app, and one from the Chrome store written
\* by name.
MCListingOf == (e1 :> app) @@ (e2 :> app) @@ (e3 :> crx)
MCStoreOf == (app :> "safari") @@ (crx :> "chrome")
MCRank == (e1 :> 1) @@ (e2 :> 1) @@ (e3 :> 2) @@ (e4 :> 2)
=============================================================================
