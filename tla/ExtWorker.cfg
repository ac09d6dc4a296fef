\* Two extensions of one Safari app and one of the Chrome store.
SPECIFICATION FairSpec
CONSTANTS
  e1 = e1  e2 = e2  e3 = e3  e4 = e4  app = app  crx = crx  None = None
  Items = {e1, e2, e3, e4}
  Listings = {app, crx}
  ListingOf <- MCListingOf
  StoreOf <- MCStoreOf
  Local = {e4}
  Chrome = {crx}
  Named = {e3}
  Suspects = {e3}
  Rank <- MCRank
  BatchSize = 2
  MaxVersion = 1
  MaxChanges = 2
  MaxFaults = 1
  Faults = {"db", "list", "lookup", "limit", "disk", "torn", "loss", "panic", "kill", "stop"}
INVARIANTS TypeOK EtagTruthful FingerprintTruthful
PROPERTIES KnownBadKept Converges
CHECK_DEADLOCK FALSE
