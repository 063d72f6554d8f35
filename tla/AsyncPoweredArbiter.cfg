SPECIFICATION FairSpec
CONSTANTS
  Clients = {c1, c2}
  default_owner_id = default_owner
  NO_RES = NO_RES
  MaxNest = 1
  Managers = {"AsyncPowerManagerP", "AsyncDeferredPowerManagerP"}
INVARIANTS TypeOK
PROPERTIES PoweredUnlessRaced PoweredDownUnlessMerged RefinesArbiter
