SPECIFICATION FairSpec
CONSTANTS
  Clients = {c1, c2}
  default_owner_id = default_owner
  NO_RES = NO_RES
  MaxNest = 1
  Managers = {"PowerManagerP", "InfiniteRetryPowerManagerP", "DeferredPowerManagerP"}
  FailingManagers = {"PowerManagerP", "InfiniteRetryPowerManagerP", "DeferredPowerManagerP"}
INVARIANTS PowerInv
PROPERTIES NoCommandDropped PoweredDownUnlessRefused GrantedUnlessRaced RefinesArbiter
