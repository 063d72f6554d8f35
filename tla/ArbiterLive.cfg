SPECIFICATION FairSpec
CONSTANTS
  Clients = {c1, c2, c3}
  default_owner_id = default_owner
  NO_RES = NO_RES
  MaxNest = 1
  OwnerMayDefer = TRUE
  OwnerMayRefuse = FALSE
PROPERTIES RefusedOnlyIfPending EveryRequestGranted
