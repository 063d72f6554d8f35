SPECIFICATION Spec
CONSTANTS
  Clients = {c1, c2, c3}
  default_owner_id = default_owner
  NO_RES = NO_RES
  MaxNest = 2
  OwnerMayDefer = TRUE
  OwnerMayRefuse = TRUE
INVARIANTS ExclusiveUse AcceptedInOrder
PROPERTIES RefinesResourceLock
