SPECIFICATION FairSpec
CONSTANTS
  numClients = 3
  Messages = {m1, m2, m3}
  NULL = NULL
INVARIANTS SendInv
PROPERTIES OneCompletion CancelHonoured TakingTurns EverySendCompletes
