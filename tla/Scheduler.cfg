CONSTANTS
  Tasks = {t1, t2, t3, t4}
  NO_TASK = NO_TASK
SPECIFICATION FairSpec
INVARIANTS LinksMatchFifo NeverSleepsOnWork
PROPERTIES RefinesTaskQueue EveryPostRuns
