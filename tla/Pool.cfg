CONSTANTS
  AllocNb = 2
  RefcountMax = 3
  Blocks = {1, 4}
  StoreOrders <- SourceBuild
SPECIFICATION FairSpec
INVARIANT OneOwner
INVARIANT NoDanglingPointer
INVARIANT CollectsOnlyGarbage
PROPERTY GarbageCollected
CHECK_DEADLOCK FALSE
