CONSTANTS
  AllocNb = 2
  RefcountMax = 3
  Blocks = {1, 4}
  StoreOrders <- OptimizedBuild
SPECIFICATION Spec
CHECK_DEADLOCK FALSE
INVARIANT CollectsOnlyGarbage
