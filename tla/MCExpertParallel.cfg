SPECIFICATION Spec
CONSTANTS
  Recipes = {"ep_ll_torch", "ep_ll_triton", "ep_ht"}
  N = 3
  ELocal = 2
  K = 2
  TCap = 2
  MMax = 1
  Batches <- MCBatches
  MaxCalls = 2
INVARIANTS ReplicasPlacedOnce
PROPERTIES RefinesLayer LayersComplete
CHECK_DEADLOCK FALSE
