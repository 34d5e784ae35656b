SPECIFICATION Spec
CONSTANTS
  Recipes = {"layerwise", "headwise"}
  NumRequests = 3
  Prompts <- MCPrompts
  MaxTokens = 6
  NumBlocks = 11
  MaxNumSeqs = 2
  MaxBatchedTokens = 7
  Budget = 5
  UpperBudget = 6
  Window = 3
  Recent = 1
  Steps = 2
  NumHeads = 2
INVARIANTS PoolPartition CacheFaithful QueryWindow PagesFollowTable
PROPERTIES GenerateEnds
CHECK_DEADLOCK FALSE
