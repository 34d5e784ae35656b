SPECIFICATION SwiftSpec
CONSTANTS
  NumRequests = 3
  PromptLens = {2, 5}
  OutputLens = {1, 3}
  NumBlocks = 3
  BlockSize = 2
  MaxBatchSize = 3
  MaxTokensInBatch = 4
  MaxSeqsInBlockTable = 2
INVARIANTS SwiftInv EnoughBlocks NoneLost
PROPERTIES RequestsAnswered
CHECK_DEADLOCK FALSE
