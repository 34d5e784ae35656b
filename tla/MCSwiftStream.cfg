SPECIFICATION SwiftSpec
CONSTANTS
  NumRequests = 2
  PromptLens = {2, 5}
  OutputLens = {1, 3}
  NumBlocks = 3
  BlockSize = 2
  MaxBatchSize = 3
  MaxTokensInBatch = 4
  MaxSeqsInBlockTable = 2
INVARIANTS StreamComplete
CHECK_DEADLOCK FALSE
