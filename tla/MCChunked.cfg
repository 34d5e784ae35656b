SPECIFICATION Spec
CONSTANTS
  x = x
  y = y
  NumBlocks = 3
  BlockSize = 2
  SeqId = {1, 2, 3}
  Token <- MCToken
  Prompts <- MCPrompts
  MaxNumSeqs = 3
  MaxNumBatchedTokens = 2
  Eos = y
  EosIds = {x, y}
  MaxTokens = {3}
  IgnoreEos = {TRUE, FALSE}
INVARIANTS ChunkedInv GrowingBlocksArePrivate RunnerContract KVFaithful
PROPERTIES SampleAtTheEnd LostByPreemptionOnly RequestsFinish
