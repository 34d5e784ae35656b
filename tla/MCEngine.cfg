SPECIFICATION MCSpec
CONSTANTS
  NumBlocks = 3
  BlockSize = 2
  SeqId = {1, 2, 3}
  x = x
  y = y
  Token <- MCToken
  Prompts <- MCPrompts
  MaxLen = 7
  MaxNumSeqs = 2
  MaxNumBatchedTokens = 5
  Eos = y
  IgnoreEos = {2}
  MaxTokens = {1, 4}
  BatchSize = 3
  MaxRounds = 1
INVARIANTS EngineInv RunnerContract KVFaithful UnitEngine
PROPERTIES RequestsFinish BMSpec
