SPECIFICATION Spec
CONSTANTS
  x = x
  y = y
  NumBlocks = 3
  BlockSize = 2
  SeqId = {1, 2}
  Token <- MCToken
  Prompts <- MCPrompts
  MaxNumSeqs = 2
  MaxNumBatchedTokens = 3
  Eos = y
  EosIds = {y}
  MaxTokens = {3}
  IgnoreEos = {FALSE}
INVARIANTS NoLeak
