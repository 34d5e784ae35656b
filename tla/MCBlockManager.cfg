INIT MCInit
NEXT MCNext
CONSTANTS
  NumBlocks = 3
  BlockSize = 3
  SeqId = {1, 2}
  ta = ta
  tb = tb
  Token <- MCToken
  Prompts <- MCPrompts
  MaxLen = 5
INVARIANTS BMTypeOK RefCount Partition OpenBlocksArePrivate TablesCoverTokens Assertions UnitBlocks
CHECK_DEADLOCK FALSE
