SPECIFICATION Spec
CONSTANTS
  BlockMax = 3
  ByteMod = 3
  MaxTx = 2
  Blocks <- MCBlocks
  Uninit <- MCUninit
INVARIANT TypeOK
INVARIANT ReplyBelongs
INVARIANT LineQuiet
INVARIANT AnswerAgreement
CHECK_DEADLOCK FALSE
