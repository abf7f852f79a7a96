SPECIFICATION Spec
CONSTANTS
  BlockMax = 3
  ByteMod = 3
  MaxTx = 2
  Blocks <- MCBlocks
  Uninit <- MCZeroed
INVARIANT NinthBitOnFirstOnly
