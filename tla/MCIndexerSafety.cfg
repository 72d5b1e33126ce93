SPECIFICATION Spec
CONSTANTS
  Block <- MCBlock
  ZeroHash = "zero"
  NoBlock = "none"
  Prev <- MCPrev
  Chains <- MCChains
  Tx <- MCTx
  Adds <- MCAdds
  Spends <- MCSpends
  Outs <- MCOuts
  RollbackSize = 2
  MaxWord = 9
  SkipHack = FALSE
  Budgets <- Survivable
INVARIANTS TypeOK FiltersLinked TxsLocated LastIsBelow
PROPERTY ServesChain
CHECK_DEADLOCK FALSE
