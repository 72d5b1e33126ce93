SPECIFICATION FairSpec
CONSTANTS
  Block <- MCBlock
  ZeroHash = "zero"
  NoBlock = "none"
  Prev <- MCPrev
  Chains <- MCChains
  Tx <- MCTx
  Adds <- MCAdds
  Spends <- MCSpends
  Outs <- MCOuts
  RollbackSize = 3
  MaxWord = 9
  SkipHack = FALSE
  Budgets <- Recoverable
INVARIANTS RollMatches FiltersLinked RollbackReaches
PROPERTIES CatchesUp
