SPECIFICATION FairSpec
CONSTANTS
  Change <- MCChange
  KeyChange <- MCKeyChange
  PageChange <- MCPageChange
  NoFile = NoFile
  Partial = Partial
  Nothing = Nothing
  Mixes <- MCMixes
INVARIANTS TypeOK MessagesOrdered
PROPERTIES CopyKept Durable
CHECK_DEADLOCK FALSE
