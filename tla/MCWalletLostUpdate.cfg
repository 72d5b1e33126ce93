SPECIFICATION Spec
CONSTANTS
  Change <- MCChange
  KeyChange <- MCKeyChange
  PageChange <- MCPageChange
  NoFile = NoFile
  Partial = Partial
  Nothing = Nothing
  Mixes <- OneUser
INVARIANT NoLostUpdate
CHECK_DEADLOCK FALSE
