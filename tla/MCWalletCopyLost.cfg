SPECIFICATION Spec
CONSTANTS
  Change <- MCChange
  KeyChange <- MCKeyChange
  PageChange <- MCPageChange
  NoFile = NoFile
  Partial = Partial
  Nothing = Nothing
  Mixes <- FullAndroid
INVARIANT BackupDecodes
CHECK_DEADLOCK FALSE
