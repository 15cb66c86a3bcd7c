SPECIFICATION Spec
CONSTANTS
  v1 = v1
  v2 = v2
  vundef = vundef
  ReadAs <- MCReadAs
  MaxLines = 0
  Files <- ShippedFiles
  Sections <- ShippedSections
  Entries <- ShippedEntries
  Clipped <- ShippedClipped
  Vals <- ShippedVals
  NoKey = NoKey
  NULL = NULL
  DICTMINSZ = 128
  MaxSize = 128
  Default = Default
INVARIANTS EverySettingUsed
CHECK_DEADLOCK FALSE
