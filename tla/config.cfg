SPECIFICATION Spec
CONSTANTS
  v1 = v1
  v2 = v2
  vundef = vundef
  ReadAs <- MCReadAs
  MaxLines = 4
  Files <- MCFiles
  Sections <- MCSections
  Entries <- MCEntries
  Clipped <- MCClipped
  Vals = {v1, v2}
  NoKey = NoKey
  NULL = NULL
  DICTMINSZ = 2
  MaxSize = 4
  Default = Default
INVARIANTS TypeOK Inv LoadedIsFile DumpReloads ConfiguredByFile 
CHECK_DEADLOCK FALSE
