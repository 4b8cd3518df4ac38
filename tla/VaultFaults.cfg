SPECIFICATION Spec
CONSTANTS
  Calls = {c1, c2}
  Files = {f1, f2}
  Folders = {d1}
  Root = Root
  TotalShards = 2
  NoRecord = NoRecord
  NoFile = NoFile
  Failed = Failed
  Faults = {"crash", "io"}
SYMMETRY Symmetry
INVARIANTS
  TypeOK
  RecordedIsComplete
  ListIsFresh
  NothingLeftBehind
  DeletionIsFinal
PROPERTIES
  ImplementsCatalog
  CallsRunOut
CHECK_DEADLOCK FALSE
