SPECIFICATION FairSpec
CONSTANTS
  f1 = f1
  f2 = f2
  small = small
  large = large
  FragmentIds <- MCFragmentIds
  Contents <- MCContents
  Size <- MCSize
  Owners = {"a"}
  MaxStorage = 3
  Expiries = {1}
  Extensions = {1}
  MaxTime = 2
  Faults = {"crash", "io"}
  Absent = Absent
  NoFile = NoFile
  Torn = Torn
  NoId = NoId
INVARIANTS
  TypeOK
  CapacityRespected
  NeverSaturates
  SavedIndexFits
  AckedIsServed
PROPERTIES
  ImplementsStore
  OperationsReturn
CHECK_DEADLOCK FALSE
