SPECIFICATION Spec
CONSTANTS
  f1 = f1
  f2 = f2
  small = small
  large = large
  FragmentIds <- MCFragmentIds
  Contents <- MCContents
  Size <- MCSize
  Owners = {"a"}
  MaxStorage = 3
  Expiries = {1}
  Extensions = {1}
  MaxTime = 2
  Faults = {"crash"}
  Absent = Absent
  NoFile = NoFile
  Torn = Torn
  NoId = NoId
INVARIANTS
  AckedIsLoadable
CHECK_DEADLOCK FALSE
