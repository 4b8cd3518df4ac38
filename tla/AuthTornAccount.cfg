SPECIFICATION Spec
CONSTANTS
  Seeds = {s1, s2}
  TempKeys = {t1}
  Calls = {c1}
  MaxFiles = 1
  Faults = {"crash"}
  Given = Given
  None = None
SYMMETRY Symmetry
INVARIANTS
  ShownIdIsOfKey
CHECK_DEADLOCK FALSE
