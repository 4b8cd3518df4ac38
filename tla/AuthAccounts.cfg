SPECIFICATION Spec
CONSTANTS
  Seeds = {s1, s2}
  TempKeys = {t1}
  Calls = {c1, c2}
  MaxFiles = 1
  Faults = {"fail"}
  Given = Given
  None = None
SYMMETRY Symmetry
INVARIANTS
  TypeOK
  IdIsOfKey
  KeyIsOfTheAccount
  SpinnerHasCall
PROPERTIES
  LoadIsOfOneAccount
CHECK_DEADLOCK FALSE
