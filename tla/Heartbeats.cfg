SPECIFICATION Spec
CONSTANTS
  SeedPhrase = "phrase"
  Passwords = {"right", "other"}
  Fragments = {"f"}
  Day = 2
  ExpirationDays = 2
  ExtensionDays = {1, 2}
  MaxAge = 2
  Skews <- MCSkews
  MaxTime = 8
  MaxHeartbeats = 3
  None = None
INVARIANTS
  TypeOK
  EndsWithOwner
  DaysAgree
PROPERTIES
  NeverShortened
