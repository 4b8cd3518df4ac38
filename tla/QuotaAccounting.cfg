SPECIFICATION Spec
CONSTANTS
  Users = {u1}
  Sizes = {1, 2}
  MinContribution = 2
  MaxUsage = 3
  RatioNum = 3
  RatioDen = 2
  GracePeriod = 1
  Sessions = 2
  MaxTime = 2
  MaxBytes = 6
  NoQuota = NoQuota
INVARIANTS
  TypeOK
  AllowedStillFits
  GraceIsFull
  NeededIsExact
CHECK_DEADLOCK FALSE
