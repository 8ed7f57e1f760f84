CONSTANTS
  Rows <- MCRows
  MaxMishaps = 2
  PassedOver = {838}
SPECIFICATION Spec
CHECK_DEADLOCK FALSE
INVARIANT GuardedMigrationsResume
INVARIANT UpgradeMeetsDesign
PROPERTY LegacyValuesAreKept
