SPECIFICATION Spec
CONSTANTS
  TicksPerSecond = 2
  None = None  Bad = Bad  Any = Any
  Inodes = {1, 2}
  Lengths = {0, 2}
  Times <- SomeTimes
  Policies = {"plain", "revalidate", "match", "ifRange", "any"}
  Routes = {TRUE, FALSE}
  MaxVersions = 2
  MaxRequests = 4
INVARIANTS AgreesWithRfc RangeAgrees ValidatedIsSame ResumedIsWhole
CHECK_DEADLOCK FALSE
