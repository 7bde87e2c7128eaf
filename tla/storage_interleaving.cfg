\* Two databases, one batch of one per message, a mount to switch to.
SPECIFICATION Spec
CONSTANTS
  Databases = {d1, d2}
  MaxMountId = 3
  Interval = 2
  BatchLimit = 1
  BatchesPerMessage = 1
  SizeBytes = 3
  GibBytes = 2
  MaxWait = 1
  MaxTime = 4
  MaxContinuations = 1
  MaxUpgrades = 1
SYMMETRY Interchangeable
INVARIANTS
  TypeOK
  NeverOvercharged
  RunSkipsNobody
