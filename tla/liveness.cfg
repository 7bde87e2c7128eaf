\* A billing run over two databases, or a session with two concurrent requests.
SPECIFICATION Liveness
CONSTANTS
  Databases = {d1, d2}
  MaxMountId = 3
  Interval = 1
  BatchLimit = 1
  BatchesPerMessage = 1
  SizeBytes = 0
  GibBytes = 2
  MaxWait = 0
  MaxTime = 2
  MaxContinuations = 1
  MaxUpgrades = 1
  Calls = {c1, c2}
INVARIANT
  CredentialsAreSafe

  
