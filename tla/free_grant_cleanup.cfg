\* A free grant handed out twice after a cleanup that failed half way.
SPECIFICATION Spec
CONSTANTS
  Databases = {d1, d2}
  Principals = {alice, bob}
  Operations = {o1}
  PaymentIds = {t1}
  MaxMountId = 2
  MaxBalance = 4
  MaxPending = 1
  GrantCycles = 2
  BaseUnits = 2
  Payments = {2}
  IapAmounts = {2}
  Charges = {3}
  Configs <- OneConfig
  CleanupFaults = TRUE
  NoDatabase = NoDatabase
  NoPrincipal = NoPrincipal
INVARIANT FreeGrantOnce
\* Ids are used once and finite here: a behaviour may use them all up.
CHECK_DEADLOCK FALSE
