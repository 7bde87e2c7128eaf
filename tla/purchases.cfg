\* One database, two payers and two overlapping purchases.
SPECIFICATION Spec
CONSTANTS
  Databases = {d1}
  Principals = {alice, bob}
  Operations = {o1, o2}
  PaymentIds = {t1}
  MaxMountId = 1
  MaxBalance = 6
  MaxPending = 1
  GrantCycles = 2
  BaseUnits = 2
  Payments = {2, 3}
  IapAmounts = {2}
  Charges = {1, 3}
  Configs <- TwoConfigs
  CleanupFaults = TRUE
  NoDatabase = NoDatabase
  NoPrincipal = NoPrincipal
SYMMETRY Interchangeable
INVARIANTS
  TypeOK
  PaymentNeverLost
  CreditOnlyForPayment
  BalanceIsLedgerSum
  PendingIsUnfunded
PROPERTY KeepsPromise
\* Ids are used once and finite here: a behaviour may use them all up.
CHECK_DEADLOCK FALSE
