\* Three databases, two principals, one purchase: creation, expiry, deletion;
\* or two App Store transactions in two requests of the payment worker.
SPECIFICATION AppStore
CONSTANTS
  Databases = {d1, d2, d3}
  Principals = {alice, bob}
  Operations = {o1}
  PaymentIds = {t1}
  MaxMountId = 2
  MaxBalance = 4
  MaxPending = 1
  GrantCycles = 2
  BaseUnits = 2
  Payments = {2}
  IapAmounts = {2}
  Charges = {3}
  Configs <- OneConfig
  CleanupFaults = FALSE
  NoDatabase = NoDatabase
  NoPrincipal = NoPrincipal
  None = None
  Intents = {i1}
  Transactions = {x1, x2}
  Products = {p1}
SYMMETRY InterchangeableIds
INVARIANTS
  AwaitedPurchaseIntact
  MountsExclusive
  OwnedDatabases
  IapCreditedOnce
  FreeGrantOnce
  
PROPERTIES
  MountNeverReassigned
  FulfilledIsFinal
\* Ids are used once and finite here: a behaviour may use them all up.
CHECK_DEADLOCK FALSE
