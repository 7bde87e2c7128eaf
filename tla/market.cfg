\* One database, two listings of it and two overlapping purchases.
SPECIFICATION Spec
CONSTANTS
  Databases = {d1}
  Principals = {alice, bob}
  Authority = Authority
  Payouts = {x, y}
  Prices = {1, 2}
  Listings = {l1, l2}
  Operations = {o1, o2}
  ForeignKeys = FALSE
  None = None
SYMMETRY Interchangeable
INVARIANTS
  CountsOrders
  OneEntitlement
  OrderMatchesTransfer
  EntitlementIsPaid
  NoDoubleCharge
  
PROPERTIES
  EntitlementLasts
  KeepsPromise
\* Ids are used once and finite here: a behaviour may use them all up.
CHECK_DEADLOCK FALSE
