---------------------------- MODULE DatabaseCycles ----------------------------
(***************************************************************************)
(* Life cycle of a database and of its cycles account, as the canister     *)
(* keeps it in the index DB: create_database (initial free grant, or a     *)
(* pending reservation), purchase_database_cycles with its await on the    *)
(* KINIC ledger, grant_database_cycles_from_iap, metered updates, access   *)
(* grants, delete_database and delete_account.                             *)
(*                                                                         *)
(* One action is one message execution: the index transactions of a        *)
(* message are not interleaved with another message, so only the await in  *)
(* purchase_database_cycles splits an operation in two.  An error returned *)
(* half way leaves the transactions already committed: such outcomes are   *)
(* actions of their own.  A database the index has no row for is "unused"  *)
(* (never created) or "deleted".                                           *)
(***************************************************************************)
EXTENDS Integers, FiniteSets, FiniteSetsExt

CONSTANTS
  Databases,      \* generated database ids
  Principals,     \* callers: owners and payers
  Operations,     \* operation ids (AUTOINCREMENT: an id is never used twice)
  PaymentIds,     \* App Store transaction ids (external_payment_id)
  MaxMountId,     \* mounts are 1..MaxMountId (11..32767 in the code)
  MaxBalance,     \* i64::MAX
  MaxPending,     \* MAX_PENDING_DATABASES_PER_CALLER
  GrantCycles,    \* INITIAL_FREE_DATABASE_GRANT_CYCLES
  BaseUnits,      \* e8s per KINIC
  Payments,       \* payment_amount_e8s a payer may choose
  IapAmounts,     \* amount_cycles of the App Store products
  Charges,        \* cycles one metered update may cost
  Configs,        \* [min, rate]: min_update_cycles and cycles_per_kinic
  CleanupFaults,  \* may the cleanup after a failed creation fail itself
  NoDatabase,
  NoPrincipal

ASSUME ConstantsAssumption ==
  /\ MaxMountId \in Nat /\ MaxBalance \in Nat /\ MaxPending \in Nat
  /\ GrantCycles \in 1..MaxBalance
  /\ BaseUnits \in Nat \ {0}
  /\ Payments \subseteq Nat \ {0}
  /\ IapAmounts \subseteq Nat \ {0}
  /\ Charges \subseteq Nat \ {0}
  /\ Configs \subseteq [min : Nat \ {0}, rate : Nat \ {0}]
  /\ CleanupFaults \in BOOLEAN
  /\ NoDatabase \notin Databases
  /\ NoPrincipal \notin Principals

VARIABLES
  config,      \* cycles_billing_config
  status,      \* databases.status, "unused" or "deleted" without a row
  mount,       \* databases.mount_id, 0 while none is allocated
  history,     \* database_mount_history: mount -> database
  aged,        \* pending rows older than PENDING_DATABASE_TTL_MS
  owners,      \* database_members with role owner
  balance,     \* database_cycle_accounts.balance_cycles
  suspended,   \* database_cycle_accounts.suspended_at_ms is set
  booked,      \* sum of amount_cycles over database_cycle_ledger
  freeGrants,  \* principals in database_free_cycle_grants
  iapGrants,   \* database_iap_cycle_grants: payment id -> database
  op,          \* database_cycle_pending_operations
  saga,        \* where each purchase_database_cycles call stands
  transfer     \* the KINIC ledger's side of each transfer

\* History variables: what was credited, for the properties.
VARIABLES
  credited,    \* operation -> times its cycles were added to a balance
  iapCredits,  \* payment id -> times it was credited
  freeCredits  \* principal -> free grants credited and not taken back

rowVars     == <<status, mount, history, aged, owners>>
accountVars == <<balance, suspended, booked>>
grantVars   == <<freeGrants, iapGrants, iapCredits, freeCredits>>
opVars      == <<op, saga, transfer, credited>>
vars        == <<config, rowVars, accountVars, grantVars, opVars>>

MountIds == 1..MaxMountId
Exists(d) == status[d] \in {"pending", "active"}

NoOp == [status |-> "absent", database |-> NoDatabase,
         caller |-> NoPrincipal, cycles |-> 0]
WithStatus(o, s) == [status |-> s, database |-> op[o].database,
                     caller |-> op[o].caller, cycles |-> op[o].cycles]
OpsOf(d) == {o \in Operations : op[o].status # "absent" /\ op[o].database = d}

-----------------------------------------------------------------------------
(* Mounts and activation                                                   *)

LowestFreeMount_OfLiveRows(m) ==
  LET free == {n \in MountIds : \A d \in Databases : mount[d] # n}
  IN m \in free /\ \A n \in free : m <= n

\* allocate_mount_id: the smallest id the mount history does not hold.
LowestFreeMount(m) ==
  /\ history[m] = NoDatabase
  /\ \A n \in MountIds : history[n] = NoDatabase => m <= n

\* prepare_pending_database_activation: an active database keeps its mount, a
\* pending one keeps the mount an earlier attempt staged or is allotted one.
ActivationMount(d, m) ==
  IF mount[d] # 0 THEN m = mount[d] ELSE LowestFreeMount(m)

StageMount_Unrecorded(d, m) ==
  /\ ActivationMount(d, m)
  /\ mount' = [mount EXCEPT ![d] = m]
  /\ UNCHANGED history

\* activate_pending_database_mount_for_tx, with record_mount_history.
StageMount(d, m) ==
  /\ ActivationMount(d, m)
  /\ mount' = [mount EXCEPT ![d] = m]
  /\ history' = [history EXCEPT ![m] = d]

CreditAndActivate_Balance(d, cycles) ==
  /\ UNCHANGED <<status, aged>>
  /\ balance' = [balance EXCEPT ![d] = @ + cycles]
  /\ suspended' = [suspended EXCEPT ![d] = balance[d] + cycles < config.min]
  /\ booked' = [booked EXCEPT ![d] = @ + cycles]

\* complete_pending_database_activation, then the balance, the suspension flag
\* and the ledger row that every credit writes in the same transaction.
CreditAndActivate(d, cycles) ==
  /\ status' = [status EXCEPT ![d] = "active"]
  /\ aged' = aged \ {d}
  /\ balance' = [balance EXCEPT ![d] = @ + cycles]
  /\ suspended' = [suspended EXCEPT ![d] = balance[d] + cycles < config.min]
  /\ booked' = [booked EXCEPT ![d] = @ + cycles]

\* checked_balance_add
FitsBalance(d, cycles) == balance[d] + cycles <= MaxBalance

-----------------------------------------------------------------------------
(* Creating a database                                                     *)

\* insert_database_reservation: an active row with a mount and a balance.
InsertReservation(c, d) ==
  /\ status[d] = "unused"
  /\ \E m \in MountIds :
       /\ LowestFreeMount(m)
       /\ mount' = [mount EXCEPT ![d] = m]
       /\ history' = [history EXCEPT ![m] = d]
  /\ status' = [status EXCEPT ![d] = "active"]
  /\ owners' = [owners EXCEPT ![d] = {c}]
  /\ balance' = [balance EXCEPT ![d] = GrantCycles]
  /\ suspended' = [suspended EXCEPT ![d] = FALSE]
  /\ booked' = [booked EXCEPT ![d] = GrantCycles]
  /\ freeCredits' = [freeCredits EXCEPT ![c] = @ + 1]
  /\ UNCHANGED <<config, aged, iapGrants, iapCredits, opVars>>

\* create_database of a principal whose free grant is unused.  A creation that
\* fails and cleans up after itself leaves the index as it was.
CreateWithFreeGrant(c, d) ==
  /\ c \notin freeGrants
  /\ InsertReservation(c, d)
  /\ freeGrants' = freeGrants \union {c}

\* The migration failed and so did discard_database_reservation; the grant row
\* is deleted all the same.
CreateKeepsReservation(c, d) ==
  /\ CleanupFaults
  /\ c \notin freeGrants
  /\ InsertReservation(c, d)
  /\ UNCHANGED freeGrants

\* The migration failed, the reservation is discarded, and
\* delete_initial_free_database_grant failed.
CreateLosesGrant(c) ==
  /\ CleanupFaults
  /\ c \notin freeGrants
  /\ freeGrants' = freeGrants \union {c}
  /\ UNCHANGED <<config, rowVars, accountVars, iapGrants, iapCredits, freeCredits, opVars>>

DropRows_WithGrants(S) ==
  /\ mount' = [d \in Databases |-> IF d \in S THEN 0 ELSE mount[d]]
  /\ aged' = aged \ S
  /\ balance' = [d \in Databases |-> IF d \in S THEN 0 ELSE balance[d]]
  /\ op' = [o \in Operations |-> IF op[o].database \in S THEN NoOp ELSE op[o]]
  /\ freeGrants' = freeGrants \ UNION {owners[d] : d \in S}
  /\ UNCHANGED <<config, history, iapGrants, iapCredits, freeCredits, saga, transfer, credited>>

\* delete_database_index_rows, but for the status and the members; the mount
\* history is kept.
DropRows(S) ==
  /\ mount' = [d \in Databases |-> IF d \in S THEN 0 ELSE mount[d]]
  /\ aged' = aged \ S
  /\ balance' = [d \in Databases |-> IF d \in S THEN 0 ELSE balance[d]]
  /\ op' = [o \in Operations |-> IF op[o].database \in S THEN NoOp ELSE op[o]]
  /\ UNCHANGED <<config, history, grantVars, saga, transfer, credited>>

Unstaged(d) == status[d] = "pending" /\ mount[d] = 0

Purgeable_IgnoringOperations(c, d) == Unstaged(d) /\ d \in aged /\ c \in owners[d]

\* purge_expired_unstarted_pending_databases
Purgeable(c, d) ==
  /\ Unstaged(d) /\ d \in aged /\ c \in owners[d]
  /\ OpsOf(d) = {}

\* create_database of a principal whose grant is used: expired reservations of
\* the caller go first, then the number of pending ones is bounded.
CreatePending(c, d) ==
  LET purged == {e \in Databases : Purgeable(c, e)}
      held   == {e \in Databases \ purged : Unstaged(e) /\ c \in owners[e]}
  IN
  /\ c \in freeGrants
  /\ status[d] = "unused"
  /\ Cardinality(held) < MaxPending
  /\ status' = [e \in Databases |-> IF e = d THEN "pending"
                                    ELSE IF e \in purged THEN "deleted" ELSE status[e]]
  /\ owners' = [e \in Databases |-> IF e = d THEN {c}
                                    ELSE IF e \in purged THEN {} ELSE owners[e]]
  /\ suspended' = [e \in Databases |-> e = d \/ (e \notin purged /\ suspended[e])]
  /\ booked' = [e \in Databases |-> IF e \in purged THEN 0 ELSE booked[e]]
  /\ DropRows(purged)

\* A reservation outlives PENDING_DATABASE_TTL_MS.
PendingExpires(d) ==
  /\ status[d] = "pending" /\ d \notin aged
  /\ aged' = aged \union {d}
  /\ UNCHANGED <<config, status, mount, history, owners, accountVars, grantVars, opVars>>

-----------------------------------------------------------------------------
(* purchase_database_cycles                                                *)

CyclesForPayment(payment) == (payment * config.rate) \div BaseUnits

Reserved(d) == MapThenSumSet(LAMBDA o : op[o].cycles, OpsOf(d))

\* Up to the await: validation and the pending operation, in one transaction;
\* then the transfer request leaves the canister.
BeginPurchase(o, c, d, payment) ==
  LET cycles == CyclesForPayment(payment) IN
  /\ saga[o] = "unused"
  /\ Exists(d) /\ owners[d] # {}
  /\ cycles > 0
  /\ status[d] = "pending" => OpsOf(d) = {}
  /\ FitsBalance(d, Reserved(d) + cycles)
  /\ \A q \in OpsOf(d) : op[q].caller # c
  /\ op' = [op EXCEPT ![o] = [status |-> "in_flight", database |-> d,
                              caller |-> c, cycles |-> cycles]]
  /\ saga' = [saga EXCEPT ![o] = "awaiting"]
  /\ transfer' = [transfer EXCEPT ![o] = "sent"]
  /\ UNCHANGED <<config, rowVars, accountVars, grantVars, credited>>

\* The ledger (external) executes or refuses the transfer, whether or not the
\* canister still waits for the answer.
LedgerDecides(o) ==
  /\ transfer[o] = "sent"
  /\ \E answer \in {"moved", "refused"} : transfer' = [transfer EXCEPT ![o] = answer]
  /\ UNCHANGED <<config, rowVars, accountVars, grantVars, op, saga, credited>>

Resumes(o) ==
  /\ saga[o] = "awaiting"
  /\ op[o].status = "in_flight"
  /\ saga' = [saga EXCEPT ![o] = "returned"]

PurchaseCompleted_OnAnyAnswer(o) ==
  LET d == op[o].database IN
  /\ transfer[o] \in {"moved", "refused"}
  /\ Resumes(o)
  /\ Exists(d) /\ FitsBalance(d, op[o].cycles)
  /\ \E m \in MountIds : StageMount(d, m)
  /\ CreditAndActivate(d, op[o].cycles)
  /\ op' = [op EXCEPT ![o] = NoOp]
  /\ credited' = [credited EXCEPT ![o] = @ + 1]
  /\ UNCHANGED <<config, owners, grantVars, transfer>>

\* Ok(block) or Duplicate from the ledger: the operation is completed, the
\* database activated, the purchase applied and the operation deleted.
PurchaseCompleted(o) ==
  LET d == op[o].database IN
  /\ transfer[o] = "moved"
  /\ Resumes(o)
  /\ Exists(d) /\ FitsBalance(d, op[o].cycles)
  /\ \E m \in MountIds : StageMount(d, m)
  /\ CreditAndActivate(d, op[o].cycles)
  /\ op' = [op EXCEPT ![o] = NoOp]
  /\ credited' = [credited EXCEPT ![o] = @ + 1]
  /\ UNCHANGED <<config, owners, grantVars, transfer>>

\* The transfer is recorded as completed but activation or application fails
\* (no mount left, migration, overflow, storage): no credit, kept for review.
PurchaseNotApplied(o) ==
  LET d == op[o].database IN
  /\ transfer[o] = "moved"
  /\ Resumes(o)
  /\ Exists(d)
  /\ \/ UNCHANGED <<mount, history>>
     \/ status[d] = "pending" /\ \E m \in MountIds : StageMount(d, m)
  /\ op' = [op EXCEPT ![o] = WithStatus(o, "completed")]
  /\ UNCHANGED <<config, status, aged, owners, accountVars, grantVars, transfer, credited>>

\* BadFee or another explicit ledger error: cancel_database_cycles_purchase.
PurchaseRefused(o) ==
  /\ transfer[o] = "refused"
  /\ Resumes(o)
  /\ op' = [op EXCEPT ![o] = NoOp]
  /\ UNCHANGED <<config, rowVars, accountVars, grantVars, transfer, credited>>

\* The bounded-wait call fails or its reply does not decode: nobody knows what
\* the ledger did or will do.
PurchaseAmbiguous_Cancelled(o) ==
  /\ Resumes(o)
  /\ op' = [op EXCEPT ![o] = NoOp]
  /\ UNCHANGED <<config, rowVars, accountVars, grantVars, transfer, credited>>

PurchaseAmbiguous(o) ==
  /\ Resumes(o)
  /\ op' = [op EXCEPT ![o] = WithStatus(o, "ambiguous")]
  /\ UNCHANGED <<config, rowVars, accountVars, grantVars, transfer, credited>>

\* The rest of the call is lost: its callback traps and is rolled back, or the
\* cancel or the ambiguous mark itself fails.
PurchaseAbandoned(o) ==
  /\ Resumes(o)
  /\ UNCHANGED <<config, rowVars, accountVars, grantVars, op, transfer, credited>>

-----------------------------------------------------------------------------
(* App Store grants, metered updates, configuration                        *)

IapUnused_PerDatabase(p, d) == iapGrants[p] # d

\* database_iap_cycle_grants is unique in (provider, external_payment_id).
IapUnused(p, d) == iapGrants[p] = NoDatabase

\* grant_database_cycles_from_iap.  A payment id that was granted before only
\* reads the recorded grant.
IapGrant(p, d, amount) ==
  /\ IapUnused(p, d)
  /\ Exists(d) /\ FitsBalance(d, amount)
  /\ \E m \in MountIds : StageMount(d, m)
  /\ CreditAndActivate(d, amount)
  /\ iapGrants' = [iapGrants EXCEPT ![p] = d]
  /\ iapCredits' = [iapCredits EXCEPT ![p] = @ + 1]
  /\ UNCHANGED <<config, owners, freeGrants, freeCredits, opVars>>

\* The same call fails after the activation mount was staged.
IapActivationFails(p, d) ==
  /\ IapUnused(p, d)
  /\ status[d] = "pending"
  /\ \E m \in MountIds : StageMount(d, m)
  /\ UNCHANGED <<config, status, aged, owners, accountVars, grantVars, opVars>>

Minimum(a, b) == IF a <= b THEN a ELSE b

Paid_Unclamped(d, charge) == charge

\* apply_database_update_charge: an update is never charged more than there is.
Paid(d, charge) == Minimum(balance[d], charge)

BookedCharge_Computed(d, charge) == charge

BookedCharge(d, charge) == Paid(d, charge)

\* prepare_metered_update admits the call, charge_database_update follows it in
\* the same message (a failing charge traps and undoes both).
Metered(d, charge) ==
  LET left == balance[d] - Paid(d, charge) IN
  /\ Exists(d) /\ ~suspended[d] /\ balance[d] >= config.min
  /\ balance' = [balance EXCEPT ![d] = left]
  /\ suspended' = [suspended EXCEPT ![d] = left < config.min]
  /\ booked' = [booked EXCEPT ![d] = @ - BookedCharge(d, charge)]

\* A content mutation (write_node and the like) that succeeded.
MeteredUpdate(d, charge) ==
  /\ status[d] = "active"
  /\ Metered(d, charge)
  /\ UNCHANGED <<config, rowVars, grantVars, opVars>>

\* settle_database_storage_charge_in_tx for one active database whose interval
\* has elapsed: what is missing is forgiven, and the database suspended.
StorageCharge(d, charge) ==
  LET left == balance[d] - Paid(d, charge) IN
  /\ status[d] = "active"
  /\ balance' = [balance EXCEPT ![d] = left]
  /\ suspended' = [suspended EXCEPT ![d] = balance[d] < charge \/ left < config.min]
  /\ booked' = [booked EXCEPT ![d] = @ - BookedCharge(d, charge)]
  /\ UNCHANGED <<config, rowVars, grantVars, opVars>>

\* update_cycles_billing_config by the billing authority.
UpdateConfig(c) ==
  /\ c # config
  /\ config' = c
  /\ UNCHANGED <<rowVars, accountVars, grantVars, opVars>>

-----------------------------------------------------------------------------
(* Access and deletion                                                     *)

\* grant_database_access with role owner: a metered update.
GrantOwner(c, d, p, charge) ==
  /\ c \in owners[d] /\ p \notin owners[d]
  /\ Metered(d, charge)
  /\ owners' = [owners EXCEPT ![d] = @ \union {p}]
  /\ UNCHANGED <<config, status, mount, history, aged, grantVars, opVars>>

MayRemove_Anybody(c, p) == TRUE

\* An owner neither downgrades nor revokes the own access.
MayRemove(c, p) == c # p

\* grant_database_access with a lesser role takes the owner role from p.
DowngradeOwner(c, d, p, charge) ==
  /\ c \in owners[d] /\ p \in owners[d]
  /\ MayRemove(c, p)
  /\ Metered(d, charge)
  /\ owners' = [owners EXCEPT ![d] = @ \ {p}]
  /\ UNCHANGED <<config, status, mount, history, aged, grantVars, opVars>>

\* revoke_database_access: unmetered, for active databases only.
RevokeOwner(c, d, p) ==
  /\ status[d] = "active"
  /\ c \in owners[d] /\ p \in owners[d]
  /\ MayRemove(c, p)
  /\ owners' = [owners EXCEPT ![d] = @ \ {p}]
  /\ UNCHANGED <<config, status, mount, history, aged, accountVars, grantVars, opVars>>

Removed(S) ==
  /\ status' = [d \in Databases |-> IF d \in S THEN "deleted" ELSE status[d]]
  /\ suspended' = [d \in Databases |-> d \notin S /\ suspended[d]]
  /\ DropRows(S)

NoPendingOperations_InFlight(d) == \A o \in OpsOf(d) : op[o].status # "in_flight"

\* require_no_pending_cycles_operations
NoPendingOperations(d) == OpsOf(d) = {}

\* delete_database
DeleteDatabase(c, d) ==
  /\ Exists(d) /\ c \in owners[d]
  /\ NoPendingOperations(d)
  /\ Removed({d})
  /\ owners' = [owners EXCEPT ![d] = {}]
  /\ booked' = [booked EXCEPT ![d] = 0]

\* load_sole_owned_databases
SoleOwned(c) == {d \in Databases : Exists(d) /\ owners[d] = {c}}

\* require_no_account_deletion_pending_operations
AccountIsQuiet(c) ==
  \A o \in Operations : op[o].status # "absent" =>
    op[o].caller # c /\ op[o].database \notin SoleOwned(c)

\* Every solely owned database goes, its ledger rows kept, then the memberships.
DeletionEnds(c) ==
  /\ \E d \in Databases : c \in owners[d]
  /\ Removed(SoleOwned(c))
  /\ owners' = [d \in Databases |-> IF d \in SoleOwned(c) THEN {} ELSE owners[d] \ {c}]

\* One of them cannot be deleted: the ones before it are gone, the memberships
\* stay.
DeletionStops(c) ==
  \E S \in SUBSET SoleOwned(c) :
    /\ S # {} /\ S # SoleOwned(c)
    /\ Removed(S)
    /\ owners' = [d \in Databases |-> IF d \in S THEN {} ELSE owners[d]]

\* delete_account
DeleteAccount(c) ==
  /\ AccountIsQuiet(c)
  /\ DeletionEnds(c) \/ DeletionStops(c)
  /\ UNCHANGED booked

-----------------------------------------------------------------------------

\* A principal in freeGrants used the grant on a database that is gone.
Init ==
  /\ config \in Configs
  /\ status = [d \in Databases |-> "unused"]
  /\ mount = [d \in Databases |-> 0]
  /\ history = [m \in MountIds |-> NoDatabase]
  /\ aged = {}
  /\ owners = [d \in Databases |-> {}]
  /\ balance = [d \in Databases |-> 0]
  /\ suspended = [d \in Databases |-> FALSE]
  /\ booked = [d \in Databases |-> 0]
  /\ freeGrants \in SUBSET Principals
  /\ iapGrants = [p \in PaymentIds |-> NoDatabase]
  /\ op = [o \in Operations |-> NoOp]
  /\ saga = [o \in Operations |-> "unused"]
  /\ transfer = [o \in Operations |-> "none"]
  /\ credited = [o \in Operations |-> 0]
  /\ iapCredits = [p \in PaymentIds |-> 0]
  /\ freeCredits = [c \in Principals |-> IF c \in freeGrants THEN 1 ELSE 0]

PurchaseStep(o) ==
  \/ \E c \in Principals, d \in Databases, payment \in Payments : BeginPurchase(o, c, d, payment)
  \/ LedgerDecides(o)
  \/ PurchaseCompleted(o)
  \/ PurchaseNotApplied(o)
  \/ PurchaseRefused(o)
  \/ PurchaseAmbiguous(o)
  \/ PurchaseAbandoned(o)

DatabaseStep(c, d) ==
  \/ CreateWithFreeGrant(c, d)
  \/ CreateKeepsReservation(c, d)
  \/ CreatePending(c, d)
  \/ DeleteDatabase(c, d)

AccessStep(c, d, p) ==
  \/ \E charge \in Charges : GrantOwner(c, d, p, charge)
  \/ \E charge \in Charges : DowngradeOwner(c, d, p, charge)
  \/ RevokeOwner(c, d, p)

AccountStep(c) ==
  \/ CreateLosesGrant(c)
  \/ DeleteAccount(c)

CreditStep(d) ==
  \/ PendingExpires(d)
  \/ \E p \in PaymentIds, amount \in IapAmounts : IapGrant(p, d, amount)
  \/ \E p \in PaymentIds : IapActivationFails(p, d)
  \/ \E charge \in Charges : MeteredUpdate(d, charge)
  \/ \E charge \in Charges : StorageCharge(d, charge)

Next ==
  \/ \E o \in Operations : PurchaseStep(o)
  \/ \E c \in Principals, d \in Databases : DatabaseStep(c, d)
  \/ \E c, p \in Principals, d \in Databases : AccessStep(c, d, p)
  \/ \E c \in Principals : AccountStep(c)
  \/ \E d \in Databases : CreditStep(d)
  \/ \E c \in Configs : UpdateConfig(c)

Spec == Init /\ [][Next]_vars

-----------------------------------------------------------------------------
(* Properties                                                              *)

\* The tables hold what their columns allow: balances are naturals up to the
\* i64 limit, though charges are applied after the update they pay for.
TypeOK ==
  /\ config \in Configs
  /\ status \in [Databases -> {"unused", "pending", "active", "deleted"}]
  /\ mount \in [Databases -> 0..MaxMountId]
  /\ history \in [MountIds -> Databases \union {NoDatabase}]
  /\ aged \in SUBSET Databases
  /\ owners \in [Databases -> SUBSET Principals]
  /\ balance \in [Databases -> 0..MaxBalance]
  /\ suspended \in [Databases -> BOOLEAN]
  /\ booked \in [Databases -> Int]
  /\ freeGrants \in SUBSET Principals
  /\ iapGrants \in [PaymentIds -> Databases \union {NoDatabase}]
  /\ op \in [Operations -> [status : {"absent", "in_flight", "completed", "ambiguous"},
                            database : Databases \union {NoDatabase},
                            caller : Principals \union {NoPrincipal},
                            cycles : Nat]]
  /\ saga \in [Operations -> {"unused", "awaiting", "returned"}]
  /\ transfer \in [Operations -> {"none", "sent", "moved", "refused"}]
  /\ credited \in [Operations -> Nat]
  /\ iapCredits \in [PaymentIds -> Nat]
  /\ freeCredits \in [Principals -> Nat]

\* A payment the ledger executed, at whatever moment and whoever deleted what
\* meanwhile, was credited or its pending operation is still there for review
\* (mark_database_cycles_purchase_ambiguous, delete_database, delete_account,
\* the purge of expired reservations).
PaymentNeverLost ==
  \A o \in Operations : transfer[o] = "moved" => credited[o] = 1 \/ op[o].status # "absent"

\* No cycles for an unpaid purchase, none twice, and no operation left to be
\* applied again once it was (apply_database_cycles_purchase deletes it).
CreditOnlyForPayment ==
  \A o \in Operations :
    /\ credited[o] <= 1
    /\ credited[o] = 1 => transfer[o] = "moved" /\ op[o].status = "absent"

\* While purchase_database_cycles waits for the ledger nothing takes away what
\* its callback needs: the in_flight operation and the row of its database.
AwaitedPurchaseIntact ==
  \A o \in Operations : saga[o] = "awaiting" =>
    op[o].status = "in_flight" /\ Exists(op[o].database)

\* The balance is the sum of the amounts in database_cycle_ledger, clamped
\* charges and forgiven storage included.
BalanceIsLedgerSum ==
  \A d \in Databases : Exists(d) => balance[d] = booked[d]

\* A pending database holds no cycles and is suspended, so that no metered
\* update (grant_database_access, whose guard asks for no status, included)
\* reaches a database without a mounted store.
PendingIsUnfunded ==
  \A d \in Databases : status[d] = "pending" => balance[d] = 0 /\ suspended[d]

\* An active database has a mount, the history records it for that database,
\* and no two rows share one.
MountsExclusive ==
  \A d \in Databases : Exists(d) =>
    /\ status[d] = "active" => mount[d] # 0
    /\ mount[d] # 0 => history[mount[d]] = d

\* delete_database, delete_account and the purge never give a mount back: the
\* next database would open the store of the previous one.
MountNeverReassigned ==
  [][\A m \in MountIds : history[m] # NoDatabase => history'[m] = history[m]]_vars

\* No sequence of grants, downgrades, revocations and account deletions leaves
\* a database without an owner.
OwnedDatabases == \A d \in Databases : Exists(d) => owners[d] # {}

\* An App Store transaction is credited once, whatever database it names.
IapCreditedOnce == \A p \in PaymentIds : iapCredits[p] <= 1

\* A principal is credited the initial free grant once, also after deleting
\* the database it paid for.
FreeGrantOnce == \A c \in Principals : freeCredits[c] <= 1

\* docs/DB_LIFECYCLE.md: a pending database has no stable-memory mount id.
PendingHasNoMount == \A d \in Databases : status[d] = "pending" => mount[d] = 0

\* The payer's view of a purchase.
PurchasePhase(o) ==
  IF op[o].status # "absent" THEN "open"
  ELSE IF credited[o] > 0 THEN "settled"
  ELSE IF saga[o] = "unused" THEN "new" ELSE "void"

Promise == INSTANCE PaymentPromise WITH
  phase <- [o \in Operations |-> PurchasePhase(o)],
  paid  <- {o \in Operations : transfer[o] = "moved"}

\* purchase_database_cycles keeps the promise of PaymentPromise: in particular
\* a purchase is closed without credit only if its payment never moves later.
KeepsPromise == Promise!PromiseSpec

=============================================================================
