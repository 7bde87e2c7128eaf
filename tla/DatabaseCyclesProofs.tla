------------------------- MODULE DatabaseCyclesProofs -------------------------
(* Theorems about DatabaseCycles, for any number of databases, principals, *)
(* purchases and mounts and any configuration.                             *)
EXTENDS DatabaseCycles, TLAPS

-----------------------------------------------------------------------------
(* The inductive invariant                                                 *)

\* How far the ledger and the canister are with one operation.  Unlike
\* PaymentNeverLost it also keeps the operation of a transfer that is still on
\* its way, which the ledger may execute after everybody stopped waiting.
OperationInv ==
  \A o \in Operations :
    /\ op[o].status # "absent" =>
         /\ op[o].database \in Databases
         /\ Exists(op[o].database)
         /\ saga[o] # "unused"
         /\ credited[o] = 0
    /\ saga[o] = "unused" => transfer[o] = "none" /\ credited[o] = 0
    /\ saga[o] = "awaiting" => op[o].status = "in_flight"
    /\ transfer[o] = "none" => saga[o] = "unused"
    /\ transfer[o] \in {"sent", "moved"} => credited[o] = 1 \/ op[o].status # "absent"
    /\ credited[o] \in {0, 1}
    /\ credited[o] = 1 => transfer[o] = "moved"

\* Ids that no row was ever created for hold nothing.
UnusedInv ==
  \A d \in Databases : status[d] = "unused" => balance[d] = 0 /\ booked[d] = 0 /\ mount[d] = 0

\* What the rows of a database say together.
RowInv ==
  UnusedInv /\ BalanceIsLedgerSum /\ PendingIsUnfunded /\ MountsExclusive /\ OwnedDatabases

IInv == TypeOK /\ OperationInv

-----------------------------------------------------------------------------
(* Operators                                                               *)

\* A charge takes at most what is there.
LEMMA PaidBounds ==
  ASSUME TypeOK, NEW d \in Databases, NEW charge \in Charges
  PROVE  /\ Paid(d, charge) \in Nat
         /\ Paid(d, charge) <= balance[d]
         /\ BookedCharge(d, charge) = Paid(d, charge)
  BY ConstantsAssumption DEF TypeOK, Paid, Minimum, BookedCharge

\* What a payment buys is an integer: the division rounds down.
LEMMA CyclesAreIntegers ==
  ASSUME TypeOK, NEW payment \in Payments
  PROVE  CyclesForPayment(payment) \in Int
<1>1. payment \in Nat /\ config.rate \in Nat /\ BaseUnits \in Nat \ {0}
  BY ConstantsAssumption DEF TypeOK
<1>2. payment * config.rate \in Int
  BY <1>1
<1> QED
  BY <1>1, <1>2 DEF CyclesForPayment

\* The operations of a database that DropRows may take away are none, so the
\* table of operations changes only where it was empty.
LEMMA DropRowsKeepsOperations ==
  ASSUME TypeOK, OperationInv, NEW S \in SUBSET Databases,
         \A d \in S : OpsOf(d) = {}, DropRows(S)
  PROVE  /\ op' \in [Operations -> [status : {"absent", "in_flight", "completed", "ambiguous"},
                                    database : Databases \union {NoDatabase},
                                    caller : Principals \union {NoPrincipal},
                                    cycles : Nat]]
         /\ \A o \in Operations : op'[o].status = op[o].status
         /\ \A o \in Operations : op[o].status # "absent" =>
              op'[o] = op[o] /\ op[o].database \notin S
<1>1. \A o \in Operations : op[o].status # "absent" => op[o].database \notin S
  BY DEF OpsOf
<1>2. \A o \in Operations : op'[o] = IF op[o].database \in S THEN NoOp ELSE op[o]
  BY DEF DropRows
<1>3. NoOp \in [status : {"absent", "in_flight", "completed", "ambiguous"},
                database : Databases \union {NoDatabase},
                caller : Principals \union {NoPrincipal},
                cycles : Nat] /\ NoOp.status = "absent"
  BY DEF NoOp
<1>4. op' = [o \in Operations |-> IF op[o].database \in S THEN NoOp ELSE op[o]]
  BY DEF DropRows
<1> QED
  BY <1>1, <1>2, <1>3, <1>4 DEF TypeOK

-----------------------------------------------------------------------------
(* TypeOK is preserved                                                     *)

\* Every initial state has the types, and no operation exists yet.
LEMMA InitIInv == Init => IInv
  BY ConstantsAssumption DEF Init, IInv, TypeOK, OperationInv, NoOp, MountIds, Exists

\* What CreditAndActivate and StageMount do to the types.
LEMMA CreditTypes ==
  ASSUME TypeOK, NEW d \in Databases, NEW cycles \in Nat, FitsBalance(d, cycles),
         NEW m \in MountIds, StageMount(d, m), CreditAndActivate(d, cycles)
  PROVE  /\ status' \in [Databases -> {"unused", "pending", "active", "deleted"}]
         /\ mount' \in [Databases -> 0..MaxMountId]
         /\ history' \in [MountIds -> Databases \union {NoDatabase}]
         /\ aged' \in SUBSET Databases
         /\ balance' \in [Databases -> 0..MaxBalance]
         /\ suspended' \in [Databases -> BOOLEAN]
         /\ booked' \in [Databases -> Int]
<1>1. config.min \in Nat /\ MaxBalance \in Nat /\ MaxMountId \in Nat /\ m \in 0..MaxMountId
  BY ConstantsAssumption DEF TypeOK, MountIds
<1>2. balance[d] + cycles \in 0..MaxBalance
  BY <1>1 DEF TypeOK, FitsBalance
<1>3. (balance[d] + cycles < config.min) \in BOOLEAN
  OBVIOUS
<1> QED
  BY <1>1, <1>2, <1>3 DEF TypeOK, StageMount, CreditAndActivate

\* A metered update (prepare_metered_update and its charge) keeps the types.
LEMMA MeteredTypes ==
  ASSUME TypeOK, NEW d \in Databases, NEW charge \in Charges, Metered(d, charge)
  PROVE  /\ balance' \in [Databases -> 0..MaxBalance]
         /\ suspended' \in [Databases -> BOOLEAN]
         /\ booked' \in [Databases -> Int]
<1>1. /\ balance[d] - Paid(d, charge) \in 0..MaxBalance
      /\ booked[d] - BookedCharge(d, charge) \in Int
  BY PaidBounds, ConstantsAssumption DEF TypeOK
<1>2. (balance[d] - Paid(d, charge) < config.min) \in BOOLEAN
  OBVIOUS
<1> QED
  BY <1>1, <1>2 DEF TypeOK, Metered

\* Removing the rows of some databases keeps the types.
LEMMA RemovedTypes ==
  ASSUME TypeOK, OperationInv, NEW S \in SUBSET Databases,
         \A d \in S : OpsOf(d) = {}, Removed(S),
         owners' \in [Databases -> SUBSET Principals], booked' \in [Databases -> Int]
  PROVE  TypeOK'
<1>1. op' \in [Operations -> [status : {"absent", "in_flight", "completed", "ambiguous"},
                             database : Databases \union {NoDatabase},
                             caller : Principals \union {NoPrincipal},
                             cycles : Nat]]
  BY DropRowsKeepsOperations DEF Removed
<1>2. 0 \in 0..MaxBalance /\ 0 \in 0..MaxMountId
  BY ConstantsAssumption
<1>3. \A d \in Databases : (d \notin S /\ suspended[d]) \in BOOLEAN
  OBVIOUS
<1>4. /\ mount' \in [Databases -> 0..MaxMountId]
      /\ balance' \in [Databases -> 0..MaxBalance]
      /\ aged' \in SUBSET Databases
  BY <1>2 DEF TypeOK, Removed, DropRows
<1>5. /\ status' \in [Databases -> {"unused", "pending", "active", "deleted"}]
      /\ suspended' \in [Databases -> BOOLEAN]
  BY <1>3 DEF TypeOK, Removed
<1> QED
  BY <1>1, <1>4, <1>5 DEF TypeOK, Removed, DropRows, grantVars, MountIds

\* The databases that delete_account, delete_database and the purge remove
\* have no operation.
LEMMA QuietDatabases ==
  ASSUME NEW c \in Principals, AccountIsQuiet(c)
  PROVE  \A d \in SoleOwned(c) : d \in Databases /\ OpsOf(d) = {}
  BY DEF AccountIsQuiet, SoleOwned, OpsOf

\* Every message of the canister keeps TypeOK, given OperationInv.
LEMMA TypeStep ==
  ASSUME IInv, [Next]_vars
  PROVE  TypeOK'
<1> USE DEF IInv, vars, rowVars, accountVars, grantVars, opVars
<1>1. CASE UNCHANGED vars
  BY <1>1 DEF TypeOK, MountIds
<1>2. ASSUME NEW o \in Operations, PurchaseStep(o)
      PROVE  TypeOK'
  <2> DEFINE d == op[o].database
  <2>0. op[o].status # "absent" => d \in Databases /\ op[o].cycles \in Nat
    BY DEF OperationInv, TypeOK
  <2>1. ASSUME NEW c \in Principals, NEW e \in Databases, NEW payment \in Payments,
               BeginPurchase(o, c, e, payment)
        PROVE  TypeOK'
    <3>1. CyclesForPayment(payment) \in Nat
      BY <2>1, CyclesAreIntegers DEF BeginPurchase
    <3> QED
      BY <2>1, <3>1 DEF BeginPurchase, TypeOK, MountIds
  <2>2. CASE LedgerDecides(o)
    BY <2>2 DEF LedgerDecides, TypeOK, MountIds
  <2>3. CASE PurchaseCompleted(o)
    <3>1. d \in Databases /\ op[o].cycles \in Nat
      BY <2>0, <2>3 DEF PurchaseCompleted, Resumes
    <3>2. PICK m \in MountIds : StageMount(d, m)
      BY <2>3 DEF PurchaseCompleted
    <3>3. FitsBalance(d, op[o].cycles) /\ CreditAndActivate(d, op[o].cycles)
      BY <2>3 DEF PurchaseCompleted
    <3>4. /\ op' = [op EXCEPT ![o] = NoOp]
          /\ credited' = [credited EXCEPT ![o] = @ + 1]
          /\ saga' = [saga EXCEPT ![o] = "returned"]
          /\ UNCHANGED <<config, owners, grantVars, transfer>>
      BY <2>3 DEF PurchaseCompleted, Resumes
    <3>5. /\ op' \in [Operations -> [status : {"absent", "in_flight", "completed", "ambiguous"},
                                     database : Databases \union {NoDatabase},
                                     caller : Principals \union {NoPrincipal},
                                     cycles : Nat]]
          /\ credited' \in [Operations -> Nat]
          /\ saga' \in [Operations -> {"unused", "awaiting", "returned"}]
      BY <3>4 DEF TypeOK, NoOp
    <3> QED
      BY <3>1, <3>2, <3>3, <3>4, <3>5, CreditTypes DEF TypeOK
  <2>4. CASE PurchaseNotApplied(o)
    <3>1. d \in Databases
      BY <2>0, <2>4 DEF PurchaseNotApplied, Resumes
    <3>2. UNCHANGED <<mount, history>> \/ \E m \in MountIds : StageMount(d, m)
      BY <2>4 DEF PurchaseNotApplied
    <3>3. ASSUME NEW m \in MountIds, StageMount(d, m)
          PROVE  /\ mount' \in [Databases -> 0..MaxMountId]
                 /\ history' \in [MountIds -> Databases \union {NoDatabase}]
      <4>1. m \in 0..MaxMountId
        BY ConstantsAssumption DEF MountIds
      <4> QED
        BY <3>1, <3>3, <4>1 DEF StageMount, TypeOK
    <3>4. op' = [op EXCEPT ![o] = WithStatus(o, "completed")]
      BY <2>4 DEF PurchaseNotApplied
    <3>5. WithStatus(o, "completed") \in
            [status : {"absent", "in_flight", "completed", "ambiguous"},
             database : Databases \union {NoDatabase},
             caller : Principals \union {NoPrincipal},
             cycles : Nat]
      BY DEF WithStatus, TypeOK
    <3> HIDE DEF d
    <3> QED
      BY <2>4, <3>2, <3>3, <3>4, <3>5 DEF PurchaseNotApplied, Resumes, TypeOK
  <2>5. CASE PurchaseRefused(o)
    BY <2>5 DEF PurchaseRefused, Resumes, TypeOK, NoOp, MountIds
  <2>6. CASE PurchaseAmbiguous(o)
    BY <2>6 DEF PurchaseAmbiguous, Resumes, WithStatus, TypeOK, MountIds
  <2>7. CASE PurchaseAbandoned(o)
    BY <2>7 DEF PurchaseAbandoned, Resumes, TypeOK, MountIds
  <2> QED
    BY <1>2, <2>1, <2>2, <2>3, <2>4, <2>5, <2>6, <2>7 DEF PurchaseStep
<1>3. ASSUME NEW c \in Principals, NEW d \in Databases, DatabaseStep(c, d)
      PROVE  TypeOK'
  <2>1. ASSUME InsertReservation(c, d), freeGrants' \in SUBSET Principals
        PROVE  TypeOK'
    BY <2>1, ConstantsAssumption DEF InsertReservation, TypeOK, MountIds
  <2>2. CASE CreatePending(c, d)
    <3> DEFINE purged == {e \in Databases : Purgeable(c, e)}
    <3>1. op' \in [Operations -> [status : {"absent", "in_flight", "completed", "ambiguous"},
                                 database : Databases \union {NoDatabase},
                                 caller : Principals \union {NoPrincipal},
                                 cycles : Nat]]
      BY <2>2, DropRowsKeepsOperations DEF CreatePending, Purgeable
    <3>2. 0 \in 0..MaxBalance /\ 0 \in 0..MaxMountId
      BY ConstantsAssumption
    <3>3. DropRows(purged)
      BY <2>2 DEF CreatePending
    <3>4. /\ mount' \in [Databases -> 0..MaxMountId]
          /\ balance' \in [Databases -> 0..MaxBalance]
          /\ aged' \in SUBSET Databases
      BY <3>2, <3>3 DEF TypeOK, DropRows
    <3>5. \A e \in Databases : (e = d \/ (e \notin purged /\ suspended[e])) \in BOOLEAN
      OBVIOUS
    <3>6. suspended' \in [Databases -> BOOLEAN]
      BY <2>2, <3>5 DEF CreatePending
    <3>7. /\ status' \in [Databases -> {"unused", "pending", "active", "deleted"}]
          /\ owners' \in [Databases -> SUBSET Principals]
          /\ booked' \in [Databases -> Int]
      BY <2>2 DEF CreatePending, TypeOK
    <3> QED
      BY <3>1, <3>3, <3>4, <3>6, <3>7 DEF DropRows, TypeOK
  <2>3. CASE DeleteDatabase(c, d)
    <3>1. /\ owners' \in [Databases -> SUBSET Principals]
          /\ booked' \in [Databases -> Int]
      BY <2>3 DEF DeleteDatabase, TypeOK
    <3> QED
      BY <2>3, <3>1, RemovedTypes DEF DeleteDatabase, NoPendingOperations
  <2> QED
    BY <1>3, <2>1, <2>2, <2>3
    DEF DatabaseStep, CreateWithFreeGrant, CreateKeepsReservation, TypeOK
<1>4. ASSUME NEW c \in Principals, NEW p \in Principals, NEW d \in Databases,
             AccessStep(c, d, p)
      PROVE  TypeOK'
  <2>1. ASSUME NEW charge \in Charges, GrantOwner(c, d, p, charge) \/ DowngradeOwner(c, d, p, charge)
        PROVE  TypeOK'
    <3>1. Metered(d, charge)
      BY <2>1 DEF GrantOwner, DowngradeOwner
    <3>2. owners' \in [Databases -> SUBSET Principals]
      BY <2>1 DEF GrantOwner, DowngradeOwner, TypeOK
    <3>3. UNCHANGED <<config, status, mount, history, aged, grantVars, opVars>>
      BY <2>1 DEF GrantOwner, DowngradeOwner
    <3> QED
      BY <3>1, <3>2, <3>3, MeteredTypes DEF TypeOK
  <2>2. CASE RevokeOwner(c, d, p)
    BY <2>2 DEF RevokeOwner, TypeOK
  <2> QED
    BY <1>4, <2>1, <2>2 DEF AccessStep
<1>5. ASSUME NEW c \in Principals, AccountStep(c)
      PROVE  TypeOK'
  <2>1. CASE CreateLosesGrant(c)
    BY <2>1 DEF CreateLosesGrant, TypeOK
  <2>2. CASE DeleteAccount(c) /\ DeletionEnds(c)
    <3>1. /\ owners' \in [Databases -> SUBSET Principals]
          /\ booked' \in [Databases -> Int]
      BY <2>2 DEF DeleteAccount, DeletionEnds, TypeOK
    <3>2. SoleOwned(c) \in SUBSET Databases
      BY DEF SoleOwned
    <3> QED
      BY <2>2, <3>1, <3>2, QuietDatabases, RemovedTypes DEF DeleteAccount, DeletionEnds
  <2>3. CASE DeleteAccount(c) /\ DeletionStops(c)
    <3>1. PICK S \in SUBSET SoleOwned(c) :
            /\ Removed(S)
            /\ owners' = [d \in Databases |-> IF d \in S THEN {} ELSE owners[d]]
      BY <2>3 DEF DeleteAccount, DeletionStops
    <3>2. /\ owners' \in [Databases -> SUBSET Principals]
          /\ booked' \in [Databases -> Int]
      BY <2>3, <3>1 DEF DeleteAccount, DeletionStops, TypeOK
    <3>3. S \in SUBSET Databases
      BY DEF SoleOwned
    <3>4. \A d \in S : OpsOf(d) = {}
      BY <2>3, QuietDatabases DEF DeleteAccount, DeletionStops
    <3> QED
      BY <3>1, <3>2, <3>3, <3>4, RemovedTypes
  <2> QED
    BY <1>5, <2>1, <2>2, <2>3 DEF AccountStep, DeleteAccount
<1>6. ASSUME NEW d \in Databases, CreditStep(d)
      PROVE  TypeOK'
  <2>1. CASE PendingExpires(d)
    BY <2>1 DEF PendingExpires, TypeOK
  <2>2. ASSUME NEW p \in PaymentIds, NEW amount \in IapAmounts, IapGrant(p, d, amount)
        PROVE  TypeOK'
    <3>1. amount \in Nat
      BY ConstantsAssumption
    <3>2. PICK m \in MountIds : StageMount(d, m)
      BY <2>2 DEF IapGrant
    <3> QED
      BY <2>2, <3>1, <3>2, CreditTypes DEF IapGrant, TypeOK
  <2>3. ASSUME NEW p \in PaymentIds, IapActivationFails(p, d)
        PROVE  TypeOK'
    BY <2>3, ConstantsAssumption DEF IapActivationFails, StageMount, TypeOK, MountIds
  <2>4. ASSUME NEW charge \in Charges, MeteredUpdate(d, charge)
        PROVE  TypeOK'
    BY <2>4, MeteredTypes DEF MeteredUpdate, TypeOK
  <2>5. ASSUME NEW charge \in Charges, StorageCharge(d, charge)
        PROVE  TypeOK'
    <3>1. /\ balance[d] - Paid(d, charge) \in 0..MaxBalance
          /\ booked[d] - BookedCharge(d, charge) \in Int
      BY PaidBounds, ConstantsAssumption DEF TypeOK
    <3>2. (balance[d] < charge \/ balance[d] - Paid(d, charge) < config.min) \in BOOLEAN
      OBVIOUS
    <3> QED
      BY <2>5, <3>1, <3>2 DEF StorageCharge, TypeOK
  <2> QED
    BY <1>6, <2>1, <2>2, <2>3, <2>4, <2>5 DEF CreditStep
<1>7. ASSUME NEW c \in Configs, UpdateConfig(c)
      PROVE  TypeOK'
  BY <1>7 DEF UpdateConfig, TypeOK
<1> QED
  BY <1>1, <1>2, <1>3, <1>4, <1>5, <1>6, <1>7 DEF Next

-----------------------------------------------------------------------------
(* OperationInv is preserved                                               *)

\* Steps that touch no operation and remove no database.
LEMMA OperationFrame ==
  ASSUME OperationInv, UNCHANGED opVars, \A d \in Databases : Exists(d) => Exists(d)'
  PROVE  OperationInv'
  BY DEF OperationInv, opVars

\* Steps that remove databases without operations.
LEMMA OperationDrop ==
  ASSUME TypeOK, OperationInv, NEW S \in SUBSET Databases,
         \A d \in S : OpsOf(d) = {}, DropRows(S),
         \A d \in Databases \ S : Exists(d) => Exists(d)'
  PROVE  OperationInv'
<1>1. /\ \A o \in Operations : op'[o].status = op[o].status
      /\ \A o \in Operations : op[o].status # "absent" =>
           op'[o] = op[o] /\ op[o].database \notin S
  BY DropRowsKeepsOperations
<1>2. UNCHANGED <<saga, transfer, credited>>
  BY DEF DropRows
<1> QED
  BY <1>1, <1>2 DEF OperationInv

\* Every message keeps the link between operation, call, transfer and credit.
LEMMA OperationStep ==
  ASSUME IInv, [Next]_vars
  PROVE  OperationInv'
<1> USE DEF IInv, vars, rowVars, accountVars, grantVars, opVars
<1>1. CASE UNCHANGED vars
  BY <1>1, OperationFrame DEF Exists
<1>2. ASSUME NEW o \in Operations, PurchaseStep(o)
      PROVE  OperationInv'
  <2>1. ASSUME NEW c \in Principals, NEW d \in Databases, NEW payment \in Payments,
               BeginPurchase(o, c, d, payment)
        PROVE  OperationInv'
    BY <2>1 DEF BeginPurchase, OperationInv, TypeOK, Exists
  <2>2. CASE LedgerDecides(o)
    BY <2>2 DEF LedgerDecides, OperationInv, TypeOK, Exists
  <2>3. CASE PurchaseCompleted(o)
    <3>1. /\ op[o].status = "in_flight" /\ transfer[o] = "moved" /\ saga[o] = "awaiting"
          /\ op' = [op EXCEPT ![o] = NoOp]
          /\ credited' = [credited EXCEPT ![o] = @ + 1]
          /\ saga' = [saga EXCEPT ![o] = "returned"]
          /\ UNCHANGED transfer
      BY <2>3 DEF PurchaseCompleted, Resumes
    <3>2. \A e \in Databases : Exists(e) => Exists(e)'
      BY <2>3 DEF PurchaseCompleted, CreditAndActivate, TypeOK, Exists
    <3> QED
      BY <3>1, <3>2 DEF OperationInv, TypeOK, NoOp
  <2>4. CASE PurchaseNotApplied(o)
    BY <2>4 DEF PurchaseNotApplied, Resumes, WithStatus, OperationInv, TypeOK, Exists
  <2>5. CASE PurchaseRefused(o)
    BY <2>5 DEF PurchaseRefused, Resumes, OperationInv, TypeOK, NoOp, Exists
  <2>6. CASE PurchaseAmbiguous(o)
    BY <2>6 DEF PurchaseAmbiguous, Resumes, WithStatus, OperationInv, TypeOK, Exists
  <2>7. CASE PurchaseAbandoned(o)
    BY <2>7 DEF PurchaseAbandoned, Resumes, OperationInv, TypeOK, Exists
  <2> QED
    BY <1>2, <2>1, <2>2, <2>3, <2>4, <2>5, <2>6, <2>7 DEF PurchaseStep
<1>3. ASSUME NEW c \in Principals, NEW d \in Databases, DatabaseStep(c, d)
      PROVE  OperationInv'
  <2>1. CASE InsertReservation(c, d)
    <3>1. \A e \in Databases : Exists(e) => Exists(e)'
      BY <2>1 DEF InsertReservation, TypeOK, Exists
    <3> QED
      BY <2>1, <3>1, OperationFrame DEF InsertReservation
  <2>2. CASE CreatePending(c, d)
    <3> DEFINE purged == {e \in Databases : Purgeable(c, e)}
    <3>1. purged \in SUBSET Databases /\ \A e \in purged : OpsOf(e) = {}
      BY DEF Purgeable
    <3>2. DropRows(purged)
      BY <2>2 DEF CreatePending
    <3>3. \A e \in Databases \ purged : Exists(e) => Exists(e)'
      BY <2>2 DEF CreatePending, Exists
    <3> HIDE DEF purged
    <3> QED
      BY <3>1, <3>2, <3>3, OperationDrop
  <2>3. CASE DeleteDatabase(c, d)
    <3>1. DropRows({d}) /\ OpsOf(d) = {}
      BY <2>3 DEF DeleteDatabase, Removed, NoPendingOperations
    <3>2. \A e \in Databases \ {d} : Exists(e) => Exists(e)'
      BY <2>3 DEF DeleteDatabase, Removed, Exists
    <3> QED
      BY <3>1, <3>2, OperationDrop
  <2> QED
    BY <1>3, <2>1, <2>2, <2>3 DEF DatabaseStep, CreateWithFreeGrant, CreateKeepsReservation
<1>4. ASSUME NEW c \in Principals, NEW p \in Principals, NEW d \in Databases,
             AccessStep(c, d, p)
      PROVE  OperationInv'
  BY <1>4, OperationFrame DEF AccessStep, GrantOwner, DowngradeOwner, RevokeOwner, Exists
<1>5. ASSUME NEW c \in Principals, AccountStep(c)
      PROVE  OperationInv'
  <2>1. CASE CreateLosesGrant(c)
    BY <2>1, OperationFrame DEF CreateLosesGrant, Exists
  <2>2. ASSUME NEW S \in SUBSET SoleOwned(c), AccountIsQuiet(c), Removed(S)
        PROVE  OperationInv'
    <3>1. S \in SUBSET Databases /\ \A d \in S : OpsOf(d) = {}
      BY <2>2, QuietDatabases
    <3>2. DropRows(S) /\ \A e \in Databases \ S : Exists(e) => Exists(e)'
      BY <2>2 DEF Removed, Exists
    <3> QED
      BY <3>1, <3>2, OperationDrop
  <2> QED
    BY <1>5, <2>1, <2>2 DEF AccountStep, DeleteAccount, DeletionEnds, DeletionStops
<1>6. ASSUME NEW d \in Databases, CreditStep(d)
      PROVE  OperationInv'
  <2>1. UNCHANGED opVars
    BY <1>6 DEF CreditStep, PendingExpires, IapGrant, IapActivationFails, MeteredUpdate, StorageCharge
  <2>2. UNCHANGED status \/ status' = [status EXCEPT ![d] = "active"]
    BY <1>6 DEF CreditStep, PendingExpires, IapGrant, IapActivationFails, MeteredUpdate,
                StorageCharge, CreditAndActivate
  <2>3. \A e \in Databases : Exists(e) => Exists(e)'
    BY <2>2 DEF TypeOK, Exists
  <2> QED
    BY <2>1, <2>3, OperationFrame
<1>7. ASSUME NEW c \in Configs, UpdateConfig(c)
      PROVE  OperationInv'
  BY <1>7, OperationFrame DEF UpdateConfig, Exists
<1> QED
  BY <1>1, <1>2, <1>3, <1>4, <1>5, <1>6, <1>7 DEF Next

-----------------------------------------------------------------------------
(* RowInv is preserved                                                     *)

\* A mount that is being staged belongs to nobody else, and recording it never
\* overwrites the history.
LEMMA StagedMount ==
  ASSUME TypeOK, MountsExclusive, NEW d \in Databases, Exists(d),
         NEW m \in MountIds, StageMount(d, m)
  PROVE  /\ m # 0
         /\ history[m] \in {d, NoDatabase}
         /\ mount'[d] = m /\ history'[m] = d
         /\ \A e \in Databases \ {d} : Exists(e) =>
              mount'[e] = mount[e] /\ (mount[e] # 0 => history'[mount[e]] = e)
<1>1. m # 0 /\ MaxMountId \in Nat
  BY ConstantsAssumption DEF MountIds
<1>2. history[m] \in {d, NoDatabase}
  BY DEF StageMount, ActivationMount, LowestFreeMount, MountsExclusive
<1>3. mount' = [mount EXCEPT ![d] = m] /\ history' = [history EXCEPT ![m] = d]
  BY DEF StageMount
<1>4. mount'[d] = m /\ history'[m] = d
  BY <1>3 DEF TypeOK
<1>5. ASSUME NEW e \in Databases \ {d}, Exists(e), mount[e] # 0
      PROVE  history'[mount[e]] = e
  <2>1. mount[e] \in MountIds /\ history[mount[e]] = e
    BY <1>1, <1>5 DEF TypeOK, MountsExclusive, MountIds
  <2>2. mount[e] # m
    BY <1>2, <2>1, ConstantsAssumption
  <2> QED
    BY <1>3, <2>1, <2>2 DEF TypeOK
<1> QED
  BY <1>1, <1>2, <1>3, <1>4, <1>5 DEF TypeOK

\* A credit (purchase or App Store) keeps the account in step with the ledger.
LEMMA CreditRows ==
  ASSUME TypeOK, RowInv, NEW d \in Databases, Exists(d), NEW cycles \in Nat,
         NEW m \in MountIds, StageMount(d, m), CreditAndActivate(d, cycles), UNCHANGED owners
  PROVE  RowInv'
<1>1. MountsExclusive'
  BY StagedMount DEF RowInv, CreditAndActivate, MountsExclusive, Exists, TypeOK
<1>2. BalanceIsLedgerSum'
  BY DEF RowInv, CreditAndActivate, BalanceIsLedgerSum, Exists, TypeOK
<1>3. UnusedInv'
  BY DEF RowInv, CreditAndActivate, StageMount, UnusedInv, Exists, TypeOK
<1>4. PendingIsUnfunded'
  BY DEF RowInv, CreditAndActivate, PendingIsUnfunded, TypeOK
<1>5. OwnedDatabases'
  BY DEF RowInv, CreditAndActivate, OwnedDatabases, Exists, TypeOK
<1> QED
  BY <1>1, <1>2, <1>3, <1>4, <1>5 DEF RowInv

\* So does a charge, and it never reaches a pending database.
LEMMA ChargeRows ==
  ASSUME TypeOK, RowInv, NEW d \in Databases, Exists(d), status[d] # "pending",
         NEW charge \in Charges, NEW s \in BOOLEAN,
         balance' = [balance EXCEPT ![d] = @ - Paid(d, charge)],
         booked' = [booked EXCEPT ![d] = @ - BookedCharge(d, charge)],
         suspended' = [suspended EXCEPT ![d] = s],
         UNCHANGED <<status, mount, history>>, OwnedDatabases'
  PROVE  RowInv'
<1>1. BalanceIsLedgerSum'
  BY PaidBounds DEF RowInv, BalanceIsLedgerSum, Exists, TypeOK
<1>2. UnusedInv'
  BY DEF RowInv, UnusedInv, Exists, TypeOK
<1>3. PendingIsUnfunded'
  BY DEF RowInv, PendingIsUnfunded, TypeOK
<1>4. MountsExclusive'
  BY DEF RowInv, MountsExclusive, Exists
<1> QED
  BY <1>1, <1>2, <1>3, <1>4 DEF RowInv

\* A metered update keeps the rows in order: its guard excludes suspended
\* databases, and with them the pending ones.
LEMMA MeteredRows ==
  ASSUME TypeOK, RowInv, NEW d \in Databases, NEW charge \in Charges, Metered(d, charge),
         UNCHANGED <<status, mount, history>>, OwnedDatabases'
  PROVE  RowInv'
<1>1. Exists(d) /\ status[d] # "pending"
  BY DEF Metered, RowInv, PendingIsUnfunded
<1>2. (balance[d] - Paid(d, charge) < config.min) \in BOOLEAN
  OBVIOUS
<1>3. /\ balance' = [balance EXCEPT ![d] = @ - Paid(d, charge)]
      /\ booked' = [booked EXCEPT ![d] = @ - BookedCharge(d, charge)]
      /\ suspended' = [suspended EXCEPT ![d] = balance[d] - Paid(d, charge) < config.min]
  BY DEF Metered
<1> QED
  BY <1>1, <1>2, <1>3, ChargeRows

\* Removing rows leaves the rows of the other databases alone.
LEMMA RemovedRows ==
  ASSUME TypeOK, RowInv, NEW S \in SUBSET Databases, Removed(S),
         \A d \in Databases \ S : booked'[d] = booked[d],
         \A d \in S : status[d] # "unused",
         \A d \in Databases \ S : Exists(d) => owners'[d] # {}
  PROVE  RowInv'
<1>1. /\ \A d \in S : status'[d] = "deleted"
      /\ \A d \in Databases \ S : /\ status'[d] = status[d]
                                 /\ mount'[d] = mount[d]
                                 /\ balance'[d] = balance[d]
                                 /\ suspended'[d] = suspended[d]
      /\ UNCHANGED history
  BY DEF Removed, DropRows, TypeOK
<1> QED
  BY <1>1 DEF RowInv, UnusedInv, BalanceIsLedgerSum, PendingIsUnfunded, MountsExclusive,
              OwnedDatabases, Exists

\* No database has a row initially.
LEMMA InitRowInv == Init => RowInv
  BY DEF Init, RowInv, UnusedInv, BalanceIsLedgerSum, PendingIsUnfunded, MountsExclusive,
         OwnedDatabases, Exists

\* Every message keeps accounts, mounts and owners consistent.
LEMMA RowStep ==
  ASSUME IInv, RowInv, [Next]_vars
  PROVE  RowInv'
<1> USE DEF IInv, vars, rowVars, accountVars, grantVars, opVars
<1>0. ASSUME UNCHANGED <<status, mount, history, accountVars>>, OwnedDatabases'
      PROVE  RowInv'
  BY <1>0 DEF RowInv, UnusedInv, BalanceIsLedgerSum, PendingIsUnfunded, MountsExclusive, Exists
<1>00. ASSUME UNCHANGED <<status, owners>> PROVE OwnedDatabases'
  BY <1>00 DEF RowInv, OwnedDatabases, Exists
<1>000. ASSUME NEW d \in Databases, NEW m \in MountIds, status[d] = "pending", StageMount(d, m),
               UNCHANGED <<status, owners, accountVars>>
        PROVE  RowInv'
  <2>1. MountsExclusive'
    BY <1>000, StagedMount DEF RowInv, MountsExclusive, Exists
  <2>2. UnusedInv'
    BY <1>000 DEF RowInv, StageMount, UnusedInv, TypeOK
  <2> QED
    BY <1>000, <1>00, <2>1, <2>2 DEF RowInv, BalanceIsLedgerSum, PendingIsUnfunded, Exists
<1>1. CASE UNCHANGED vars
  BY <1>1, <1>0, <1>00
<1>2. ASSUME NEW o \in Operations, PurchaseStep(o)
      PROVE  RowInv'
  <2> DEFINE d == op[o].database
  <2>1. CASE PurchaseCompleted(o)
    <3>1. d \in Databases /\ op[o].cycles \in Nat /\ Exists(d)
      BY <2>1 DEF PurchaseCompleted, Resumes, OperationInv, TypeOK
    <3>2. PICK m \in MountIds : StageMount(d, m)
      BY <2>1 DEF PurchaseCompleted
    <3>3. CreditAndActivate(d, op[o].cycles) /\ UNCHANGED owners
      BY <2>1 DEF PurchaseCompleted
    <3> QED
      BY <3>1, <3>2, <3>3, CreditRows
  <2>2. CASE PurchaseNotApplied(o)
    <3>1. d \in Databases
      BY <2>2 DEF PurchaseNotApplied, Resumes, OperationInv
    <3>2. \/ UNCHANGED <<mount, history>>
          \/ status[d] = "pending" /\ \E m \in MountIds : StageMount(d, m)
      BY <2>2 DEF PurchaseNotApplied
    <3>3. UNCHANGED <<status, owners, accountVars>>
      BY <2>2 DEF PurchaseNotApplied
    <3> HIDE DEF d
    <3> QED
      BY <3>1, <3>2, <3>3, <1>0, <1>00, <1>000
  <2>3. CASE UNCHANGED <<rowVars, accountVars>>
    BY <2>3, <1>0, <1>00
  <2> QED
    BY <1>2, <2>1, <2>2, <2>3
    DEF PurchaseStep, BeginPurchase, LedgerDecides, PurchaseRefused, PurchaseAmbiguous, PurchaseAbandoned
<1>3. ASSUME NEW c \in Principals, NEW d \in Databases, DatabaseStep(c, d)
      PROVE  RowInv'
  <2>1. CASE InsertReservation(c, d)
    <3>1. PICK m \in MountIds :
            /\ history[m] = NoDatabase
            /\ mount' = [mount EXCEPT ![d] = m]
            /\ history' = [history EXCEPT ![m] = d]
      BY <2>1 DEF InsertReservation, LowestFreeMount
    <3>2. /\ status[d] = "unused"
          /\ status' = [status EXCEPT ![d] = "active"]
          /\ owners' = [owners EXCEPT ![d] = {c}]
          /\ balance' = [balance EXCEPT ![d] = GrantCycles]
          /\ suspended' = [suspended EXCEPT ![d] = FALSE]
          /\ booked' = [booked EXCEPT ![d] = GrantCycles]
      BY <2>1 DEF InsertReservation
    <3>3. MountsExclusive'
      <4>1. m # 0 /\ MaxMountId \in Nat
        BY ConstantsAssumption DEF MountIds
      <4>2. mount'[d] = m /\ history'[m] = d
        BY <3>1 DEF TypeOK
      <4>3. ASSUME NEW e \in Databases \ {d}, Exists(e)
            PROVE  /\ mount'[e] = mount[e]
                   /\ status[e] = "active" => mount[e] # 0
                   /\ mount[e] # 0 => history'[mount[e]] = e
        <5>1. mount[e] # 0 => mount[e] \in MountIds /\ history[mount[e]] = e
          BY <4>1, <4>3 DEF TypeOK, RowInv, MountsExclusive, MountIds
        <5>2. mount[e] # 0 => mount[e] # m
          BY <3>1, <5>1, ConstantsAssumption
        <5> QED
          BY <3>1, <4>3, <5>1, <5>2 DEF TypeOK, RowInv, MountsExclusive
      <4> QED
        BY <3>2, <4>1, <4>2, <4>3 DEF MountsExclusive, Exists, TypeOK
    <3>4. UnusedInv' /\ BalanceIsLedgerSum' /\ PendingIsUnfunded' /\ OwnedDatabases'
      BY <3>1, <3>2 DEF RowInv, UnusedInv, BalanceIsLedgerSum, PendingIsUnfunded,
                        OwnedDatabases, Exists, TypeOK
    <3> QED
      BY <3>3, <3>4 DEF RowInv
  <2>2. CASE CreatePending(c, d)
    <3> DEFINE purged == {e \in Databases : Purgeable(c, e)}
    <3>1. \A e \in purged : status[e] = "pending"
      BY DEF Purgeable, Unstaged
    <3>2. /\ status[d] = "unused"
          /\ status'[d] = "pending" /\ owners'[d] = {c} /\ suspended'[d]
          /\ balance'[d] = balance[d] /\ booked'[d] = booked[d] /\ mount'[d] = mount[d]
      BY <2>2, <3>1 DEF CreatePending, DropRows
    <3>3. \A e \in purged : status'[e] = "deleted"
      BY <2>2, <3>1 DEF CreatePending
    <3>4. \A e \in Databases \ (purged \union {d}) :
            /\ status'[e] = status[e] /\ owners'[e] = owners[e] /\ suspended'[e] = suspended[e]
            /\ balance'[e] = balance[e] /\ booked'[e] = booked[e] /\ mount'[e] = mount[e]
      BY <2>2 DEF CreatePending, DropRows, TypeOK
    <3>5. UNCHANGED history
      BY <2>2 DEF CreatePending, DropRows
    <3> HIDE DEF purged
    <3> QED
      BY <3>1, <3>2, <3>3, <3>4, <3>5
      DEF RowInv, UnusedInv, BalanceIsLedgerSum, PendingIsUnfunded, MountsExclusive,
          OwnedDatabases, Exists
  <2>3. CASE DeleteDatabase(c, d)
    <3>1. /\ Removed({d}) /\ status[d] # "unused"
          /\ \A e \in Databases \ {d} : booked'[e] = booked[e] /\ owners'[e] = owners[e]
      BY <2>3 DEF DeleteDatabase, Exists, TypeOK
    <3>2. \A e \in Databases \ {d} : Exists(e) => owners'[e] # {}
      BY <3>1 DEF RowInv, OwnedDatabases
    <3> QED
      BY <3>1, <3>2, RemovedRows
  <2> QED
    BY <1>3, <2>1, <2>2, <2>3 DEF DatabaseStep, CreateWithFreeGrant, CreateKeepsReservation
<1>4. ASSUME NEW c \in Principals, NEW p \in Principals, NEW d \in Databases,
             AccessStep(c, d, p)
      PROVE  RowInv'
  <2>1. ASSUME c \in owners[d], c # p, owners' = [owners EXCEPT ![d] = @ \ {p}], UNCHANGED status
        PROVE  OwnedDatabases'
    BY <2>1 DEF RowInv, OwnedDatabases, Exists, TypeOK
  <2>2. ASSUME NEW charge \in Charges, GrantOwner(c, d, p, charge)
        PROVE  RowInv'
    <3>1. OwnedDatabases'
      BY <2>2 DEF GrantOwner, RowInv, OwnedDatabases, Exists, TypeOK
    <3> QED
      BY <2>2, <3>1, MeteredRows DEF GrantOwner
  <2>3. ASSUME NEW charge \in Charges, DowngradeOwner(c, d, p, charge)
        PROVE  RowInv'
    BY <2>3, <2>1, MeteredRows DEF DowngradeOwner, MayRemove
  <2>4. CASE RevokeOwner(c, d, p)
    BY <2>4, <2>1, <1>0 DEF RevokeOwner, MayRemove
  <2> QED
    BY <1>4, <2>2, <2>3, <2>4 DEF AccessStep
<1>5. ASSUME NEW c \in Principals, AccountStep(c)
      PROVE  RowInv'
  <2>1. CASE CreateLosesGrant(c)
    BY <2>1, <1>0, <1>00 DEF CreateLosesGrant
  <2>2. ASSUME NEW S \in SUBSET SoleOwned(c), Removed(S), UNCHANGED booked,
               \A e \in Databases \ S : Exists(e) => owners'[e] # {}
        PROVE  RowInv'
    <3>1. S \in SUBSET Databases /\ \A e \in S : status[e] # "unused"
      BY DEF SoleOwned, Exists
    <3> QED
      BY <2>2, <3>1, RemovedRows
  <2>3. CASE DeleteAccount(c) /\ DeletionEnds(c)
    <3>1. ASSUME NEW e \in Databases \ SoleOwned(c), Exists(e)
          PROVE  owners'[e] # {}
      BY <2>3, <3>1 DEF DeleteAccount, DeletionEnds, SoleOwned, RowInv, OwnedDatabases
    <3> QED
      BY <2>2, <2>3, <3>1 DEF DeleteAccount, DeletionEnds
  <2>4. CASE DeleteAccount(c) /\ DeletionStops(c)
    <3>1. PICK S \in SUBSET SoleOwned(c) :
            /\ Removed(S)
            /\ owners' = [d \in Databases |-> IF d \in S THEN {} ELSE owners[d]]
      BY <2>4 DEF DeleteAccount, DeletionStops
    <3>2. ASSUME NEW e \in Databases \ S, Exists(e)
          PROVE  owners'[e] # {}
      BY <3>1, <3>2 DEF RowInv, OwnedDatabases
    <3> QED
      BY <2>2, <2>4, <3>1, <3>2 DEF DeleteAccount, DeletionStops
  <2> QED
    BY <1>5, <2>1, <2>3, <2>4 DEF AccountStep, DeleteAccount
<1>6. ASSUME NEW d \in Databases, CreditStep(d)
      PROVE  RowInv'
  <2>1. CASE PendingExpires(d)
    BY <2>1, <1>0, <1>00 DEF PendingExpires
  <2>2. ASSUME NEW p \in PaymentIds, NEW amount \in IapAmounts, IapGrant(p, d, amount)
        PROVE  RowInv'
    <3>1. amount \in Nat
      BY ConstantsAssumption
    <3> QED
      BY <2>2, <3>1, CreditRows DEF IapGrant
  <2>3. ASSUME NEW p \in PaymentIds, IapActivationFails(p, d)
        PROVE  RowInv'
    BY <2>3, <1>000 DEF IapActivationFails
  <2>4. ASSUME NEW charge \in Charges, MeteredUpdate(d, charge)
        PROVE  RowInv'
    BY <2>4, <1>00, MeteredRows DEF MeteredUpdate
  <2>5. ASSUME NEW charge \in Charges, StorageCharge(d, charge)
        PROVE  RowInv'
    <3>1. (balance[d] < charge \/ balance[d] - Paid(d, charge) < config.min) \in BOOLEAN
      OBVIOUS
    <3> QED
      BY <2>5, <3>1, <1>00, ChargeRows DEF StorageCharge, Exists
  <2> QED
    BY <1>6, <2>1, <2>2, <2>3, <2>4, <2>5 DEF CreditStep
<1>7. ASSUME NEW c \in Configs, UpdateConfig(c)
      PROVE  RowInv'
  BY <1>7, <1>0, <1>00 DEF UpdateConfig
<1> QED
  BY <1>1, <1>2, <1>3, <1>4, <1>5, <1>6, <1>7 DEF Next

-----------------------------------------------------------------------------
(* Theorems                                                                *)

\* The tables keep their types: no charge, credit, purge or deletion takes a
\* balance below zero or above the i64 limit.
THEOREM TypeCorrect == Spec => []TypeOK
<1>1. IInv /\ [Next]_vars => IInv'
  BY TypeStep, OperationStep DEF IInv
<1>2. IInv => TypeOK
  BY DEF IInv
<1> QED
  BY InitIInv, <1>1, <1>2, PTL DEF Spec

\* The inductive invariant: types, the life of a purchase operation, and the
\* consistency of the rows of every database.
THEOREM InvariantHolds == Spec => [](IInv /\ RowInv)
<1>1. IInv /\ RowInv /\ [Next]_vars => IInv' /\ RowInv'
  BY TypeStep, OperationStep, RowStep DEF IInv
<1> QED
  BY InitIInv, InitRowInv, <1>1, PTL DEF Spec

\* purchase_database_cycles: a payment the ledger executes is credited or its
\* operation is kept, whatever else runs during and after the await.
THEOREM PaymentSafe == Spec => []PaymentNeverLost
<1>1. IInv => PaymentNeverLost
  BY DEF IInv, OperationInv, PaymentNeverLost
<1> QED
  BY InvariantHolds, <1>1, PTL

\* purchase_database_cycles credits a purchase at most once and only if paid.
THEOREM CreditSafe == Spec => []CreditOnlyForPayment
<1>1. IInv => CreditOnlyForPayment
  BY DEF IInv, OperationInv, CreditOnlyForPayment
<1> QED
  BY InvariantHolds, <1>1, PTL

\* Nothing removes the rows that the callback of a waiting purchase needs.
THEOREM AwaitSafe == Spec => []AwaitedPurchaseIntact
<1>1. IInv => AwaitedPurchaseIntact
  BY DEF IInv, OperationInv, AwaitedPurchaseIntact
<1> QED
  BY InvariantHolds, <1>1, PTL

\* The balance of a database is the sum of its ledger.
THEOREM LedgerIsTruth == Spec => []BalanceIsLedgerSum
<1>1. RowInv => BalanceIsLedgerSum
  BY DEF RowInv
<1> QED
  BY InvariantHolds, <1>1, PTL

\* A pending database is unfunded and suspended.
THEOREM PendingSafe == Spec => []PendingIsUnfunded
<1>1. RowInv => PendingIsUnfunded
  BY DEF RowInv
<1> QED
  BY InvariantHolds, <1>1, PTL

\* Active databases are mounted, and no two rows share a mount.
THEOREM MountsSafe == Spec => []MountsExclusive
<1>1. RowInv => MountsExclusive
  BY DEF RowInv
<1> QED
  BY InvariantHolds, <1>1, PTL

\* No access change or account deletion orphans a database.
THEOREM OwnersSafe == Spec => []OwnedDatabases
<1>1. RowInv => OwnedDatabases
  BY DEF RowInv
<1> QED
  BY InvariantHolds, <1>1, PTL

\* A mount once recorded for a database is never given to another one.
THEOREM HistorySafe == Spec => MountNeverReassigned
<1> DEFINE Kept == \A m \in MountIds : history[m] # NoDatabase => history'[m] = history[m]
<1>1. IInv /\ RowInv /\ [Next]_vars => Kept
  <2> SUFFICES ASSUME IInv, RowInv, [Next]_vars PROVE Kept
    OBVIOUS
  <2> USE DEF IInv, vars, rowVars, accountVars, grantVars, opVars
  <2>0. ASSUME UNCHANGED history PROVE Kept
    BY <2>0
  <2>1. ASSUME NEW d \in Databases, Exists(d), NEW m \in MountIds, StageMount(d, m)
        PROVE  Kept
    <3>1. history[m] \in {d, NoDatabase}
      BY <2>1, StagedMount DEF RowInv
    <3>2. history' = [history EXCEPT ![m] = d]
      BY <2>1 DEF StageMount
    <3> QED
      BY <3>1, <3>2 DEF TypeOK
  <2>2. ASSUME NEW o \in Operations, PurchaseStep(o) PROVE Kept
    <3> DEFINE d == op[o].database
    <3>1. CASE PurchaseCompleted(o) \/ PurchaseNotApplied(o)
      <4>1. d \in Databases /\ Exists(d)
        BY <3>1 DEF PurchaseCompleted, PurchaseNotApplied, Resumes, OperationInv
      <4>2. UNCHANGED history \/ \E m \in MountIds : StageMount(d, m)
        BY <3>1 DEF PurchaseCompleted, PurchaseNotApplied
      <4> HIDE DEF d
      <4> QED
        BY <4>1, <4>2, <2>0, <2>1
    <3> QED
      BY <2>0, <2>2, <3>1
      DEF PurchaseStep, BeginPurchase, LedgerDecides, PurchaseRefused, PurchaseAmbiguous,
          PurchaseAbandoned
  <2>3. ASSUME NEW c \in Principals, NEW d \in Databases, DatabaseStep(c, d) PROVE Kept
    <3>1. CASE InsertReservation(c, d)
      BY <3>1 DEF InsertReservation, LowestFreeMount, TypeOK
    <3> QED
      BY <2>0, <2>3, <3>1
      DEF DatabaseStep, CreateWithFreeGrant, CreateKeepsReservation, CreatePending,
          DeleteDatabase, Removed, DropRows
  <2>4. ASSUME NEW c \in Principals, NEW p \in Principals, NEW d \in Databases,
               AccessStep(c, d, p)
        PROVE  Kept
    BY <2>0, <2>4 DEF AccessStep, GrantOwner, DowngradeOwner, RevokeOwner
  <2>5. ASSUME NEW c \in Principals, AccountStep(c) PROVE Kept
    BY <2>0, <2>5 DEF AccountStep, CreateLosesGrant, DeleteAccount, DeletionEnds, DeletionStops,
                      Removed, DropRows
  <2>6. ASSUME NEW d \in Databases, CreditStep(d) PROVE Kept
    BY <2>0, <2>1, <2>6 DEF CreditStep, PendingExpires, IapGrant, IapActivationFails,
                            MeteredUpdate, StorageCharge, Exists
  <2>7. ASSUME NEW c \in Configs, UpdateConfig(c) PROVE Kept
    BY <2>0, <2>7 DEF UpdateConfig
  <2> QED
    BY <2>0, <2>2, <2>3, <2>4, <2>5, <2>6, <2>7 DEF Next
<1> QED
  BY InvariantHolds, <1>1, PTL DEF Spec, MountNeverReassigned

-----------------------------------------------------------------------------
(* Grants are credited once                                                *)

\* A payment id has been credited exactly when its grant is recorded.
IapInv == \A p \in PaymentIds : iapCredits[p] = IF iapGrants[p] = NoDatabase THEN 0 ELSE 1

\* A free grant that was credited is recorded: what CreateKeepsReservation breaks.
FreeGrantInv == \A c \in Principals : freeCredits[c] = 0 \/ (freeCredits[c] = 1 /\ c \in freeGrants)

\* Who changes the tables of grants: grant_database_cycles_from_iap the one,
\* create_database with its cleanups the other.
LEMMA GrantFrame ==
  ASSUME [Next]_vars
  PROVE  /\ \/ UNCHANGED <<iapGrants, iapCredits>>
            \/ \E p \in PaymentIds, d \in Databases, amount \in IapAmounts : IapGrant(p, d, amount)
         /\ \/ UNCHANGED <<freeGrants, freeCredits>>
            \/ \E c \in Principals, d \in Databases :
                 CreateWithFreeGrant(c, d) \/ CreateKeepsReservation(c, d)
            \/ \E c \in Principals : CreateLosesGrant(c)
<1> USE DEF vars, grantVars
<1>1. CASE UNCHANGED vars
  BY <1>1
<1>2. ASSUME NEW o \in Operations, PurchaseStep(o) PROVE UNCHANGED grantVars
  BY <1>2 DEF PurchaseStep, BeginPurchase, LedgerDecides, PurchaseCompleted,
              PurchaseNotApplied, PurchaseRefused, PurchaseAmbiguous, PurchaseAbandoned
<1>3. ASSUME NEW c \in Principals, NEW d \in Databases, DatabaseStep(c, d)
      PROVE  \/ UNCHANGED grantVars
             \/ /\ UNCHANGED <<iapGrants, iapCredits>>
                /\ CreateWithFreeGrant(c, d) \/ CreateKeepsReservation(c, d)
  BY <1>3 DEF DatabaseStep, CreateWithFreeGrant, CreateKeepsReservation, InsertReservation,
              CreatePending, DeleteDatabase, Removed, DropRows
<1>4. ASSUME NEW c \in Principals, NEW p \in Principals, NEW d \in Databases, AccessStep(c, d, p)
      PROVE  UNCHANGED grantVars
  BY <1>4 DEF AccessStep, GrantOwner, DowngradeOwner, RevokeOwner
<1>5. ASSUME NEW c \in Principals, AccountStep(c)
      PROVE  UNCHANGED grantVars \/ (UNCHANGED <<iapGrants, iapCredits>> /\ CreateLosesGrant(c))
  BY <1>5 DEF AccountStep, CreateLosesGrant, DeleteAccount, DeletionEnds, DeletionStops,
              Removed, DropRows
<1>6. ASSUME NEW d \in Databases, CreditStep(d)
      PROVE  \/ UNCHANGED grantVars
             \/ /\ UNCHANGED <<freeGrants, freeCredits>>
                /\ \E p \in PaymentIds, amount \in IapAmounts : IapGrant(p, d, amount)
  BY <1>6 DEF CreditStep, PendingExpires, IapGrant, IapActivationFails, MeteredUpdate, StorageCharge
<1>7. ASSUME NEW c \in Configs, UpdateConfig(c) PROVE UNCHANGED grantVars
  BY <1>7 DEF UpdateConfig
<1> QED
  BY <1>1, <1>2, <1>3, <1>4, <1>5, <1>6, <1>7 DEF Next

\* grant_database_cycles_from_iap credits an App Store transaction once, however
\* often and for whichever database the payment worker repeats it.
THEOREM IapSafe == Spec => []IapCreditedOnce
<1>1. Init => IapInv
  BY DEF Init, IapInv
<1>2. TypeOK /\ IapInv /\ [Next]_vars => IapInv'
  <2> SUFFICES ASSUME TypeOK, IapInv, [Next]_vars PROVE IapInv'
    OBVIOUS
  <2>1. CASE UNCHANGED <<iapGrants, iapCredits>>
    BY <2>1 DEF IapInv
  <2>2. ASSUME NEW p \in PaymentIds, NEW d \in Databases, NEW amount \in IapAmounts,
               IapGrant(p, d, amount)
        PROVE  IapInv'
    BY <2>2, ConstantsAssumption DEF IapGrant, IapUnused, IapInv, TypeOK
  <2> QED
    BY <2>1, <2>2, GrantFrame
<1>3. IapInv => IapCreditedOnce
  BY DEF IapInv, IapCreditedOnce
<1> QED
  BY TypeCorrect, <1>1, <1>2, <1>3, PTL DEF Spec

\* create_database gives a principal one free grant, whatever is deleted and
\* purged, as long as the cleanup after a failed creation does not fail itself
\* (run free_grant_cleanup shows what happens when it does).
THEOREM FreeGrantSafe == ASSUME ~CleanupFaults PROVE Spec => []FreeGrantOnce
<1>1. Init => FreeGrantInv
  BY DEF Init, FreeGrantInv
<1>2. TypeOK /\ FreeGrantInv /\ [Next]_vars => FreeGrantInv'
  <2> SUFFICES ASSUME TypeOK, FreeGrantInv, [Next]_vars PROVE FreeGrantInv'
    OBVIOUS
  <2>1. CASE UNCHANGED <<freeGrants, freeCredits>>
    BY <2>1 DEF FreeGrantInv
  <2>2. ASSUME NEW c \in Principals, NEW d \in Databases, CreateWithFreeGrant(c, d)
        PROVE  FreeGrantInv'
    BY <2>2 DEF CreateWithFreeGrant, InsertReservation, FreeGrantInv, TypeOK
  <2>3. /\ \A c \in Principals, d \in Databases : ~CreateKeepsReservation(c, d)
        /\ \A c \in Principals : ~CreateLosesGrant(c)
    BY DEF CreateKeepsReservation, CreateLosesGrant
  <2> QED
    BY <2>1, <2>2, <2>3, GrantFrame
<1>3. FreeGrantInv => FreeGrantOnce
  BY DEF FreeGrantInv, FreeGrantOnce
<1> QED
  BY TypeCorrect, <1>1, <1>2, <1>3, PTL DEF Spec

-----------------------------------------------------------------------------
(* DatabaseCycles implements PaymentPromise                                *)

\* A step that leaves operations, calls and transfers alone is a stutter of
\* PaymentPromise.
LEMMA PromiseStutter ==
  ASSUME \A o \in Operations : op'[o].status = op[o].status,
         UNCHANGED <<saga, transfer, credited>>
  PROVE  UNCHANGED Promise!promiseVars
  BY DEF Promise!promiseVars, PurchasePhase

\* A step of one purchase changes the phase of that purchase only.
LEMMA PromiseOthers ==
  ASSUME NEW o \in Operations, \A q \in Operations \ {o} :
           op'[q] = op[q] /\ saga'[q] = saga[q] /\ credited'[q] = credited[q]
  PROVE  [q \in Operations |-> PurchasePhase(q)]'
           = [[q \in Operations |-> PurchasePhase(q)] EXCEPT ![o] = PurchasePhase(o)']
<1>1. \A q \in Operations \ {o} : PurchasePhase(q)' = PurchasePhase(q)
  BY DEF PurchasePhase
<1> QED
  BY <1>1

\* Every message is a step of PaymentPromise or a stutter.
LEMMA PromiseStep ==
  ASSUME IInv, [Next]_vars
  PROVE  Promise!PromiseNext \/ UNCHANGED Promise!promiseVars
<1> USE DEF IInv, vars, rowVars, accountVars, grantVars, opVars
<1>0. ASSUME UNCHANGED opVars PROVE UNCHANGED Promise!promiseVars
  BY <1>0, PromiseStutter
<1>1. ASSUME NEW o \in Operations, PurchaseStep(o)
      PROVE  Promise!PromiseNext \/ UNCHANGED Promise!promiseVars
  <2> DEFINE phases == [q \in Operations |-> PurchasePhase(q)]
             moved  == {q \in Operations : transfer[q] = "moved"}
  <2>1. ASSUME NEW c \in Principals, NEW d \in Databases, NEW payment \in Payments,
               BeginPurchase(o, c, d, payment)
        PROVE  Promise!Open(o)
    <3>1. PurchasePhase(o) = "new" /\ PurchasePhase(o)' = "open"
      BY <2>1 DEF BeginPurchase, PurchasePhase, OperationInv, TypeOK
    <3>2. phases' = [phases EXCEPT ![o] = "open"]
      BY <2>1, <3>1, PromiseOthers DEF BeginPurchase, TypeOK
    <3>3. moved' = moved
      BY <2>1 DEF BeginPurchase, OperationInv, TypeOK
    <3> QED
      BY <3>1, <3>2, <3>3 DEF Promise!Open
  <2>2. CASE LedgerDecides(o)
    <3>1. PurchasePhase(o) = "open" /\ o \notin moved
      BY <2>2 DEF LedgerDecides, PurchasePhase, OperationInv, TypeOK
    <3>2. phases' = phases
      BY <2>2 DEF LedgerDecides, PurchasePhase
    <3>3. moved' = moved \/ moved' = moved \union {o}
      BY <2>2 DEF LedgerDecides, TypeOK
    <3> QED
      BY <3>1, <3>2, <3>3 DEF Promise!PromiseNext, Promise!Pay, Promise!promiseVars
  <2>3. CASE PurchaseCompleted(o)
    <3>1. /\ op' = [op EXCEPT ![o] = NoOp]
          /\ credited' = [credited EXCEPT ![o] = @ + 1]
          /\ saga' = [saga EXCEPT ![o] = "returned"]
          /\ op[o].status = "in_flight" /\ transfer[o] = "moved" /\ UNCHANGED transfer
      BY <2>3 DEF PurchaseCompleted, Resumes
    <3>2. PurchasePhase(o) = "open" /\ PurchasePhase(o)' = "settled"
      BY <3>1 DEF PurchasePhase, OperationInv, TypeOK, NoOp
    <3>3. phases' = [phases EXCEPT ![o] = "settled"]
      BY <3>1, <3>2, PromiseOthers DEF TypeOK
    <3>4. moved' = moved /\ o \in moved
      BY <3>1
    <3> QED
      BY <3>2, <3>3, <3>4 DEF Promise!PromiseNext, Promise!Settle
  <2>4. CASE PurchaseRefused(o)
    <3>1. /\ op' = [op EXCEPT ![o] = NoOp]
          /\ saga' = [saga EXCEPT ![o] = "returned"]
          /\ op[o].status = "in_flight" /\ transfer[o] = "refused"
          /\ UNCHANGED <<transfer, credited>>
      BY <2>4 DEF PurchaseRefused, Resumes
    <3>2. PurchasePhase(o) = "open" /\ PurchasePhase(o)' = "void"
      BY <3>1 DEF PurchasePhase, OperationInv, TypeOK, NoOp
    <3>3. phases' = [phases EXCEPT ![o] = "void"]
      BY <3>1, <3>2, PromiseOthers DEF TypeOK
    <3>4. moved' = moved /\ o \notin moved
      BY <3>1
    <3> QED
      BY <3>2, <3>3, <3>4 DEF Promise!PromiseNext, Promise!Void
  <2>5. CASE PurchaseNotApplied(o) \/ PurchaseAmbiguous(o) \/ PurchaseAbandoned(o)
    <3>1. /\ op[o].status # "absent" /\ op'[o].status # "absent"
          /\ \A q \in Operations \ {o} : op'[q] = op[q] /\ saga'[q] = saga[q]
          /\ UNCHANGED <<transfer, credited>>
      BY <2>5 DEF PurchaseNotApplied, PurchaseAmbiguous, PurchaseAbandoned, Resumes,
                  WithStatus, TypeOK
    <3>2. phases' = phases
      BY <3>1 DEF PurchasePhase
    <3> QED
      BY <3>1, <3>2 DEF Promise!promiseVars
  <2> QED
    BY <1>1, <2>1, <2>2, <2>3, <2>4, <2>5 DEF PurchaseStep, Promise!PromiseNext
<1>2. ASSUME NEW S \in SUBSET Databases, \A d \in S : OpsOf(d) = {}, DropRows(S)
      PROVE  UNCHANGED Promise!promiseVars
  BY <1>2, DropRowsKeepsOperations, PromiseStutter DEF DropRows
<1>3. ASSUME NEW c \in Principals, NEW d \in Databases, DatabaseStep(c, d)
      PROVE  UNCHANGED Promise!promiseVars
  <2>1. CASE CreatePending(c, d)
    BY <2>1, <1>2 DEF CreatePending, Purgeable
  <2>2. CASE DeleteDatabase(c, d)
    BY <2>2, <1>2 DEF DeleteDatabase, Removed, NoPendingOperations
  <2> QED
    BY <1>0, <1>3, <2>1, <2>2
    DEF DatabaseStep, CreateWithFreeGrant, CreateKeepsReservation, InsertReservation
<1>4. ASSUME NEW c \in Principals, NEW p \in Principals, NEW d \in Databases,
             AccessStep(c, d, p)
      PROVE  UNCHANGED Promise!promiseVars
  BY <1>0, <1>4 DEF AccessStep, GrantOwner, DowngradeOwner, RevokeOwner
<1>5. ASSUME NEW c \in Principals, AccountStep(c)
      PROVE  UNCHANGED Promise!promiseVars
  <2>1. ASSUME NEW S \in SUBSET SoleOwned(c), AccountIsQuiet(c), Removed(S)
        PROVE  UNCHANGED Promise!promiseVars
    <3>1. S \in SUBSET Databases /\ \A d \in S : OpsOf(d) = {}
      BY <2>1, QuietDatabases
    <3> QED
      BY <1>2, <2>1, <3>1 DEF Removed
  <2> QED
    BY <1>0, <1>5, <2>1 DEF AccountStep, CreateLosesGrant, DeleteAccount, DeletionEnds, DeletionStops
<1>6. ASSUME NEW d \in Databases, CreditStep(d)
      PROVE  UNCHANGED Promise!promiseVars
  BY <1>0, <1>6 DEF CreditStep, PendingExpires, IapGrant, IapActivationFails, MeteredUpdate,
                    StorageCharge
<1>7. ASSUME NEW c \in Configs, UpdateConfig(c)
      PROVE  UNCHANGED Promise!promiseVars
  BY <1>0, <1>7 DEF UpdateConfig
<1> QED
  BY <1>0, <1>1, <1>3, <1>4, <1>5, <1>6, <1>7 DEF Next

\* purchase_database_cycles implements PaymentPromise: the payer never pays for
\* a purchase that was closed without credit.
THEOREM PromiseKept == Spec => KeepsPromise
<1>1. Init => Promise!PromiseInit
  BY DEF Init, Promise!PromiseInit, PurchasePhase, NoOp
<1>2. IInv /\ [Next]_vars => [Promise!PromiseNext]_(Promise!promiseVars)
  BY PromiseStep
<1> QED
  BY InvariantHolds, <1>1, <1>2, PTL DEF Spec, KeepsPromise, Promise!PromiseSpec

=============================================================================
