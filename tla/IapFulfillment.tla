---------------------------- MODULE IapFulfillment ----------------------------
(***************************************************************************)
(* The payment worker: purchase intents, activateDatabase and App Store    *)
(* notifications over one D1 database.                                     *)
(*                                                                         *)
(* Requests run concurrently and may die at any await.  Each D1 statement  *)
(* (or batch) is atomic, so an activateDatabase request is a sequence of   *)
(* steps, one per statement or remote call; its pc names the await it is   *)
(* at.  The canister executes a grant request at most once, possibly after *)
(* the worker stopped waiting; it refuses nothing twice because the        *)
(* transaction id is the external payment id (IapGrant of DatabaseCycles). *)
(*                                                                         *)
(* Rate limits, which fail before the first write, are left out.           *)
(***************************************************************************)
EXTENDS Integers, FiniteSets

CONSTANTS
  Intents,        \* appAccountToken of a purchase intent
  Transactions,   \* App Store transaction ids
  Requests,       \* activateDatabase requests at a time, and their attempt ids
  Products,
  Databases,
  Catalogs,       \* products with their cycles, 0 for one that is not listed
  SandboxLimit,   \* APP_STORE_SANDBOX_GRANT_LIMIT
  Notifications,  \* notification payloads, see VerifiedNotification
  None

Amounts == {c[p] : c \in Catalogs, p \in Products}
GrantRecord == [database : Databases, amount : Amounts]

\* What the constants are: catalogs of cycles, a limit, and a value that is
\* nobody's id.
IapConstants ==
  /\ IsFiniteSet(Transactions)
  /\ Catalogs \subseteq [Products -> Nat]
  /\ SandboxLimit \in Nat
  /\ None \notin Intents \union Transactions \union Requests \union Products \union Databases
  /\ None \notin GrantRecord

VARIABLES
  catalog,      \* IAP_PRODUCT_CATALOG_JSON of the deployed worker
  intent,       \* iap_purchase_intents
  row,          \* iap_fulfillments
  notified,     \* app_store_notifications
  request,      \* activateDatabase calls under way
  purchased,    \* App Store: product, token and environment of a transaction
  sent,         \* grant requests on their way to the canister
  granted       \* canister: transaction -> what was credited for it

workerVars   == <<catalog, intent, row, notified, request>>
externalVars == <<purchased, sent, granted>>
iapVars      == <<workerVars, externalVars>>

NoIntent  == [status |-> "absent", database |-> None, product |-> None, amount |-> 0, tx |-> None]
NoRow     == [status |-> "absent", database |-> None, token |-> None, cycles |-> 0,
              attempt |-> None, lease |-> FALSE]
NoRequest == [pc |-> "idle", tx |-> None]

NoPurchase == [product |-> None, token |-> None, sandbox |-> FALSE]

TokenOf(t) == purchased[t].token
Intent(t) == intent[TokenOf(t)]
At(a, pc) == request[a].pc = pc
Goto(a, pc) == request' = [request EXCEPT ![a] = [pc |-> pc, tx |-> request[a].tx]]
\* The request answers, with success or with an error, and is forgotten.
Answer(a) == request' = [request EXCEPT ![a] = NoRequest]

-----------------------------------------------------------------------------
(* Purchase intents                                                        *)

\* createPurchaseIntent: the amount is the catalog's of this moment.
CreatePurchaseIntent(i, d, p) ==
  /\ intent[i].status = "absent"
  /\ catalog[p] > 0
  /\ intent' = [intent EXCEPT ![i] = [status |-> "created", database |-> d, product |-> p,
                                      amount |-> catalog[p], tx |-> None]]
  /\ UNCHANGED <<catalog, row, notified, request, externalVars>>

\* A deployment with another catalog that parseProductCatalog accepts.
Redeploy(c) ==
  /\ \E p \in Products : c[p] > 0
  /\ catalog' = c
  /\ UNCHANGED <<intent, row, notified, request, externalVars>>

-----------------------------------------------------------------------------
(* activateDatabase                                                        *)

\* fulfilledActivationResponse, or on to Apple.
Begin(a, t) ==
  /\ At(a, "idle")
  /\ row[t].status # "fulfilled"
  /\ request' = [request EXCEPT ![a] = [pc |-> "verifying", tx |-> t]]
  /\ UNCHANGED <<catalog, intent, row, notified, externalVars>>

\* verifyStoreKitTransaction: Apple knows the transaction.  A lookup that fails,
\* a revoked transaction and a Sandbox switched off all end in an error:
\* RequestDies.
Verify(a) ==
  /\ At(a, "verifying")
  /\ purchased[request[a].tx] # NoPurchase
  /\ Goto(a, "validating")
  /\ UNCHANGED <<catalog, intent, row, notified, externalVars>>

ValidPurchaseIntent_AnyStatus(t) ==
  Intent(t).status # "absent" /\ Intent(t).product = purchased[t].product

\* validatePurchaseIntent: the product bought is the one of the intent, which is
\* still open or was fulfilled by this very transaction.
ValidPurchaseIntent(t) ==
  /\ Intent(t).status # "absent"
  /\ Intent(t).product = purchased[t].product
  /\ Intent(t).status = "created" \/ Intent(t).tx = t

Validate(a) ==
  LET t == request[a].tx IN
  /\ At(a, "validating")
  /\ IF ValidPurchaseIntent(t) THEN Goto(a, "inserting") ELSE Answer(a)
  /\ UNCHANGED <<catalog, intent, row, notified, externalVars>>

SandboxRows == {t \in Transactions : purchased[t].sandbox /\ row[t].status # "absent"}

MayInsert_CountedBefore(t) == row[t].status = "absent"

\* The INSERT of ensureFulfillmentReceived: the limit is counted by the statement.
MayInsert(t) ==
  /\ row[t].status = "absent"
  /\ purchased[t].sandbox => Cardinality(SandboxRows) < SandboxLimit

EnsureFulfillmentReceived(a) ==
  LET t == request[a].tx IN
  /\ At(a, "inserting")
  /\ row' = IF MayInsert(t)
            THEN [row EXCEPT ![t] = [status |-> "received", database |-> Intent(t).database,
                                     token |-> None, cycles |-> 0, attempt |-> None,
                                     lease |-> FALSE]]
            ELSE row
  /\ Goto(a, "reading")
  /\ UNCHANGED <<catalog, intent, notified, externalVars>>

\* Its SELECT: refused by the limit, done by another request, or on.
ReadFulfillment(a) ==
  LET t == request[a].tx IN
  /\ At(a, "reading")
  /\ IF row[t].status \in {"absent", "fulfilled"} \/ row[t].database # Intent(t).database
     THEN Answer(a) ELSE Goto(a, "claiming")
  /\ UNCHANGED <<catalog, intent, row, notified, externalVars>>

Claimable_Always(t) == row[t].status # "absent"

\* markFulfillmentGranting: a fresh or failed row, or a lease that ran out.
Claimable(t) ==
  \/ row[t].status \in {"received", "failed"}
  \/ row[t].status = "granting" /\ ~row[t].lease

MarkFulfillmentGranting(a) ==
  LET t == request[a].tx IN
  /\ At(a, "claiming")
  /\ IF Claimable(t)
     THEN /\ row' = [row EXCEPT ![t] = [status |-> "granting", database |-> row[t].database,
                                        token |-> TokenOf(t), cycles |-> Intent(t).amount,
                                        attempt |-> a, lease |-> TRUE]]
          /\ Goto(a, "granting")
     ELSE row' = row /\ Answer(a)
  /\ UNCHANGED <<catalog, intent, notified, externalVars>>

\* FULFILLMENT_GRANT_LEASE_MS after the claim.
LeaseExpires(t) ==
  /\ row[t].lease
  /\ row' = [row EXCEPT ![t].lease = FALSE]
  /\ UNCHANGED <<catalog, intent, notified, request, externalVars>>

\* grantDatabaseCyclesFromIap sends the snapshot of the intent.
SendGrant(a) ==
  LET t == request[a].tx IN
  /\ At(a, "granting")
  /\ sent' = sent \union {[tx |-> t, database |-> Intent(t).database,
                           amount |-> Intent(t).amount]}
  /\ Goto(a, "awaiting")
  /\ UNCHANGED <<catalog, intent, row, notified, purchased, granted>>

\* The call returns Ok: the canister has granted, now or for an earlier attempt.
GrantSucceeds(a) ==
  /\ At(a, "awaiting")
  /\ granted[request[a].tx] # None
  /\ Goto(a, "finalizing")
  /\ UNCHANGED <<catalog, intent, row, notified, externalVars>>

\* It fails, whatever the canister did or will do.
GrantFails(a) ==
  /\ At(a, "awaiting")
  /\ Goto(a, "failing")
  /\ UNCHANGED <<catalog, intent, row, notified, externalVars>>

HoldsClaim_AnyAttempt(a, t) == row[t].status = "granting"

\* The rows an attempt may still change: its own claim.
HoldsClaim(a, t) == row[t].status = "granting" /\ row[t].attempt = a

MarkFulfillmentFailed_AnyRow(a) ==
  LET t == request[a].tx IN
  /\ At(a, "failing")
  /\ row' = [row EXCEPT ![t] = [status |-> "failed", database |-> row[t].database,
                                token |-> row[t].token, cycles |-> row[t].cycles,
                                attempt |-> None, lease |-> FALSE]]
  /\ Answer(a)
  /\ UNCHANGED <<catalog, intent, notified, externalVars>>

MarkFulfillmentFailed(a) ==
  LET t == request[a].tx IN
  /\ At(a, "failing")
  /\ row' = IF HoldsClaim(a, t)
            THEN [row EXCEPT ![t] = [status |-> "failed", database |-> row[t].database,
                                     token |-> row[t].token, cycles |-> row[t].cycles,
                                     attempt |-> None, lease |-> FALSE]]
            ELSE row
  /\ Answer(a)
  /\ UNCHANGED <<catalog, intent, notified, externalVars>>

IntentOpenFor(t) == Intent(t).status = "created" \/ Intent(t).tx = t

\* finalizeFulfillment.  The batch commits both statements whatever they match;
\* only afterwards is a statement that matched nothing an error.
FinalizeFulfillment(a) ==
  LET t == request[a].tx IN
  /\ At(a, "finalizing")
  /\ row' = IF HoldsClaim(a, t)
            THEN [row EXCEPT ![t] = [status |-> "fulfilled", database |-> row[t].database,
                                     token |-> row[t].token, cycles |-> row[t].cycles,
                                     attempt |-> None, lease |-> FALSE]]
            ELSE row
  /\ intent' = IF IntentOpenFor(t)
               THEN [intent EXCEPT ![TokenOf(t)] =
                       [status |-> "fulfilled", database |-> Intent(t).database,
                        product |-> Intent(t).product, amount |-> Intent(t).amount, tx |-> t]]
               ELSE intent
  /\ IF HoldsClaim(a, t) /\ IntentOpenFor(t) THEN Answer(a) ELSE Goto(a, "failing")
  /\ UNCHANGED <<catalog, notified, externalVars>>

\* The batch is rolled back by D1.
FinalizeFails(a) ==
  /\ At(a, "finalizing")
  /\ Goto(a, "failing")
  /\ UNCHANGED <<catalog, intent, row, notified, externalVars>>

\* The request is gone: its isolate was stopped, or a statement failed where
\* nothing catches the error.
RequestDies(a) ==
  /\ ~At(a, "idle")
  /\ Answer(a)
  /\ UNCHANGED <<catalog, intent, row, notified, externalVars>>

-----------------------------------------------------------------------------
(* Notifications                                                           *)

\* verifyAppStoreNotification: a chain of three certificates that Apple's root
\* ends, a good signature, and the same app and environment inside.
VerifiedNotification(n) ==
  /\ n.trusted /\ n.signed /\ n.ourApp
  /\ n.innerEnvironment \in {None, n.environment}

\* recordAppStoreNotification keeps the first of a uuid.
RecordNotification(n) ==
  /\ VerifiedNotification(n)
  /\ \A m \in notified : m.uuid # n.uuid
  /\ notified' = notified \union {n}
  /\ UNCHANGED <<catalog, intent, row, request, externalVars>>

-----------------------------------------------------------------------------
(* App Store and canister                                                  *)

\* StoreKit sells a product; the device names it and the token.
Purchase(t, p, i, sandbox) ==
  /\ purchased[t] = NoPurchase
  /\ intent[i].status # "absent"
  /\ purchased' = [purchased EXCEPT ![t] = [product |-> p, token |-> i, sandbox |-> sandbox]]
  /\ UNCHANGED <<workerVars, sent, granted>>

\* grant_database_cycles_from_iap: the first request of a payment id counts.  A
\* request may also be refused or lost: it is then never executed.
CanisterGrants(g) ==
  /\ granted' = IF granted[g.tx] = None
                THEN [granted EXCEPT ![g.tx] = [database |-> g.database, amount |-> g.amount]]
                ELSE granted
  /\ sent' = sent \ {g}
  /\ UNCHANGED <<workerVars, purchased>>

-----------------------------------------------------------------------------

Init ==
  /\ catalog \in Catalogs
  /\ intent = [i \in Intents |-> NoIntent]
  /\ row = [t \in Transactions |-> NoRow]
  /\ notified = {}
  /\ request = [a \in Requests |-> NoRequest]
  /\ purchased = [t \in Transactions |-> NoPurchase]
  /\ sent = {}
  /\ granted = [t \in Transactions |-> None]

RequestStep(a) ==
  \/ \E t \in Transactions : Begin(a, t)
  \/ Verify(a)
  \/ Validate(a)
  \/ EnsureFulfillmentReceived(a)
  \/ ReadFulfillment(a)
  \/ MarkFulfillmentGranting(a)
  \/ SendGrant(a)
  \/ GrantSucceeds(a)
  \/ GrantFails(a)
  \/ FinalizeFulfillment(a)
  \/ FinalizeFails(a)
  \/ MarkFulfillmentFailed(a)
  \/ RequestDies(a)

AppStoreStep(t) ==
  \/ \E p \in Products, i \in Intents, sandbox \in BOOLEAN : Purchase(t, p, i, sandbox)
  \/ LeaseExpires(t)

Next ==
  \/ \E i \in Intents, d \in Databases, p \in Products : CreatePurchaseIntent(i, d, p)
  \/ \E c \in Catalogs : Redeploy(c)
  \/ \E a \in Requests : RequestStep(a)
  \/ \E n \in Notifications : RecordNotification(n)
  \/ \E t \in Transactions : AppStoreStep(t)
  \/ \E g \in sent : CanisterGrants(g)

Spec == Init /\ [][Next]_iapVars

-----------------------------------------------------------------------------
(* Properties                                                              *)

\* The rows of the payment worker keep their types, and a claim names an attempt.
TypeOK ==
  /\ catalog \in Catalogs
  /\ intent \in [Intents -> [status : {"absent", "created", "fulfilled"},
                            database : Databases \union {None}, product : Products \union {None},
                            amount : Nat, tx : Transactions \union {None}]]
  /\ row \in [Transactions -> [status : {"absent", "received", "granting", "failed", "fulfilled"},
                              database : Databases \union {None}, token : Intents \union {None},
                              cycles : Nat, attempt : Requests \union {None},
                              lease : BOOLEAN]]
  /\ notified \in SUBSET Notifications
  /\ request \in [Requests -> [pc : {"idle", "verifying", "validating", "inserting", "reading",
                                   "claiming", "granting", "awaiting", "finalizing", "failing"},
                             tx : Transactions \union {None}]]

\* A transaction the worker reports as fulfilled was credited by the canister,
\* to the database and with the amount of its row.
FulfilledIsGranted ==
  \A t \in Transactions : row[t].status = "fulfilled" =>
    granted[t] = [database |-> row[t].database, amount |-> row[t].cycles]

\* So was the transaction an intent names, although a request that lost its
\* claim still closes the intent.
IntentIsGranted ==
  \A i \in Intents : intent[i].status = "fulfilled" =>
    granted[intent[i].tx] = [database |-> intent[i].database, amount |-> intent[i].amount]

\* What is credited is what the intent said when it was made, for the product
\* that was paid, whatever was deployed meanwhile.
GrantIsOrdered ==
  \A t \in Transactions : granted[t] # None =>
    /\ purchased[t].product = Intent(t).product
    /\ granted[t] = [database |-> Intent(t).database, amount |-> Intent(t).amount]

\* Concurrent requests do not exceed the Sandbox grant limit.
SandboxBounded == Cardinality(SandboxRows) <= SandboxLimit

\* activateDatabase under concurrent, repeated and dying requests: what it
\* reports, closes and has credited agrees with what was paid, within the limit.
IapConsistent == FulfilledIsGranted /\ IntentIsGranted /\ GrantIsOrdered /\ SandboxBounded

\* A request whose lease ran out does not undo what another one finished.
KeepsFulfilled == \A t \in Transactions : row[t].status = "fulfilled" => row'[t] = row[t]
FulfilledIsFinal == [][KeepsFulfilled]_iapVars

=============================================================================
