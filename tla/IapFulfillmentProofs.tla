------------------------- MODULE IapFulfillmentProofs -------------------------
(* Theorems about IapFulfillment, for any number of intents, transactions, *)
(* concurrent requests, products and databases, and any deployments.       *)
EXTENDS IapFulfillment, FiniteSetTheorems, TLAPS

-----------------------------------------------------------------------------
(* The inductive invariant                                                 *)

PurchaseRecord == [product : Products, token : Intents, sandbox : BOOLEAN]

\* The App Store's and the canister's side of TypeOK.
ExternalTypes ==
  /\ purchased \in [Transactions -> PurchaseRecord \union {NoPurchase}]
  /\ granted \in [Transactions -> GrantRecord \union {None}]
  /\ \A g \in sent : g.tx \in Transactions

Bought(t) == purchased[t] # NoPurchase

\* A transaction was bought for an intent that is there and names its product.
Ordered(t) ==
  /\ Bought(t)
  /\ Intent(t).status # "absent"
  /\ Intent(t).product = purchased[t].product

\* Intents that were created name a database and an amount of some catalog.
IntentInv ==
  \A i \in Intents : intent[i].status # "absent" =>
    intent[i].database \in Databases /\ intent[i].amount \in Amounts

RequestRecord ==
  [pc : {"idle", "verifying", "validating", "inserting", "reading", "claiming", "granting",
         "awaiting", "finalizing", "failing"},
   tx : Transactions \union {None}]

\* Where a request has got to says what it has seen.
Seen(r) ==
  /\ r.pc # "idle" => r.tx \in Transactions
  /\ r.pc \notin {"idle", "verifying"} => Bought(r.tx)
  /\ r.pc \notin {"idle", "verifying", "validating"} => Ordered(r.tx)
  /\ r.pc = "finalizing" => granted[r.tx] # None

RequestInv == \A a \in Requests : Seen(request[a])

RowRecord ==
  [status : {"absent", "received", "granting", "failed", "fulfilled"},
   database : Databases \union {None}, token : Intents \union {None}, cycles : Nat,
   attempt : Requests \union {None}, lease : BOOLEAN]

\* A row is of an ordered transaction, claims carry the amount of the intent,
\* and only a claimed row has a lease.
RowOf(t, r) ==
  /\ r.status # "absent" => Ordered(t) /\ r.database = Intent(t).database
  /\ r.status \in {"granting", "fulfilled"} => r.cycles = Intent(t).amount
  /\ r.status = "fulfilled" => granted[t] # None
  /\ r.lease => r.status = "granting"

RowInv == \A t \in Transactions : RowOf(t, row[t])

\* What is under way to the canister, and what it granted, is what was ordered.
GrantInv ==
  /\ \A g \in sent : Ordered(g.tx) /\ g.database = Intent(g.tx).database
                     /\ g.amount = Intent(g.tx).amount
  /\ \A t \in Transactions : granted[t] # None =>
       /\ Ordered(t)
       /\ granted[t] = [database |-> Intent(t).database, amount |-> Intent(t).amount]

\* A closed intent names a transaction that was bought for it and granted.
ClosedInv ==
  \A i \in Intents : intent[i].status = "fulfilled" =>
    /\ intent[i].tx \in Transactions
    /\ Bought(intent[i].tx) /\ TokenOf(intent[i].tx) = i
    /\ granted[intent[i].tx] # None

IapInv ==
  /\ TypeOK /\ ExternalTypes /\ IntentInv /\ RequestInv /\ RowInv /\ GrantInv /\ ClosedInv
  /\ SandboxBounded

-----------------------------------------------------------------------------
(* What the invariant says together                                        *)

\* An ordered transaction has a token and terms.
LEMMA OrderedTerms ==
  ASSUME IapConstants, IapInv, NEW t \in Transactions, Ordered(t)
  PROVE  /\ purchased[t] \in PurchaseRecord /\ TokenOf(t) \in Intents
         /\ Intent(t).database \in Databases /\ Intent(t).amount \in Amounts
<1>1. purchased[t] \in PurchaseRecord
  BY DEF IapInv, ExternalTypes, Ordered, Bought
<1>2. TokenOf(t) \in Intents
  BY <1>1 DEF PurchaseRecord, TokenOf
<1> QED
  BY <1>1, <1>2 DEF IapInv, IntentInv, Ordered, Intent

\* The invariant implies what the worker promises.
LEMMA IapInvPromises ==
  ASSUME IapConstants, IapInv
  PROVE  IapConsistent
<1>1. FulfilledIsGranted
  BY DEF IapInv, RowInv, RowOf, GrantInv, FulfilledIsGranted
<1>2. IntentIsGranted
  BY DEF IapInv, ClosedInv, GrantInv, IntentIsGranted, Intent
<1>3. GrantIsOrdered
  BY DEF IapInv, GrantInv, GrantIsOrdered, Ordered
<1> QED
  BY <1>1, <1>2, <1>3 DEF IapInv, IapConsistent
-----------------------------------------------------------------------------
(* Steps of one kind                                                       *)

\* A step that only moves a request keeps the invariant when the request has
\* seen what its new place asks for.
LEMMA RequestMoves ==
  ASSUME IapConstants, IapInv, NEW a \in Requests, NEW r \in RequestRecord, Seen(r),
         request' = [request EXCEPT ![a] = r],
         UNCHANGED <<catalog, intent, row, notified, externalVars>>
  PROVE  IapInv'
<1> USE DEF externalVars
<1>1. TypeOK' /\ ExternalTypes'
  BY DEF IapInv, TypeOK, ExternalTypes, RequestRecord
<1>2. RequestInv'
  <2> SUFFICES ASSUME NEW b \in Requests PROVE Seen(request[b])'
    BY DEF RequestInv
  <2>1. request'[b] = IF b = a THEN r ELSE request[b]
    BY DEF IapInv, TypeOK
  <2>2. Seen(request'[b])
    BY <2>1 DEF IapInv, RequestInv
  <2> QED
    BY <2>2 DEF Seen, Bought, Ordered, Intent, TokenOf
<1>3. IntentInv' /\ RowInv' /\ GrantInv' /\ ClosedInv'
  BY DEF IapInv, IntentInv, RowInv, RowOf, GrantInv, ClosedInv, Bought, Ordered, Intent, TokenOf
<1>4. SandboxBounded'
  BY DEF IapInv, SandboxBounded, SandboxRows
<1> QED
  BY <1>1, <1>2, <1>3, <1>4 DEF IapInv

\* The limit holds after a row was written that was there or may be inserted.
LEMMA LimitKept ==
  ASSUME IapConstants, IapInv, NEW t \in Transactions, NEW r \in RowRecord,
         row' = [row EXCEPT ![t] = r], UNCHANGED purchased,
         row[t].status = "absent" => MayInsert(t)
  PROVE  SandboxBounded'
<1>1. IsFiniteSet(SandboxRows)
  BY FS_Subset DEF SandboxRows, IapConstants
<1>2. Cardinality(SandboxRows) \in Nat
  BY <1>1, FS_CardinalityType
<1>3. SandboxRows' \subseteq SandboxRows \union {t}
  BY DEF SandboxRows, IapInv, TypeOK
<1>4. CASE row[t].status # "absent" \/ ~purchased[t].sandbox
  <2>1. SandboxRows' \subseteq SandboxRows
    BY <1>3, <1>4 DEF SandboxRows
  <2>2. Cardinality(SandboxRows') <= Cardinality(SandboxRows) /\ Cardinality(SandboxRows') \in Nat
    BY <2>1, <1>1, FS_Subset, FS_CardinalityType
  <2> QED
    BY <2>2, <1>2 DEF SandboxBounded, IapInv, IapConstants
<1>5. CASE row[t].status = "absent" /\ purchased[t].sandbox
  <2>1. Cardinality(SandboxRows) < SandboxLimit
    BY <1>5 DEF MayInsert
  <2>2. t \notin SandboxRows
    BY <1>5 DEF SandboxRows
  <2>3. IsFiniteSet(SandboxRows \union {t})
        /\ Cardinality(SandboxRows \union {t}) = Cardinality(SandboxRows) + 1
    BY <1>1, <2>2, FS_AddElement
  <2>4. Cardinality(SandboxRows') <= Cardinality(SandboxRows \union {t})
        /\ Cardinality(SandboxRows') \in Nat
    BY <2>3, <1>3, FS_Subset, FS_CardinalityType
  <2> QED
    BY <2>1, <2>3, <2>4, <1>2 DEF SandboxBounded, IapConstants
<1> QED
  BY <1>4, <1>5

\* A step that writes a row and moves a request keeps the invariant when the
\* row is one of its transaction.
LEMMA RowWritten ==
  ASSUME IapConstants, IapInv, NEW t \in Transactions, NEW r \in RowRecord, RowOf(t, r),
         row[t].status = "absent" => MayInsert(t),
         row' = [row EXCEPT ![t] = r],
         request' \in [Requests -> RequestRecord], \A b \in Requests : Seen(request'[b]),
         UNCHANGED <<catalog, intent, notified, externalVars>>
  PROVE  IapInv'
<1> USE DEF externalVars
<1>1. TypeOK' /\ ExternalTypes'
  BY DEF IapInv, TypeOK, ExternalTypes, RequestRecord, RowRecord
<1>2. RequestInv'
  BY DEF RequestInv, Seen, Bought, Ordered, Intent, TokenOf
<1>3. RowInv'
  <2> SUFFICES ASSUME NEW u \in Transactions PROVE RowOf(u, row[u])'
    BY DEF RowInv
  <2>1. row'[u] = IF u = t THEN r ELSE row[u]
    BY DEF IapInv, TypeOK
  <2>2. RowOf(u, row'[u])
    BY <2>1 DEF IapInv, RowInv
  <2> QED
    BY <2>2 DEF RowOf, Bought, Ordered, Intent, TokenOf
<1>4. IntentInv' /\ GrantInv' /\ ClosedInv'
  BY DEF IapInv, IntentInv, GrantInv, ClosedInv, Bought, Ordered, Intent, TokenOf
<1>5. SandboxBounded'
  BY LimitKept DEF externalVars
<1> QED
  BY <1>1, <1>2, <1>3, <1>4, <1>5 DEF IapInv

\* What the rest of the system learnt stays true: an intent keeps its terms, a
\* transaction what was bought with it, a grant what was credited.
NothingForgotten ==
  /\ \A i \in Intents : intent[i].status # "absent" =>
       /\ intent'[i].status # "absent" /\ intent'[i].product = intent[i].product
       /\ intent'[i].database = intent[i].database /\ intent'[i].amount = intent[i].amount
  /\ \A t \in Transactions : Bought(t) => purchased'[t] = purchased[t]
  /\ \A t \in Transactions : granted[t] # None => granted'[t] = granted[t]

\* Then what is known of orders, requests and rows carries over.
LEMMA KnowledgeKept ==
  ASSUME IapConstants, IapInv, NothingForgotten
  PROVE  /\ \A t \in Transactions : Bought(t) => Bought(t)'
         /\ \A t \in Transactions : Ordered(t) =>
              /\ Ordered(t)' /\ TokenOf(t)' = TokenOf(t)
              /\ Intent(t)'.database = Intent(t).database /\ Intent(t)'.amount = Intent(t).amount
         /\ \A r \in RequestRecord : Seen(r) => Seen(r)'
         /\ \A t \in Transactions, r \in RowRecord : RowOf(t, r) => RowOf(t, r)'
<1>1. \A t \in Transactions : Bought(t) => Bought(t)' /\ TokenOf(t)' = TokenOf(t)
  BY DEF NothingForgotten, Bought, TokenOf
<1>2. ASSUME NEW t \in Transactions, Ordered(t)
      PROVE  /\ Ordered(t)' /\ TokenOf(t)' = TokenOf(t)
             /\ Intent(t)'.database = Intent(t).database /\ Intent(t)'.amount = Intent(t).amount
  <2>1. TokenOf(t) \in Intents
    BY <1>2, OrderedTerms
  <2>2. purchased'[t] = purchased[t] /\ Bought(t)' /\ TokenOf(t)' = TokenOf(t)
    BY <1>1, <1>2 DEF NothingForgotten, Ordered
  <2> QED
    BY <1>2, <2>1, <2>2 DEF NothingForgotten, Ordered, Intent
<1>3. ASSUME NEW r \in RequestRecord, Seen(r) PROVE Seen(r)'
  BY <1>1, <1>2, <1>3 DEF Seen, NothingForgotten
<1>4. ASSUME NEW t \in Transactions, NEW r \in RowRecord, RowOf(t, r) PROVE RowOf(t, r)'
  BY <1>2, <1>4, IapConstants DEF RowOf, NothingForgotten
<1> QED
  BY <1>1, <1>2, <1>3, <1>4

\* The requests after one of them moved.
LEMMA RequestsAfter ==
  ASSUME IapInv, NEW a \in Requests, NEW r \in RequestRecord, Seen(r),
         request' = [request EXCEPT ![a] = r]
  PROVE  /\ request' \in [Requests -> RequestRecord]
         /\ \A b \in Requests : Seen(request'[b])
<1>1. request \in [Requests -> RequestRecord] /\ \A b \in Requests : Seen(request[b])
  BY DEF IapInv, TypeOK, RequestInv, RequestRecord
<1>2. \A b \in Requests : request'[b] = IF b = a THEN r ELSE request[b]
  BY <1>1
<1>3. request' \in [Requests -> RequestRecord]
  BY <1>1
<1> QED
  BY <1>1, <1>2, <1>3

\* A request that answers is forgotten.
LEMMA Forgotten == NoRequest \in RequestRecord /\ Seen(NoRequest)
BY DEF NoRequest, RequestRecord, Seen

-----------------------------------------------------------------------------
(* The actions                                                             *)

\* The worker begins with empty tables.
LEMMA IapInvInit ==
  ASSUME IapConstants, Init
  PROVE  IapInv
<1>1. TypeOK /\ ExternalTypes
  BY DEF Init, TypeOK, ExternalTypes, NoIntent, NoRow, NoRequest
<1>2. IntentInv /\ RequestInv /\ RowInv /\ GrantInv /\ ClosedInv
  BY DEF Init, IntentInv, RequestInv, Seen, RowInv, RowOf, GrantInv, ClosedInv, NoIntent, NoRow,
         NoRequest
<1>3. SandboxBounded
  <2>1. SandboxRows = {}
    BY DEF SandboxRows, Init, NoRow
  <2> QED
    BY <2>1, FS_EmptySet DEF SandboxBounded, IapConstants
<1> QED
  BY <1>1, <1>2, <1>3 DEF IapInv

\* The steps of a request that only move it.
LEMMA MovesKeep ==
  ASSUME IapConstants, IapInv, NEW a \in Requests,
         \/ \E t \in Transactions : Begin(a, t)
         \/ Verify(a) \/ Validate(a) \/ ReadFulfillment(a) \/ GrantSucceeds(a) \/ GrantFails(a)
         \/ FinalizeFails(a) \/ RequestDies(a)
  PROVE  IapInv'
<1> DEFINE t == request[a].tx
           To(pc) == [pc |-> pc, tx |-> t]
<1>1. request[a] \in RequestRecord /\ Seen(request[a])
  BY DEF IapInv, TypeOK, RequestInv, RequestRecord
<1>2. \E r \in RequestRecord : Seen(r) /\ request' = [request EXCEPT ![a] = r]
  <2>1. CASE \E u \in Transactions : Begin(a, u)
    <3> PICK u \in Transactions : Begin(a, u)
      BY <2>1
    <3>1. [pc |-> "verifying", tx |-> u] \in RequestRecord /\ Seen([pc |-> "verifying", tx |-> u])
      BY DEF RequestRecord, Seen
    <3> QED
      BY <3>1 DEF Begin
  <2>2. CASE Verify(a)
    <3>1. To("validating") \in RequestRecord /\ Seen(To("validating"))
      BY <1>1, <2>2 DEF Verify, At, RequestRecord, Seen, Bought
    <3> QED
      BY <3>1, <2>2 DEF Verify, Goto
  <2>3. CASE Validate(a)
    <3>1. CASE ValidPurchaseIntent(t)
      <4>1. To("inserting") \in RequestRecord /\ Seen(To("inserting"))
        BY <1>1, <2>3, <3>1 DEF Validate, At, RequestRecord, Seen, Ordered, ValidPurchaseIntent
      <4> QED
        BY <4>1, <2>3, <3>1 DEF Validate, Goto
    <3>2. CASE ~ValidPurchaseIntent(t)
      BY <2>3, <3>2, Forgotten DEF Validate, Answer
    <3> QED
      BY <3>1, <3>2
  <2>4. CASE ReadFulfillment(a)
    <3>1. To("claiming") \in RequestRecord /\ Seen(To("claiming"))
      BY <1>1, <2>4 DEF ReadFulfillment, At, RequestRecord, Seen
    <3> QED
      BY <3>1, <2>4, Forgotten DEF ReadFulfillment, Goto, Answer
  <2>5. CASE GrantSucceeds(a)
    <3>1. To("finalizing") \in RequestRecord /\ Seen(To("finalizing"))
      BY <1>1, <2>5 DEF GrantSucceeds, At, RequestRecord, Seen
    <3> QED
      BY <3>1, <2>5 DEF GrantSucceeds, Goto
  <2>6. CASE GrantFails(a) \/ FinalizeFails(a)
    <3>1. To("failing") \in RequestRecord /\ Seen(To("failing"))
      BY <1>1, <2>6 DEF GrantFails, FinalizeFails, At, RequestRecord, Seen
    <3> QED
      BY <3>1, <2>6 DEF GrantFails, FinalizeFails, Goto
  <2>7. CASE RequestDies(a)
    BY <2>7, Forgotten DEF RequestDies, Answer
  <2> QED
    BY <2>1, <2>2, <2>3, <2>4, <2>5, <2>6, <2>7
<1>3. UNCHANGED <<catalog, intent, row, notified, externalVars>>
  BY DEF Begin, Verify, Validate, ReadFulfillment, GrantSucceeds, GrantFails, FinalizeFails,
         RequestDies
<1> QED
  BY <1>2, <1>3, RequestMoves

\* The row of a transaction is a row, and one of it.
LEMMA RowsAre ==
  ASSUME IapInv, NEW t \in Transactions
  PROVE  row[t] \in RowRecord /\ RowOf(t, row[t])
BY DEF IapInv, TypeOK, RowInv, RowRecord

\* A request past validation has an ordered transaction, with terms.
LEMMA RequestTerms ==
  ASSUME IapConstants, IapInv, NEW a \in Requests,
         request[a].pc \notin {"idle", "verifying", "validating"}
  PROVE  LET t == request[a].tx IN
         /\ t \in Transactions /\ Ordered(t) /\ TokenOf(t) \in Intents
         /\ Intent(t).database \in Databases /\ Intent(t).amount \in Amounts
         /\ Intent(t).amount \in Nat
<1>1. request[a].tx \in Transactions /\ Ordered(request[a].tx)
  BY DEF IapInv, RequestInv, Seen
<1>2. Amounts \subseteq Nat
  BY DEF Amounts, IapConstants
<1> QED
  BY <1>1, <1>2, OrderedTerms

\* ensureFulfillmentReceived inserts at most the row of its transaction.
LEMMA InsertKeeps ==
  ASSUME IapConstants, IapInv, NEW a \in Requests, EnsureFulfillmentReceived(a)
  PROVE  IapInv'
<1> DEFINE t == request[a].tx
           q == [pc |-> "reading", tx |-> t]
           r == [status |-> "received", database |-> Intent(t).database, token |-> None,
                 cycles |-> 0, attempt |-> None, lease |-> FALSE]
<1>1. /\ t \in Transactions /\ Ordered(t) /\ Intent(t).database \in Databases
  BY RequestTerms DEF EnsureFulfillmentReceived, At
<1>2. q \in RequestRecord /\ Seen(q) /\ request' = [request EXCEPT ![a] = q]
  BY <1>1 DEF RequestRecord, Seen, Ordered, EnsureFulfillmentReceived, Goto
<1>3. CASE MayInsert(t)
  <2>1. r \in RowRecord /\ RowOf(t, r)
    BY <1>1 DEF RowRecord, RowOf
  <2>2. request' \in [Requests -> RequestRecord] /\ \A b \in Requests : Seen(request'[b])
    BY <1>2, RequestsAfter
  <2>3. row' = [row EXCEPT ![t] = r] /\ UNCHANGED <<catalog, intent, notified, externalVars>>
    BY <1>3 DEF EnsureFulfillmentReceived
  <2> HIDE DEF r
  <2> QED
    BY <1>1, <1>3, <2>1, <2>2, <2>3, RowWritten
<1>4. CASE ~MayInsert(t)
  BY <1>2, <1>4, RequestMoves DEF EnsureFulfillmentReceived
<1> QED
  BY <1>3, <1>4

\* markFulfillmentGranting claims the row with the amount of the intent.
LEMMA ClaimKeeps ==
  ASSUME IapConstants, IapInv, NEW a \in Requests, MarkFulfillmentGranting(a)
  PROVE  IapInv'
<1> DEFINE t == request[a].tx
           q == [pc |-> "granting", tx |-> t]
           r == [status |-> "granting", database |-> row[t].database, token |-> TokenOf(t),
                 cycles |-> Intent(t).amount, attempt |-> a, lease |-> TRUE]
<1>1. /\ t \in Transactions /\ Ordered(t) /\ TokenOf(t) \in Intents /\ Intent(t).amount \in Nat
  BY RequestTerms DEF MarkFulfillmentGranting, At
<1>2. CASE Claimable(t)
  <2>1. row[t] \in RowRecord /\ RowOf(t, row[t]) /\ row[t].status # "absent"
    BY <1>1, <1>2, RowsAre DEF Claimable
  <2>2. r \in RowRecord /\ RowOf(t, r)
    BY <1>1, <2>1 DEF RowRecord, RowOf
  <2>3. q \in RequestRecord /\ Seen(q) /\ request' = [request EXCEPT ![a] = q]
    BY <1>1, <1>2 DEF RequestRecord, Seen, Ordered, MarkFulfillmentGranting, Goto
  <2>4. request' \in [Requests -> RequestRecord] /\ \A b \in Requests : Seen(request'[b])
    BY <2>3, RequestsAfter
  <2>5. row' = [row EXCEPT ![t] = r] /\ UNCHANGED <<catalog, intent, notified, externalVars>>
    BY <1>2 DEF MarkFulfillmentGranting
  <2> HIDE DEF r
  <2> QED
    BY <1>1, <2>1, <2>2, <2>4, <2>5, RowWritten
<1>3. CASE ~Claimable(t)
  BY <1>3, Forgotten, RequestMoves DEF MarkFulfillmentGranting, Answer
<1> QED
  BY <1>2, <1>3

\* markFulfillmentFailed gives up its own claim, and no other.
LEMMA FailureKeeps ==
  ASSUME IapConstants, IapInv, NEW a \in Requests, MarkFulfillmentFailed(a)
  PROVE  IapInv'
<1> DEFINE t == request[a].tx
           r == [status |-> "failed", database |-> row[t].database, token |-> row[t].token,
                 cycles |-> row[t].cycles, attempt |-> None, lease |-> FALSE]
<1>1. t \in Transactions
  BY RequestTerms DEF MarkFulfillmentFailed, At
<1>2. request' = [request EXCEPT ![a] = NoRequest]
      /\ UNCHANGED <<catalog, intent, notified, externalVars>>
  BY DEF MarkFulfillmentFailed, Answer
<1>3. CASE HoldsClaim(a, t)
  <2>1. row[t] \in RowRecord /\ RowOf(t, row[t]) /\ row[t].status # "absent"
    BY <1>1, <1>3, RowsAre DEF HoldsClaim
  <2>2. r \in RowRecord /\ RowOf(t, r)
    BY <2>1 DEF RowRecord, RowOf
  <2>3. request' \in [Requests -> RequestRecord] /\ \A b \in Requests : Seen(request'[b])
    BY <1>2, Forgotten, RequestsAfter
  <2>4. row' = [row EXCEPT ![t] = r]
    BY <1>3 DEF MarkFulfillmentFailed
  <2> HIDE DEF r
  <2> QED
    BY <1>1, <1>2, <2>1, <2>2, <2>3, <2>4, RowWritten
<1>4. CASE ~HoldsClaim(a, t)
  BY <1>2, <1>4, Forgotten, RequestMoves DEF MarkFulfillmentFailed
<1> QED
  BY <1>3, <1>4

\* A lease that runs out changes only that.
LEMMA ExpiryKeeps ==
  ASSUME IapConstants, IapInv, NEW t \in Transactions, LeaseExpires(t)
  PROVE  IapInv'
<1> DEFINE r == [row[t] EXCEPT !.lease = FALSE]
<1>1. row[t] \in RowRecord /\ RowOf(t, row[t])
  BY RowsAre
<1>2. r \in RowRecord /\ RowOf(t, r) /\ r.status = row[t].status
  BY <1>1 DEF RowRecord, RowOf
<1>3. request' \in [Requests -> RequestRecord] /\ \A b \in Requests : Seen(request'[b])
  BY DEF LeaseExpires, IapInv, TypeOK, RequestInv, RequestRecord
<1>4. row' = [row EXCEPT ![t] = r] /\ UNCHANGED <<catalog, intent, notified, externalVars>>
  BY DEF LeaseExpires
<1>5. row[t].status # "absent"
  BY <1>1 DEF LeaseExpires, RowOf
<1> HIDE DEF r
<1> QED
  BY <1>2, <1>3, <1>4, <1>5, RowWritten

\* grantDatabaseCyclesFromIap sends the terms of the intent.
LEMMA SendKeeps ==
  ASSUME IapConstants, IapInv, NEW a \in Requests, SendGrant(a)
  PROVE  IapInv'
<1> DEFINE t == request[a].tx
           q == [pc |-> "awaiting", tx |-> t]
<1>1. t \in Transactions /\ Ordered(t)
  BY RequestTerms DEF SendGrant, At
<1>2. q \in RequestRecord /\ Seen(q) /\ request' = [request EXCEPT ![a] = q]
  BY <1>1 DEF RequestRecord, Seen, Ordered, SendGrant, Goto
<1>3. request' \in [Requests -> RequestRecord] /\ \A b \in Requests : Seen(request'[b])
  BY <1>2, RequestsAfter
<1>4. TypeOK' /\ ExternalTypes'
  BY <1>1, <1>3 DEF SendGrant, IapInv, TypeOK, ExternalTypes, RequestRecord
<1>5. RequestInv'
  BY <1>3 DEF SendGrant, RequestInv, Seen, Bought, Ordered, Intent, TokenOf
<1>6. GrantInv'
  <2> DEFINE new == [tx |-> t, database |-> Intent(t).database, amount |-> Intent(t).amount]
  <2>1. sent' = sent \union {new} /\ UNCHANGED <<intent, purchased, granted>>
    BY DEF SendGrant
  <2>2. \A g \in sent' : Ordered(g.tx) /\ g.database = Intent(g.tx).database
                         /\ g.amount = Intent(g.tx).amount
    BY <1>1, <2>1 DEF IapInv, GrantInv
  <2> QED
    BY <2>1, <2>2 DEF IapInv, GrantInv, Bought, Ordered, Intent, TokenOf
<1>7. IntentInv' /\ RowInv' /\ ClosedInv' /\ SandboxBounded'
  BY DEF SendGrant, IapInv, IntentInv, RowInv, RowOf, ClosedInv, Bought, Ordered, Intent, TokenOf,
         SandboxBounded, SandboxRows
<1> QED
  BY <1>4, <1>5, <1>6, <1>7 DEF IapInv

\* createPurchaseIntent takes the amount of the catalog that is deployed.
LEMMA CreateKeeps ==
  ASSUME IapConstants, IapInv, NEW i \in Intents, NEW d \in Databases, NEW p \in Products,
         CreatePurchaseIntent(i, d, p)
  PROVE  IapInv'
<1> USE DEF externalVars
<1>1. catalog[p] \in Amounts /\ catalog[p] \in Nat
  BY DEF IapInv, TypeOK, IapConstants, Amounts
<1>2. NothingForgotten
  BY DEF CreatePurchaseIntent, NothingForgotten, IapInv, TypeOK
<1>3. TypeOK' /\ ExternalTypes'
  BY <1>1 DEF CreatePurchaseIntent, IapInv, TypeOK, ExternalTypes
<1>4. IntentInv' /\ ClosedInv'
  BY <1>1 DEF CreatePurchaseIntent, IapInv, TypeOK, IntentInv, ClosedInv, Bought, TokenOf
<1>5. RequestInv'
  BY <1>2, KnowledgeKept DEF CreatePurchaseIntent, IapInv, TypeOK, RequestInv, RequestRecord
<1>6. RowInv'
  BY <1>2, KnowledgeKept, RowsAre DEF CreatePurchaseIntent, RowInv
<1>7. GrantInv'
  BY <1>2, KnowledgeKept DEF CreatePurchaseIntent, IapInv, GrantInv, ExternalTypes
<1>8. SandboxBounded'
  BY DEF CreatePurchaseIntent, IapInv, SandboxBounded, SandboxRows
<1> QED
  BY <1>3, <1>4, <1>5, <1>6, <1>7, <1>8 DEF IapInv

\* finalizeFulfillment closes the intent even when the claim is lost, but only
\* for a transaction that was granted.
LEMMA FinalizeKeeps ==
  ASSUME IapConstants, IapInv, NEW a \in Requests, FinalizeFulfillment(a)
  PROVE  IapInv'
<1> USE DEF externalVars
<1> DEFINE t == request[a].tx
           q == [pc |-> "failing", tx |-> t]
           r == [status |-> "fulfilled", database |-> row[t].database, token |-> row[t].token,
                 cycles |-> row[t].cycles, attempt |-> None, lease |-> FALSE]
           i == TokenOf(t)
           j == [status |-> "fulfilled", database |-> Intent(t).database,
                 product |-> Intent(t).product, amount |-> Intent(t).amount, tx |-> t]
<1>1. t \in Transactions /\ Ordered(t) /\ i \in Intents /\ granted[t] # None
  BY RequestTerms DEF FinalizeFulfillment, At, IapInv, RequestInv, Seen
<1>2. request' \in [Requests -> RequestRecord] /\ \A b \in Requests : Seen(request'[b])
  <2>1. q \in RequestRecord /\ Seen(q)
    BY <1>1 DEF RequestRecord, Seen, Ordered
  <2>2. request' = [request EXCEPT ![a] = q] \/ request' = [request EXCEPT ![a] = NoRequest]
    BY DEF FinalizeFulfillment, Goto, Answer
  <2> QED
    BY <2>1, <2>2, Forgotten, RequestsAfter
<1>3. intent' = intent \/ intent' = [intent EXCEPT ![i] = j]
  BY DEF FinalizeFulfillment
<1>4. intent[i] = Intent(t) /\ intent[i].status # "absent"
  BY <1>1 DEF Intent, Ordered
<1>5. NothingForgotten
  BY <1>1, <1>3, <1>4 DEF FinalizeFulfillment, NothingForgotten, IapInv, TypeOK
<1>6. row' \in [Transactions -> RowRecord] /\ \A u \in Transactions : RowOf(u, row'[u])
  <2>1. row \in [Transactions -> RowRecord] /\ \A u \in Transactions : RowOf(u, row[u])
    BY DEF IapInv, TypeOK, RowInv, RowRecord
  <2>2. CASE HoldsClaim(a, t)
    <3>1. r \in RowRecord /\ RowOf(t, r)
      BY <1>1, <2>1, <2>2 DEF HoldsClaim, RowRecord, RowOf
    <3>2. row' = [row EXCEPT ![t] = r]
      BY <2>2 DEF FinalizeFulfillment
    <3> HIDE DEF r
    <3> QED
      BY <1>1, <2>1, <3>1, <3>2
  <2>3. CASE ~HoldsClaim(a, t)
    BY <2>1, <2>3 DEF FinalizeFulfillment
  <2> QED
    BY <2>2, <2>3
<1>7. TypeOK' /\ ExternalTypes'
  <2>1. intent' \in [Intents -> [status : {"absent", "created", "fulfilled"},
                            database : Databases \union {None}, product : Products \union {None},
                            amount : Nat, tx : Transactions \union {None}]]
    BY <1>1, <1>3, <1>4 DEF IapInv, TypeOK
  <2> QED
    BY <1>2, <1>6, <2>1 DEF FinalizeFulfillment, IapInv, TypeOK, ExternalTypes, RequestRecord,
                            RowRecord
<1>8. IntentInv' /\ ClosedInv'
  BY <1>1, <1>3, <1>4 DEF FinalizeFulfillment, IapInv, TypeOK, IntentInv, ClosedInv, Ordered, Bought,
                          TokenOf
<1>9. RequestInv' /\ RowInv'
  BY <1>2, <1>5, <1>6, KnowledgeKept DEF RequestInv, RowInv
<1>10. GrantInv'
  BY <1>5, KnowledgeKept DEF FinalizeFulfillment, IapInv, GrantInv, ExternalTypes
<1>11. SandboxBounded'
  <2>1. SandboxRows' = SandboxRows
    BY DEF FinalizeFulfillment, HoldsClaim, SandboxRows, IapInv, TypeOK
  <2> QED
    BY <2>1 DEF IapInv, SandboxBounded
<1> QED
  BY <1>7, <1>8, <1>9, <1>10, <1>11 DEF IapInv

\* A purchase names an intent; nothing was known of the transaction before.
LEMMA PurchaseKeeps ==
  ASSUME IapConstants, IapInv, NEW t \in Transactions, NEW p \in Products, NEW i \in Intents,
         NEW sandbox \in BOOLEAN, Purchase(t, p, i, sandbox)
  PROVE  IapInv'
<1> USE DEF workerVars
<1>1. ~Bought(t) /\ row[t].status = "absent"
  BY RowsAre DEF Purchase, Bought, RowOf, Ordered
<1>2. NothingForgotten
  BY <1>1 DEF Purchase, NothingForgotten, IapInv, ExternalTypes, Bought
<1>3. TypeOK' /\ ExternalTypes'
  BY DEF Purchase, IapInv, TypeOK, ExternalTypes, PurchaseRecord
<1>4. IntentInv'
  BY DEF Purchase, IapInv, IntentInv
<1>5. ClosedInv'
  BY <1>1, <1>2 DEF Purchase, IapInv, ClosedInv, NothingForgotten, Bought, TokenOf
<1>6. RequestInv'
  BY <1>2, KnowledgeKept DEF Purchase, IapInv, TypeOK, RequestInv, RequestRecord
<1>7. RowInv'
  BY <1>2, KnowledgeKept, RowsAre DEF Purchase, RowInv
<1>8. GrantInv'
  BY <1>2, KnowledgeKept DEF Purchase, IapInv, GrantInv, ExternalTypes
<1>9. SandboxBounded'
  <2>1. SandboxRows' = SandboxRows
    BY <1>1 DEF Purchase, SandboxRows, IapInv, ExternalTypes
  <2> QED
    BY <2>1 DEF IapInv, SandboxBounded
<1> QED
  BY <1>3, <1>4, <1>5, <1>6, <1>7, <1>8, <1>9 DEF IapInv

\* The canister credits the first request of a transaction.
LEMMA GrantKeeps ==
  ASSUME IapConstants, IapInv, NEW g \in sent, CanisterGrants(g)
  PROVE  IapInv'
<1> USE DEF workerVars
<1> DEFINE new == [database |-> g.database, amount |-> g.amount]
<1>1. /\ g.tx \in Transactions /\ Ordered(g.tx) /\ new \in GrantRecord
      /\ new = [database |-> Intent(g.tx).database, amount |-> Intent(g.tx).amount]
  BY OrderedTerms DEF IapInv, ExternalTypes, GrantInv, GrantRecord
<1>2. NothingForgotten
  BY <1>1 DEF CanisterGrants, NothingForgotten, IapInv, ExternalTypes
<1>3. TypeOK' /\ ExternalTypes'
  BY <1>1 DEF CanisterGrants, IapInv, TypeOK, ExternalTypes
<1>4. IntentInv'
  BY DEF CanisterGrants, IapInv, IntentInv
<1>5. ClosedInv'
  BY <1>2, KnowledgeKept DEF CanisterGrants, IapInv, ClosedInv, NothingForgotten, Bought, TokenOf
<1>6. RequestInv'
  BY <1>2, KnowledgeKept DEF CanisterGrants, IapInv, TypeOK, RequestInv, RequestRecord
<1>7. RowInv'
  BY <1>2, KnowledgeKept, RowsAre DEF CanisterGrants, RowInv
<1>8. GrantInv'
  <2>1. \A h \in sent' : Ordered(h.tx)' /\ h.database = Intent(h.tx)'.database
                         /\ h.amount = Intent(h.tx)'.amount
    BY <1>2, KnowledgeKept DEF CanisterGrants, IapInv, GrantInv, ExternalTypes
  <2>2. ASSUME NEW t \in Transactions, granted'[t] # None
        PROVE  /\ Ordered(t)
               /\ granted'[t] = [database |-> Intent(t).database, amount |-> Intent(t).amount]
    <3>1. CASE granted[t] # None
      BY <1>2, <3>1 DEF NothingForgotten, IapInv, GrantInv
    <3>2. CASE granted[t] = None
      <4>1. t = g.tx /\ granted'[t] = new
        BY <2>2, <3>2 DEF CanisterGrants, IapInv, ExternalTypes
      <4> QED
        BY <4>1, <1>1
    <3> QED
      BY <3>1, <3>2
  <2> QED
    BY <1>2, <2>1, <2>2, KnowledgeKept DEF GrantInv
<1>9. SandboxBounded'
  BY DEF CanisterGrants, IapInv, SandboxBounded, SandboxRows
<1> QED
  BY <1>3, <1>4, <1>5, <1>6, <1>7, <1>8, <1>9 DEF IapInv

\* Deployments and notifications touch nothing the invariant relates.
LEMMA OthersKeep ==
  ASSUME IapConstants, IapInv,
         \/ \E c \in Catalogs : Redeploy(c)
         \/ \E n \in Notifications : RecordNotification(n)
         \/ UNCHANGED iapVars
  PROVE  IapInv'
<1>1. UNCHANGED <<intent, row, request, purchased, sent, granted>>
  BY DEF Redeploy, RecordNotification, iapVars, workerVars, externalVars
<1>2. TypeOK' /\ ExternalTypes'
  BY <1>1 DEF Redeploy, RecordNotification, iapVars, workerVars, IapInv, TypeOK, ExternalTypes
<1>3. IntentInv' /\ RequestInv' /\ RowInv' /\ GrantInv' /\ ClosedInv' /\ SandboxBounded'
  BY <1>1 DEF IapInv, IntentInv, RequestInv, Seen, RowInv, RowOf, GrantInv, ClosedInv, Bought,
              Ordered, Intent, TokenOf, SandboxBounded, SandboxRows
<1> QED
  BY <1>2, <1>3 DEF IapInv

\* Every step of the worker, the App Store and the canister keeps the invariant.
LEMMA IapInvStep ==
  ASSUME IapConstants, IapInv, [Next]_iapVars
  PROVE  IapInv'
<1>1. CASE \E i \in Intents, d \in Databases, p \in Products : CreatePurchaseIntent(i, d, p)
  BY <1>1, CreateKeeps
<1>2. CASE \E a \in Requests : RequestStep(a)
  BY <1>2, MovesKeep, InsertKeeps, ClaimKeeps, SendKeeps, FinalizeKeeps, FailureKeeps
     DEF RequestStep
<1>3. CASE \E t \in Transactions : AppStoreStep(t)
  BY <1>3, PurchaseKeeps, ExpiryKeeps DEF AppStoreStep
<1>4. CASE \E g \in sent : CanisterGrants(g)
  BY <1>4, GrantKeeps
<1>5. CASE \/ \E c \in Catalogs : Redeploy(c)
           \/ \E n \in Notifications : RecordNotification(n)
           \/ UNCHANGED iapVars
  BY <1>5, OthersKeep
<1> QED
  BY <1>1, <1>2, <1>3, <1>4, <1>5 DEF Next

\* The invariant holds throughout.
LEMMA IapInvHolds ==
  ASSUME IapConstants
  PROVE  Spec => []IapInv
<1>1. Init => IapInv
  BY IapInvInit
<1>2. IapInv /\ [Next]_iapVars => IapInv'
  BY IapInvStep
<1> QED
  BY <1>1, <1>2, PTL DEF Spec

\* No step writes a fulfilled row: a claim needs another status, and what a
\* late request finalizes or fails is its own claim.
LEMMA FulfilledKept ==
  ASSUME IapInv, [Next]_iapVars
  PROVE  KeepsFulfilled
<1> SUFFICES ASSUME NEW t \in Transactions, row[t].status = "fulfilled" PROVE row'[t] = row[t]
  BY DEF KeepsFulfilled
<1>1. CASE row' = row
  BY <1>1
<1>2. ASSUME NEW u \in Transactions, LeaseExpires(u) PROVE row'[t] = row[t]
  <2>1. row[u].status = "granting"
    BY <1>2, RowsAre DEF LeaseExpires, RowOf
  <2> QED
    BY <1>2, <2>1 DEF LeaseExpires, IapInv, TypeOK
<1>3. ASSUME NEW a \in Requests, RequestStep(a), row' # row PROVE row'[t] = row[t]
  <2>1. \/ EnsureFulfillmentReceived(a) /\ MayInsert(request[a].tx)
        \/ MarkFulfillmentGranting(a) /\ Claimable(request[a].tx)
        \/ (FinalizeFulfillment(a) \/ MarkFulfillmentFailed(a)) /\ HoldsClaim(a, request[a].tx)
    BY <1>3 DEF RequestStep, Begin, Verify, Validate, EnsureFulfillmentReceived, ReadFulfillment,
                MarkFulfillmentGranting, SendGrant, GrantSucceeds, GrantFails,
                FinalizeFulfillment, FinalizeFails, MarkFulfillmentFailed, RequestDies
  <2>2. request[a].tx # t
    BY <2>1 DEF MayInsert, Claimable, HoldsClaim
  <2>3. \A u \in Transactions : u # request[a].tx => row'[u] = row[u]
    BY <2>1 DEF EnsureFulfillmentReceived, MarkFulfillmentGranting, FinalizeFulfillment,
                MarkFulfillmentFailed, IapInv, TypeOK
  <2> QED
    BY <2>2, <2>3
<1> QED
  BY <1>1, <1>2, <1>3 DEF Next, AppStoreStep, CreatePurchaseIntent, Redeploy, RecordNotification,
                          Purchase, CanisterGrants, iapVars, workerVars

-----------------------------------------------------------------------------
(* Theorems                                                                *)

\* Types: the tables of the worker hold the records its schema describes.
THEOREM IapTypes ==
  ASSUME IapConstants
  PROVE  Spec => []TypeOK
<1>1. IapInv => TypeOK
  BY DEF IapInv
<1> QED
  BY <1>1, IapInvHolds, PTL

\* Whatever requests run together, repeat or die, and whatever is deployed
\* meanwhile: a row that is reported fulfilled and an intent that is closed were
\* credited, with the database and the amount of the intent and for the product
\* paid, and the Sandbox rows stay within APP_STORE_SANDBOX_GRANT_LIMIT.
THEOREM IapConsistentHolds ==
  ASSUME IapConstants
  PROVE  Spec => []IapConsistent
<1>1. IapInv => IapConsistent
  BY IapInvPromises
<1> QED
  BY <1>1, IapInvHolds, PTL

\* A fulfilled row is final: no claim, no late finalize or failure and no lease
\* changes it.
THEOREM FulfilledIsFinalHolds ==
  ASSUME IapConstants
  PROVE  Spec => FulfilledIsFinal
<1>1. IapInv /\ [Next]_iapVars => [KeepsFulfilled]_iapVars
  BY FulfilledKept
<1> QED
  BY <1>1, IapInvHolds, PTL DEF Spec, FulfilledIsFinal

=============================================================================
