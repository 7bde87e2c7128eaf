---------------------------- MODULE MarketPurchase ----------------------------
(***************************************************************************)
(* The marketplace: listings of databases, market_purchase_access with its *)
(* await on the KINIC ledger, orders, and the entitlements that let a      *)
(* buyer read a database without being a member of it.                     *)
(*                                                                         *)
(* The purchase runs the same saga as purchase_database_cycles, but its    *)
(* operations do not hold back delete_database, and listings change while  *)
(* a purchase waits.  Only active databases can be listed, so the model    *)
(* starts from active ones; a database without owner is a deleted one      *)
(* (DatabaseCycles shows that every other database has an owner).          *)
(***************************************************************************)
EXTENDS Integers, FiniteSets

CONSTANTS
  Databases,
  Principals,   \* owners, sellers, buyers (access_principal)
  Authority,    \* billing_authority_id, who may edit every listing
  Payouts,      \* principals that receive the payment
  Prices,       \* price_e8s
  Listings,     \* generated listing ids
  Operations,   \* operation ids (AUTOINCREMENT)
  ForeignKeys,  \* does the SQLite build enforce FOREIGN KEY clauses
  None          \* no principal, no database, no listing

ASSUME MarketAssumption ==
  /\ Authority \notin Principals
  /\ ForeignKeys \in BOOLEAN
  /\ None \notin Principals \union Databases \union Listings \union Payouts

VARIABLES
  owners,        \* database_members with role owner; {} once deleted
  listing,       \* market_listings
  sold,          \* market_listings.purchase_count
  op,            \* market_purchase_pending_operations
  order,         \* market_orders, by the operation that wrote the row
  entitlements,  \* market_entitlements
  saga,          \* where each market_purchase_access call stands
  transfer,      \* the KINIC ledger's side: status, receiver and amount
  left           \* principals whose account was deleted and not named since

marketVars == <<listing, sold, entitlements>>
opVars     == <<op, order, saga, transfer>>
vars       == <<owners, marketVars, opVars, left>>

ListingStatus == {"unused", "active", "paused", "removed"}

\* A listing id that no row has, or not any more.
NoListing(s) == [status |-> s, database |-> None, seller |-> None,
                 payout |-> None, price |-> 0]
Listed(l) == listing[l].status \in {"active", "paused"}

NoOp == [status |-> "absent", listing |-> None, database |-> None, buyer |-> None,
         seller |-> None, payout |-> None, price |-> 0]
NoTransfer == [status |-> "none", to |-> None, amount |-> 0]

\* What an order copies from its operation.
Snapshot(o) == [listing |-> op[o].listing, database |-> op[o].database,
                buyer |-> op[o].buyer, seller |-> op[o].seller,
                payout |-> op[o].payout, price |-> op[o].price]
NoOrder == [listing |-> None, database |-> None, buyer |-> None, seller |-> None,
            payout |-> None, price |-> 0]
Ordered(o) == order[o] # NoOrder

WithStatus(o, s) == [status |-> s, listing |-> op[o].listing,
                     database |-> op[o].database, buyer |-> op[o].buyer,
                     seller |-> op[o].seller, payout |-> op[o].payout,
                     price |-> op[o].price]
Open(o) == op[o].status # "absent"

-----------------------------------------------------------------------------
(* Listings                                                                *)

\* require_market_seller_can_list
SellerCanList(s, d) == s \in owners[d]

\* require_market_listing_seller_or_admin
MayEdit(c, l) == c = listing[l].seller \/ c = Authority

\* market_create_listing
CreateListing(c, l, d, payout, price) ==
  /\ listing[l].status = "unused"
  /\ SellerCanList(c, d)
  /\ listing' = [listing EXCEPT ![l] = [status |-> "active", database |-> d, seller |-> c,
                                        payout |-> payout, price |-> price]]
  /\ UNCHANGED <<owners, sold, entitlements, opVars, left>>

\* market_update_listing.  The revision the caller must name only orders the
\* editors among themselves and is left out.
UpdateListing(c, l, payout, price) ==
  /\ Listed(l) /\ MayEdit(c, l)
  /\ listing[l].status = "active" => SellerCanList(listing[l].seller, listing[l].database)
  /\ listing' = [listing EXCEPT ![l] = [status |-> listing[l].status,
                                        database |-> listing[l].database,
                                        seller |-> listing[l].seller,
                                        payout |-> payout, price |-> price]]
  /\ UNCHANGED <<owners, sold, entitlements, opVars, left>>

\* market_set_listing_status: market_publish_listing and market_pause_listing.
SetListingStatus(c, l, s) ==
  /\ Listed(l) /\ MayEdit(c, l)
  /\ s = "active" => SellerCanList(listing[l].seller, listing[l].database)
  /\ listing' = [listing EXCEPT ![l] = [status |-> s,
                                        database |-> listing[l].database,
                                        seller |-> listing[l].seller,
                                        payout |-> listing[l].payout,
                                        price |-> listing[l].price]]
  /\ UNCHANGED <<owners, sold, entitlements, opVars, left>>

-----------------------------------------------------------------------------
(* market_purchase_access                                                  *)

\* has_active_market_entitlement
HasEntitlement(d, b) == \E e \in entitlements : e.database = d /\ e.buyer = b

NoneOpen_InFlight(l, b) ==
  \A o \in Operations : op[o].status = "in_flight" => op[o].listing # l \/ op[o].buyer # b

\* ensure_no_pending_market_purchase_for_buyer
NoneOpen(l, b) == \A o \in Operations : Open(o) => op[o].listing # l \/ op[o].buyer # b

\* Up to the await: validate_market_purchase_request and the operation, in one
\* transaction; then the transfer request leaves with the terms of the listing.
BeginPurchase(o, l, b, price) ==
  /\ saga[o] = "unused"
  /\ listing[l].status = "active"
  /\ SellerCanList(listing[l].seller, listing[l].database)
  /\ price = listing[l].price
  /\ b # listing[l].seller
  /\ ~HasEntitlement(listing[l].database, b)
  /\ NoneOpen(l, b)
  /\ op' = [op EXCEPT ![o] = [status |-> "in_flight", listing |-> l,
                              database |-> listing[l].database, buyer |-> b,
                              seller |-> listing[l].seller,
                              payout |-> listing[l].payout, price |-> price]]
  /\ saga' = [saga EXCEPT ![o] = "awaiting"]
  /\ transfer' = [transfer EXCEPT ![o] = [status |-> "sent", to |-> listing[l].payout,
                                          amount |-> price]]
  /\ left' = left \ {b}
  /\ UNCHANGED <<owners, marketVars, order>>

\* The ledger (external) executes or refuses the transfer, whether or not the
\* canister still waits for the answer.
LedgerDecides(o) ==
  /\ transfer[o].status = "sent"
  /\ \E answer \in {"moved", "refused"} :
       transfer' = [transfer EXCEPT ![o] = [status |-> answer, to |-> transfer[o].to,
                                            amount |-> transfer[o].amount]]
  /\ UNCHANGED <<owners, marketVars, op, order, saga, left>>

Resumes(o) ==
  /\ saga[o] = "awaiting"
  /\ op[o].status = "in_flight"
  /\ saga' = [saga EXCEPT ![o] = "returned"]

NewOrder_FromListing(o) ==
  LET l == op[o].listing IN
  [listing |-> l, database |-> op[o].database, buyer |-> op[o].buyer,
   seller |-> listing[l].seller, payout |-> listing[l].payout, price |-> listing[l].price]

NewOrder(o) == Snapshot(o)

MayEntitle_Always(d, b) == TRUE

\* apply_market_purchase refuses a second active entitlement; the foreign key
\* of market_entitlements, where enforced, refuses a deleted database.
MayEntitle(d, b) == ~HasEntitlement(d, b) /\ (ForeignKeys => owners[d] # {})

CountSale_First(l) == sold' = IF Listed(l) THEN [sold EXCEPT ![l] = 1] ELSE sold

CountSale(l) == sold' = IF Listed(l) THEN [sold EXCEPT ![l] = @ + 1] ELSE sold

PurchaseCompleted_OnAnyAnswer(o) ==
  LET l == op[o].listing IN
  /\ transfer[o].status \in {"moved", "refused"}
  /\ Resumes(o)
  /\ MayEntitle(op[o].database, op[o].buyer)
  /\ order' = [order EXCEPT ![o] = NewOrder(o)]
  /\ entitlements' = entitlements \union
       {[database |-> op[o].database, buyer |-> op[o].buyer, listing |-> l, order |-> o]}
  /\ CountSale(l)
  /\ op' = [op EXCEPT ![o] = NoOp]
  /\ UNCHANGED <<owners, listing, transfer, left>>

\* Ok(block) or Duplicate: complete_market_purchase_ledger_transfer, then
\* apply_market_purchase in one transaction.
PurchaseCompleted(o) ==
  LET l == op[o].listing IN
  /\ transfer[o].status = "moved"
  /\ Resumes(o)
  /\ MayEntitle(op[o].database, op[o].buyer)
  /\ order' = [order EXCEPT ![o] = NewOrder(o)]
  /\ entitlements' = entitlements \union
       {[database |-> op[o].database, buyer |-> op[o].buyer, listing |-> l, order |-> o]}
  /\ CountSale(l)
  /\ op' = [op EXCEPT ![o] = NoOp]
  /\ UNCHANGED <<owners, listing, transfer, left>>

\* The transfer is recorded as completed but apply_market_purchase fails (an
\* entitlement bought meanwhile, a deleted database, storage): kept for review.
PurchaseNotApplied(o) ==
  /\ transfer[o].status = "moved"
  /\ Resumes(o)
  /\ op' = [op EXCEPT ![o] = WithStatus(o, "completed")]
  /\ UNCHANGED <<owners, marketVars, order, transfer, left>>

\* BadFee or another explicit ledger error: cancel_market_purchase.
PurchaseRefused(o) ==
  /\ transfer[o].status = "refused"
  /\ Resumes(o)
  /\ op' = [op EXCEPT ![o] = NoOp]
  /\ UNCHANGED <<owners, marketVars, order, transfer, left>>

PurchaseAmbiguous_Cancelled(o) ==
  /\ Resumes(o)
  /\ op' = [op EXCEPT ![o] = NoOp]
  /\ UNCHANGED <<owners, marketVars, order, transfer, left>>

\* The call fails or its reply does not decode: mark_market_purchase_ambiguous.
PurchaseAmbiguous(o) ==
  /\ Resumes(o)
  /\ op' = [op EXCEPT ![o] = WithStatus(o, "ambiguous")]
  /\ UNCHANGED <<owners, marketVars, order, transfer, left>>

\* The rest of the call is lost: its callback traps and is rolled back, or the
\* cancel or the ambiguous mark itself fails.
PurchaseAbandoned(o) ==
  /\ Resumes(o)
  /\ UNCHANGED <<owners, marketVars, op, order, transfer, left>>

-----------------------------------------------------------------------------
(* Access and deletion, as far as they touch the marketplace               *)

\* grant_database_access with role owner.
GrantOwner(c, d, p) ==
  /\ c \in owners[d] /\ p \notin owners[d]
  /\ owners' = [owners EXCEPT ![d] = @ \union {p}]
  /\ left' = left \ {p}
  /\ UNCHANGED <<marketVars, opVars>>

\* revoke_database_access, or grant_database_access with a lesser role.
RevokeOwner(c, d, p) ==
  /\ c \in owners[d] /\ p \in owners[d] /\ c # p
  /\ owners' = [owners EXCEPT ![d] = @ \ {p}]
  /\ UNCHANGED <<marketVars, opVars, left>>

RemoveListings(gone) ==
  listing' = [l \in Listings |-> IF gone[l] THEN NoListing("removed") ELSE listing[l]]

\* delete_database: listings and entitlements of the database go, its orders
\* and its pending marketplace operations stay.  (Pending cycles purchases
\* hold it back: DatabaseCycles.)
DeleteDatabase(c, d) ==
  /\ c \in owners[d]
  /\ owners' = [owners EXCEPT ![d] = {}]
  /\ RemoveListings([l \in Listings |-> Listed(l) /\ listing[l].database = d])
  /\ entitlements' = {e \in entitlements : e.database # d}
  /\ UNCHANGED <<sold, opVars, left>>

SoleOwned(c) == {d \in Databases : owners[d] = {c}}

AccountIsQuiet_AsBuyer(c) ==
  \A o \in Operations : Open(o) => op[o].buyer # c /\ op[o].database \notin SoleOwned(c)

\* require_no_account_deletion_pending_operations
AccountIsQuiet(c) ==
  \A o \in Operations : Open(o) =>
    op[o].buyer # c /\ op[o].seller # c /\ op[o].database \notin SoleOwned(c)

KeptEntitlements_OfOtherSellers(gone, c) ==
  {e \in entitlements : e.database \notin gone /\ e.buyer # c
                         /\ listing[e.listing].seller # c}

KeptEntitlements(gone, c) == {e \in entitlements : e.database \notin gone /\ e.buyer # c}

\* delete_account: the solely owned databases, then the caller's listings,
\* entitlements and memberships.  One that stops half way has done what
\* DeleteDatabase does for some of the databases.
DeleteAccount(c) ==
  LET gone == SoleOwned(c) IN
  /\ c \notin left
  /\ AccountIsQuiet(c)
  /\ owners' = [d \in Databases |-> owners[d] \ {c}]
  /\ RemoveListings([l \in Listings |->
       Listed(l) /\ (listing[l].database \in gone \/ listing[l].seller = c)])
  /\ entitlements' = KeptEntitlements(gone, c)
  /\ left' = left \union {c}
  /\ UNCHANGED <<sold, opVars>>

-----------------------------------------------------------------------------

\* Active databases with their owners, nothing listed yet.
Init ==
  /\ owners \in [Databases -> SUBSET Principals \ {{}}]
  /\ listing = [l \in Listings |-> NoListing("unused")]
  /\ sold = [l \in Listings |-> 0]
  /\ op = [o \in Operations |-> NoOp]
  /\ order = [o \in Operations |-> NoOrder]
  /\ entitlements = {}
  /\ saga = [o \in Operations |-> "unused"]
  /\ transfer = [o \in Operations |-> NoTransfer]
  /\ left = {}

ListingStep(l) ==
  \/ \E c \in Principals, d \in Databases, payout \in Payouts, price \in Prices :
       CreateListing(c, l, d, payout, price)
  \/ \E c \in Principals \union {Authority}, payout \in Payouts, price \in Prices :
       UpdateListing(c, l, payout, price)
  \/ \E c \in Principals \union {Authority}, s \in {"active", "paused"} :
       SetListingStatus(c, l, s)

PurchaseStep(o) ==
  \/ \E l \in Listings, b \in Principals, price \in Prices : BeginPurchase(o, l, b, price)
  \/ LedgerDecides(o)
  \/ PurchaseCompleted(o)
  \/ PurchaseNotApplied(o)
  \/ PurchaseRefused(o)
  \/ PurchaseAmbiguous(o)
  \/ PurchaseAbandoned(o)

AccessStep(c) ==
  \/ \E d \in Databases, p \in Principals : GrantOwner(c, d, p)
  \/ \E d \in Databases, p \in Principals : RevokeOwner(c, d, p)
  \/ \E d \in Databases : DeleteDatabase(c, d)
  \/ DeleteAccount(c)

Next ==
  \/ \E l \in Listings : ListingStep(l)
  \/ \E o \in Operations : PurchaseStep(o)
  \/ \E c \in Principals : AccessStep(c)

Spec == Init /\ [][Next]_vars

-----------------------------------------------------------------------------
(* Properties                                                              *)

OrderRecord == [listing : Listings, database : Databases, buyer : Principals,
                seller : Principals, payout : Payouts, price : Prices]

\* The marketplace tables hold what their columns allow; an order is complete
\* even if its listing is gone when apply_market_purchase writes it.
TypeOK ==
  /\ owners \in [Databases -> SUBSET Principals]
  /\ listing \in [Listings -> [status : ListingStatus, database : Databases \union {None},
                               seller : Principals \union {None},
                               payout : Payouts \union {None}, price : Prices \union {0}]]
  /\ sold \in [Listings -> Nat]
  /\ op \in [Operations -> [status : {"absent", "in_flight", "completed", "ambiguous"},
                            listing : Listings \union {None},
                            database : Databases \union {None},
                            buyer : Principals \union {None},
                            seller : Principals \union {None},
                            payout : Payouts \union {None}, price : Prices \union {0}]]
  /\ order \in [Operations -> OrderRecord \union {NoOrder}]
  /\ entitlements \in SUBSET [database : Databases, buyer : Principals,
                              listing : Listings, order : Operations]
  /\ saga \in [Operations -> {"unused", "awaiting", "returned"}]
  /\ transfer \in [Operations -> [status : {"none", "sent", "moved", "refused"},
                                  to : Payouts \union {None}, amount : Prices \union {0}]]
  /\ left \in SUBSET Principals

\* Two purchases that overlap, also through two listings of one database,
\* leave the buyer one active entitlement (market_entitlements_database_buyer
\* _active_idx).
OneEntitlement ==
  \A e, f \in entitlements : e.database = f.database /\ e.buyer = f.buyer => e = f

\* An order names the receiver and the amount of the transfer it stands for,
\* although the listing was updated, paused or removed during the await.
OrderMatchesTransfer ==
  \A o \in Operations : Ordered(o) =>
    /\ transfer[o].status = "moved"
    /\ order[o].payout = transfer[o].to
    /\ order[o].price = transfer[o].amount

\* An entitlement is backed by a paid order for the same database and buyer.
EntitlementIsPaid ==
  \A e \in entitlements :
    /\ transfer[e.order].status = "moved"
    /\ order[e.order].database = e.database /\ order[e.order].buyer = e.buyer

\* Through one listing a buyer holds an entitlement or one unresolved payment,
\* never two payments at once, also after an ambiguous answer.
NoDoubleCharge ==
  \A o, p \in Operations : Open(o) /\ op[o].listing = op[p].listing /\ op[o].buyer = op[p].buyer =>
    o = p /\ \A e \in entitlements : e.listing # op[o].listing \/ e.buyer # op[o].buyer

\* purchase_count of a listing still there is the number of its orders.
CountsOrders ==
  \A l \in Listings : Listed(l) =>
    sold[l] = Cardinality({o \in Operations : Ordered(o) /\ order[o].listing = l})

\* After delete_account nothing of the marketplace names the principal, and no
\* purchase that was under way brings it back.
AccountIsGone ==
  \A c \in left :
    /\ \A d \in Databases : c \notin owners[d]
    /\ \A l \in Listings : listing[l].seller # c
    /\ \A o \in Operations : Open(o) => op[o].buyer # c /\ op[o].seller # c
    /\ \A e \in entitlements : e.buyer # c

\* An entitlement outlives its listing and its seller: only the deletion of
\* the database or of the buyer's account takes it away.
EntitlementLasts ==
  [][\A e \in entitlements \ entitlements' : owners'[e.database] = {} \/ e.buyer \in left']_vars

\* The payer's view of a purchase.
PurchasePhase(o) ==
  IF Open(o) THEN "open"
  ELSE IF Ordered(o) THEN "settled"
  ELSE IF saga[o] = "unused" THEN "new" ELSE "void"

Promise == INSTANCE PaymentPromise WITH
  phase <- [o \in Operations |-> PurchasePhase(o)],
  paid  <- {o \in Operations : transfer[o].status = "moved"}

\* market_purchase_access keeps the promise of PaymentPromise although
\* delete_database does not wait for marketplace operations.
KeepsPromise == Promise!PromiseSpec

=============================================================================
