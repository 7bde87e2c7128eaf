------------------------- MODULE MarketPurchaseProofs -------------------------
(* Theorems about MarketPurchase, for any number of databases, principals, *)
(* listings and purchases, and for both settings of ForeignKeys.           *)
EXTENDS MarketPurchase, FiniteSetTheorems, TLAPS

-----------------------------------------------------------------------------
(* The inductive invariant                                                 *)

\* A row of market_listings is complete; an id without a row names nobody.
ListingInv ==
  \A l \in Listings :
    /\ Listed(l) => /\ listing[l].database \in Databases /\ listing[l].seller \in Principals
                    /\ listing[l].payout \in Payouts /\ listing[l].price \in Prices
    /\ ~Listed(l) => listing[l].seller = None

\* How far the ledger and the canister are with one purchase.  A transfer on
\* its way keeps its operation: the ledger may execute it after everybody
\* stopped waiting.
OperationInv ==
  \A o \in Operations :
    /\ Open(o) => /\ Snapshot(o) \in OrderRecord /\ ~Ordered(o) /\ saga[o] # "unused"
                  /\ op[o].payout = transfer[o].to /\ op[o].price = transfer[o].amount
    /\ ~Open(o) => op[o].listing = None
    /\ saga[o] = "unused" => transfer[o].status = "none" /\ ~Open(o) /\ ~Ordered(o)
    /\ saga[o] = "awaiting" => op[o].status = "in_flight"
    /\ transfer[o].status = "none" => saga[o] = "unused"
    /\ transfer[o].status \in {"sent", "moved"} => Open(o) \/ Ordered(o)

\* The listing behind an operation, an entitlement or an order was created, and
\* while it is there it is for the same database: ids are never used again.
ListingOf(l, d) ==
  /\ listing[l].status # "unused"
  /\ Listed(l) => listing[l].database = d
ReferenceInv ==
  /\ \A o \in Operations : Open(o) => ListingOf(op[o].listing, op[o].database)
  /\ \A e \in entitlements : ListingOf(e.listing, e.database)
  /\ \A o \in Operations : Ordered(o) => listing[order[o].listing].status # "unused"

\* CountsOrders, with what it rests on: orders can be counted, and a listing
\* that is still to be created has none.
OrdersOf(l) == {o \in Operations : Ordered(o) /\ order[o].listing = l}
CountInv ==
  \A l \in Listings :
    /\ IsFiniteSet(OrdersOf(l))
    /\ listing[l].status = "unused" => sold[l] = 0
    /\ Listed(l) => sold[l] = Cardinality(OrdersOf(l))

Rows == TypeOK /\ ListingInv /\ OperationInv /\ ReferenceInv
Promises == /\ OneEntitlement /\ OrderMatchesTransfer /\ EntitlementIsPaid
            /\ NoDoubleCharge /\ AccountIsGone

MarketInv == Rows /\ Promises /\ CountInv

-----------------------------------------------------------------------------
(* Operators                                                               *)

\* An order that was written is not the empty one.
LEMMA OrdersAreNotEmpty == NoOrder \notin OrderRecord
  BY MarketAssumption DEF NoOrder, OrderRecord

\* An operation that is open was begun with a complete snapshot.
LEMMA OpenOperation ==
  ASSUME Rows, NEW o \in Operations, Open(o)
  PROVE  /\ op[o].listing \in Listings /\ op[o].database \in Databases
         /\ op[o].buyer \in Principals /\ op[o].seller \in Principals
         /\ op[o].payout \in Payouts /\ op[o].price \in Prices
  BY DEF Rows, OperationInv, Snapshot, OrderRecord

\* What every step leaves of the listings: an id once used stays used, a row
\* that is there was there before or its id was new, and keeps its database.
ListingsKept ==
  \A l \in Listings : listing[l].status # "unused" =>
    /\ listing'[l].status # "unused"
    /\ Listed(l)' => Listed(l) /\ listing'[l].database = listing[l].database

\* Listings leave by delete_database and delete_account only, and go for good.
LEMMA RemovedListings ==
  ASSUME TypeOK, NEW c \in Principals, AccessStep(c)
  PROVE  /\ listing' = [l \in Listings |-> listing'[l]]
         /\ \A l \in Listings : listing'[l] \in {listing[l], NoListing("removed")}
<1>1. ASSUME NEW gone, RemoveListings(gone)
      PROVE  /\ listing' = [l \in Listings |-> listing'[l]]
             /\ \A l \in Listings : listing'[l] \in {listing[l], NoListing("removed")}
  BY <1>1 DEF RemoveListings
<1>2. CASE UNCHANGED listing
  BY <1>2 DEF TypeOK
<1>3. ASSUME NEW d \in Databases, DeleteDatabase(c, d)
      PROVE  \E gone : RemoveListings(gone)
  BY <1>3 DEF DeleteDatabase
<1>4. ASSUME DeleteAccount(c)
      PROVE  \E gone : RemoveListings(gone)
  BY <1>4 DEF DeleteAccount
<1> QED
  BY <1>1, <1>2, <1>3, <1>4 DEF AccessStep, GrantOwner, RevokeOwner, marketVars

\* Every step leaves that of the listings.
LEMMA ListingsAreKept ==
  ASSUME TypeOK, [Next]_vars
  PROVE  ListingsKept
<1> USE DEF ListingsKept, Listed, TypeOK
<1>1. CASE UNCHANGED listing
  BY <1>1
<1>2. ASSUME NEW l \in Listings, ListingStep(l) PROVE ListingsKept
  BY <1>2 DEF ListingStep, CreateListing, UpdateListing, SetListingStatus
<1>3. ASSUME NEW c \in Principals, AccessStep(c) PROVE ListingsKept
  BY <1>3, RemovedListings DEF NoListing
<1>4. ASSUME NEW o \in Operations, PurchaseStep(o) PROVE UNCHANGED listing
  BY <1>4 DEF PurchaseStep, BeginPurchase, LedgerDecides, PurchaseCompleted,
              PurchaseNotApplied, PurchaseRefused, PurchaseAmbiguous, PurchaseAbandoned,
              marketVars
<1> QED
  BY <1>1, <1>2, <1>3, <1>4 DEF Next, vars, marketVars

\* A row of market_listings, and what market_create_listing, market_update_listing,
\* market_publish_listing and market_pause_listing write: a complete row.
ListingRow == [status : {"active", "paused"}, database : Databases, seller : Principals,
               payout : Payouts, price : Prices]

\* A seller's step on a listing writes one well-formed row.
LEMMA EditedListing ==
  ASSUME Rows, NEW l \in Listings, ListingStep(l)
  PROVE  \E r \in ListingRow : listing' = [listing EXCEPT ![l] = r]
<1>1. Listed(l) => /\ listing[l].database \in Databases /\ listing[l].seller \in Principals
                   /\ listing[l].payout \in Payouts /\ listing[l].price \in Prices
                   /\ listing[l].status \in {"active", "paused"}
  BY DEF Rows, ListingInv, Listed
<1>2. ASSUME NEW c \in Principals, NEW d \in Databases, NEW payout \in Payouts,
             NEW price \in Prices, CreateListing(c, l, d, payout, price)
      PROVE  \E r \in ListingRow : listing' = [listing EXCEPT ![l] = r]
  BY <1>2 DEF CreateListing, ListingRow
<1>3. ASSUME NEW c, NEW payout \in Payouts, NEW price \in Prices,
             UpdateListing(c, l, payout, price)
      PROVE  \E r \in ListingRow : listing' = [listing EXCEPT ![l] = r]
  BY <1>1, <1>3 DEF UpdateListing, ListingRow
<1>4. ASSUME NEW c, NEW s \in {"active", "paused"}, SetListingStatus(c, l, s)
      PROVE  \E r \in ListingRow : listing' = [listing EXCEPT ![l] = r]
  BY <1>1, <1>4 DEF SetListingStatus, ListingRow
<1> QED
  BY <1>2, <1>3, <1>4 DEF ListingStep

\* delete_database and delete_account only ever remove entitlements.
LEMMA AccessFrame ==
  ASSUME TypeOK, NEW c \in Principals, AccessStep(c)
  PROVE  /\ UNCHANGED <<sold, opVars>>
         /\ entitlements' \in SUBSET entitlements
  BY DEF AccessStep, GrantOwner, RevokeOwner, DeleteDatabase, DeleteAccount,
         KeptEntitlements, marketVars

-----------------------------------------------------------------------------
(* Every step keeps the rows                                               *)

\* An empty market satisfies the invariant.
LEMMA InitMarketInv == Init => MarketInv
<1> SUFFICES ASSUME Init PROVE MarketInv
  OBVIOUS
<1>1. Rows
  BY MarketAssumption
  DEF Init, Rows, TypeOK, ListingInv, OperationInv, ReferenceInv, Listed, Open, Ordered,
      NoListing, NoOp, NoOrder, NoTransfer, ListingStatus
<1>2. Promises
  BY DEF Init, Promises, OneEntitlement, OrderMatchesTransfer, EntitlementIsPaid,
         NoDoubleCharge, AccountIsGone, Open, Ordered, NoOp, NoOrder
<1>3. \A l \in Listings : OrdersOf(l) = {}
  BY DEF Init, OrdersOf, Ordered, NoOrder
<1>4. CountInv
  BY <1>3, FS_EmptySet DEF Init, CountInv, Listed, NoListing
<1> QED
  BY <1>1, <1>2, <1>4 DEF MarketInv

\* Editing a listing changes that listing only.
LEMMA RowsOfListingStep ==
  ASSUME Rows, NEW l \in Listings, ListingStep(l)
  PROVE  Rows'
<1> USE DEF Rows, opVars
<1>1. ListingsKept
  BY ListingsAreKept DEF Next
<1>2. UNCHANGED <<owners, sold, entitlements, opVars, left>>
  BY DEF ListingStep, CreateListing, UpdateListing, SetListingStatus
<1>3. TypeOK' /\ ListingInv'
  <2>1. PICK r \in ListingRow : listing' = [listing EXCEPT ![l] = r]
    BY EditedListing
  <2> QED
    BY <1>2, <2>1 DEF TypeOK, ListingInv, Listed, ListingStatus, ListingRow
<1>4. OperationInv'
  BY <1>2 DEF OperationInv, Open, Ordered, Snapshot
<1>5. ReferenceInv'
  BY <1>1, <1>2, OpenOperation DEF ReferenceInv, ListingOf, ListingsKept, Open, Ordered, TypeOK,
     OrderRecord
<1> QED
  BY <1>3, <1>4, <1>5

\* Changes of access and deletions remove rows and add none.
LEMMA RowsOfAccessStep ==
  ASSUME Rows, NEW c \in Principals, AccessStep(c)
  PROVE  Rows'
<1> USE DEF Rows, opVars
<1>1. ListingsKept
  BY ListingsAreKept DEF Next
<1>2. UNCHANGED <<sold, opVars>> /\ entitlements' \in SUBSET entitlements
  BY AccessFrame
<1>3. ListingInv' /\ listing' \in [Listings -> [status : ListingStatus,
                               database : Databases \union {None},
                               seller : Principals \union {None},
                               payout : Payouts \union {None}, price : Prices \union {0}]]
  BY RemovedListings DEF NoListing, TypeOK, ListingInv, Listed, ListingStatus
<1>4. owners' \in [Databases -> SUBSET Principals] /\ left' \in SUBSET Principals
  <2>1. ASSUME NEW d \in Databases, NEW p \in Principals,
               GrantOwner(c, d, p) \/ RevokeOwner(c, d, p)
        PROVE  owners' \in [Databases -> SUBSET Principals] /\ left' \in SUBSET Principals
    BY <2>1 DEF GrantOwner, RevokeOwner, TypeOK
  <2>2. ASSUME NEW d \in Databases, DeleteDatabase(c, d)
        PROVE  owners' \in [Databases -> SUBSET Principals] /\ left' \in SUBSET Principals
    BY <2>2 DEF DeleteDatabase, TypeOK
  <2>3. CASE DeleteAccount(c)
    BY <2>3 DEF DeleteAccount, TypeOK
  <2> QED
    BY <2>1, <2>2, <2>3 DEF AccessStep
<1>5. TypeOK'
  BY <1>2, <1>3, <1>4 DEF TypeOK
<1>6. OperationInv'
  BY <1>2 DEF OperationInv, Open, Ordered, Snapshot
<1>7. ReferenceInv'
  BY <1>1, <1>2, OpenOperation DEF ReferenceInv, ListingOf, ListingsKept, Open, Ordered, TypeOK,
     OrderRecord
<1> QED
  BY <1>5, <1>3, <1>6, <1>7

\* A message of one purchase, or the ledger's answer to it, leaves the other
\* purchases, the listings and the memberships alone.
LEMMA PurchaseFrame ==
  ASSUME TypeOK, NEW o \in Operations, PurchaseStep(o)
  PROVE  /\ UNCHANGED <<owners, listing>>
         /\ \A q \in Operations \ {o} :
              /\ op'[q] = op[q] /\ order'[q] = order[q]
              /\ saga'[q] = saga[q] /\ transfer'[q] = transfer[q]
<1> USE DEF TypeOK, marketVars
<1>1. ASSUME NEW l \in Listings, NEW b \in Principals, NEW price \in Prices,
             BeginPurchase(o, l, b, price)
      PROVE  /\ UNCHANGED <<owners, listing>>
             /\ \A q \in Operations \ {o} :
                  /\ op'[q] = op[q] /\ order'[q] = order[q]
                  /\ saga'[q] = saga[q] /\ transfer'[q] = transfer[q]
  BY <1>1 DEF BeginPurchase
<1> QED
  BY <1>1 DEF PurchaseStep, LedgerDecides, PurchaseCompleted, PurchaseNotApplied,
              PurchaseRefused, PurchaseAmbiguous, PurchaseAbandoned, Resumes

\* What is asked of one purchase in OperationInv and ReferenceInv.
OperationIsSound(o) ==
  /\ Open(o) => /\ Snapshot(o) \in OrderRecord /\ ~Ordered(o) /\ saga[o] # "unused"
                /\ op[o].payout = transfer[o].to /\ op[o].price = transfer[o].amount
                /\ ListingOf(op[o].listing, op[o].database)
  /\ ~Open(o) => op[o].listing = None
  /\ saga[o] = "unused" => transfer[o].status = "none" /\ ~Open(o) /\ ~Ordered(o)
  /\ saga[o] = "awaiting" => op[o].status = "in_flight"
  /\ transfer[o].status = "none" => saga[o] = "unused"
  /\ transfer[o].status \in {"sent", "moved"} => Open(o) \/ Ordered(o)
  /\ Ordered(o) => listing[order[o].listing].status # "unused"

\* A purchase moves along its own life, whatever the listing does meanwhile.
LEMMA OneOperation ==
  ASSUME Rows, NEW o \in Operations, PurchaseStep(o)
  PROVE  OperationIsSound(o)'
<1> USE DEF OperationIsSound, Open, Ordered, Snapshot, ListingOf, Listed
<1>0. OperationIsSound(o)
  BY DEF Rows, OperationInv, ReferenceInv
<1>1. ASSUME NEW l \in Listings, NEW b \in Principals, NEW price \in Prices,
             BeginPurchase(o, l, b, price)
      PROVE  OperationIsSound(o)'
  <2>1. /\ listing[l].database \in Databases /\ listing[l].seller \in Principals
        /\ listing[l].payout \in Payouts /\ listing[l].status = "active"
    BY <1>1 DEF BeginPurchase, Rows, ListingInv
  <2>2. /\ op'[o] = [status |-> "in_flight", listing |-> l, database |-> listing[l].database,
                     buyer |-> b, seller |-> listing[l].seller,
                     payout |-> listing[l].payout, price |-> price]
        /\ saga'[o] = "awaiting"
        /\ transfer'[o] = [status |-> "sent", to |-> listing[l].payout, amount |-> price]
        /\ UNCHANGED <<listing, order>>
    BY <1>1 DEF BeginPurchase, Rows, TypeOK, marketVars
  <2>3. saga[o] = "unused"
    BY <1>1 DEF BeginPurchase
  <2> QED
    BY <1>0, <2>1, <2>2, <2>3 DEF OrderRecord
<1>2. CASE LedgerDecides(o)
  <2>1. PICK answer \in {"moved", "refused"} :
          transfer'[o] = [status |-> answer, to |-> transfer[o].to, amount |-> transfer[o].amount]
    BY <1>2 DEF LedgerDecides, Rows, TypeOK
  <2>2. transfer[o].status = "sent" /\ UNCHANGED <<op, order, saga, listing>>
    BY <1>2 DEF LedgerDecides, marketVars
  <2> QED
    BY <1>0, <2>1, <2>2
<1>3. CASE PurchaseCompleted(o)
  <2>1. /\ op'[o] = NoOp /\ order'[o] = Snapshot(o) /\ saga'[o] = "returned"
        /\ transfer[o].status = "moved" /\ op[o].status = "in_flight"
        /\ UNCHANGED <<listing, transfer>>
    BY <1>3 DEF PurchaseCompleted, Resumes, NewOrder, Rows, TypeOK
  <2>2. Snapshot(o) # NoOrder
    BY <1>0, <2>1, OrdersAreNotEmpty
  <2> QED
    BY <1>0, <2>1, <2>2 DEF NoOp
<1>4. CASE PurchaseRefused(o)
  <2>1. /\ op'[o] = NoOp /\ saga'[o] = "returned" /\ transfer[o].status = "refused"
        /\ op[o].status = "in_flight" /\ UNCHANGED <<listing, order, transfer>>
    BY <1>4 DEF PurchaseRefused, Resumes, marketVars, Rows, TypeOK
  <2> QED
    BY <1>0, <2>1 DEF NoOp
<1>5. CASE PurchaseNotApplied(o) \/ PurchaseAmbiguous(o) \/ PurchaseAbandoned(o)
  <2>1. /\ op'[o].status # "absent" /\ Snapshot(o)' = Snapshot(o)
        /\ saga'[o] = "returned" /\ op[o].status = "in_flight" /\ saga[o] = "awaiting"
        /\ UNCHANGED <<listing, order, transfer>>
    BY <1>5 DEF PurchaseNotApplied, PurchaseAmbiguous, PurchaseAbandoned, Resumes,
                WithStatus, marketVars, Rows, TypeOK
  <2>2. /\ op'[o].payout = op[o].payout /\ op'[o].price = op[o].price
        /\ op'[o].listing = op[o].listing /\ op'[o].database = op[o].database
    BY <2>1
  <2> QED
    BY <1>0, <2>1, <2>2
<1> QED
  BY <1>1, <1>2, <1>3, <1>4, <1>5 DEF PurchaseStep

\* A purchase keeps the types of all tables.
LEMMA TypesOfPurchaseStep ==
  ASSUME Rows, NEW o \in Operations, PurchaseStep(o)
  PROVE  TypeOK'
<1> USE DEF TypeOK, marketVars
<1>0. TypeOK
  BY DEF Rows
<1>1. ASSUME NEW l \in Listings, NEW b \in Principals, NEW price \in Prices,
             BeginPurchase(o, l, b, price)
      PROVE  TypeOK'
  <2>1. /\ listing[l].database \in Databases /\ listing[l].seller \in Principals
        /\ listing[l].payout \in Payouts
    BY <1>1 DEF BeginPurchase, Rows, ListingInv, Listed
  <2> QED
    BY <1>0, <1>1, <2>1 DEF BeginPurchase
<1>2. CASE LedgerDecides(o)
  BY <1>0, <1>2 DEF LedgerDecides
<1>3. CASE PurchaseCompleted(o)
  <2>1. Open(o)
    BY <1>3 DEF PurchaseCompleted, Resumes, Open
  <2>2. Snapshot(o) \in OrderRecord
    BY <2>1 DEF Rows, OperationInv
  <2>3. op[o].listing \in Listings /\ op[o].database \in Databases /\ op[o].buyer \in Principals
    BY <2>1, OpenOperation
  <2>4. sold' \in [Listings -> Nat]
    BY <1>0, <1>3, <2>3 DEF PurchaseCompleted, CountSale
  <2> QED
    BY <1>0, <1>3, <2>2, <2>3, <2>4 DEF PurchaseCompleted, Resumes, NewOrder, NoOp
<1>4. CASE PurchaseRefused(o)
  BY <1>0, <1>4 DEF PurchaseRefused, Resumes, NoOp
<1>5. CASE PurchaseNotApplied(o)
  BY <1>0, <1>5 DEF PurchaseNotApplied, Resumes, WithStatus
<1>6. CASE PurchaseAmbiguous(o)
  BY <1>0, <1>6 DEF PurchaseAmbiguous, Resumes, WithStatus
<1>7. CASE PurchaseAbandoned(o)
  BY <1>0, <1>7 DEF PurchaseAbandoned, Resumes
<1> QED
  BY <1>1, <1>2, <1>3, <1>4, <1>5, <1>6, <1>7 DEF PurchaseStep

\* A step of market_purchase_access keeps listings, operations and references
\* in agreement.
LEMMA RowsOfPurchaseStep ==
  ASSUME Rows, NEW o \in Operations, PurchaseStep(o)
  PROVE  Rows'
<1>1. TypeOK'
  BY TypesOfPurchaseStep
<1>2. ListingInv'
  BY PurchaseFrame DEF Rows, ListingInv, Listed
<1>3. \A q \in Operations : OperationIsSound(q)'
  <2>1. \A q \in Operations \ {o} : OperationIsSound(q)'
    BY PurchaseFrame DEF Rows, OperationInv, ReferenceInv, OperationIsSound, Open, Ordered,
                         Snapshot, ListingOf, Listed
  <2> QED
    BY <2>1, OneOperation
<1>4. \A e \in entitlements' : ListingOf(e.listing, e.database)'
  <2>1. ASSUME PurchaseCompleted(o)
        PROVE  ListingOf(op[o].listing, op[o].database)
    BY <2>1 DEF PurchaseCompleted, Resumes, Rows, ReferenceInv, Open
  <2> QED
    BY <2>1, PurchaseFrame
    DEF PurchaseStep, BeginPurchase, LedgerDecides, PurchaseCompleted, PurchaseNotApplied,
        PurchaseRefused, PurchaseAmbiguous, PurchaseAbandoned, marketVars, Rows,
        ReferenceInv, ListingOf, Listed
<1> QED
  BY <1>1, <1>2, <1>3, <1>4 DEF Rows, OperationInv, ReferenceInv, OperationIsSound

\* Every step does.
LEMMA RowsStep ==
  ASSUME Rows, [Next]_vars
  PROVE  Rows'
<1>1. CASE UNCHANGED vars
  BY <1>1 DEF vars, marketVars, opVars, Rows, TypeOK, ListingInv, OperationInv, ReferenceInv,
              ListingOf, Listed, Open, Ordered, Snapshot
<1> QED
  BY <1>1, RowsOfListingStep, RowsOfPurchaseStep, RowsOfAccessStep DEF Next

-----------------------------------------------------------------------------
(* Every step keeps the promises                                           *)

\* Editing a listing touches what names no buyer and no payment; its seller is
\* an owner, so not one of those who left.
LEMMA PromisesOfListingStep ==
  ASSUME Rows, Promises, NEW l \in Listings, ListingStep(l)
  PROVE  Promises'
<1> USE DEF Promises, opVars
<1>1. UNCHANGED <<owners, sold, entitlements, opVars, left>>
  BY DEF ListingStep, CreateListing, UpdateListing, SetListingStatus
<1>2. OneEntitlement' /\ OrderMatchesTransfer' /\ EntitlementIsPaid' /\ NoDoubleCharge'
  BY <1>1 DEF OneEntitlement, OrderMatchesTransfer, EntitlementIsPaid, NoDoubleCharge, Ordered, Open
<1>3. \A k \in Listings : listing'[k].seller = listing[k].seller
                          \/ \E d \in Databases : listing'[k].seller \in owners[d]
  BY DEF ListingStep, CreateListing, UpdateListing, SetListingStatus, SellerCanList, Rows, TypeOK
<1>4. AccountIsGone'
  BY <1>1, <1>3 DEF AccountIsGone, Open
<1> QED
  BY <1>2, <1>4

\* Deletions take entitlements away and put the deleted account behind
\* everything that named it.
LEMMA PromisesOfAccessStep ==
  ASSUME Rows, Promises, NEW c \in Principals, AccessStep(c)
  PROVE  Promises'
<1> USE DEF Promises, opVars
<1>0. TypeOK
  BY DEF Rows
<1>1. UNCHANGED <<sold, opVars>> /\ entitlements' \in SUBSET entitlements
  BY <1>0, AccessFrame
<1>2. OneEntitlement' /\ OrderMatchesTransfer' /\ EntitlementIsPaid' /\ NoDoubleCharge'
  BY <1>1 DEF OneEntitlement, OrderMatchesTransfer, EntitlementIsPaid, NoDoubleCharge, Ordered, Open
<1>3. \A l \in Listings : listing'[l].seller \in {listing[l].seller, None}
  BY <1>0, RemovedListings DEF NoListing
<1>4. None \notin left /\ None \notin Principals
  BY <1>0, MarketAssumption DEF TypeOK
<1>5. ASSUME NEW d \in Databases, NEW p \in Principals, GrantOwner(c, d, p)
      PROVE  AccountIsGone'
  BY <1>0, <1>1, <1>3, <1>4, <1>5 DEF GrantOwner, AccountIsGone, Open, TypeOK
<1>6. ASSUME NEW d \in Databases, NEW p \in Principals, RevokeOwner(c, d, p)
      PROVE  AccountIsGone'
  BY <1>0, <1>1, <1>3, <1>4, <1>6 DEF RevokeOwner, AccountIsGone, Open, TypeOK
<1>7. ASSUME NEW d \in Databases, DeleteDatabase(c, d)
      PROVE  AccountIsGone'
  BY <1>0, <1>1, <1>3, <1>4, <1>7 DEF DeleteDatabase, AccountIsGone, Open, TypeOK
<1>8. ASSUME DeleteAccount(c)
      PROVE  AccountIsGone'
  <2>1. \A l \in Listings : listing'[l].seller # c
    <3>1. \A l \in Listings : Listed(l) /\ listing[l].seller = c => listing'[l].seller = None
      BY <1>8 DEF DeleteAccount, RemoveListings, NoListing
    <3>2. \A l \in Listings : ~Listed(l) => listing[l].seller = None
      BY DEF Rows, ListingInv
    <3> QED
      BY <1>3, <1>4, <3>1, <3>2
  <2>2. \A o \in Operations : Open(o) => op[o].buyer # c /\ op[o].seller # c
    BY <1>8 DEF DeleteAccount, AccountIsQuiet
  <2>3. \A e \in entitlements' : e.buyer # c
    BY <1>8 DEF DeleteAccount, KeptEntitlements
  <2>4. \A d \in Databases : owners'[d] \in SUBSET owners[d] /\ c \notin owners'[d]
    BY <1>0, <1>8 DEF DeleteAccount
  <2>5. left' = left \union {c}
    BY <1>8 DEF DeleteAccount
  <2> QED
    BY <1>1, <1>3, <1>4, <2>1, <2>2, <2>3, <2>4, <2>5 DEF AccountIsGone, Open
<1> QED
  BY <1>2, <1>5, <1>6, <1>7, <1>8 DEF AccessStep

\* The first transaction of market_purchase_access.
LEMMA PromisesOfBegin ==
  ASSUME Rows, Promises, NEW o \in Operations, NEW l \in Listings, NEW b \in Principals,
         NEW price \in Prices, BeginPurchase(o, l, b, price)
  PROVE  Promises'
<1> USE DEF Promises
<1>0. TypeOK /\ PurchaseStep(o)
  BY DEF Rows, PurchaseStep
<1>1. /\ op'[o] = [status |-> "in_flight", listing |-> l, database |-> listing[l].database,
                   buyer |-> b, seller |-> listing[l].seller,
                   payout |-> listing[l].payout, price |-> price]
      /\ \A q \in Operations \ {o} : op'[q] = op[q] /\ transfer'[q] = transfer[q]
      /\ UNCHANGED <<owners, listing, sold, entitlements, order>>
      /\ left' = left \ {b}
  BY <1>0, PurchaseFrame DEF BeginPurchase, marketVars, TypeOK
<1>2. ~Open(o) /\ ~Ordered(o)
  BY DEF Rows, OperationInv, BeginPurchase
<1>3. \A e \in entitlements : e.order # o
  <2>1. order[o] = NoOrder
    BY <1>2 DEF Ordered
  <2>2. \A e \in entitlements : e.database \in Databases
    BY <1>0 DEF TypeOK
  <2> QED
    BY <2>1, <2>2, MarketAssumption DEF EntitlementIsPaid, NoOrder
<1>4. OneEntitlement' /\ OrderMatchesTransfer' /\ EntitlementIsPaid'
  <2>1. \A e \in entitlements : e.order \in Operations
    BY <1>0 DEF TypeOK
  <2> QED
    BY <1>1, <1>2, <1>3, <2>1
    DEF OneEntitlement, OrderMatchesTransfer, EntitlementIsPaid, Ordered
<1>5. \A e \in entitlements : e.listing # l \/ e.buyer # b
  BY DEF BeginPurchase, HasEntitlement, Rows, ReferenceInv, ListingOf, Listed
<1>6. \A q \in Operations \ {o} : op[q].listing # l \/ op[q].buyer # b
  <2>1. \A q \in Operations : ~Open(q) => op[q].listing # l
    BY MarketAssumption DEF Rows, OperationInv
  <2> QED
    BY <2>1 DEF BeginPurchase, NoneOpen
<1>7. NoDoubleCharge'
  BY <1>1, <1>5, <1>6 DEF NoDoubleCharge, Open
<1>8. AccountIsGone'
  <2>1. listing[l].database \in Databases /\ listing[l].seller \in owners[listing[l].database]
    BY DEF BeginPurchase, SellerCanList, Rows, ListingInv, Listed
  <2>2. listing[l].seller \notin left
    BY <2>1 DEF AccountIsGone
  <2> QED
    BY <1>1, <2>2 DEF AccountIsGone, Open
<1> QED
  BY <1>4, <1>7, <1>8

\* The application of a paid purchase: order, entitlement and the end of the
\* operation, in one transaction.
LEMMA PromisesOfCompletion ==
  ASSUME Rows, Promises, NEW o \in Operations, PurchaseCompleted(o)
  PROVE  Promises'
<1> USE DEF Promises
<1> DEFINE new == [database |-> op[o].database, buyer |-> op[o].buyer,
                   listing |-> op[o].listing, order |-> o]
<1>0. TypeOK /\ PurchaseStep(o) /\ Open(o)
  BY DEF Rows, PurchaseStep, PurchaseCompleted, Resumes, Open
<1>1. /\ op'[o] = NoOp /\ order'[o] = Snapshot(o) /\ transfer[o].status = "moved"
      /\ \A q \in Operations \ {o} : op'[q] = op[q] /\ order'[q] = order[q]
      /\ UNCHANGED <<owners, listing, transfer, left>>
      /\ entitlements' = entitlements \union {new}
  BY <1>0, PurchaseFrame DEF PurchaseCompleted, NewOrder, TypeOK
<1>2. ~HasEntitlement(op[o].database, op[o].buyer)
  BY DEF PurchaseCompleted, MayEntitle
<1>3. OneEntitlement'
  BY <1>1, <1>2 DEF OneEntitlement, HasEntitlement
<1>4. OrderMatchesTransfer'
  BY <1>0, <1>1 DEF OrderMatchesTransfer, Ordered, Rows, OperationInv, Snapshot
<1>5. EntitlementIsPaid'
  <2>1. \A e \in entitlements : e.order \in Operations /\ e.database \in Databases
    BY <1>0 DEF TypeOK
  <2>2. order[o] = NoOrder
    BY <1>0 DEF Rows, OperationInv, Ordered
  <2>3. \A e \in entitlements : e.order # o
    BY <2>1, <2>2, MarketAssumption DEF EntitlementIsPaid, NoOrder
  <2> QED
    BY <1>1, <2>1, <2>3 DEF EntitlementIsPaid, Snapshot
<1>6. NoDoubleCharge'
  <2>1. op'[o].status = "absent"
    BY <1>1 DEF NoOp
  <2>2. \A q \in Operations \ {o} : op[q].listing # op[o].listing \/ op[q].buyer # op[o].buyer
    BY <1>0 DEF NoDoubleCharge
  <2>3. \A q \in Operations : ~Open(q)' => op'[q].listing = None
    BY <1>1 DEF Rows, OperationInv, Open, NoOp
  <2>4. \A q \in Operations : Open(q)' => q # o /\ Open(q) /\ op'[q].listing # None
    BY <1>1, <2>1, OpenOperation, MarketAssumption DEF Open
  <2>5. \A p, q \in Operations : Open(p)' /\ op'[p].listing = op'[q].listing => q # o
    BY <1>0, <2>1, <2>3, <2>4 DEF Open
  <2> QED
    BY <1>1, <2>2, <2>4, <2>5 DEF NoDoubleCharge
<1>7. AccountIsGone'
  BY <1>0, <1>1 DEF AccountIsGone, Open, NoOp
<1> QED
  BY <1>3, <1>4, <1>5, <1>6, <1>7

\* The other ways a purchase goes on: entitlements and orders stay, and no
\* operation is opened.
LEMMA PromisesOfOthers ==
  ASSUME Rows, Promises, NEW o \in Operations,
         LedgerDecides(o) \/ PurchaseNotApplied(o) \/ PurchaseRefused(o)
           \/ PurchaseAmbiguous(o) \/ PurchaseAbandoned(o)
  PROVE  Promises'
<1> USE DEF Promises
<1>0. TypeOK /\ PurchaseStep(o)
  BY DEF Rows, PurchaseStep
<1>1. UNCHANGED <<owners, listing, entitlements, order, left>>
  BY DEF LedgerDecides, PurchaseNotApplied, PurchaseRefused, PurchaseAmbiguous,
         PurchaseAbandoned, marketVars
<1>2. \A q \in Operations : /\ transfer[q].status = "moved" => transfer'[q] = transfer[q]
  BY <1>0, PurchaseFrame
  DEF LedgerDecides, PurchaseNotApplied, PurchaseRefused, PurchaseAmbiguous,
      PurchaseAbandoned, TypeOK
<1>3. \A q \in Operations : \/ /\ Open(q) <=> Open(q)'
                              /\ op'[q].listing = op[q].listing /\ op'[q].buyer = op[q].buyer
                              /\ op'[q].seller = op[q].seller
                           \/ op'[q] = NoOp
  BY <1>0, PurchaseFrame
  DEF LedgerDecides, PurchaseNotApplied, PurchaseRefused, PurchaseAmbiguous, Resumes,
      PurchaseAbandoned, TypeOK, WithStatus, Open
<1>4. \A e \in entitlements : e.order \in Operations
  BY <1>0 DEF TypeOK
<1>5. OneEntitlement' /\ OrderMatchesTransfer' /\ EntitlementIsPaid'
  BY <1>1, <1>2, <1>4 DEF OneEntitlement, OrderMatchesTransfer, EntitlementIsPaid, Ordered
<1>6. NoDoubleCharge'
  <2>1. \A q \in Operations : Open(q)' => /\ Open(q) /\ op'[q].listing = op[q].listing
                                          /\ op'[q].buyer = op[q].buyer
                                          /\ op[q].listing # None
    BY <1>3, OpenOperation, MarketAssumption DEF Open, NoOp
  <2>2. \A p, q \in Operations : Open(p)' /\ op'[p].listing = op'[q].listing
                                  => op'[q].listing = op[q].listing /\ op'[q].buyer = op[q].buyer
    BY <1>3, <2>1 DEF NoOp
  <2> QED
    BY <1>1, <2>1, <2>2 DEF NoDoubleCharge
<1>7. AccountIsGone'
  BY <1>1, <1>3 DEF AccountIsGone, Open, NoOp
<1> QED
  BY <1>5, <1>6, <1>7

\* Every step keeps orders, entitlements and charges in agreement.
LEMMA PromisesStep ==
  ASSUME Rows, Promises, [Next]_vars
  PROVE  Promises'
<1>1. CASE UNCHANGED vars
  BY <1>1 DEF vars, marketVars, opVars, Promises, OneEntitlement, OrderMatchesTransfer,
              EntitlementIsPaid, NoDoubleCharge, AccountIsGone, Open, Ordered
<1>2. ASSUME NEW o \in Operations, PurchaseStep(o) PROVE Promises'
  BY <1>2, PromisesOfBegin, PromisesOfCompletion, PromisesOfOthers DEF PurchaseStep
<1> QED
  BY <1>1, <1>2, PromisesOfListingStep, PromisesOfAccessStep DEF Next

-----------------------------------------------------------------------------
(* The count of sales                                                      *)

\* The counter and the orders of one listing grow together, and a listing that
\* is gone, whose counter stays behind its orders, never comes back.
LEMMA CountStep ==
  ASSUME Rows, CountInv, [Next]_vars
  PROVE  CountInv'
<1>0. TypeOK /\ ListingsKept
  BY ListingsAreKept DEF Rows
<1>1. ASSUME UNCHANGED order, NEW l \in Listings PROVE OrdersOf(l)' = OrdersOf(l)
  BY <1>1 DEF OrdersOf, Ordered
<1>2. ASSUME NEW l \in Listings, listing[l].status = "unused" PROVE OrdersOf(l) = {}
  BY <1>2 DEF OrdersOf, Rows, ReferenceInv
<1>3. ASSUME UNCHANGED <<order, sold>> PROVE CountInv'
  <2> SUFFICES ASSUME NEW l \in Listings
               PROVE  /\ IsFiniteSet(OrdersOf(l)')
                      /\ listing'[l].status = "unused" => sold'[l] = 0
                      /\ Listed(l)' => sold'[l] = Cardinality(OrdersOf(l)')
    BY DEF CountInv
  <2>1. OrdersOf(l)' = OrdersOf(l) /\ sold'[l] = sold[l]
    BY <1>1, <1>3
  <2>2. listing[l].status = "unused" => Cardinality(OrdersOf(l)) = sold[l]
    BY <1>2, FS_EmptySet DEF CountInv
  <2>3. Listed(l)' => listing[l].status = "unused" \/ Listed(l)
    BY <1>0 DEF ListingsKept
  <2>4. listing'[l].status = "unused" => listing[l].status = "unused"
    BY <1>0 DEF ListingsKept
  <2> QED
    BY <2>1, <2>2, <2>3, <2>4 DEF CountInv
<1>4. ASSUME NEW o \in Operations, PurchaseCompleted(o) PROVE CountInv'
  <2>0. Open(o) /\ CountSale(op[o].listing)
    BY <1>4 DEF PurchaseCompleted, Resumes, Open
  <2>k. PICK k \in Listings : k = op[o].listing
    BY <2>0, OpenOperation
  <2>1. /\ Open(o) /\ UNCHANGED listing /\ CountSale(k)
        /\ order' = [order EXCEPT ![o] = Snapshot(o)]
    BY <1>4, <2>0, <2>k DEF PurchaseCompleted, NewOrder
  <2>2. k \in Listings /\ Snapshot(o) \in OrderRecord /\ ~Ordered(o)
    BY <2>1 DEF Rows, OperationInv
  <2>3. listing[k].status # "unused"
    BY <2>1, <2>k DEF Rows, ReferenceInv, ListingOf
  <2>4. Ordered(o)' /\ order'[o].listing = k
    BY <1>0, <2>k, <2>1, <2>2, OrdersAreNotEmpty DEF Ordered, Snapshot, TypeOK
  <2>5. OrdersOf(k)' = OrdersOf(k) \union {o} /\ o \notin OrdersOf(k)
    BY <1>0, <2>1, <2>2, <2>4 DEF OrdersOf, Ordered, TypeOK
  <2>6. \A l \in Listings \ {k} : OrdersOf(l)' = OrdersOf(l) /\ sold'[l] = sold[l]
    BY <1>0, <2>1, <2>2, <2>4 DEF OrdersOf, Ordered, TypeOK, CountSale
  <2>7. Listed(k) => sold'[k] = sold[k] + 1
    BY <1>0, <2>1, <2>2 DEF CountSale, TypeOK
  <2>8. IsFiniteSet(OrdersOf(k))
    BY <2>2 DEF CountInv
  <2>9. IsFiniteSet(OrdersOf(k)') /\ Cardinality(OrdersOf(k)') = Cardinality(OrdersOf(k)) + 1
    BY <2>5, <2>8, FS_AddElement
  <2>10. Listed(k)' = Listed(k)
    BY <2>1 DEF Listed
  <2>11. Listed(k)' => sold'[k] = Cardinality(OrdersOf(k)')
    BY <2>2, <2>7, <2>9, <2>10 DEF CountInv
  <2> QED
    BY <2>1, <2>2, <2>3, <2>6, <2>9, <2>11 DEF CountInv, Listed
<1> QED
  BY <1>3, <1>4, AccessFrame, <1>0
  DEF Next, vars, marketVars, opVars, ListingStep, CreateListing, UpdateListing,
      SetListingStatus, PurchaseStep, BeginPurchase, LedgerDecides, PurchaseNotApplied,
      PurchaseRefused, PurchaseAmbiguous, PurchaseAbandoned

-----------------------------------------------------------------------------
(* Theorems                                                                *)

\* MarketInv holds in every state of the marketplace.
THEOREM MarketInvHolds == Spec => []MarketInv
<1>1. MarketInv /\ [Next]_vars => MarketInv'
  BY RowsStep, PromisesStep, CountStep DEF MarketInv
<1> QED
  BY InitMarketInv, <1>1, PTL DEF Spec

\* The marketplace tables hold what their columns allow.
THEOREM MarketTypes == Spec => []TypeOK
<1>1. MarketInv => TypeOK
  BY DEF MarketInv, Rows
<1> QED
  BY MarketInvHolds, <1>1, PTL

\* However purchases of a buyer overlap, through one listing or several, the
\* buyer has one active entitlement to a database.
THEOREM EntitledOnce == Spec => []OneEntitlement
<1>1. MarketInv => OneEntitlement
  BY DEF MarketInv, Promises
<1> QED
  BY MarketInvHolds, <1>1, PTL

\* An order records the receiver and the amount the ledger moved, whatever
\* happened to the listing during the await of market_purchase_access.
THEOREM OrdersAreTrue == Spec => []OrderMatchesTransfer
<1>1. MarketInv => OrderMatchesTransfer
  BY DEF MarketInv, Promises
<1> QED
  BY MarketInvHolds, <1>1, PTL

\* There is no entitlement without a paid order for its database and buyer.
THEOREM EntitlementsArePaid == Spec => []EntitlementIsPaid
<1>1. MarketInv => EntitlementIsPaid
  BY DEF MarketInv, Promises
<1> QED
  BY MarketInvHolds, <1>1, PTL

\* Through one listing a buyer never has two unresolved payments, nor one beside
\* an entitlement, also after ambiguous answers.
THEOREM ChargedOnce == Spec => []NoDoubleCharge
<1>1. MarketInv => NoDoubleCharge
  BY DEF MarketInv, Promises
<1> QED
  BY MarketInvHolds, <1>1, PTL

\* purchase_count of a listing that is still there counts its orders.
THEOREM SalesAreCounted == Spec => []CountsOrders
<1>1. MarketInv => CountsOrders
  BY DEF MarketInv, CountInv, CountsOrders, OrdersOf
<1> QED
  BY MarketInvHolds, <1>1, PTL

\* Nothing of the marketplace names a deleted account, and no purchase that was
\* under way when it was deleted brings it back.
THEOREM AccountsAreGone == Spec => []AccountIsGone
<1>1. MarketInv => AccountIsGone
  BY DEF MarketInv, Promises
<1> QED
  BY MarketInvHolds, <1>1, PTL

\* An entitlement goes only with its database or with its buyer's account: not
\* with the listing and not with the seller.
THEOREM EntitlementsLast == Spec => EntitlementLasts
<1> DEFINE Kept == \A e \in entitlements \ entitlements' : owners'[e.database] = {} \/ e.buyer \in left'
<1>1. MarketInv /\ [Next]_vars => Kept
  <2> SUFFICES ASSUME MarketInv, [Next]_vars PROVE Kept
    OBVIOUS
  <2>0. TypeOK
    BY DEF MarketInv, Rows
  <2>1. CASE entitlements \in SUBSET entitlements'
    BY <2>1
  <2>2. ASSUME NEW c \in Principals, NEW d \in Databases, DeleteDatabase(c, d) PROVE Kept
    BY <2>0, <2>2 DEF DeleteDatabase, TypeOK
  <2>3. ASSUME NEW c \in Principals, DeleteAccount(c) PROVE Kept
    BY <2>0, <2>3 DEF DeleteAccount, KeptEntitlements, SoleOwned, TypeOK
  <2>4. ASSUME NEW o \in Operations, PurchaseStep(o) PROVE entitlements \in SUBSET entitlements'
    BY <2>4 DEF PurchaseStep, BeginPurchase, LedgerDecides, PurchaseCompleted,
                PurchaseNotApplied, PurchaseRefused, PurchaseAmbiguous, PurchaseAbandoned,
                marketVars
  <2>5. ASSUME NEW l \in Listings, ListingStep(l) PROVE entitlements \in SUBSET entitlements'
    BY <2>5 DEF ListingStep, CreateListing, UpdateListing, SetListingStatus
  <2>6. ASSUME NEW c \in Principals, AccessStep(c) PROVE Kept
    BY <2>1, <2>2, <2>3, <2>6 DEF AccessStep, GrantOwner, RevokeOwner, marketVars
  <2> QED
    BY <2>1, <2>4, <2>5, <2>6 DEF Next, vars, marketVars
<1> QED
  BY MarketInvHolds, <1>1, PTL DEF Spec, EntitlementLasts

-----------------------------------------------------------------------------
(* MarketPurchase implements PaymentPromise                                *)

\* A step of one purchase changes the phase of that purchase only.
LEMMA PhaseOfOthers ==
  ASSUME NEW o \in Operations, \A q \in Operations \ {o} :
           op'[q] = op[q] /\ saga'[q] = saga[q] /\ order'[q] = order[q]
  PROVE  [q \in Operations |-> PurchasePhase(q)]'
           = [[q \in Operations |-> PurchasePhase(q)] EXCEPT ![o] = PurchasePhase(o)']
<1>1. \A q \in Operations \ {o} : PurchasePhase(q)' = PurchasePhase(q)
  BY DEF PurchasePhase, Open, Ordered
<1> QED
  BY <1>1

\* Every message is a step of PaymentPromise or a stutter.
LEMMA PromiseStep ==
  ASSUME MarketInv, [Next]_vars
  PROVE  Promise!PromiseNext \/ UNCHANGED Promise!promiseVars
<1>0. TypeOK /\ Rows /\ OrderMatchesTransfer
  BY DEF MarketInv, Rows, Promises
<1>1. ASSUME UNCHANGED opVars PROVE UNCHANGED Promise!promiseVars
  BY <1>1 DEF Promise!promiseVars, PurchasePhase, Open, Ordered, opVars
<1>2. ASSUME NEW o \in Operations, PurchaseStep(o)
      PROVE  Promise!PromiseNext \/ UNCHANGED Promise!promiseVars
  <2> DEFINE phases == [q \in Operations |-> PurchasePhase(q)]
             moved  == {q \in Operations : transfer[q].status = "moved"}
  <2>0. phases' = [phases EXCEPT ![o] = PurchasePhase(o)']
    BY <1>0, <1>2, PurchaseFrame, PhaseOfOthers
  <2>1. ASSUME NEW l \in Listings, NEW b \in Principals, NEW price \in Prices,
               BeginPurchase(o, l, b, price)
        PROVE  Promise!Open(o)
    <3>1. PurchasePhase(o) = "new" /\ PurchasePhase(o)' = "open"
      BY <1>0, <2>1 DEF BeginPurchase, PurchasePhase, Rows, OperationInv, TypeOK, Open, Ordered
    <3>2. moved' = moved
      BY <1>0, <2>1 DEF BeginPurchase, Rows, OperationInv, TypeOK
    <3> QED
      BY <2>0, <3>1, <3>2 DEF Promise!Open
  <2>2. CASE LedgerDecides(o)
    <3>1. PurchasePhase(o) = "open" /\ o \notin moved
      BY <1>0, <2>2 DEF LedgerDecides, PurchasePhase, Rows, OperationInv, OrderMatchesTransfer
    <3>2. phases' = phases
      BY <2>2 DEF LedgerDecides, PurchasePhase, Open, Ordered
    <3>3. moved' = moved \/ moved' = moved \union {o}
      BY <1>0, <2>2 DEF LedgerDecides, TypeOK
    <3> QED
      BY <3>1, <3>2, <3>3 DEF Promise!PromiseNext, Promise!Pay, Promise!promiseVars
  <2>3. CASE PurchaseCompleted(o)
    <3>1. PurchasePhase(o) = "open" /\ o \in moved /\ moved' = moved
      BY <2>3 DEF PurchaseCompleted, Resumes, PurchasePhase, Open
    <3>2. Snapshot(o) # NoOrder
      BY <1>0, <2>3, OrdersAreNotEmpty DEF PurchaseCompleted, Resumes, Open, Rows, OperationInv
    <3>3. PurchasePhase(o)' = "settled"
      BY <1>0, <2>3, <3>2 DEF PurchaseCompleted, PurchasePhase, Open, Ordered, NewOrder, NoOp, TypeOK
    <3> QED
      BY <2>0, <3>1, <3>3 DEF Promise!PromiseNext, Promise!Settle
  <2>4. CASE PurchaseRefused(o)
    <3>1. PurchasePhase(o) = "open" /\ o \notin moved /\ moved' = moved
      BY <2>4 DEF PurchaseRefused, Resumes, PurchasePhase, Open
    <3>2. PurchasePhase(o)' = "void"
      BY <1>0, <2>4 DEF PurchaseRefused, Resumes, PurchasePhase, Open, Ordered, NoOp, TypeOK,
                        Rows, OperationInv
    <3> QED
      BY <2>0, <3>1, <3>2 DEF Promise!PromiseNext, Promise!Void
  <2>5. CASE PurchaseNotApplied(o) \/ PurchaseAmbiguous(o) \/ PurchaseAbandoned(o)
    <3>1. PurchasePhase(o) = "open" /\ PurchasePhase(o)' = "open" /\ moved' = moved
      BY <1>0, <2>5 DEF PurchaseNotApplied, PurchaseAmbiguous, PurchaseAbandoned, Resumes,
                        WithStatus, TypeOK, PurchasePhase, Open
    <3> QED
      BY <2>0, <3>1 DEF Promise!promiseVars
  <2> QED
    BY <1>2, <2>1, <2>2, <2>3, <2>4, <2>5 DEF PurchaseStep, Promise!PromiseNext
<1>3. ASSUME NEW l \in Listings, ListingStep(l) PROVE UNCHANGED opVars
  BY <1>3 DEF ListingStep, CreateListing, UpdateListing, SetListingStatus
<1>4. ASSUME NEW c \in Principals, AccessStep(c) PROVE UNCHANGED opVars
  BY <1>0, <1>4, AccessFrame
<1> QED
  BY <1>1, <1>2, <1>3, <1>4 DEF Next, vars

\* market_purchase_access implements PaymentPromise, although neither
\* delete_database nor an edit of the listing waits for it.
THEOREM MarketPromiseKept == Spec => KeepsPromise
<1>1. Init => Promise!PromiseInit
  BY DEF Init, Promise!PromiseInit, PurchasePhase, Open, Ordered, NoOp, NoTransfer
<1>2. MarketInv /\ [Next]_vars => [Promise!PromiseNext]_(Promise!promiseVars)
  BY PromiseStep
<1> QED
  BY MarketInvHolds, <1>1, <1>2, PTL DEF Spec, KeepsPromise, Promise!PromiseSpec

=============================================================================
