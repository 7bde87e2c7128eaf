------------------------------ MODULE MCAppStore ------------------------------
(***************************************************************************)
(* The life cycle of three databases, or the payment worker, for TLC.  One *)
(* of the two runs in a behaviour, the other stays where it began.         *)
(* Worker: two transactions that may name the same intent, a request at a  *)
(* time of each principal, two catalogs. Notifications touch nothing the   *)
(* requests read: they are met apart, forged ones and repeated ones too.   *)
(***************************************************************************)
EXTENDS MCDatabaseCycles

CONSTANTS None, Intents, Transactions, Products

VARIABLES part, catalog, intent, row, notified, request, purchased, sent, granted

TwoCatalogs == {[p \in Products |-> 1], [p \in Products |-> 2]}

Notes == [uuid : {1, 2}, trusted : BOOLEAN, signed : BOOLEAN, ourApp : {TRUE},
          environment : {"Sandbox"}, innerEnvironment : {None, "Sandbox", "Production"}]

Iap == INSTANCE IapFulfillment WITH
    Requests <- Principals, Databases <- {"d"}, Catalogs <- TwoCatalogs,
    SandboxLimit <- 1, Notifications <- Notes

ASSUME IapAssumption == Iap!IapConstants

iap == <<catalog, intent, row, notified, request, purchased, sent, granted>>

AppStoreInit ==
    /\ part \in {"canister", "worker", "notifications"} /\ Init /\ Iap!Init
    /\ part # "worker" => catalog = [p \in Products |-> 1]
    /\ part # "canister" => freeGrants = {}

AppStoreNext ==
    /\ UNCHANGED part
    /\ \/ part = "canister" /\ Next /\ UNCHANGED iap
       \/ part = "worker" /\ Iap!Next /\ UNCHANGED <<vars, notified>>
       \/ part = "notifications" /\ \E n \in Notes : Iap!RecordNotification(n) /\ UNCHANGED vars

AppStore == AppStoreInit /\ [][AppStoreNext]_<<part, vars, iap>>

InterchangeableIds == Permutations(Principals) \union Permutations(Transactions)

-----------------------------------------------------------------------------
\* The worker's tables agree with what the App Store sold and the canister
\* credited: a fulfilled row was granted with the amount of its intent, no grant
\* is without its row, and the sandbox limit is kept by concurrent requests.
IapConsistent == Iap!IapConsistent

\* A fulfilled row is never changed again, neither by a request whose lease has
\* expired meanwhile nor by a late answer of the canister.
FulfilledIsFinal == [][Iap!KeepsFulfilled]_iap
=============================================================================
