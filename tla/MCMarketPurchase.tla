--------------------------- MODULE MCMarketPurchase ---------------------------
(* Small instances of MarketPurchase for TLC.                              *)
EXTENDS MarketPurchase, TLC

Interchangeable ==
  Permutations(Principals) \union Permutations(Operations) \union Permutations(Listings)
  \union Permutations(Payouts)

=============================================================================
