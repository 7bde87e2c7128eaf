--------------------------- MODULE MCDatabaseCycles ---------------------------
(* Small instances of DatabaseCycles for TLC.                              *)
EXTENDS DatabaseCycles, TLC

OneConfig  == {[min |-> 2, rate |-> 2]}
TwoConfigs == {[min |-> 1, rate |-> 1], [min |-> 2, rate |-> 2]}

Interchangeable == Permutations(Principals) \union Permutations(Operations)
InterchangeableRows == Permutations(Principals) \union Permutations(Databases)

=============================================================================
