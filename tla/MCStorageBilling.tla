--------------------------- MODULE MCStorageBilling ---------------------------
(* Small instances of StorageBilling for TLC.                              *)
EXTENDS StorageBilling, TLC

Interchangeable == Permutations(Databases)

=============================================================================
