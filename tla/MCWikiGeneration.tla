------------------------- MODULE MCWikiGeneration -------------------------
(***************************************************************************)
(* One source path, two destinations, a public and a private host, three   *)
(* messages: the trigger, a manual run and the capture's own job, so that  *)
(* two deliveries of one version race, with one crash and one user edit.   *)
(***************************************************************************)
EXTENDS WikiGeneration

\* Bound: a crash and an edit meet two messages, one of them meets three.
FewAccidents == edits + faults <= 1 \/ queue[MaxMessages].kind = "none"
=============================================================================
