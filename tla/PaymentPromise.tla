---------------------------- MODULE PaymentPromise ----------------------------
(***************************************************************************)
(* What a ledger-backed purchase promises its payer, whatever is bought.   *)
(*                                                                         *)
(* The canister's purchases (DB cycles, marketplace access) run the same   *)
(* saga: open an operation, ask the KINIC ledger to move the payment, then *)
(* settle the operation or close it.  The payer's view of one operation is *)
(* a phase and whether the ledger moved the money:                         *)
(*   - an operation is settled only after its payment moved, and once;     *)
(*   - an operation is closed unsettled only if its payment never moves,   *)
(*     neither before the closing nor after it;                            *)
(*   - until then it stays open: somebody can still see it and repair it.  *)
(***************************************************************************)

CONSTANT Operations

VARIABLES
  phase,    \* Operations -> {"new", "open", "settled", "void"}
  paid      \* the operations whose payment the ledger executed

promiseVars == <<phase, paid>>

PromiseInit ==
  /\ phase = [o \in Operations |-> "new"]
  /\ paid = {}

Open(o) ==
  /\ phase[o] = "new"
  /\ phase' = [phase EXCEPT ![o] = "open"]
  /\ UNCHANGED paid

\* The ledger may execute the transfer at any moment while the operation is
\* open, long after the canister stopped waiting for the answer.
Pay(o) ==
  /\ phase[o] = "open"
  /\ o \notin paid
  /\ paid' = paid \union {o}
  /\ UNCHANGED phase

Settle(o) ==
  /\ phase[o] = "open"
  /\ o \in paid
  /\ phase' = [phase EXCEPT ![o] = "settled"]
  /\ UNCHANGED paid

Void(o) ==
  /\ phase[o] = "open"
  /\ o \notin paid
  /\ phase' = [phase EXCEPT ![o] = "void"]
  /\ UNCHANGED paid

PromiseNext ==
  \E o \in Operations : Open(o) \/ Pay(o) \/ Settle(o) \/ Void(o)

PromiseSpec == PromiseInit /\ [][PromiseNext]_promiseVars

=============================================================================
