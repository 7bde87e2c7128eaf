----------------------------- MODULE MCAssistant -----------------------------
(***************************************************************************)
(* One conversation seen by two instances of its durable object: the one   *)
(* that runs and the one the platform starts after it evicted the first.   *)
(* A question is submitted, retried and cancelled while an agent round and *)
(* a save of an earlier revision may be under way.                         *)
(***************************************************************************)
EXTENDS AssistantConversation, TLC

\* Instances are told apart by what they hold in memory only.
InterchangeableObjects == Permutations(Objects)

\* Bound: after a lease expired, the question is cancelled or submitted, not both.
FewAccidents ==
  history.expired = 0 \/ history.sent = {} \/ command = {}
=============================================================================
