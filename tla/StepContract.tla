---------------------------- MODULE StepContract ----------------------------
(***************************************************************************)
(* What a durable step or batch promises the handler, with no invocations  *)
(* that fail, attempts or checkpoints: the operation gets one outcome, and *)
(* whichever invocation's handler receives an outcome receives that one.   *)
(***************************************************************************)
CONSTANTS
  Invocations,
  Outcomes,     \* what the operation may end with
  NoOutcome

VARIABLES
  outcome,      \* its outcome, once it has one
  received      \* received[i]: what invocation i's handler got

contractVars == <<outcome, received>>

ContractInit ==
  /\ outcome = NoOutcome
  /\ received = [i \in Invocations |-> NoOutcome]

Decide ==
  /\ outcome = NoOutcome
  /\ outcome' \in Outcomes
  /\ UNCHANGED received

Receive(i) ==
  /\ outcome # NoOutcome
  /\ received[i] = NoOutcome
  /\ received' = [received EXCEPT ![i] = outcome]
  /\ UNCHANGED outcome

ContractSpec ==
  ContractInit /\ [][Decide \/ \E i \in Invocations : Receive(i)]_contractVars
=============================================================================
