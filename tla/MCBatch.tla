------------------------------ MODULE MCBatch ------------------------------
(* Batch for TLC: completion policies.                                     *)
EXTENDS Batch

Pairs == (0 .. TotalItems) \X (0 .. TotalItems)
NoCallback == [p \in Pairs |-> "continue"]
Policy(min, count, percentage) ==
  [minSuccessful |-> min, toleratedCount |-> count, toleratedPercentage |-> percentage,
   custom |-> FALSE, shouldComplete |-> NoCallback]
Custom(callback) == [Policy(0, Unset, Unset) EXCEPT !.custom = TRUE, !.shouldComplete = callback]

FailFast       == Policy(0, Unset, Unset)
TwoOrThird     == Policy(2, Unset, 33)   \* one failure of three exceeds 33 percent
AllButOne      == Policy(3, 1, Unset)    \* the minimum is met by the last item
ByCounts       == Custom([p \in Pairs |-> IF p[2] = 1 THEN "CustomFailed"
                                          ELSE IF p[1] = 1 THEN "invalid" ELSE "continue"])
CompleteEmpty  == Custom([p \in Pairs |-> "CustomSucceeded"])
InvalidAtStart == Custom([p \in Pairs |-> "invalid"])

MCPolicies == {FailFast, TwoOrThird, AllButOne, ByCounts, CompleteEmpty, InvalidAtStart}
LargeItems == {FailFast}
=============================================================================
