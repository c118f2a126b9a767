---------------------------- MODULE MCCostTracker ----------------------------
EXTENDS CostTracker, TLC

\* One call is 2 prompt tokens and 1 completion token.
MCUsages == {[prompt |-> 2, completion |-> 1]}
MCPrices == {[prompt |-> 1, completion |-> 1], [prompt |-> 0, completion |-> 2]}
MCPricing == [b \in Backends |-> [prompt |-> 1, completion |-> 1]]
MCSymmetry == Permutations(Recorders)
=============================================================================
