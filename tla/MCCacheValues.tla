----------------------------- MODULE MCCacheValues -----------------------------
(* Values for the constants of the cache modules. *)
EXTENDS Integers, TLC

CONSTANTS c1, c2, c3, p1, p2, p3, m, other, be, none

MCDefaultModel == [b \in {be} |-> m]
MCTriples == {p1, p2, p3} \X {none, m, other} \X {be}
MCRequest(p, model) == [fp |-> p, model |-> model, backend |-> be]

\* A hash that keeps all triples apart, and one that takes p1 for p2.
MCHashInjective == [t \in MCTriples |-> t]
MCHashColliding ==
    [t \in MCTriples |-> IF t[1] = p2 THEN <<p1, t[2], t[3]>> ELSE t]

\* Two prompts, one of them with two models.
MCAskedTwoModels == {MCRequest(p1, m), MCRequest(p1, other), MCRequest(p2, m)}
\* Three prompts.
MCAskedPrompts == {MCRequest(p, m) : p \in {p1, p2, p3}}
\* One prompt, with the model named and with the model left out.
MCAskedByDefault == {MCRequest(p1, none), MCRequest(p1, m), MCRequest(p2, m)}

MCPast == {-1}
MCNoSettings == {}

\* Callers with the same role, and prompts where the hash is injective.
MCCallerSymmetry == Permutations({c1, c2})
MCSymmetry == Permutations({c1, c2}) \cup Permutations({p1, p2, p3})
=============================================================================
