--------------------------- MODULE MCTenantManager ---------------------------
EXTENDS TenantManager, TLC

CONSTANTS A, B, a1, a2, b1, p1, fp, fpA, fpB, m, none, be

MCDefaultModel == [b \in {be} |-> m]

\* Two goroutines and a pilot for tenant A, one goroutine for B.
MCTenantOf == (a1 :> A) @@ (a2 :> A) @@ (p1 :> A) @@ (b1 :> B)
MCQuota == (A :> 2) @@ (B :> 1)

\* Both tenants ask the same: only the tenant in the fingerprint differs.
MCTenantPrint ==
    [x \in {A, B} \X {fp, fpA, fpB} |-> IF x[1] = A THEN fpA ELSE fpB]
MCAsked == {[fp |-> fp, model |-> m, backend |-> be]}

\* The worst hash: everybody's job id is the same.
MCJobIDs == {0}
MCHashConstant == [x \in {fp, fpA, fpB} \X {none, m} \X {be} |-> 0]

MCSymmetry == Permutations({a1, a2})
=============================================================================
