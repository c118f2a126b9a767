------------------------------- MODULE SuiteRun -------------------------------
(***************************************************************************)
(* What the callers of RunSuite rely on: one result after the other, each  *)
(* one its case may return, until every case has one.  Whatever happens    *)
(* inside of a case, this is all that is seen of it.                       *)
(***************************************************************************)
EXTENDS EvalFw

VARIABLES
    suite,   \* a sequence of cases
    results  \* SuiteResult.Cases

Init == results = <<>>

Next ==
    /\ Len(results) < Len(suite)
    /\ results' \in RunCase(suite[Len(results) + 1], results)
    /\ UNCHANGED suite

Spec == Init /\ [][Next]_<<suite, results>> /\ WF_<<suite, results>>(Next)
=============================================================================
