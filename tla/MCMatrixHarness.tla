--------------------------- MODULE MCMatrixHarness ---------------------------
EXTENDS MatrixHarness

\* The default, one alias for each of the others, none, and an unknown name.
MCNames == {"minimaxi", "qwen", "qwen-max", "", "gpt-4o"}

\* A provider may report no usage at all.
MCUsages == {[prompt |-> 1, completion |-> 1], [prompt |-> 0, completion |-> 0]}
=============================================================================
