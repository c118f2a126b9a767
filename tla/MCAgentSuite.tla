---------------------------- MODULE MCAgentSuite ----------------------------
EXTENDS AgentSuite

MCTasks == <<"t1">>
MCModels == <<"demo", "m2", "m3">>
MCTwoModels == <<"demo", "m2">>
MCHash == [x \in {"t1", "demo", "m2", "m3"} |-> IF x = "t1" THEN 1 ELSE 2]
MCMetrics == {NoMetrics}
=============================================================================
