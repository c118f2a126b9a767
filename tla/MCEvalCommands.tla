---------------------------- MODULE MCEvalCommands ----------------------------
EXTENDS EvalCommands

CONSTANTS p1, p2

MCTasks == <<"t1", "t2">>
MCModels == <<"MiniMax-M3", "qwen3.7-plus", "qwen3.7-max">>
MCHash == ("t1" :> 17) @@ ("t2" :> 4) @@ ("MiniMax-M3" :> 10)
              @@ ("qwen3.7-plus" :> 12) @@ ("qwen3.7-max" :> 11)

\* A metric whose name collides with another's average, and one that is not a
\* finite number.
MCMetrics == {Metric("x", Value(10)) @@ (Avg(Name("x")) :> Value(3)), Metric("x", NaN)}

\* 100 prompt tokens at $0.0008 and 50 completion tokens at $0.002 per 1000.
MCCaseCost == 180
MCMaxUSD == 500000

Word(prefix, contains) == [prefix |-> prefix, contains |-> contains]
Plain == Word("", {})
Clean == [args |-> {Plain}, keys |-> {Plain, Word("AWS_", {"SECRET"})}, tmp |-> "ok"]
Dirty == [args |-> {Plain, Word("sk-", {}), Word("", {"smtp."})},
          keys |-> {Word("DB_", {"PASSWORD"})}, tmp |-> "write fails"]
NoTmp == [Clean EXCEPT !.tmp = "not made"]

Run(name, env) == [cmd |-> "run", suite |-> name, live |-> FALSE, env |-> env]
Demo(live) == [cmd |-> "demo", suite |-> "agent-eval", live |-> live, env |-> Clean]

\* Every suite in the surroundings that make a difference to it, next to a demo;
\* two demos; a live one alone next to a command that does not start.
MCScenarios ==
    {(p1 :> r) @@ (p2 :> Demo(FALSE)) : r \in
        {Run("reliability", Clean), Run("observability", Clean), Run("task_completion", Clean),
         Run("security", Clean), Run("security", Dirty), Run("test_coverage", Clean),
         Run("test_coverage", Dirty), Run("test_coverage", NoTmp), Demo(FALSE)}}
    \cup {(p1 :> Demo(TRUE)) @@ (p2 :> Run("", Clean))}
=============================================================================
