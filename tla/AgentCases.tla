------------------------------ MODULE AgentCases ------------------------------
(***************************************************************************)
(* internal/agenteval without its goroutines: the cases of a suite, each   *)
(* a task and a model, and what a case makes of its agent's outcome.       *)
(***************************************************************************)
EXTENDS EvalFw

CONSTANTS
    CanonicalTasks,    \* a sequence
    ProductionModels,  \* a sequence
    DemoModel,         \* demoModel
    Hash,              \* hashTask and hashModel
    HookMetrics        \* the metrics a live agent may return

ASSUME AgentCasesAssumption ==
    /\ CanonicalTasks \in Seq(ToSet(CanonicalTasks))
    /\ ProductionModels \in Seq(ToSet(ProductionModels))
    /\ ToSet(CanonicalTasks) \cap ToSet(ProductionModels) = {}
    /\ \A x \in ToSet(CanonicalTasks) \cup ToSet(ProductionModels) : Hash[x] \in Nat
    /\ DemoModel \in ToSet(ProductionModels)
    /\ \A m \in HookMetrics : IsMetrics(m)

\* Task by task, and each task model by model.
SuiteForRun ==
    LET n == Len(ProductionModels) IN
    [i \in 1 .. Len(CanonicalTasks) * n |->
        [task |-> CanonicalTasks[(i - 1) \div n + 1],
         model |-> ProductionModels[((i - 1) % n) + 1]]]

\* The loop of demo.go: the cases of one model.
buildDemoSuite ==
    LET filtered[i \in 0 .. Len(SuiteForRun)] ==
            IF i = 0 THEN <<>>
            ELSE IF SuiteForRun[i].model = DemoModel
                 THEN Append(filtered[i - 1], SuiteForRun[i])
                 ELSE filtered[i - 1]
    IN  filtered[Len(SuiteForRun)]

\* What an agent returns.
Outcomes == [kind : {"ok", "not_ok", "error"}, metrics : HookMetrics]
NoOutcome == [kind |-> "none", metrics |-> NoMetrics]

\* The hook the package comes with.
DefaultOutcome(case) ==
    [kind |-> "ok",
     metrics |-> With(Metric("task", Value(Hash[case.task])),
                      Name("model_hash"), Value(Hash[case.model]))]

LoopguardTripped ==
    CaseResult("FAIL", "loop guard tripped", Metric("loopguard_tripped", Value(1)))

\* Mutant: no verdict is set when the agent returns an error.
VerdictForgotten(case, o) ==
    CASE o.kind = "ok" -> Pass(o.metrics)
      [] o.kind = "not_ok" -> CaseResult("FAIL", "not_ok", o.metrics)
      [] o.kind = "error" -> CaseResult("", "error", o.metrics)

\* The agent's metrics are kept, but for "model" and "task" of one that passes.
ResultOf(case, o) ==
    IF o.kind = "ok"
    THEN Pass(With(With(o.metrics, Name("model"), Value(Hash[case.model])),
                   Name("task"), Value(Hash[case.task])))
    ELSE CaseResult("FAIL", o.kind, o.metrics)

\* All that a case may return.
AgentCase(case) ==
    {LoopguardTripped}
        \cup {ResultOf(case, o) : o \in Outcomes \cup {DefaultOutcome(case)}}
=============================================================================
