----------------------------- MODULE EvalCommands -----------------------------
(***************************************************************************)
(* cmd/helixon-eval: processes of `run` and `demo` that work at the same   *)
(* time and append to the same report and the same cost log.               *)
(*                                                                         *)
(*   start -> cases -> report [-> rest] -> print -> end              run   *)
(*                                    \-> record [-> rest] -> gate   demo  *)
(*                                                                         *)
(* A process may fail at every step, panic in a case, or be killed; what   *)
(* it has written stays.  A suite is seen as SuiteRun sees it: cases that  *)
(* return one result each.                                                 *)
(*                                                                         *)
(* A file is the sequence of what single write system calls have appended  *)
(* to it: a whole line, or its head and then, once the loop in os.File     *)
(* gets to it, its tail.  The newline is at the end of a line.             *)
(***************************************************************************)
EXTENDS Rubrics, AgentCases

CONSTANTS
    Procs,
    Scenarios,  \* the jobs that may be started together, functions from Procs
    CaseCost,   \* the estimate for one case of the demo, in micro-dollars
    MaxUSD,     \* demoMaxUSD, in micro-dollars
    MaxShort    \* bound: writes cut short, in both files

\* A job is `run` of a suite by name or `demo`, in some surroundings; live is
\* whether an agent is wired to the hook.
Job == [cmd : {"run", "demo"}, suite : STRING, live : BOOLEAN,
        env : [args : SUBSET [prefix : STRING, contains : SUBSET STRING],
               keys : SUBSET [prefix : STRING, contains : SUBSET STRING],
               tmp : {"ok", "write fails", "not made"}]]

ASSUME CommandAssumption ==
    /\ \A s \in Scenarios : DOMAIN s = Procs /\ \A p \in Procs : s[p] \in Job
    /\ CaseCost \in Nat /\ MaxUSD \in Nat /\ MaxShort \in Nat

VARIABLES
    job,      \* what each process was started for
    step,     \* where it is
    suite,    \* the cases it runs
    results,  \* SuiteResult.Cases
    event,    \* the ReportEvent it has written or is writing
    costs,    \* the cost events it has recorded
    report,   \* eval-results.ndjson
    log,      \* helixon-eval-cost.ndjson
    exit      \* how each process ended

vars == <<job, step, suite, results, event, costs, report, log, exit>>

NoEvent == [suite |-> "none"]
Ends == {"zero", "non_zero", "panic", "killed"}

Init ==
    /\ job \in Scenarios
    /\ step = [p \in Procs |-> "start"]
    /\ suite = [p \in Procs |-> <<>>]
    /\ results = [p \in Procs |-> <<>>]
    /\ event = [p \in Procs |-> NoEvent]
    /\ costs = [p \in Procs |-> 0]
    /\ report = <<>>
    /\ log = <<>>
    /\ exit = [p \in Procs |-> "none"]

IsDemo(p) == job[p].cmd = "demo"

DemoCases(live) ==
    [i \in DOMAIN buildDemoSuite |->
        LET case == buildDemoSuite[i] IN
        IF live THEN AgentCase(case)
        ELSE {LoopguardTripped, ResultOf(case, DefaultOutcome(case))}]

\* The suite of a job; none for a name that is not given or not known.
SuiteOf(j) ==
    LET all == AllSuites(j.env)
    IN  IF j.cmd = "demo" THEN DemoCases(j.live)
        ELSE IF j.suite \in DOMAIN all THEN all[j.suite] ELSE <<>>

Goto(p, s) == step' = [step EXCEPT ![p] = s] /\ UNCHANGED exit
End(p, how) == step' = [step EXCEPT ![p] = "end"] /\ exit' = [exit EXCEPT ![p] = how]

Alive(p, s) == step[p] = s /\ exit[p] = "none"
-----------------------------------------------------------------------------
\* `run` looks its suite up; `demo` makes the directory of its cost log.
Start(p) ==
    /\ Alive(p, "start")
    /\ LET found == SuiteOf(job[p]) IN
       \/ /\ found # <<>>
          /\ suite' = [suite EXCEPT ![p] = found]
          /\ Goto(p, "cases")
       \/ /\ IsDemo(p) \/ found = <<>>
          /\ End(p, "non_zero")
          /\ UNCHANGED suite
    /\ UNCHANGED <<job, results, event, costs, report, log>>

\* The next case returns, or panics and takes the process with it.
NextCase(p) ==
    /\ Alive(p, "cases")
    /\ Len(results[p]) < Len(suite[p])
    /\ LET case == suite[p][Len(results[p]) + 1] IN
       \/ /\ \E after \in RunCase(case, results[p]) :
                results' = [results EXCEPT ![p] = after]
          /\ UNCHANGED <<step, exit>>
       \/ /\ Panic \in case
          /\ End(p, "panic")
          /\ UNCHANGED results
    /\ UNCHANGED <<job, suite, event, costs, report, log>>

\* RunSuite returns; NewReportWriter makes the report's directory, and the
\* event is made and marshalled.
MakeEvent(p) ==
    /\ Alive(p, "cases")
    /\ Len(results[p]) = Len(suite[p])
    /\ \E e \in Events(job[p].suite, results[p]) :
          \/ /\ CanMarshal(e)
             /\ event' = [event EXCEPT ![p] = e]
             /\ Goto(p, "report")
          \/ /\ End(p, "non_zero")
             /\ UNCHANGED event
    /\ UNCHANGED <<job, suite, results, costs, report, log>>

Chunk(p, n, part) == [by |-> p, case |-> n, part |-> part]
IsHead(c) == c.part = "head"
Heads(file) == {i \in DOMAIN file : IsHead(file[i])}
ShortWrites == Cardinality(Heads(report)) + Cardinality(Heads(log))

\* What a file may hold once a write system call of p's line for case n has
\* returned, and whether the line is complete then.
Written(p, n, file, resumed) ==
    {[file |-> Append(file, Chunk(p, n, IF resumed THEN "tail" ELSE "whole")), done |-> TRUE]}
        \cup (IF resumed \/ ShortWrites >= MaxShort THEN {}
              ELSE {[file |-> Append(file, Chunk(p, n, "head")), done |-> FALSE]})

\* Mutant: the error of Write is not looked at.
ReportErrorIgnored(p) ==
    /\ Alive(p, "report") \/ Alive(p, "report_rest")
    /\ \/ \E w \in Written(p, 0, report, step[p] = "report_rest") :
             /\ report' = w.file
             /\ Goto(p, IF ~w.done THEN "report_rest" ELSE IF IsDemo(p) THEN "record" ELSE "print")
       \/ /\ Goto(p, IF IsDemo(p) THEN "record" ELSE "print")
          /\ UNCHANGED report
    /\ UNCHANGED <<job, suite, results, event, costs, log>>

\* ReportWriter.Write opens the report and appends the line, or fails, before
\* the write or half-way.
WriteReport(p) ==
    /\ Alive(p, "report") \/ Alive(p, "report_rest")
    /\ \/ \E w \in Written(p, 0, report, step[p] = "report_rest") :
             /\ report' = w.file
             /\ Goto(p, IF ~w.done THEN "report_rest" ELSE IF IsDemo(p) THEN "record" ELSE "print")
       \/ /\ End(p, "non_zero")
          /\ UNCHANGED report
    /\ UNCHANGED <<job, suite, results, event, costs, log>>

\* `run` prints the result and is done, unless it cannot print.
PrintResult(p) ==
    /\ Alive(p, "print")
    /\ \E how \in {"zero", "non_zero"} : End(p, how)
    /\ UNCHANGED <<job, suite, results, event, costs, report, log>>

\* Mutant: one case too many.
RecordOneMore(p) ==
    /\ Alive(p, "record") \/ Alive(p, "record_rest")
    /\ costs[p] <= Len(results[p])
    /\ \E w \in Written(p, costs[p] + 1, log, step[p] = "record_rest") :
          /\ log' = w.file
          /\ costs' = IF w.done THEN [costs EXCEPT ![p] = @ + 1] ELSE costs
          /\ Goto(p, IF w.done THEN "record" ELSE "record_rest")
    /\ UNCHANGED <<job, suite, results, event, report>>

\* runDemoWithCost records the next case; an error ends the command with the
\* costs of the cases before it already in the log.
Record(p) ==
    /\ Alive(p, "record") \/ Alive(p, "record_rest")
    /\ costs[p] < Len(results[p])
    /\ \/ \E w \in Written(p, costs[p] + 1, log, step[p] = "record_rest") :
             /\ log' = w.file
             /\ costs' = IF w.done THEN [costs EXCEPT ![p] = @ + 1] ELSE costs
             /\ Goto(p, IF w.done THEN "record" ELSE "record_rest")
       \/ /\ End(p, "non_zero")
          /\ UNCHANGED <<costs, log>>
    /\ UNCHANGED <<job, suite, results, event, report>>

\* Once all are recorded RunE compares the total with the gate; it does not
\* look at the verdict.
Gate(p) ==
    /\ Alive(p, "record")
    /\ costs[p] = Len(results[p])
    /\ End(p, IF costs[p] * CaseCost > MaxUSD THEN "non_zero" ELSE "zero")
    /\ UNCHANGED <<job, suite, results, event, costs, report, log>>

Kill(p) ==
    /\ exit[p] = "none"
    /\ End(p, "killed")
    /\ UNCHANGED <<job, suite, results, event, costs, report, log>>

Ended == (\A p \in Procs : exit[p] # "none") /\ UNCHANGED vars

\* Mutant: a case that panics is not noticed, and its suite waits for it.
PanicLost(p) ==
    \/ Start(p) \/ (NextCase(p) /\ results' # results) \/ MakeEvent(p) \/ WriteReport(p)
    \/ PrintResult(p) \/ Record(p) \/ Gate(p)

Command(p) ==
    \/ Start(p) \/ NextCase(p) \/ MakeEvent(p) \/ WriteReport(p) \/ PrintResult(p)
    \/ Record(p) \/ Gate(p)

Next == (\E p \in Procs : Command(p) \/ Kill(p)) \/ Ended

Spec == Init /\ [][Next]_vars

\* A process that is not killed is run; a case comes to an end (SuiteRun).
FairSpec == Spec /\ \A p \in Procs : WF_vars(Command(p))
-----------------------------------------------------------------------------
TypeOK ==
    /\ job \in Scenarios
    /\ DOMAIN suite = Procs /\ DOMAIN results = Procs /\ DOMAIN event = Procs
    /\ costs \in [Procs -> Nat]
    /\ step \in [Procs -> {"start", "cases", "report", "report_rest", "print",
                           "record", "record_rest", "end"}]
    /\ \A p \in Procs :
          /\ Len(results[p]) <= Len(suite[p])
          /\ \A i \in DOMAIN results[p] : results[p][i].verdict \in {"PASS", "FAIL", "WARN", ""}
          /\ costs[p] \in 0 .. Len(results[p])
    /\ report \in Seq([by : Procs, case : {0}, part : {"whole", "head", "tail"}])
    /\ log \in Seq([by : Procs, case : Nat, part : {"whole", "head", "tail"}])
    /\ \A i \in DOMAIN log : IsDemo(log[i].by) /\ log[i].case \in 1 .. Len(suite[log[i].by])
    /\ exit \in [Procs -> Ends \cup {"none"}]

\* The chunks that complete a line of process p.
Completed(p, file) == {i \in DOMAIN file : file[i].by = p /\ ~IsHead(file[i])}

\* What a run leaves behind, wherever it was stopped and whoever wrote at the
\* same time: at most one line in the report, and that only of a suite that was
\* run to its end; costs only after that line, one per case and in the order of
\* the cases; and a zero exit means that all of it has been written.
Accountable ==
    \A p \in Procs :
        LET reported == Completed(p, report)
            logged == Completed(p, log)
        IN  /\ \A i, j \in reported : i = j
            /\ reported # {} => Len(results[p]) = Len(suite[p]) /\ event[p] # NoEvent
            /\ costs[p] > 0 => reported # {}
            /\ {log[i].case : i \in logged} = 1 .. costs[p]
            /\ \A i, j \in logged : i < j => log[i].case < log[j].case
            /\ exit[p] = "zero" =>
                  reported # {} /\ (IsDemo(p) => costs[p] = Len(suite[p]))

\* Mutant: the newline that ends a line is not written.
NewlineForgotten(file, i) == i = 1

\* A newline ends every line, so a chunk starts one unless a head is before it.
StartsLine(file, i) == i = 1 \/ ~IsHead(file[i - 1])

\* What ends in chunk i is a line of its own.
ReadBack(file, i) ==
    \/ file[i].part = "whole" /\ StartsLine(file, i)
    \/ /\ file[i].part = "tail"
       /\ i > 1 /\ file[i - 1] = [file[i] EXCEPT !.part = "head"]
       /\ StartsLine(file, i - 1)

Lost(file) == {i \in DOMAIN file : ~IsHead(file[i]) /\ ~ReadBack(file, i)}

\* report.go:44: "Write appends a SuiteResult as an NDJSON line".  Not even a
\* process that fails or is killed half-way in a line spoils more of a file that
\* others append to than its own line and the next one; every other line whose
\* write has returned can be read back.
LossBounded ==
    \A file \in {report, log} :
        Cardinality(Lost(file)) <= 2 * Cardinality(Heads(file))

\* RunSuite and aggregateVerdict: a suite is reported as passed just if all of its
\* cases were run and passed.  One that has a case which warns is not, nor one with
\* a case that sets no verdict, although that fails nothing by itself.
PassMeansAllPassed ==
    \A p \in Procs : event[p] # NoEvent =>
        LET e == event[p] IN
        /\ e.total = Len(suite[p])
        /\ e.verdict = "PASS" <=> e.passed = e.total

Least(v, w) == v[1] * w[2] <= w[1] * v[2]

\* A reported line tells what the cases measured: every metric has its sum and
\* an average between its least and its greatest value.  Where the average of
\* another metric has the same name (x_avg and the average of x), it takes the
\* place of the sum; and the average is then that of the one or of the other,
\* and of nothing else.
MetricsTellRun ==
    \A p \in Procs : event[p] # NoEvent =>
        LET m == event[p].metrics
            names == Emitted(results[p])
            values(k) == {results[p][i].metrics[k] : i \in Emitters(results[p], k)}
            mean(v, k) == Over(v, Cardinality(Emitters(results[p], k)))
        IN  \A k \in names :
               /\ m[Avg(k)] \in {mean(Sum(results[p], k), k), mean(m[k], k)}
               /\ (\A j \in names : k # Avg(j)) =>
                     /\ m[k] = Sum(results[p], k)
                     /\ \E v, w \in values(k) : Least(v, m[Avg(k)]) /\ Least(m[Avg(k)], w)

\* Every process comes to an end by itself.
CommandsEnd == \A p \in Procs : <>(exit[p] # "none")

\* demo.go:46: the command "exits non-zero if cost exceeds the $0.50 gate or
\* any task fails".
ZeroMeansPassed ==
    \A p \in Procs : IsDemo(p) /\ exit[p] = "zero" => event[p].failed = 0

\* rubric_test.go:216, EmptyVerdictAggregatesAsFail: "expected non-Pass verdict
\* due to explicit_nil_verdict_caught case"; a case without a verdict is one of
\* the failed.
EmptyVerdictFails ==
    \A p \in Procs : event[p] # NoEvent =>
        event[p].failed = Count(results[p], "FAIL") + Count(results[p], "")
=============================================================================
