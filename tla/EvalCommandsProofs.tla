-------------------------- MODULE EvalCommandsProofs --------------------------
(***************************************************************************)
(* What TLAPS proves of EvalCommands, for any number of processes, any     *)
(* suites, prices and short writes: what a run leaves behind wherever it   *)
(* is stopped, how much of a file can be lost, and that a line tells what  *)
(* the cases returned.                                                     *)
(***************************************************************************)
EXTENDS EvalCommands, LoopProofs

Verdicts == {"PASS", "FAIL", "WARN", ""}

\* A case whose results have a verdict the runner knows.
Returns(case) == \A r \in case : r = Panic \/ r.verdict \in Verdicts

Runnable(cases) == Len(cases) \in Nat /\ \A i \in 1 .. Len(cases) : Returns(cases[i])

CaseSet == {SuiteForRun[i] : i \in DOMAIN SuiteForRun}
-----------------------------------------------------------------------------
(* The suites. *)

LEMMA SuiteType == SuiteForRun \in Seq(CaseSet) /\ Len(SuiteForRun) \in Nat
<1> DEFINE n == Len(CanonicalTasks) * Len(ProductionModels)
<1>1. n \in Nat
  <2>1. Len(CanonicalTasks) \in Nat /\ Len(ProductionModels) \in Nat
    BY AgentCasesAssumption, LenProperties
  <2> QED  BY <2>1
<1>2. DOMAIN SuiteForRun = 1 .. n
  BY DEF SuiteForRun
<1>3. SuiteForRun \in [1 .. n -> CaseSet]
  <2>1. SuiteForRun = [i \in DOMAIN SuiteForRun |-> SuiteForRun[i]]
    BY DEF SuiteForRun
  <2> QED  BY <1>2, <2>1 DEF CaseSet
<1> HIDE DEF n
<1>4. SuiteForRun \in Seq(CaseSet)
  BY <1>1, <1>3, SeqDef
<1> QED  BY <1>4, LenProperties

\* The demo's suite is a part of the whole one.
LEMMA DemoSuiteType ==
    buildDemoSuite \in Seq(CaseSet) /\ Len(buildDemoSuite) <= Len(SuiteForRun)
<1> DEFINE N == Len(SuiteForRun)
           K == {c \in CaseSet : c.model = DemoModel}
           Loop(f) == f = [i \in 0 .. N |->
                              IF i = 0 THEN <<>>
                              ELSE IF SuiteForRun[i].model = DemoModel
                                   THEN Append(f[i - 1], SuiteForRun[i])
                                   ELSE f[i - 1]]
           filtered == CHOOSE f : Loop(f)
<1>1. SuiteForRun \in Seq(CaseSet) /\ N \in Nat
  BY SuiteType
<1>2. \A i \in 1 .. N : SuiteForRun[i].model = DemoModel <=> SuiteForRun[i] \in K
  BY <1>1, ElementOfSeq
<1>3. ASSUME NEW f, Filters(SuiteForRun, K, N, f) PROVE Loop(f)
  <2>1. \A i \in 0 .. N : i # 0 => i \in 1 .. N
    BY <1>1
  <2> HIDE DEF N, K
  <2> QED  BY <1>2, <1>3, <2>1 DEF Filters
<1>4. ASSUME NEW f, Loop(f) PROVE Filters(SuiteForRun, K, N, f)
  <2>1. \A i \in 0 .. N : i # 0 => i \in 1 .. N
    BY <1>1
  <2> HIDE DEF N, K
  <2> QED  BY <1>2, <1>4, <2>1 DEF Filters
<1>5. buildDemoSuite = filtered[N]
  BY DEF buildDemoSuite
<1>6. Loop(filtered)
  <2>1. \E f : Loop(f)
    <3>1. PICK f : Filters(SuiteForRun, K, N, f)
      BY <1>1, FilterExists
    <3> HIDE DEF Loop
    <3> QED  BY <1>3, <3>1
  <2> HIDE DEF Loop
  <2> QED  BY <2>1
<1> HIDE DEF Loop, filtered, K
<1>7. Filters(SuiteForRun, K, N, filtered)
  BY <1>4, <1>6
<1> QED  BY <1>1, <1>5, <1>7, FilterType

LEMMA Verdict ==
    /\ \A m : Pass(m).verdict = "PASS"
    /\ \A e : Fail(e).verdict = "FAIL"
    /\ \A v, e, m : CaseResult(v, e, m).verdict = v
  BY DEF Pass, Fail, CaseResult

LEMMA DemoRunnable ==
    ASSUME NEW live
    PROVE  Runnable(DemoCases(live))
<1> DEFINE n == Len(buildDemoSuite)
           cases == DemoCases(live)
<1>1. n \in Nat /\ DOMAIN buildDemoSuite = 1 .. n
  BY DemoSuiteType, LenProperties
<1>2. cases = [i \in 1 .. n |-> cases[i]]
  BY <1>1 DEF DemoCases
<1>3. Len(cases) = n
  <2> DEFINE T == {cases[i] : i \in 1 .. n}
  <2>1. cases \in [1 .. n -> T]
    BY <1>2
  <2> HIDE DEF n, T, cases
  <2>2. cases \in Seq(T)
    BY <1>1, <2>1, SeqDef
  <2> QED  BY <1>1, <1>2, <2>2, LenProperties
<1>4. ASSUME NEW c, NEW o PROVE ResultOf(c, o).verdict \in Verdicts
  <2>1. CASE o.kind = "ok"
    BY <2>1, Verdict DEF ResultOf, Verdicts
  <2>2. CASE o.kind # "ok"
    <3>1. ResultOf(c, o) = CaseResult("FAIL", o.kind, o.metrics)
      BY <2>2 DEF ResultOf
    <3> QED  BY <3>1 DEF CaseResult, Verdicts
  <2> QED  BY <2>1, <2>2
<1>5. LoopguardTripped.verdict \in Verdicts
  BY Verdict DEF LoopguardTripped, Verdicts
<1>6. ASSUME NEW i \in 1 .. n PROVE Returns(cases[i])
  <2>1. cases[i] = IF live THEN AgentCase(buildDemoSuite[i])
                   ELSE {LoopguardTripped,
                         ResultOf(buildDemoSuite[i], DefaultOutcome(buildDemoSuite[i]))}
    BY <1>1 DEF DemoCases
  <2> HIDE DEF cases
  <2> QED  BY <1>4, <1>5, <2>1 DEF AgentCase, Returns
<1> QED  BY <1>1, <1>3, <1>6 DEF Runnable

LEMMA CaseReturns ==
    /\ \A m : Returns({Pass(m)}) /\ Returns(Timed(m))
    /\ \A e : Returns({Fail(e)})
    /\ \A v \in Verdicts : \A e, m : Returns({CaseResult(v, e, m)})
    /\ \A bad, e : Returns(Unless(bad, e))
    /\ Returns({Panic})
<1>1. \A m, e : Pass(m).verdict \in Verdicts /\ Fail(e).verdict \in Verdicts
  BY Verdict DEF Verdicts
<1>2. \A v \in Verdicts : \A e, m : CaseResult(v, e, m).verdict \in Verdicts
  BY Verdict
<1> QED  BY <1>1, <1>2 DEF Returns, Timed, Unless

LEMMA SixRunnable ==
    ASSUME NEW a, NEW b, NEW c, NEW d, NEW e, NEW f,
           Returns(a), Returns(b), Returns(c), Returns(d), Returns(e), Returns(f)
    PROVE  Runnable(<<a, b, c, d, e, f>>)
  BY DEF Runnable

\* Every suite that can be found has cases that return a result or panic.
LEMMA SuiteRunnable ==
    ASSUME NEW j \in Job
    PROVE  Runnable(SuiteOf(j))
<1>1. Runnable(<<>>)
  BY DEF Runnable
<1>2. Runnable(ReliabilitySuite)
  <2>1. \A m, n : Returns({Pass(m), CaseResult("FAIL", "timeout as expected", n)})
    <3>1. \A n : CaseResult("FAIL", "timeout as expected", n).verdict \in Verdicts
      BY DEF CaseResult, Verdicts
    <3>2. \A m : Pass(m).verdict \in Verdicts
      BY Verdict DEF Verdicts
    <3> QED  BY <3>1, <3>2 DEF Returns
  <2> QED  BY <2>1, CaseReturns, SixRunnable DEF ReliabilitySuite
<1>3. Runnable(ObservabilitySuite)
  <2>1. Returns({Pass(Metric("latency_ms", Value(ms))) : ms \in {0, 1}})
    BY Verdict DEF Returns, Verdicts
  <2> QED  BY <2>1, CaseReturns, SixRunnable DEF ObservabilitySuite
<1>4. Runnable(SecuritySuite(j.env))
  BY CaseReturns, SixRunnable DEF SecuritySuite
<1>5. Runnable(TestCoverageSuite(j.env))
  <2>1. Returns({ReportWriterCovered(j.env)})
    <3>1. j.env.tmp \in {"ok", "write fails", "not made"}
      BY DEF Job
    <3>2. ReportWriterCovered(j.env) \in {Pass(NoMetrics), Fail("write error"), Panic}
      BY <3>1, Zenon DEF ReportWriterCovered
    <3> QED  BY <3>2, CaseReturns
  <2> QED  BY <2>1, CaseReturns, SixRunnable DEF TestCoverageSuite
<1>6. Runnable(TaskCompletionSuite)
  <2>1. {"WARN", ""} \subseteq Verdicts
    BY DEF Verdicts
  <2> QED  BY <2>1, CaseReturns, SixRunnable DEF TaskCompletionSuite
<1>7. ASSUME j.suite \in DOMAIN AllSuites(j.env)
      PROVE  Runnable(AllSuites(j.env)[j.suite])
  BY <1>2, <1>3, <1>4, <1>5, <1>6, <1>7 DEF AllSuites
<1> QED  BY <1>1, <1>7, DemoRunnable DEF SuiteOf
-----------------------------------------------------------------------------
(* The inductive invariant. *)

Parts == {"whole", "head", "tail"}
Chunks == [by : Procs, case : Nat, part : Parts]

Typed ==
    /\ TypeOK
    /\ \A p \in Procs : Runnable(suite[p]) /\ results[p] \in Seq(ToSet(results[p]))

\* How far a process is tells what it has written.
Progress(p) ==
    /\ step[p] = "start" => results[p] = <<>>
    /\ step[p] \in {"start", "cases"} => event[p] = NoEvent
    /\ step[p] \in {"report", "report_rest"} => event[p] # NoEvent
    /\ step[p] \in {"start", "cases", "report", "report_rest"} =>
          Completed(p, report) = {} /\ \A i \in DOMAIN log : log[i].by # p
    /\ step[p] \in {"print", "record", "record_rest"} => Completed(p, report) # {}
    /\ step[p] \in {"record", "record_rest"} => IsDemo(p)
    /\ step[p] = "print" => ~IsDemo(p)

\* The event is that of all the cases.
Told(p) ==
    event[p] # NoEvent =>
        Len(results[p]) = Len(suite[p]) /\ event[p] \in Events(job[p].suite, results[p])

\* What Accountable says of one process.
Account(p) ==
    /\ \A i, j \in Completed(p, report) : i = j
    /\ Completed(p, report) # {} => event[p] # NoEvent
    /\ costs[p] > 0 => Completed(p, report) # {}
    /\ {log[i].case : i \in Completed(p, log)} = 1 .. costs[p]
    /\ \A i, j \in Completed(p, log) : i < j => log[i].case < log[j].case
    /\ exit[p] = "zero" =>
          Completed(p, report) # {} /\ (IsDemo(p) => costs[p] = Len(suite[p]))

\* Every tail has its head, and so has every line that is half written.
HeadIn(file, p, n) == \E h \in DOMAIN file : file[h] = Chunk(p, n, "head")
Headed(file) ==
    \A i \in DOMAIN file :
        file[i].part = "tail" => HeadIn(file, file[i].by, file[i].case)
Resumable(p) ==
    /\ step[p] = "report_rest" => HeadIn(report, p, 0)
    /\ step[p] = "record_rest" => HeadIn(log, p, costs[p] + 1)

Kept(p) == Progress(p) /\ Told(p) /\ Account(p) /\ Resumable(p)

IInv == Typed /\ Headed(report) /\ Headed(log) /\ \A p \in Procs : Kept(p)
-----------------------------------------------------------------------------
(* What a write adds to a file. *)

LEMMA Appended ==
    ASSUME NEW S, NEW s \in Seq(S), NEW x, NEW t, t = Append(s, x)
    PROVE  /\ Len(s) \in Nat /\ DOMAIN s = 1 .. Len(s)
           /\ x \in S => t \in Seq(S)
           /\ Len(t) = Len(s) + 1 /\ DOMAIN t = 1 .. Len(s) + 1
           /\ t[Len(s) + 1] = x /\ \A i \in 1 .. Len(s) : t[i] = s[i]
<1> DEFINE T == S \cup {x}
<1>1. s \in Seq(T) /\ x \in T
  BY SeqDef
<1>2. x \in S => t \in Seq(S)
  BY AppendProperties
<1> HIDE DEF T
<1>3. /\ Len(t) = Len(s) + 1 /\ t \in Seq(T)
      /\ t[Len(s) + 1] = x /\ \A i \in 1 .. Len(s) : t[i] = s[i]
  BY <1>1, AppendProperties
<1>4. Len(s) \in Nat /\ DOMAIN s = 1 .. Len(s) /\ DOMAIN t = 1 .. Len(t)
  BY <1>3, LenProperties
<1> QED  BY <1>2, <1>3, <1>4

Extended(file, p, n, part) == Append(file, Chunk(p, n, part))

\* A chunk of p completes a line, if it is no head, of p and of nobody else.
LEMMA Completes ==
    ASSUME NEW file \in Seq(Chunks), NEW p \in Procs, NEW n \in Nat, NEW part \in Parts,
           NEW new, new = Extended(file, p, n, part)
    PROVE  /\ Completed(p, new) = Completed(p, file)
                                      \cup (IF part = "head" THEN {} ELSE {Len(file) + 1})
           /\ \A q : q # p => Completed(q, new) = Completed(q, file)
<1>1. Chunk(p, n, part) \in Chunks
  BY DEF Chunk, Chunks
<1>2. /\ Len(file) \in Nat /\ DOMAIN file = 1 .. Len(file)
      /\ DOMAIN new = 1 .. Len(file) + 1
      /\ new[Len(file) + 1] = Chunk(p, n, part)
      /\ \A i \in 1 .. Len(file) : new[i] = file[i]
  BY <1>1, Appended DEF Extended
<1>3. DOMAIN new = DOMAIN file \cup {Len(file) + 1} /\ Len(file) + 1 \notin DOMAIN file
  BY <1>2
<1>4. new[Len(file) + 1].by = p /\ new[Len(file) + 1].part = part
  BY <1>2 DEF Chunk
<1>5. \A i \in DOMAIN file : new[i] = file[i]
  BY <1>2
<1> QED  BY <1>3, <1>4, <1>5 DEF Completed, IsHead

\* Every tail still has its head, and what else may be resumed can be.
LEMMA StillHeaded ==
    ASSUME NEW file \in Seq(Chunks), NEW p \in Procs, NEW n \in Nat, NEW part \in Parts,
           NEW new, new = Extended(file, p, n, part)
    PROVE  /\ Headed(file) /\ (part = "tail" => HeadIn(file, p, n)) => Headed(new)
           /\ \A q, m : HeadIn(file, q, m) => HeadIn(new, q, m)
           /\ part = "head" => HeadIn(new, p, n)
<1>1. Chunk(p, n, part) \in Chunks
  BY DEF Chunk, Chunks
<1>2. /\ Len(file) \in Nat /\ DOMAIN file = 1 .. Len(file)
      /\ DOMAIN new = 1 .. Len(file) + 1
      /\ new[Len(file) + 1] = Chunk(p, n, part)
      /\ \A i \in 1 .. Len(file) : new[i] = file[i]
  BY <1>1, Appended DEF Extended
<1>3. DOMAIN new = DOMAIN file \cup {Len(file) + 1}
  BY <1>2
<1>4. \A i \in DOMAIN file : new[i] = file[i]
  BY <1>2
<1>5. \A q, m : HeadIn(file, q, m) => HeadIn(new, q, m)
  BY <1>3, <1>4 DEF HeadIn
<1>6. part = "head" => HeadIn(new, p, n)
  BY <1>2, <1>3 DEF HeadIn
<1>7. ASSUME Headed(file), part = "tail" => HeadIn(file, p, n), NEW i \in DOMAIN new,
             new[i].part = "tail"
      PROVE  HeadIn(new, new[i].by, new[i].case)
  <2>1. CASE i \in DOMAIN file
    BY <1>4, <1>5, <1>7, <2>1 DEF Headed
  <2>2. CASE i = Len(file) + 1
    <3>1. part = "tail" /\ new[i].by = p /\ new[i].case = n
      BY <1>2, <1>7, <2>2 DEF Chunk
    <3> QED  BY <1>5, <1>7, <3>1
  <2> QED  BY <1>3, <1>7, <2>1, <2>2
<1> QED  BY <1>5, <1>6, <1>7 DEF Headed

\* A write system call of p's line for case n has appended the whole line, its
\* tail or its head.
LEMMA WrittenIs ==
    ASSUME NEW p, NEW n, NEW file, NEW resumed \in BOOLEAN,
           NEW w \in Written(p, n, file, resumed)
    PROVE  \/ /\ w.done = TRUE
              /\ w.file = Extended(file, p, n, IF resumed THEN "tail" ELSE "whole")
           \/ /\ w.done = FALSE /\ ~resumed
              /\ w.file = Extended(file, p, n, "head")
  BY DEF Written, Extended
-----------------------------------------------------------------------------
(* What a step of one process leaves alone. *)

Grown(p, file, new) ==
    \/ new = file
    \/ \E n \in Nat, part \in Parts : new = Extended(file, p, n, part)

Moves(p) ==
    /\ job' = job
    /\ \A q \in Procs \ {p} :
          /\ step'[q] = step[q] /\ suite'[q] = suite[q] /\ results'[q] = results[q]
          /\ event'[q] = event[q] /\ costs'[q] = costs[q] /\ exit'[q] = exit[q]
    /\ Grown(p, report, report') /\ Grown(p, log, log')

LEMMA FileTypes ==
    ASSUME TypeOK
    PROVE  report \in Seq(Chunks) /\ log \in Seq(Chunks)
<1>1. [by : Procs, case : {0}, part : {"whole", "head", "tail"}] \subseteq Chunks
  BY DEF Chunks, Parts
<1>2. report \in Seq(Chunks)
  <2> DEFINE R == [by : Procs, case : {0}, part : {"whole", "head", "tail"}]
  <2>1. report \in Seq(R) /\ R \subseteq Chunks
    BY <1>1 DEF TypeOK
  <2> HIDE DEF R
  <2>2. PICK n \in Nat : report \in [1 .. n -> R]
    BY <2>1, SeqDef
  <2>3. report \in [1 .. n -> Chunks]
    BY <2>1, <2>2
  <2> QED  BY <2>3, SeqDef
<1> QED  BY <1>2 DEF TypeOK, Chunks, Parts

LEMMA EachMoves ==
    ASSUME TypeOK, NEW p \in Procs, Command(p) \/ Kill(p)
    PROVE  Moves(p)
<1> USE DEF TypeOK, Moves, Goto, End, Grown
<1>0. costs[p] + 1 \in Nat
  <2>1. costs \in [Procs -> Nat]
    OBVIOUS
  <2> HIDE DEF TypeOK
  <2> QED  BY <2>1
<1>1. CASE Start(p)
  BY <1>1 DEF Start
<1>2. CASE NextCase(p)
  BY <1>2 DEF NextCase
<1>3. CASE MakeEvent(p)
  BY <1>3 DEF MakeEvent
<1>4. CASE WriteReport(p)
  <2>1. report' = report \/ \E w \in Written(p, 0, report, step[p] = "report_rest") : report' = w.file
    BY <1>4 DEF WriteReport
  <2>2. Grown(p, report, report')
    <3>1. ASSUME NEW w \in Written(p, 0, report, step[p] = "report_rest"), report' = w.file
          PROVE  Grown(p, report, report')
      <4>1. \E part \in Parts : w.file = Extended(report, p, 0, part)
        BY WrittenIs, Zenon DEF Parts
      <4>2. 0 \in Nat
        OBVIOUS
      <4> QED  BY <3>1, <4>1, <4>2
    <3> QED  BY <2>1, <3>1
  <2>3. /\ UNCHANGED <<job, suite, results, event, costs, log>>
        /\ \E s, x : /\ step' = [step EXCEPT ![p] = s]
                     /\ exit' = [exit EXCEPT ![p] = x] \/ exit' = exit
    BY <1>4 DEF WriteReport
  <2> QED  BY <2>2, <2>3
<1>5. CASE PrintResult(p)
  BY <1>5 DEF PrintResult
<1>6. CASE Record(p)
  <2>1. log' = log \/ \E w \in Written(p, costs[p] + 1, log, step[p] = "record_rest") : log' = w.file
    BY <1>6 DEF Record
  <2>2. Grown(p, log, log')
    <3>1. ASSUME NEW w \in Written(p, costs[p] + 1, log, step[p] = "record_rest"), log' = w.file
          PROVE  Grown(p, log, log')
      <4>1. \E part \in Parts : w.file = Extended(log, p, costs[p] + 1, part)
        BY WrittenIs, Zenon DEF Parts
      <4>2. costs[p] + 1 \in Nat
        BY <1>0
      <4> QED  BY <3>1, <4>1, <4>2
    <3> QED  BY <2>1, <3>1
  <2>3. /\ UNCHANGED <<job, suite, results, event, report>>
        /\ costs' = costs \/ costs' = [costs EXCEPT ![p] = @ + 1]
        /\ \E s, x : /\ step' = [step EXCEPT ![p] = s]
                     /\ exit' = [exit EXCEPT ![p] = x] \/ exit' = exit
    BY <1>6 DEF Record
  <2> QED  BY <2>2, <2>3
<1>7. CASE Gate(p)
  BY <1>7 DEF Gate
<1>8. CASE Kill(p)
  BY <1>8 DEF Kill
<1> QED  BY <1>1, <1>2, <1>3, <1>4, <1>5, <1>6, <1>7, <1>8 DEF Command

\* The other processes see nothing of it but more chunks that are not theirs.
LEMMA GrownForOthers ==
    ASSUME NEW file \in Seq(Chunks), NEW p \in Procs, NEW new, Grown(p, file, new),
           NEW q, q # p
    PROVE  /\ Completed(q, new) = Completed(q, file)
           /\ \A i \in DOMAIN file : new[i] = file[i]
           /\ (\A i \in DOMAIN file : file[i].by # q) => \A i \in DOMAIN new : new[i].by # q
           /\ \A m : HeadIn(file, q, m) => HeadIn(new, q, m)
<1>1. CASE new = file
  BY <1>1
<1>2. ASSUME NEW n \in Nat, NEW part \in Parts, new = Extended(file, p, n, part)
      PROVE  /\ Completed(q, new) = Completed(q, file)
             /\ \A i \in DOMAIN file : new[i] = file[i]
             /\ (\A i \in DOMAIN file : file[i].by # q) => \A i \in DOMAIN new : new[i].by # q
             /\ \A m : HeadIn(file, q, m) => HeadIn(new, q, m)
  <2>1. Completed(q, new) = Completed(q, file)
    BY <1>2, Completes
  <2>2. \A m : HeadIn(file, q, m) => HeadIn(new, q, m)
    BY <1>2, StillHeaded
  <2>3. Chunk(p, n, part) \in Chunks /\ Chunk(p, n, part).by = p
    BY DEF Chunk, Chunks
  <2>4. /\ Len(file) \in Nat /\ DOMAIN file = 1 .. Len(file)
        /\ DOMAIN new = 1 .. Len(file) + 1
        /\ new[Len(file) + 1] = Chunk(p, n, part)
        /\ \A i \in 1 .. Len(file) : new[i] = file[i]
    BY <1>2, <2>3, Appended DEF Extended
  <2>5. \A i \in DOMAIN new : i \in DOMAIN file \/ i = Len(file) + 1
    BY <2>4
  <2> QED  BY <2>1, <2>2, <2>3, <2>4, <2>5
<1> QED  BY <1>1, <1>2 DEF Grown

LEMMA OthersKept ==
    ASSUME IInv, NEW p \in Procs, Moves(p), NEW q \in Procs, q # p
    PROVE  Kept(q)'
<1>1. /\ job' = job /\ step'[q] = step[q] /\ suite'[q] = suite[q] /\ results'[q] = results[q]
      /\ event'[q] = event[q] /\ costs'[q] = costs[q] /\ exit'[q] = exit[q]
  BY DEF Moves
<1>2. report \in Seq(Chunks) /\ log \in Seq(Chunks)
  BY FileTypes DEF IInv, Typed
<1>3. /\ Completed(q, report') = Completed(q, report)
      /\ \A m : HeadIn(report, q, m) => HeadIn(report', q, m)
  BY <1>2, GrownForOthers DEF Moves
<1>4. /\ Completed(q, log') = Completed(q, log)
      /\ \A i \in DOMAIN log : log'[i] = log[i]
      /\ (\A i \in DOMAIN log : log[i].by # q) => \A i \in DOMAIN log' : log'[i].by # q
      /\ \A m : HeadIn(log, q, m) => HeadIn(log', q, m)
  BY <1>2, GrownForOthers DEF Moves
<1>5. Kept(q)
  BY DEF IInv
<1>6. Progress(q)'
  BY <1>1, <1>3, <1>4, <1>5 DEF Kept, Progress, IsDemo
<1>7. Told(q)'
  BY <1>1, <1>5 DEF Kept, Told
<1>8. Account(q)'
  <2>1. \A i \in Completed(q, log) : log'[i] = log[i]
    BY <1>4 DEF Completed
  <2> QED  BY <1>1, <1>3, <1>4, <1>5, <2>1 DEF Kept, Account, IsDemo
<1>9. Resumable(q)'
  BY <1>1, <1>3, <1>4, <1>5 DEF Kept, Resumable
<1> QED  BY <1>6, <1>7, <1>8, <1>9 DEF Kept
-----------------------------------------------------------------------------
(* What a step does to the process that takes it. *)

LEMMA InitInv == Init => IInv
<1> SUFFICES ASSUME Init PROVE IInv
  OBVIOUS
<1> USE DEF Init
<1>1. TypeOK
  <2>1. \A p \in Procs : Len(results[p]) = 0 /\ DOMAIN results[p] = {} /\ Len(suite[p]) = 0
    OBVIOUS
  <2>2. report \in Seq([by : Procs, case : {0}, part : {"whole", "head", "tail"}])
    BY EmptySeq
  <2>3. log \in Seq([by : Procs, case : Nat, part : {"whole", "head", "tail"}]) /\ DOMAIN log = {}
    BY EmptySeq
  <2> QED  BY <2>1, <2>2, <2>3 DEF TypeOK
<1>2. \A p \in Procs : Runnable(suite[p]) /\ results[p] \in Seq(ToSet(results[p]))
  <2>1. \A S : <<>> \in Seq(S)
    BY EmptySeq
  <2> QED  BY <2>1 DEF Runnable
<1>3. Headed(report) /\ Headed(log)
  BY DEF Headed
<1>4. \A p : Completed(p, report) = {} /\ Completed(p, log) = {}
  BY DEF Completed
<1>5. ASSUME NEW p \in Procs PROVE Kept(p)
  <2>1. 1 .. costs[p] = {}
    OBVIOUS
  <2>2. DOMAIN log = {}
    OBVIOUS
  <2> QED  BY <1>4, <2>1, <2>2 DEF Kept, Progress, Told, Account, Resumable
<1> QED  BY <1>1, <1>2, <1>3, <1>5 DEF IInv, Typed

LEMMA SomeEvent ==
    ASSUME NEW name, NEW rs, NEW e \in Events(name, rs)
    PROVE  e # NoEvent
<1>1. "total" \in DOMAIN e
  BY DEF Events
<1>2. "total" \notin DOMAIN NoEvent
  BY DEF NoEvent
<1> QED  BY <1>1, <1>2

LEMMA LogOwners ==
    ASSUME TypeOK
    PROVE  \A i \in DOMAIN log : log[i].by \in Procs
<1>1. log \in Seq(Chunks)
  BY FileTypes
<1>2. \A i \in DOMAIN log : log[i] \in Chunks
  BY <1>1, ElementOfSeq, LenProperties
<1> QED  BY <1>2 DEF Chunks

LEMMA StartKeeps ==
    ASSUME IInv, NEW p \in Procs, Start(p)
    PROVE  Typed' /\ Kept(p)'
<1>1. /\ step[p] = "start" /\ exit[p] = "none"
      /\ UNCHANGED <<job, results, event, costs, report, log>>
  BY DEF Start, Alive
<1>2. \/ /\ suite' = [suite EXCEPT ![p] = SuiteOf(job[p])]
         /\ step' = [step EXCEPT ![p] = "cases"] /\ exit' = exit
      \/ /\ suite' = suite
         /\ step' = [step EXCEPT ![p] = "end"] /\ exit' = [exit EXCEPT ![p] = "non_zero"]
  BY DEF Start, Goto, End
<1>3. TypeOK /\ Kept(p)
  BY DEF IInv, Typed
<1>4. /\ results[p] = <<>> /\ event[p] = NoEvent /\ Completed(p, report) = {}
      /\ \A i \in DOMAIN log : log[i].by # p
  BY <1>1, <1>3 DEF Kept, Progress
<1>5. \A q \in Procs : Runnable(suite'[q])
  <2>1. job[p] \in Job
    BY <1>3, CommandAssumption DEF TypeOK
  <2>2. Runnable(SuiteOf(job[p])) /\ DOMAIN suite = Procs
    BY <1>3, <2>1, SuiteRunnable DEF TypeOK
  <2> QED  BY <1>2, <2>2 DEF IInv, Typed
<1>6. TypeOK'
  <2>1. \A q \in Procs : Len(results[q]) <= Len(suite'[q])
    <3>1. Len(suite'[p]) \in Nat /\ Len(results[p]) = 0
      BY <1>4, <1>5 DEF Runnable
    <3>2. \A q \in Procs \ {p} : suite'[q] = suite[q]
      BY <1>2, <1>3 DEF TypeOK
    <3>3. \A q \in Procs : Len(results[q]) <= Len(suite[q])
      BY <1>3 DEF TypeOK
    <3>4. Len(results[p]) <= Len(suite'[p])
      BY <3>1
    <3> QED  BY <3>2, <3>3, <3>4
  <2>2. \A i \in DOMAIN log : suite'[log[i].by] = suite[log[i].by]
    <3>1. \A i \in DOMAIN log : log[i].by \in Procs
      BY <1>3, LogOwners
    <3>2. \A q \in Procs \ {p} : suite'[q] = suite[q]
      BY <1>2, <1>3 DEF TypeOK
    <3> QED  BY <1>4, <3>1, <3>2
  <2>3. /\ DOMAIN suite' = Procs
        /\ step' \in [Procs -> {"start", "cases", "report", "report_rest", "print",
                                "record", "record_rest", "end"}]
        /\ exit' \in [Procs -> Ends \cup {"none"}]
    BY <1>2, <1>3 DEF TypeOK, Ends
  <2> QED  BY <1>1, <1>3, <2>1, <2>2, <2>3 DEF TypeOK, IsDemo
<1>7. step'[p] \in {"cases", "end"} /\ exit'[p] # "zero"
  BY <1>1, <1>2, <1>3 DEF TypeOK
<1>8. Kept(p)'
  BY <1>1, <1>3, <1>4, <1>7 DEF Kept, Progress, Told, Account, Resumable, IsDemo
<1> QED  BY <1>1, <1>5, <1>6, <1>8 DEF IInv, Typed

\* A case that returns adds its result to the others.
LEMMA CaseReturned ==
    ASSUME NEW rs, rs \in Seq(ToSet(rs)), NEW case, Returns(case),
           NEW after \in RunCase(case, rs)
    PROVE  /\ after \in Seq(ToSet(after)) /\ Len(after) = Len(rs) + 1
           /\ \A i \in DOMAIN after :
                 (i \in DOMAIN rs /\ after[i] = rs[i]) \/ after[i].verdict \in Verdicts
<1>1. PICK r : after = Append(rs, r) /\ r.verdict \in Verdicts
  <2>1. Fail("nil case function").verdict \in Verdicts
    BY Verdict DEF Verdicts
  <2> QED  BY <2>1 DEF RunCase, Returns
<1> DEFINE S == ToSet(rs) \cup {r}
<1>2. rs \in Seq(S) /\ r \in S
  BY SeqDef
<1>3. /\ Len(rs) \in Nat /\ DOMAIN rs = 1 .. Len(rs)
      /\ after \in Seq(S) /\ Len(after) = Len(rs) + 1 /\ DOMAIN after = 1 .. Len(rs) + 1
      /\ after[Len(rs) + 1] = r /\ \A i \in 1 .. Len(rs) : after[i] = rs[i]
  <2> HIDE DEF S
  <2> QED  BY <1>1, <1>2, Appended
<1>4. \A i \in DOMAIN after :
         (i \in DOMAIN rs /\ after[i] = rs[i]) \/ after[i].verdict \in Verdicts
  <2>1. \A i \in DOMAIN after : i \in 1 .. Len(rs) \/ i = Len(rs) + 1
    BY <1>3
  <2> QED  BY <1>1, <1>3, <2>1
<1>5. after \in Seq(ToSet(after))
  <2>1. after \in [1 .. Len(rs) + 1 -> S]
    BY <1>3, LenProperties
  <2>2. after \in [1 .. Len(rs) + 1 -> ToSet(after)]
    <3> HIDE DEF S
    <3> QED  BY <1>3, <2>1 DEF ToSet
  <2>3. Len(rs) + 1 \in Nat
    BY <1>3
  <2> QED  BY <2>2, <2>3, SeqDef
<1> QED  BY <1>3, <1>4, <1>5

LEMMA NextCaseKeeps ==
    ASSUME IInv, NEW p \in Procs, NextCase(p)
    PROVE  Typed' /\ Kept(p)'
<1>1. /\ step[p] = "cases" /\ exit[p] = "none"
      /\ Len(results[p]) < Len(suite[p])
      /\ UNCHANGED <<job, suite, event, costs, report, log>>
  BY DEF NextCase, Alive
<1>2. \/ /\ \E after \in RunCase(suite[p][Len(results[p]) + 1], results[p]) :
               results' = [results EXCEPT ![p] = after]
         /\ step' = step /\ exit' = exit
      \/ /\ results' = results
         /\ step' = [step EXCEPT ![p] = "end"] /\ exit' = [exit EXCEPT ![p] = "panic"]
  BY DEF NextCase, Goto, End
<1>3. TypeOK /\ Kept(p) /\ results[p] \in Seq(ToSet(results[p])) /\ Runnable(suite[p])
  BY DEF IInv, Typed
<1>4. event[p] = NoEvent /\ Completed(p, report) = {} /\ \A i \in DOMAIN log : log[i].by # p
  BY <1>1, <1>3 DEF Kept, Progress
<1>5. /\ DOMAIN results' = Procs /\ \A q \in Procs \ {p} : results'[q] = results[q]
      /\ results'[p] \in Seq(ToSet(results'[p]))
      /\ Len(results'[p]) <= Len(suite[p])
      /\ \A i \in DOMAIN results'[p] : results'[p][i].verdict \in Verdicts
      /\ Len(results[p]) <= Len(results'[p]) /\ Len(results'[p]) \in Nat
  <2>1. CASE results' = results
    <3>1. Len(results[p]) \in Nat
      BY <1>3, LenProperties
    <3>2. /\ DOMAIN results = Procs /\ Len(results[p]) <= Len(suite[p])
          /\ \A i \in DOMAIN results[p] : results[p][i].verdict \in Verdicts
      BY <1>3 DEF TypeOK, Verdicts
    <3> QED  BY <1>3, <2>1, <3>1, <3>2
  <2>2. ASSUME NEW after \in RunCase(suite[p][Len(results[p]) + 1], results[p]),
               results' = [results EXCEPT ![p] = after]
        PROVE  /\ DOMAIN results' = Procs /\ \A q \in Procs \ {p} : results'[q] = results[q]
               /\ results'[p] \in Seq(ToSet(results'[p]))
               /\ Len(results'[p]) <= Len(suite[p])
               /\ \A i \in DOMAIN results'[p] : results'[p][i].verdict \in Verdicts
               /\ Len(results[p]) <= Len(results'[p]) /\ Len(results'[p]) \in Nat
    <3>1. Len(results[p]) \in Nat /\ Len(suite[p]) \in Nat
      BY <1>3, LenProperties DEF Runnable
    <3>2. Len(results[p]) + 1 \in 1 .. Len(suite[p])
      BY <1>1, <3>1
    <3>3. Returns(suite[p][Len(results[p]) + 1])
      BY <1>3, <3>2 DEF Runnable
    <3>4. results'[p] = after /\ DOMAIN results' = Procs /\ \A q \in Procs \ {p} : results'[q] = results[q]
      BY <1>3, <2>2 DEF TypeOK
    <3>5. /\ after \in Seq(ToSet(after)) /\ Len(after) = Len(results[p]) + 1
          /\ \A i \in DOMAIN after :
                (i \in DOMAIN results[p] /\ after[i] = results[p][i])
                \/ after[i].verdict \in Verdicts
      BY <1>3, <3>3, CaseReturned
    <3>6. \A i \in DOMAIN results[p] : results[p][i].verdict \in Verdicts
      BY <1>3 DEF TypeOK, Verdicts
    <3>7. Len(after) <= Len(suite[p]) /\ Len(results[p]) <= Len(after) /\ Len(after) \in Nat
      BY <1>1, <3>1, <3>5
    <3> QED  BY <3>4, <3>5, <3>6, <3>7
  <2> QED  BY <1>2, <2>1, <2>2
<1>6. TypeOK'
  <2>1. \A q \in Procs :
           /\ Len(results'[q]) <= Len(suite[q])
           /\ \A i \in DOMAIN results'[q] : results'[q][i].verdict \in Verdicts
           /\ costs[q] \in 0 .. Len(results'[q])
    <3>1. costs[p] \in 0 .. Len(results'[p])
      <4>1. costs[p] \in 0 .. Len(results[p]) /\ Len(results[p]) \in Nat
        BY <1>3, LenProperties DEF TypeOK
      <4> QED  BY <1>5, <4>1
    <3> QED  BY <1>3, <1>5, <3>1 DEF TypeOK, Verdicts
  <2>2. /\ step' \in [Procs -> {"start", "cases", "report", "report_rest", "print",
                                "record", "record_rest", "end"}]
        /\ exit' \in [Procs -> Ends \cup {"none"}]
    BY <1>2, <1>3 DEF TypeOK, Ends
  <2> QED  BY <1>1, <1>3, <1>5, <2>1, <2>2 DEF TypeOK, IsDemo, Verdicts
<1>7. step'[p] \in {"cases", "end"} /\ exit'[p] # "zero"
  BY <1>1, <1>2, <1>3 DEF TypeOK
<1>8. Kept(p)'
  BY <1>1, <1>3, <1>4, <1>7 DEF Kept, Progress, Told, Account, Resumable, IsDemo
<1> QED  BY <1>1, <1>5, <1>6, <1>8 DEF IInv, Typed
\* A step that leaves the files, the suites, the results and the costs alone.
LEMMA QuietType ==
    ASSUME IInv, UNCHANGED <<job, suite, results, costs, report, log>>,
           DOMAIN event' = Procs,
           step' \in [Procs -> {"start", "cases", "report", "report_rest", "print",
                                "record", "record_rest", "end"}],
           exit' \in [Procs -> Ends \cup {"none"}]
    PROVE  Typed'
<1>1. TypeOK'
  BY DEF IInv, Typed, TypeOK, IsDemo
<1> QED  BY <1>1 DEF IInv, Typed

LEMMA MakeEventKeeps ==
    ASSUME IInv, NEW p \in Procs, MakeEvent(p)
    PROVE  Typed' /\ Kept(p)'
<1>1. /\ step[p] = "cases" /\ exit[p] = "none" /\ Len(results[p]) = Len(suite[p])
      /\ UNCHANGED <<job, suite, results, costs, report, log>>
  BY DEF MakeEvent, Alive
<1>2. TypeOK /\ Kept(p)
  BY DEF IInv, Typed
<1>3. \/ \E e \in Events(job[p].suite, results[p]) :
            /\ event' = [event EXCEPT ![p] = e]
            /\ step' = [step EXCEPT ![p] = "report"] /\ exit' = exit
      \/ /\ event' = event
         /\ step' = [step EXCEPT ![p] = "end"] /\ exit' = [exit EXCEPT ![p] = "non_zero"]
  BY DEF MakeEvent, Goto, End
<1>4. Typed'
  <2>1. DOMAIN event' = Procs
    BY <1>2, <1>3 DEF TypeOK
  <2>2. step' \in [Procs -> {"start", "cases", "report", "report_rest", "print",
                             "record", "record_rest", "end"}]
    BY <1>2, <1>3 DEF TypeOK
  <2>3. exit' \in [Procs -> Ends \cup {"none"}]
    BY <1>2, <1>3 DEF TypeOK, Ends
  <2> QED  BY <1>1, <2>1, <2>2, <2>3, QuietType
<1>5. \/ /\ event'[p] \in Events(job[p].suite, results[p]) /\ event'[p] # NoEvent
         /\ step'[p] = "report" /\ exit'[p] = "none"
      \/ event'[p] = event[p] /\ step'[p] = "end" /\ exit'[p] = "non_zero"
  <2>1. CASE /\ event' = event /\ step' = [step EXCEPT ![p] = "end"]
             /\ exit' = [exit EXCEPT ![p] = "non_zero"]
    BY <1>2, <2>1 DEF TypeOK
  <2>2. ASSUME NEW e \in Events(job[p].suite, results[p]),
               event' = [event EXCEPT ![p] = e],
               step' = [step EXCEPT ![p] = "report"], exit' = exit
        PROVE  /\ event'[p] \in Events(job[p].suite, results[p]) /\ event'[p] # NoEvent
               /\ step'[p] = "report" /\ exit'[p] = "none"
    <3>1. event'[p] = e /\ step'[p] = "report" /\ exit'[p] = "none"
      BY <1>1, <1>2, <2>2 DEF TypeOK
    <3> QED  BY <3>1, SomeEvent
  <2> QED  BY <1>3, <2>1, <2>2
<1>6. Kept(p)'
  BY <1>1, <1>2, <1>5 DEF Kept, Progress, Told, Account, Resumable, IsDemo
<1> QED  BY <1>4, <1>6

\* The command ends here, with no more than its end to show for it.
LEMMA EndKeeps ==
    ASSUME IInv, NEW p \in Procs, NEW how \in Ends, End(p, how),
           UNCHANGED <<job, suite, results, event, costs, report, log>>,
           how = "zero" => /\ Completed(p, report) # {}
                           /\ IsDemo(p) => costs[p] = Len(suite[p])
    PROVE  Typed' /\ Kept(p)'
<1>1. TypeOK /\ Kept(p)
  BY DEF IInv, Typed
<1>2. /\ step' = [step EXCEPT ![p] = "end"] /\ exit' = [exit EXCEPT ![p] = how]
      /\ DOMAIN event' = Procs
  BY <1>1 DEF End, TypeOK
<1>3. /\ step' \in [Procs -> {"start", "cases", "report", "report_rest", "print",
                              "record", "record_rest", "end"}]
      /\ exit' \in [Procs -> Ends \cup {"none"}]
  BY <1>1, <1>2 DEF TypeOK
<1>4. step'[p] = "end" /\ exit'[p] = how
  BY <1>1, <1>2 DEF TypeOK
<1>5. Kept(p)'
  BY <1>1, <1>4 DEF Kept, Progress, Told, Account, Resumable, IsDemo
<1> QED  BY <1>2, <1>3, <1>5, QuietType

LEMMA WriteReportKeeps ==
    ASSUME IInv, NEW p \in Procs, WriteReport(p)
    PROVE  Typed' /\ Kept(p)' /\ Headed(report)' /\ Headed(log)'
<1> DEFINE rest == step[p] = "report_rest"
<1>1. /\ step[p] \in {"report", "report_rest"} /\ exit[p] = "none"
      /\ UNCHANGED <<job, suite, results, event, costs, log>>
  BY DEF WriteReport, Alive
<1>2. TypeOK /\ Kept(p) /\ Headed(report) /\ Headed(log)
  BY DEF IInv, Typed
<1>3. CASE End(p, "non_zero") /\ UNCHANGED report
  <2>1. Typed' /\ Kept(p)'
    BY <1>1, <1>3, EndKeeps DEF Ends
  <2> QED  BY <1>1, <1>2, <1>3, <2>1
<1>4. ASSUME NEW w \in Written(p, 0, report, rest), report' = w.file,
             Goto(p, IF ~w.done THEN "report_rest" ELSE IF IsDemo(p) THEN "record" ELSE "print")
      PROVE  Typed' /\ Kept(p)' /\ Headed(report)' /\ Headed(log)'
  <2>1. PICK part \in Parts :
            /\ report' = Extended(report, p, 0, part)
            /\ \/ /\ part = "head" /\ step[p] = "report"
                  /\ step' = [step EXCEPT ![p] = "report_rest"]
               \/ /\ part # "head" /\ (part = "tail" => rest)
                  /\ step' = [step EXCEPT ![p] = IF IsDemo(p) THEN "record" ELSE "print"]
            /\ exit' = exit
    <3>1. CASE w.done = TRUE /\ w.file = Extended(report, p, 0, IF rest THEN "tail" ELSE "whole")
      BY <1>4, <3>1 DEF Goto, Parts
    <3>2. CASE w.done = FALSE /\ ~rest /\ w.file = Extended(report, p, 0, "head")
      BY <1>1, <1>4, <3>2 DEF Goto, Parts
    <3> QED  BY <1>4, <3>1, <3>2, WrittenIs
  <2>2. report \in Seq(Chunks)
    BY <1>2, FileTypes
  <2>3. rest => HeadIn(report, p, 0)
    BY <1>2 DEF Kept, Resumable
  <2>4. Headed(report')
    BY <1>2, <2>1, <2>2, <2>3, StillHeaded
  <2>5. /\ part = "head" => HeadIn(report', p, 0)
        /\ Completed(p, report') = Completed(p, report)
                                      \cup (IF part = "head" THEN {} ELSE {Len(report) + 1})
    BY <2>1, <2>2, StillHeaded, Completes
  <2>6. Completed(p, report) = {}
    BY <1>1, <1>2 DEF Kept, Progress
  <2>7. /\ step'[p] = IF part = "head" THEN "report_rest"
                      ELSE IF IsDemo(p) THEN "record" ELSE "print"
        /\ exit'[p] = exit[p]
    BY <1>2, <2>1 DEF TypeOK
  <2>8. Typed'
    <3> DEFINE R == [by : Procs, case : {0}, part : {"whole", "head", "tail"}]
    <3>1. report' \in Seq(R)
      <4>1. report \in Seq(R) /\ Chunk(p, 0, part) \in R
        BY <1>2 DEF TypeOK, Chunk, Parts
      <4> HIDE DEF R
      <4> QED  BY <2>1, <4>1, AppendProperties DEF Extended
    <3>2. /\ step' \in [Procs -> {"start", "cases", "report", "report_rest", "print",
                                  "record", "record_rest", "end"}]
          /\ exit' \in [Procs -> Ends \cup {"none"}]
      <4>1. /\ step \in [Procs -> {"start", "cases", "report", "report_rest", "print",
                                    "record", "record_rest", "end"}]
            /\ exit \in [Procs -> Ends \cup {"none"}]
        BY <1>2 DEF TypeOK
      <4>2. exit' = exit /\ \E s \in {"report_rest", "record", "print"} : step' = [step EXCEPT ![p] = s]
        BY <2>1
      <4> QED  BY <4>1, <4>2
    <3>3. TypeOK'
      BY <1>1, <1>2, <3>1, <3>2 DEF TypeOK, IsDemo
    <3> QED  BY <1>1, <3>3 DEF IInv, Typed
  <2>9. Kept(p)'
    <3>1. CASE part = "head"
      <4>1. Completed(p, report') = {} /\ HeadIn(report', p, 0) /\ step'[p] = "report_rest"
        BY <2>5, <2>6, <2>7, <3>1
      <4> QED  BY <1>1, <1>2, <2>7, <4>1
               DEF Kept, Progress, Told, Account, Resumable, IsDemo
    <3>2. CASE part # "head"
      <4>1. /\ Completed(p, report') = {Len(report) + 1}
            /\ step'[p] = IF IsDemo(p) THEN "record" ELSE "print"
        BY <2>5, <2>6, <2>7, <3>2
      <4>2. event[p] # NoEvent
        BY <1>1, <1>2 DEF Kept, Progress
      <4>3. Progress(p)'
        BY <1>1, <4>1, <4>2 DEF Progress, IsDemo
      <4>4. Account(p)'
        BY <1>1, <1>2, <2>7, <4>1, <4>2 DEF Kept, Account
      <4> QED  BY <1>1, <1>2, <4>1, <4>3, <4>4 DEF Kept, Told, Resumable
    <3> QED  BY <3>1, <3>2
  <2> QED  BY <1>1, <1>2, <2>4, <2>8, <2>9
<1> QED  BY <1>3, <1>4 DEF WriteReport

LEMMA RecordKeeps ==
    ASSUME IInv, NEW p \in Procs, Record(p)
    PROVE  Typed' /\ Kept(p)' /\ Headed(report)' /\ Headed(log)'
<1> DEFINE rest == step[p] = "record_rest"
           n == costs[p] + 1
<1>1. /\ step[p] \in {"record", "record_rest"} /\ exit[p] = "none"
      /\ costs[p] < Len(results[p])
      /\ UNCHANGED <<job, suite, results, event, report>>
  BY DEF Record, Alive
<1>2. TypeOK /\ Kept(p) /\ Headed(report) /\ Headed(log)
  BY DEF IInv, Typed
<1>3. CASE End(p, "non_zero") /\ UNCHANGED <<costs, log>>
  <2>1. Typed' /\ Kept(p)'
    BY <1>1, <1>3, EndKeeps DEF Ends
  <2> QED  BY <1>1, <1>2, <1>3, <2>1
<1>4. ASSUME NEW w \in Written(p, n, log, rest), log' = w.file,
             costs' = IF w.done THEN [costs EXCEPT ![p] = @ + 1] ELSE costs,
             Goto(p, IF w.done THEN "record" ELSE "record_rest")
      PROVE  Typed' /\ Kept(p)' /\ Headed(report)' /\ Headed(log)'
  <2>1. PICK part \in Parts :
            /\ log' = Extended(log, p, n, part)
            /\ \/ /\ part = "head" /\ costs' = costs
                  /\ step' = [step EXCEPT ![p] = "record_rest"]
               \/ /\ part # "head" /\ (part = "tail" => rest)
                  /\ costs' = [costs EXCEPT ![p] = @ + 1]
                  /\ step' = [step EXCEPT ![p] = "record"]
            /\ exit' = exit
    <3>1. CASE w.done = TRUE /\ w.file = Extended(log, p, n, IF rest THEN "tail" ELSE "whole")
      BY <1>4, <3>1 DEF Goto, Parts
    <3>2. CASE w.done = FALSE /\ ~rest /\ w.file = Extended(log, p, n, "head")
      BY <1>4, <3>2 DEF Goto, Parts
    <3> QED  BY <1>4, <3>1, <3>2, WrittenIs
  <2>2. log \in Seq(Chunks) /\ Chunk(p, n, part) \in Chunks /\ n \in Nat
    <3>1. costs[p] \in Nat
      BY <1>2 DEF TypeOK
    <3>2. n \in Nat
      BY <3>1
    <3> HIDE DEF n
    <3> QED  BY <1>2, <3>2, FileTypes DEF Chunk, Chunks
  <2>3. rest => HeadIn(log, p, n)
    BY <1>2 DEF Kept, Resumable
  <2> HIDE DEF n
  <2>4. Headed(log')
    BY <1>2, <2>1, <2>2, <2>3, StillHeaded
  <2>5. /\ part = "head" => HeadIn(log', p, n)
        /\ Completed(p, log') = Completed(p, log)
                                   \cup (IF part = "head" THEN {} ELSE {Len(log) + 1})
    BY <2>1, <2>2, StillHeaded, Completes
  <2>6. /\ Len(log) \in Nat /\ DOMAIN log = 1 .. Len(log) /\ DOMAIN log' = 1 .. Len(log) + 1
        /\ log'[Len(log) + 1] = Chunk(p, n, part) /\ \A i \in 1 .. Len(log) : log'[i] = log[i]
    BY <2>1, <2>2, Appended DEF Extended
  <2>7. /\ step'[p] = IF part = "head" THEN "record_rest" ELSE "record"
        /\ costs'[p] = IF part = "head" THEN costs[p] ELSE n
        /\ exit'[p] = exit[p] /\ costs' \in [Procs -> Nat]
        /\ \A q \in Procs \ {p} : costs'[q] = costs[q]
    <3>1. costs \in [Procs -> Nat] /\ costs[p] + 1 \in Nat
      BY <1>2, <2>2 DEF TypeOK, n
    <3>2. /\ step'[p] = IF part = "head" THEN "record_rest" ELSE "record"
          /\ exit'[p] = exit[p]
      BY <1>2, <2>1 DEF TypeOK
    <3>3. /\ costs'[p] = IF part = "head" THEN costs[p] ELSE n
          /\ costs' \in [Procs -> Nat] /\ \A q \in Procs \ {p} : costs'[q] = costs[q]
      BY <2>1, <3>1 DEF n
    <3> QED  BY <3>2, <3>3
  <2>8. /\ Len(results[p]) \in Nat /\ Len(suite[p]) \in Nat
        /\ Len(results[p]) <= Len(suite[p]) /\ costs[p] \in 0 .. Len(results[p])
    BY <1>2, LenProperties DEF IInv, Typed, TypeOK, Runnable
  <2>9. IsDemo(p)
    BY <1>1, <1>2 DEF Kept, Progress
  <2>10. n \in 1 .. Len(results[p]) /\ n \in 1 .. Len(suite[p])
    BY <1>1, <2>8 DEF n
  <2>11. Typed'
    <3>1. log' \in Seq([by : Procs, case : Nat, part : {"whole", "head", "tail"}])
      <4>1. log' \in Seq(Chunks)
        BY <2>1, <2>2, AppendProperties DEF Extended
      <4> QED  BY <4>1 DEF Chunks, Parts
    <3>2. /\ step' \in [Procs -> {"start", "cases", "report", "report_rest", "print",
                                  "record", "record_rest", "end"}]
          /\ exit' \in [Procs -> Ends \cup {"none"}]
      <4>1. /\ step \in [Procs -> {"start", "cases", "report", "report_rest", "print",
                                    "record", "record_rest", "end"}]
            /\ exit \in [Procs -> Ends \cup {"none"}]
        BY <1>2 DEF TypeOK
      <4>2. exit' = exit /\ \E s \in {"record_rest", "record"} : step' = [step EXCEPT ![p] = s]
        BY <2>1
      <4> QED  BY <4>1, <4>2
    <3>3. \A q \in Procs : costs'[q] \in 0 .. Len(results[q])
      <4>1. costs'[p] \in 0 .. Len(results[p])
        BY <2>7, <2>8, <2>10
      <4> QED  BY <1>2, <2>7, <4>1 DEF TypeOK
    <3>4. \A i \in DOMAIN log' : IsDemo(log'[i].by) /\ log'[i].case \in 1 .. Len(suite[log'[i].by])
      <4>1. \A i \in DOMAIN log' : i \in DOMAIN log \/ i = Len(log) + 1
        BY <2>6
      <4>2. \A i \in DOMAIN log : IsDemo(log[i].by) /\ log[i].case \in 1 .. Len(suite[log[i].by])
        BY <1>2 DEF TypeOK
      <4>3. log'[Len(log) + 1].by = p /\ log'[Len(log) + 1].case = n
        BY <2>6 DEF Chunk
      <4> QED  BY <2>6, <2>9, <2>10, <4>1, <4>2, <4>3
    <3>5. TypeOK'
      BY <1>1, <1>2, <2>7, <3>1, <3>2, <3>3, <3>4 DEF TypeOK, IsDemo
    <3> QED  BY <1>1, <3>5 DEF IInv, Typed
  <2>12. Progress(p)' /\ Resumable(p)'
    <3>1. step'[p] \in {"record", "record_rest"}
      BY <2>7
    <3>2. Completed(p, report) # {}
      BY <1>1, <1>2 DEF Kept, Progress
    <3>3. Progress(p)'
      BY <1>1, <2>9, <3>1, <3>2 DEF Progress, IsDemo
    <3>4. step'[p] = "record_rest" => HeadIn(log', p, costs'[p] + 1)
      BY <2>5, <2>7 DEF n
    <3> QED  BY <3>1, <3>3, <3>4 DEF Resumable
  <2>13. Account(p)'
    <3>1. Completed(p, report) # {} /\ Account(p) /\ exit'[p] # "zero"
      BY <1>1, <1>2, <2>7 DEF Kept, Progress
    <3>2. \A i \in Completed(p, log) : i \in 1 .. Len(log) /\ log'[i] = log[i]
      BY <2>6 DEF Completed
    <3>3. CASE part = "head"
      <4>1. Completed(p, log') = Completed(p, log) /\ costs'[p] = costs[p]
        BY <2>5, <2>7, <3>3
      <4> QED  BY <1>1, <3>1, <3>2, <4>1 DEF Account
    <3>4. CASE part # "head"
      <4>1. Completed(p, log') = Completed(p, log) \cup {Len(log) + 1} /\ costs'[p] = n
        BY <2>5, <2>7, <3>4
      <4>2. log'[Len(log) + 1].case = n
        BY <2>6 DEF Chunk
      <4>3. /\ {log[i].case : i \in Completed(p, log)} = 1 .. costs[p]
            /\ \A i, j \in Completed(p, log) : i < j => log[i].case < log[j].case
        BY <3>1 DEF Account
      <4>4. {log'[i].case : i \in Completed(p, log')} = 1 .. costs'[p]
        <5>1. {log'[i].case : i \in Completed(p, log')}
                  = {log[i].case : i \in Completed(p, log)} \cup {n}
          BY <3>2, <4>1, <4>2
        <5>2. 1 .. n = 1 .. costs[p] \cup {n}
          BY <2>8 DEF n
        <5> QED  BY <4>1, <4>3, <5>1, <5>2
      <4>5. ASSUME NEW i \in Completed(p, log'), NEW j \in Completed(p, log'), i < j
            PROVE  log'[i].case < log'[j].case
        <5>1. CASE i \in Completed(p, log) /\ j \in Completed(p, log)
          BY <3>2, <4>3, <4>5, <5>1
        <5>2. CASE i \in Completed(p, log) /\ j = Len(log) + 1
          <6>1. log[i].case \in 1 .. costs[p]
            BY <4>3, <5>2
          <6>2. log[i].case < n
            BY <2>8, <6>1 DEF n
          <6> QED  BY <3>2, <4>2, <5>2, <6>2
        <5>3. CASE i = Len(log) + 1
          <6>1. j <= Len(log) + 1
            BY <2>6, <3>2, <4>1
          <6>2. j \in Nat
            BY <2>6, <3>2, <4>1
          <6> QED  BY <2>6, <4>5, <5>3, <6>1, <6>2
        <5> QED  BY <4>1, <5>1, <5>2, <5>3
      <4> QED  BY <1>1, <3>1, <4>4, <4>5 DEF Account
    <3> QED  BY <3>3, <3>4
  <2>14. Told(p)'
    BY <1>1, <1>2 DEF Kept, Told
  <2> QED  BY <1>1, <1>2, <2>4, <2>11, <2>12, <2>13, <2>14 DEF Kept
<1> QED  BY <1>3, <1>4 DEF Record

LEMMA PrintGateKill ==
    ASSUME IInv, NEW p \in Procs, PrintResult(p) \/ Gate(p) \/ Kill(p)
    PROVE  Typed' /\ Kept(p)' /\ UNCHANGED <<report, log>>
<1>1. TypeOK /\ Kept(p)
  BY DEF IInv, Typed
<1>2. CASE PrintResult(p)
  <2>1. step[p] = "print" /\ UNCHANGED <<job, suite, results, event, costs, report, log>>
    BY <1>2 DEF PrintResult, Alive
  <2>2. Completed(p, report) # {} /\ ~IsDemo(p)
    BY <1>1, <2>1 DEF Kept, Progress
  <2>3. PICK how \in Ends : End(p, how)
    BY <1>2 DEF PrintResult, Ends
  <2> QED  BY <2>1, <2>2, <2>3, EndKeeps
<1>3. CASE Gate(p)
  <2>1. /\ step[p] = "record" /\ costs[p] = Len(results[p])
        /\ UNCHANGED <<job, suite, results, event, costs, report, log>>
    BY <1>3 DEF Gate, Alive
  <2>2. Completed(p, report) # {}
    BY <1>1, <2>1 DEF Kept, Progress
  <2>3. Len(results[p]) = Len(suite[p])
    BY <1>1, <2>2 DEF Kept, Account, Told
  <2>4. PICK how \in Ends : End(p, how)
    BY <1>3 DEF Gate, Ends
  <2> QED  BY <2>1, <2>2, <2>3, <2>4, EndKeeps
<1>4. CASE Kill(p)
  <2>1. /\ End(p, "killed")
        /\ UNCHANGED <<job, suite, results, event, costs, report, log>>
    BY <1>4 DEF Kill
  <2> QED  BY <2>1, EndKeeps DEF Ends
<1> QED  BY <1>2, <1>3, <1>4
-----------------------------------------------------------------------------
(* The invariant, and what follows from it. *)

LEMMA CommandKeeps ==
    ASSUME IInv, NEW p \in Procs, Command(p) \/ Kill(p)
    PROVE  Typed' /\ Kept(p)' /\ Headed(report)' /\ Headed(log)'
<1>1. Headed(report) /\ Headed(log)
  BY DEF IInv
<1>2. CASE Start(p)
  BY <1>1, <1>2, StartKeeps DEF Start
<1>3. CASE NextCase(p)
  BY <1>1, <1>3, NextCaseKeeps DEF NextCase
<1>4. CASE MakeEvent(p)
  BY <1>1, <1>4, MakeEventKeeps DEF MakeEvent
<1>5. CASE PrintResult(p) \/ Gate(p) \/ Kill(p)
  BY <1>1, <1>5, PrintGateKill
<1>6. CASE WriteReport(p)
  BY <1>6, WriteReportKeeps
<1>7. CASE Record(p)
  BY <1>7, RecordKeeps
<1> QED  BY <1>2, <1>3, <1>4, <1>5, <1>6, <1>7 DEF Command

LEMMA StepInv == IInv /\ [Next]_vars => IInv'
<1> SUFFICES ASSUME IInv, [Next]_vars PROVE IInv'
  OBVIOUS
<1>1. ASSUME NEW p \in Procs, Command(p) \/ Kill(p) PROVE IInv'
  <2>1. Typed' /\ Kept(p)' /\ Headed(report)' /\ Headed(log)'
    BY <1>1, CommandKeeps
  <2>2. Moves(p)
    BY <1>1, EachMoves DEF IInv, Typed
  <2>3. \A q \in Procs : q # p => Kept(q)'
    BY <2>2, OthersKept
  <2> QED  BY <2>1, <2>3 DEF IInv
<1>2. ASSUME UNCHANGED vars PROVE IInv'
  <2>1. /\ job' = job /\ step' = step /\ suite' = suite /\ results' = results /\ event' = event
        /\ costs' = costs /\ report' = report /\ log' = log /\ exit' = exit
    BY <1>2 DEF vars
  <2>2. Typed'
    BY <2>1 DEF IInv, Typed, TypeOK, IsDemo
  <2>3. Headed(report)' /\ Headed(log)'
    BY <2>1 DEF IInv
  <2>4. \A p \in Procs : Kept(p)'
    BY <2>1 DEF IInv, Kept, Progress, Told, Account, Resumable, IsDemo
  <2> QED  BY <2>2, <2>3, <2>4 DEF IInv
<1> QED  BY <1>1, <1>2 DEF Next, Ended

LEMMA CommandsInvariant == Spec => []IInv
  BY InitInv, StepInv, PTL DEF Spec

\* Type correctness: in particular a cost is recorded of a case that a demo has
\* run, and a process never has more results or costs than cases.
THEOREM CommandsTypeCorrect == Spec => []TypeOK
<1>1. IInv => TypeOK
  BY DEF IInv, Typed
<1> QED  BY <1>1, CommandsInvariant, PTL

\* Wherever a process is stopped, and whoever writes at the same time, it has
\* reported once at most, and nothing but a suite that was run to its end;
\* charged each case once, in order and only after that; and done all of it if
\* it exits zero.
THEOREM RunsAccountable == Spec => []Accountable
<1>1. IInv => Accountable
  <2> SUFFICES ASSUME IInv, NEW p \in Procs
               PROVE  LET reported == Completed(p, report)
                          logged == Completed(p, log)
                      IN  /\ \A i, j \in reported : i = j
                          /\ reported # {} =>
                                Len(results[p]) = Len(suite[p]) /\ event[p] # NoEvent
                          /\ costs[p] > 0 => reported # {}
                          /\ {log[i].case : i \in logged} = 1 .. costs[p]
                          /\ \A i, j \in logged : i < j => log[i].case < log[j].case
                          /\ exit[p] = "zero" =>
                                reported # {} /\ (IsDemo(p) => costs[p] = Len(suite[p]))
    BY DEF Accountable
  <2> QED  BY DEF IInv, Kept, Told, Account
<1> QED  BY <1>1, CommandsInvariant, PTL

\* A line is completed once: no two chunks of one process and one case do.
OneEnd(file) ==
    \A i, j \in DOMAIN file :
        ~IsHead(file[i]) /\ ~IsHead(file[j]) /\ file[i].by = file[j].by
            /\ file[i].case = file[j].case => i = j

LEMMA TwoKinds == IsFiniteSet({1, 2}) /\ Cardinality({1, 2}) = 2
<1>1. IsFiniteSet({1}) /\ Cardinality({1}) = 1
  BY FS_Singleton
<1>2. 2 \notin {1} /\ {1, 2} = {1} \cup {2}
  OBVIOUS
<1>3. IsFiniteSet({1} \cup {2}) /\ Cardinality({1} \cup {2}) = Cardinality({1}) + 1
  BY <1>1, <1>2, FS_AddElement
<1>4. Cardinality({1} \cup {2}) = 2
  BY <1>1, <1>3
<1> QED  BY <1>2, <1>3, <1>4, Zenon

\* A head costs two lines at most: that of the chunk that follows it, and the
\* one it begins.
LEMMA FileLoss ==
    ASSUME NEW file \in Seq(Chunks), Headed(file), OneEnd(file)
    PROVE  Cardinality(Lost(file)) <= 2 * Cardinality(Heads(file))
<1> DEFINE L == Lost(file)
           H == Heads(file)
           P == H \X {1, 2}
           HeadOf(i) == CHOOSE h \in DOMAIN file : file[h] = Chunk(file[i].by, file[i].case, "head")
           f == [i \in L |-> IF file[i].part = "whole" THEN <<i - 1, 1>> ELSE <<HeadOf(i), 2>>]
<1>1. /\ Len(file) \in Nat /\ DOMAIN file = 1 .. Len(file)
      /\ \A i \in DOMAIN file : file[i] \in Chunks
  BY LenProperties, ElementOfSeq
<1>2. IsFiniteSet(H) /\ Cardinality(H) \in Nat
  <2>1. H \subseteq 1 .. Len(file) /\ IsFiniteSet(1 .. Len(file))
    BY <1>1, FS_Interval DEF Heads
  <2> QED  BY <2>1, FS_Subset, FS_CardinalityType
<1>3. IsFiniteSet(P) /\ Cardinality(P) = 2 * Cardinality(H)
  <2> HIDE DEF H
  <2>1. IsFiniteSet(P) /\ Cardinality(P) = Cardinality(H) * Cardinality({1, 2})
    BY <1>2, TwoKinds, FS_Product
  <2> HIDE DEF P
  <2> QED  BY <1>2, <2>1, TwoKinds
<1>4. ASSUME NEW i \in L, file[i].part = "whole" PROVE i \in Nat /\ i - 1 \in H
  BY <1>1, <1>4 DEF Lost, ReadBack, StartsLine, Heads, IsHead
<1>5. ASSUME NEW i \in L, file[i].part # "whole"
      PROVE  /\ HeadOf(i) \in H
             /\ file[HeadOf(i)].by = file[i].by /\ file[HeadOf(i)].case = file[i].case
  <2>1. i \in DOMAIN file /\ file[i].part = "tail"
    BY <1>1, <1>5 DEF Lost, IsHead, Chunks, Parts
  <2>2. \E h \in DOMAIN file : file[h] = Chunk(file[i].by, file[i].case, "head")
    BY <2>1 DEF Headed, HeadIn
  <2>3. HeadOf(i) \in DOMAIN file /\ file[HeadOf(i)] = Chunk(file[i].by, file[i].case, "head")
    BY <2>2
  <2> HIDE DEF HeadOf
  <2> QED  BY <2>3 DEF Heads, IsHead, Chunk
<1> HIDE DEF H, HeadOf
<1>6. \A i \in L : f[i] \in P
  BY <1>4, <1>5
<1>7. ASSUME NEW i \in L, NEW j \in L, f[i] = f[j] PROVE i = j
  <2>1. i \in DOMAIN file /\ ~IsHead(file[i]) /\ j \in DOMAIN file /\ ~IsHead(file[j])
    BY DEF Lost
  <2> HIDE DEF L
  <2>2. CASE file[i].part = "whole" /\ file[j].part = "whole"
    <3>1. i - 1 = j - 1
      BY <1>7, <2>2
    <3> QED  BY <1>4, <2>2, <3>1
  <2>3. CASE file[i].part # "whole" /\ file[j].part # "whole"
    <3>1. HeadOf(i) = HeadOf(j)
      BY <1>7, <2>3
    <3>2. file[i].by = file[j].by /\ file[i].case = file[j].case
      BY <1>5, <2>3, <3>1
    <3> QED  BY <2>1, <3>2 DEF OneEnd
  <2>4. CASE (file[i].part = "whole") # (file[j].part = "whole")
    <3>1. f[i][2] # f[j][2]
      BY <2>4
    <3> QED  BY <1>7, <3>1
  <2> QED  BY <2>2, <2>3, <2>4
<1>8. f \in Injection(L, P)
  <2> HIDE DEF L, P
  <2>1. f \in [L -> P]
    BY <1>6
  <2>2. \A i, j \in L : f[i] = f[j] => i = j
    BY <1>7
  <2> HIDE DEF f
  <2> QED  BY <2>1, <2>2 DEF Injection, IsInjective
<1> HIDE DEF L, P, f
<1>9. Cardinality(L) <= Cardinality(P)
  BY <1>3, <1>8, FS_Injection
<1> QED  BY <1>3, <1>9 DEF L, H

\* A write that is cut short costs the file its own line and the next one, and
\* no other line, however the processes take turns and fail.
THEOREM LossIsBounded == Spec => []LossBounded
<1>1. ASSUME IInv PROVE LossBounded
  <2>1. report \in Seq(Chunks) /\ log \in Seq(Chunks)
    BY <1>1, FileTypes DEF IInv, Typed
  <2>2. \A p \in Procs : Account(p)
    BY <1>1 DEF IInv, Kept
  <2>3. OneEnd(report)
    <3>1. ASSUME NEW i \in DOMAIN report, NEW j \in DOMAIN report,
                 ~IsHead(report[i]), ~IsHead(report[j]), report[i].by = report[j].by
          PROVE  i = j
      <4>1. report[i].by \in Procs
        <5>1. report[i] \in Chunks
          BY <2>1, ElementOfSeq, LenProperties
        <5> QED  BY <5>1 DEF Chunks
      <4>2. i \in Completed(report[i].by, report) /\ j \in Completed(report[i].by, report)
        BY <3>1 DEF Completed
      <4> QED  BY <2>2, <4>1, <4>2 DEF Account
    <3> QED  BY <3>1 DEF OneEnd
  <2>4. OneEnd(log)
    <3>1. ASSUME NEW i \in DOMAIN log, NEW j \in DOMAIN log,
                 ~IsHead(log[i]), ~IsHead(log[j]), log[i].by = log[j].by,
                 log[i].case = log[j].case
          PROVE  i = j
      <4>1. log[i] \in Chunks /\ i \in Nat /\ j \in Nat
        BY <2>1, ElementOfSeq, LenProperties
      <4>2. log[i].by \in Procs /\ log[i].case \in Nat
        BY <4>1 DEF Chunks
      <4>3. i \in Completed(log[i].by, log) /\ j \in Completed(log[i].by, log)
        BY <3>1 DEF Completed
      <4>4. ~(i < j) /\ ~(j < i)
        <5>1. /\ i < j => log[i].case < log[j].case
              /\ j < i => log[j].case < log[i].case
          BY <2>2, <4>2, <4>3 DEF Account
        <5> QED  BY <3>1, <4>2, <5>1
      <4> QED  BY <4>1, <4>4
    <3> QED  BY <3>1 DEF OneEnd
  <2>5. Headed(report) /\ Headed(log)
    BY <1>1 DEF IInv
  <2> QED  BY <2>1, <2>3, <2>4, <2>5, FileLoss DEF LossBounded
<1> QED  BY <1>1, CommandsInvariant, PTL
-----------------------------------------------------------------------------
(* The counts of a report line. *)

LEMMA Disjoint ==
    ASSUME NEW S, IsFiniteSet(S), NEW T, IsFiniteSet(T), S \cap T = {}, NEW U, U = S \cup T
    PROVE  /\ IsFiniteSet(U) /\ Cardinality(U) \in Nat
           /\ Cardinality(U) = Cardinality(S) + Cardinality(T)
<1>1. /\ IsFiniteSet(S \cup T)
      /\ Cardinality(S \cup T) = Cardinality(S) + Cardinality(T) - Cardinality(S \cap T)
  BY FS_Union
<1>2. Cardinality(S) \in Nat /\ Cardinality(T) \in Nat /\ Cardinality(U) \in Nat
  BY <1>1, FS_CardinalityType
<1>3. Cardinality(S \cap T) = 0
  <2>1. Cardinality({}) = 0
    BY FS_EmptySet
  <2> QED  BY <2>1
<1> QED  BY <1>1, <1>2, <1>3

\* Each result has one of the four verdicts, so the counts are the parts of a
\* partition of the results.
LEMMA CountsAddUp ==
    ASSUME NEW S, NEW rs \in Seq(S), \A i \in DOMAIN rs : rs[i].verdict \in Verdicts
    PROVE  /\ Count(rs, "PASS") \in Nat /\ Count(rs, "FAIL") \in Nat
           /\ Count(rs, "WARN") \in Nat /\ Count(rs, "") \in Nat
           /\ Len(rs) = Count(rs, "PASS") + Count(rs, "FAIL") + Count(rs, "WARN")
                            + Count(rs, "")
<1> DEFINE D == 1 .. Len(rs)
           K(v) == {i \in DOMAIN rs : rs[i].verdict = v}
           FW == K("FAIL") \cup K("WARN")
           PU == K("PASS") \cup K("")
<1>1. Len(rs) \in Nat /\ DOMAIN rs = D
  BY LenProperties
<1>2. IsFiniteSet(D) /\ Cardinality(D) = Len(rs)
  <2>1. Cardinality(1 .. Len(rs)) = IF 1 > Len(rs) THEN 0 ELSE Len(rs) - 1 + 1
    BY <1>1, FS_Interval
  <2>2. IsFiniteSet(1 .. Len(rs))
    BY <1>1, FS_Interval
  <2> QED  BY <1>1, <2>1, <2>2
<1>3. ASSUME NEW v PROVE IsFiniteSet(K(v)) /\ Cardinality(K(v)) \in Nat
  <2>1. K(v) \in SUBSET D
    BY <1>1
  <2> HIDE DEF D, K
  <2> QED  BY <1>2, <2>1, FS_Subset, FS_CardinalityType
<1>4. /\ D = FW \cup PU /\ FW \cap PU = {}
      /\ K("FAIL") \cap K("WARN") = {} /\ K("PASS") \cap K("") = {}
  BY <1>1 DEF Verdicts
<1>5. \A v : Count(rs, v) = Cardinality(K(v))
  BY DEF Count
<1> HIDE DEF K
<1>6. IsFiniteSet(FW) /\ Cardinality(FW) = Cardinality(K("FAIL")) + Cardinality(K("WARN"))
  BY <1>3, <1>4, Disjoint
<1>7. IsFiniteSet(PU) /\ Cardinality(PU) = Cardinality(K("PASS")) + Cardinality(K(""))
  BY <1>3, <1>4, Disjoint
<1> HIDE DEF D, FW, PU
<1>8. Cardinality(D) = Cardinality(FW) + Cardinality(PU)
  BY <1>4, <1>6, <1>7, Disjoint
<1>9. /\ Cardinality(K("PASS")) \in Nat /\ Cardinality(K("FAIL")) \in Nat
      /\ Cardinality(K("WARN")) \in Nat /\ Cardinality(K("")) \in Nat
  BY <1>3
<1> DEFINE ps == Cardinality(K("PASS"))
           fs == Cardinality(K("FAIL"))
           ws == Cardinality(K("WARN"))
           us == Cardinality(K(""))
<1>10. Len(rs) = ps + fs + ws + us
  <2>1. ps \in Nat /\ fs \in Nat /\ ws \in Nat /\ us \in Nat
    BY <1>9
  <2>2. Len(rs) = (fs + ws) + (ps + us)
    BY <1>2, <1>6, <1>7, <1>8, Zenon
  <2> HIDE DEF ps, fs, ws, us
  <2> QED  BY <2>1, <2>2
<1>11. /\ Count(rs, "PASS") = Cardinality(K("PASS")) /\ Count(rs, "FAIL") = Cardinality(K("FAIL"))
       /\ Count(rs, "WARN") = Cardinality(K("WARN")) /\ Count(rs, "") = Cardinality(K(""))
  BY <1>5
<1> QED  BY <1>9, <1>10, <1>11

\* No case goes without a verdict, unless another one fails.
NoneForgotten(rs) == Count(rs, "") = 0 \/ Count(rs, "FAIL") # 0

\* A line is of all the cases of its suite, and passed just if they all passed.
LEMMA PassIsEarned ==
    ASSUME IInv, NEW p \in Procs, event[p] # NoEvent,
           NoneForgotten(results[p])
    PROVE  /\ event[p].total = Len(suite[p])
           /\ event[p].verdict = "PASS" <=> event[p].passed = event[p].total
<1> DEFINE rs == results[p]
           e == event[p]
<1>1. /\ rs \in Seq(ToSet(rs)) /\ \A i \in DOMAIN rs : rs[i].verdict \in Verdicts
  BY DEF IInv, Typed, TypeOK, Verdicts
<1>2. Len(rs) = Len(suite[p]) /\ e \in Events(job[p].suite, rs)
  BY DEF IInv, Kept, Told
<1>3. /\ e.total = Len(rs) /\ e.verdict = aggregateVerdict(rs)
      /\ e.passed = Count(rs, "PASS") /\ e.failed = Count(rs, "FAIL")
      /\ e.warned = Count(rs, "WARN")
  BY <1>2 DEF Events
<1>4. NoneForgotten(rs)
  OBVIOUS
<1> HIDE DEF rs, e
<1>5. /\ Count(rs, "PASS") \in Nat /\ Count(rs, "FAIL") \in Nat
      /\ Count(rs, "WARN") \in Nat /\ Count(rs, "") \in Nat
      /\ Len(rs) = Count(rs, "PASS") + Count(rs, "FAIL") + Count(rs, "WARN") + Count(rs, "")
  BY <1>1, CountsAddUp
<1> DEFINE ps == Count(rs, "PASS")
           fs == Count(rs, "FAIL")
           ws == Count(rs, "WARN")
           us == Count(rs, "")
<1>6. e.verdict = IF fs > 0 THEN "FAIL" ELSE IF ws > 0 THEN "WARN" ELSE "PASS"
  BY <1>3 DEF aggregateVerdict
<1>7. /\ ps \in Nat /\ fs \in Nat /\ ws \in Nat /\ us \in Nat
      /\ e.total = ps + fs + ws + us /\ e.passed = ps /\ (us = 0 \/ fs # 0)
  BY <1>3, <1>4, <1>5 DEF NoneForgotten
<1> HIDE DEF ps, fs, ws, us
<1>8. e.verdict = "PASS" <=> fs = 0 /\ ws = 0
  <2>1. "FAIL" # "PASS" /\ "WARN" # "PASS"
    OBVIOUS
  <2>2. (fs > 0 <=> fs # 0) /\ (ws > 0 <=> ws # 0)
    BY <1>7
  <2> QED  BY <1>6, <2>1, <2>2
<1>9. e.passed = e.total <=> fs = 0 /\ ws = 0
  BY <1>7
<1> QED  BY <1>2, <1>3, <1>8, <1>9 DEF rs, e
-----------------------------------------------------------------------------
(* Fractions. *)

Fractions == Int \X Nat

LEMMA FractionType ==
    ASSUME NEW v \in Fractions
    PROVE  v[1] \in Int /\ v[2] \in Nat /\ v = <<v[1], v[2]>>
  BY DEF Fractions

LEMMA NatProduct ==
    ASSUME NEW m \in Nat, NEW n \in Nat
    PROVE  /\ m * n \in Nat
           /\ m * n # 0 <=> m # 0 /\ n # 0
  OBVIOUS

\* What is added and divided stays a fraction, and is finite just if its parts are.
LEMMA PlusType ==
    ASSUME NEW v \in Fractions, NEW w \in Fractions
    PROVE  /\ Plus(v, w) \in Fractions
           /\ Plus(v, w)[1] = v[1] * w[2] + w[1] * v[2] /\ Plus(v, w)[2] = v[2] * w[2]
           /\ IsFinite(Plus(v, w)) <=> IsFinite(v) /\ IsFinite(w)
<1>1. v[2] * w[2] \in Nat /\ v[1] * w[2] + w[1] * v[2] \in Int
  BY FractionType, NatProduct
<1> QED  BY <1>1, FractionType, NatProduct DEF Plus, Fractions, IsFinite

LEMMA OverType ==
    ASSUME NEW v \in Fractions, NEW n \in Nat
    PROVE  /\ Over(v, n) \in Fractions
           /\ Over(v, n)[1] = v[1] /\ Over(v, n)[2] = v[2] * n
           /\ IsFinite(Over(v, n)) <=> IsFinite(v) /\ n # 0
<1>1. v[2] * n \in Nat /\ v[1] \in Int
  BY FractionType, NatProduct
<1> QED  BY <1>1, FractionType, NatProduct DEF Over, Fractions, IsFinite

-----------------------------------------------------------------------------
(* Sums of metrics. *)

\* g gives each subset of S the sum of the metric k over its results.
Adds(rs, k, S, g) ==
    g = [s \in SUBSET S |->
            IF s = {} THEN Value(0) ELSE Plus(rs[Pick(s)].metrics[k], g[s \ {Pick(s)}])]

TheAdds(rs, k, S) == CHOOSE g : Adds(rs, k, S, g)

LEMMA SumIsFold ==
    ASSUME NEW rs, NEW k, NEW S, S = Emitters(rs, k)
    PROVE  Sum(rs, k) = TheAdds(rs, k, S)[S]
  BY DEF Sum, FoldSet, MapThenFoldSet, TheAdds, Adds, Pick

LEMMA AddsExist ==
    ASSUME NEW rs, NEW k, NEW S, IsFiniteSet(S), \A i \in S : rs[i].metrics[k] \in Fractions
    PROVE  Adds(rs, k, S, TheAdds(rs, k, S))
<1> DEFINE value(i) == rs[i].metrics[k]
           plus == [iv \in S \X Fractions |-> Plus(value(iv[1]), iv[2])]
           pick == [s \in SUBSET S |-> Pick(s)]
<1>1. plus \in [S \X Fractions -> Fractions]
  <2>1. ASSUME NEW iv \in S \X Fractions PROVE Plus(value(iv[1]), iv[2]) \in Fractions
    BY PlusType
  <2> QED  BY <2>1
<1>2. \A s \in SUBSET S : s # {} => pick[s] = Pick(s) /\ pick[s] \in s
  BY DEF Pick
<1>3. Value(0) \in Fractions
  BY DEF Value, Fractions
<1>4. \A i \in S, v \in Fractions : plus[<<i, v>>] = Plus(value(i), v)
  OBVIOUS
<1> HIDE DEF plus, pick, value
<1> DEFINE g == FoldOf(S, Fractions, Value(0), plus, pick)
<1>5. g \in [SUBSET S -> Fractions] /\ Folds(S, Value(0), plus, pick, g)
  <2>1. \A s \in SUBSET S : s # {} => pick[s] \in s
    BY <1>2
  <2> QED  BY <1>1, <1>3, <2>1, FoldExists
<1> HIDE DEF g
<1>6. ASSUME NEW s \in SUBSET S
      PROVE  g[s] = IF s = {} THEN Value(0) ELSE Plus(value(Pick(s)), g[s \ {Pick(s)}])
  <2>1. CASE s = {}
    BY <1>5, <2>1 DEF Folds
  <2>2. CASE s # {}
    <3>1. pick[s] = Pick(s) /\ Pick(s) \in S /\ s \ {Pick(s)} \in SUBSET S
      BY <1>2, <2>2
    <3>2. g[s \ {Pick(s)}] \in Fractions
      BY <1>5, <3>1
    <3>3. g[s] = plus[<<Pick(s), g[s \ {Pick(s)}]>>]
      BY <1>5, <2>2, <3>1 DEF Folds
    <3> QED  BY <1>4, <2>2, <3>1, <3>2, <3>3
  <2> QED  BY <2>1, <2>2
<1>7. Adds(rs, k, S, g)
  <2>1. g = [s \in SUBSET S |-> g[s]]
    BY <1>5
  <2>2. [s \in SUBSET S |-> g[s]] =
        [s \in SUBSET S |-> IF s = {} THEN Value(0) ELSE Plus(value(Pick(s)), g[s \ {Pick(s)}])]
    BY <1>6
  <2> QED  BY <2>1, <2>2 DEF Adds, value
<1> QED  BY <1>7 DEF TheAdds

\* A sum is finite just if its summands are.
LEMMA AddsType ==
    ASSUME NEW rs, NEW k, NEW S, IsFiniteSet(S), \A i \in S : rs[i].metrics[k] \in Fractions,
           NEW g, Adds(rs, k, S, g), NEW T \in SUBSET S
    PROVE  /\ g[T] \in Fractions
           /\ IsFinite(g[T]) => \A i \in T : IsFinite(rs[i].metrics[k])
<1> DEFINE value(i) == rs[i].metrics[k]
           Good(U) == g[U] \in Fractions /\ (IsFinite(g[U]) => \A i \in U : IsFinite(value(i)))
           Bad == {U \in SUBSET S : ~Good(U)}
<1>1. SUFFICES ASSUME Bad # {} PROVE FALSE
  OBVIOUS
<1>2. PICK U \in Bad : \A V \in Bad : ~(V \subseteq U /\ V # U)
  <2>1. Bad \in SUBSET SUBSET S
    OBVIOUS
  <2> HIDE DEF Bad
  <2> QED  BY <1>1, <2>1, LeastSet
<1>3. U \in SUBSET S /\ ~Good(U)
  BY <1>2
<1>4. U # {}
  <2>1. g[{}] = Value(0)
    BY DEF Adds
  <2>2. Value(0) \in Fractions
    BY DEF Value, Fractions
  <2> QED  BY <1>3, <2>1, <2>2
<1> DEFINE x == Pick(U)
           R == U \ {x}
<1>5. x \in U /\ R \in SUBSET S /\ R # U /\ R \subseteq U
  BY <1>3, <1>4 DEF Pick
<1>6. g[U] = Plus(value(x), g[R])
  BY <1>3, <1>4 DEF Adds
<1>7. Good(R)
  <2> HIDE DEF Good, R
  <2>1. R \notin Bad
    BY <1>2, <1>5
  <2> QED  BY <1>5, <2>1 DEF Folds
<1>8. value(x) \in Fractions /\ g[R] \in Fractions
  BY <1>3, <1>5, <1>7
<1>9. /\ Plus(value(x), g[R]) \in Fractions
      /\ IsFinite(Plus(value(x), g[R])) => IsFinite(value(x)) /\ IsFinite(g[R])
  <2> HIDE DEF value, x, R
  <2> QED  BY <1>8, PlusType
<1>10. \A i \in U : i = x \/ i \in R
  OBVIOUS
<1> HIDE DEF value, x, R
<1> QED  BY <1>3, <1>6, <1>7, <1>9, <1>10
-----------------------------------------------------------------------------
(* A mean is between its extremes. *)

Beyond(up, x, y) == IF up THEN x > y ELSE x < y

\* A product of three does not depend on their order.
LEMMA Swap ==
    ASSUME NEW x \in Int, NEW y \in Int, NEW z \in Int
    PROVE  /\ x * y \in Int /\ x * y = y * x
           /\ (x * y) * z = (x * z) * y /\ (x * y) * z = x * (y * z)
  OBVIOUS

LEMMA BeyondScaled ==
    ASSUME NEW up, NEW x \in Int, NEW y \in Int, NEW m \in Nat, m # 0, Beyond(up, x, y)
    PROVE  Beyond(up, x * m, y * m)
<1>1. ASSUME NEW a \in Int, NEW b \in Int, a < b PROVE a * m < b * m
  <2>1. b - a \in Nat /\ b - a # 0
    BY <1>1
  <2>2. (b - a) * m \in Nat /\ (b - a) * m # 0
    BY <2>1, NatProduct
  <2>3. (b - a) * m = b * m - a * m
    OBVIOUS
  <2> QED  BY <2>2, <2>3, Swap
<1> QED  BY <1>1 DEF Beyond

LEMMA BeyondAdded ==
    ASSUME NEW up, NEW a \in Int, NEW b \in Int, NEW c \in Int, NEW d \in Int,
           Beyond(up, a, b), Beyond(up, c, d)
    PROVE  Beyond(up, a + c, b + d)
  BY DEF Beyond

\* If v is beyond e, and w beyond n times e, then their sum is beyond n + 1 times e.
LEMMA BeyondPlus ==
    ASSUME NEW up, NEW v \in Fractions, NEW w \in Fractions, NEW e \in Fractions, NEW n \in Nat,
           IsFinite(v), IsFinite(w),
           Beyond(up, v[1] * e[2], e[1] * v[2]), Beyond(up, w[1] * e[2], (e[1] * w[2]) * n)
    PROVE  Beyond(up, Plus(v, w)[1] * e[2], (e[1] * Plus(v, w)[2]) * (n + 1))
<1> DEFINE v1 == v[1]
           v2 == v[2]
           w1 == w[1]
           w2 == w[2]
           e1 == e[1]
           e2 == e[2]
<1>1. /\ v1 \in Int /\ v2 \in Nat /\ w1 \in Int /\ w2 \in Nat /\ e1 \in Int /\ e2 \in Nat
      /\ v2 # 0 /\ w2 # 0
  BY FractionType DEF IsFinite
<1>2. Beyond(up, v1 * e2, e1 * v2) /\ Beyond(up, w1 * e2, (e1 * w2) * n)
  OBVIOUS
<1>3. Plus(v, w)[1] = v1 * w2 + w1 * v2 /\ Plus(v, w)[2] = v2 * w2
  BY PlusType
<1> HIDE DEF v1, v2, w1, w2, e1, e2
<1>4. v1 * e2 \in Int /\ e1 * v2 \in Int /\ w1 * e2 \in Int /\ (e1 * w2) * n \in Int
  BY <1>1
<1>5. Beyond(up, (v1 * e2) * w2, (e1 * v2) * w2)
  BY <1>1, <1>2, <1>4, BeyondScaled
<1>6. Beyond(up, (w1 * e2) * v2, ((e1 * w2) * n) * v2)
  BY <1>1, <1>2, <1>4, BeyondScaled
<1>7. Beyond(up, (v1 * e2) * w2 + (w1 * e2) * v2, (e1 * v2) * w2 + ((e1 * w2) * n) * v2)
  <2>1. /\ (v1 * e2) * w2 \in Int /\ (e1 * v2) * w2 \in Int
        /\ (w1 * e2) * v2 \in Int /\ ((e1 * w2) * n) * v2 \in Int
    BY <1>1, <1>4, Swap
  <2> QED  BY <1>5, <1>6, <2>1, BeyondAdded
<1>8. (v1 * e2) * w2 + (w1 * e2) * v2 = (v1 * w2 + w1 * v2) * e2
  BY <1>1
<1>9. (e1 * v2) * w2 + ((e1 * w2) * n) * v2 = (e1 * (v2 * w2)) * (n + 1)
  <2> DEFINE z == e1 * (v2 * w2)
  <2>1. z \in Int /\ (e1 * v2) * w2 = z
    BY <1>1
  <2>2. ((e1 * w2) * n) * v2 = z * n
    BY <1>1
  <2>3. z * (n + 1) = z * n + z
    BY <2>1
  <2> HIDE DEF z
  <2>4. z * n + z = z + z * n
    BY <2>1
  <2> QED  BY <2>1, <2>2, <2>3, <2>4 DEF z
<1>10. Beyond(up, (v1 * w2 + w1 * v2) * e2, (e1 * (v2 * w2)) * (n + 1))
  BY <1>7, <1>8, <1>9
<1>11. e[1] = e1 /\ e[2] = e2
  BY DEF e1, e2
<1> QED  BY <1>3, <1>10, <1>11

\* If each of some results is beyond e, so is their mean.
LEMMA AddsBeyond ==
    ASSUME NEW rs, NEW k, NEW S, IsFiniteSet(S), NEW g, Adds(rs, k, S, g),
           NEW e \in Fractions, NEW up,
           \A i \in S : /\ rs[i].metrics[k] \in Fractions /\ IsFinite(rs[i].metrics[k])
                        /\ Beyond(up, rs[i].metrics[k][1] * e[2], e[1] * rs[i].metrics[k][2]),
           NEW T \in SUBSET S, T # {}
    PROVE  /\ IsFinite(g[T])
           /\ Beyond(up, g[T][1] * e[2], (e[1] * g[T][2]) * Cardinality(T))
<1> DEFINE value(i) == rs[i].metrics[k]
           Good(U) == /\ IsFinite(g[U])
                      /\ Beyond(up, g[U][1] * e[2], (e[1] * g[U][2]) * Cardinality(U))
           Bad == {U \in SUBSET S : U # {} /\ ~Good(U)}
<1>1. SUFFICES ASSUME Bad # {} PROVE FALSE
  OBVIOUS
<1>2. PICK U \in Bad : \A V \in Bad : ~(V \subseteq U /\ V # U)
  <2>1. Bad \in SUBSET SUBSET S
    OBVIOUS
  <2> HIDE DEF Bad
  <2> QED  BY <1>1, <2>1, LeastSet
<1>3. U \in SUBSET S /\ U # {} /\ ~Good(U)
  BY <1>2
<1> DEFINE x == Pick(U)
           R == U \ {x}
           n == Cardinality(R)
<1>4. x \in U /\ R \in SUBSET S /\ R # U /\ R \subseteq U
  BY <1>3 DEF Pick
<1>5. g[U] = Plus(value(x), g[R])
  BY <1>3 DEF Adds
<1>6. n \in Nat /\ Cardinality(U) = n + 1
  <2>1. IsFiniteSet(U) /\ IsFiniteSet(R)
    BY <1>3, FS_Subset
  <2>2. Cardinality(R) = Cardinality(U) - 1
    BY <1>4, <2>1, FS_RemoveElement
  <2> QED  BY <2>1, <2>2, FS_CardinalityType
<1>7. value(x) \in Fractions /\ IsFinite(value(x))
      /\ Beyond(up, value(x)[1] * e[2], e[1] * value(x)[2])
  BY <1>3, <1>4
<1>8. g[R] \in Fractions
  BY <1>4, AddsType
<1> HIDE DEF value, x
<1>9. CASE R = {}
  <2>1. g[R] = <<0, 1>>
    BY <1>9 DEF Adds, Value
  <2>2. value(x)[1] \in Int /\ value(x)[2] \in Nat /\ e[1] \in Int /\ e[2] \in Nat
    BY <1>7, FractionType
  <2>3. g[U][1] = value(x)[1] /\ g[U][2] = value(x)[2]
    <3>1. /\ g[U][1] = value(x)[1] * 1 + 0 * value(x)[2]
          /\ g[U][2] = value(x)[2] * 1
      BY <1>5, <2>1 DEF Plus
    <3> QED  BY <2>2, <3>1
  <2>4. Cardinality(U) = 1
    <3>1. Cardinality({}) = 0
      BY FS_EmptySet
    <3>2. n = 0
      <4> HIDE DEF R
      <4> QED  BY <1>9, <3>1
    <3> QED  BY <1>6, <3>2
  <2>5. (e[1] * g[U][2]) * 1 = e[1] * value(x)[2]
    BY <2>2, <2>3
  <2> QED  BY <1>3, <1>7, <2>3, <2>4, <2>5 DEF IsFinite
<1>10. CASE R # {}
  <2>1. Good(R)
    <3> HIDE DEF Good, R
    <3>1. R \notin Bad
      BY <1>2, <1>4
    <3> QED  BY <1>4, <1>10, <3>1
  <2> DEFINE v == value(x)
             w == g[R]
  <2>2. /\ v \in Fractions /\ w \in Fractions /\ IsFinite(v) /\ IsFinite(w)
        /\ Beyond(up, v[1] * e[2], e[1] * v[2]) /\ Beyond(up, w[1] * e[2], (e[1] * w[2]) * n)
    BY <1>7, <1>8, <2>1
  <2>3. g[U] = Plus(v, w)
    BY <1>5
  <2> HIDE DEF v, w, n, R
  <2>4. Beyond(up, Plus(v, w)[1] * e[2], (e[1] * Plus(v, w)[2]) * (n + 1))
    BY <1>6, <2>2, BeyondPlus
  <2>5. IsFinite(Plus(v, w))
    BY <2>2, PlusType
  <2> QED  BY <1>3, <1>6, <2>3, <2>4, <2>5
<1> QED  BY <1>9, <1>10

\* One of the results is no greater than their mean, and one no smaller.
LEMMA MeanBetween ==
    ASSUME NEW rs, NEW k, NEW S, S = Emitters(rs, k), IsFiniteSet(S), S # {},
           \A i \in S : rs[i].metrics[k] \in Fractions,
           NEW e, e = Over(Sum(rs, k), Cardinality(S)), IsFinite(e)
    PROVE  \E i, j \in S : Least(rs[i].metrics[k], e) /\ Least(e, rs[j].metrics[k])
<1> DEFINE g == TheAdds(rs, k, S)
           total == Sum(rs, k)
           n == Cardinality(S)
<1>1. Adds(rs, k, S, g) /\ total = g[S]
  BY AddsExist, SumIsFold
<1> HIDE DEF g
<1>2. total \in Fractions /\ (IsFinite(total) => \A i \in S : IsFinite(rs[i].metrics[k]))
  BY <1>1, AddsType
<1>3. n \in Nat
  BY FS_CardinalityType
<1> HIDE DEF total, n
<1>4. /\ e \in Fractions /\ e[1] = total[1] /\ e[2] = total[2] * n
      /\ IsFinite(total)
  BY <1>2, <1>3, OverType DEF total, n
<1>5. \A i \in S : /\ rs[i].metrics[k] \in Fractions /\ IsFinite(rs[i].metrics[k])
                   /\ rs[i].metrics[k][1] \in Int /\ rs[i].metrics[k][2] \in Nat
  BY <1>2, <1>4, FractionType
<1>6. ASSUME NEW up, \A i \in S : Beyond(up, rs[i].metrics[k][1] * e[2], e[1] * rs[i].metrics[k][2])
      PROVE  FALSE
  <2>1. Beyond(up, total[1] * e[2], (e[1] * total[2]) * n)
    BY <1>1, <1>4, <1>5, <1>6, AddsBeyond DEF n
  <2> DEFINE a == total[1]
             b == total[2]
  <2>2. a \in Int /\ b \in Nat
    BY <1>2, FractionType
  <2>3. Beyond(up, a * (b * n), (a * b) * n)
    BY <1>4, <2>1
  <2> HIDE DEF a, b
  <2>4. a * (b * n) = (a * b) * n /\ (a * b) * n \in Int
    BY <1>3, <2>2
  <2> QED  BY <2>3, <2>4 DEF Beyond
<1>7. e[1] \in Int /\ e[2] \in Nat
  BY <1>4, FractionType
<1>8. \E i \in S : Least(rs[i].metrics[k], e)
  <2>1. PICK i \in S : ~Beyond(TRUE, rs[i].metrics[k][1] * e[2], e[1] * rs[i].metrics[k][2])
    BY <1>6
  <2>2. rs[i].metrics[k][1] * e[2] \in Int /\ e[1] * rs[i].metrics[k][2] \in Int
    BY <1>5, <1>7, Swap
  <2> QED  BY <2>1, <2>2 DEF Beyond, Least
<1>9. \E i \in S : Least(e, rs[i].metrics[k])
  <2>1. PICK i \in S : ~Beyond(FALSE, rs[i].metrics[k][1] * e[2], e[1] * rs[i].metrics[k][2])
    BY <1>6
  <2>2. rs[i].metrics[k][1] * e[2] \in Int /\ e[1] * rs[i].metrics[k][2] \in Int
    BY <1>5, <1>7, Swap
  <2> QED  BY <2>1, <2>2 DEF Beyond, Least
<1> QED  BY <1>8, <1>9
-----------------------------------------------------------------------------
(* The metrics of a report line. *)

LEMMA AvgType ==
    ASSUME NEW k, IsName(k)
    PROVE  /\ IsName(Avg(k)) /\ Avg(k) # k
           /\ Stem(Avg(k)) = k
           /\ \A j : IsName(j) /\ Avg(j) = Avg(k) => j = k
<1>1. \A j : IsName(j) => j[2] \in Nat /\ j = <<j[1], j[2]>>
  BY DEF IsName
<1>2. Avg(k) = <<k[1], k[2] + 1>> /\ k[2] + 1 \in Nat
  BY <1>1 DEF Avg
<1>3. IsName(Avg(k))
  BY <1>2 DEF IsName
<1>4. Avg(k)[1] = k[1] /\ Avg(k)[2] = k[2] + 1
  BY <1>2
<1>5. Avg(k)[2] # k[2] /\ Avg(k)[2] - 1 = k[2]
  BY <1>1, <1>4
<1>6. ASSUME NEW j, IsName(j), Avg(j) = Avg(k) PROVE j = k
  <2>1. j[1] = k[1] /\ j[2] + 1 = k[2] + 1
    BY <1>6 DEF Avg
  <2>2. j[2] = k[2]
    BY <1>1, <1>6, <2>1
  <2> QED  BY <1>1, <1>6, <2>1, <2>2
<1> QED  BY <1>1, <1>3, <1>4, <1>5, <1>6 DEF Stem

\* The average of k, next to what there is.
Averaged(rs, agg, k) == With(agg, Avg(k), Over(agg[k], Cardinality(Emitters(rs, k))))

Entangled(rs) == {k \in Emitted(rs) : \E j \in Emitted(rs) : k = Avg(j) \/ j = Avg(k)}

\* What aggregateMetrics has before the averages whose order matters.
Before(rs) ==
    [k \in Emitted(rs) \cup {Avg(j) : j \in Emitted(rs) \ Entangled(rs)} |->
        IF k \in Emitted(rs) THEN Sum(rs, k)
        ELSE Over(Sum(rs, Stem(k)), Cardinality(Emitters(rs, Stem(k))))]

\* g gives each subset of the places in an order what those averages make of it.
Averages(rs, order, g) ==
    g = [s \in SUBSET DOMAIN order |->
            IF s = {} THEN Before(rs)
            ELSE Averaged(rs, g[s \ {Max(s)}], order[Max(s)])]

TheAverages(rs, order) == CHOOSE g : Averages(rs, order, g)

LEMMA AggregateIsFold ==
    ASSUME NEW rs, NEW m \in AggregateMetrics(rs)
    PROVE  \E order \in SetToSeqs(Entangled(rs)) : m = TheAverages(rs, order)[DOMAIN order]
  BY DEF AggregateMetrics, FoldLeft, MapThenFoldSet, TheAverages, Averages, Averaged, Before,
         Entangled

LEMMA GreatestNumber ==
    ASSUME NEW n \in Nat, NEW T \in SUBSET (1 .. n), T # {}
    PROVE  Max(T) \in T
<1> DEFINE Bounds == {b \in Nat : \A x \in T : x <= b}
<1>1. n \in Bounds /\ Bounds \in SUBSET Nat
  OBVIOUS
<1>2. PICK b \in Bounds : \A c \in Bounds : b <= c
  <2> HIDE DEF Bounds
  <2> QED  BY <1>1, LeastNumber
<1>3. b \in Nat /\ \A x \in T : x <= b /\ x \in Nat /\ x # 0
  BY <1>2
<1>4. b \in T
  <2> SUFFICES ASSUME b \notin T PROVE FALSE
    OBVIOUS
  <2>1. b - 1 \in Nat
    <3>1. \E x \in T : x \in Nat /\ x # 0 /\ x <= b
      BY <1>3
    <3> QED  BY <1>3, <3>1
  <2>2. \A x \in T : x <= b - 1
    BY <1>3
  <2>3. b - 1 \in Bounds /\ ~(b <= b - 1)
    BY <1>3, <2>1, <2>2
  <2> QED  BY <1>2, <2>3
<1>5. \E x \in T : \A y \in T : x >= y
  BY <1>3, <1>4
<1> QED  BY <1>5 DEF Max

\* Results as the cases return them.
Measured(rs) == \A i \in DOMAIN rs : IsMetrics(rs[i].metrics)

LEMMA EmittersType ==
    ASSUME NEW S, NEW rs \in Seq(S), Measured(rs), NEW k
    PROVE  /\ IsFiniteSet(Emitters(rs, k)) /\ Cardinality(Emitters(rs, k)) \in Nat
           /\ \A i \in Emitters(rs, k) : rs[i].metrics[k] \in Fractions
           /\ k \in Emitted(rs) => Emitters(rs, k) # {}
<1>1. IsFiniteSet(1 .. Len(rs)) /\ DOMAIN rs = 1 .. Len(rs)
  BY LenProperties, FS_Interval
<1>2. IsFiniteSet(Emitters(rs, k))
  <2>1. Emitters(rs, k) \in SUBSET (1 .. Len(rs))
    BY <1>1 DEF Emitters
  <2> QED  BY <1>1, <2>1, FS_Subset
<1>3. Cardinality(Emitters(rs, k)) \in Nat
  BY <1>2, FS_CardinalityType
<1>4. \A i \in Emitters(rs, k) : rs[i].metrics[k] \in Fractions
  BY DEF Emitters, Measured, IsMetrics, Fractions
<1>5. k \in Emitted(rs) => Emitters(rs, k) # {}
  BY DEF Emitted, Emitters
<1> QED  BY <1>2, <1>3, <1>4, <1>5

LEMMA EmittedType ==
    ASSUME NEW S, NEW rs \in Seq(S), Measured(rs)
    PROVE  IsFiniteSet(Emitted(rs)) /\ \A k \in Emitted(rs) : IsName(k)
<1> DEFINE D == DOMAIN rs
           f == [i \in D |-> DOMAIN rs[i].metrics]
           T == {f[i] : i \in D}
<1>1. IsFiniteSet(D)
  BY LenProperties, FS_Interval
<1>2. IsFiniteSet(T)
  <2>1. f \in Surjection(D, T)
    BY DEF Surjection
  <2> HIDE DEF f, T, D
  <2> QED  BY <1>1, <2>1, FS_Surjection
<1>3. \A U \in T : IsFiniteSet(U)
  BY DEF Measured, IsMetrics
<1>4. Emitted(rs) = UNION T
  BY DEF Emitted
<1>5. IsFiniteSet(UNION T)
  <2> HIDE DEF T
  <2> QED  BY <1>2, <1>3, FS_UNION
<1>6. \A k \in Emitted(rs) : IsName(k)
  BY DEF Emitted, Measured, IsMetrics
<1> QED  BY <1>4, <1>5, <1>6

LEMMA SumFraction ==
    ASSUME NEW S, NEW rs \in Seq(S), Measured(rs), NEW k
    PROVE  /\ Sum(rs, k) \in Fractions
           /\ \A v \in Fractions : Over(v, Cardinality(Emitters(rs, k))) \in Fractions
<1> DEFINE E == Emitters(rs, k)
<1>1. IsFiniteSet(E) /\ Cardinality(E) \in Nat /\ \A i \in E : rs[i].metrics[k] \in Fractions
  BY EmittersType
<1> DEFINE g == TheAdds(rs, k, E)
<1>2. Adds(rs, k, E, g) /\ Sum(rs, k) = g[E]
  BY <1>1, AddsExist, SumIsFold
<1> HIDE DEF E, g
<1>3. Sum(rs, k) \in Fractions
  <2>1. E \in SUBSET E
    OBVIOUS
  <2>2. g[E] \in Fractions
    BY <1>1, <1>2, <2>1, AddsType
  <2> QED  BY <1>2, <2>2
<1> QED  BY <1>1, <1>3, OverType DEF E

\* What aggregateMetrics may have on its way.
Names(rs) == Emitted(rs) \cup {Avg(j) : j \in Emitted(rs)}
Aggregates(rs) ==
    {a \in UNION {[D -> Fractions] : D \in SUBSET Names(rs)} : Emitted(rs) \subseteq DOMAIN a}

LEMMA AggregatesIs ==
    ASSUME NEW rs, NEW a
    PROVE  a \in Aggregates(rs) <=>
             /\ a = [k \in DOMAIN a |-> a[k]]
             /\ Emitted(rs) \subseteq DOMAIN a /\ DOMAIN a \subseteq Names(rs)
             /\ \A k \in DOMAIN a : a[k] \in Fractions
<1>1. ASSUME a \in Aggregates(rs)
      PROVE  /\ a = [k \in DOMAIN a |-> a[k]]
             /\ Emitted(rs) \subseteq DOMAIN a /\ DOMAIN a \subseteq Names(rs)
             /\ \A k \in DOMAIN a : a[k] \in Fractions
  BY <1>1 DEF Aggregates
<1>2. ASSUME a = [k \in DOMAIN a |-> a[k]],
             Emitted(rs) \subseteq DOMAIN a, DOMAIN a \subseteq Names(rs),
             \A k \in DOMAIN a : a[k] \in Fractions
      PROVE  a \in Aggregates(rs)
  <2>1. a \in [DOMAIN a -> Fractions]
    BY <1>2
  <2> QED  BY <1>2, <2>1 DEF Aggregates
<1> QED  BY <1>1, <1>2

LEMMA BeforeType ==
    ASSUME NEW S, NEW rs \in Seq(S), Measured(rs)
    PROVE  Before(rs) \in Aggregates(rs)
<1>3. /\ DOMAIN Before(rs) \subseteq Names(rs) /\ Emitted(rs) \subseteq DOMAIN Before(rs)
      /\ Before(rs) = [k \in DOMAIN Before(rs) |-> Before(rs)[k]]
  BY DEF Before, Names
<1>4. ASSUME NEW k \in DOMAIN Before(rs) PROVE Before(rs)[k] \in Fractions
  <2>1. \/ Before(rs)[k] = Sum(rs, k)
        \/ Before(rs)[k] = Over(Sum(rs, Stem(k)), Cardinality(Emitters(rs, Stem(k))))
    BY DEF Before
  <2> QED  BY <2>1, SumFraction
<1> QED  BY <1>3, <1>4, AggregatesIs

LEMMA AveragedType ==
    ASSUME NEW S, NEW rs \in Seq(S), Measured(rs), NEW a \in Aggregates(rs),
           NEW k \in Emitted(rs)
    PROVE  Averaged(rs, a, k) \in Aggregates(rs)
<1>1. k \in DOMAIN a /\ Avg(k) \in Names(rs)
  BY AggregatesIs DEF Names
<1>2. Over(a[k], Cardinality(Emitters(rs, k))) \in Fractions
  BY <1>1, AggregatesIs, SumFraction
<1> DEFINE v == Over(a[k], Cardinality(Emitters(rs, k)))
           b == Averaged(rs, a, k)
<1>3. b = [j \in DOMAIN a \cup {Avg(k)} |-> IF j = Avg(k) THEN v ELSE a[j]]
  BY DEF Averaged, With
<1> HIDE DEF v
<1>4. v \in Fractions
  BY <1>2 DEF v
<1>5. /\ b = [j \in DOMAIN b |-> b[j]]
      /\ Emitted(rs) \subseteq DOMAIN b /\ DOMAIN b \subseteq Names(rs)
      /\ \A j \in DOMAIN b : b[j] \in Fractions
  <2>1. /\ Emitted(rs) \subseteq DOMAIN a /\ DOMAIN a \subseteq Names(rs)
        /\ \A j \in DOMAIN a : a[j] \in Fractions
    BY AggregatesIs
  <2> HIDE DEF b
  <2> QED  BY <1>1, <1>3, <1>4, <2>1
<1> HIDE DEF b
<1>6. b \in Aggregates(rs)
  BY <1>5, AggregatesIs
<1> QED  BY <1>6 DEF b

LEMMA AveragesExist ==
    ASSUME NEW S, NEW rs \in Seq(S), Measured(rs),
           NEW n \in Nat, NEW order \in [1 .. n -> Emitted(rs)]
    PROVE  Averages(rs, order, TheAverages(rs, order))
<1> DEFINE D == 1 .. n
           V == Aggregates(rs)
           add == [ia \in D \X V |-> Averaged(rs, ia[2], order[ia[1]])]
           last == [s \in SUBSET D |-> Max(s)]
           g == FoldOf(D, V, Before(rs), add, last)
<1>1. add \in [D \X V -> V]
  <2>1. ASSUME NEW ia \in D \X V PROVE Averaged(rs, ia[2], order[ia[1]]) \in V
    BY AveragedType
  <2> QED  BY <2>1
<1>2. \A s \in SUBSET D : s # {} => last[s] = Max(s) /\ last[s] \in s
  BY GreatestNumber
<1>3. Before(rs) \in V
  BY BeforeType
<1>4. \A i \in D, a \in V : add[<<i, a>>] = Averaged(rs, a, order[i])
  OBVIOUS
<1>5. IsFiniteSet(D)
  BY FS_Interval
<1> HIDE DEF V, add, last, D
<1>6. g \in [SUBSET D -> V] /\ Folds(D, Before(rs), add, last, g)
  <2>1. \A s \in SUBSET D : s # {} => last[s] \in s
    BY <1>2
  <2> QED  BY <1>1, <1>3, <1>5, <2>1, FoldExists
<1> HIDE DEF g
<1>7. ASSUME NEW s \in SUBSET D
      PROVE  g[s] = IF s = {} THEN Before(rs) ELSE Averaged(rs, g[s \ {Max(s)}], order[Max(s)])
  <2>1. CASE s = {}
    BY <1>6, <2>1 DEF Folds
  <2>2. CASE s # {}
    <3>1. last[s] = Max(s) /\ Max(s) \in D /\ s \ {Max(s)} \in SUBSET D
      BY <1>2, <2>2
    <3>2. g[s \ {Max(s)}] \in V
      BY <1>6, <3>1
    <3>3. g[s] = add[<<Max(s), g[s \ {Max(s)}]>>]
      BY <1>6, <2>2, <3>1 DEF Folds
    <3> QED  BY <1>4, <2>2, <3>1, <3>2, <3>3
  <2> QED  BY <2>1, <2>2
<1>8. Averages(rs, order, g)
  <2>1. g = [s \in SUBSET D |-> g[s]]
    BY <1>6
  <2>2. [s \in SUBSET D |-> g[s]] =
        [s \in SUBSET D |-> IF s = {} THEN Before(rs)
                            ELSE Averaged(rs, g[s \ {Max(s)}], order[Max(s)])]
    BY <1>7
  <2>3. DOMAIN order = D
    BY DEF D
  <2> QED  BY <2>1, <2>2, <2>3 DEF Averages
<1> QED  BY <1>8 DEF TheAverages

\* A metric's average is in the line: that of its sum or, once another's average
\* has taken the place of the sum, of what is there then.  Where no other average
\* has its name, the sum is in the line as well.
LEMMA AggregateTells ==
    ASSUME NEW S, NEW rs \in Seq(S), Measured(rs), NEW m \in AggregateMetrics(rs),
           NEW k \in Emitted(rs)
    PROVE  /\ Avg(k) \in DOMAIN m
           /\ m[Avg(k)] \in {Over(v, Cardinality(Emitters(rs, k))) : v \in {Sum(rs, k), m[k]}}
           /\ (\A j \in Emitted(rs) : k # Avg(j)) => k \in DOMAIN m /\ m[k] = Sum(rs, k)
<1> DEFINE mean(v) == Over(v, Cardinality(Emitters(rs, k)))
<1>1. PICK order \in SetToSeqs(Entangled(rs)) : m = TheAverages(rs, order)[DOMAIN order]
  BY AggregateIsFold
<1> DEFINE n == Cardinality(Entangled(rs))
<1>2. /\ n \in Nat /\ order \in [1 .. n -> Emitted(rs)]
      /\ \A x \in Entangled(rs) : \E i \in 1 .. n : order[i] = x
      /\ \A i \in 1 .. n : order[i] \in Entangled(rs)
      /\ \A i, j \in 1 .. n : order[i] = order[j] => i = j
  <2>1. IsFiniteSet(Entangled(rs)) /\ Entangled(rs) \subseteq Emitted(rs)
    BY EmittedType, FS_Subset DEF Entangled
  <2>2. n \in Nat
    BY <2>1, FS_CardinalityType
  <2>3. order \in Injection(1 .. n, Entangled(rs))
    BY <1>1 DEF SetToSeqs, Injection, IsInjective
  <2>4. order \in Surjection(1 .. n, Entangled(rs))
    <3> DEFINE D == 1 .. n
    <3>1. IsFiniteSet(D) /\ Cardinality(D) = n
      <4> HIDE DEF n
      <4>1. Cardinality(1 .. n) = IF 1 > n THEN 0 ELSE n - 1 + 1
        BY <2>2, FS_Interval
      <4>2. IsFiniteSet(1 .. n)
        BY <2>2, FS_Interval
      <4> QED  BY <2>2, <4>1, <4>2
    <3> HIDE DEF D
    <3>2. order \in Injection(D, Entangled(rs)) /\ Cardinality(D) = Cardinality(Entangled(rs))
      BY <2>3, <3>1 DEF D
    <3>3. order \in Surjection(D, Entangled(rs))
      <4> DEFINE T == Entangled(rs)
      <4>1. IsFiniteSet(T)
        BY <2>1
      <4> HIDE DEF T
      <4>2. order \in Injection(D, T) /\ Cardinality(D) = Cardinality(T)
        BY <3>2 DEF T
      <4>3. Cardinality(D) = Cardinality(T) <=> order \in Surjection(D, T)
        BY <4>1, <4>2, FS_Injection
      <4> QED  BY <4>2, <4>3 DEF T
    <3> QED  BY <3>3 DEF D
  <2>5. \A i, j \in 1 .. n : order[i] = order[j] => i = j
    <3> HIDE DEF n
    <3> QED  BY <2>3 DEF Injection, IsInjective
  <2> QED  BY <2>1, <2>2, <2>4, <2>5 DEF Surjection
<1> DEFINE D == 1 .. n
           g == TheAverages(rs, order)
<1>3. Averages(rs, order, g) /\ DOMAIN order = D
  BY <1>2, AveragesExist
<1> HIDE DEF g, n
<1>4. /\ IsName(k) /\ Avg(k) # k
      /\ \A j \in Emitted(rs) : /\ IsName(j) /\ Avg(j) = Avg(k) => j = k
                                /\ \A i \in Emitted(rs) : Avg(i) = Avg(j) => i = j
  BY EmittedType, AvgType
<1> DEFINE Done(j, s) == j \notin Entangled(rs) \/ \E i \in s : order[i] = j
           Spared(s) == \A j \in Emitted(rs) : Avg(j) = k => ~Done(j, s)
           Good(s) == /\ g[s] \in Aggregates(rs)
                      /\ Spared(s) => g[s][k] = Sum(rs, k)
                      /\ Done(k, s) =>
                            /\ Avg(k) \in DOMAIN g[s]
                            /\ g[s][Avg(k)] \in {mean(Sum(rs, k)), mean(g[s][k])}
           Bad == {s \in SUBSET D : ~Good(s)}
<1>5. Bad = {}
  <2> SUFFICES ASSUME Bad # {} PROVE FALSE
    OBVIOUS
  <2>1. PICK s \in Bad : \A r \in Bad : ~(r \subseteq s /\ r # s)
    <3>1. Bad \in SUBSET SUBSET D
      OBVIOUS
    <3>2. IsFiniteSet(D)
      BY <1>2, FS_Interval
    <3> HIDE DEF Bad, D
    <3> QED  BY <3>1, <3>2, LeastSet
  <2>2. s \in SUBSET D /\ ~Good(s)
    BY <2>1
  <2>3. ASSUME s = {} PROVE Good(s)
    <3>1. g[s] = Before(rs)
      BY <1>3, <2>3 DEF Averages
    <3>2. Before(rs) \in Aggregates(rs)
      BY BeforeType
    <3>3. Before(rs)[k] = Sum(rs, k)
      BY DEF Before
    <3>4. ASSUME k \notin Entangled(rs)
          PROVE  Avg(k) \in DOMAIN Before(rs) /\ Before(rs)[Avg(k)] = mean(Sum(rs, k))
      <4>1. Avg(k) \notin Emitted(rs) /\ Stem(Avg(k)) = k
        BY <1>4, <3>4, AvgType DEF Entangled
      <4>2. Avg(k) \in {Avg(j) : j \in Emitted(rs) \ Entangled(rs)}
        BY <3>4
      <4> QED  BY <4>1, <4>2 DEF Before
    <3> HIDE DEF mean
    <3> QED  BY <2>3, <3>1, <3>2, <3>3, <3>4
  <2>4. ASSUME s # {} PROVE Good(s)
    <3> DEFINE i == Max(s)
               r == s \ {i}
               j == order[i]
    <3>1. i \in s /\ i \in D /\ r \in SUBSET D /\ r # s /\ r \subseteq s
      <4>1. i \in s
        BY <1>2, <2>2, <2>4, GreatestNumber
      <4> QED  BY <2>2, <4>1
    <3>2. g[s] = Averaged(rs, g[r], j)
      BY <1>3, <2>2, <2>4 DEF Averages
    <3>3. Good(r)
      <4> HIDE DEF Good, r
      <4>1. r \notin Bad
        BY <2>1, <3>1
      <4> QED  BY <3>1, <4>1
    <3>4. j \in Emitted(rs) /\ j \in Entangled(rs)
      BY <1>2, <3>1
    <3>5. \A x \in s : x = i \/ x \in r
      OBVIOUS
    <3>6. \A x \in r : order[x] # j
      BY <1>2, <2>2, <3>1
    <3> DEFINE a == g[r]
    <3> HIDE DEF i, r, j
    <3>7. \A x : (Done(x, r) => Done(x, s)) /\ (Done(x, s) /\ x # j => Done(x, r))
      BY <3>1, <3>5 DEF j
    <3>8. ~Done(j, r) /\ Done(j, s)
      BY <3>1, <3>4, <3>6 DEF j
    <3> HIDE DEF Done
    <3>9. a \in Aggregates(rs) /\ k \in DOMAIN a
      BY <3>3, AggregatesIs
    <3>10. Spared(s) => Spared(r) /\ k # Avg(j)
      BY <3>4, <3>7, <3>8
    <3>11. k = Avg(j) => Spared(r)
      BY <1>4, <3>4, <3>8
    <3>12. /\ Spared(r) => a[k] = Sum(rs, k)
           /\ Done(k, r) => Avg(k) \in DOMAIN a /\ a[Avg(k)] \in {mean(Sum(rs, k)), mean(a[k])}
      BY <3>3
    <3> HIDE DEF a, D, Spared
    <3>13. g[s] \in Aggregates(rs)
      BY <3>2, <3>4, <3>9, AveragedType DEF a
    <3>14. g[s] = With(a, Avg(j), Over(a[j], Cardinality(Emitters(rs, j))))
      BY <3>2 DEF Averaged, a
    <3>15. k # Avg(j) => g[s][k] = a[k]
      BY <3>9, <3>14 DEF With
    <3>16. Spared(s) => g[s][k] = Sum(rs, k)
      BY <3>10, <3>12, <3>15
    <3>17. CASE j = k
      <4>1. Avg(k) \in DOMAIN g[s] /\ g[s][Avg(k)] = mean(a[k])
        BY <3>14, <3>17 DEF With
      <4>2. g[s][k] = a[k]
        BY <1>4, <3>15, <3>17
      <4> HIDE DEF mean
      <4> QED  BY <3>13, <3>16, <4>1, <4>2
    <3>18. CASE j # k
      <4>1. Avg(j) # Avg(k)
        BY <1>4, <3>4, <3>18
      <4>2. Done(k, s) => Avg(k) \in DOMAIN g[s] /\ Avg(k) \in DOMAIN a /\ g[s][Avg(k)] = a[Avg(k)]
        BY <3>7, <3>12, <3>14, <3>18, <4>1 DEF With
      <4> HIDE DEF mean
      <4>3. Done(k, s) => g[s][Avg(k)] \in {mean(Sum(rs, k)), mean(g[s][k])}
        <5>1. CASE k = Avg(j)
          BY <3>7, <3>11, <3>12, <3>18, <4>2, <5>1
        <5>2. CASE k # Avg(j)
          BY <3>7, <3>12, <3>15, <3>18, <4>2, <5>2
        <5> QED  BY <5>1, <5>2
      <4> QED  BY <3>13, <3>16, <4>2, <4>3
    <3> QED  BY <3>17, <3>18
  <2> QED  BY <2>2, <2>3, <2>4
<1>6. Good(D) /\ Done(k, D)
  <2>1. D \in SUBSET D /\ D \notin Bad
    BY <1>5
  <2> QED  BY <1>2, <2>1
<1>7. k \in DOMAIN g[D]
  BY <1>6, AggregatesIs
<1>8. m = g[D]
  BY <1>1, <1>3 DEF g
<1>9. (\A j \in Emitted(rs) : k # Avg(j)) => Spared(D)
  OBVIOUS
<1> HIDE DEF Spared, Done
<1> QED  BY <1>6, <1>7, <1>8, <1>9
-----------------------------------------------------------------------------
(* What the cases of the suites measure. *)

\* Every result of a case has metrics that are numbers under names.
Measures(case) == \A r \in case : IsMetrics(r.metrics)

AllMeasure(cases) == \A i \in 1 .. Len(cases) : Measures(cases[i])

LEMMA WithType ==
    ASSUME NEW m, IsMetrics(m), NEW k, IsName(k), NEW v \in Fractions
    PROVE  IsMetrics(With(m, k, v))
<1> DEFINE w == With(m, k, v)
<1>1. DOMAIN w = DOMAIN m \cup {k} /\ \A j \in DOMAIN w : w[j] = IF j = k THEN v ELSE m[j]
  BY DEF With
<1> HIDE DEF w
<1>2. IsFiniteSet(DOMAIN w)
  BY <1>1, FS_AddElement DEF IsMetrics
<1>3. IsMetrics(w)
  BY <1>1, <1>2 DEF IsMetrics, Fractions
<1> QED  BY <1>3 DEF w

LEMMA NoMetricsType == IsMetrics(NoMetrics)
  BY FS_EmptySet DEF IsMetrics, NoMetrics

LEMMA NameType ==
    ASSUME NEW word
    PROVE  IsName(Name(word))
  BY DEF Name, IsName

LEMMA ValueType ==
    ASSUME NEW n \in Int
    PROVE  Value(n) \in Fractions
  BY DEF Value, Fractions

LEMMA MetricType ==
    ASSUME NEW word, NEW v \in Fractions
    PROVE  IsMetrics(Metric(word, v))
  BY NoMetricsType, NameType, WithType DEF Metric

LEMMA ResultMetrics ==
    /\ \A m : Pass(m).metrics = m
    /\ \A e : Fail(e).metrics = NoMetrics
    /\ \A v, e, m : CaseResult(v, e, m).metrics = m
    /\ Panic.metrics = NoMetrics
  BY DEF Pass, Fail, CaseResult, Panic

LEMMA PassMeasures ==
    ASSUME NEW m, IsMetrics(m)
    PROVE  Measures({Pass(m)})
  BY ResultMetrics DEF Measures

LEMMA TimedMeasures ==
    ASSUME NEW m, IsMetrics(m)
    PROVE  Measures(Timed(m))
  BY NoMetricsType, ResultMetrics DEF Measures, Timed

LEMMA FailMeasures ==
    ASSUME NEW e
    PROVE  Measures({Fail(e)}) /\ \A bad : Measures(Unless(bad, e))
  BY NoMetricsType, ResultMetrics DEF Measures, Unless

LEMMA CaseMeasures ==
    ASSUME NEW v, NEW e, NEW m, IsMetrics(m)
    PROVE  Measures({CaseResult(v, e, m)})
  BY ResultMetrics DEF Measures

LEMMA PlainMeasures == Measures({Pass(NoMetrics)}) /\ Measures({Panic})
  BY NoMetricsType, ResultMetrics DEF Measures

LEMMA SixMeasure ==
    ASSUME NEW a, NEW b, NEW c, NEW d, NEW e, NEW f,
           Measures(a), Measures(b), Measures(c), Measures(d), Measures(e), Measures(f)
    PROVE  AllMeasure(<<a, b, c, d, e, f>>)
  BY DEF AllMeasure

LEMMA Quotient ==
    ASSUME NEW n \in Nat, NEW m \in Nat, NEW i \in 1 .. m * n
    PROVE  ((i - 1) \div n) + 1 \in 1 .. m /\ ((i - 1) % n) + 1 \in 1 .. n
<1>1. n # 0
  <2>1. m * 0 = 0
    OBVIOUS
  <2>2. m * n # 0
    <3> DEFINE k == m * n
    <3>1. k \in Nat
      BY NatProduct
    <3> HIDE DEF k
    <3> QED  BY <3>1 DEF k
  <2> QED  BY <2>1, <2>2
<1> DEFINE q == (i - 1) \div n
           r == (i - 1) % n
<1>2. q \in Nat /\ r \in 0 .. n - 1 /\ i - 1 = n * q + r
  BY <1>1
<1> HIDE DEF q, r
<1>3. q < m
  <2> SUFFICES ASSUME m <= q PROVE FALSE
    BY <1>2
  <2>1. q - m \in Nat
    BY <1>2
  <2>2. n * (q - m) \in Nat
    BY <2>1, NatProduct
  <2>3. n * (q - m) = n * q - m * n
    BY <1>2
  <2> DEFINE x == n * q
             y == m * n
             z == n * (q - m)
  <2>4. x \in Nat /\ y \in Nat /\ z \in Nat /\ z = x - y /\ i \in 1 .. y /\ i - 1 = x + r
    BY <1>2, <2>2, <2>3, NatProduct
  <2> HIDE DEF x, y, z
  <2> QED  BY <1>2, <2>4
<1> QED  BY <1>2, <1>3 DEF q, r

LEMMA CaseHash ==
    ASSUME NEW c \in CaseSet
    PROVE  Hash[c.task] \in Nat /\ Hash[c.model] \in Nat
<1> DEFINE n == Len(ProductionModels)
           m == Len(CanonicalTasks)
<1>1. PICK i \in DOMAIN SuiteForRun : c = SuiteForRun[i]
  BY DEF CaseSet
<1>2. /\ n \in Nat /\ m \in Nat
      /\ DOMAIN CanonicalTasks = 1 .. m /\ DOMAIN ProductionModels = 1 .. n
  BY AgentCasesAssumption, LenProperties
<1>3. /\ i \in 1 .. m * n
      /\ c = [task |-> CanonicalTasks[(i - 1) \div n + 1],
              model |-> ProductionModels[((i - 1) % n) + 1]]
  BY <1>1 DEF SuiteForRun
<1>4. ((i - 1) \div n) + 1 \in 1 .. m /\ ((i - 1) % n) + 1 \in 1 .. n
  BY <1>2, <1>3, Quotient
<1>5. c.task \in ToSet(CanonicalTasks) /\ c.model \in ToSet(ProductionModels)
  BY <1>2, <1>3, <1>4 DEF ToSet
<1> QED  BY <1>5, AgentCasesAssumption

\* What an agent returns, and what its case makes of it.
LEMMA OutcomeMeasures ==
    ASSUME NEW c \in CaseSet
    PROVE  /\ IsMetrics(LoopguardTripped.metrics) /\ IsMetrics(DefaultOutcome(c).metrics)
           /\ \A o : IsMetrics(o.metrics) => IsMetrics(ResultOf(c, o).metrics)
<1>1. Value(Hash[c.task]) \in Fractions /\ Value(Hash[c.model]) \in Fractions
  <2>1. Hash[c.task] \in Int /\ Hash[c.model] \in Int
    BY CaseHash
  <2> QED  BY <2>1, ValueType
<1>2. /\ IsName(Name("model")) /\ IsName(Name("task")) /\ IsName(Name("model_hash"))
      /\ IsMetrics(Metric("task", Value(Hash[c.task])))
  BY <1>1, NameType, MetricType
<1>3. IsMetrics(LoopguardTripped.metrics)
  <2>1. Value(1) \in Fractions
    BY ValueType
  <2>2. IsMetrics(Metric("loopguard_tripped", Value(1)))
    BY <2>1, MetricType
  <2> QED  BY <2>2 DEF LoopguardTripped, CaseResult
<1>4. IsMetrics(DefaultOutcome(c).metrics)
  <2> DEFINE m == Metric("task", Value(Hash[c.task]))
  <2>1. IsMetrics(m)
    BY <1>2
  <2> HIDE DEF m
  <2>2. IsMetrics(With(m, Name("model_hash"), Value(Hash[c.model])))
    BY <1>1, <1>2, <2>1, WithType
  <2> QED  BY <2>2 DEF DefaultOutcome, m
<1>5. ASSUME NEW o, IsMetrics(o.metrics) PROVE IsMetrics(ResultOf(c, o).metrics)
  <2>1. CASE o.kind = "ok"
    <3> DEFINE m == With(o.metrics, Name("model"), Value(Hash[c.model]))
               w == With(m, Name("task"), Value(Hash[c.task]))
    <3>1. IsMetrics(m)
      BY <1>1, <1>2, <1>5, WithType
    <3> HIDE DEF m
    <3>2. IsMetrics(w)
      BY <1>1, <1>2, <3>1, WithType
    <3>3. ResultOf(c, o).metrics = w
      BY <2>1, ResultMetrics DEF ResultOf, m
    <3> QED  BY <3>2, <3>3
  <2>2. CASE o.kind # "ok"
    BY <1>5, <2>2, ResultMetrics DEF ResultOf
  <2> QED  BY <2>1, <2>2
<1> QED  BY <1>3, <1>4, <1>5

LEMMA DemoMeasures ==
    ASSUME NEW live
    PROVE  AllMeasure(DemoCases(live))
<1> DEFINE cases == DemoCases(live)
<1>1. /\ DOMAIN buildDemoSuite = 1 .. Len(buildDemoSuite)
      /\ \A i \in DOMAIN buildDemoSuite : buildDemoSuite[i] \in CaseSet
  BY DemoSuiteType, LenProperties, ElementOfSeq
<1>2. DOMAIN cases = DOMAIN buildDemoSuite
  BY DEF DemoCases
<1>3. Len(cases) = Len(buildDemoSuite)
  BY <1>1, <1>2, DemoSuiteType, LenProperties
<1>4. ASSUME NEW c \in CaseSet PROVE Measures(AgentCase(c))
  <2>1. \A o \in Outcomes : IsMetrics(o.metrics)
    BY AgentCasesAssumption DEF Outcomes
  <2> QED  BY <2>1, OutcomeMeasures DEF AgentCase, Measures
<1>5. ASSUME NEW c \in CaseSet
      PROVE  Measures({LoopguardTripped, ResultOf(c, DefaultOutcome(c))})
  BY OutcomeMeasures DEF Measures
<1>6. ASSUME NEW i \in DOMAIN buildDemoSuite PROVE Measures(cases[i])
  <2>1. cases[i] = IF live THEN AgentCase(buildDemoSuite[i])
                   ELSE {LoopguardTripped,
                         ResultOf(buildDemoSuite[i], DefaultOutcome(buildDemoSuite[i]))}
    BY DEF DemoCases
  <2> HIDE DEF cases
  <2> QED  BY <1>1, <1>4, <1>5, <2>1
<1> QED  BY <1>1, <1>3, <1>6 DEF AllMeasure

\* Every suite that can be found has cases with such metrics.
LEMMA SuiteMeasures ==
    ASSUME NEW j \in Job
    PROVE  AllMeasure(SuiteOf(j))
<1>0. /\ \A word : \A n \in Int : IsMetrics(Metric(word, Value(n)))
      /\ IsMetrics(NoMetrics)
  BY ValueType, MetricType, NoMetricsType
<1>1. AllMeasure(<<>>)
  BY DEF AllMeasure
<1>2. AllMeasure(ReliabilitySuite)
  <2> DEFINE late == CaseResult("FAIL", "timeout as expected", Metric("timed_out", Value(1)))
             either == {Pass(NoMetrics), late}
  <2> DEFINE first == Timed(Metric("latency_ms", Value(1)))
             second == Timed(Metric("attempts", Value(1)))
             fourth == {Fail("synthetic panic recovered")}
             fifth == {Pass(Metric("cases", Value(0)))}
             sixth == Timed(Metric("duration_ms", Value(50)))
  <2>1. ReliabilitySuite = <<first, second, either, fourth, fifth, sixth>>
    BY DEF ReliabilitySuite
  <2>2. Measures(either)
    <3>1. IsMetrics(Metric("timed_out", Value(1)))
      BY <1>0
    <3>2. IsMetrics(late.metrics)
      BY <3>1 DEF CaseResult
    <3>3. IsMetrics(Pass(NoMetrics).metrics)
      BY <1>0 DEF CaseResult, Pass
    <3> HIDE DEF late
    <3> QED  BY <3>2, <3>3 DEF Measures
  <2>3. Measures(first)
    BY <1>0, TimedMeasures
  <2>4. Measures(second)
    BY <1>0, TimedMeasures
  <2>5. Measures(fourth)
    BY FailMeasures
  <2>6. Measures(fifth)
    BY <1>0, PassMeasures
  <2>7. Measures(sixth)
    BY <1>0, TimedMeasures
  <2> HIDE DEF first, second, either, fourth, fifth, sixth
  <2> QED  BY <2>1, <2>2, <2>3, <2>4, <2>5, <2>6, <2>7, SixMeasure
<1>3. AllMeasure(ObservabilitySuite)
  <2>1. Measures({Pass(Metric("latency_ms", Value(ms))) : ms \in {0, 1}})
    BY <1>0, ResultMetrics DEF Measures
  <2>2. IsMetrics(Metric("cost_usd", Over(Value(14), 10000)))
    <3>1. Over(Value(14), 10000) \in Fractions
      BY ValueType, OverType
    <3> QED  BY <3>1, MetricType
  <2> QED  BY <1>0, <2>1, <2>2, PassMeasures, PlainMeasures, SixMeasure DEF ObservabilitySuite
<1>4. AllMeasure(SecuritySuite(j.env))
  <2> DEFINE leaked == \E a \in j.env.args : looksLikeSecret(a)
             named == \E k \in j.env.keys : ~isAllowedEnvKey(k) /\ isSecretEnvKey(k)
             smtp == \E a \in j.env.args : IsSmtp(a)
             c1 == Unless(leaked, "argv contains secret-like token")
             c2 == Unless(named, "env contains secret-named key")
             c3 == {Pass(Metric("fixtures", Value(1)))}
             c4 == Unless(smtp, "SMTP endpoint forbidden")
             c5 == {Pass(Metric("writes", Value(0)))}
             c6 == {Pass(Metric("static_keys", Value(0)))}
  <2>1. SecuritySuite(j.env) = <<c1, c2, c3, c4, c5, c6>>
    BY DEF SecuritySuite
  <2>2. Measures(c3) /\ Measures(c5) /\ Measures(c6)
    BY <1>0, PassMeasures
  <2> HIDE DEF leaked, named, smtp
  <2>3. Measures(c1) /\ Measures(c2) /\ Measures(c4)
    BY FailMeasures
  <2> HIDE DEF c1, c2, c3, c4, c5, c6
  <2> QED  BY <2>1, <2>2, <2>3, SixMeasure
<1>5. AllMeasure(TestCoverageSuite(j.env))
  <2>1. Measures({ReportWriterCovered(j.env)})
    <3>1. j.env.tmp \in {"ok", "write fails", "not made"}
      BY DEF Job
    <3>2. ReportWriterCovered(j.env) \in {Pass(NoMetrics), Fail("write error"), Panic}
      BY <3>1, Zenon DEF ReportWriterCovered
    <3> QED  BY <3>2, PlainMeasures, FailMeasures
  <2> QED  BY <2>1, PlainMeasures, FailMeasures, SixMeasure DEF TestCoverageSuite
<1>6. AllMeasure(TaskCompletionSuite)
  <2> DEFINE inf == Metric("inf", Value(0))
             nan == With(inf, Name("nan"), Value(0))
             neg == With(nan, Name("neg"), <<-3, 2>>)
  <2>1. IsMetrics(nan)
    <3>1. Value(0) \in Fractions
      BY ValueType
    <3>2. IsMetrics(inf) /\ IsName(Name("nan"))
      BY <1>0, NameType
    <3> HIDE DEF inf
    <3> QED  BY <3>1, <3>2, WithType
  <2> HIDE DEF nan
  <2>2. IsMetrics(neg)
    <3>1. <<-3, 2>> \in Fractions
      BY DEF Fractions
    <3>2. IsName(Name("neg"))
      BY NameType
    <3> QED  BY <2>1, <3>1, <3>2, WithType
  <2>3. Measures({Pass(neg)})
    BY <2>2, PassMeasures
  <2>4. /\ Measures({CaseResult("WARN", "soft warning", NoMetrics)})
        /\ Measures({CaseResult("", "", NoMetrics)})
    BY <1>0, CaseMeasures
  <2> QED  BY <2>3, <2>4, PlainMeasures, FailMeasures, SixMeasure DEF TaskCompletionSuite, nan
<1>7. ASSUME j.suite \in DOMAIN AllSuites(j.env)
      PROVE  AllMeasure(AllSuites(j.env)[j.suite])
  BY <1>2, <1>3, <1>4, <1>5, <1>6, <1>7 DEF AllSuites
<1> QED  BY <1>1, <1>7, DemoMeasures DEF SuiteOf
-----------------------------------------------------------------------------
(* Which cases of the suites set a verdict. *)

\* A case that sets one whatever it returns, and one that is sure to fail.
Decides(case) == \A r \in case : r.verdict # ""
Fails(case) == \A r \in case : r.verdict = "FAIL"

Decided(cases) == \A i \in 1 .. Len(cases) : Decides(cases[i])

\* A suite that may pass has no case without a verdict.
Sure(cases) == Decided(cases) \/ \E i \in 1 .. Len(cases) : Fails(cases[i])

LEMMA PassDecides ==
    ASSUME NEW m
    PROVE  Decides({Pass(m)}) /\ Decides(Timed(m))
  BY DEF Decides, Timed, Pass, Fail, CaseResult

LEMMA FailDecides ==
    ASSUME NEW e
    PROVE  Decides({Fail(e)}) /\ \A bad : Decides(Unless(bad, e))
  BY DEF Decides, Unless, Pass, Fail, CaseResult

LEMMA PanicDecides == Decides({Panic})
<1>1. Panic.verdict = "panic" /\ "panic" # ""
  BY DEF Panic, CaseResult
<1> QED  BY <1>1 DEF Decides

LEMMA SixDecide ==
    ASSUME NEW a, NEW b, NEW c, NEW d, NEW e, NEW f,
           Decides(a), Decides(b), Decides(c), Decides(d), Decides(e), Decides(f)
    PROVE  Sure(<<a, b, c, d, e, f>>)
  BY DEF Sure, Decided

LEMMA DemoSure ==
    ASSUME NEW live
    PROVE  Sure(DemoCases(live))
<1> DEFINE cases == DemoCases(live)
<1>1. DOMAIN buildDemoSuite = 1 .. Len(buildDemoSuite)
  BY DemoSuiteType, LenProperties
<1>2. DOMAIN cases = DOMAIN buildDemoSuite
  BY DEF DemoCases
<1>3. Len(cases) = Len(buildDemoSuite)
  BY <1>1, <1>2, DemoSuiteType, LenProperties
<1>4. ASSUME NEW c, NEW o PROVE ResultOf(c, o).verdict # ""
  BY DEF ResultOf, Pass, CaseResult
<1>5. LoopguardTripped.verdict # ""
  BY DEF LoopguardTripped, CaseResult
<1>6. ASSUME NEW i \in DOMAIN buildDemoSuite PROVE Decides(cases[i])
  <2>1. cases[i] = IF live THEN AgentCase(buildDemoSuite[i])
                   ELSE {LoopguardTripped,
                         ResultOf(buildDemoSuite[i], DefaultOutcome(buildDemoSuite[i]))}
    BY DEF DemoCases
  <2> HIDE DEF cases
  <2> QED  BY <1>4, <1>5, <2>1 DEF AgentCase, Decides
<1> QED  BY <1>1, <1>3, <1>6 DEF Sure, Decided

\* Of every suite that can be found: the one that has a case without a verdict
\* has a case that fails.
LEMMA SuiteSure ==
    ASSUME NEW j \in Job
    PROVE  Sure(SuiteOf(j))
<1>1. Sure(<<>>)
  BY DEF Sure, Decided
<1>2. Sure(ReliabilitySuite)
  <2> DEFINE c1 == Timed(Metric("latency_ms", Value(1)))
             c2 == Timed(Metric("attempts", Value(1)))
             c3 == {Pass(NoMetrics),
                    CaseResult("FAIL", "timeout as expected", Metric("timed_out", Value(1)))}
             c4 == {Fail("synthetic panic recovered")}
             c5 == {Pass(Metric("cases", Value(0)))}
             c6 == Timed(Metric("duration_ms", Value(50)))
  <2>1. ReliabilitySuite = <<c1, c2, c3, c4, c5, c6>>
    BY DEF ReliabilitySuite
  <2>2. Decides(c3)
    <3>1. \A m : Pass(m).verdict = "PASS" /\ CaseResult("FAIL", "timeout as expected", m).verdict = "FAIL"
      BY DEF Pass, CaseResult
    <3>2. "PASS" # "" /\ "FAIL" # ""
      OBVIOUS
    <3> QED  BY <3>1, <3>2 DEF Decides
  <2>3. Decides(c1) /\ Decides(c2) /\ Decides(c5) /\ Decides(c6)
    BY PassDecides
  <2>4. Decides(c4)
    BY FailDecides
  <2> HIDE DEF c1, c2, c3, c4, c5, c6
  <2> QED  BY <2>1, <2>2, <2>3, <2>4, SixDecide
<1>3. Sure(ObservabilitySuite)
  <2>1. Decides({Pass(Metric("latency_ms", Value(ms))) : ms \in {0, 1}})
    <3>1. (\A m : Pass(m).verdict = "PASS") /\ "PASS" # ""
      BY DEF Pass, CaseResult
    <3> QED  BY <3>1 DEF Decides
  <2> QED  BY <2>1, PassDecides, SixDecide DEF ObservabilitySuite
<1>4. Sure(SecuritySuite(j.env))
  <2> DEFINE leaked == \E a \in j.env.args : looksLikeSecret(a)
             named == \E k \in j.env.keys : ~isAllowedEnvKey(k) /\ isSecretEnvKey(k)
             smtp == \E a \in j.env.args : IsSmtp(a)
             c1 == Unless(leaked, "argv contains secret-like token")
             c2 == Unless(named, "env contains secret-named key")
             c3 == {Pass(Metric("fixtures", Value(1)))}
             c4 == Unless(smtp, "SMTP endpoint forbidden")
             c5 == {Pass(Metric("writes", Value(0)))}
             c6 == {Pass(Metric("static_keys", Value(0)))}
  <2>1. SecuritySuite(j.env) = <<c1, c2, c3, c4, c5, c6>>
    BY DEF SecuritySuite
  <2>2. Decides(c3) /\ Decides(c5) /\ Decides(c6)
    BY PassDecides
  <2> HIDE DEF leaked, named, smtp
  <2>3. Decides(c1) /\ Decides(c2) /\ Decides(c4)
    BY FailDecides
  <2> HIDE DEF c1, c2, c3, c4, c5, c6
  <2> QED  BY <2>1, <2>2, <2>3, SixDecide
<1>5. Sure(TestCoverageSuite(j.env))
  <2>1. Decides({ReportWriterCovered(j.env)})
    <3>1. j.env.tmp \in {"ok", "write fails", "not made"}
      BY DEF Job
    <3>2. ReportWriterCovered(j.env) \in {Pass(NoMetrics), Fail("write error"), Panic}
      BY <3>1, Zenon DEF ReportWriterCovered
    <3> QED  BY <3>2, PassDecides, FailDecides, PanicDecides
  <2> QED  BY <2>1, PassDecides, FailDecides, SixDecide DEF TestCoverageSuite
<1>6. Sure(TaskCompletionSuite)
  <2>1. Len(TaskCompletionSuite) = 6 /\ TaskCompletionSuite[3] = {Fail("expected failure")}
    BY DEF TaskCompletionSuite
  <2>2. Fails({Fail("expected failure")})
    <3>1. Fail("expected failure").verdict = "FAIL"
      BY DEF Fail, CaseResult
    <3> QED  BY <3>1 DEF Fails
  <2>3. 3 \in 1 .. Len(TaskCompletionSuite)
    <3>1. 3 \in 1 .. 6
      OBVIOUS
    <3> QED  BY <2>1, <3>1
  <2> QED  BY <2>1, <2>2, <2>3, Zenon DEF Sure
<1>7. ASSUME j.suite \in DOMAIN AllSuites(j.env)
      PROVE  Sure(AllSuites(j.env)[j.suite])
  BY <1>2, <1>3, <1>4, <1>5, <1>6, <1>7 DEF AllSuites
<1> QED  BY <1>1, <1>7, DemoSure DEF SuiteOf
-----------------------------------------------------------------------------
(* What becomes of it. *)

\* What a case that is run has returned.
Returned(rs, cases) == \A i \in DOMAIN rs : rs[i].verdict = "FAIL" \/ rs[i] \in cases[i]

\* What is carried from a suite to the line: metrics that are numbers under
\* names, the results its cases returned, and an event that could be marshalled.
Carried(p) ==
    /\ AllMeasure(suite[p]) /\ Measured(results[p])
    /\ Sure(suite[p]) /\ Returned(results[p], suite[p])
    /\ event[p] # NoEvent => CanMarshal(event[p])

LEMMA CaseCarried ==
    ASSUME NEW rs, rs \in Seq(ToSet(rs)), NEW cases,
           Measured(rs), Measures(cases[Len(rs) + 1]), Returned(rs, cases),
           NEW after \in RunCase(cases[Len(rs) + 1], rs)
    PROVE  Measured(after) /\ Returned(after, cases)
<1> DEFINE case == cases[Len(rs) + 1]
<1>1. PICK r : after = Append(rs, r) /\ IsMetrics(r.metrics) /\ (r.verdict = "FAIL" \/ r \in case)
  <2>1. PICK r \in (IF case = {} THEN {Fail("nil case function")} ELSE case) :
            after = Append(rs, r)
    BY DEF RunCase
  <2>2. CASE case = {}
    <3>1. r = Fail("nil case function")
      BY <2>1, <2>2
    <3>2. /\ IsMetrics(Fail("nil case function").metrics)
          /\ Fail("nil case function").verdict = "FAIL"
      BY NoMetricsType DEF Fail, CaseResult
    <3> QED  BY <2>1, <3>1, <3>2
  <2>3. CASE case # {}
    BY <2>1, <2>3 DEF Measures
  <2> QED  BY <2>2, <2>3
<1>2. /\ Len(rs) \in Nat /\ DOMAIN rs = 1 .. Len(rs) /\ DOMAIN after = 1 .. Len(rs) + 1
      /\ after[Len(rs) + 1] = r /\ \A i \in 1 .. Len(rs) : after[i] = rs[i]
  BY <1>1, Appended
<1>3. \A i \in DOMAIN after : i \in DOMAIN rs \/ i = Len(rs) + 1
  BY <1>2
<1>4. Measured(after)
  BY <1>1, <1>2, <1>3 DEF Measured
<1>5. Returned(after, cases)
  BY <1>1, <1>2, <1>3 DEF Returned
<1> QED  BY <1>4, <1>5

LEMMA InitCarried == Init => \A p \in Procs : Carried(p)
<1> SUFFICES ASSUME Init, NEW p \in Procs PROVE Carried(p)
  OBVIOUS
<1>1. suite[p] = <<>> /\ results[p] = <<>> /\ event[p] = NoEvent
  BY DEF Init
<1> QED  BY <1>1 DEF Carried, AllMeasure, Measured, Sure, Decided, Returned

LEMMA StepCarried ==
    ASSUME IInv, \A p \in Procs : Carried(p), [Next]_vars
    PROVE  \A p \in Procs : Carried(p)'
<1>0. TypeOK /\ \A p \in Procs : results[p] \in Seq(ToSet(results[p])) /\ Kept(p)
  BY DEF IInv, Typed
<1>1. ASSUME NEW p \in Procs, Start(p) PROVE \A q \in Procs : Carried(q)'
  <2>1. /\ results' = results /\ event' = event
        /\ \/ suite' = suite
           \/ suite' = [suite EXCEPT ![p] = SuiteOf(job[p])]
    BY <1>1 DEF Start
  <2>2. AllMeasure(SuiteOf(job[p])) /\ Sure(SuiteOf(job[p]))
    <3>1. job[p] \in Job
      BY <1>0, CommandAssumption DEF TypeOK
    <3> QED  BY <3>1, SuiteMeasures, SuiteSure
  <2>3. \A q \in Procs : AllMeasure(suite'[q]) /\ Sure(suite'[q])
    BY <1>0, <2>1, <2>2 DEF TypeOK, Carried
  <2>4. results[p] = <<>>
    BY <1>0, <1>1 DEF Start, Alive, Kept, Progress
  <2>5. \A q \in Procs : Returned(results[q], suite'[q])
    <3>1. \A q \in Procs \ {p} : suite'[q] = suite[q]
      BY <1>0, <2>1 DEF TypeOK
    <3>2. Returned(results[p], suite'[p])
      BY <2>4 DEF Returned
    <3> QED  BY <3>1, <3>2 DEF Carried
  <2> QED  BY <2>1, <2>3, <2>5 DEF Carried
<1>2. ASSUME NEW p \in Procs, NextCase(p) PROVE \A q \in Procs : Carried(q)'
  <2>1. /\ suite' = suite /\ event' = event
        /\ \/ results' = results
           \/ \E after \in RunCase(suite[p][Len(results[p]) + 1], results[p]) :
                 results' = [results EXCEPT ![p] = after]
    BY <1>2 DEF NextCase
  <2>2. CASE results' = results
    BY <2>1, <2>2 DEF Carried
  <2>3. CASE \E after \in RunCase(suite[p][Len(results[p]) + 1], results[p]) :
                 results' = [results EXCEPT ![p] = after]
    <3> DEFINE cases == suite[p]
               rs == results[p]
    <3>1. Measures(cases[Len(rs) + 1])
      <4>1. Len(results[p]) < Len(suite[p])
        BY <1>2 DEF NextCase
      <4>2. Len(results[p]) \in Nat /\ Len(suite[p]) \in Nat
        BY <1>0, LenProperties DEF IInv, Typed, Runnable
      <4>3. Len(results[p]) + 1 \in 1 .. Len(suite[p])
        BY <4>1, <4>2
      <4> QED  BY <4>3 DEF Carried, AllMeasure
    <3>2. PICK after \in RunCase(cases[Len(rs) + 1], rs) : results' = [results EXCEPT ![p] = after]
      BY <2>3
    <3>3. rs \in Seq(ToSet(rs)) /\ Measured(rs) /\ Returned(rs, cases)
      BY <1>0 DEF Carried
    <3>4. Measured(after) /\ Returned(after, cases)
      <4> HIDE DEF cases, rs
      <4> QED  BY <3>1, <3>2, <3>3, CaseCarried
    <3>5. \A q \in Procs : Measured(results'[q]) /\ Returned(results'[q], suite[q])
      BY <1>0, <3>2, <3>4 DEF TypeOK, Carried
    <3> QED  BY <2>1, <3>5 DEF Carried
  <2> QED  BY <2>1, <2>2, <2>3
<1>3. ASSUME NEW p \in Procs, MakeEvent(p) PROVE \A q \in Procs : Carried(q)'
  <2>1. /\ suite' = suite /\ results' = results
        /\ \/ event' = event
           \/ \E e : CanMarshal(e) /\ event' = [event EXCEPT ![p] = e]
    BY <1>3 DEF MakeEvent
  <2>2. \A q \in Procs : event'[q] # NoEvent => CanMarshal(event'[q])
    BY <1>0, <2>1 DEF TypeOK, Carried
  <2> QED  BY <2>1, <2>2 DEF Carried
<1>4. ASSUME UNCHANGED <<suite, results, event>> PROVE \A q \in Procs : Carried(q)'
  BY <1>4 DEF Carried
<1>5. ASSUME NEW p \in Procs, Command(p) \/ Kill(p)
      PROVE  Start(p) \/ NextCase(p) \/ MakeEvent(p) \/ UNCHANGED <<suite, results, event>>
  BY <1>5 DEF Command, Kill, WriteReport, PrintResult, Record, Gate
<1> QED  BY <1>1, <1>2, <1>3, <1>4, <1>5 DEF Next, Ended, vars

LEMMA CarriedAlways == Spec => [](IInv /\ \A p \in Procs : Carried(p))
<1> DEFINE Inv == IInv /\ \A p \in Procs : Carried(p)
<1>1. Init => Inv
  BY InitInv, InitCarried
<1>2. Inv /\ [Next]_vars => Inv'
  BY StepInv, StepCarried
<1>3. Inv => IInv /\ \A p \in Procs : Carried(p)
  OBVIOUS
<1> HIDE DEF Inv
<1>4. Spec => []Inv
  BY <1>1, <1>2, PTL DEF Spec
<1> QED  BY <1>3, <1>4, PTL

\* Of a suite whose cases have all been run, either one has failed or all have a
\* verdict.
LEMMA NoneOrFailed ==
    ASSUME IInv, NEW p \in Procs, Carried(p), Len(results[p]) = Len(suite[p])
    PROVE  NoneForgotten(results[p])
<1> DEFINE rs == results[p]
           cases == suite[p]
           K(v) == {i \in DOMAIN rs : rs[i].verdict = v}
<1>1. /\ rs \in Seq(ToSet(rs)) /\ Len(rs) \in Nat /\ DOMAIN rs = 1 .. Len(cases)
      /\ Sure(cases) /\ Returned(rs, cases)
  BY LenProperties DEF IInv, Typed, Carried
<1> HIDE DEF rs, cases
<1>2. CASE Decided(cases)
  <2>1. \A i \in DOMAIN rs : rs[i].verdict # ""
    BY <1>1, <1>2 DEF Decided, Decides, Returned
  <2>2. K("") = {}
    BY <2>1
  <2>3. Cardinality({}) = 0
    BY FS_EmptySet
  <2> HIDE DEF K
  <2> QED  BY <2>2, <2>3 DEF NoneForgotten, Count, rs, K
<1>3. CASE \E i \in 1 .. Len(cases) : Fails(cases[i])
  <2>1. PICK i \in DOMAIN rs : Fails(cases[i])
    BY <1>1, <1>3
  <2>2. i \in K("FAIL")
    BY <1>1, <2>1 DEF Fails, Returned
  <2>3. IsFiniteSet(K("FAIL"))
    <3>1. IsFiniteSet(1 .. Len(rs)) /\ DOMAIN rs = 1 .. Len(rs)
      BY <1>1, LenProperties, FS_Interval
    <3>2. K("FAIL") \in SUBSET (1 .. Len(rs))
      BY <3>1
    <3> HIDE DEF K
    <3> QED  BY <3>1, <3>2, FS_Subset
  <2>4. Cardinality(K("FAIL")) # 0
    <3> HIDE DEF K
    <3> QED  BY <2>2, <2>3, FS_EmptySet
  <2> QED  BY <2>4 DEF NoneForgotten, Count, rs
<1> QED  BY <1>1, <1>2, <1>3 DEF Sure

\* Whatever the suites, the surroundings and the agents, and whoever else runs:
\* a line that is reported, or about to be, is of all the cases of its suite,
\* and says it passed just if all of them did.
THEOREM PassMeansPassed == Spec => []PassMeansAllPassed
<1>1. ASSUME IInv, NEW p \in Procs, Carried(p), event[p] # NoEvent
      PROVE  /\ event[p].total = Len(suite[p])
             /\ event[p].verdict = "PASS" <=> event[p].passed = event[p].total
  <2>1. Len(results[p]) = Len(suite[p])
    BY <1>1 DEF IInv, Kept, Told
  <2>2. NoneForgotten(results[p])
    BY <1>1, <2>1, NoneOrFailed
  <2> QED  BY <1>1, <2>2, PassIsEarned
<1>2. IInv /\ (\A p \in Procs : Carried(p)) => PassMeansAllPassed
  BY <1>1 DEF PassMeansAllPassed
<1> QED  BY <1>2, CarriedAlways, PTL

\* Likewise for what it measured: each metric's average is that of the sum over
\* the cases that emit it or, where another average has the sum's name, of that;
\* and where none has, the sum is in the line as well, and the average between
\* the least and the greatest of what was summed.
THEOREM MetricsAreTold == Spec => []MetricsTellRun
<1>1. ASSUME IInv, NEW p \in Procs, Carried(p), event[p] # NoEvent,
             NEW k \in Emitted(results[p])
      PROVE  LET m == event[p].metrics
                 names == Emitted(results[p])
                 values(x) == {results[p][i].metrics[x] : i \in Emitters(results[p], x)}
                 mean(v, x) == Over(v, Cardinality(Emitters(results[p], x)))
             IN  /\ m[Avg(k)] \in {mean(Sum(results[p], k), k), mean(m[k], k)}
                 /\ (\A j \in names : k # Avg(j)) =>
                       /\ m[k] = Sum(results[p], k)
                       /\ \E v, w \in values(k) : Least(v, m[Avg(k)]) /\ Least(m[Avg(k)], w)
  <2> DEFINE rs == results[p]
             m == event[p].metrics
             S == Emitters(rs, k)
             mean == m[Avg(k)]
             alone == \A j \in Emitted(rs) : k # Avg(j)
  <2>1. rs \in Seq(ToSet(rs)) /\ Measured(rs) /\ k \in Emitted(rs)
    BY <1>1 DEF IInv, Typed, Carried
  <2>2. m \in AggregateMetrics(rs)
    <3>1. event[p] \in Events(job[p].suite, rs)
      BY <1>1 DEF IInv, Kept, Told
    <3> QED  BY <3>1 DEF Events
  <2>3. \A j \in DOMAIN m : IsFinite(m[j])
    BY <1>1 DEF Carried, CanMarshal
  <2> HIDE DEF rs, m
  <2>4. /\ Avg(k) \in DOMAIN m
        /\ mean \in {Over(v, Cardinality(S)) : v \in {Sum(rs, k), m[k]}}
        /\ alone => m[k] = Sum(rs, k)
    BY <2>1, <2>2, AggregateTells
  <2>5. IsFiniteSet(S) /\ S # {} /\ \A i \in S : rs[i].metrics[k] \in Fractions
    BY <2>1, EmittersType
  <2>6. IsFinite(mean)
    BY <2>3, <2>4
  <2>7. ASSUME alone
        PROVE  \E i, j \in S : Least(rs[i].metrics[k], mean) /\ Least(mean, rs[j].metrics[k])
    <3>1. mean = Over(Sum(rs, k), Cardinality(S))
      BY <2>4, <2>7
    <3> HIDE DEF mean, S
    <3> QED  BY <2>5, <2>6, <3>1, MeanBetween DEF S
  <2> QED  BY <2>4, <2>7 DEF rs, m
<1>2. IInv /\ (\A p \in Procs : Carried(p)) => MetricsTellRun
  BY <1>1, Zenon DEF MetricsTellRun
<1> QED  BY <1>2, CarriedAlways, PTL
=============================================================================
