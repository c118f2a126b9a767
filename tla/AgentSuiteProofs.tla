--------------------------- MODULE AgentSuiteProofs ---------------------------
(***************************************************************************)
(* What TLAPS proves of AgentSuite, for any tasks, models, agents and      *)
(* budget: what a suite's results say of its agents, when a case is given  *)
(* up, and that the suite is a SuiteRun.                                   *)
(***************************************************************************)
EXTENDS AgentSuite, LoopProofs

CaseSet == {SuiteForRun[i] : i \in DOMAIN SuiteForRun}
-----------------------------------------------------------------------------
(* The suites. *)

LEMMA SuiteType ==
    /\ SuiteForRun \in Seq(CaseSet) /\ Len(SuiteForRun) \in Nat
    /\ Cases = 1 .. Len(SuiteForRun)
<1> DEFINE n == Len(CanonicalTasks) * Len(ProductionModels)
<1>1. n \in Nat
  <2>1. Len(CanonicalTasks) \in Nat /\ Len(ProductionModels) \in Nat
    BY AgentCasesAssumption, LenProperties
  <2> QED  BY <2>1
<1>2. DOMAIN SuiteForRun = 1 .. n
  BY DEF SuiteForRun
<1>3. SuiteForRun \in [1 .. n -> CaseSet]
  <2>1. SuiteForRun = [i \in DOMAIN SuiteForRun |-> SuiteForRun[i]]
    BY DEF SuiteForRun
  <2> QED  BY <1>2, <2>1 DEF CaseSet
<1> HIDE DEF n
<1>4. SuiteForRun \in Seq(CaseSet)
  BY <1>1, <1>3, SeqDef
<1> QED  BY <1>4, LenProperties DEF Cases

\* The demo's suite is a part of the whole one.
LEMMA DemoSuiteType ==
    buildDemoSuite \in Seq(CaseSet) /\ Len(buildDemoSuite) <= Len(SuiteForRun)
<1> DEFINE N == Len(SuiteForRun)
           K == {c \in CaseSet : c.model = DemoModel}
           Loop(f) == f = [i \in 0 .. N |->
                              IF i = 0 THEN <<>>
                              ELSE IF SuiteForRun[i].model = DemoModel
                                   THEN Append(f[i - 1], SuiteForRun[i])
                                   ELSE f[i - 1]]
           filtered == CHOOSE f : Loop(f)
<1>1. SuiteForRun \in Seq(CaseSet) /\ N \in Nat
  BY SuiteType
<1>2. \A i \in 1 .. N : SuiteForRun[i].model = DemoModel <=> SuiteForRun[i] \in K
  BY <1>1, ElementOfSeq
<1>3. ASSUME NEW f, Filters(SuiteForRun, K, N, f) PROVE Loop(f)
  <2>1. \A i \in 0 .. N : i # 0 => i \in 1 .. N
    BY <1>1
  <2> HIDE DEF N, K
  <2> QED  BY <1>2, <1>3, <2>1 DEF Filters
<1>4. ASSUME NEW f, Loop(f) PROVE Filters(SuiteForRun, K, N, f)
  <2>1. \A i \in 0 .. N : i # 0 => i \in 1 .. N
    BY <1>1
  <2> HIDE DEF N, K
  <2> QED  BY <1>2, <1>4, <2>1 DEF Filters
<1>5. buildDemoSuite = filtered[N]
  BY DEF buildDemoSuite
<1>6. Loop(filtered)
  <2>1. \E f : Loop(f)
    <3>1. PICK f : Filters(SuiteForRun, K, N, f)
      BY <1>1, FilterExists
    <3> HIDE DEF Loop
    <3> QED  BY <1>3, <3>1
  <2> HIDE DEF Loop
  <2> QED  BY <2>1
<1> HIDE DEF Loop, filtered, K
<1>7. Filters(SuiteForRun, K, N, filtered)
  BY <1>4, <1>6
<1> QED  BY <1>1, <1>5, <1>7, FilterType

-----------------------------------------------------------------------------
(* The suite that is run. *)

LEMMA RunType ==
    ASSUME entry \in Entries
    PROVE  /\ Suite \in Seq(CaseSet) /\ NCases \in Nat
           /\ DOMAIN Suite = 1 .. NCases
           /\ \A i \in 1 .. NCases : i \in Cases
<1>1. Suite \in Seq(CaseSet) /\ Len(Suite) <= Len(SuiteForRun)
  BY SuiteType, DemoSuiteType DEF Suite
<1>2. NCases \in Nat /\ DOMAIN Suite = 1 .. NCases
  BY <1>1, LenProperties DEF NCases
<1>3. Cases = 1 .. Len(SuiteForRun) /\ Len(SuiteForRun) \in Nat
  BY SuiteType
<1> QED  BY <1>1, <1>2, <1>3 DEF NCases

\* The budget of a case is what its Config says, unless that is one short.
LEMMA BudgetType ==
    ASSUME entry \in Entries
    PROVE  /\ Budget \in Nat \ {0}
           /\ entry = "demo" \/ CfgLoopguard # 0 => Budget = Loopguard
  BY SuiteAssumption DEF Budget, Loopguard, RunnerTimeout, OrDefault

\* Verdicts: a case passes when its agent says ok, and by nothing else.
LEMMA Verdicts ==
    ASSUME NEW case, NEW o
    PROVE  /\ ResultOf(case, o).verdict = IF o.kind = "ok" THEN "PASS" ELSE "FAIL"
           /\ LoopguardTripped.verdict = "FAIL"
           /\ o.kind \in {"ok", "not_ok", "error"} => ResultOf(case, o) # LoopguardTripped
<1>1. ResultOf(case, o).verdict = IF o.kind = "ok" THEN "PASS" ELSE "FAIL"
  BY DEF ResultOf, Pass, CaseResult
<1>2. LoopguardTripped.verdict = "FAIL" /\ LoopguardTripped.error = "loop guard tripped"
  BY DEF LoopguardTripped, CaseResult
<1>3. ResultOf(case, o).error = IF o.kind = "ok" THEN "" ELSE o.kind
  BY DEF ResultOf, Pass, CaseResult
<1> QED  BY <1>1, <1>2, <1>3

\* What may be put on a channel.
LEMMA OutcomeKinds ==
    ASSUME NEW case, NEW o \in Outcomes \cup {DefaultOutcome(case)}
    PROVE  o.kind \in {"ok", "not_ok", "error"} /\ o # NoOutcome
<1>1. o.kind \in {"ok", "not_ok", "error"}
  BY DEF Outcomes, DefaultOutcome
<1>2. NoOutcome.kind = "none"
  BY DEF NoOutcome
<1> QED  BY <1>1, <1>2
-----------------------------------------------------------------------------
(* The inductive invariant. *)

\* All that the cases may return.
ResultSet == UNION {AgentCase(case) : case \in CaseSet}

\* A goroutine is there from the start of its case on, and its channel is
\* empty until it returns.
Goroutines ==
    /\ results \in Seq(ResultSet)
    /\ DOMAIN channel = Cases
    /\ waiting => ~SuiteDone
    /\ \A i \in Cases :
          /\ agent[i] # "none" => i <= Len(results) \/ (waiting /\ i = Current)
          /\ agent[i] # "returned" => channel[i] = NoOutcome

\* A result is the loop guard's, or what the case makes of its own channel.
OwnAnswers ==
    \A i \in DOMAIN results :
        results[i] = LoopguardTripped
            \/ (channel[i] # NoOutcome /\ results[i] = ResultOf(Suite[i], channel[i]))

SuiteInv == SuiteTypeOK /\ Goroutines /\ OwnAnswers

-----------------------------------------------------------------------------
LEMMA InitSuite == SuiteInit => SuiteInv
<1> SUFFICES ASSUME SuiteInit PROVE SuiteInv
  OBVIOUS
<1>1. entry \in Entries
  BY DEF SuiteInit
<1>2. Len(results) = 0 /\ DOMAIN results = {} /\ results \in Seq(ResultSet)
  BY EmptySeq DEF SuiteInit
<1>3. NCases \in Nat /\ Budget \in Nat
  BY <1>1, RunType, BudgetType
<1>4. SuiteTypeOK
  <2>1. \A i \in Cases : channel[i] = NoOutcome
    BY DEF SuiteInit
  <2>2. agent \in [Cases -> {"none", "blocked", "running", "returned"}]
    BY DEF SuiteInit
  <2>3. elapsed \in 0 .. Budget /\ Len(results) <= NCases
    BY <1>2, <1>3 DEF SuiteInit
  <2> QED  BY <1>1, <1>2, <2>1, <2>2, <2>3 DEF SuiteInit, SuiteTypeOK
<1>5. Goroutines /\ OwnAnswers
  BY <1>2 DEF SuiteInit, Goroutines, OwnAnswers
<1> QED  BY <1>4, <1>5 DEF SuiteInv

\* What the invariant says of the positions of a suite.
LEMMA Places ==
    ASSUME SuiteInv
    PROVE  /\ entry \in Entries /\ NCases \in Nat /\ Len(results) \in 0 .. NCases
           /\ DOMAIN results = 1 .. Len(results)
           /\ ~SuiteDone => Current \in 1 .. NCases /\ Current \in Cases
           /\ \A i \in Cases : agent[i] # "none" => i \in 1 .. NCases
           /\ Cases \subseteq Nat
<1>1. entry \in Entries /\ results \in Seq(ResultSet) /\ Len(results) <= NCases
  BY DEF SuiteInv, SuiteTypeOK, Goroutines
<1>2. NCases \in Nat /\ \A i \in 1 .. NCases : i \in Cases
  BY <1>1, RunType
<1>3. Len(results) \in 0 .. NCases /\ DOMAIN results = 1 .. Len(results)
  BY <1>1, <1>2, LenProperties
<1>4. ~SuiteDone => Current \in 1 .. NCases
  <2>1. NCases \in Nat /\ Len(results) \in Nat /\ Len(results) <= NCases
    BY <1>2, <1>3
  <2> QED  BY <2>1 DEF SuiteDone, Current
<1>5. Cases \subseteq Nat /\ \A i \in Cases : i >= 1
  BY SuiteType
<1>6. \A i \in Cases : agent[i] # "none" => i \in 1 .. NCases
  BY <1>2, <1>3, <1>4, <1>5 DEF SuiteInv, Goroutines, Current
<1> QED  BY <1>1, <1>2, <1>3, <1>4, <1>5, <1>6

\* A result of the current case is appended to those there are.
LEMMA FinishAppends ==
    ASSUME SuiteInv, waiting, NEW r \in AgentCase(Suite[Current]), Finish(r)
    PROVE  /\ results' \in Seq(ResultSet)
           /\ Len(results') = Len(results) + 1 /\ results'[Len(results) + 1] = r
           /\ DOMAIN results' = 1 .. Len(results) + 1
           /\ \A i \in 1 .. Len(results) : results'[i] = results[i]
<1>1. Current \in 1 .. NCases
  BY Places DEF SuiteInv, Goroutines
<1>2. Suite[Current] \in CaseSet
  BY <1>1, Places, RunType, ElementOfSeq DEF NCases
<1>3. r \in ResultSet /\ results \in Seq(ResultSet)
  BY <1>2 DEF ResultSet, SuiteInv, Goroutines
<1>4. /\ results' \in Seq(ResultSet)
      /\ Len(results') = Len(results) + 1 /\ results'[Len(results) + 1] = r
      /\ \A i \in 1 .. Len(results) : results'[i] = results[i]
  BY <1>3, AppendProperties DEF Finish
<1> QED  BY <1>4, LenProperties

LEMMA FinishKeeps ==
    ASSUME SuiteInv, waiting, NEW r \in AgentCase(Suite[Current]), Finish(r),
           \/ r = LoopguardTripped
           \/ channel[Current] # NoOutcome /\ r = ResultOf(Suite[Current], channel[Current])
    PROVE  SuiteInv'
<1>0. /\ UNCHANGED <<entry, cancelled, agent, channel, hook, swap>>
      /\ waiting' = FALSE /\ elapsed' = 0
  BY DEF Finish
<1>1. /\ results' \in Seq(ResultSet)
      /\ Len(results') = Len(results) + 1 /\ results'[Len(results) + 1] = r
      /\ DOMAIN results' = 1 .. Len(results) + 1
      /\ \A i \in 1 .. Len(results) : results'[i] = results[i]
  BY FinishAppends
<1>2. /\ Len(results) + 1 \in 1 .. NCases /\ Len(results) \in Nat /\ NCases \in Nat
      /\ DOMAIN results = 1 .. Len(results) /\ Cases \subseteq Nat
  BY Places DEF SuiteInv, Goroutines, Current
<1>3. Suite' = Suite /\ NCases' = NCases /\ Budget' = Budget /\ Budget \in Nat
  BY <1>0, BudgetType, Places DEF Suite, NCases, Budget, Loopguard, RunnerTimeout
<1>4. r.verdict \in {"PASS", "FAIL"}
  BY Verdicts
<1>5. \A i \in DOMAIN results' : i \in DOMAIN results \/ i = Len(results) + 1
  BY <1>1, <1>2
<1>6. SuiteTypeOK'
  <2>1. \A i \in DOMAIN results' : results'[i].verdict \in {"PASS", "FAIL"}
    BY <1>1, <1>2, <1>4, <1>5 DEF SuiteInv, SuiteTypeOK
  <2>2. Len(results') <= NCases
    BY <1>1, <1>2
  <2>3. \A i \in Cases : channel'[i] # NoOutcome =>
            i <= NCases' /\ channel'[i] \in Outcomes \cup {DefaultOutcome(Suite'[i])}
    BY <1>0, <1>3 DEF SuiteInv, SuiteTypeOK
  <2>4. elapsed' \in 0 .. Budget'
    BY <1>0, <1>3
  <2> QED  BY <1>0, <1>3, <2>1, <2>2, <2>3, <2>4 DEF SuiteInv, SuiteTypeOK
<1>7. Goroutines'
  <2>1. ASSUME NEW i \in Cases, agent[i] # "none" PROVE i <= Len(results')
    BY <1>1, <1>2, <2>1 DEF SuiteInv, Goroutines, Current
  <2> QED  BY <1>0, <1>1, <2>1 DEF SuiteInv, Goroutines
<1>8. OwnAnswers'
  <2>1. ASSUME NEW i \in DOMAIN results
        PROVE  results'[i] = LoopguardTripped
                  \/ (channel[i] # NoOutcome /\ results'[i] = ResultOf(Suite[i], channel[i]))
    BY <1>1, <1>2 DEF SuiteInv, OwnAnswers
  <2>2. results'[Len(results) + 1] = LoopguardTripped
           \/ (channel[Len(results) + 1] # NoOutcome
                /\ results'[Len(results) + 1]
                      = ResultOf(Suite[Len(results) + 1], channel[Len(results) + 1]))
    BY <1>1 DEF Current
  <2> QED  BY <1>0, <1>3, <1>5, <2>1, <2>2 DEF OwnAnswers
<1> QED  BY <1>6, <1>7, <1>8 DEF SuiteInv

\* What a select may finish its case with.
LEMMA SelectFinishes ==
    ASSUME SuiteInv, Select
    PROVE  /\ waiting
           /\ \E r \in AgentCase(Suite[Current]) :
                 /\ Finish(r)
                 /\ \/ TripLoopguard /\ r = LoopguardTripped
                    \/ /\ channel[Current].kind \in {"ok", "not_ok", "error"}
                       /\ channel[Current] # NoOutcome
                       /\ r = ResultOf(Suite[Current], channel[Current])
<1>1. CASE TripLoopguard
  <2>1. LoopguardTripped \in AgentCase(Suite[Current])
    BY DEF AgentCase
  <2> QED  BY <1>1, <2>1 DEF TripLoopguard
<1>2. CASE TakeAnswer
  <2>0. waiting /\ Answered(Current)
    BY <1>2 DEF TakeAnswer
  <2>1. Current \in Cases
    BY <2>0, Places DEF SuiteInv, Goroutines
  <2>2. channel[Current] \in Outcomes \cup {DefaultOutcome(Suite[Current])}
    BY <2>0, <2>1 DEF Answered, SuiteInv, SuiteTypeOK
  <2>3. channel[Current].kind \in {"ok", "not_ok", "error"} /\ channel[Current] # NoOutcome
    BY <2>2, OutcomeKinds
  <2>4. ResultOf(Suite[Current], channel[Current]) \in AgentCase(Suite[Current])
    BY <2>2 DEF AgentCase
  <2> QED  BY <1>2, <2>0, <2>3, <2>4 DEF TakeAnswer
<1> QED  BY <1>1, <1>2 DEF Select

\* The goroutine of a case puts its outcome on the channel, or moves on to it.
LEMMA AgentMoves ==
    ASSUME SuiteInv, NEW i \in Cases, agent[i] \in {"blocked", "running"},
           NEW a \in {"running", "returned"}, agent' = [agent EXCEPT ![i] = a],
           NEW o \in Outcomes \cup {DefaultOutcome(Suite[i])},
           channel' = IF a = "returned" THEN [channel EXCEPT ![i] = o] ELSE channel,
           UNCHANGED <<entry, waiting, elapsed, cancelled, results, hook, swap>>
    PROVE  SuiteInv'
<1>0. /\ Suite' = Suite /\ NCases' = NCases /\ Budget' = Budget /\ Current' = Current
      /\ SuiteDone' = SuiteDone
  BY DEF Suite, NCases, Budget, Loopguard, RunnerTimeout, Current, SuiteDone
<1>1. /\ DOMAIN channel = Cases /\ DOMAIN agent = Cases
      /\ channel[i] = NoOutcome /\ i \in 1 .. NCases
  BY Places DEF SuiteInv, SuiteTypeOK, Goroutines
<1>2. \A j \in Cases : j # i => channel'[j] = channel[j] /\ agent'[j] = agent[j]
  BY <1>1
<1>3. agent'[i] = a /\ channel'[i] = IF a = "returned" THEN o ELSE NoOutcome
  BY <1>1
<1>4. SuiteTypeOK'
  <2>1. \A j \in Cases : channel'[j] # NoOutcome =>
            j <= NCases /\ channel'[j] \in Outcomes \cup {DefaultOutcome(Suite[j])}
    BY <1>1, <1>2, <1>3, Places DEF SuiteInv, SuiteTypeOK
  <2>2. agent' \in [Cases -> {"none", "blocked", "running", "returned"}]
    BY DEF SuiteInv, SuiteTypeOK
  <2> QED  BY <1>0, <2>1, <2>2 DEF SuiteInv, SuiteTypeOK
<1>5. Goroutines'
  <2>1. DOMAIN channel' = Cases
    BY <1>1
  <2> QED  BY <1>0, <1>2, <1>3, <2>1 DEF SuiteInv, Goroutines
<1>6. OwnAnswers'
  <2> SUFFICES ASSUME NEW j \in DOMAIN results
               PROVE  \/ results[j] = LoopguardTripped
                      \/ /\ channel'[j] # NoOutcome
                         /\ results[j] = ResultOf(Suite[j], channel'[j])
    BY <1>0 DEF OwnAnswers
  <2>1. j \in Cases
    BY Places, RunType
  <2>2. CASE j = i
    BY <1>1, <2>2 DEF SuiteInv, OwnAnswers
  <2>3. CASE j # i
    BY <1>2, <2>1, <2>3 DEF SuiteInv, OwnAnswers
  <2> QED  BY <2>2, <2>3
<1> QED  BY <1>4, <1>5, <1>6 DEF SuiteInv

LEMMA StepSuite ==
    ASSUME SuiteInv, [SuiteNext \/ SuiteEnded]_suiteVars
    PROVE  SuiteInv'
<1>1. CASE StartCase
  <2>0. /\ ~waiting /\ ~SuiteDone /\ waiting' = TRUE /\ elapsed' = 0
        /\ agent' = [agent EXCEPT ![Current] = "blocked"]
        /\ UNCHANGED <<entry, cancelled, channel, results, hook, swap>>
    BY <1>1 DEF StartCase
  <2>1. /\ Suite' = Suite /\ NCases' = NCases /\ Budget' = Budget /\ Current' = Current
        /\ SuiteDone' = SuiteDone
    BY <2>0 DEF Suite, NCases, Budget, Loopguard, RunnerTimeout, Current, SuiteDone
  <2>2. Current \in Cases /\ agent[Current] = "none" /\ Budget \in Nat
    <3>1. Current \in Cases /\ Budget \in Nat /\ Len(results) \in Nat
      BY <2>0, Places, BudgetType
    <3>2. ~(Current <= Len(results))
      BY <3>1 DEF Current
    <3> QED  BY <2>0, <3>1, <3>2 DEF SuiteInv, Goroutines
  <2>3. /\ agent'[Current] = "blocked"
        /\ \A i \in Cases : i # Current => agent'[i] = agent[i]
        /\ agent' \in [Cases -> {"none", "blocked", "running", "returned"}]
    BY <2>0, <2>2 DEF SuiteInv, SuiteTypeOK
  <2>4. SuiteTypeOK'
    BY <2>0, <2>1, <2>2, <2>3 DEF SuiteInv, SuiteTypeOK
  <2>5. Goroutines'
    BY <2>0, <2>1, <2>2, <2>3 DEF SuiteInv, Goroutines
  <2>6. OwnAnswers'
    BY <2>0, <2>1 DEF SuiteInv, OwnAnswers
  <2> QED  BY <2>4, <2>5, <2>6 DEF SuiteInv
<1>2. ASSUME NEW i \in Cases, CallAgent(i) PROVE SuiteInv'
  <2>0. agent[i] = "blocked"
        /\ UNCHANGED <<entry, waiting, elapsed, cancelled, results, hook, swap>>
    BY <1>2 DEF CallAgent
  <2>1. CASE agent' = [agent EXCEPT ![i] = "running"] /\ UNCHANGED channel
    BY <2>0, <2>1, AgentMoves
  <2>2. CASE /\ agent' = [agent EXCEPT ![i] = "returned"]
             /\ channel' = [channel EXCEPT ![i] = DefaultOutcome(Suite[i])]
    BY <2>0, <2>2, AgentMoves
  <2> QED  BY <1>2, <2>1, <2>2 DEF CallAgent
<1>3. ASSUME NEW i \in Cases, AgentReturns(i) PROVE SuiteInv'
  <2>1. PICK o \in Outcomes : channel' = [channel EXCEPT ![i] = o]
    BY <1>3 DEF AgentReturns
  <2>2. agent[i] = "running" /\ agent' = [agent EXCEPT ![i] = "returned"]
        /\ UNCHANGED <<entry, waiting, elapsed, cancelled, results, hook, swap>>
    BY <1>3 DEF AgentReturns
  <2> QED  BY <2>1, <2>2, AgentMoves
<1>4. CASE Select
  BY <1>4, SelectFinishes, FinishKeeps
<1>5. ASSUME UNCHANGED <<entry, waiting, agent, channel, results>>,
             cancelled' \in BOOLEAN, hook' \in Hooks, elapsed' \in 0 .. Budget,
             swap' \in {"none", "blocked", "done"}
      PROVE  SuiteInv'
  <2>1. /\ Suite' = Suite /\ NCases' = NCases /\ Budget' = Budget /\ Current' = Current
        /\ SuiteDone' = SuiteDone
    BY <1>5 DEF Suite, NCases, Budget, Loopguard, RunnerTimeout, Current, SuiteDone
  <2>2. SuiteTypeOK'
    BY <1>5, <2>1 DEF SuiteInv, SuiteTypeOK
  <2>3. Goroutines' /\ OwnAnswers'
    BY <1>5, <2>1 DEF SuiteInv, Goroutines, OwnAnswers
  <2> QED  BY <2>2, <2>3 DEF SuiteInv
<1>6. CASE Tick
  <2>1. elapsed' \in 0 .. Budget
    <3>1. Budget \in Nat /\ elapsed \in 0 .. Budget
      BY Places, BudgetType DEF SuiteInv, SuiteTypeOK
    <3> QED  BY <1>6, <3>1 DEF Tick
  <2> QED  BY <1>5, <1>6, <2>1 DEF Tick, SuiteInv, SuiteTypeOK
<1>7. CASE Cancel \/ CallSetRunAgent \/ (\E h \in Hooks : SetRunAgent(h))
  BY <1>5, <1>7 DEF Cancel, CallSetRunAgent, SetRunAgent, SuiteInv, SuiteTypeOK
<1>8. CASE UNCHANGED suiteVars
  BY <1>5, <1>8 DEF suiteVars, SuiteInv, SuiteTypeOK
<1> QED
  BY <1>1, <1>2, <1>3, <1>4, <1>6, <1>7, <1>8 DEF SuiteNext, SuiteEnded, Select

LEMMA SuiteInvariant == Spec => []SuiteInv
  BY InitSuite, StepSuite, PTL DEF Spec

\* Type correctness: in particular no outcome is on the channel of a case that
\* the suite does not have, and no case has two results.
THEOREM SuiteTypeCorrect == Spec => []SuiteTypeOK
<1>1. SuiteInv => SuiteTypeOK
  BY DEF SuiteInv
<1> QED  BY <1>1, SuiteInvariant, PTL

\* A verdict of PASS leaves no case that failed.
LEMMA PassMeansNoFail ==
    ASSUME NEW rs, NEW S, rs \in Seq(S), aggregateVerdict(rs) = "PASS"
    PROVE  \A i \in DOMAIN rs : rs[i].verdict # "FAIL"
<1> DEFINE failed == {i \in DOMAIN rs : rs[i].verdict = "FAIL"}
<1>1. IsFiniteSet(DOMAIN rs)
  BY LenProperties, FS_Interval
<1>2. IsFiniteSet(failed)
  BY <1>1, FS_Subset
<1>3. ~(Cardinality(failed) > 0)
  BY DEF aggregateVerdict, Count
<1> HIDE DEF failed
<1>4. Cardinality(failed) = 0
  BY <1>2, <1>3, FS_CardinalityType
<1>5. failed = {}
  BY <1>2, <1>4, FS_EmptySet
<1> QED  BY <1>5 DEF failed

\* A suite that passes was passed by every agent, in its own case: no answer of
\* an agent that was given up, or of another case, stands for it.
THEOREM PassEarned == Spec => []PassIsEarned
<1>1. SuiteInv => PassIsEarned
  <2> SUFFICES ASSUME SuiteInv PROVE PassIsEarned
    OBVIOUS
  <2>1. \A i \in DOMAIN results :
           results[i] # LoopguardTripped => results[i] = ResultOf(Suite[i], channel[i])
    BY DEF SuiteInv, OwnAnswers
  <2>2. ASSUME SuiteDone, aggregateVerdict(results) = "PASS", NEW i \in 1 .. NCases
        PROVE  channel[i].kind = "ok"
    <3>1. i \in DOMAIN results
      BY <2>2, Places DEF SuiteDone
    <3>2. results[i].verdict # "FAIL"
      <4>1. results \in Seq(ResultSet)
        BY DEF SuiteInv, Goroutines
      <4> QED  BY <2>2, <3>1, <4>1, PassMeansNoFail
    <3>3. results[i] = ResultOf(Suite[i], channel[i])
      BY <2>1, <3>1, <3>2, Verdicts
    <3> QED  BY <3>2, <3>3, Verdicts
  <2> QED  BY <2>1, <2>2 DEF PassIsEarned
<1> QED  BY <1>1, SuiteInvariant, PTL

-----------------------------------------------------------------------------
\* A case is given up only when it has used the whole of its budget, or its
\* caller has given up; but for the one Config that says zero, whose second is
\* added before the default is applied (see the run agent_zero_config).
THEOREM TripsOnlyOnBudget ==
    ASSUME CfgLoopguard # 0 \/ "integration" \notin Entries
    PROVE  Spec => TripsOnBudget
<1>1. SuiteInv /\ [SuiteNext \/ SuiteEnded]_suiteVars
          => (Tripped => elapsed >= Loopguard \/ cancelled)
  <2> SUFFICES ASSUME SuiteInv, [SuiteNext \/ SuiteEnded]_suiteVars, Tripped
               PROVE  elapsed >= Loopguard \/ cancelled
    OBVIOUS
  <2>1. entry \in Entries /\ Len(results) \in Nat
    BY Places
  <2>2. Select
    <3>1. Len(results') # Len(results)
      BY <2>1 DEF Tripped
    <3> QED
      BY <3>1 DEF SuiteNext, SuiteEnded, suiteVars, StartCase, CallAgent, AgentReturns,
           Select, Tick, Cancel, CallSetRunAgent, SetRunAgent
  <2>3. PICK r \in AgentCase(Suite[Current]) :
           /\ Finish(r)
           /\ \/ TripLoopguard /\ r = LoopguardTripped
              \/ /\ channel[Current].kind \in {"ok", "not_ok", "error"}
                 /\ r = ResultOf(Suite[Current], channel[Current])
    BY <2>2, SelectFinishes
  <2>4. r = LoopguardTripped
    <3>1. Len(results') = Len(results) + 1 /\ results'[Len(results) + 1] = r
      BY <2>2, <2>3, SelectFinishes, FinishAppends
    <3> QED  BY <3>1 DEF Tripped
  <2>5. TripLoopguard
    BY <2>3, <2>4, Verdicts
  <2>6. cancelled \/ elapsed >= Budget
    <3>1. ~(Current <= Len(results))
      BY <2>1 DEF Current
    <3> QED  BY <2>5, <3>1 DEF TripLoopguard, CtxDone
  <2>7. Budget = Loopguard
    <3>1. entry = "demo" \/ CfgLoopguard # 0
      BY <2>1, SuiteAssumption
    <3> QED  BY <2>1, <3>1, BudgetType
  <2> QED  BY <2>6, <2>7
<1> QED  BY <1>1, SuiteInvariant, PTL DEF Spec, TripsOnBudget
-----------------------------------------------------------------------------
(* AgentSuite implements the safety part of SuiteRun: each step appends a    *)
(* result that the next case may return, or is not seen.                     *)

\* Both modules make the same of what a case returns.
LEMMA SameRunCase == \A case, rs : Run!RunCase(case, rs) = RunCase(case, rs)
  BY DEF Run!RunCase, RunCase, Run!Fail, Fail, Run!CaseResult, CaseResult,
         Run!Panic, Panic, Run!NoMetrics, NoMetrics, Run!NaN, NaN

\* No case of an agent panics.
LEMMA NoPanic ==
    ASSUME NEW case, NEW r \in AgentCase(case), NEW rs
    PROVE  Append(rs, r) \in RunCase(AgentCase(case), rs)
<1>1. r.verdict \in {"PASS", "FAIL"}
  BY Verdicts DEF AgentCase
<1>2. Panic.verdict = "panic"
  BY DEF Panic, CaseResult
<1>3. r # Panic
  BY <1>1, <1>2
<1> QED  BY <1>3 DEF RunCase

THEOREM RunsSafely ==
    Spec => Run!Init /\ [][Run!Next]_<<[i \in DOMAIN Suite |-> AgentCase(Suite[i])], results>>
<1> DEFINE cases == [i \in DOMAIN Suite |-> AgentCase(Suite[i])]
<1>1. SuiteInit => Run!Init
  BY DEF SuiteInit, Run!Init
<1>2. SuiteInv /\ [SuiteNext \/ SuiteEnded]_suiteVars => [Run!Next]_<<cases, results>>
  <2> SUFFICES ASSUME SuiteInv, [SuiteNext \/ SuiteEnded]_suiteVars
               PROVE  [Run!Next]_<<cases, results>>
    OBVIOUS
  <2>1. cases' = cases
    BY DEF SuiteNext, SuiteEnded, suiteVars, StartCase, CallAgent, AgentReturns, Suite,
           TakeAnswer, TripLoopguard, Finish, Tick, Cancel, CallSetRunAgent, SetRunAgent
  <2>2. CASE Select
    <3>1. PICK r \in AgentCase(Suite[Current]) : Finish(r)
      BY <2>2, SelectFinishes
    <3>2. Current \in 1 .. NCases /\ Len(cases) = NCases
      <4>1. waiting
        BY <2>2, SelectFinishes
      <4>2. DOMAIN cases = 1 .. NCases /\ NCases \in Nat
        BY Places, RunType
      <4> QED  BY <4>1, <4>2, Places DEF SuiteInv, Goroutines
    <3>3. Len(results) < NCases /\ cases[Current] = AgentCase(Suite[Current])
      BY <3>2, Places, RunType DEF Current
    <3>4. results' = Append(results, r)
      BY <3>1 DEF Finish
    <3>5. results' \in Run!RunCase(cases[Len(results) + 1], results)
      BY <3>1, <3>3, <3>4, NoPanic, SameRunCase DEF Current
    <3> QED  BY <2>1, <3>2, <3>3, <3>5 DEF Run!Next
  <2>3. CASE ~Select
    <3>1. results' = results
      BY <2>3 DEF SuiteNext, SuiteEnded, suiteVars, StartCase, CallAgent, AgentReturns,
           Select, Tick, Cancel, CallSetRunAgent, SetRunAgent
    <3> QED  BY <2>1, <3>1
  <2> QED  BY <2>2, <2>3
<1> QED  BY <1>1, <1>2, SuiteInvariant, PTL DEF Spec
=============================================================================
