------------------------------ MODULE AgentSuite ------------------------------
(***************************************************************************)
(* internal/agenteval run by evalfw.Runner: the cases of one suite, one    *)
(* after the other.  A case hands its task to a goroutine that takes the   *)
(* process-wide lock runAgentMu, calls the RunAgent hook while holding it, *)
(* and puts the outcome on a channel of the case's own; the case waits for *)
(* the channel or for its context, whichever select finds ready.  Nobody   *)
(* waits for a goroutine whose case was given up.                          *)
(*                                                                         *)
(* The agent behind the hook is not under src/: it may answer at any time, *)
(* and unless its task is in Obedient it need not answer when its context  *)
(* is done.                                                                *)
(***************************************************************************)
EXTENDS AgentCases

CONSTANTS
    Obedient,      \* cases whose agent returns once its context is done
    CfgLoopguard,  \* Config.LoopguardTimeout as given to RunIntegrationSuite, in seconds
    Entries        \* who may run the suite: "integration", "demo"

ASSUME SuiteAssumption ==
    /\ Obedient \subseteq Nat
    /\ CfgLoopguard \in Int
    /\ Entries \subseteq {"integration", "demo"}

VARIABLES
    entry,      \* who runs the suite
    waiting,    \* whether a case is at its select
    elapsed,    \* seconds since it began
    cancelled,  \* whether the context given to RunSuite is done
    agent,      \* each case's goroutine; a running one holds runAgentMu
    channel,    \* what it has put on the case's channel
    results,    \* SuiteResult.Cases
    hook,       \* RunAgent
    swap        \* a caller of SetRunAgent

suiteVars == <<entry, waiting, elapsed, cancelled, agent, channel, results, hook, swap>>

Suite == IF entry = "demo" THEN buildDemoSuite ELSE SuiteForRun
NCases == Len(Suite)
Cases == DOMAIN SuiteForRun
Hooks == {"live", "default"}

\* Config.withDefaults and RunnerConfig.withDefaults.
OrDefault(given, default) == IF given <= 0 THEN default ELSE given

\* buildDemoSuite gives no Config.
Loopguard == OrDefault(IF entry = "demo" THEN 0 ELSE CfgLoopguard, 5)

\* Mutant: the second is taken off.
RunnerTimeoutTooShort ==
    OrDefault(IF entry = "demo" THEN 10 ELSE CfgLoopguard - 1, 30)

\* RunIntegrationSuite adds a second to the timeout it was given, before any
\* default is applied; runDemo asks for ten seconds.
RunnerTimeout ==
    OrDefault(IF entry = "demo" THEN 10 ELSE CfgLoopguard + 1, 30)

\* The deadline of a case: the earlier of the runner's and its own.
Budget == IF Loopguard < RunnerTimeout THEN Loopguard ELSE RunnerTimeout

SuiteTypeOK ==
    /\ entry \in Entries
    /\ waiting \in BOOLEAN
    /\ elapsed \in 0 .. Budget
    /\ cancelled \in BOOLEAN
    /\ agent \in [Cases -> {"none", "blocked", "running", "returned"}]
    /\ \A i \in Cases :
          channel[i] # NoOutcome =>
              i <= NCases /\ channel[i] \in Outcomes \cup {DefaultOutcome(Suite[i])}
    /\ Len(results) <= NCases
    /\ \A i \in DOMAIN results : results[i].verdict \in {"PASS", "FAIL"}
    /\ hook \in Hooks
    /\ swap \in {"none", "blocked", "done"}

SuiteInit ==
    /\ entry \in Entries
    /\ waiting = FALSE
    /\ elapsed = 0
    /\ cancelled = FALSE
    /\ agent = [i \in Cases |-> "none"]
    /\ channel = [i \in Cases |-> NoOutcome]
    /\ results = <<>>
    /\ hook \in Hooks
    /\ swap = "none"

Current == Len(results) + 1
SuiteDone == Len(results) = NCases
Answered(i) == channel[i] # NoOutcome
Running == {i \in Cases : agent[i] = "running"}
LockFree == Running = {}

\* Mutant: context.WithCancel in place of WithTimeout.
NoDeadline(i) == i <= Len(results) \/ cancelled

\* A case's context: done once the case has returned (defer cancel), once the
\* caller's context is done, or at the deadline.
CtxDone(i) ==
    \/ i <= Len(results)
    \/ cancelled
    \/ waiting /\ i = Current /\ elapsed >= Budget
-----------------------------------------------------------------------------
\* RunSuite takes the next case, whose function starts its goroutine.  Nothing
\* asks whether the caller's context is done already.
StartCase ==
    /\ ~waiting
    /\ ~SuiteDone
    /\ waiting' = TRUE
    /\ elapsed' = 0
    /\ agent' = [agent EXCEPT ![Current] = "blocked"]
    /\ UNCHANGED <<entry, cancelled, channel, results, hook, swap>>

\* callRunAgent gets the lock, reads the hook and calls it with the lock held,
\* even when its case has been given up.  The default hook says ok at once.
CallAgent(i) ==
    /\ agent[i] = "blocked"
    /\ LockFree
    /\ \/ /\ hook = "live"
          /\ agent' = [agent EXCEPT ![i] = "running"]
          /\ UNCHANGED channel
       \/ /\ hook = "default"
          /\ agent' = [agent EXCEPT ![i] = "returned"]
          /\ channel' = [channel EXCEPT ![i] = DefaultOutcome(Suite[i])]
    /\ UNCHANGED <<entry, waiting, elapsed, cancelled, results, hook, swap>>

\* Mutant: the lock is not released.
ReturnsWithLock(i) ==
    /\ agent[i] = "running"
    /\ \E o \in Outcomes : channel' = [channel EXCEPT ![i] = o]
    /\ UNCHANGED <<entry, waiting, elapsed, cancelled, agent, results, hook, swap>>

\* The live hook returns: the lock is released and the outcome is put on the
\* channel, which has room for it even when nobody will read it.
AgentReturns(i) ==
    /\ agent[i] = "running"
    /\ agent' = [agent EXCEPT ![i] = "returned"]
    /\ \E o \in Outcomes : channel' = [channel EXCEPT ![i] = o]
    /\ UNCHANGED <<entry, waiting, elapsed, cancelled, results, hook, swap>>

\* Mutant: RunSuite returns at the first case that fails.
StopAtFailure(result) ==
    /\ results' = IF result.verdict = "FAIL" THEN results ELSE Append(results, result)
    /\ waiting' = FALSE
    /\ elapsed' = 0
    /\ UNCHANGED <<entry, cancelled, agent, channel, hook, swap>>

\* The case's result is appended by RunSuite.
Finish(result) ==
    /\ results' = Append(results, result)
    /\ waiting' = FALSE
    /\ elapsed' = 0
    /\ UNCHANGED <<entry, cancelled, agent, channel, hook, swap>>

\* Mutant: one channel for all cases.
TakeAnyAnswer ==
    /\ waiting
    /\ \E i \in Cases : Answered(i) /\ Finish(ResultOf(Suite[Current], channel[i]))

\* select finds the channel ready.
TakeAnswer ==
    /\ waiting
    /\ Answered(Current)
    /\ Finish(ResultOf(Suite[Current], channel[Current]))

\* select finds the context done, possibly with an answer ready as well.
TripLoopguard ==
    /\ waiting
    /\ CtxDone(Current)
    /\ Finish(LoopguardTripped)

\* A second passes; time after the deadline is not counted.
Tick ==
    /\ waiting
    /\ elapsed < Budget
    /\ elapsed' = elapsed + 1
    /\ UNCHANGED <<entry, waiting, cancelled, agent, channel, results, hook, swap>>

\* The context given to RunSuite is cancelled or reaches its own deadline.
Cancel ==
    /\ ~cancelled
    /\ cancelled' = TRUE
    /\ UNCHANGED <<entry, waiting, elapsed, agent, channel, results, hook, swap>>

\* SetRunAgent is called (once, which bounds the model) and waits for the lock.
CallSetRunAgent ==
    /\ swap = "none"
    /\ swap' = "blocked"
    /\ UNCHANGED <<entry, waiting, elapsed, cancelled, agent, channel, results, hook>>

SetRunAgent(h) ==
    /\ swap = "blocked"
    /\ LockFree
    /\ hook' = h
    /\ swap' = "done"
    /\ UNCHANGED <<entry, waiting, elapsed, cancelled, agent, channel, results>>

Select == TakeAnswer \/ TripLoopguard

SuiteNext ==
    \/ StartCase
    \/ \E i \in Cases : CallAgent(i) \/ AgentReturns(i)
    \/ TakeAnswer
    \/ TripLoopguard
    \/ Tick
    \/ Cancel
    \/ CallSetRunAgent
    \/ \E h \in Hooks : SetRunAgent(h)

\* An agent that has to return: an obedient one whose context is done.
MustReturn(i) ==
    /\ i \in Obedient
    /\ CtxDone(i)
    /\ AgentReturns(i)

\* A suite run from a process that lives on, as the tests do.
SuiteEnded == SuiteDone /\ UNCHANGED suiteVars

Spec == SuiteInit /\ [][SuiteNext \/ SuiteEnded]_suiteVars

\* The scheduler runs whoever can run, the lock included (a Go mutex is not
\* held back from a waiter for ever), and clocks advance.  An agent has to
\* return only when it heeds its context and that is done.
FairSpec ==
    /\ Spec
    /\ WF_suiteVars(StartCase) /\ WF_suiteVars(Select) /\ WF_suiteVars(Tick)
    /\ WF_suiteVars(\E h \in Hooks : SetRunAgent(h))
    /\ \A i \in Cases :
          WF_suiteVars(CallAgent(i)) /\ WF_suiteVars(MustReturn(i))
-----------------------------------------------------------------------------
\* A suite that passes was passed by every agent: no answer of an agent that
\* was given up, or of another case, is taken for the answer of a case.
PassIsEarned ==
    /\ SuiteDone /\ aggregateVerdict(results) = "PASS" =>
          \A i \in 1 .. NCases : channel[i].kind = "ok"
    /\ \A i \in DOMAIN results :
          results[i] # LoopguardTripped => results[i] = ResultOf(Suite[i], channel[i])

Tripped == Len(results') > Len(results) /\ results'[Len(results')] = LoopguardTripped

\* integration.go:50,56: a case is given up as a runaway only when it has used
\* the whole of LoopguardTimeout, or its caller has given up.
TripsOnBudget ==
    [][Tripped => elapsed >= Loopguard \/ cancelled]_suiteVars

\* integration.go:54: LoopguardError is for a case whose "agent exceeded the
\* per-case budget", not for one whose agent was never called because the
\* agent of an earlier case still holds the lock.
TripsOnOwnAgent ==
    [][Tripped /\ ~cancelled =>
          ~(agent[Current] = "blocked" /\ Running # {})]_suiteVars

\* The suite ends, also when an agent never answers and never heeds its
\* context: a case is bounded by its deadline, not by its agent.
SuiteEnds == <>SuiteDone

\* Seen from outside of RunSuite the goroutines, the lock and the clocks are
\* not there: the agent suite is a SuiteRun of its cases.
Run == INSTANCE SuiteRun WITH
           suite <- [i \in DOMAIN Suite |-> AgentCase(Suite[i])]

RunsAsSuite == Run!Spec

\* Whoever waits for runAgentMu gets it, unless an agent that ignores its
\* context holds it: goroutines do not pile up behind obedient agents.
Deaf == Running \ Obedient # {}

LockIsReached ==
    /\ \A i \in Cases : (agent[i] = "blocked") ~> (agent[i] # "blocked" \/ Deaf)
    /\ (swap = "blocked") ~> (swap = "done" \/ Deaf)
=============================================================================
