# Formal models of helixon-eval

TLA+ modules that model the parts of `helixon-eval` whose correctness depends on
interleavings, partial failures and time, TLC configurations that check them on
small instances, and TLAPS proofs of nearly all the safety properties for any instance.
`PROJECT.json` has the map from definitions to source lines, the runs, the findings and the
hazards; this file explains them.

## 1. The system

`helixon-eval` runs evaluation suites against LLM agents and keeps what they cost
under control.  Everything is one process per command; concurrency is goroutines
on shared structs.

| component | state | operations | used by |
|---|---|---|---|
| **llm client** `internal/llmclient/client.go` | endpoint, key, HTTP timeout | `New`, `Chat` | cache, matrix |
| **idempotency cache** `internal/idempotency/cache.go` | `entries`, `stat`, `clock` under one RWMutex | `Lookup`, `Store`, `evictOldestLocked`, `SetClock`, `GetStats`, `Size`, `CachedChat` | tenancy |
| **tenancy manager** `internal/tenancy/tenant.go` | `sync.Map` of tenant to cache | `CacheFor`, `CachedChat`, `PilotRun`, `TenantIDs` | embedding programs, tests |
| **cost tracker** `internal/llmcost/llmcost.go` | `pricing`, `totals` under a mutex; an NDJSON file | `New`, `SetPricing`, `Record`, `CheckDailyBudget`, `DailySummary` | demo command |
| **agent suite** `internal/agenteval/integration.go` | the hook `RunAgent` and its lock `runAgentMu`; a goroutine and a channel per case | `SuiteForRun`, `caseForTask`, `callRunAgent`, `SetRunAgent`, `RunIntegrationSuite`, `CheckCodeMapFreshness` | demo command |
| **suite runner** `internal/evalfw/eval.go` | results so far | `RunSuite`, `aggregateVerdict` | agent suite, rubrics |
| **report writer** `internal/evalfw/report.go` | an NDJSON file | `Write`, `aggregateMetrics` | demo, `run` |
| **demo command** `cmd/helixon-eval/demo.go` | the order of suite, report, cost and exit code | `demoCmd`, `buildDemoSuite`, `runDemoWithCost`, `runDemo` | operator |
| **provider matrix** `internal/demo/*.go`, `cmd/demo/main.go` | rows, total, live tasks of a provider, an NDJSON file | `runLegacyPilot`, `RunMatrix`, `runOneProvider`, `PilotDemo`, `Gates`, `AppendNDJSON`, `runMatrix` | operator |
| **rubric suites** `internal/rubric/rubric.go` | none | built-in cases, secret filters | `run` |
| **run / report / list** `cmd/helixon-eval/main.go` | the same report file | `runCmd` runs a suite and appends its line; the others read | operator |

How they interact: the tenancy manager hands out one cache per tenant and calls
`idempotency.CachedChat` on it, which calls `Client.Chat` on a miss.  `RunSuite`
calls a case function, which starts a goroutine that takes a process-wide lock and
calls the agent's hook; the case then races the channel against its context.  The
demo command runs such a suite, appends it to the report and records its costs; `run`
does so with a rubric suite and without costs.  Any number of these commands may run at
once, and they append to the same two files under the home directory.
The matrix calls `Client.Chat` itself, with a timeout per call and one for the run.

What is hard, and which property is about it:

* **cache**: a call's lookup, its two counters and its store are separate critical
  sections with a network round-trip in between.  The cap must hold with any number
  of stores in flight (`CapacityBound`), the counters must add up (`StatsAccount`,
  `EveryBillCounted`, `EntriesPaidFor`), nobody may get an answer to another request
  (`AnswersRequest`), an answer must stay as long as "oldest first" says (`Retention`),
  and paying twice needs a reason (`RedialJustified`).  Altogether: the split
  implementation behaves as an atomic memo (`KeepsPromise`).
* **tenancy**: two goroutines create the same tenant's cache (`OneCachePerTenant`,
  `CacheKept`); tenants are otherwise strangers (`TenantsIsolated`).
* **cost tracker**: log and totals are updated apart, prices and days change in
  between, writes fail half-way, the process restarts (`TotalsMatchLog`,
  `AlertFollowsLog`, `AlertStays`).
* **agent suite**: a case that is given up leaves a goroutine behind that may hold or
  wait for the lock, and may answer late (`PassIsEarned`, `TripsOnBudget`, `SuiteEnds`,
  `LockIsReached`).
  From outside all that must look like the plain loop over cases that `RunSuite` is
  (`RunsAsSuite`).
* **run and demo**: an error, a panic of a case, a write cut short or a kill between any
  two writes, with another process at work on the same files (`Accountable`,
  `LossBounded`, `CommandsEnd`); a verdict made from counts that leave out a case without
  one (`PassMeansAllPassed`, and `EmptyVerdictFails`, which does not hold); metrics that are
  aggregated under names that may collide (`MetricsTellRun`).
* **matrix**: a provider that fails after some paid calls, one that never answers, the
  run's own deadline, flags that choose between two programs (`RowsMatchBills`,
  `TotalExplained`, `BillsAreWanted`, `EveryProviderReported`, `MatrixEnds`).

## 2. Modules

```
LlmClient ── CacheOps ──┬── IdempotencyCache ───── CacheHistory (history variables)
                        │        └── CachePromise (refinement mapping)
                        │                 │ implements
                        │                 ▼
                        │            IdempotentChat (abstract)
                        └── TenantManager  ── one IdempotencyCache per tenant (INSTANCE)

EvalFw ──┬── Rubrics ─────┬── EvalCommands          CostTracker
         ├── AgentCases ──┤
         │                └── AgentSuite            MatrixHarness
         │                        │ implements
         │                        ▼
         └── SuiteRun ─────── SuiteRun (abstract)

CacheOpsProofs (lemmas of CacheOps) ──┬── TenantManagerProofs
                                      └── IdempotencyCacheProofs (also of CacheHistory)
LoopProofs (laws of sums and loops) ──┬── IdempotencyCacheProofs
                                      ├── CostTrackerProofs
                                      ├── MatrixHarnessProofs
                                      ├── AgentSuiteProofs
                                      └── EvalCommandsProofs
```

| module | models | state and actions |
|---|---|---|
| `LlmClient` | what callers of `Chat` can tell apart | requests, the request on the wire (an empty model becomes the backend's default *after* the job id is computed), answers with the number of the bill they come from |
| `CacheOps` | the map of entries | job id, freshness, the size test, eviction of any one of the oldest, insertion: pure operators shared by the next module and `TenantManager` |
| `IdempotencyCache` | `Cache` and `CachedChat` | one action per critical section: `Lookup`, `CountHit`, `CountMiss`, `Store`; the provider's `Answer`; `Deliver` and `ChatError`, the two ways `Chat` returns; `SetClock`.  A caller in `Direct` passes a nil cache |
| `CacheHistory` | nothing new | adds the list of stores and what each lookup saw; constrains no step |
| `CachePromise` | nothing new | the refinement mapping from `IdempotencyCache` to `IdempotentChat`; a module of its own, so that `TenantManager` instantiates no instance within an instance, which the prover cannot expand |
| `IdempotentChat` | the comment at `cache.go:160` | the memory, consulted at one instant, and taught when an answer is returned: no critical sections, counters or eviction order |
| `TenantManager` | `Manager` | `Load`, `Make`, `Join` are the three parts of `CacheFor`; then the steps of `CachedChat` on the cache held; `PilotRun` fetches a cache and uses nothing of it |
| `CostTracker` | `Tracker` and its file | `Record`, `Price`, `AppendLine` or `AppendFails`, `UpdateDaily`; `Midnight`; `Restart`, which may leave a torn line |
| `EvalFw` | `internal/evalfw` without its state | a case is the set of results it may return; one turn of the loop, counts and verdict, `AggregateMetrics` (a set, as the order of a map matters when names collide), the event and whether it can be marshalled |
| `SuiteRun` | the contract of `RunSuite` | suite and results; one result after the other, each one its case may return, to the last case |
| `Rubrics` | `internal/rubric` | the five suites, as cases of `EvalFw`, in given arguments, environment and temp directory |
| `AgentCases` | `internal/agenteval` without goroutines, and `buildDemoSuite` | the order of the cases and what a case makes of its agent's outcome, with metrics |
| `AgentSuite` | the agent suite, run by `RunIntegrationSuite` or by the demo | the case's `select` (`TakeAnswer`, `TripLoopguard`), the goroutines (`CallAgent`, `AgentReturns`) and the lock, `SetRunAgent`, seconds |
| `EvalCommands` | processes of `helixon-eval run` and `demo` | `Start`, `NextCase`, `MakeEvent`, `WriteReport`, `PrintResult`, `Record`, `Gate`; each but `NextCase` may end the process with an error, and `Kill` ends it anywhere |
| `MatrixHarness` | `cmd/demo` | its flags, `runLegacyPilot`, `StartMatrix`; rows provider by provider, `Send`, the provider's `Charge`, `TakeAnswer`, `ChatFails`, the append and the gates |

`EvalCommands` does not repeat the goroutines of an agent suite: it runs the demo as
`SuiteRun` would run `AgentCase` of each case, and the property `RunsAsSuite` of
`AgentSuite` (`Spec => Run!Spec`, with the fairness that makes the suite end) is what
entitles it to that.  A file in it is the sequence of what single write calls have
appended: a whole line, or a head and, unless something happens in between, its tail.
The bytes of a line and the event in it are the process's own.

Goroutines are a function `pc` from callers to steps; a mutex that is never held
across a step is not a variable, it is the atomicity of the action.  The one lock
that *is* held for long, `runAgentMu`, is visible as the agent that is `"running"`.

Data that no property tells apart is left out: message texts, temperatures, latencies,
headers, JSON.  The fingerprint is a value, and the hash any function into job ids
(four bytes of a digest of an ambiguous string may collide).  Money is integers in a
small unit; the division by 1000, the same for every event, is left out, and so is the
rounding of floating point.  Metrics are fractions, and one over zero is a number
`json.Marshal` refuses.  A secret filter sees a prefix and the words a string contains.

Operators marked `Mutant:` in comments are not part of a specification: each is a
definition of the module as a plausible slip would have it, and `PROJECT.json`
"mutants" says which property notices when it takes the definition's place.

## 3. Runs

| run | instance | shows |
|---|---|---|
| `cache` | 2 callers of the cache and 1 without it, 3 jobs (two models of one prompt, another prompt), cap 2, TTL 1, 3 calls, instants 0–2 | the bounds, the accounts, whose answer is returned, retention, and when a job is paid for twice |
| `cache_promise` | 2 callers, a clock that may be set back, a hash that takes one prompt for another, a request without a model | the refinement `KeepsPromise`; every call returns |
| `tenants` | tenant A with two chats and a pilot, B with one chat, cap 1, one job id for everybody | one cache per tenant, never replaced; each tenant sees an `IdempotencyCache` of its own |
| `cost` | 2 goroutines, 2 backends, 2 days, 2 prices, 2 lines | totals and alerts against the log |
| `agent_suite` | 3 cases of the integration suite or 1 of the demo, the agent of the second deaf to its context, loop guard 2 s | verdicts, timeouts, the lock, termination, and the refinement `RunsAsSuite` |
| `commands` | 2 processes: every rubric suite, in the surroundings that make a difference to it, next to a demo; 2 demos; a demo with a live agent next to a command that does not start; 2 tasks, one write cut short | what is left in both files, what a line says of the verdict and of the metrics, termination |
| `matrix` | 3 providers, two of which share a key, 2 tasks, every combination of flags, names and keys | rows and total against bills; every provider reported; termination |
| `cache_overwrite`, `agent_zero_config`, `agent_cascade`, `demo_exit`, `empty_verdict` | as above | one finding each, section 5 |

**Bounds.**  Three jobs for two places are the least in which an eviction has a choice,
and three calls the least in which two callers miss on the same job while a third
answer is crowded out.  Two instants more than the TTL give both sides of "exactly TTL
old".  Two lines of the cost log are two racing records, or a record before and one
after midnight, a price change, a torn line or a restart.  Three cases are one that is
given up, one that waits behind its agent, and one that comes after.  Two tasks per
provider are one that was paid for before the other failed; the code treats seven of
them in the same way.  Two processes on one file are one that tears a line and one whose
line is glued to it, and one torn line is enough for both; a third process would only
append more.  `MaxCalls`, `Quota`, `MaxTime`, `MaxLines`, `MaxDay` and `MaxShort` are
the only bounds on counters, each in the guard of the action that would pass it; in
`AgentSuite`, `SetRunAgent` is called at most once, and `PilotSize` stands for the seven
tasks of a pilot.  `Retention` and `RedialJustified`
speak of a clock that does not go back ("oldest" means nothing else), so the run
`cache` has no `SetClock`; `cache_promise` has it, and so have the proofs, those of these two
properties with the hypothesis that no step sets the clock back.
Symmetry is used only in runs without liveness properties.

**Fairness.**  A goroutine that can run is run: weak fairness of each caller's own
steps.  A `Chat` comes back because `http.Client` has a timeout (`client.go:109`,
`harness.go:245`): `ChatError` and `ChatFails` are among the fair steps, the provider's
`Answer` and `Charge` are not.  In `AgentSuite` clocks advance and a waiter gets a free
lock; an agent has to return only if it is `Obedient` *and* its context is done.  In
`EvalCommands` a process takes its next step unless it is killed, which nobody has to do;
that a case comes to an end is what `RunsAsSuite` shows of agents, and built-in cases
wait for timers only.
Nobody is assumed to call, to change a price or to set the clock.

## 4. Proofs

`THEOREM Spec => ...` for every value of the constants that the named assumptions of the
modules allow: sets of any size, any hash, prices, usages, metrics and budgets.  The
assumptions say of what kind a constant is (finite, a number, a function; of an agent's
metrics, that each is a finite map from names to fractions, `IsMetrics`) and what the source
guarantees of it: `PilotSize \in 1 .. 7`, a demo's model that is one of the production
models, no task that has the name of a model.

**The cache** (`IdempotencyCacheProofs`), with a clock that may be set to anything unless
said otherwise:

* `TypeCorrect`: `TypeOK` is inductive because it also says at which steps a caller has a
  request and a response.
* `CapacityHolds`, `StatsHold`, `BillsHold` and `EntriesHold`, each from
  `AccountsInvariant`.  The cap alone is not inductive in the presence of
  the counters, nor are the counters alone: `Accounts` conjoins the cap, the three
  accounts and the fact that callers without a cache never reach its steps
  (`DirectPassesBy`).  Each action moves one caller from one set of steps to the next
  (`Moved`), and a store changes entries and evictions together (`StoreSize`).
* `AnswersHold`.  The strengthening is that an answer in flight answers its caller's
  request on the wire (`InFlightAnswers`, which holds for any hash), that an entry
  answers the wire form of every request with its job id (`EntriesAnswer`), and that a
  returned response does (`CallersAnswered`); only the last two need an injective hash.
* `PromiseKept`: `Spec => Promise!Spec` under the refinement mapping of
  `CachePromise`: each step is a step of `IdempotentChat` or a stutter.  It uses
  `TypeOK`, `Accounts` and `InFlightAnswers` as invariants, and needs no assumption on the
  hash or the clock.
* `AnswersRetained` and `RedialsAreJustified`, of `CacheHistory`: `HSpec /\ [][Forward]_hvars
  => []Retention`, and the same of `RedialJustified`.  `Forward` is `now' >= now`: with
  `SetClock` backwards both fail for a good reason, as what is stored later then looks older.
  The invariant is `HistoryInv`: no store of the log is in the future (`Recorded`), an entry
  has the instant of the last store of its job (`FromLog`), a job whose last store is not
  crowded out by `MaxSize` others at least as new is in the cache (`Retained`), and every
  call that has missed, or has stored since, had an excuse at its lookup (`Redialled`).
  `Retained` survives a `Store` because the entry it evicts is among the oldest of at
  least `MaxSize`, each of which is a store of its own.

**The manager** (`TenantManagerProofs`):

* `TenantTypeCorrect`, from `Typed`, which adds that the caches made
  are a sequence, so that making one leaves the handles already given out alone.
* `OneCacheHolds`.  The strengthening is `Fresh`: a goroutine
  between `Make` and `Join` holds a cache that is neither registered nor held by another
  goroutine between the two.  It is what `Join` relies on when it registers the cache.
  Steps that touch neither the registry nor anybody's cache are one lemma, `Elsewhere`.
* `CacheKeptHolds`: needs no invariant, as only `Join` writes the registry.
* `TenantsApart`: `Spec => TenantsIsolated`, that is, for every tenant, `Seen(t)!Init` and every step
  is one of `Seen(t)!Next` or unseen (fairness is no part of it): what a tenant sees of the
  manager is an `IdempotencyCache` with its own hash.  A step of
  `CachedChat` is that step of the cache; fetching the cache and all steps of other tenants
  are not seen (`FetchSeen`, `OthersSeen`).  The invariant is `VInv`: the one of
  `OneCacheHolds`, without which somebody else's step could change the cache, and that a cache
  not yet joined is still empty (`Untouched`), without which joining it would be seen, and
  that nobody who chats is at the end of a pilot (`Apart`).

**The cost tracker** (`CostTrackerProofs`):

* `CostTypeCorrect`: `TypeOK` is inductive; `AddType` says what `Add` does to the totals.
* `TotalsMatch` and `AlertFollows`, from `Balanced` of each day and backend: total plus
  pending is what was written since the start, in money and in tokens.  The steps that
  matter move an event from one sum to the other (`LineAdds`, `UpdateTakes`); all others
  leave both alone (`Untouched`).
* `AlertStaysUp`: totals never shrink but by a restart (`TotalsGrow`), and a restart that is
  not visible in `boot` follows one after which nothing was logged.

**The matrix** (`MatrixHarnessProofs`): `MatrixTypeCorrect`, `RowsMatch`, `BillsWanted`,
`TotalIsExplained` and `EveryoneReported`, all from `MatrixInv`: where the run is
(`Position`), that only those reached have charged, and the current one exactly for the
answers taken and the one on its way (`Charged`), and that the total is explained by the
*closed* rows at every step (`Explained`), of which `TotalExplained` is the instance
at the end.  Every way in which a row is closed is one lemma (`RowCloses`, `CloseExplains`,
`CloseMatches`).

**The agent suite** (`AgentSuiteProofs`), from `SuiteInv`: a goroutine exists only from the
start of its case on and its channel is empty until it returns (`Goroutines`), and a
result is either the loop guard's or made of the case's own channel (`OwnAnswers`).

* `SuiteTypeCorrect` and `PassEarned`.
* `TripsOnlyOnBudget`: the action property `TripsOnBudget`, if `CfgLoopguard # 0` or nobody
  enters by `RunIntegrationSuite`.  What the hypothesis leaves out is the one Config for
  which the run `agent_zero_config` finds the property violated.
* `RunsSafely`: `Spec => Run!Init /\ [][Run!Next]_...`, the safety part of `RunsAsSuite`:
  with its goroutines, its lock and its timeouts the suite takes no step `SuiteRun` does
  not.

**The commands** (`EvalCommandsProofs`), from `IInv`: how far a process is tells what it has
written (`Progress`), its event is that of all its cases (`Told`), `Account` is what
`Accountable` says of one process with the charges in order, and every tail in a file has
its head, as has every line half written (`Headed`, `Resumable`).  A step changes the
state of the process that takes it, and adds to a file only what that process has written
(`EachMoves`), so that the others keep their part (`OthersKept`).

* `CommandsTypeCorrect` and `RunsAccountable`.
* `LossIsBounded`: the lost lines inject into the pairs of a torn head and 1 or 2, as each
  is the torn line itself or the one glued to it (`FileLoss`).
* `PassMeansPassed` and `MetricsAreTold`: `PassMeansAllPassed` and `MetricsTellRun`, with one
  more invariant, `Carried`: every case of a suite and every result has metrics that are finite
  maps from names to fractions (`SuiteMeasures`); a suite with a case that may set no verdict
  has another that is sure to fail (`Sure`, by `SuiteSure` for each built-in suite and the
  demo); what a case has returned is one of its results, or a failure (`Returned`); and an
  event that is kept could be marshalled.  From there:
  * the verdicts partition the cases (`CountsAddUp`), and the cases without one are none or the
    suite has failed (`NoneOrFailed`), so it passes just if all have (`PassIsEarned`).  `Sure` is
    what this hangs on: it is a fact about the suites there are, not about `RunSuite`, which
    lets a suite of cases without a verdict pass;
  * the sum of a metric and the averages made one after another are folds, which have the
    expected recursion (`AddsExist`, `AveragesExist`).  In whatever order the averages are
    made, each is made once, no two have the same name, and it is made of the metric's sum,
    unless the one average with the sum's name has taken its place, before or after
    (`AggregateTells`);
  * if every value were greater than the mean, so would be their mean (`BeyondPlus` for one
    more summand, `AddsBeyond` for all, both ways at once), so one is no greater and one no
    smaller (`MeanBetween`).  This is where finiteness is needed: the comparison of fractions
    with a zero denominator means nothing.  A sum is finite only if all its summands are
    (`AddsType`), and `json.Marshal` has seen to it that the mean is.

  The theorem is about exact fractions; what float64 rounds is left out.

**Sums and loops** (`LoopProofs`).  Sums and filters are recursive functions in the models.
That there is such a function, that a sum does not depend on the order, what one more or one
changed summand does to it (`SumAdd`, `SumTake`, `SumSame`, `SumOfRest`), and what a filter
returns (`FilterType`) are proved from a least counterexample: strict inclusion is well
founded on the subsets of a finite set (`LeastSet`) and `<` on the numbers (`LeastNumber`).
That a fold over a set with any step, over any type, has a solution (`FoldExists`) is built up
by the size of the subsets, from one that does for all smaller ones.
Induction theorems of the library take an operator as a parameter, which the provers cannot
instantiate; a well-founded relation and a least element (`WFMin`) do without.

**Only model-checked**, and why: every liveness property (`CallReturns`, `SuiteEnds`,
`LockIsReached`, `CommandsEnd`, `MatrixEnds`, and the fairness in `RunsAsSuite`), as liveness
under fairness is outside what the prover supports.  Every invariant and every action property
that a passing run checks is a theorem, on the conditions named above.

## 5. Where the code and its comments disagree

* `cache_overwrite` — `Store` tests the cap before it knows whether the job is in the
  cache: overwriting in a full cache evicts another entry (`cache.go:116`, against
  `cache.go:111-112`).
* `agent_zero_config` — with the zero `Config`, `RunIntegrationSuite` gives cases one
  second in place of five (`integration.go:271`, against `:50-56`).
* `agent_cascade` — an agent that ignores its context holds the lock, and the case after
  it trips without its agent being called (`integration.go:170`, against `:54-55`).
* `demo_exit` — the demo exits zero when tasks fail (`demo.go:59`, against `:46-47`).
* `empty_verdict` — a case that sets no verdict is not counted as failed, nor as anything
  else (`eval.go:108`), against the name and the message of the test at
  `rubric_test.go:216-220` and "every Case returns Verdict ∈ {Pass, Warn, Fail}"
  (`rubric.go:10`, `:45`, `README.md:33`, `docs/PLAN.md:17`); the built-in case
  `explicit_nil_verdict_caught` (`rubric.go:382`) returns none.  The suite it is in does
  not pass, but because of two other cases; `PassMeansAllPassed` shows that this is so
  wherever the commands can meet such a case.

Seen while reading, without a run:

* `cmd/demo --provider X` alone runs the legacy pilot of MiniMax-M3, for any X, and logs
  nothing (`main.go:61`, against `:6` and `:43-44`).  `MatrixHarness` has this path
  (`Legacy`), and `EveryProviderReported` excepts it.
* `DailySummary` is in the order of the map (`llmcost.go:185`), not "sorted by Backend"
  (`:176-177`).
* The demo discards the verdict JSON (`demo.go:131`) that its help says it prints (`:44`).
* `AppendNDJSON` writes one line per result, not "one line per provider"
  (`harness.go:303`).
* The rubric "every Case emits at least one metric" (`rubric.go:8`) has a case that passes
  without one (`:167`); the one that retries "up to 3 times" (`:41`) does not retry.
* `agenteval` speaks of a freshness gate, but nothing outside of the tests calls
  `CheckCodeMapFreshness`.
* `report` prints the file and aggregates nothing (`main.go:101` against `:106-110`).
* `PilotRun` fetches the tenant's cache and does not use it, so repeated pilot calls do not
  hit it, as `tenant.go:133-136` says.
* `--api-key` of `cmd/demo` is for "the active provider" in its help (`main.go:50`), and is
  given to all of them; live mode is gated by `HELIXON_LIVE_EVAL=1` in the comment at
  `harness.go:9`, and by `--live` or that variable in the code (`main.go:57`).
  `BillsAreWanted` is about the gate and the keys the code has.
* `cache.go:5-7` reads as if the same call were never paid for twice; two callers that ask at
  the same time both dial.  `RedialJustified` says when that, or any second bill, can happen.

Three behaviours that no comment speaks of are in the models and worth knowing.  After a
restart the budget alert starts from nothing although the log holds the day's events
(`AlertFollowsLog` therefore speaks of the lines of this process).  A provider that
fails after some answers is reported with no cost and the error "wrong number of
tasks", although it has charged for them (`RowsMatchBills` says so of failed rows), while a
skipped one's assumed cost is part of a live total (`TotalExplained` says by how much).
The line after a torn one is lost to readers although its write succeeded, and no more
than that (`LossBounded`).

## 6. Not modelled

* HTTP, JSON and tables; `GetStats`, `Size`, `TenantIDs`, `DailySummary`, `report`, `list`,
  formatters: they read or print.
* `validateProductionModels`, `CheckCodeMapFreshness`, `CompatibleRubrics`: conditions on
  constants and on a file's age, without a caller that acts on them.
* `RenderMarkdown`, `P99Latency`, `NDJSONEntries`: printing; whether a latency gate is met
  is left open in both pilots.  `RoundTrip` and `WriteAll` have no caller.
* Panics of an agent's goroutine: they end the process, which `Kill` covers.  The panic of
  a rubric case is modelled.
* Two demos started in one second have the same run id (`demo.go:55`); run ids appear in
  no property.

## 7. Plan

Done, in this order: the cache with its abstract promise and proofs, the tenancy manager,
the cost tracker, the agent suite, the matrix; then the evaluation framework, the rubric
suites and the commands over them, the agent suite's refinement, and the flags of the
matrix; then the proofs of section 4 beyond the cache and the manager.

Next: the demo composed with `CostTracker`, so that its costs are the tracker's totals.
