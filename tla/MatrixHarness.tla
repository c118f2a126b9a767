---------------------------- MODULE MatrixHarness ----------------------------
(***************************************************************************)
(* cmd/demo over internal/demo: without arguments the legacy pilot; else   *)
(* the pilot's tasks run once per provider, live or priced only, one       *)
(* provider after the other and one call after the other; then the result  *)
(* is appended to a log and the back-compat pilot decides the exit code.   *)
(*                                                                         *)
(*   start -> next -> dial -> sent -> answered -> dial ... -> next         *)
(*               \-- dry or no key ----------------------------^           *)
(*                                                                         *)
(* Tasks differ in nothing but what their answers cost, so a task list is  *)
(* the sequence of its usages.  Prices are in units of $0.0004 per 1000    *)
(* tokens, costs in units of $0.0000004.                                   *)
(***************************************************************************)
EXTENDS Integers, Sequences, FiniteSetsExt, SequencesExt

CONSTANTS
    Names,       \* what --provider may be given
    PilotSize,   \* the pilot's number of tasks; bound: 7 in the code
    LiveUsages,  \* the usages a provider may report
    BudgetUSD    \* the cost gate of the pilots

AllProviders == <<"minimaxi", "qwen3.7-plus", "qwen3.7-max">>
Providers == ToSet(AllProviders)

\* The provider of a name, which is trimmed and in lower case; "" if unknown.
ParseProvider(name) ==
    CASE name \in {"", "minimaxi", "minimax", "minimax-m3"} -> "minimaxi"
      [] name \in {"qwen", "qwen-plus", "qwen3.7-plus"} -> "qwen3.7-plus"
      [] name \in {"qwen-max", "qwen3.7-max"} -> "qwen3.7-max"
      [] OTHER -> ""

\* The two Qwen models share a key.
EnvKey(p) == IF p = "minimaxi" THEN "MINIMAX_API_KEY" ELSE "QWEN_API_KEY"

Tokens(prompt, completion) == [prompt |-> prompt, completion |-> completion]

DefaultMiniMaxPricing == Tokens(2, 5)

PricingFor(p) ==
    CASE p = "minimaxi" -> Tokens(2, 5)
      [] p = "qwen3.7-plus" -> Tokens(3, 6)
      [] p = "qwen3.7-max" -> Tokens(5, 10)
      [] OTHER -> Tokens(0, 0)

DefaultPilotTasks ==
    SubSeq(<<Tokens(50, 25), Tokens(120, 80), Tokens(320, 180), Tokens(240, 120),
             Tokens(480, 260), Tokens(180, 90), Tokens(1200, 420)>>, 1, PilotSize)

Usage == [prompt : Nat, completion : Nat]

\* The default of --provider is one of its names.
ASSUME MatrixAssumption ==
    /\ "minimaxi" \in Names
    /\ PilotSize \in 1 .. 7
    /\ LiveUsages \subseteq Usage /\ LiveUsages # {}
    /\ BudgetUSD \in Nat

VARIABLES
    all,        \* --all-providers
    name,       \* --provider
    matrixOnly, \* --matrix
    plain,      \* neither --json nor --ndjson-out
    useLive,    \* --live or HELIXON_LIVE_EVAL=1
    keyFlag,    \* whether --api-key is given
    env,        \* the key variables that are set
    chosen,     \* the providers asked for, in order
    ctxDone,    \* whether the two minutes of the whole run are over
    step,
    answer,     \* the usage in the answer that is on its way
    liveTasks,  \* the measured tasks of the current provider
    rows,       \* MatrixResult.Rows
    total,      \* MatrixResult.TotalCost
    billed,     \* what each provider has really charged
    logged,     \* the rows of the appended result
    exit

inputs == <<all, name, matrixOnly, plain, useLive, keyFlag, env>>
result == <<rows, total>>
vars == <<inputs, chosen, ctxDone, step, answer, liveTasks, result, billed, logged, exit>>

Steps == {"start", "next", "dial", "sent", "answered", "append", "pilot", "end"}
Row == [provider : Providers, status : {"ok", "skipped", "fail"}, tasks : Nat,
        cost : Nat, error : {"", "key_unset", "chat", "wrong_count"}]

TypeOK ==
    /\ name \in Names
    /\ {all, matrixOnly, plain, useLive, keyFlag, ctxDone} \subseteq BOOLEAN
    /\ env \subseteq {EnvKey(p) : p \in Providers}
    /\ chosen \in {<<>>, AllProviders} \cup {<<p>> : p \in Providers}
    /\ step \in Steps
    /\ answer \in LiveUsages
    /\ liveTasks \in Seq(LiveUsages) /\ Len(liveTasks) < PilotSize
    /\ rows \in Seq(Row) /\ Len(rows) <= Len(chosen)
    /\ total \in Nat
    /\ billed \in [Providers -> Nat]
    /\ logged \in Seq(Row)
    /\ exit \in {"none", "zero", "non_zero"}

Init ==
    /\ all \in BOOLEAN
    /\ name \in IF all THEN {"minimaxi"} ELSE Names
    /\ matrixOnly \in BOOLEAN
    /\ plain \in BOOLEAN
    /\ useLive \in BOOLEAN
    /\ keyFlag \in BOOLEAN
    /\ env \in SUBSET {EnvKey(p) : p \in Providers}
    /\ chosen = <<>>
    /\ ctxDone = FALSE
    /\ step = "start"
    /\ answer = CHOOSE u \in LiveUsages : TRUE
    /\ liveTasks = <<>>
    /\ rows = <<>>
    /\ total = 0
    /\ billed = [p \in Providers |-> 0]
    /\ logged = <<>>
    /\ exit = "none"
-----------------------------------------------------------------------------
\* ResolveAPIKeysFor: the flag for every provider asked for, or its variable.
HasKey(p) == keyFlag \/ EnvKey(p) \in env

\* The price PilotDemo uses: its default when none is given.
Price(given) ==
    IF given.prompt <= 0 \/ given.completion <= 0 THEN DefaultMiniMaxPricing ELSE given

ComputeCost(u, pricing) == u.prompt * pricing.prompt + u.completion * pricing.completion

TotalCost(tasks, pricing) ==
    SumFunction([i \in DOMAIN tasks |-> ComputeCost(tasks[i], Price(pricing))])

\* Mutant: any number of tasks makes a bundle.
AnyNumberOK(tasks) == TRUE

\* PilotDemo refuses any number of tasks but the pilot's.
PilotDemoOK(tasks) == Len(tasks) = PilotSize

Filled(p, status, error, tasks) ==
    [provider |-> p, status |-> status, tasks |-> Len(tasks),
     cost |-> TotalCost(tasks, PricingFor(p)), error |-> error]

Failed(p, error) == Filled(p, "fail", error, <<>>)

\* What runOneProvider makes of the tasks that were answered: after a failed
\* call with answers before it, PilotDemo is asked to bundle too few of them,
\* and its error replaces the call's.
LiveRow(p, tasks) ==
    IF tasks = <<>> THEN Failed(p, "chat")
    ELSE IF PilotDemoOK(tasks) THEN Filled(p, "ok", "", tasks)
    ELSE Failed(p, "wrong_count")

Provider == chosen[Len(rows) + 1]

\* Mutant: the first provider that fails ends the matrix.
StopAtFailure(row) ==
    /\ rows' = Append(rows, row)
    /\ liveTasks' = <<>>
    /\ step' = IF row.status = "fail" \/ Len(rows') = Len(chosen) THEN "append" ELSE "next"
    /\ total' = total + row.cost
    /\ UNCHANGED <<answer, billed>>

\* Mutant: a skipped provider is kept out of the total.
FinishTotalsOnlyOK(row) ==
    /\ rows' = Append(rows, row)
    /\ total' = IF row.status = "ok" THEN total + row.cost ELSE total
    /\ liveTasks' = <<>>
    /\ step' = IF Len(rows') = Len(chosen) THEN "append" ELSE "next"
    /\ UNCHANGED <<answer, billed>>

Finish(row) ==
    /\ rows' = Append(rows, row)
    /\ total' = total + row.cost
    /\ liveTasks' = <<>>
    /\ step' = IF Len(rows') = Len(chosen) THEN "append" ELSE "next"
    /\ UNCHANGED <<answer, billed>>

\* Gates; whether the latency budgets given on the command line are met is left
\* open.
Gates(pricing, withinTime) ==
    withinTime /\ TotalCost(DefaultPilotTasks, pricing) <= BudgetUSD

EndBy(gates) ==
    /\ step' = "end"
    /\ exit' = IF gates THEN "zero" ELSE "non_zero"

\* Without an argument that asks for more; which provider is named is not
\* looked at.
Legacy == ~all /\ ~matrixOnly /\ name # "" /\ ~useLive /\ plain /\ ~keyFlag

runLegacyPilot ==
    /\ step = "start"
    /\ Legacy
    /\ \E withinTime \in BOOLEAN : EndBy(Gates(DefaultMiniMaxPricing, withinTime))
    /\ UNCHANGED <<inputs, chosen, ctxDone, answer, liveTasks, result, billed, logged>>

\* runMatrix down to the call of RunMatrix.
StartMatrix ==
    /\ step = "start"
    /\ ~Legacy
    /\ \/ /\ all \/ ParseProvider(name) # ""
          /\ chosen' = IF all THEN AllProviders ELSE <<ParseProvider(name)>>
          /\ step' = "next"
          /\ UNCHANGED exit
       \/ /\ ~all /\ ParseProvider(name) = ""
          /\ EndBy(FALSE)
          /\ UNCHANGED chosen
    /\ UNCHANGED <<inputs, ctxDone, answer, liveTasks, result, billed, logged>>

\* A provider that is only priced: a dry run, or a live one without a key.
PriceOnly ==
    /\ step = "next"
    /\ ~useLive \/ ~HasKey(Provider)
    /\ Finish(IF useLive THEN Filled(Provider, "skipped", "key_unset", DefaultPilotTasks)
                         ELSE Filled(Provider, "ok", "", DefaultPilotTasks))
    /\ UNCHANGED <<inputs, chosen, ctxDone, logged, exit>>

\* Mutant: a key is taken for a wish to use it.
GoLiveUnasked ==
    /\ step = "next"
    /\ HasKey(Provider)
    /\ step' = "dial"
    /\ UNCHANGED <<inputs, chosen, ctxDone, answer, liveTasks, result, billed, logged, exit>>

\* A live provider with a key.
GoLive ==
    /\ step = "next"
    /\ useLive /\ HasKey(Provider)
    /\ step' = "dial"
    /\ UNCHANGED <<inputs, chosen, ctxDone, answer, liveTasks, result, billed, logged, exit>>

\* Chat sends the next task's request, unless the run's time is over already.
Send ==
    /\ step = "dial"
    /\ ~ctxDone
    /\ step' = "sent"
    /\ UNCHANGED <<inputs, chosen, ctxDone, answer, liveTasks, result, billed, logged, exit>>

\* The provider completes the request and charges for it.
Charge(u) ==
    /\ step = "sent"
    /\ answer' = u
    /\ billed' = [billed EXCEPT ![Provider] = @ + ComputeCost(u, PricingFor(Provider))]
    /\ step' = "answered"
    /\ UNCHANGED <<inputs, chosen, ctxDone, liveTasks, result, logged, exit>>

\* Mutant: one task too many.
TakeOneMore ==
    /\ step = "answered"
    /\ liveTasks' = Append(liveTasks, answer)
    /\ step' = "dial"
    /\ UNCHANGED <<inputs, chosen, ctxDone, answer, result, billed, logged, exit>>

\* Chat returns the answer; the last one completes the row.
TakeAnswer ==
    /\ step = "answered"
    /\ LET tasks == Append(liveTasks, answer) IN
       \/ /\ Len(tasks) < PilotSize
          /\ liveTasks' = tasks
          /\ step' = "dial"
          /\ UNCHANGED <<answer, result, billed>>
       \/ /\ Len(tasks) = PilotSize
          /\ Finish(LiveRow(Provider, tasks))
    /\ UNCHANGED <<inputs, chosen, ctxDone, logged, exit>>

\* Mutant: no timeout on an answer that does not come.
ChatFailsWithoutTimeout ==
    /\ step \in {"dial", "answered"}
    /\ Finish(LiveRow(Provider, liveTasks))
    /\ UNCHANGED <<inputs, chosen, ctxDone, logged, exit>>

\* Chat returns an error: the request is not sent, is refused, takes longer
\* than 30 s or than what is left of the run, or its answer is lost.
ChatFails ==
    /\ step \in {"dial", "sent", "answered"}
    /\ Finish(LiveRow(Provider, liveTasks))
    /\ UNCHANGED <<inputs, chosen, ctxDone, logged, exit>>

TimeOver ==
    /\ ~ctxDone
    /\ ctxDone' = TRUE
    /\ UNCHANGED <<inputs, chosen, step, answer, liveTasks, result, billed, logged, exit>>

\* AppendNDJSON writes the whole result as one line, or the command fails.
AppendNDJSON ==
    /\ step = "append"
    /\ \/ /\ logged' = rows
          /\ step' = "pilot"
          /\ UNCHANGED exit
       \/ /\ step' = "end"
          /\ exit' = "non_zero"
          /\ UNCHANGED logged
    /\ UNCHANGED <<inputs, chosen, ctxDone, answer, liveTasks, result, billed>>

\* --matrix ends the run here; else the gates decide, for the first provider's
\* assumed tasks.  What became of the live rows is not looked at.
BackCompatPilot ==
    /\ step = "pilot"
    /\ \E withinTime \in BOOLEAN :
          EndBy(matrixOnly \/ Gates(PricingFor(chosen[1]), withinTime))
    /\ UNCHANGED <<inputs, chosen, ctxDone, answer, liveTasks, result, billed, logged>>

Ended == step = "end" /\ UNCHANGED vars

\* What the program does by itself; ChatFails stands for its timeouts.
Advance ==
    \/ runLegacyPilot \/ StartMatrix \/ PriceOnly \/ GoLive \/ Send \/ TakeAnswer \/ ChatFails
    \/ AppendNDJSON \/ BackCompatPilot

Next == Advance \/ (\E u \in LiveUsages : Charge(u)) \/ TimeOver \/ Ended

Spec == Init /\ [][Next]_vars

\* Every call has a timeout, so the program always has a step to take; nothing
\* is assumed of the providers.
FairSpec == Spec /\ WF_vars(Advance)
-----------------------------------------------------------------------------
\* What a row says of a live run is what the provider charged: an ok row has
\* every task and the whole bill, a skipped provider charged nothing, and a
\* failed one shows no task and no cost, never a part of a bill.
RowsMatchBills ==
    useLive =>
        \A i \in DOMAIN rows :
            LET r == rows[i] IN
            /\ r.status = "ok" => r.tasks = PilotSize /\ r.cost = billed[r.provider]
            /\ r.status = "skipped" => billed[r.provider] = 0
            /\ r.status = "fail" => r.tasks = 0 /\ r.cost = 0

\* harness.go:9: nothing is charged unless live mode was asked for, the provider
\* was asked for, and a key was given for it; and no provider is dialled for
\* once its row is closed, or ahead of its turn.
BillsAreWanted ==
    \A p \in Providers :
        billed[p] > 0 =>
            /\ useLive /\ HasKey(p)
            /\ p \in ToSet(SubSeq(chosen, 1,
                              IF step \in {"sent", "answered", "dial"}
                              THEN Len(rows) + 1 ELSE Len(rows)))

\* The providers whose row has a status; what providers charged, and what
\* their tasks were assumed to cost.
With(status) ==
    {p \in Providers :
        \E i \in DOMAIN rows : rows[i].provider = p /\ rows[i].status = status}
Bills(ps) == SumFunction([p \in ps |-> billed[p]])
Assumed(ps) == SumFunction([p \in ps |-> TotalCost(DefaultPilotTasks, PricingFor(p))])

\* MatrixResult.TotalCost against the bills of a live run: the two differ by
\* what skipped providers were assumed to cost and by what failed ones charged
\* before they failed, and by nothing else.
TotalExplained ==
    useLive /\ step \in {"append", "pilot"} =>
        total + Bills(With("fail")) = Assumed(With("skipped")) + Bills(Providers)

\* A provider that fails does not take the others down: a logged result has a
\* row for each provider asked for, in that order, and a zero exit of a matrix
\* has one.
EveryProviderReported ==
    /\ logged # <<>> =>
          [i \in DOMAIN logged |-> logged[i].provider]
              = IF all THEN AllProviders ELSE <<ParseProvider(name)>>
    /\ exit = "zero" => logged # <<>> \/ Legacy

\* The command comes to an end by itself, whatever the providers do.
MatrixEnds == <>(step = "end")
=============================================================================
