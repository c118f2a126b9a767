------------------------- MODULE MatrixHarnessProofs -------------------------
(***************************************************************************)
(* What TLAPS proves of MatrixHarness, for any names, usages and budget:   *)
(* what the rows and the total of a matrix say against what the providers  *)
(* charged.                                                                *)
(***************************************************************************)
EXTENDS MatrixHarness, LoopProofs

\* The providers asked for.
Asked == IF all THEN AllProviders ELSE <<ParseProvider(name)>>

Calling == step \in {"dial", "sent", "answered"}
InMatrix == Calling \/ step = "next"
-----------------------------------------------------------------------------
(* Data. *)

LEMMA ProvidersAre ==
    /\ Providers = {"minimaxi", "qwen3.7-plus", "qwen3.7-max"}
    /\ AllProviders \in Seq(Providers) /\ Len(AllProviders) = 3
    /\ IsFiniteSet(Providers)
<1>1. Providers = {"minimaxi", "qwen3.7-plus", "qwen3.7-max"}
  BY DEF Providers, AllProviders, ToSet
<1>2. AllProviders \in Seq(Providers) /\ Len(AllProviders) = 3
  BY <1>1 DEF AllProviders
<1>3. IsFiniteSet({"minimaxi", "qwen3.7-plus", "qwen3.7-max"})
  <2>1. IsFiniteSet({"minimaxi"} \cup {"qwen3.7-plus"})
    BY FS_Singleton, FS_AddElement
  <2>2. IsFiniteSet(({"minimaxi"} \cup {"qwen3.7-plus"}) \cup {"qwen3.7-max"})
    BY <2>1, FS_AddElement
  <2>3. ({"minimaxi"} \cup {"qwen3.7-plus"}) \cup {"qwen3.7-max"}
            = {"minimaxi", "qwen3.7-plus", "qwen3.7-max"}
    OBVIOUS
  <2> QED  BY <2>2, <2>3
<1> QED  BY <1>1, <1>2, <1>3

\* A list of providers names none twice.
LEMMA ChosenType ==
    ASSUME TypeOK
    PROVE  /\ chosen \in Seq(Providers) /\ Len(chosen) \in Nat
           /\ DOMAIN chosen = 1 .. Len(chosen)
           /\ \A i, j \in 1 .. Len(chosen) : chosen[i] = chosen[j] => i = j
<1>1. CASE chosen = <<>>
  BY <1>1
<1>2. CASE chosen = AllProviders
  <2>1. \A i, j \in 1 .. 3 : AllProviders[i] = AllProviders[j] => i = j
    <3>1. \A i \in 1 .. 3 : i = 1 \/ i = 2 \/ i = 3
      OBVIOUS
    <3>2. /\ AllProviders[1] = "minimaxi" /\ AllProviders[2] = "qwen3.7-plus"
          /\ AllProviders[3] = "qwen3.7-max"
      BY DEF AllProviders
    <3> QED  BY <3>1, <3>2
  <2>2. DOMAIN AllProviders = 1 .. 3
    BY ProvidersAre, LenProperties
  <2> QED  BY <1>2, <2>1, <2>2, ProvidersAre
<1>3. CASE chosen \in {<<p>> : p \in Providers}
  <2>1. PICK p \in Providers : chosen = <<p>>
    BY <1>3
  <2>2. chosen \in Seq(Providers) /\ Len(chosen) = 1
    BY <2>1
  <2> QED  BY <2>2, LenProperties
<1>4. chosen = <<>> \/ chosen = AllProviders \/ chosen \in {<<p>> : p \in Providers}
  BY DEF TypeOK
<1> QED  BY <1>1, <1>2, <1>3, <1>4

LEMMA CostType ==
    ASSUME NEW p \in Providers, NEW u \in Usage
    PROVE  /\ Price(PricingFor(p)) = PricingFor(p)
           /\ ComputeCost(u, PricingFor(p)) \in Nat
<1>1. PricingFor(p) \in {Tokens(2, 5), Tokens(3, 6), Tokens(5, 10)}
  BY ProvidersAre, Zenon DEF PricingFor
<1> QED  BY <1>1 DEF Price, Tokens, ComputeCost, Usage

\* The cost of no task, and of one more.
LEMMA CostOfTasks ==
    ASSUME NEW p \in Providers, NEW tasks \in Seq(Usage)
    PROVE  /\ TotalCost(tasks, PricingFor(p)) \in Nat
           /\ tasks = <<>> => TotalCost(tasks, PricingFor(p)) = 0
           /\ \A u \in Usage :
                 TotalCost(Append(tasks, u), PricingFor(p)) =
                    TotalCost(tasks, PricingFor(p)) + ComputeCost(u, PricingFor(p))
<1> DEFINE cost(s) == [i \in DOMAIN s |-> ComputeCost(s[i], Price(PricingFor(p)))]
<1>1. ASSUME NEW s \in Seq(Usage)
      PROVE  /\ IsFiniteSet(DOMAIN cost(s)) /\ DOMAIN cost(s) = 1 .. Len(s)
             /\ \A i \in 1 .. Len(s) : cost(s)[i] \in Nat
  <2>1. DOMAIN s = 1 .. Len(s) /\ Len(s) \in Nat
    BY LenProperties
  <2>2. \A i \in 1 .. Len(s) : s[i] \in Usage
    BY ElementOfSeq
  <2> QED  BY <2>1, <2>2, CostType, FS_Interval
<1>2. TotalCost(tasks, PricingFor(p)) \in Nat
  BY <1>1, TotalType DEF TotalCost
<1>3. ASSUME tasks = <<>> PROVE TotalCost(tasks, PricingFor(p)) = 0
  <2>1. DOMAIN cost(tasks) = {}
    BY <1>3
  <2> QED  BY <2>1, TotalEmpty DEF TotalCost
<1>4. ASSUME NEW u \in Usage
      PROVE  TotalCost(Append(tasks, u), PricingFor(p)) =
                 TotalCost(tasks, PricingFor(p)) + ComputeCost(u, PricingFor(p))
  <2> DEFINE more == Append(tasks, u)
             n == Len(tasks) + 1
             v == cost(tasks)
             w == cost(more)
  <2>1. /\ more \in Seq(Usage) /\ Len(more) = n /\ more[n] = u /\ Len(tasks) \in Nat
        /\ \A i \in 1 .. Len(tasks) : more[i] = tasks[i]
    BY AppendProperties, LenProperties
  <2>2. /\ DOMAIN v = 1 .. Len(tasks) /\ DOMAIN w = 1 .. n
        /\ IsFiniteSet(DOMAIN v)
        /\ \A i \in DOMAIN w : w[i] \in Nat
    <3> HIDE DEF cost
    <3> QED  BY <1>1, <2>1
  <2>3. DOMAIN tasks = 1 .. Len(tasks) /\ DOMAIN more = 1 .. n
    BY <2>1, LenProperties
  <2>4. \A i \in DOMAIN v : v[i] = w[i]
    BY <2>1, <2>2, <2>3
  <2>5. w[n] = ComputeCost(u, PricingFor(p))
    BY <2>1, <2>3, CostType
  <2>6. n \notin DOMAIN v /\ DOMAIN w = DOMAIN v \cup {n}
    BY <2>1, <2>2
  <2> HIDE DEF v, w, n
  <2>7. SumFunction(w) = SumFunction(v) + w[n]
    BY <2>2, <2>4, <2>6, TotalAdd
  <2> QED  BY <2>5, <2>7 DEF TotalCost, v, w, cost, more
<1> QED  BY <1>2, <1>3, <1>4

LEMMA PilotTasksType ==
    DefaultPilotTasks \in Seq(Usage) /\ Len(DefaultPilotTasks) = PilotSize
<1> DEFINE seven == <<Tokens(50, 25), Tokens(120, 80), Tokens(320, 180),
                      Tokens(240, 120), Tokens(480, 260), Tokens(180, 90),
                      Tokens(1200, 420)>>
<1>1. seven \in Seq(Usage) /\ Len(seven) = 7
  BY DEF Tokens, Usage
<1>2. PilotSize \in 1 .. 7
  BY MatrixAssumption
<1> HIDE DEF seven
<1>3. SubSeq(seven, 1, PilotSize) \in Seq(Usage) /\ Len(SubSeq(seven, 1, PilotSize)) = PilotSize
  <2>1. 1 \in 1 .. Len(seven) + 1 /\ PilotSize \in 1 - 1 .. Len(seven)
    BY <1>1, <1>2
  <2>2. /\ SubSeq(seven, 1, PilotSize) \in Seq(Usage)
        /\ Len(SubSeq(seven, 1, PilotSize))
              = IF 1 <= PilotSize THEN PilotSize - 1 + 1 ELSE 0
    <3>1. \A i \in 1 .. PilotSize : seven[i] \in Usage
      <4>1. \A i \in 1 .. PilotSize : i \in 1 .. Len(seven)
        BY <1>1, <1>2
      <4> QED  BY <1>1, <4>1, ElementOfSeq
    <3> QED  BY <1>2, <3>1, SubSeqProperties
  <2> QED  BY <1>2, <2>2
<1> QED  BY <1>3 DEF DefaultPilotTasks, seven

\* The rows there are.
LEMMA FilledType ==
    ASSUME NEW p \in Providers, NEW tasks \in Seq(Usage),
           NEW status \in {"ok", "skipped", "fail"},
           NEW error \in {"", "key_unset", "chat", "wrong_count"}
    PROVE  Filled(p, status, error, tasks) \in Row
<1>1. TotalCost(tasks, PricingFor(p)) \in Nat /\ Len(tasks) \in Nat
  BY CostOfTasks, LenProperties
<1> QED  BY <1>1 DEF Filled, Row

LEMMA FailedType ==
    ASSUME NEW p \in Providers, NEW error \in {"", "key_unset", "chat", "wrong_count"}
    PROVE  /\ Failed(p, error) \in Row
           /\ Failed(p, error).provider = p /\ Failed(p, error).status = "fail"
           /\ Failed(p, error).tasks = 0 /\ Failed(p, error).cost = 0
<1>1. <<>> \in Seq(Usage) /\ Len(<<>>) = 0
  BY EmptySeq
<1>2. "fail" \in {"ok", "skipped", "fail"}
  OBVIOUS
<1>3. Filled(p, "fail", error, <<>>) \in Row
  BY <1>1, <1>2, FilledType
<1>4. TotalCost(<<>>, PricingFor(p)) = 0
  BY <1>1, CostOfTasks
<1> QED  BY <1>1, <1>3, <1>4 DEF Failed, Filled

-----------------------------------------------------------------------------
(* The inductive invariant: where the run is, what has been charged by then, *)
(* and what the closed rows and the total say of it.                         *)

\* The providers whose row is closed, and the length of the list of those that
\* may have been dialled.
Done == {p \in Providers : \E i \in DOMAIN rows : rows[i].provider = p}
Reached == IF Calling THEN Len(rows) + 1 ELSE Len(rows)

Position ==
    /\ step = "start" => chosen = <<>> /\ rows = <<>> /\ total = 0
    /\ step \notin {"start", "end"} => chosen = Asked /\ chosen # <<>>
    /\ InMatrix => Len(rows) < Len(chosen)
    /\ step \in {"append", "pilot"} => Len(rows) = Len(chosen)
    /\ step \notin {"pilot", "end"} => logged = <<>>
    /\ step = "pilot" => logged = rows
    /\ logged # <<>> => chosen = Asked /\ logged = rows /\ Len(rows) = Len(chosen)
    /\ step # "end" => exit = "none"
    /\ exit = "zero" => logged # <<>> \/ Legacy
    /\ \A i \in DOMAIN rows : rows[i].provider = chosen[i]

Charged ==
    /\ \A p \in Providers :
          billed[p] > 0 => useLive /\ HasKey(p) /\ \E i \in 1 .. Reached : chosen[i] = p
    /\ Calling => useLive /\ HasKey(Provider)
    /\ step \in {"start", "next"} => liveTasks = <<>>
    /\ step \in {"dial", "sent"} =>
          billed[Provider] = TotalCost(liveTasks, PricingFor(Provider))
    /\ step = "answered" =>
          billed[Provider] = TotalCost(liveTasks, PricingFor(Provider))
                                + ComputeCost(answer, PricingFor(Provider))

Explained ==
    useLive => total + Bills(With("fail")) = Assumed(With("skipped")) + Bills(Done)

\* The row the current provider is closed with, in a live run.
Closes(row) ==
    /\ row \in Row
    /\ row.provider = Provider
    /\ useLive =>
          /\ row.status = "ok" => row.tasks = PilotSize /\ row.cost = billed[Provider]
          /\ row.status = "skipped" =>
                /\ billed[Provider] = 0
                /\ row.cost = TotalCost(DefaultPilotTasks, PricingFor(Provider))
          /\ row.status = "fail" => row.tasks = 0 /\ row.cost = 0

CloseRow(row) ==
    /\ InMatrix
    /\ Closes(row)
    /\ Finish(row)
    /\ UNCHANGED <<inputs, chosen, ctxDone, logged, exit>>

TakeMore ==
    /\ step = "answered"
    /\ Len(liveTasks) + 1 < PilotSize
    /\ liveTasks' = Append(liveTasks, answer)
    /\ step' = "dial"
    /\ UNCHANGED <<inputs, chosen, ctxDone, answer, result, billed, logged, exit>>
-----------------------------------------------------------------------------
LEMMA TasksType ==
    ASSUME TypeOK
    PROVE  /\ liveTasks \in Seq(Usage) /\ Len(liveTasks) \in Nat /\ answer \in Usage
           /\ Append(liveTasks, answer) \in Seq(Usage)
           /\ Len(Append(liveTasks, answer)) = Len(liveTasks) + 1
<1>1. liveTasks \in Seq(Usage) /\ answer \in Usage
  BY MatrixAssumption, SeqMonotonic DEF TypeOK
<1> QED  BY <1>1, LenProperties, AppendProperties

LEMMA RowsType ==
    ASSUME TypeOK
    PROVE  /\ rows \in Seq(Row) /\ Len(rows) \in Nat /\ DOMAIN rows = 1 .. Len(rows)
           /\ \A i \in 1 .. Len(rows) : rows[i] \in Row
<1>1. rows \in Seq(Row)
  BY DEF TypeOK
<1> QED  BY <1>1, LenProperties, ElementOfSeq

\* The provider whose turn it is has no row yet.
LEMMA NextProvider ==
    ASSUME TypeOK, Position, InMatrix
    PROVE  /\ Len(rows) + 1 \in 1 .. Len(chosen)
           /\ Provider \in Providers
           /\ \A i \in 1 .. Len(rows) : chosen[i] # Provider
           /\ \A i \in 1 .. Len(rows) : rows[i].provider # Provider
<1>1. Len(rows) \in Nat /\ Len(chosen) \in Nat /\ Len(rows) < Len(chosen)
  BY RowsType, ChosenType DEF Position
<1>2. Len(rows) + 1 \in 1 .. Len(chosen)
  BY <1>1
<1>3. Provider \in Providers
  BY <1>2, ChosenType, ElementOfSeq DEF Provider
<1>4. \A i \in 1 .. Len(rows) : i \in 1 .. Len(chosen) /\ i # Len(rows) + 1
  BY <1>1
<1>5. \A i \in 1 .. Len(rows) : chosen[i] # Provider
  BY <1>2, <1>4, ChosenType DEF Provider
<1>6. \A i \in 1 .. Len(rows) : rows[i].provider = chosen[i]
  BY RowsType DEF Position
<1> QED  BY <1>2, <1>3, <1>5, <1>6

\* Nothing has been charged by the provider whose turn it is before it is
\* dialled.
LEMMA NothingYet ==
    ASSUME TypeOK, Position, Charged, step = "next"
    PROVE  billed[Provider] = 0
<1>1. billed[Provider] \in Nat
  BY NextProvider DEF TypeOK, InMatrix
<1>2. Reached = Len(rows)
  BY DEF Reached, Calling
<1>3. ~(billed[Provider] > 0)
  BY <1>2, NextProvider DEF Charged, InMatrix
<1> QED  BY <1>1, <1>3

\* Only TakeAnswer may go on with the same provider; it and the others close
\* its row, with what it charged if every task was answered.
LEMMA RowCloses ==
    ASSUME TypeOK, Position, Charged, PriceOnly \/ TakeAnswer \/ ChatFails
    PROVE  TakeMore \/ \E row \in Row : CloseRow(row)
<1>0. InMatrix /\ Provider \in Providers
  BY NextProvider DEF PriceOnly, TakeAnswer, ChatFails, InMatrix, Calling
<1>1. CASE PriceOnly
  <2>1. billed[Provider] = 0
    BY <1>1, NothingYet DEF PriceOnly
  <2>2. CASE useLive
    <3> DEFINE row == Filled(Provider, "skipped", "key_unset", DefaultPilotTasks)
    <3>1. row \in Row
      BY <1>0, PilotTasksType, FilledType
    <3>2. Closes(row)
      BY <2>1, <3>1 DEF Closes, Filled
    <3>3. Finish(row) /\ UNCHANGED <<inputs, chosen, ctxDone, logged, exit>>
      BY <1>1, <2>2 DEF PriceOnly
    <3> QED  BY <1>0, <3>1, <3>2, <3>3 DEF CloseRow
  <2>3. CASE ~useLive
    <3> DEFINE row == Filled(Provider, "ok", "", DefaultPilotTasks)
    <3>1. row \in Row
      BY <1>0, PilotTasksType, FilledType
    <3>2. Closes(row)
      BY <2>3, <3>1 DEF Closes, Filled
    <3>3. Finish(row) /\ UNCHANGED <<inputs, chosen, ctxDone, logged, exit>>
      BY <1>1, <2>3 DEF PriceOnly
    <3> QED  BY <1>0, <3>1, <3>2, <3>3 DEF CloseRow
  <2> QED  BY <2>2, <2>3
<1>2. CASE ChatFails
  <2>1. Len(liveTasks) < PilotSize /\ Len(liveTasks) \in Nat /\ PilotSize \in Nat
    BY TasksType, MatrixAssumption DEF TypeOK
  <2>2. LiveRow(Provider, liveTasks) \in
            {Failed(Provider, "chat"), Failed(Provider, "wrong_count")}
    <3>1. ~PilotDemoOK(liveTasks)
      BY <2>1 DEF PilotDemoOK
    <3>2. \/ LiveRow(Provider, liveTasks) = Failed(Provider, "chat")
          \/ LiveRow(Provider, liveTasks) = Failed(Provider, "wrong_count")
      BY <3>1, Zenon DEF LiveRow
    <3> QED  BY <3>2, Zenon
  <2>3. Closes(LiveRow(Provider, liveTasks))
    BY <1>0, <2>2, FailedType DEF Closes
  <2> QED  BY <1>0, <1>2, <2>3 DEF CloseRow, Closes, ChatFails
<1>3. CASE TakeAnswer
  <2> DEFINE tasks == Append(liveTasks, answer)
  <2>0. tasks \in Seq(Usage) /\ Len(tasks) = Len(liveTasks) + 1 /\ PilotSize > 0
    BY TasksType, MatrixAssumption
  <2>1. CASE Len(tasks) < PilotSize
    <3>1. step = "answered" /\ UNCHANGED <<inputs, chosen, ctxDone, logged, exit>>
      BY <1>3 DEF TakeAnswer
    <3>2. liveTasks' = tasks /\ step' = "dial" /\ UNCHANGED <<answer, result, billed>>
      BY <1>3, <2>1, MatrixAssumption DEF TakeAnswer
    <3> QED  BY <2>0, <2>1, <3>1, <3>2 DEF TakeMore
  <2>2. CASE Len(tasks) = PilotSize
    <3>1. tasks # <<>>
      BY <2>0, <2>2
    <3>2. LiveRow(Provider, tasks) = Filled(Provider, "ok", "", tasks)
      BY <2>2, <3>1 DEF LiveRow, PilotDemoOK
    <3>3. billed[Provider] = TotalCost(tasks, PricingFor(Provider))
      <4>1. billed[Provider] = TotalCost(liveTasks, PricingFor(Provider))
                                + ComputeCost(answer, PricingFor(Provider))
        BY <1>3 DEF Charged, TakeAnswer
      <4> QED  BY <1>0, <4>1, TasksType, CostOfTasks
    <3>4. Filled(Provider, "ok", "", tasks) \in Row
      BY <1>0, <2>0, FilledType
    <3>5. Closes(Filled(Provider, "ok", "", tasks))
      BY <2>2, <3>3, <3>4 DEF Closes, Filled
    <3>6. /\ Finish(LiveRow(Provider, tasks))
          /\ UNCHANGED <<inputs, chosen, ctxDone, logged, exit>>
      BY <1>3, <2>2, MatrixAssumption DEF TakeAnswer
    <3> QED  BY <1>0, <3>2, <3>4, <3>5, <3>6 DEF CloseRow
  <2>3. Len(tasks) < PilotSize \/ Len(tasks) = PilotSize
    BY <1>3 DEF TakeAnswer
  <2> QED  BY <2>1, <2>2, <2>3
<1> QED  BY <1>1, <1>2, <1>3

-----------------------------------------------------------------------------
(* Types. *)

LEMMA InitType == Init => TypeOK
<1> SUFFICES ASSUME Init PROVE TypeOK
  OBVIOUS
<1>1. liveTasks \in Seq(LiveUsages) /\ Len(liveTasks) < PilotSize
  BY EmptySeq, MatrixAssumption DEF Init
<1>2. rows \in Seq(Row) /\ Len(rows) <= Len(chosen) /\ logged \in Seq(Row)
  BY EmptySeq DEF Init
<1>3. answer \in LiveUsages
  BY MatrixAssumption DEF Init
<1>4. name \in Names
  BY MatrixAssumption DEF Init
<1> QED  BY <1>1, <1>2, <1>3, <1>4 DEF Init, TypeOK, Steps

LEMMA CloseRowType ==
    ASSUME TypeOK, Position, NEW row \in Row, CloseRow(row)
    PROVE  /\ TypeOK'
           /\ rows' \in Seq(Row) /\ Len(rows') = Len(rows) + 1
           /\ rows'[Len(rows) + 1] = row
           /\ \A i \in 1 .. Len(rows) : rows'[i] = rows[i]
<1>1. /\ rows' \in Seq(Row) /\ Len(rows') = Len(rows) + 1
      /\ rows'[Len(rows) + 1] = row
      /\ \A i \in 1 .. Len(rows) : rows'[i] = rows[i]
  BY RowsType, AppendProperties DEF CloseRow, Finish
<1>2. Len(rows') <= Len(chosen)
  <2>1. Len(rows) + 1 \in 1 .. Len(chosen)
    BY NextProvider DEF CloseRow
  <2> QED  BY <1>1, <2>1, ChosenType
<1>3. total' \in Nat
  <2>1. row.cost \in Nat /\ total \in Nat
    BY DEF Row, TypeOK
  <2> QED  BY <2>1 DEF CloseRow, Finish
<1>4. step' \in Steps
  BY DEF CloseRow, Finish, Steps
<1>5. liveTasks' \in Seq(LiveUsages) /\ Len(liveTasks') < PilotSize
  BY EmptySeq, MatrixAssumption DEF CloseRow, Finish
<1>6. UNCHANGED <<inputs, chosen, ctxDone, answer, billed, logged, exit>>
  BY DEF CloseRow, Finish
<1>7. TypeOK'
  BY <1>1, <1>2, <1>3, <1>4, <1>5, <1>6 DEF TypeOK, inputs
<1> QED  BY <1>1, <1>7

LEMMA ParsedProvider == ParseProvider(name) \in Providers \cup {""}
  BY ProvidersAre, Zenon DEF ParseProvider

LEMMA StepType ==
    ASSUME TypeOK, Position, Charged, [Next]_vars
    PROVE  TypeOK'
<1> USE DEF EndBy
<1>1. CASE PriceOnly \/ TakeAnswer \/ ChatFails
  <2>1. CASE TakeMore
    <3>1. liveTasks' \in Seq(LiveUsages) /\ Len(liveTasks') < PilotSize
      BY <2>1, TasksType, AppendProperties DEF TakeMore, TypeOK
    <3>2. step' = "dial"
          /\ UNCHANGED <<inputs, chosen, ctxDone, answer, result, billed, logged, exit>>
      BY <2>1 DEF TakeMore
    <3> QED  BY <3>1, <3>2 DEF TypeOK, inputs, result, Steps
  <2> QED  BY <1>1, <2>1, RowCloses, CloseRowType
<1>2. CASE runLegacyPilot
  <2>1. /\ step' = "end" /\ exit' \in {"zero", "non_zero"}
        /\ UNCHANGED <<inputs, chosen, ctxDone, answer, liveTasks, result, billed, logged>>
    BY <1>2 DEF runLegacyPilot
  <2> QED  BY <2>1 DEF TypeOK, inputs, result, Steps
<1>3. CASE StartMatrix
  <2>1. chosen' \in {<<>>, AllProviders} \cup {<<p>> : p \in Providers}
    BY <1>3, ParsedProvider DEF StartMatrix, TypeOK
  <2>2. /\ step' \in {"next", "end"} /\ exit' \in {exit, "non_zero"}
        /\ UNCHANGED <<inputs, ctxDone, answer, liveTasks, result, billed, logged>>
    BY <1>3 DEF StartMatrix
  <2>3. Len(rows') <= Len(chosen')
    <3>1. Len(rows') = 0
      <4>1. rows = <<>> /\ rows' = rows
        BY <1>3, <2>2 DEF StartMatrix, Position, result
      <4> QED  BY <4>1
    <3>2. Len(chosen') \in Nat
      <4>1. \A p \in Providers : Len(<<p>>) = 1
        OBVIOUS
      <4> QED  BY <2>1, <4>1, ProvidersAre
    <3> QED  BY <3>1, <3>2
  <2> QED  BY <2>1, <2>2, <2>3 DEF TypeOK, inputs, result, Steps
<1>4. CASE GoLive \/ Send
  BY <1>4 DEF GoLive, Send, TypeOK, inputs, result, Steps
<1>5. ASSUME NEW u \in LiveUsages, Charge(u) PROVE TypeOK'
  <2>1. Provider \in Providers /\ u \in Usage
    BY <1>5, NextProvider, MatrixAssumption DEF Charge, InMatrix, Calling
  <2>2. billed' \in [Providers -> Nat]
    <3>1. billed[Provider] + ComputeCost(u, PricingFor(Provider)) \in Nat
      BY <2>1, CostType DEF TypeOK
    <3> QED  BY <1>5, <2>1, <3>1 DEF Charge, TypeOK
  <2> QED  BY <1>5, <2>2 DEF Charge, TypeOK, inputs, result, Steps
<1>6. CASE TimeOver
  BY <1>6 DEF TimeOver, TypeOK, inputs, result
<1>7. CASE AppendNDJSON
  BY <1>7 DEF AppendNDJSON, TypeOK, inputs, result, Steps
<1>8. CASE BackCompatPilot
  <2>1. /\ step' = "end" /\ exit' \in {"zero", "non_zero"}
        /\ UNCHANGED <<inputs, chosen, ctxDone, answer, liveTasks, result, billed, logged>>
    BY <1>8 DEF BackCompatPilot
  <2> QED  BY <2>1 DEF TypeOK, inputs, result, Steps
<1>9. CASE UNCHANGED vars
  BY <1>9 DEF vars, TypeOK, inputs, result
<1> QED
  BY <1>1, <1>2, <1>3, <1>4, <1>5, <1>6, <1>7, <1>8, <1>9 DEF Next, Advance, Ended

-----------------------------------------------------------------------------
(* Where the run is. *)

LEMMA InitPosition == Init => Position
  BY DEF Init, Position, InMatrix, Calling

LEMMA StepPosition ==
    ASSUME TypeOK, Position, Charged, [Next]_vars
    PROVE  Position'
<1> USE DEF EndBy
<1>0. \A i \in DOMAIN rows : rows[i].provider = chosen[i]
  BY DEF Position
<1>1. CASE PriceOnly \/ TakeAnswer \/ ChatFails
  <2>1. CASE TakeMore
    <3>1. /\ step = "answered" /\ step' = "dial"
          /\ UNCHANGED <<inputs, chosen, ctxDone, answer, result, billed, logged, exit>>
      BY <2>1 DEF TakeMore
    <3> QED  BY <3>1 DEF Position, Asked, InMatrix, Calling, inputs, result, Legacy
  <2>2. ASSUME NEW row \in Row, CloseRow(row) PROVE Position'
    <3>1. /\ rows' \in Seq(Row) /\ Len(rows') = Len(rows) + 1
          /\ rows'[Len(rows) + 1] = row
          /\ \A i \in 1 .. Len(rows) : rows'[i] = rows[i]
      BY <2>2, CloseRowType
    <3>2. /\ UNCHANGED <<inputs, chosen, logged, exit>>
          /\ step' = IF Len(rows') = Len(chosen) THEN "append" ELSE "next"
      BY <2>2 DEF CloseRow, Finish
    <3>3. Len(rows) + 1 \in 1 .. Len(chosen)
      BY <2>2, NextProvider DEF CloseRow
    <3>4. \A i \in DOMAIN rows' : rows'[i].provider = chosen[i]
      <4>1. DOMAIN rows' = 1 .. Len(rows) + 1 /\ Len(rows) \in Nat
        BY <3>1, LenProperties, RowsType
      <4>2. \A i \in 1 .. Len(rows) : rows'[i].provider = chosen[i]
        BY <1>0, <3>1, RowsType
      <4>3. rows'[Len(rows) + 1].provider = chosen[Len(rows) + 1]
        BY <2>2, <3>1 DEF CloseRow, Closes, Provider
      <4>4. \A i \in DOMAIN rows' : i \in 1 .. Len(rows) \/ i = Len(rows) + 1
        BY <4>1
      <4> QED  BY <4>2, <4>3, <4>4
    <3>5. Len(rows') # Len(chosen) => Len(rows') < Len(chosen)
      <4>1. Len(rows) \in Nat /\ Len(chosen) \in Nat /\ Len(rows) + 1 <= Len(chosen)
        BY <3>3, ChosenType, RowsType
      <4> QED  BY <3>1, <4>1
    <3>6. step \notin {"start", "pilot", "end"}
      BY <2>2 DEF CloseRow, InMatrix, Calling
    <3>7. logged = <<>> /\ exit = "none" /\ chosen = Asked /\ chosen # <<>>
      BY <3>6 DEF Position
    <3>8. Asked' = Asked
      BY <3>2 DEF Asked, inputs
    <3> QED  BY <3>2, <3>4, <3>5, <3>7, <3>8 DEF Position, InMatrix, Calling
  <2> QED  BY <1>1, <2>1, <2>2, RowCloses
<1>2. CASE runLegacyPilot
  <2>1. /\ step = "start" /\ step' = "end" /\ exit' \in {"zero", "non_zero"} /\ Legacy
        /\ UNCHANGED <<inputs, chosen, ctxDone, answer, liveTasks, result, billed, logged>>
    BY <1>2 DEF runLegacyPilot
  <2> QED  BY <1>0, <2>1 DEF Position, InMatrix, Calling, inputs, result, Legacy
<1>3. CASE StartMatrix
  <2>1. /\ step = "start" /\ rows' = <<>> /\ total' = 0 /\ logged' = <<>>
        /\ UNCHANGED <<inputs, result, logged>>
    BY <1>3 DEF StartMatrix, Position, result
  <2>2. \A i \in DOMAIN rows' : FALSE
    BY <2>1
  <2>3. CASE step' = "next" /\ chosen' = Asked /\ UNCHANGED exit
               /\ (all \/ ParseProvider(name) # "")
    <3>1. chosen' # <<>> /\ Len(chosen') > 0
      <4>1. CASE all
        BY <2>3, <4>1 DEF Asked, AllProviders
      <4>2. CASE ~all
        <5>1. chosen' = <<ParseProvider(name)>>
          BY <2>3, <4>2 DEF Asked
        <5>2. Len(chosen') = 1
          BY <5>1
        <5>3. Len(<<>>) = 0
          BY EmptySeq
        <5> QED  BY <5>2, <5>3
      <4> QED  BY <4>1, <4>2
    <3>2. Asked' = Asked
      BY <2>1 DEF Asked, inputs
    <3>3. Len(rows') = 0 /\ exit' = "none"
      BY <2>1, <2>3 DEF Position
    <3> QED  BY <2>1, <2>2, <2>3, <3>1, <3>2, <3>3 DEF Position, InMatrix, Calling
  <2>4. CASE step' = "end" /\ exit' = "non_zero"
    BY <2>1, <2>2, <2>4 DEF Position, InMatrix, Calling
  <2> QED  BY <1>3, <2>3, <2>4 DEF StartMatrix, Asked
<1>4. CASE GoLive \/ Send
  <2>1. /\ InMatrix /\ step' \in {"dial", "sent"}
        /\ UNCHANGED <<inputs, chosen, ctxDone, answer, liveTasks, result, billed, logged, exit>>
    BY <1>4 DEF GoLive, Send, InMatrix, Calling
  <2> QED  BY <1>0, <2>1 DEF Position, Asked, Legacy, InMatrix, Calling, inputs, result
<1>5. ASSUME NEW u \in LiveUsages, Charge(u) PROVE Position'
  BY <1>0, <1>5 DEF Charge, Position, Asked, Legacy, InMatrix, Calling, inputs, result
<1>6. CASE TimeOver
  BY <1>0, <1>6 DEF TimeOver, Position, Asked, Legacy, InMatrix, Calling, inputs, result
<1>7. CASE AppendNDJSON
  <2>1. /\ step = "append" /\ chosen = Asked /\ chosen # <<>> /\ Len(rows) = Len(chosen)
        /\ logged = <<>> /\ exit = "none" /\ Asked' = Asked
        /\ UNCHANGED <<inputs, chosen, result>>
    BY <1>7 DEF AppendNDJSON, Position, Asked, inputs
  <2>2. CASE logged' = rows /\ step' = "pilot" /\ UNCHANGED exit
    BY <1>0, <2>1, <2>2 DEF Position, InMatrix, Calling, result
  <2>3. CASE step' = "end" /\ exit' = "non_zero" /\ UNCHANGED logged
    BY <1>0, <2>1, <2>3 DEF Position, InMatrix, Calling, result
  <2> QED  BY <1>7, <2>2, <2>3 DEF AppendNDJSON
<1>8. CASE BackCompatPilot
  <2>1. /\ step = "pilot" /\ step' = "end" /\ exit' \in {"zero", "non_zero"}
        /\ UNCHANGED <<inputs, chosen, ctxDone, answer, liveTasks, result, billed, logged>>
    BY <1>8 DEF BackCompatPilot
  <2>2. chosen = Asked /\ logged = rows /\ Len(rows) = Len(chosen) /\ chosen # <<>>
    BY <2>1 DEF Position
  <2>3. logged # <<>>
    <3>1. chosen \in Seq(Providers) /\ Len(chosen) # 0
      BY <2>2, ChosenType, EmptySeq
    <3> QED  BY <2>2, <3>1
  <2>4. Asked' = Asked
    BY <2>1 DEF Asked, inputs
  <2> QED  BY <1>0, <2>1, <2>2, <2>3, <2>4 DEF Position, InMatrix, Calling, result
<1>9. CASE UNCHANGED vars
  BY <1>9 DEF vars, Position, Asked, Legacy, InMatrix, Calling, inputs, result
<1> QED
  BY <1>1, <1>2, <1>3, <1>4, <1>5, <1>6, <1>7, <1>8, <1>9 DEF Next, Advance, Ended

-----------------------------------------------------------------------------
(* What has been charged. *)

LEMMA InitCharged == Init => Charged
  BY DEF Init, Charged, Calling

\* A step that charges nothing, and opens and closes no row.
LEMMA NothingCharged ==
    ASSUME Charged, UNCHANGED <<inputs, chosen, liveTasks, result, billed>>,
           step' = step \/ (~Calling /\ ~Calling' /\ step' \notin {"start", "next"})
               \/ (step = "dial" /\ step' = "sent"),
           answer' = answer
    PROVE  Charged'
<1>1. /\ Reached' = Reached /\ Calling' = Calling /\ Provider' = Provider
      /\ HasKey(Provider)' = HasKey(Provider) /\ \A p : HasKey(p)' = HasKey(p)
  BY DEF Reached, Calling, result, Provider, inputs, HasKey
<1>2. /\ step' \in {"start", "next"} => step \in {"start", "next"}
      /\ step' \in {"dial", "sent"} => step \in {"dial", "sent"}
      /\ step' = "answered" => step = "answered"
  BY DEF Calling
<1>3. UNCHANGED <<useLive, chosen, billed, liveTasks, answer>>
  BY DEF inputs
<1> QED  BY <1>1, <1>2, <1>3 DEF Charged

LEMMA StepCharged ==
    ASSUME TypeOK, Position, Charged, [Next]_vars
    PROVE  Charged'
<1> USE DEF EndBy
<1>0. /\ \A p \in Providers : billed[p] > 0 =>
            useLive /\ HasKey(p) /\ \E i \in 1 .. Reached : chosen[i] = p
      /\ Len(rows) \in Nat
  BY RowsType DEF Charged
<1>1. CASE PriceOnly \/ TakeAnswer \/ ChatFails
  <2>1. CASE TakeMore
    <3>1. /\ step = "answered" /\ step' = "dial"
          /\ liveTasks' = Append(liveTasks, answer)
          /\ UNCHANGED <<inputs, chosen, ctxDone, answer, result, billed, logged, exit>>
      BY <2>1 DEF TakeMore
    <3>2. /\ Reached' = Reached /\ Calling /\ Calling' /\ Provider' = Provider
          /\ \A p \in Providers : HasKey(p)' = HasKey(p)
      BY <3>1 DEF Reached, Calling, result, Provider, inputs, HasKey
    <3>3. billed[Provider] = TotalCost(liveTasks', PricingFor(Provider))
      <4>1. billed[Provider] = TotalCost(liveTasks, PricingFor(Provider))
                                + ComputeCost(answer, PricingFor(Provider))
        BY <3>1 DEF Charged
      <4>2. Provider \in Providers
        BY <3>2, NextProvider DEF InMatrix
      <4> QED  BY <3>1, <4>1, <4>2, TasksType, CostOfTasks
    <3>4. Provider \in Providers /\ useLive /\ HasKey(Provider)
      BY <3>2, NextProvider DEF InMatrix, Charged
    <3> QED  BY <1>0, <3>1, <3>2, <3>3, <3>4 DEF Charged, inputs
  <2>2. ASSUME NEW row \in Row, CloseRow(row) PROVE Charged'
    <3>1. Len(rows') = Len(rows) + 1
      BY <2>2, CloseRowType
    <3>2. /\ UNCHANGED <<inputs, chosen, billed>> /\ liveTasks' = <<>>
          /\ step' \in {"append", "next"}
      BY <2>2 DEF CloseRow, Finish
    <3>3. /\ Reached' = Len(rows) + 1 /\ Reached \in {Len(rows), Len(rows) + 1}
          /\ ~Calling'
      BY <3>1, <3>2 DEF Reached, Calling
    <3>4. \A i \in 1 .. Reached : i \in 1 .. Reached'
      BY <1>0, <3>3
    <3>5. \A p \in Providers : HasKey(p)' = HasKey(p)
      BY <3>2 DEF HasKey, inputs
    <3> QED  BY <1>0, <3>2, <3>3, <3>4, <3>5 DEF Charged, inputs, Calling
  <2> QED  BY <1>1, <2>1, <2>2, RowCloses
<1>2. CASE runLegacyPilot
  <2>1. /\ step = "start" /\ step' = "end"
        /\ UNCHANGED <<inputs, chosen, ctxDone, answer, liveTasks, result, billed, logged>>
    BY <1>2 DEF runLegacyPilot
  <2> QED  BY <2>1, NothingCharged DEF Calling
<1>3. CASE StartMatrix
  <2>1. /\ step = "start" /\ step' \in {"next", "end"} /\ rows = <<>>
        /\ UNCHANGED <<inputs, liveTasks, result, billed>>
    BY <1>3 DEF StartMatrix, Position
  <2>2. \A p \in Providers : ~(billed[p] > 0)
    <3>1. Len(rows) = 0
      BY <2>1
    <3>2. Reached = 0
      BY <2>1, <3>1 DEF Reached, Calling
    <3>3. \A i \in 1 .. Reached : FALSE
      BY <3>2
    <3> QED  BY <1>0, <3>3
  <2>3. ~Calling' /\ liveTasks' = <<>>
    BY <2>1 DEF Calling, Charged
  <2> QED  BY <2>1, <2>2, <2>3 DEF Charged, Calling
<1>4. CASE GoLive
  <2>1. /\ step = "next" /\ step' = "dial" /\ useLive /\ HasKey(Provider)
        /\ UNCHANGED <<inputs, chosen, answer, liveTasks, result, billed>>
    BY <1>4 DEF GoLive
  <2>2. /\ Reached' = Len(rows) + 1 /\ Reached = Len(rows) /\ Provider' = Provider
        /\ \A p \in Providers : HasKey(p)' = HasKey(p)
    BY <2>1 DEF Reached, Calling, result, Provider, inputs, HasKey
  <2>3. Provider \in Providers /\ billed[Provider] = 0 /\ liveTasks = <<>>
    BY <2>1, NextProvider, NothingYet DEF InMatrix, Charged
  <2>4. TotalCost(liveTasks, PricingFor(Provider)) = 0
    BY <2>3, TasksType, CostOfTasks
  <2>5. \A i \in 1 .. Reached : i \in 1 .. Reached'
    BY <1>0, <2>2
  <2> QED  BY <1>0, <2>1, <2>2, <2>3, <2>4, <2>5 DEF Charged, inputs
<1>5. CASE Send
  BY <1>5, NothingCharged DEF Send
<1>6. ASSUME NEW u \in LiveUsages, Charge(u) PROVE Charged'
  <2>1. /\ step = "sent" /\ step' = "answered" /\ answer' = u
        /\ billed' = [billed EXCEPT ![Provider] =
                        billed[Provider] + ComputeCost(u, PricingFor(Provider))]
        /\ UNCHANGED <<inputs, chosen, liveTasks, result>>
    BY <1>6 DEF Charge
  <2>2. /\ Reached' = Len(rows) + 1 /\ Reached = Len(rows) + 1 /\ Provider' = Provider
        /\ \A p \in Providers : HasKey(p)' = HasKey(p)
    BY <2>1 DEF Reached, Calling, result, Provider, inputs, HasKey
  <2>3. /\ Provider \in Providers /\ useLive /\ HasKey(Provider)
        /\ billed[Provider] = TotalCost(liveTasks, PricingFor(Provider))
    BY <2>1, NextProvider DEF InMatrix, Calling, Charged
  <2>4. billed'[Provider] = billed[Provider] + ComputeCost(u, PricingFor(Provider))
        /\ \A p \in Providers : p # Provider => billed'[p] = billed[p]
    BY <2>1, <2>3 DEF TypeOK
  <2>5. Len(rows) + 1 \in 1 .. Reached' /\ chosen[Len(rows) + 1] = Provider
    BY <1>0, <2>2 DEF Provider
  <2>6. \A p \in Providers : billed'[p] > 0 =>
            useLive /\ HasKey(p) /\ \E i \in 1 .. Reached' : chosen[i] = p
    BY <1>0, <2>2, <2>3, <2>4, <2>5
  <2> QED  BY <2>1, <2>2, <2>3, <2>4, <2>6 DEF Charged, inputs
<1>7. CASE TimeOver
  BY <1>7, NothingCharged DEF TimeOver
<1>8. CASE AppendNDJSON
  <2>1. /\ step = "append" /\ step' \in {"pilot", "end"}
        /\ UNCHANGED <<inputs, chosen, answer, liveTasks, result, billed>>
    BY <1>8 DEF AppendNDJSON
  <2> QED  BY <2>1, NothingCharged DEF Calling
<1>9. CASE BackCompatPilot
  <2>1. /\ step = "pilot" /\ step' = "end"
        /\ UNCHANGED <<inputs, chosen, answer, liveTasks, result, billed>>
    BY <1>9 DEF BackCompatPilot
  <2> QED  BY <2>1, NothingCharged DEF Calling
<1>10. CASE UNCHANGED vars
  BY <1>10, NothingCharged DEF vars
<1> QED
  BY <1>1, <1>2, <1>3, <1>4, <1>5, <1>6, <1>7, <1>8, <1>9, <1>10
  DEF Next, Advance, Ended

-----------------------------------------------------------------------------
(* What the rows and the total say of it. *)

\* Sums of bills and of assumed costs, one provider at a time.
LEMMA AccountsAdd ==
    ASSUME TypeOK, NEW ps \in SUBSET Providers, NEW p \in Providers \ ps
    PROVE  /\ Bills(ps) \in Nat /\ Bills(ps \cup {p}) = Bills(ps) + billed[p]
           /\ Assumed(ps) \in Nat
           /\ Assumed(ps \cup {p}) =
                 Assumed(ps) + TotalCost(DefaultPilotTasks, PricingFor(p))
<1> DEFINE assumed(q) == TotalCost(DefaultPilotTasks, PricingFor(q))
<1>1. IsFiniteSet(ps)
  BY ProvidersAre, FS_Subset
<1>2. \A q \in Providers : billed[q] \in Nat /\ assumed(q) \in Nat
  BY PilotTasksType, CostOfTasks DEF TypeOK
<1>3. Bills(ps) \in Nat /\ Bills(ps \cup {p}) = Bills(ps) + billed[p]
  <2> DEFINE v == [q \in ps |-> billed[q]]
             w == [q \in ps \cup {p} |-> billed[q]]
  <2>1. /\ IsFiniteSet(DOMAIN v) /\ p \notin DOMAIN v /\ DOMAIN w = DOMAIN v \cup {p}
        /\ \A q \in DOMAIN w : w[q] \in Nat
        /\ \A q \in DOMAIN v : v[q] = w[q]
        /\ w[p] = billed[p]
    BY <1>1, <1>2
  <2> HIDE DEF v, w
  <2>2. SumFunction(w) = SumFunction(v) + w[p] /\ SumFunction(v) \in Nat
    BY <2>1, TotalAdd
  <2> QED  BY <2>1, <2>2 DEF Bills, v, w
<1>4. Assumed(ps) \in Nat /\ Assumed(ps \cup {p}) = Assumed(ps) + assumed(p)
  <2> DEFINE v == [q \in ps |-> assumed(q)]
             w == [q \in ps \cup {p} |-> assumed(q)]
  <2> HIDE DEF assumed
  <2>1. /\ IsFiniteSet(DOMAIN v) /\ p \notin DOMAIN v /\ DOMAIN w = DOMAIN v \cup {p}
        /\ \A q \in DOMAIN w : w[q] \in Nat
        /\ \A q \in DOMAIN v : v[q] = w[q]
        /\ w[p] = assumed(p)
    BY <1>1, <1>2
  <2> HIDE DEF v, w
  <2>2. SumFunction(w) = SumFunction(v) + w[p] /\ SumFunction(v) \in Nat
    BY <2>1, TotalAdd
  <2> QED  BY <2>1, <2>2 DEF Assumed, v, w, assumed
<1> QED  BY <1>3, <1>4

\* A closed row adds its provider to the reported ones and to those of its
\* status.
LEMMA RowAdds ==
    ASSUME TypeOK, Position, NEW row \in Row, CloseRow(row)
    PROVE  /\ Provider \in Providers /\ Provider \notin Done
           /\ Done' = Done \cup {Provider}
           /\ \A s : With(s) \subseteq Done
           /\ \A s : With(s)' = IF row.status = s THEN With(s) \cup {Provider} ELSE With(s)
<1>1. /\ DOMAIN rows = 1 .. Len(rows) /\ DOMAIN rows' = 1 .. Len(rows) + 1
      /\ Len(rows) \in Nat /\ rows'[Len(rows) + 1] = row
      /\ \A i \in 1 .. Len(rows) : rows'[i] = rows[i]
  BY CloseRowType, RowsType, LenProperties
<1>2. row.provider = Provider /\ Provider \in Providers
      /\ \A i \in 1 .. Len(rows) : rows[i].provider # Provider
  BY NextProvider DEF CloseRow, Closes
<1>3. \A i \in DOMAIN rows' : i \in DOMAIN rows \/ i = Len(rows) + 1
  BY <1>1
<1>4. DOMAIN rows \subseteq DOMAIN rows' /\ Len(rows) + 1 \in DOMAIN rows'
  BY <1>1
<1>5. Done' = Done \cup {Provider} /\ Provider \notin Done
  BY <1>1, <1>2, <1>3, <1>4 DEF Done
<1>6. \A s : With(s) \subseteq Done
  BY DEF With, Done
<1>7. ASSUME NEW s
      PROVE  With(s)' = IF row.status = s THEN With(s) \cup {Provider} ELSE With(s)
  BY <1>1, <1>2, <1>3, <1>4 DEF With
<1> QED  BY <1>2, <1>5, <1>6, <1>7

\* A step that closes no row, and charges for no closed one.
LEMMA AccountsKept ==
    ASSUME UNCHANGED <<useLive, total, rows>>, Explained, RowsMatchBills, TypeOK,
           \A p \in Done : billed'[p] = billed[p]
    PROVE  Explained' /\ RowsMatchBills'
<1>1. /\ Done' = Done /\ With("fail")' = With("fail")
      /\ With("skipped")' = With("skipped") /\ With("fail") \subseteq Done
  BY DEF With, Done
<1>2. /\ Bills(With("fail"))' = Bills(With("fail"))
      /\ Assumed(With("skipped"))' = Assumed(With("skipped"))
      /\ Bills(Done)' = Bills(Done)
  BY <1>1 DEF Bills, Assumed
<1>3. Explained'
  BY <1>2 DEF Explained
<1>4. \A i \in DOMAIN rows : rows[i].provider \in Done
  BY RowsType DEF Done, Row
<1>5. RowsMatchBills'
  BY <1>4 DEF RowsMatchBills
<1> QED  BY <1>3, <1>5

LEMMA InitAccounts == Init => Explained /\ RowsMatchBills
<1> SUFFICES ASSUME Init PROVE Explained /\ RowsMatchBills
  OBVIOUS
<1>1. With("fail") = {} /\ With("skipped") = {} /\ Done = {}
  BY DEF Init, With, Done
<1>2. Bills({}) = 0 /\ Assumed({}) = 0
  BY TotalEmpty DEF Bills, Assumed
<1>3. total = 0
  BY DEF Init
<1>4. Explained
  BY <1>1, <1>2, <1>3 DEF Explained
<1>5. RowsMatchBills
  BY DEF Init, RowsMatchBills
<1> QED  BY <1>4, <1>5

\* Closing a row keeps the accounts.
LEMMA CloseExplains ==
    ASSUME TypeOK, Position, Explained, NEW row \in Row, CloseRow(row)
    PROVE  Explained'
<1> SUFFICES ASSUME useLive
             PROVE  total' + Bills(With("fail"))' = Assumed(With("skipped"))' + Bills(Done)'
  BY DEF Explained, CloseRow, inputs
<1>1. /\ Provider \in Providers /\ Provider \notin Done
      /\ Done' = Done \cup {Provider}
      /\ \A s : With(s) \subseteq Done
      /\ \A s : With(s)' = IF row.status = s THEN With(s) \cup {Provider} ELSE With(s)
  BY RowAdds
<1>2. billed' = billed /\ total' = total + row.cost
  BY DEF CloseRow, Finish
<1>3. /\ Done \in SUBSET Providers
      /\ With("fail") \in SUBSET Providers /\ With("skipped") \in SUBSET Providers
      /\ Provider \notin With("fail") /\ Provider \notin With("skipped")
  BY <1>1 DEF Done
<1> DEFINE F == With("fail")
           S == With("skipped")
           b == billed[Provider]
           a == TotalCost(DefaultPilotTasks, PricingFor(Provider))
<1>4. /\ Bills(Done \cup {Provider}) = Bills(Done) + b /\ Bills(Done) \in Nat
      /\ Bills(F \cup {Provider}) = Bills(F) + b /\ Bills(F) \in Nat
      /\ Assumed(S \cup {Provider}) = Assumed(S) + a /\ Assumed(S) \in Nat
  BY <1>1, <1>3, AccountsAdd
<1>5. Bills(Done)' = Bills(Done) + b
  BY <1>1, <1>2, <1>4 DEF Bills
<1>6. Bills(With("fail"))' = IF row.status = "fail" THEN Bills(F) + b ELSE Bills(F)
  BY <1>1, <1>2, <1>4 DEF Bills
<1>7. Assumed(With("skipped"))' =
          IF row.status = "skipped" THEN Assumed(S) + a ELSE Assumed(S)
  BY <1>1, <1>4 DEF Assumed
<1>8. total + Bills(F) = Assumed(S) + Bills(Done)
  BY DEF Explained
<1>9. total \in Nat /\ row.cost \in Nat /\ b \in Nat /\ a \in Nat
  BY <1>1, PilotTasksType, CostOfTasks DEF TypeOK, Row
<1>10. /\ row.status = "ok" => row.cost = b
       /\ row.status = "skipped" => b = 0 /\ row.cost = a
       /\ row.status = "fail" => row.cost = 0
  BY DEF CloseRow, Closes
<1>11. row.status \in {"ok", "skipped", "fail"}
  BY DEF Row
<1> HIDE DEF F, S, a, b
<1> QED  BY <1>2, <1>4, <1>5, <1>6, <1>7, <1>8, <1>9, <1>10, <1>11

LEMMA CloseMatches ==
    ASSUME TypeOK, Position, RowsMatchBills, NEW row \in Row, CloseRow(row)
    PROVE  RowsMatchBills'
<1> SUFFICES ASSUME useLive, NEW i \in DOMAIN rows'
             PROVE  /\ rows'[i].status = "ok" =>
                          /\ rows'[i].tasks = PilotSize
                          /\ rows'[i].cost = billed[rows'[i].provider]
                    /\ rows'[i].status = "skipped" => billed[rows'[i].provider] = 0
                    /\ rows'[i].status = "fail" => rows'[i].tasks = 0 /\ rows'[i].cost = 0
  BY DEF RowsMatchBills, CloseRow, Finish, inputs
<1>1. /\ DOMAIN rows = 1 .. Len(rows) /\ Len(rows) \in Nat
      /\ DOMAIN rows' = 1 .. Len(rows) + 1
      /\ rows'[Len(rows) + 1] = row
      /\ \A j \in 1 .. Len(rows) : rows'[j] = rows[j]
  BY CloseRowType, RowsType, LenProperties
<1>2. CASE i \in 1 .. Len(rows)
  BY <1>1, <1>2 DEF RowsMatchBills
<1>3. CASE i = Len(rows) + 1
  BY <1>1, <1>3 DEF CloseRow, Closes
<1> QED  BY <1>1, <1>2, <1>3

LEMMA StepAccounts ==
    ASSUME TypeOK, Position, Charged, Explained, RowsMatchBills, [Next]_vars
    PROVE  Explained' /\ RowsMatchBills'
<1> USE DEF EndBy
<1>1. CASE PriceOnly \/ TakeAnswer \/ ChatFails
  <2>1. CASE TakeMore
    BY <2>1, AccountsKept DEF TakeMore, inputs, result
  <2> QED  BY <1>1, <2>1, RowCloses, CloseExplains, CloseMatches
<1>2. CASE UNCHANGED <<useLive, total, rows, billed>>
  BY <1>2, AccountsKept
<1>3. ASSUME NEW u \in LiveUsages, Charge(u) PROVE Explained' /\ RowsMatchBills'
  <2>1. Provider \in Providers /\ Provider \notin Done
    <3>1. InMatrix
      BY <1>3 DEF Charge, InMatrix, Calling
    <3> QED  BY <3>1, NextProvider, RowsType DEF Done
  <2>2. \A p \in Done : billed'[p] = billed[p]
    BY <1>3, <2>1 DEF Charge, TypeOK, Done
  <2> QED  BY <1>3, <2>2, AccountsKept DEF Charge, inputs, result
<1>4. CASE StartMatrix \/ runLegacyPilot
  BY <1>2, <1>4 DEF StartMatrix, runLegacyPilot, inputs, result
<1> QED
  BY <1>1, <1>2, <1>3, <1>4 DEF Next, Advance, Ended, GoLive, Send, TimeOver,
        AppendNDJSON, BackCompatPilot, inputs, result, vars
-----------------------------------------------------------------------------
MatrixInv == TypeOK /\ Position /\ Charged /\ Explained /\ RowsMatchBills

LEMMA MatrixInvariant == Spec => []MatrixInv
<1>1. Init => MatrixInv
  BY InitType, InitPosition, InitCharged, InitAccounts DEF MatrixInv
<1>2. MatrixInv /\ [Next]_vars => MatrixInv'
  BY StepType, StepPosition, StepCharged, StepAccounts DEF MatrixInv
<1> QED  BY <1>1, <1>2, PTL DEF Spec

\* Type correctness; a provider is never left with too many answers.
THEOREM MatrixTypeCorrect == Spec => []TypeOK
<1>1. MatrixInv => TypeOK
  BY DEF MatrixInv
<1> QED  BY <1>1, MatrixInvariant, PTL

\* What a row says of a live run is what the provider charged, whatever fails,
\* and whenever the time is over.
THEOREM RowsMatch == Spec => []RowsMatchBills
<1>1. MatrixInv => RowsMatchBills
  BY DEF MatrixInv
<1> QED  BY <1>1, MatrixInvariant, PTL

\* No provider charges anything that was not asked for, with a key for it, and
\* in its turn.
THEOREM BillsWanted == Spec => []BillsAreWanted
<1>1. MatrixInv => BillsAreWanted
  <2> SUFFICES ASSUME MatrixInv, NEW p \in Providers, billed[p] > 0
               PROVE  /\ useLive /\ HasKey(p)
                      /\ p \in ToSet(SubSeq(chosen, 1, Reached))
    BY DEF BillsAreWanted, Reached, Calling
  <2>1. useLive /\ HasKey(p)
    BY DEF MatrixInv, Charged
  <2>2. PICK i \in 1 .. Reached : chosen[i] = p
    BY DEF MatrixInv, Charged
  <2>3. Reached \in Nat /\ Len(chosen) \in Nat /\ Reached <= Len(chosen)
    <3>1. Len(rows) \in Nat /\ Len(chosen) \in Nat /\ Len(rows) <= Len(chosen)
      BY RowsType, ChosenType DEF MatrixInv, TypeOK
    <3>2. Calling => Len(rows) < Len(chosen)
      BY DEF MatrixInv, Position, InMatrix
    <3> QED  BY <3>1, <3>2 DEF Reached
  <2>4. \A j \in 1 .. Reached : chosen[j] \in Providers
    <3>1. \A j \in 1 .. Reached : j \in 1 .. Len(chosen)
      BY <2>3
    <3> QED  BY <3>1, ChosenType, ElementOfSeq DEF MatrixInv
  <2>5. /\ SubSeq(chosen, 1, Reached) \in Seq(Providers)
        /\ Len(SubSeq(chosen, 1, Reached)) = Reached
        /\ SubSeq(chosen, 1, Reached)[i] = chosen[i]
    BY <2>2, <2>3, <2>4, SubSeqProperties
  <2>6. i \in DOMAIN SubSeq(chosen, 1, Reached)
    BY <2>2, <2>5, LenProperties
  <2> QED  BY <2>1, <2>2, <2>5, <2>6 DEF ToSet
<1> QED  BY <1>1, MatrixInvariant, PTL

\* The total and the bills differ by the assumed cost of the skipped providers
\* and by what failed ones charged, and by nothing else.
THEOREM TotalIsExplained == Spec => []TotalExplained
<1>1. MatrixInv => TotalExplained
  <2> SUFFICES ASSUME MatrixInv, useLive, step \in {"append", "pilot"}
               PROVE  total + Bills(With("fail"))
                          = Assumed(With("skipped")) + Bills(Providers)
    BY DEF TotalExplained
  <2> USE DEF MatrixInv
  <2>1. total + Bills(With("fail")) = Assumed(With("skipped")) + Bills(Done)
    BY DEF Explained
  <2>2. \A p \in Providers : billed[p] \in Nat /\ (p \notin Done => billed[p] = 0)
    <3>1. Reached = Len(rows)
      BY DEF Reached, Calling
    <3>2. \A i \in 1 .. Len(rows) : chosen[i] = rows[i].provider
      BY RowsType DEF Position
    <3>3. \A p \in Providers : billed[p] > 0 => p \in Done
      BY <3>1, <3>2, RowsType DEF Charged, Done
    <3>4. \A p \in Providers : billed[p] \in Nat
      BY DEF TypeOK
    <3> QED  BY <3>3, <3>4
  <2>3. ASSUME NEW ps \in SUBSET Providers
        PROVE  Bills(ps) = SumFunctionOnSet(billed, ps)
    <3>1. IsFiniteSet(ps)
      BY ProvidersAre, FS_Subset
    <3> QED  BY <3>1, SumSame DEF Bills, SumFunction
  <2>4. SumFunctionOnSet(billed, Providers) = SumFunctionOnSet(billed, Providers \cap Done)
    BY <2>2, ProvidersAre, SumOfRest
  <2>5. Providers \cap Done = Done
    BY DEF Done
  <2>6. Bills(Providers) = Bills(Done)
    <3>1. Done \in SUBSET Providers
      BY DEF Done
    <3> QED  BY <2>3, <2>4, <2>5, <3>1
  <2> QED  BY <2>1, <2>6
<1> QED  BY <1>1, MatrixInvariant, PTL

\* A logged result has one row for each provider asked for, in that order, and
\* a matrix that exits zero has logged one.
THEOREM EveryoneReported == Spec => []EveryProviderReported
<1>1. MatrixInv => EveryProviderReported
  <2> SUFFICES ASSUME MatrixInv PROVE EveryProviderReported
    OBVIOUS
  <2> USE DEF MatrixInv
  <2>1. ASSUME logged # <<>>
        PROVE  [i \in DOMAIN logged |-> logged[i].provider] = Asked
    <3>1. chosen = Asked /\ logged = rows /\ Len(rows) = Len(chosen)
      BY <2>1 DEF Position
    <3>2. DOMAIN rows = DOMAIN chosen
      BY <3>1, RowsType, ChosenType
    <3>3. \A i \in DOMAIN rows : rows[i].provider = chosen[i]
      BY DEF Position
    <3>4. chosen = [i \in DOMAIN chosen |-> chosen[i]]
      <4>1. chosen \in [1 .. Len(chosen) -> Providers]
        BY ChosenType, LenProperties
      <4> QED  BY <4>1
    <3> QED  BY <3>1, <3>2, <3>3, <3>4
  <2>2. exit = "zero" => logged # <<>> \/ Legacy
    BY DEF Position
  <2> QED  BY <2>1, <2>2 DEF EveryProviderReported, Asked
<1> QED  BY <1>1, MatrixInvariant, PTL
=============================================================================
