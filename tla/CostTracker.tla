----------------------------- MODULE CostTracker -----------------------------
(***************************************************************************)
(* internal/llmcost: goroutines that Record the cost of their calls on one *)
(* Tracker.  A Record is four steps, the last three each in a critical     *)
(* section of its own, so that a price change, midnight, another Record, a *)
(* failed write or the end of the process may fall between any two:        *)
(*                                                                         *)
(*   stamp the event -> price it -> append its line -> add it to totals    *)
(*                                                                         *)
(* The log file outlives the process; prices and totals do not.            *)
(***************************************************************************)
EXTENDS Integers, Sequences, FiniteSets, FiniteSetsExt, SequencesExt

CONSTANTS
    Recorders,       \* goroutines
    Backends,        \* pricing sources
    Usages,          \* the [prompt, completion] token counts of a call
    Prices,          \* the [prompt, completion] prices SetPricing may install
    DefaultPricing,  \* what New starts from
    NoEvent,         \* the event of a goroutine that records nothing
    MaxLines,        \* bound: lines in the log file
    MaxDay           \* bound: the last day

ASSUME CostAssumption ==
    /\ IsFiniteSet(Recorders)
    /\ Usages \subseteq [prompt : Nat, completion : Nat]
    /\ DefaultPricing \in [Backends -> Prices]
    /\ Prices \subseteq [prompt : Nat, completion : Nat]
    /\ MaxLines \in Nat
    /\ MaxDay \in Nat \ {0}

VARIABLES
    lines,    \* the NDJSON file: events, written whole or torn
    boot,     \* the length of the file when New was called
    pricing,  \* Tracker.pricing
    totals,   \* Tracker.totals, from <<day, backend>>
    today,    \* the UTC day of time.Now()
    pc,       \* where each goroutine is in Record
    event     \* its event

vars == <<lines, boot, pricing, totals, today, pc, event>>

Days == 1 .. MaxDay
Events == [day : Days, backend : Backends, usage : Usages, usd : Nat]
Amounts == [usd : Nat, tokens : Nat]

TypeOK ==
    /\ lines \in Seq([event : Events, whole : BOOLEAN])
    /\ boot \in 0 .. Len(lines)
    /\ pricing \in [Backends -> Prices]
    /\ DOMAIN totals \subseteq Days \X Backends
    /\ totals \in [DOMAIN totals -> Amounts]
    /\ today \in Days
    /\ pc \in [Recorders -> {"idle", "price", "append", "update"}]
    /\ event \in [Recorders -> Events \cup {NoEvent}]
    /\ \A r \in Recorders : pc[r] # "idle" => event[r] \in Events

Init ==
    /\ lines = <<>>
    /\ boot = 0
    /\ pricing = DefaultPricing
    /\ totals = [k \in {} |-> {}]
    /\ today = 1
    /\ pc = [r \in Recorders |-> "idle"]
    /\ event = [r \in Recorders |-> NoEvent]

\* EstimatedUSD, in units of a thousandth of a price: the division is left
\* out, it is the same for every event.
Cost(usage, price) ==
    usage.prompt * price.prompt + usage.completion * price.completion

Tokens(usage) == usage.prompt + usage.completion

Key(e) == <<e.day, e.backend>>

\* Mutant: the total of a day is the last event's.
AddOverwrites(e) ==
    LET k == Key(e)
        new == [usd |-> e.usd, tokens |-> Tokens(e.usage)]
    IN  [x \in DOMAIN totals \cup {k} |-> IF x = k THEN new ELSE totals[x]]

Total(k) == IF k \in DOMAIN totals THEN totals[k] ELSE [usd |-> 0, tokens |-> 0]

\* totals once event e is added to its day and backend, whose total is made
\* when it is missing.
Add(e) ==
    LET k == Key(e)
        new == [usd |-> Total(k).usd + e.usd,
                tokens |-> Total(k).tokens + Tokens(e.usage)]
    IN  [x \in DOMAIN totals \cup {k} |-> IF x = k THEN new ELSE totals[x]]

Goto(r, step) == pc' = [pc EXCEPT ![r] = step]

Return(r) ==
    /\ Goto(r, "idle")
    /\ event' = [event EXCEPT ![r] = NoEvent]
-----------------------------------------------------------------------------
\* Record is entered and stamps its event with the current day.
Record(r, b, u) ==
    /\ pc[r] = "idle"
    /\ event' = [event EXCEPT ![r] =
                    [day |-> today, backend |-> b, usage |-> u, usd |-> 0]]
    /\ Goto(r, "price")
    /\ UNCHANGED <<lines, boot, pricing, totals, today>>

\* The price is read under the lock, and applied once it is released.
Price(r) ==
    /\ pc[r] = "price"
    /\ event' = [event EXCEPT ![r].usd =
                    Cost(event[r].usage, pricing[event[r].backend])]
    /\ Goto(r, "append")
    /\ UNCHANGED <<lines, boot, pricing, totals, today>>

\* append writes the line under the lock.
AppendLine(r) ==
    /\ pc[r] = "append"
    /\ Len(lines) < MaxLines
    /\ lines' = Append(lines, [event |-> event[r], whole |-> TRUE])
    /\ Goto(r, "update")
    /\ UNCHANGED <<boot, pricing, totals, today, event>>

\* The lines a write of e that fails may leave: none, or a piece of one.
Remains(e) ==
    {lines} \cup (IF Len(lines) < MaxLines
                  THEN {Append(lines, [event |-> e, whole |-> FALSE])}
                  ELSE {})

\* Mutants: the error of append is not looked at; it is, and the event is
\* dropped, but updateDaily is called all the same.
AppendErrorIgnored(r) ==
    /\ pc[r] = "append"
    /\ lines' \in Remains(event[r])
    /\ Goto(r, "update")
    /\ UNCHANGED <<boot, pricing, totals, today, event>>

UpdateWithoutEvent(r) ==
    /\ pc[r] = "append"
    /\ lines' \in Remains(event[r])
    /\ event' = [event EXCEPT ![r] = NoEvent]
    /\ Goto(r, "update")
    /\ UNCHANGED <<boot, pricing, totals, today>>

\* append fails (the file cannot be opened, or the disk is full half-way) and
\* Record returns the error: the totals are not touched.
AppendFails(r) ==
    /\ pc[r] = "append"
    /\ lines' \in Remains(event[r])
    /\ Return(r)
    /\ UNCHANGED <<boot, pricing, totals, today>>

\* updateDaily, under the lock again: the day is the event's, not today.
UpdateDaily(r) ==
    /\ pc[r] = "update"
    /\ totals' = Add(event[r])
    /\ Return(r)
    /\ UNCHANGED <<lines, boot, pricing, today>>

SetPricing(b, p) ==
    /\ pricing' = [pricing EXCEPT ![b] = p]
    /\ UNCHANGED <<lines, boot, totals, today, pc, event>>

Midnight ==
    /\ today < MaxDay
    /\ today' = today + 1
    /\ UNCHANGED <<lines, boot, pricing, totals, pc, event>>

\* The process ends, perhaps half-way through a write, and another one calls
\* New on the same path: nothing is read back from the file.
Restart ==
    /\ lines' \in {lines} \cup
            UNION {Remains(event[r]) : r \in {x \in Recorders : pc[x] = "append"}}
    /\ boot' = Len(lines')
    /\ pricing' = DefaultPricing
    /\ totals' = [k \in {} |-> {}]
    /\ pc' = [r \in Recorders |-> "idle"]
    /\ event' = [r \in Recorders |-> NoEvent]
    /\ UNCHANGED today

Next ==
    \/ \E r \in Recorders :
          \/ \E b \in Backends, u \in Usages : Record(r, b, u)
          \/ Price(r)
          \/ AppendLine(r)
          \/ AppendFails(r)
          \/ UpdateDaily(r)
    \/ \E b \in Backends, p \in Prices : SetPricing(b, p)
    \/ Midnight
    \/ Restart

Spec == Init /\ [][Next]_vars
-----------------------------------------------------------------------------
\* Mutant: over the budget, but not at it.
BeyondBudget(b, cap) ==
    /\ cap > 0
    /\ <<today, b>> \in DOMAIN totals
    /\ totals[<<today, b>>].usd > cap

\* CheckDailyBudget: a cap of zero is no cap.
OverBudget(b, cap) ==
    /\ cap > 0
    /\ <<today, b>> \in DOMAIN totals
    /\ totals[<<today, b>>].usd >= cap

\* The lines this process wrote whole for one day and backend, and its
\* goroutines between the line and the total.
Written(k) ==
    {n \in boot + 1 .. Len(lines) : lines[n].whole /\ Key(lines[n].event) = k}
Pending(k) == {r \in Recorders : pc[r] = "update" /\ Key(event[r]) = k}

\* What they add up to.
UsdWritten(k) == SumFunction([n \in Written(k) |-> lines[n].event.usd])
UsdPending(k) == SumFunction([r \in Pending(k) |-> event[r].usd])
TokensWritten(k) == SumFunction([n \in Written(k) |-> Tokens(lines[n].event.usage)])
TokensPending(k) == SumFunction([r \in Pending(k) |-> Tokens(event[r].usage)])

\* The totals are the log of this process, short of nothing but the events
\* whose goroutine is between its line and its total: no failed write is
\* counted, no event is counted twice, lost or moved to another day, and a
\* price change is never applied to what was priced before it.
TotalsMatchLog ==
    \A d \in Days, b \in Backends :
        LET k == <<d, b>> IN
        /\ Total(k).usd + UsdPending(k) = UsdWritten(k)
        /\ Total(k).tokens + TokensPending(k) = TokensWritten(k)

\* The alert is raised exactly when this process has logged the cap for
\* today; it may be late only while a goroutine is between line and total.
AlertFollowsLog ==
    \A b \in Backends :
        LET logged == UsdWritten(<<today, b>>) IN
        \A cap \in 1 .. logged + 1 :
            /\ OverBudget(b, cap) => logged >= cap
            /\ logged >= cap => OverBudget(b, cap) \/ Pending(<<today, b>>) # {}

\* An alert that was raised stays until midnight or the end of the process:
\* neither a cheaper price nor a failed write takes it back.
AlertStays ==
    [][\A b \in Backends :
          \A cap \in 1 .. UsdWritten(<<today, b>>) :
              OverBudget(b, cap) =>
                  OverBudget(b, cap)' \/ today' # today \/ boot' # boot]_vars
=============================================================================
