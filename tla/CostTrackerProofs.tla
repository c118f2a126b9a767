--------------------------- MODULE CostTrackerProofs ---------------------------
(***************************************************************************)
(* What TLAPS proves of CostTracker, for any goroutines, backends, usages  *)
(* and prices: the totals against the log, and the alert.                  *)
(***************************************************************************)
EXTENDS CostTracker, LoopProofs

Line == [event : Events, whole : BOOLEAN]
-----------------------------------------------------------------------------
(* Types. *)

LEMMA InitType == Init => TypeOK
<1> SUFFICES ASSUME Init PROVE TypeOK
  OBVIOUS
<1>1. lines \in Seq(Line) /\ Len(lines) = 0
  BY EmptySeq DEF Init
<1> QED  BY <1>1, CostAssumption DEF Init, TypeOK, Days, Line

\* A cost is a number.
LEMMA CostType ==
    ASSUME NEW u \in Usages, NEW p \in Prices
    PROVE  Cost(u, p) \in Nat /\ Tokens(u) \in Nat
<1>1. /\ u.prompt \in Nat /\ u.completion \in Nat
      /\ p.prompt \in Nat /\ p.completion \in Nat
  BY CostAssumption
<1>2. u.prompt * p.prompt \in Nat /\ u.completion * p.completion \in Nat
  BY <1>1
<1> QED  BY <1>1, <1>2 DEF Cost, Tokens

\* Adding an event gives its key a new total and leaves the others alone.
LEMMA AddType ==
    ASSUME TypeOK, NEW e \in Events
    PROVE  /\ Key(e) \in Days \X Backends
           /\ DOMAIN Add(e) = DOMAIN totals \cup {Key(e)}
           /\ Add(e) \in [DOMAIN Add(e) -> Amounts]
           /\ Add(e)[Key(e)] = [usd |-> Total(Key(e)).usd + e.usd,
                                tokens |-> Total(Key(e)).tokens + Tokens(e.usage)]
           /\ \A k \in DOMAIN totals : k # Key(e) => Add(e)[k] = totals[k]
<1>1. Key(e) \in Days \X Backends
  BY DEF Events, Key
<1>2. e.usd \in Nat /\ Tokens(e.usage) \in Nat
  BY CostAssumption DEF Events, Tokens
<1>3. Total(Key(e)) \in Amounts
  BY DEF TypeOK, Total, Amounts
<1>4. [usd |-> Total(Key(e)).usd + e.usd,
       tokens |-> Total(Key(e)).tokens + Tokens(e.usage)] \in Amounts
  BY <1>2, <1>3 DEF Amounts
<1> HIDE DEF Amounts
<1> QED  BY <1>1, <1>4 DEF Add, TypeOK

\* What a write may leave behind.
LEMMA RemainsType ==
    ASSUME TypeOK, NEW e \in Events, NEW q \in Remains(e)
    PROVE  /\ q \in Seq(Line)
           /\ \/ Len(q) = Len(lines)
              \/ Len(q) = Len(lines) + 1 /\ q[Len(q)].whole = FALSE
           /\ \A n \in 1 .. Len(lines) : q[n] = lines[n]
<1>1. lines \in Seq(Line)
  BY DEF TypeOK, Line
<1>2. CASE q = lines
  BY <1>1, <1>2
<1>3. CASE q = Append(lines, [event |-> e, whole |-> FALSE])
  <2>1. [event |-> e, whole |-> FALSE] \in Line
    BY DEF Line
  <2> QED  BY <1>1, <1>3, <2>1, AppendProperties
<1> QED  BY <1>2, <1>3 DEF Remains

\* Every step keeps the types, one action at a time.
LEMMA StepType == TypeOK /\ [Next]_vars => TypeOK'
<1> SUFFICES ASSUME TypeOK, [Next]_vars PROVE TypeOK'
  OBVIOUS
<1> USE DEF Goto, Return
<1>0. lines \in Seq(Line) /\ Len(lines) \in Nat
  BY LenProperties DEF TypeOK, Line
<1>1. ASSUME NEW r \in Recorders, NEW b \in Backends, NEW u \in Usages, Record(r, b, u)
      PROVE  TypeOK'
  <2>1. [day |-> today, backend |-> b, usage |-> u, usd |-> 0] \in Events
    BY DEF TypeOK, Events
  <2> QED  BY <1>1, <2>1 DEF Record, TypeOK
<1>2. ASSUME NEW r \in Recorders, Price(r) PROVE TypeOK'
  <2>1. event[r] \in Events
    BY <1>2 DEF Price, TypeOK
  <2>2. Cost(event[r].usage, pricing[event[r].backend]) \in Nat
    BY <2>1, CostType DEF TypeOK, Events
  <2>3. [event[r] EXCEPT !.usd = Cost(event[r].usage, pricing[event[r].backend])]
            \in Events
    BY <2>1, <2>2 DEF Events
  <2> QED  BY <1>2, <2>3 DEF Price, TypeOK
<1>3. ASSUME NEW r \in Recorders, AppendLine(r) PROVE TypeOK'
  <2>1. [event |-> event[r], whole |-> TRUE] \in Line
    BY <1>3 DEF AppendLine, TypeOK, Line
  <2>2. lines' \in Seq(Line) /\ Len(lines') = Len(lines) + 1
    BY <1>0, <1>3, <2>1, AppendProperties DEF AppendLine
  <2> QED  BY <1>0, <1>3, <2>2 DEF AppendLine, TypeOK, Line
<1>4. ASSUME NEW r \in Recorders, AppendFails(r) PROVE TypeOK'
  <2>1. event[r] \in Events /\ lines' \in Remains(event[r])
    BY <1>4 DEF AppendFails, TypeOK
  <2>2. lines' \in Seq(Line) /\ Len(lines') >= Len(lines) /\ Len(lines') \in Nat
    <3>1. /\ lines' \in Seq(Line)
          /\ Len(lines') = Len(lines) \/ Len(lines') = Len(lines) + 1
      BY <2>1, RemainsType
    <3> QED  BY <1>0, <3>1
  <2> QED  BY <1>0, <1>4, <2>2 DEF AppendFails, TypeOK, Line
<1>5. ASSUME NEW r \in Recorders, UpdateDaily(r) PROVE TypeOK'
  <2>1. event[r] \in Events
    BY <1>5 DEF UpdateDaily, TypeOK
  <2>2. totals' = Add(event[r])
    BY <1>5 DEF UpdateDaily
  <2>3. /\ DOMAIN Add(event[r]) \subseteq Days \X Backends
        /\ Add(event[r]) \in [DOMAIN Add(event[r]) -> Amounts]
    <3>1. DOMAIN totals \subseteq Days \X Backends
      BY DEF TypeOK
    <3> QED  BY <2>1, <3>1, AddType
  <2> QED  BY <1>5, <2>2, <2>3 DEF UpdateDaily, TypeOK
<1>6. ASSUME NEW b \in Backends, NEW p \in Prices, SetPricing(b, p) PROVE TypeOK'
  BY <1>6 DEF SetPricing, TypeOK
<1>7. CASE Midnight
  BY <1>7, CostAssumption DEF Midnight, TypeOK, Days
<1>8. CASE Restart
  <2>1. lines' \in Seq(Line)
    <3>1. \A r \in Recorders : pc[r] = "append" => event[r] \in Events
      BY DEF TypeOK
    <3> QED  BY <1>0, <1>8, <3>1, RemainsType DEF Restart
  <2>2. Len(lines') \in Nat
    BY <2>1, LenProperties
  <2> QED  BY <1>8, <2>1, <2>2, CostAssumption DEF Restart, TypeOK, Line
<1>9. CASE UNCHANGED vars
  BY <1>9 DEF vars, TypeOK
<1> QED
  BY <1>1, <1>2, <1>3, <1>4, <1>5, <1>6, <1>7, <1>8, <1>9 DEF Next

\* Type correctness: in particular no goroutine writes or adds up an event it
\* does not have.
THEOREM CostTypeCorrect == Spec => []TypeOK
  BY InitType, StepType, PTL DEF Spec
-----------------------------------------------------------------------------
(* The totals and the log. *)

Balanced(k) ==
    /\ Total(k).usd + UsdPending(k) = UsdWritten(k)
    /\ Total(k).tokens + TokensPending(k) = TokensWritten(k)

\* An event's amounts are numbers.
LEMMA EventType ==
    ASSUME NEW e \in Events
    PROVE  e.usd \in Nat /\ Tokens(e.usage) \in Nat
  BY CostAssumption DEF Events, Tokens

\* What the accounts add up is finite, and numbers.
LEMMA AccountsType ==
    ASSUME TypeOK, NEW k
    PROVE  /\ IsFiniteSet(Written(k)) /\ IsFiniteSet(Pending(k))
           /\ \A n \in Written(k) :
                 lines[n].event.usd \in Nat /\ Tokens(lines[n].event.usage) \in Nat
           /\ \A r \in Pending(k) :
                 event[r].usd \in Nat /\ Tokens(event[r].usage) \in Nat
           /\ Total(k).usd \in Nat /\ Total(k).tokens \in Nat
<1>0. lines \in Seq(Line) /\ Len(lines) \in Nat /\ boot \in 0 .. Len(lines)
  BY LenProperties DEF TypeOK, Line
<1>1. IsFiniteSet(Written(k))
  <2>1. IsFiniteSet(boot + 1 .. Len(lines))
    BY <1>0, FS_Interval
  <2> QED  BY <2>1, FS_Subset DEF Written
<1>2. IsFiniteSet(Pending(k))
  BY CostAssumption, FS_Subset DEF Pending
<1>3. ASSUME NEW n \in Written(k)
      PROVE  lines[n].event.usd \in Nat /\ Tokens(lines[n].event.usage) \in Nat
  <2>1. n \in 1 .. Len(lines)
    BY <1>0 DEF Written
  <2>2. lines[n] \in Line
    BY <1>0, <2>1, ElementOfSeq
  <2>3. lines[n].event \in Events
    BY <2>2 DEF Line
  <2> QED  BY <2>3, EventType
<1>4. ASSUME NEW r \in Pending(k)
      PROVE  event[r].usd \in Nat /\ Tokens(event[r].usage) \in Nat
  BY EventType DEF Pending, TypeOK
<1>5. Total(k).usd \in Nat /\ Total(k).tokens \in Nat
  BY DEF Total, TypeOK, Amounts
<1> QED  BY <1>1, <1>2, <1>3, <1>4, <1>5

\* So are the sums.
LEMMA SumsType ==
    ASSUME TypeOK, NEW k
    PROVE  /\ UsdWritten(k) \in Nat /\ TokensWritten(k) \in Nat
           /\ UsdPending(k) \in Nat /\ TokensPending(k) \in Nat
  BY AccountsType, TotalType DEF UsdWritten, TokensWritten, UsdPending, TokensPending

\* An account that nothing was written to, taken from or added to.
LEMMA Untouched ==
    ASSUME NEW k, Balanced(k), Total(k)' = Total(k),
           Written(k)' = Written(k), \A n \in Written(k) : lines'[n] = lines[n],
           Pending(k)' = Pending(k), \A r \in Pending(k) : event'[r] = event[r]
    PROVE  Balanced(k)'
<1>1. /\ [n \in Written(k)' |-> lines'[n].event.usd] =
            [n \in Written(k) |-> lines[n].event.usd]
      /\ [n \in Written(k)' |-> Tokens(lines'[n].event.usage)] =
            [n \in Written(k) |-> Tokens(lines[n].event.usage)]
  <2> HIDE DEF Written
  <2> QED  OBVIOUS
<1>2. /\ [r \in Pending(k)' |-> event'[r].usd] = [r \in Pending(k) |-> event[r].usd]
      /\ [r \in Pending(k)' |-> Tokens(event'[r].usage)] =
            [r \in Pending(k) |-> Tokens(event[r].usage)]
  OBVIOUS
<1>3. /\ UsdWritten(k)' = UsdWritten(k) /\ TokensWritten(k)' = TokensWritten(k)
      /\ UsdPending(k)' = UsdPending(k) /\ TokensPending(k)' = TokensPending(k)
  BY <1>1, <1>2 DEF UsdWritten, TokensWritten, UsdPending, TokensPending, Tokens
<1> QED  BY <1>3 DEF Balanced

\* A new line adds its event to what was written, and to what is pending.
LEMMA LineAdds ==
    ASSUME TypeOK, NEW r \in Recorders, AppendLine(r), NEW k, k = Key(event[r])
    PROVE  /\ UsdWritten(k)' = UsdWritten(k) + event[r].usd
           /\ TokensWritten(k)' = TokensWritten(k) + Tokens(event[r].usage)
           /\ UsdPending(k)' = UsdPending(k) + event[r].usd
           /\ TokensPending(k)' = TokensPending(k) + Tokens(event[r].usage)
<1> DEFINE e == event[r]
           n == Len(lines) + 1
<1>0. lines \in Seq(Line) /\ Len(lines) \in Nat /\ boot \in 0 .. Len(lines)
  BY LenProperties DEF TypeOK, Line
<1>1. e \in Events /\ [event |-> e, whole |-> TRUE] \in Line
  BY DEF AppendLine, TypeOK, Line
<1>2. /\ Len(lines') = n /\ lines'[n] = [event |-> e, whole |-> TRUE]
      /\ \A i \in 1 .. Len(lines) : lines'[i] = lines[i]
  BY <1>0, <1>1, AppendProperties DEF AppendLine
<1>3. /\ Written(k)' = Written(k) \cup {n} /\ n \notin Written(k)
      /\ \A i \in Written(k) : lines'[i] = lines[i]
  BY <1>0, <1>2 DEF Written, AppendLine
<1>4. /\ Pending(k)' = Pending(k) \cup {r} /\ r \notin Pending(k)
      /\ event' = event
  BY DEF Pending, AppendLine, Goto, TypeOK
<1>5. e.usd \in Nat /\ Tokens(e.usage) \in Nat
  BY <1>1, EventType
<1>6. UsdWritten(k)' = UsdWritten(k) + e.usd
  <2> DEFINE v == [i \in Written(k) |-> lines[i].event.usd]
             w == [i \in Written(k)' |-> lines'[i].event.usd]
  <2>1. /\ IsFiniteSet(DOMAIN v) /\ n \notin DOMAIN v /\ DOMAIN w = DOMAIN v \cup {n}
        /\ \A i \in DOMAIN v : v[i] = w[i] /\ v[i] \in Nat
    BY <1>3, AccountsType
  <2>2. w[n] = e.usd
    BY <1>2, <1>3
  <2> HIDE DEF v, w, n
  <2>3. SumFunction(w) = SumFunction(v) + w[n]
    BY <1>5, <2>1, <2>2, TotalAdd
  <2> QED  BY <2>2, <2>3 DEF UsdWritten, v, w
<1>7. TokensWritten(k)' = TokensWritten(k) + Tokens(e.usage)
  <2> DEFINE v == [i \in Written(k) |-> Tokens(lines[i].event.usage)]
             w == [i \in Written(k)' |-> Tokens(lines'[i].event.usage)]
  <2>1. /\ IsFiniteSet(DOMAIN v) /\ n \notin DOMAIN v /\ DOMAIN w = DOMAIN v \cup {n}
        /\ \A i \in DOMAIN v : v[i] = w[i] /\ v[i] \in Nat
    BY <1>3, AccountsType
  <2>2. w[n] = Tokens(e.usage)
    BY <1>2, <1>3
  <2> HIDE DEF v, w, n
  <2>3. SumFunction(w) = SumFunction(v) + w[n]
    BY <1>5, <2>1, <2>2, TotalAdd
  <2> QED  BY <2>2, <2>3 DEF TokensWritten, v, w, Tokens
<1>8. UsdPending(k)' = UsdPending(k) + e.usd
  <2> DEFINE v == [x \in Pending(k) |-> event[x].usd]
             w == [x \in Pending(k)' |-> event'[x].usd]
  <2>1. /\ IsFiniteSet(DOMAIN v) /\ r \notin DOMAIN v /\ DOMAIN w = DOMAIN v \cup {r}
        /\ \A x \in DOMAIN v : v[x] = w[x] /\ v[x] \in Nat
        /\ w[r] = e.usd
    BY <1>4, AccountsType
  <2> HIDE DEF v, w
  <2>2. SumFunction(w) = SumFunction(v) + w[r]
    BY <1>5, <2>1, TotalAdd
  <2> QED  BY <2>1, <2>2 DEF UsdPending, v, w
<1>9. TokensPending(k)' = TokensPending(k) + Tokens(e.usage)
  <2> DEFINE v == [x \in Pending(k) |-> Tokens(event[x].usage)]
             w == [x \in Pending(k)' |-> Tokens(event'[x].usage)]
  <2>1. /\ IsFiniteSet(DOMAIN v) /\ r \notin DOMAIN v /\ DOMAIN w = DOMAIN v \cup {r}
        /\ \A x \in DOMAIN v : v[x] = w[x] /\ v[x] \in Nat
        /\ w[r] = Tokens(e.usage)
    BY <1>4, AccountsType
  <2> HIDE DEF v, w
  <2>2. SumFunction(w) = SumFunction(v) + w[r]
    BY <1>5, <2>1, TotalAdd
  <2> QED  BY <2>1, <2>2 DEF TokensPending, v, w, Tokens
<1> QED  BY <1>6, <1>7, <1>8, <1>9

\* Updating the total takes the event from what is pending.
LEMMA UpdateTakes ==
    ASSUME TypeOK, NEW r \in Recorders, UpdateDaily(r), NEW k, k = Key(event[r])
    PROVE  /\ UsdPending(k) = UsdPending(k)' + event[r].usd
           /\ TokensPending(k) = TokensPending(k)' + Tokens(event[r].usage)
           /\ UsdPending(k)' \in Nat /\ TokensPending(k)' \in Nat
           /\ Total(k)' = [usd |-> Total(k).usd + event[r].usd,
                           tokens |-> Total(k).tokens + Tokens(event[r].usage)]
<1>1. event[r] \in Events /\ totals' = Add(event[r])
  BY DEF UpdateDaily, TypeOK
<1>2. /\ Pending(k) = Pending(k)' \cup {r} /\ r \notin Pending(k)'
      /\ \A x \in Pending(k)' : event'[x] = event[x]
  BY DEF Pending, UpdateDaily, Return, Goto, TypeOK
<1>3. IsFiniteSet(Pending(k)')
  BY <1>2, AccountsType, FS_Subset
<1>4. UsdPending(k) = UsdPending(k)' + event[r].usd /\ UsdPending(k)' \in Nat
  <2> DEFINE v == [x \in Pending(k)' |-> event'[x].usd]
             w == [x \in Pending(k) |-> event[x].usd]
  <2>1. /\ IsFiniteSet(DOMAIN v) /\ r \notin DOMAIN v /\ DOMAIN w = DOMAIN v \cup {r}
        /\ \A x \in DOMAIN v : v[x] = w[x]
        /\ \A x \in DOMAIN w : w[x] \in Nat
        /\ w[r] = event[r].usd
    BY <1>2, <1>3, AccountsType
  <2> HIDE DEF v, w
  <2>2. SumFunction(w) = SumFunction(v) + w[r] /\ SumFunction(v) \in Nat
    BY <2>1, TotalAdd
  <2> QED  BY <2>1, <2>2 DEF UsdPending, v, w
<1>5. TokensPending(k) = TokensPending(k)' + Tokens(event[r].usage)
          /\ TokensPending(k)' \in Nat
  <2> DEFINE v == [x \in Pending(k)' |-> Tokens(event'[x].usage)]
             w == [x \in Pending(k) |-> Tokens(event[x].usage)]
  <2>1. /\ IsFiniteSet(DOMAIN v) /\ r \notin DOMAIN v /\ DOMAIN w = DOMAIN v \cup {r}
        /\ \A x \in DOMAIN v : v[x] = w[x]
        /\ \A x \in DOMAIN w : w[x] \in Nat
        /\ w[r] = Tokens(event[r].usage)
    BY <1>2, <1>3, AccountsType
  <2> HIDE DEF v, w
  <2>2. SumFunction(w) = SumFunction(v) + w[r] /\ SumFunction(v) \in Nat
    BY <2>1, TotalAdd
  <2> QED  BY <2>1, <2>2 DEF TokensPending, v, w, Tokens
<1>6. Total(k)' = [usd |-> Total(k).usd + event[r].usd,
                   tokens |-> Total(k).tokens + Tokens(event[r].usage)]
  <2>1. k \in DOMAIN totals' /\ totals'[k] = [usd |-> Total(k).usd + event[r].usd,
                   tokens |-> Total(k).tokens + Tokens(event[r].usage)]
    BY <1>1, AddType
  <2> QED  BY <2>1 DEF Total
<1> QED  BY <1>4, <1>5, <1>6

LEMMA StepBalanced ==
    ASSUME TypeOK, [Next]_vars, NEW k, Balanced(k)
    PROVE  Balanced(k)'
<1> USE DEF Goto, Return
<1>0. lines \in Seq(Line) /\ Len(lines) \in Nat /\ boot \in 0 .. Len(lines)
  BY LenProperties DEF TypeOK, Line
<1>1. ASSUME NEW r \in Recorders, pc[r] # "update", pc'[r] # "update",
             \A x \in Recorders \ {r} : pc'[x] = pc[x] /\ event'[x] = event[x],
             UNCHANGED <<totals, lines, boot>>
      PROVE  Balanced(k)'
  <2>1. Pending(k)' = Pending(k) /\ \A x \in Pending(k) : event'[x] = event[x]
    BY <1>1 DEF Pending
  <2> QED  BY <1>1, <2>1, Untouched DEF Total, Written
<1>2. ASSUME NEW r \in Recorders, NEW b \in Backends, NEW u \in Usages, Record(r, b, u)
      PROVE  Balanced(k)'
  BY <1>1, <1>2 DEF Record, TypeOK
<1>3. ASSUME NEW r \in Recorders, Price(r) PROVE Balanced(k)'
  BY <1>1, <1>3 DEF Price, TypeOK
<1>4. ASSUME NEW r \in Recorders, AppendLine(r) PROVE Balanced(k)'
  <2>1. CASE k = Key(event[r])
    <3>1. event[r].usd \in Nat /\ Tokens(event[r].usage) \in Nat
      BY <1>4, EventType DEF AppendLine, TypeOK
    <3>2. Total(k)' = Total(k)
      BY <1>4 DEF AppendLine, Total
    <3>3. /\ UsdWritten(k)' = UsdWritten(k) + event[r].usd
          /\ TokensWritten(k)' = TokensWritten(k) + Tokens(event[r].usage)
          /\ UsdPending(k)' = UsdPending(k) + event[r].usd
          /\ TokensPending(k)' = TokensPending(k) + Tokens(event[r].usage)
      BY <1>4, <2>1, LineAdds
    <3> QED  BY <3>1, <3>2, <3>3, AccountsType, SumsType DEF Balanced
  <2>2. CASE k # Key(event[r])
    <3>1. [event |-> event[r], whole |-> TRUE] \in Line
      BY <1>4 DEF AppendLine, TypeOK, Line
    <3>2. /\ Len(lines') = Len(lines) + 1
          /\ lines'[Len(lines) + 1].event = event[r]
          /\ \A i \in 1 .. Len(lines) : lines'[i] = lines[i]
      BY <1>0, <1>4, <3>1, AppendProperties DEF AppendLine
    <3>3. Written(k)' = Written(k) /\ \A n \in Written(k) : lines'[n] = lines[n]
      BY <1>0, <1>4, <2>2, <3>2 DEF Written, AppendLine
    <3>4. Pending(k)' = Pending(k) /\ event' = event
      BY <1>4, <2>2 DEF Pending, AppendLine, TypeOK
    <3> QED  BY <1>4, <3>3, <3>4, Untouched DEF Total, AppendLine
  <2> QED  BY <2>1, <2>2
<1>5. ASSUME NEW r \in Recorders, AppendFails(r) PROVE Balanced(k)'
  <2>1. event[r] \in Events /\ lines' \in Remains(event[r])
    BY <1>5 DEF AppendFails, TypeOK
  <2>2. /\ \/ Len(lines') = Len(lines)
           \/ Len(lines') = Len(lines) + 1 /\ lines'[Len(lines')].whole = FALSE
        /\ \A n \in 1 .. Len(lines) : lines'[n] = lines[n]
    BY <2>1, RemainsType
  <2>3. Written(k)' = Written(k) /\ \A n \in Written(k) : lines'[n] = lines[n]
    BY <1>0, <1>5, <2>2 DEF Written, AppendFails
  <2>4. Pending(k)' = Pending(k) /\ \A x \in Pending(k) : event'[x] = event[x]
    BY <1>5 DEF Pending, AppendFails, TypeOK
  <2> QED  BY <1>5, <2>3, <2>4, Untouched DEF Total, AppendFails
<1>6. ASSUME NEW r \in Recorders, UpdateDaily(r) PROVE Balanced(k)'
  <2>1. event[r] \in Events /\ totals' = Add(event[r])
    BY <1>6 DEF UpdateDaily, TypeOK
  <2>2. Written(k)' = Written(k) /\ lines' = lines
    BY <1>6 DEF Written, UpdateDaily
  <2>3. CASE k = Key(event[r])
    <3>1. event[r].usd \in Nat /\ Tokens(event[r].usage) \in Nat
      BY <2>1, EventType
    <3>2. UsdWritten(k)' = UsdWritten(k) /\ TokensWritten(k)' = TokensWritten(k)
      BY <2>2 DEF UsdWritten, TokensWritten, Tokens
    <3>3. /\ UsdPending(k) = UsdPending(k)' + event[r].usd
          /\ TokensPending(k) = TokensPending(k)' + Tokens(event[r].usage)
          /\ UsdPending(k)' \in Nat /\ TokensPending(k)' \in Nat
          /\ Total(k)' = [usd |-> Total(k).usd + event[r].usd,
                          tokens |-> Total(k).tokens + Tokens(event[r].usage)]
      BY <1>6, <2>3, UpdateTakes
    <3> QED  BY <3>1, <3>2, <3>3, AccountsType DEF Balanced
  <2>4. CASE k # Key(event[r])
    <3>1. Pending(k)' = Pending(k) /\ \A x \in Pending(k) : event'[x] = event[x]
      BY <1>6, <2>4 DEF Pending, UpdateDaily, TypeOK
    <3>2. Total(k)' = Total(k)
      BY <2>1, <2>4, AddType DEF Total
    <3> QED  BY <2>2, <3>1, <3>2, Untouched
  <2> QED  BY <2>3, <2>4
<1>7. CASE UNCHANGED <<lines, boot, totals, pc, event>>
  BY <1>7, Untouched DEF Total, Written, Pending
<1>8. CASE Restart
  <2>1. Written(k)' = {} /\ Pending(k)' = {}
    <3>1. \A n \in boot' + 1 .. Len(lines') : FALSE
      <4>1. TypeOK'
        BY StepType
      <4>2. boot' \in Int /\ boot' = Len(lines')
        BY <1>8, <4>1 DEF TypeOK, Restart
      <4> QED  BY <4>2
    <3> QED  BY <1>8, <3>1 DEF Written, Pending, Restart
  <2>2. /\ UsdWritten(k)' = 0 /\ TokensWritten(k)' = 0
        /\ UsdPending(k)' = 0 /\ TokensPending(k)' = 0
    BY <2>1, TotalEmpty DEF UsdWritten, TokensWritten, UsdPending, TokensPending
  <2>3. Total(k)' = [usd |-> 0, tokens |-> 0]
    BY <1>8 DEF Restart, Total
  <2> QED  BY <2>2, <2>3 DEF Balanced
<1> QED
  BY <1>2, <1>3, <1>4, <1>5, <1>6, <1>7, <1>8 DEF Next, SetPricing, Midnight, vars

\* The inductive invariant of the accounts.
AllBalanced == \A d \in Days, b \in Backends : Balanced(<<d, b>>)

LEMMA InitBalanced == Init => AllBalanced
<1> SUFFICES ASSUME Init, NEW d \in Days, NEW b \in Backends
             PROVE  Balanced(<<d, b>>)
  BY DEF AllBalanced
<1>1. Written(<<d, b>>) = {} /\ Pending(<<d, b>>) = {}
  BY DEF Init, Written, Pending
<1>2. Total(<<d, b>>) = [usd |-> 0, tokens |-> 0]
  BY DEF Init, Total
<1>3. /\ UsdWritten(<<d, b>>) = 0 /\ TokensWritten(<<d, b>>) = 0
      /\ UsdPending(<<d, b>>) = 0 /\ TokensPending(<<d, b>>) = 0
  BY <1>1, TotalEmpty DEF UsdWritten, TokensWritten, UsdPending, TokensPending
<1> QED  BY <1>2, <1>3 DEF Balanced

LEMMA CostInvariant == Spec => [](TypeOK /\ AllBalanced)
<1>1. Init => TypeOK /\ AllBalanced
  BY InitType, InitBalanced
<1>2. TypeOK /\ AllBalanced /\ [Next]_vars => (TypeOK /\ AllBalanced)'
  <2> SUFFICES ASSUME TypeOK, AllBalanced, [Next]_vars PROVE TypeOK' /\ AllBalanced'
    OBVIOUS
  <2>1. ASSUME NEW d \in Days, NEW b \in Backends PROVE Balanced(<<d, b>>)'
    <3>1. Balanced(<<d, b>>)
      BY DEF AllBalanced
    <3> QED  BY <3>1, StepBalanced
  <2> QED  BY <2>1, StepType DEF AllBalanced, Days
<1> QED  BY <1>1, <1>2, PTL DEF Spec

\* The totals are the log of this process, short of the events whose goroutine
\* is between its line and its total, whatever is recorded, priced, cut short
\* or restarted.
THEOREM TotalsMatch == Spec => []TotalsMatchLog
<1>1. AllBalanced => TotalsMatchLog
  BY DEF AllBalanced, Balanced, TotalsMatchLog
<1> QED  BY <1>1, CostInvariant, PTL

\* The alert is raised only for what was logged, and once the cap is logged
\* only a goroutine between line and total can hold it back.
THEOREM AlertFollows == Spec => []AlertFollowsLog
<1>1. TypeOK /\ AllBalanced => AlertFollowsLog
  <2> SUFFICES ASSUME TypeOK, AllBalanced, NEW b \in Backends,
                      NEW cap \in 1 .. UsdWritten(<<today, b>>) + 1
               PROVE  /\ OverBudget(b, cap) => UsdWritten(<<today, b>>) >= cap
                      /\ UsdWritten(<<today, b>>) >= cap =>
                            OverBudget(b, cap) \/ Pending(<<today, b>>) # {}
    BY DEF AlertFollowsLog
  <2> DEFINE k == <<today, b>>
  <2>1. /\ Total(k).usd \in Nat /\ UsdPending(k) \in Nat /\ UsdWritten(k) \in Nat
        /\ Total(k).usd + UsdPending(k) = UsdWritten(k)
    <3>1. Balanced(k)
      BY DEF AllBalanced, TypeOK
    <3> QED  BY <3>1, AccountsType, SumsType DEF Balanced
  <2>2. cap \in Nat /\ cap > 0
    BY <2>1
  <2>3. OverBudget(b, cap) <=> Total(k).usd >= cap
    BY <2>2 DEF OverBudget, Total
  <2>4. Pending(k) = {} => UsdPending(k) = 0
    BY TotalEmpty DEF UsdPending
  <2> HIDE DEF k
  <2>5. /\ OverBudget(b, cap) => UsdWritten(k) >= cap
        /\ UsdWritten(k) >= cap => OverBudget(b, cap) \/ Pending(k) # {}
    BY <2>1, <2>2, <2>3, <2>4
  <2> QED  BY <2>5 DEF k
<1> QED  BY <1>1, CostInvariant, PTL

\* No step lowers a total, short of a restart.
LEMMA TotalsGrow ==
    ASSUME TypeOK, [Next]_vars, ~Restart, NEW k \in DOMAIN totals
    PROVE  k \in DOMAIN totals' /\ totals'[k].usd >= totals[k].usd
<1>0. totals[k].usd \in Nat
  BY DEF TypeOK, Amounts
<1>1. ASSUME NEW r \in Recorders, UpdateDaily(r)
      PROVE  k \in DOMAIN totals' /\ totals'[k].usd >= totals[k].usd
  <2>1. event[r] \in Events /\ totals' = Add(event[r])
    BY <1>1 DEF UpdateDaily, TypeOK
  <2>2. event[r].usd \in Nat
    BY <2>1, EventType
  <2>3. CASE k = Key(event[r])
    <3>1. /\ k \in DOMAIN totals'
          /\ totals'[k] = [usd |-> Total(k).usd + event[r].usd,
                           tokens |-> Total(k).tokens + Tokens(event[r].usage)]
      BY <2>1, <2>3, AddType
    <3>2. Total(k) = totals[k]
      BY DEF Total
    <3> QED  BY <1>0, <2>2, <3>1, <3>2
  <2>4. CASE k # Key(event[r])
    <3>1. k \in DOMAIN totals' /\ totals'[k] = totals[k]
      BY <2>1, <2>4, AddType
    <3> QED  BY <1>0, <3>1
  <2> QED  BY <2>3, <2>4
<1>2. CASE UNCHANGED totals
  BY <1>0, <1>2
<1> QED
  BY <1>1, <1>2 DEF Next, Record, Price, AppendLine, AppendFails, SetPricing,
                    Midnight, vars

\* An alert that was raised stays until midnight or the end of the process.
\* A restart that leaves boot where it was had logged nothing since the last.
THEOREM AlertStaysUp == Spec => AlertStays
<1> DEFINE Stays == \A b \in Backends :
              \A cap \in 1 .. UsdWritten(<<today, b>>) :
                  OverBudget(b, cap) =>
                      OverBudget(b, cap)' \/ today' # today \/ boot' # boot
<1>1. TypeOK /\ [Next]_vars => Stays
  <2> SUFFICES ASSUME TypeOK, [Next]_vars, NEW b \in Backends,
                      NEW cap \in 1 .. UsdWritten(<<today, b>>),
                      OverBudget(b, cap), today' = today, boot' = boot
               PROVE  OverBudget(b, cap)'
    OBVIOUS
  <2> DEFINE k == <<today, b>>
  <2>1. cap \in Nat /\ UsdWritten(k) >= cap /\ cap > 0
    BY SumsType
  <2>2. CASE Restart
    <3>1. Written(k) = {}
      <4>1. lines \in Seq(Line) /\ Len(lines) \in Nat /\ boot \in 0 .. Len(lines)
        BY LenProperties DEF TypeOK, Line
      <4>2. Len(lines') \in {Len(lines), Len(lines) + 1}
        <5>1. \A r \in Recorders : pc[r] = "append" => event[r] \in Events
          BY DEF TypeOK
        <5> QED  BY <2>2, <5>1, RemainsType DEF Restart
      <4>3. boot = Len(lines)
        BY <2>2, <4>1, <4>2 DEF Restart
      <4>4. \A n \in boot + 1 .. Len(lines) : FALSE
        BY <4>1, <4>3
      <4> QED  BY <4>4 DEF Written
    <3>2. UsdWritten(k) = 0
      BY <3>1, TotalEmpty DEF UsdWritten
    <3> QED  BY <2>1, <3>2
  <2>3. CASE ~Restart
    <3>1. k \in DOMAIN totals /\ totals[k].usd >= cap /\ totals[k].usd \in Nat
      BY DEF OverBudget, TypeOK, Amounts
    <3>2. k \in DOMAIN totals' /\ totals'[k].usd >= totals[k].usd
      BY <2>3, <3>1, TotalsGrow
    <3>3. totals'[k].usd \in Nat
      BY <3>2, StepType DEF TypeOK, Amounts
    <3> QED  BY <2>1, <3>1, <3>2, <3>3 DEF OverBudget
  <2> QED  BY <2>2, <2>3
<1> QED  BY <1>1, CostTypeCorrect, PTL DEF Spec, AlertStays
================================================================================
