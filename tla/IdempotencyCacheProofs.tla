------------------------ MODULE IdempotencyCacheProofs ------------------------
(***************************************************************************)
(* What TLAPS proves of IdempotencyCache, for any callers, requests, hash, *)
(* TTL, size cap and clock: its accounts, whose answers it gives, that it  *)
(* keeps the promise of IdempotentChat, and, while the clock is not set    *)
(* back, what it forgets (CacheHistory).                                   *)
(***************************************************************************)
EXTENDS CacheHistory, CachePromise, CacheOpsProofs, LoopProofs

-----------------------------------------------------------------------------
LEMMA InitType == Init => TypeOK
  BY DEF Init, TypeOK, EmptyCache, Entries, Steps, Returned

\* What Store leaves in the cache is typed.
LEMMA StoreType ==
    ASSUME TypeOK, NEW c \in Callers, Store(c)
    PROVE  /\ DOMAIN entries' \subseteq JobIDs
           /\ entries' \in [DOMAIN entries' -> Entries]
<1>1. PICK e \in AfterEviction(entries) :
          entries' = Insert(e, JobID(req[c]), resp[c], now)
  BY DEF Store
<1>2. DOMAIN e \subseteq JobIDs /\ e \in [DOMAIN e -> Entries]
  BY EvictionType DEF TypeOK
<1>3. JobID(req[c]) \in JobIDs /\ resp[c] \in Responses
  BY RequestType DEF TypeOK, Store
<1> QED  BY <1>1, <1>2, <1>3, InsertType DEF TypeOK

\* Every step keeps the types, one action at a time.
LEMMA StepType == TypeOK /\ [Next]_vars => TypeOK'
<1> SUFFICES ASSUME TypeOK, [Next]_vars PROVE TypeOK'
  OBVIOUS
<1> USE DEF TypeOK, Goto, Steps, Returned, Kind
<1>1. ASSUME NEW c \in Callers, NEW r \in Asked, Call(c, r) PROVE TypeOK'
  BY <1>1, CallerAssumption DEF Call
<1>2. ASSUME NEW c \in Callers, NilClient(c) PROVE TypeOK'
  BY <1>2 DEF NilClient
<1>3. ASSUME NEW c \in Callers, Lookup(c) PROVE TypeOK'
  <2>1. Hit(entries, JobID(req[c]), now) =>
            entries[JobID(req[c])].resp \in Responses
    BY DEF Hit, Entries
  <2> QED  BY <1>3, <2>1 DEF Lookup
<1>4. ASSUME NEW c \in Callers, CountHit(c) PROVE TypeOK'
  BY <1>4 DEF CountHit
<1>5. ASSUME NEW c \in Callers, CountMiss(c) PROVE TypeOK'
  BY <1>5 DEF CountMiss
<1>6. ASSUME NEW c \in Callers, Answer(c) PROVE TypeOK'
  <2>1. [req |-> Wire(req[c]), id |-> billed["cached"] + billed["direct"]]
            \in Responses
    BY <1>6, RequestType DEF Answer, Responses
  <2> QED  BY <1>6, <2>1 DEF Answer
<1>7. ASSUME NEW c \in Callers, Deliver(c) PROVE TypeOK'
  BY <1>7 DEF Deliver
<1>8. ASSUME NEW c \in Callers, ChatError(c) PROVE TypeOK'
  BY <1>8 DEF ChatError
<1>9. ASSUME NEW c \in Callers, Store(c) PROVE TypeOK'
  <2>1. stat' \in [hits : Nat, misses : Nat, evictions : Nat]
    BY <1>9 DEF Store
  <2> QED  BY <1>9, <2>1, StoreType DEF Store
<1>10. CASE Tick
  BY <1>10 DEF Tick
<1>11. ASSUME NEW t \in ClockSettings, SetClock(t) PROVE TypeOK'
  BY <1>11, CallerAssumption DEF SetClock
<1>12. CASE UNCHANGED vars
  BY <1>12 DEF vars
<1> QED
  BY <1>1, <1>2, <1>3, <1>4, <1>5, <1>6, <1>7, <1>8, <1>9, <1>10, <1>11, <1>12
     DEF Next, Advance

\* Type correctness: in particular every caller that has an answer to return or
\* to store holds a response, and what a replay returns is never a nil pointer.
THEOREM TypeCorrect == Spec => []TypeOK
  BY InitType, StepType, PTL DEF Spec
-----------------------------------------------------------------------------
(* The bound on the entries and the accounts. *)

\* Moving one caller changes a count of callers by what it enters and leaves.
LEMMA Moved ==
    ASSUME NEW S, NEW c \in Callers, NEW step, pc \in [Callers -> Steps],
           pc' = [pc EXCEPT ![c] = step]
    PROVE  /\ Cardinality(At(S)) \in Nat
           /\ Cardinality(At(S)') =
                IF c \notin Cached \/ (pc[c] \in S <=> step \in S)
                THEN Cardinality(At(S))
                ELSE IF step \in S THEN Cardinality(At(S)) + 1
                                   ELSE Cardinality(At(S)) - 1
<1>1. IsFiniteSet(At(S))
  BY CallerAssumption, FS_Subset DEF At, Cached
<1>2. Cardinality(At(S)) \in Nat
  BY <1>1, FS_CardinalityType
<1>3. CASE c \notin Cached \/ (pc[c] \in S <=> step \in S)
  <2>1. At(S)' = At(S)
    BY <1>3 DEF At, Cached
  <2> QED  BY <1>2, <1>3, <2>1
<1>4. CASE c \in Cached /\ step \in S /\ pc[c] \notin S
  <2>1. At(S)' = At(S) \cup {c} /\ c \notin At(S)
    BY <1>4 DEF At, Cached
  <2> QED  BY <1>1, <1>2, <1>4, <2>1, FS_AddElement
<1>5. CASE c \in Cached /\ step \notin S /\ pc[c] \in S
  <2>1. At(S)' = At(S) \ {c} /\ c \in At(S)
    BY <1>5 DEF At, Cached
  <2> QED  BY <1>1, <1>2, <1>5, <2>1, FS_RemoveElement
<1> QED  BY <1>3, <1>4, <1>5

\* The number of entries is a number.
LEMMA EntriesFinite ==
    TypeOK => IsFiniteSet(DOMAIN entries) /\ Cardinality(DOMAIN entries) \in Nat
  BY CacheAssumption, FS_Subset, FS_CardinalityType DEF TypeOK

\* Store adds at most one entry to those held and evicted, and never takes the
\* cache over the cap.
LEMMA StoreSize ==
    ASSUME TypeOK, NEW c \in Callers, Store(c)
    PROVE  /\ Cardinality(DOMAIN entries') + stat'.evictions
                 <= Cardinality(DOMAIN entries) + stat.evictions + 1
           /\ CapacityBound => CapacityBound'
<1> DEFINE n == Cardinality(DOMAIN entries)
           j == JobID(req[c])
<1>1. PICK e \in AfterEviction(entries) : entries' = Insert(e, j, resp[c], now)
  BY DEF Store
<1>2. DOMAIN entries' = DOMAIN e \cup {j}
  BY <1>1 DEF Insert
<1>3. IsFiniteSet(DOMAIN entries) /\ n \in Nat
  BY EntriesFinite
<1>4. stat.evictions \in Nat /\ MaxSize \in Nat
  BY CacheAssumption DEF TypeOK
<1>5. CASE Full(entries)
  <2>1. PICK k \in DOMAIN entries : DOMAIN e = DOMAIN entries \ {k}
    BY <1>5, EvictionType DEF TypeOK
  <2>2. IsFiniteSet(DOMAIN e) /\ Cardinality(DOMAIN e) = n - 1
    BY <1>3, <2>1, FS_RemoveElement
  <2>3. Cardinality(DOMAIN entries') = n - 1 \/ Cardinality(DOMAIN entries') = n
    <3>1. Cardinality(DOMAIN e \cup {j}) =
              IF j \in DOMAIN e THEN n - 1 ELSE (n - 1) + 1
      BY <2>2, FS_AddElement
    <3> QED  BY <1>2, <1>3, <3>1
  <2>4. stat'.evictions = stat.evictions + 1
    BY <1>5 DEF Store, TypeOK
  <2> QED  BY <1>3, <1>4, <2>3, <2>4 DEF CapacityBound
<1>6. CASE ~Full(entries)
  <2>1. e = entries
    BY <1>6, EvictionType DEF TypeOK
  <2>2. Cardinality(DOMAIN entries') \in {n, n + 1}
    BY <1>2, <1>3, <2>1, FS_AddElement
  <2>3. stat'.evictions = stat.evictions
    BY <1>6 DEF Store, TypeOK
  <2>4. MaxSize > 0 => n < MaxSize
    BY <1>3, <1>4, <1>6 DEF Full
  <2> QED  BY <1>3, <1>4, <2>2, <2>3, <2>4 DEF CapacityBound
<1> QED  BY <1>5, <1>6

\* A caller without a cache is never at a step that touches one.
DirectPassesBy ==
    \A c \in Callers \cap Direct :
        pc[c] \in {"idle", "dial", "answered", "fresh", "error"}

\* The counters are only right because of it: a direct caller is not counted.
Accounts ==
    /\ CapacityBound
    /\ DirectPassesBy
    /\ StatsAccount
    /\ EveryBillCounted
    /\ EntriesPaidFor

LEMMA InitAccounts == Init => Accounts
<1> SUFFICES ASSUME Init PROVE Accounts
  OBVIOUS
<1>1. \A S : "idle" \notin S => At(S) = {}
  BY DEF Init, At, Cached
<1>2. DOMAIN entries = {}
  BY DEF Init, EmptyCache
<1>3. Cardinality({}) = 0
  BY FS_EmptySet
<1>4. Uncounted = {} /\ Dialling = {} /\ Unstored = {}
  BY <1>1 DEF Uncounted, Dialling, Unstored
<1>5. CapacityBound
  BY <1>2, <1>3, CacheAssumption DEF CapacityBound
<1>6. DirectPassesBy
  BY DEF Init, DirectPassesBy
<1>7. StatsAccount /\ EveryBillCounted /\ EntriesPaidFor
  <2>1. stat.hits = 0 /\ stat.misses = 0 /\ stat.evictions = 0
    BY DEF Init
  <2>2. billed["cached"] = 0 /\ started["cached"] = 0
    BY DEF Init
  <2> QED
    BY <1>2, <1>3, <1>4, <2>1, <2>2
       DEF StatsAccount, EveryBillCounted, EntriesPaidFor
<1> QED  BY <1>5, <1>6, <1>7 DEF Accounts

\* One action at a time: which of the three groups of steps the caller leaves
\* and enters, and which counter moves with it.
LEMMA StepAccounts == TypeOK /\ Accounts /\ [Next]_vars => Accounts'
<1> SUFFICES ASSUME TypeOK, Accounts, [Next]_vars PROVE Accounts'
  OBVIOUS
<1> USE DEF Kind, Returned
<1>1. /\ stat.hits \in Nat /\ stat.misses \in Nat /\ stat.evictions \in Nat
      /\ billed["cached"] \in Nat /\ started["cached"] \in Nat
      /\ Cardinality(DOMAIN entries) \in Nat
      /\ pc \in [Callers -> Steps]
      /\ Cardinality(Uncounted) \in Nat /\ Cardinality(Dialling) \in Nat
      /\ Cardinality(Unstored) \in Nat
  <2>1. \A S : IsFiniteSet(At(S))
    BY CallerAssumption, FS_Subset DEF At, Cached
  <2> QED
    BY <2>1, EntriesFinite, FS_CardinalityType
       DEF TypeOK, Uncounted, Dialling, Unstored
<1>2. ASSUME NEW c \in Callers, NEW step, Goto(c, step)
      PROVE  /\ Cardinality(Uncounted') =
                  IF c \notin Cached
                     \/ (pc[c] \in {"lookup", "hit", "miss"}
                           <=> step \in {"lookup", "hit", "miss"})
                  THEN Cardinality(Uncounted)
                  ELSE IF step \in {"lookup", "hit", "miss"}
                       THEN Cardinality(Uncounted) + 1
                       ELSE Cardinality(Uncounted) - 1
             /\ Cardinality(Dialling') =
                  IF c \notin Cached \/ (pc[c] = "dial" <=> step = "dial")
                  THEN Cardinality(Dialling)
                  ELSE IF step = "dial" THEN Cardinality(Dialling) + 1
                                        ELSE Cardinality(Dialling) - 1
             /\ Cardinality(Unstored') =
                  IF c \notin Cached
                     \/ (pc[c] \in {"answered", "store"}
                           <=> step \in {"answered", "store"})
                  THEN Cardinality(Unstored)
                  ELSE IF step \in {"answered", "store"}
                       THEN Cardinality(Unstored) + 1
                       ELSE Cardinality(Unstored) - 1
  <2>1. \A x : x \in {"dial"} <=> x = "dial"
    OBVIOUS
  <2>2. Cardinality(Dialling') =
            IF c \notin Cached \/ (pc[c] = "dial" <=> step = "dial")
            THEN Cardinality(Dialling)
            ELSE IF step = "dial" THEN Cardinality(Dialling) + 1
                                  ELSE Cardinality(Dialling) - 1
    BY <1>1, <1>2, <2>1, Moved DEF Dialling, Goto
  <2> QED  BY <1>1, <1>2, <2>2, Moved DEF Uncounted, Unstored, Goto
<1>3. ASSUME NEW c \in Callers, NEW step \in Steps, Goto(c, step),
             c \in Direct => step \in {"idle", "dial", "answered", "fresh", "error"}
      PROVE  DirectPassesBy'
  BY <1>1, <1>3 DEF Accounts, DirectPassesBy, Goto
<1>4. ASSUME NEW c \in Callers, c \in Direct
      PROVE  pc[c] \in {"idle", "dial", "answered", "fresh", "error"}
  BY <1>4 DEF Accounts, DirectPassesBy
<1> USE DEF Accounts, StatsAccount, EveryBillCounted, EntriesPaidFor, CapacityBound
<1>5. ASSUME NEW c \in Callers, NEW r \in Asked, Call(c, r) PROVE Accounts'
  <2>1. CASE c \in Direct
    <3>1. Goto(c, "dial") /\ started' = [started EXCEPT !["direct"] = @ + 1]
      BY <1>5, <2>1 DEF Call
    <3>2. started'["cached"] = started["cached"]
      BY <3>1 DEF TypeOK
    <3> QED  BY <1>1, <1>2, <1>3, <1>5, <2>1, <3>1, <3>2 DEF Call, Cached, Steps
  <2>2. CASE c \notin Direct
    <3>1. Goto(c, "lookup") /\ started' = [started EXCEPT !["cached"] = @ + 1]
      BY <1>5, <2>2 DEF Call
    <3>2. started'["cached"] = started["cached"] + 1
      BY <3>1 DEF TypeOK
    <3>3. /\ Cardinality(Uncounted') = Cardinality(Uncounted) + 1
          /\ Cardinality(Dialling') = Cardinality(Dialling)
        /\ Cardinality(Unstored') = Cardinality(Unstored)
      BY <1>2, <1>5, <2>2, <3>1 DEF Call, Cached
    <3>4. DirectPassesBy'
      BY <1>3, <2>2, <3>1 DEF Steps
    <3>5. UNCHANGED <<entries, stat, billed>>
      BY <1>5 DEF Call
    <3>6. stat.hits + stat.misses + (Cardinality(Uncounted) + 1)
              = (stat.hits + stat.misses + Cardinality(Uncounted)) + 1
      BY <1>1
    <3>7. StatsAccount'
      BY <3>2, <3>3, <3>5, <3>6
    <3> QED  BY <1>1, <3>2, <3>3, <3>4, <3>5, <3>7
  <2> QED  BY <2>1, <2>2
<1>6. ASSUME NEW c \in Callers, NilClient(c) PROVE Accounts'
  BY <1>1, <1>2, <1>3, <1>6 DEF NilClient, Steps
<1>7. ASSUME NEW c \in Callers, Lookup(c) PROVE Accounts'
  <2>1. c \in Cached /\ \E step \in {"hit", "miss"} : Goto(c, step)
    BY <1>4, <1>7 DEF Lookup, Cached
  <2> QED  BY <1>1, <1>2, <1>3, <1>7, <2>1 DEF Lookup, Cached, Steps
<1>8. ASSUME NEW c \in Callers, CountHit(c) PROVE Accounts'
  <2>1. c \in Cached /\ Goto(c, "replay")
    BY <1>4, <1>8 DEF CountHit, Cached
  <2>2. stat'.hits = stat.hits + 1 /\ stat'.misses = stat.misses
        /\ stat'.evictions = stat.evictions
    BY <1>8 DEF CountHit, TypeOK
  <2>5. UNCHANGED <<entries, started, billed>>
    BY <1>8 DEF CountHit
  <2>3. /\ Cardinality(Uncounted') = Cardinality(Uncounted) - 1
        /\ Cardinality(Dialling') = Cardinality(Dialling)
        /\ Cardinality(Unstored') = Cardinality(Unstored)
    BY <1>2, <1>8, <2>1 DEF CountHit
  <2>4. DirectPassesBy'
    BY <1>3, <2>1 DEF Cached, Steps
  <2>6. (stat.hits + 1) + stat.misses + (Cardinality(Uncounted) - 1)
            = stat.hits + stat.misses + Cardinality(Uncounted)
    BY <1>1
  <2>7. StatsAccount'
    BY <2>2, <2>3, <2>5, <2>6
  <2> QED  BY <1>1, <2>2, <2>3, <2>4, <2>5, <2>7
<1>9. ASSUME NEW c \in Callers, CountMiss(c) PROVE Accounts'
  <2>1. c \in Cached /\ Goto(c, "dial")
    BY <1>4, <1>9 DEF CountMiss, Cached
  <2>2. stat'.misses = stat.misses + 1 /\ stat'.hits = stat.hits
        /\ stat'.evictions = stat.evictions
    BY <1>9 DEF CountMiss, TypeOK
  <2>5. UNCHANGED <<entries, started, billed>>
    BY <1>9 DEF CountMiss
  <2>3. /\ Cardinality(Uncounted') = Cardinality(Uncounted) - 1
        /\ Cardinality(Dialling') = Cardinality(Dialling) + 1
        /\ Cardinality(Unstored') = Cardinality(Unstored)
    BY <1>2, <1>9, <2>1 DEF CountMiss
  <2>4. DirectPassesBy'
    BY <1>3, <2>1 DEF Cached, Steps
  <2>6. stat.hits + (stat.misses + 1) + (Cardinality(Uncounted) - 1)
            = stat.hits + stat.misses + Cardinality(Uncounted)
    BY <1>1
  <2>7. StatsAccount'
    BY <2>2, <2>3, <2>5, <2>6
  <2> QED  BY <1>1, <2>2, <2>3, <2>4, <2>5, <2>7
<1>10. ASSUME NEW c \in Callers, Answer(c) PROVE Accounts'
  <2>1. CASE c \in Direct
    <3>1. billed'["cached"] = billed["cached"]
      BY <1>10, <2>1 DEF Answer, TypeOK
    <3> QED  BY <1>1, <1>2, <1>3, <1>10, <2>1, <3>1 DEF Answer, Cached, Steps
  <2>2. CASE c \notin Direct
    <3>1. billed'["cached"] = billed["cached"] + 1
      BY <1>10, <2>2 DEF Answer, TypeOK
    <3>2. /\ Cardinality(Uncounted') = Cardinality(Uncounted)
          /\ Cardinality(Dialling') = Cardinality(Dialling) - 1
          /\ Cardinality(Unstored') = Cardinality(Unstored) + 1
      BY <1>2, <1>10, <2>2 DEF Answer, Cached
    <3>3. DirectPassesBy'
      BY <1>3, <1>10, <2>2 DEF Answer, Steps
    <3>4. UNCHANGED <<entries, stat, started>>
      BY <1>10 DEF Answer
    <3> QED  BY <1>1, <3>1, <3>2, <3>3, <3>4
  <2> QED  BY <2>1, <2>2
<1>11. ASSUME NEW c \in Callers, Deliver(c) PROVE Accounts'
  BY <1>1, <1>2, <1>3, <1>11 DEF Deliver, Cached, Steps
<1>12. ASSUME NEW c \in Callers, ChatError(c) PROVE Accounts'
  <2>1. Goto(c, "error")
    BY <1>12 DEF ChatError
  <2>2. /\ Cardinality(Uncounted') = Cardinality(Uncounted)
        /\ Cardinality(Dialling') <= Cardinality(Dialling)
        /\ Cardinality(Unstored') <= Cardinality(Unstored)
    <3>1. pc[c] \notin {"lookup", "hit", "miss"}
      BY <1>12 DEF ChatError
    <3>2. Cardinality(Uncounted') = Cardinality(Uncounted)
      BY <1>2, <2>1, <3>1
    <3>3. Cardinality(Dialling') = Cardinality(Dialling)
            \/ Cardinality(Dialling') = Cardinality(Dialling) - 1
      BY <1>2, <2>1
    <3>4. Cardinality(Unstored') = Cardinality(Unstored)
            \/ Cardinality(Unstored') = Cardinality(Unstored) - 1
      BY <1>2, <2>1
    <3> QED  BY <1>1, <3>2, <3>3, <3>4
  <2>3. Cardinality(Dialling') \in Nat /\ Cardinality(Unstored') \in Nat
    <3>1. pc' \in [Callers -> Steps]
      BY <1>1, <2>1 DEF Goto, Steps
    <3> QED  BY <3>1, CallerAssumption, FS_Subset, FS_CardinalityType
         DEF Dialling, Unstored, At, Cached
  <2>4. DirectPassesBy'
    BY <1>3, <2>1 DEF Steps
  <2>5. UNCHANGED <<entries, stat, started, billed>>
    BY <1>12 DEF ChatError
  <2> QED  BY <1>1, <2>2, <2>3, <2>4, <2>5
<1>13. ASSUME NEW c \in Callers, Store(c) PROVE Accounts'
  <2>1. c \in Cached /\ Goto(c, "fresh")
    BY <1>4, <1>13 DEF Store, Cached
  <2>2. stat'.misses = stat.misses /\ stat'.hits = stat.hits
        /\ stat'.evictions \in Nat
    BY <1>1, <1>13 DEF Store, TypeOK
  <2>3. Cardinality(DOMAIN entries') \in Nat
    BY <1>13, StoreType, CacheAssumption, FS_Subset, FS_CardinalityType
  <2>4. DirectPassesBy' /\ StatsAccount' /\ EveryBillCounted'
    BY <1>1, <1>2, <1>3, <1>13, <2>1, <2>2 DEF Store, Cached, Steps
  <2>5. EntriesPaidFor'
    <3>1. Cardinality(Unstored') = Cardinality(Unstored) - 1
      BY <1>2, <1>13, <2>1 DEF Store
    <3>2. Cardinality(DOMAIN entries') + stat'.evictions
              <= Cardinality(DOMAIN entries) + stat.evictions + 1
      BY <1>13, StoreSize
    <3>3. billed' = billed
      BY <1>13 DEF Store
    <3> QED  BY <1>1, <2>2, <2>3, <3>1, <3>2, <3>3
  <2> QED  BY <1>13, <2>4, <2>5, StoreSize
<1>14. CASE UNCHANGED <<entries, stat, pc, started, billed>>
  BY <1>14 DEF Uncounted, Dialling, Unstored, At, DirectPassesBy
<1> QED
  BY <1>5, <1>6, <1>7, <1>8, <1>9, <1>10, <1>11, <1>12, <1>13, <1>14
     DEF Next, Advance, Tick, SetClock, vars

\* Every reachable state is well typed, and its accounts agree.
LEMMA AccountsInvariant == Spec => [](TypeOK /\ Accounts)
<1>1. Init => TypeOK /\ Accounts
  BY InitType, InitAccounts
<1>2. TypeOK /\ Accounts /\ [Next]_vars => (TypeOK /\ Accounts)'
  BY StepType, StepAccounts
<1> QED  BY <1>1, <1>2, PTL DEF Spec

\* The size cap holds for any number of goroutines, any clock and any hash.
THEOREM CapacityHolds == Spec => []CapacityBound
<1>1. Accounts => CapacityBound
  BY DEF Accounts
<1> QED  BY <1>1, AccountsInvariant, PTL

\* GetStats accounts for every call, but for the lookups that are between their
\* two critical sections.
THEOREM StatsHold == Spec => []StatsAccount
<1>1. Accounts => StatsAccount
  BY DEF Accounts
<1> QED  BY <1>1, AccountsInvariant, PTL

\* No call is charged for that is not counted as a miss, whatever happens
\* between the counters' critical sections.
THEOREM BillsHold == Spec => []EveryBillCounted
<1>1. Accounts => EveryBillCounted
  BY DEF Accounts
<1> QED  BY <1>1, AccountsInvariant, PTL

\* Every entry the cache holds or has held was paid for.
THEOREM EntriesHold == Spec => []EntriesPaidFor
<1>1. Accounts => EntriesPaidFor
  BY DEF Accounts
<1> QED  BY <1>1, AccountsInvariant, PTL
-----------------------------------------------------------------------------
(* What an answer answers. *)

\* The answer on its way to Store is the answer to the caller's own request.
InFlightAnswers ==
    \A c \in Callers :
        pc[c] \in {"answered", "store"} => resp[c].req = Wire(req[c])

\* An entry answers every request that has its job id.
EntriesAnswer ==
    \A j \in DOMAIN entries, r \in Requests :
        JobID(r) = j => entries[j].resp.req = Wire(r)

CallersAnswered ==
    \A c \in Callers : resp[c] # NoResp => resp[c].req = Wire(req[c])

\* An injective hash makes JobID injective on requests.
LEMMA JobIDInjective ==
    ASSUME HashInjective, NEW r \in Requests, NEW s \in Requests, JobID(r) = JobID(s)
    PROVE  r = s
<1>1. /\ <<r.fp, r.model, r.backend>> \in Prints \X Models \X Backends
      /\ <<s.fp, s.model, s.backend>> \in Prints \X Models \X Backends
  BY DEF Requests
<1>2. r.fp = s.fp /\ r.model = s.model /\ r.backend = s.backend
  BY <1>1 DEF HashInjective, JobID
<1> QED  BY <1>2 DEF Requests

LEMMA InitAnswers == Init => InFlightAnswers /\ EntriesAnswer /\ CallersAnswered
  BY DEF Init, EmptyCache, InFlightAnswers, EntriesAnswer, CallersAnswered

\* Whatever the hash, an answer in flight belongs to the caller that waits.
LEMMA StepInFlight == TypeOK /\ InFlightAnswers /\ [Next]_vars => InFlightAnswers'
<1> SUFFICES ASSUME TypeOK, InFlightAnswers, [Next]_vars PROVE InFlightAnswers'
  OBVIOUS
<1> USE DEF InFlightAnswers, Goto
<1>1. /\ pc \in [Callers -> Steps]
      /\ req \in [Callers -> Requests \cup {NoReq}]
      /\ resp \in [Callers -> Responses \cup {NoResp}]
  BY DEF TypeOK
<1>2. ASSUME NEW c \in Callers, NEW r \in Asked, Call(c, r) PROVE InFlightAnswers'
  BY <1>1, <1>2 DEF Call
<1>3. ASSUME NEW c \in Callers, NilClient(c) PROVE InFlightAnswers'
  BY <1>1, <1>3 DEF NilClient
<1>4. ASSUME NEW c \in Callers, Lookup(c) PROVE InFlightAnswers'
  BY <1>1, <1>4 DEF Lookup
<1>5. ASSUME NEW c \in Callers, CountHit(c) \/ CountMiss(c) \/ Deliver(c)
      PROVE  InFlightAnswers'
  BY <1>1, <1>5 DEF CountHit, CountMiss, Deliver
<1>6. ASSUME NEW c \in Callers, Answer(c) PROVE InFlightAnswers'
  BY <1>1, <1>6 DEF Answer
<1>7. ASSUME NEW c \in Callers, ChatError(c) PROVE InFlightAnswers'
  BY <1>1, <1>7 DEF ChatError
<1>8. ASSUME NEW c \in Callers, Store(c) PROVE InFlightAnswers'
  BY <1>1, <1>8 DEF Store
<1>9. CASE UNCHANGED <<pc, req, resp>>
  BY <1>9
<1> QED
  BY <1>2, <1>3, <1>4, <1>5, <1>6, <1>7, <1>8, <1>9
     DEF Next, Advance, Tick, SetClock, vars

\* With an injective hash an entry answers its job, however often it has been
\* overwritten, and so does the replay taken from it.
LEMMA StepAnswers ==
    ASSUME HashInjective, TypeOK, InFlightAnswers, EntriesAnswer, CallersAnswered,
           [Next]_vars
    PROVE  EntriesAnswer' /\ CallersAnswered'
<1> USE DEF Goto, Returned
<1>1. /\ pc \in [Callers -> Steps]
      /\ req \in [Callers -> Requests \cup {NoReq}]
      /\ resp \in [Callers -> Responses \cup {NoResp}]
  BY DEF TypeOK
<1>2. ASSUME NEW c \in Callers, NEW r \in Asked, Call(c, r)
      PROVE  EntriesAnswer' /\ CallersAnswered'
  BY <1>1, <1>2 DEF Call, EntriesAnswer, CallersAnswered
<1>3. ASSUME NEW c \in Callers, NilClient(c) PROVE EntriesAnswer' /\ CallersAnswered'
  BY <1>1, <1>3 DEF NilClient, EntriesAnswer, CallersAnswered
<1>4. ASSUME NEW c \in Callers, Lookup(c) PROVE EntriesAnswer' /\ CallersAnswered'
  <2>1. EntriesAnswer'
    BY <1>4 DEF Lookup, EntriesAnswer
  <2>2. req[c] \in Requests
    BY <1>4 DEF Lookup, TypeOK
  <2>3. CASE Hit(entries, JobID(req[c]), now)
    <3>1. entries[JobID(req[c])].resp.req = Wire(req[c])
      BY <2>2, <2>3 DEF Hit, EntriesAnswer
    <3> QED  BY <1>1, <1>4, <2>1, <2>3, <3>1 DEF Lookup, CallersAnswered
  <2>4. CASE ~Hit(entries, JobID(req[c]), now)
    BY <1>4, <2>1, <2>4 DEF Lookup, CallersAnswered
  <2> QED  BY <2>3, <2>4
<1>5. ASSUME NEW c \in Callers, CountHit(c) \/ CountMiss(c) \/ Deliver(c)
      PROVE  EntriesAnswer' /\ CallersAnswered'
  BY <1>5 DEF CountHit, CountMiss, Deliver, EntriesAnswer, CallersAnswered
<1>6. ASSUME NEW c \in Callers, Answer(c) PROVE EntriesAnswer' /\ CallersAnswered'
  BY <1>1, <1>6 DEF Answer, EntriesAnswer, CallersAnswered
<1>7. ASSUME NEW c \in Callers, ChatError(c) PROVE EntriesAnswer' /\ CallersAnswered'
  BY <1>1, <1>7 DEF ChatError, EntriesAnswer, CallersAnswered
<1>8. ASSUME NEW c \in Callers, Store(c) PROVE EntriesAnswer' /\ CallersAnswered'
  <2>1. PICK e \in AfterEviction(entries) :
            entries' = Insert(e, JobID(req[c]), resp[c], now)
    BY <1>8 DEF Store
  <2>2. DOMAIN e \subseteq DOMAIN entries /\ \A j \in DOMAIN e : e[j] = entries[j]
    BY EvictionType DEF TypeOK
  <2>3. req[c] \in Requests /\ resp[c].req = Wire(req[c])
    BY <1>8 DEF Store, TypeOK, InFlightAnswers
  <2>4. EntriesAnswer'
    <3> SUFFICES ASSUME NEW j \in DOMAIN entries', NEW r \in Requests, JobID(r) = j
                 PROVE  entries'[j].resp.req = Wire(r)
      BY DEF EntriesAnswer
    <3>1. CASE j = JobID(req[c])
      <4>1. r = req[c]
        BY <2>3, <3>1, JobIDInjective
      <4>2. entries'[j].resp = resp[c]
        BY <2>1, <3>1 DEF Insert
      <4> QED  BY <2>3, <4>1, <4>2
    <3>2. CASE j # JobID(req[c])
      <4>1. j \in DOMAIN e /\ entries'[j] = entries[j]
        BY <2>1, <2>2, <3>2 DEF Insert
      <4> QED  BY <2>2, <4>1 DEF EntriesAnswer
    <3> QED  BY <3>1, <3>2
  <2> QED  BY <1>8, <2>4 DEF Store, CallersAnswered
<1>9. CASE UNCHANGED <<entries, req, resp>>
  BY <1>9 DEF EntriesAnswer, CallersAnswered
<1> QED
  BY <1>2, <1>3, <1>4, <1>5, <1>6, <1>7, <1>8, <1>9
     DEF Next, Advance, Tick, SetClock, vars

\* Where the hash keeps the triples apart, no caller ever holds an answer to
\* another request than its own.
THEOREM AnswersHold == Spec => []AnswersRequest
<1>1. Init => TypeOK /\ InFlightAnswers
  BY InitType, InitAnswers
<1>2. TypeOK /\ InFlightAnswers /\ [Next]_vars => (TypeOK /\ InFlightAnswers)'
  BY StepType, StepInFlight
<1> DEFINE Inv == HashInjective => EntriesAnswer /\ CallersAnswered
<1>3. Init => Inv
  BY InitAnswers
<1>4. TypeOK /\ InFlightAnswers /\ Inv /\ [Next]_vars => Inv'
  BY StepAnswers DEF HashInjective
<1>5. Inv => AnswersRequest
  BY DEF AnswersRequest, CallersAnswered
<1> QED
  <2> HIDE DEF Inv
  <2> QED  BY <1>1, <1>2, <1>3, <1>4, <1>5, PTL DEF Spec
-----------------------------------------------------------------------------
(* IdempotencyCache implements IdempotentChat: every critical section is a *)
(* step of the promise or is not seen by it.                               *)

LEMMA InitPromise == Init => Promise!Init
  BY DEF Init, Promise!Init, Remembered, Phase, Answered, EmptyCache

\* Both modules mean the same requests, responses and wire format.
LEMMA SameChat ==
    /\ Promise!Requests = Requests
    /\ Promise!Responses = Responses
    /\ \A r : Promise!Wire(r) = Wire(r)
  BY DEF Promise!Requests, Requests, Promise!Responses, Responses, Promise!Wire, Wire

LEMMA SameCardinality == \A S : Promise!Cardinality(S) = Cardinality(S)
  BY DEF Promise!Cardinality, Cardinality

\* A caller that moves shows its new phase and answer; the others do not change.
LEMMA PhaseMoves ==
    ASSUME TypeOK, NEW c \in Callers, NEW step, Goto(c, step),
           \A d \in Callers \ {c} : resp'[d] = resp[d]
    PROVE  /\ [d \in Callers |-> Phase(d)]' =
                  [[d \in Callers |-> Phase(d)] EXCEPT ![c] = Phase(c)']
           /\ [d \in Callers |-> Answered(d)]' =
                  [[d \in Callers |-> Answered(d)] EXCEPT ![c] = Answered(c)']
           /\ pc'[c] = step
<1>1. /\ pc'[c] = step
      /\ \A d \in Callers \ {c} : pc'[d] = pc[d]
  BY DEF Goto, TypeOK
<1>2. \A d \in Callers \ {c} : Phase(d)' = Phase(d) /\ Answered(d)' = Answered(d)
  BY <1>1 DEF Phase, Answered
<1> QED  BY <1>1, <1>2

\* What Store leaves remembered: the new answer, and of the others a part.
LEMMA StoreRemembers ==
    ASSUME TypeOK, NEW c \in Callers, Store(c)
    PROVE  LET new == [job |-> JobID(req[c]), resp |-> resp[c], at |-> now] IN
           /\ new \in Remembered'
           /\ Remembered' \subseteq {m \in Remembered : m.job # new.job} \cup {new}
<1> DEFINE new == [job |-> JobID(req[c]), resp |-> resp[c], at |-> now]
<1>1. PICK e \in AfterEviction(entries) :
          entries' = Insert(e, JobID(req[c]), resp[c], now)
  BY DEF Store
<1>2. DOMAIN e \subseteq DOMAIN entries /\ \A j \in DOMAIN e : e[j] = entries[j]
  BY EvictionType DEF TypeOK
<1>3. /\ DOMAIN entries' = DOMAIN e \cup {new.job}
      /\ entries'[new.job] = [resp |-> resp[c], storedAt |-> now]
      /\ \A j \in DOMAIN e \ {new.job} : entries'[j] = entries[j]
  BY <1>1, <1>2 DEF Insert
<1>4. new \in Remembered'
  BY <1>3 DEF Remembered
<1>5. ASSUME NEW m \in Remembered', m # new
      PROVE  m \in Remembered /\ m.job # new.job
  <2>1. PICK j \in DOMAIN entries' :
            m = [job |-> j, resp |-> entries'[j].resp, at |-> entries'[j].storedAt]
    BY <1>5 DEF Remembered
  <2>2. j # new.job
    BY <1>3, <1>5, <2>1
  <2>3. j \in DOMAIN entries /\ entries'[j] = entries[j]
    BY <1>2, <1>3, <2>2
  <2> QED  BY <2>1, <2>2, <2>3 DEF Remembered
<1> QED  BY <1>4, <1>5

\* There are no more remembered answers than entries.
LEMMA RememberedSize ==
    ASSUME NEW e, IsFiniteSet(DOMAIN e)
    PROVE  LET R == {[job |-> j, resp |-> e[j].resp, at |-> e[j].storedAt] :
                        j \in DOMAIN e} IN
           Cardinality(R) \in Nat /\ Cardinality(R) <= Cardinality(DOMAIN e)
<1> DEFINE R == {[job |-> j, resp |-> e[j].resp, at |-> e[j].storedAt] : j \in DOMAIN e}
           f == [j \in DOMAIN e |->
                   [job |-> j, resp |-> e[j].resp, at |-> e[j].storedAt]]
<1>1. f \in Surjection(DOMAIN e, R)
  BY DEF Surjection
<1> QED  BY <1>1, FS_Surjection, FS_CardinalityType

\* One action at a time: the step of the promise that it is.
LEMMA StepPromise ==
    ASSUME TypeOK, TypeOK', Accounts, Accounts', InFlightAnswers, [Next]_vars
    PROVE  [Promise!Next]_Promise!vars
<1> USE DEF Promise!Close, Returned, Promise!Closed
<1> DEFINE P == [d \in Callers |-> Phase(d)]
           A == [d \in Callers |-> Answered(d)]
           Hidden == Remembered' = Remembered /\ now' = now /\ P' = P /\ req' = req /\ A' = A
<1>0. Hidden => [Promise!Next]_Promise!vars
  BY DEF Promise!vars
<1>1. ASSUME NEW c \in Callers, NEW r \in Asked, Call(c, r) PROVE Promise!Open(c)
  <2>1. Goto(c, IF c \in Direct THEN "dial" ELSE "lookup") /\ resp' = [resp EXCEPT ![c] = NoResp]
    BY <1>1 DEF Call
  <2>2. /\ P' = [P EXCEPT ![c] = Phase(c)'] /\ A' = [A EXCEPT ![c] = Answered(c)']
        /\ pc'[c] = IF c \in Direct THEN "dial" ELSE "lookup"
    BY <2>1, PhaseMoves DEF TypeOK
  <2>3. P[c] \in Promise!Closed
    BY <1>1 DEF Call, Phase
  <2>4. Phase(c)' = (IF c \in Cached THEN "asked" ELSE "upstream") /\ Answered(c)' = NoResp
    BY <1>1, <2>1, <2>2 DEF Phase, Answered, Cached, TypeOK
  <2>5. req'[c] \in Requests /\ req' = [req EXCEPT ![c] = req'[c]]
    BY <1>1, CallerAssumption DEF Call, TypeOK
  <2>6. Remembered' = Remembered /\ now' = now
    BY <1>1 DEF Call, Remembered
  <2>7. P' = [P EXCEPT ![c] = IF c \in Cached THEN "asked" ELSE "upstream"]
    BY <2>2, <2>4
  <2>8. A' = [A EXCEPT ![c] = NoResp]
    BY <2>2, <2>4
  <2> QED  BY <2>3, <2>5, <2>6, <2>7, <2>8, SameChat DEF Promise!Open
<1>2. ASSUME NEW c \in Callers, NilClient(c) PROVE Promise!Refuse(c)
  <2>1. Goto(c, "error") /\ resp' = [resp EXCEPT ![c] = NoResp]
    BY <1>2 DEF NilClient
  <2>2. /\ P' = [P EXCEPT ![c] = Phase(c)'] /\ A' = [A EXCEPT ![c] = Answered(c)']
        /\ pc'[c] = "error"
    BY <2>1, PhaseMoves DEF TypeOK
  <2>3. P[c] \in Promise!Closed
    BY <1>2 DEF NilClient, Phase
  <2>4. Phase(c)' = "error" /\ Answered(c)' = NoResp
    BY <2>1, <2>2 DEF Phase, Answered, TypeOK
  <2>5. Remembered' = Remembered /\ UNCHANGED <<now, req>>
    BY <1>2 DEF NilClient, Remembered
  <2> QED  BY <2>2, <2>3, <2>4, <2>5 DEF Promise!Refuse
<1>3. ASSUME NEW c \in Callers, Lookup(c) PROVE Promise!Replay(c) \/ Promise!GoUpstream(c)
  <2> DEFINE j == JobID(req[c])
  <2>1. P[c] = "asked"
    BY <1>3 DEF Lookup, Phase
  <2>2. Remembered' = Remembered /\ UNCHANGED <<now, req>>
    BY <1>3 DEF Lookup, Remembered
  <2>3. CASE Hit(entries, j, now)
    <3>1. Goto(c, "hit") /\ resp' = [resp EXCEPT ![c] = entries[j].resp]
      BY <1>3, <2>3 DEF Lookup
    <3>2. /\ P' = [P EXCEPT ![c] = Phase(c)'] /\ A' = [A EXCEPT ![c] = Answered(c)']
          /\ pc'[c] = "hit"
      BY <3>1, PhaseMoves DEF TypeOK
    <3>3. Phase(c)' = "replay" /\ Answered(c)' = entries[j].resp
      BY <3>1, <3>2 DEF Phase, Answered, TypeOK
    <3> DEFINE m == [job |-> j, resp |-> entries[j].resp, at |-> entries[j].storedAt]
    <3>4. m \in Promise!Known(j)
      <4>1. j \in DOMAIN entries /\ ~(TTL > 0 /\ now - entries[j].storedAt > TTL)
        BY <2>3 DEF Hit
      <4>2. entries[j].storedAt \in Int /\ now \in Int /\ TTL \in Nat
        BY <4>1, CacheAssumption DEF TypeOK, Entries
      <4>3. TTL > 0 => now - entries[j].storedAt <= TTL
        BY <4>1, <4>2
      <4>4. m \in Remembered
        BY <4>1 DEF Remembered
      <4> QED  BY <4>3, <4>4 DEF Promise!Known, Promise!Fresh
    <3>5. Promise!Replay(c)
      BY <2>1, <2>2, <3>2, <3>3, <3>4 DEF Promise!Replay
    <3> QED  BY <3>5
  <2>4. CASE ~Hit(entries, j, now)
    <3>1. Goto(c, "miss") /\ resp' = resp
      BY <1>3, <2>4 DEF Lookup
    <3>2. /\ P' = [P EXCEPT ![c] = Phase(c)'] /\ A' = [A EXCEPT ![c] = Answered(c)']
          /\ pc'[c] = "miss"
      BY <3>1, PhaseMoves
    <3>3. Phase(c)' = "upstream" /\ Answered(c)' = Answered(c)
      BY <1>3, <3>1, <3>2 DEF Lookup, Phase, Answered
    <3>4. Promise!Known(j) = {}
      <4> SUFFICES ASSUME NEW m \in Remembered, m.job = j, TTL > 0 => now - m.at <= TTL
                   PROVE  FALSE
        BY DEF Promise!Known, Promise!Fresh
      <4>1. j \in DOMAIN entries /\ m.at = entries[j].storedAt
        BY DEF Remembered
      <4>2. entries[j].storedAt \in Int /\ now \in Int /\ TTL \in Nat
        BY <4>1, CacheAssumption DEF TypeOK, Entries
      <4> QED  BY <2>4, <4>1, <4>2 DEF Hit
    <3>5. A' = A
      BY <3>2, <3>3
    <3> QED  BY <2>1, <2>2, <3>2, <3>3, <3>4, <3>5 DEF Promise!GoUpstream
  <2> QED  BY <2>3, <2>4
<1>4. ASSUME NEW c \in Callers, CountHit(c) PROVE Hidden
  <2>1. Goto(c, "replay") /\ resp' = resp
    BY <1>4 DEF CountHit
  <2>2. /\ P' = [P EXCEPT ![c] = Phase(c)'] /\ A' = [A EXCEPT ![c] = Answered(c)']
        /\ pc'[c] = "replay"
    BY <2>1, PhaseMoves
  <2>3. Phase(c)' = Phase(c) /\ Answered(c)' = Answered(c)
    BY <1>4, <2>1, <2>2 DEF CountHit, Phase, Answered
  <2> QED  BY <1>4, <2>2, <2>3 DEF CountHit, Remembered
<1>5. ASSUME NEW c \in Callers, CountMiss(c) PROVE Hidden
  <2>1. Goto(c, "dial") /\ resp' = resp
    BY <1>5 DEF CountMiss
  <2>2. /\ P' = [P EXCEPT ![c] = Phase(c)'] /\ A' = [A EXCEPT ![c] = Answered(c)']
        /\ pc'[c] = "dial"
    BY <2>1, PhaseMoves
  <2>3. Phase(c)' = Phase(c) /\ Answered(c)' = Answered(c)
    BY <1>5, <2>1, <2>2 DEF CountMiss, Phase, Answered
  <2> QED  BY <1>5, <2>2, <2>3 DEF CountMiss, Remembered
<1>6. ASSUME NEW c \in Callers, Answer(c) PROVE Hidden
  <2>1. Goto(c, "answered") /\ \A d \in Callers \ {c} : resp'[d] = resp[d]
    BY <1>6 DEF Answer, TypeOK
  <2>2. /\ P' = [P EXCEPT ![c] = Phase(c)'] /\ A' = [A EXCEPT ![c] = Answered(c)']
        /\ pc'[c] = "answered"
    BY <2>1, PhaseMoves
  <2>3. Phase(c)' = Phase(c) /\ Answered(c)' = Answered(c)
    BY <1>6, <2>2 DEF Answer, Phase, Answered
  <2> QED  BY <1>6, <2>2, <2>3 DEF Answer, Remembered
<1>7. ASSUME NEW c \in Callers, Deliver(c) PROVE Promise!Learn(c) \/ Hidden
  <2>1. Goto(c, IF c \in Direct THEN "fresh" ELSE "store") /\ resp' = resp
    BY <1>7 DEF Deliver
  <2>2. /\ P' = [P EXCEPT ![c] = Phase(c)'] /\ A' = [A EXCEPT ![c] = Answered(c)']
        /\ pc'[c] = IF c \in Direct THEN "fresh" ELSE "store"
    BY <2>1, PhaseMoves
  <2>3. Remembered' = Remembered /\ UNCHANGED <<now, req>>
    BY <1>7 DEF Deliver, Remembered
  <2>4. CASE c \in Direct
    <3>1. P[c] = "upstream" /\ Phase(c)' = "fresh" /\ Answered(c)' = resp[c]
      BY <1>7, <2>1, <2>2, <2>4 DEF Deliver, Phase, Answered
    <3>2. resp[c] \in Responses /\ resp[c].req = Wire(req[c])
      BY <1>7 DEF Deliver, TypeOK, InFlightAnswers
    <3>3. A'[c] = resp[c]
      BY <2>2, <3>1
    <3>4. P' = [P EXCEPT ![c] = "fresh"] /\ A' = [A EXCEPT ![c] = A'[c]]
      BY <2>2, <3>1, <3>3
    <3>5. c \notin Cached
      BY <2>4 DEF Cached
    <3> QED  BY <2>3, <3>1, <3>2, <3>3, <3>4, <3>5, SameChat DEF Promise!Learn
  <2>5. CASE c \notin Direct
    <3>1. Phase(c)' = Phase(c) /\ Answered(c)' = Answered(c)
      BY <1>7, <2>2, <2>5 DEF Deliver, Phase, Answered
    <3> QED  BY <2>2, <2>3, <3>1
  <2> QED  BY <2>4, <2>5
<1>8. ASSUME NEW c \in Callers, ChatError(c) PROVE Promise!Fail(c)
  <2>1. Goto(c, "error") /\ resp' = [resp EXCEPT ![c] = NoResp]
    BY <1>8 DEF ChatError
  <2>2. /\ P' = [P EXCEPT ![c] = Phase(c)'] /\ A' = [A EXCEPT ![c] = Answered(c)']
        /\ pc'[c] = "error"
    BY <2>1, PhaseMoves DEF TypeOK
  <2>3. P[c] = "upstream" /\ Phase(c)' = "error" /\ Answered(c)' = NoResp
    BY <1>8, <2>1, <2>2 DEF ChatError, Phase, Answered, TypeOK
  <2>4. Remembered' = Remembered /\ UNCHANGED <<now, req>>
    BY <1>8 DEF ChatError, Remembered
  <2> QED  BY <2>2, <2>3, <2>4 DEF Promise!Fail
<1>9. ASSUME NEW c \in Callers, Store(c) PROVE Promise!Learn(c)
  <2>1. Goto(c, "fresh") /\ resp' = resp
    BY <1>9 DEF Store
  <2>2. /\ P' = [P EXCEPT ![c] = Phase(c)'] /\ A' = [A EXCEPT ![c] = Answered(c)']
        /\ pc'[c] = "fresh"
    BY <2>1, PhaseMoves
  <2>3. c \in Cached
    BY <1>9 DEF Store, Accounts, DirectPassesBy, Cached
  <2>4. P[c] = "upstream" /\ Phase(c)' = "fresh" /\ Answered(c)' = resp[c]
    BY <1>9, <2>1, <2>2 DEF Store, Phase, Answered
  <2>5. resp[c] \in Responses /\ resp[c].req = Wire(req[c])
    BY <1>9 DEF Store, TypeOK, InFlightAnswers
  <2>6. A'[c] = resp[c]
    BY <2>2, <2>4
  <2>7. MaxSize > 0 => Cardinality(Remembered') <= MaxSize
    <3>1. IsFiniteSet(DOMAIN entries') /\ Cardinality(DOMAIN entries') \in Nat
      BY CacheAssumption, FS_Subset, FS_CardinalityType DEF TypeOK
    <3>2. Cardinality(Remembered') <= Cardinality(DOMAIN entries')
          /\ Cardinality(Remembered') \in Nat
      BY <3>1, RememberedSize DEF Remembered
    <3> QED  BY <3>1, <3>2, CacheAssumption DEF Accounts, CapacityBound
  <2>8. UNCHANGED <<now, req>>
    BY <1>9 DEF Store
  <2>9. P' = [P EXCEPT ![c] = "fresh"] /\ A' = [A EXCEPT ![c] = A'[c]]
    BY <2>2, <2>4, <2>6
  <2> DEFINE new == [job |-> JobID(req[c]), resp |-> A'[c], at |-> now]
  <2>10. /\ new \in Remembered'
         /\ Remembered' \subseteq {m \in Remembered : m.job # new.job} \cup {new}
    BY <1>9, <2>6, StoreRemembers
  <2>11. new.resp \in Responses /\ new.resp.req = Wire(req[c])
    BY <2>5, <2>6
  <2> QED
    BY <2>3, <2>4, <2>7, <2>8, <2>9, <2>10, <2>11, SameChat, SameCardinality
       DEF Promise!Learn
<1>10. CASE Tick \/ \E t \in ClockSettings : SetClock(t)
  <2>1. UNCHANGED <<entries, pc, req, resp>>
    BY <1>10 DEF Tick, SetClock
  <2>2. Remembered' = Remembered /\ P' = P /\ A' = A
    BY <2>1 DEF Remembered, Phase, Answered
  <2>3. now' \in Int
    BY DEF TypeOK
  <2> QED  BY <2>1, <2>2, <2>3 DEF Promise!Next, Promise!ClockStep
<1>11. CASE UNCHANGED vars
  <2>1. Hidden
    BY <1>11 DEF vars, Remembered, Phase, Answered
  <2> QED  BY <1>0, <2>1
<1>12. ASSUME NEW c \in Callers,
              \/ Promise!Open(c) \/ Promise!Refuse(c) \/ Promise!Replay(c)
              \/ Promise!GoUpstream(c) \/ Promise!Learn(c) \/ Promise!Fail(c)
       PROVE  Promise!Next
  BY <1>12 DEF Promise!Next
<1> HIDE DEF Hidden
<1> QED
  BY <1>0, <1>1, <1>2, <1>3, <1>4, <1>5, <1>6, <1>7, <1>8, <1>9, <1>10, <1>11, <1>12
     DEF Next, Advance

\* CachedChat implements its promise for any number of callers, any hash, TTL,
\* size cap and clock.
THEOREM PromiseKept == Spec => KeepsPromise
<1> DEFINE Inv == TypeOK /\ Accounts /\ InFlightAnswers
<1>1. Init => Inv
  BY InitType, InitAccounts, InitAnswers
<1>2. Inv /\ [Next]_vars => Inv'
  BY StepType, StepAccounts, StepInFlight
<1>3. Inv /\ Inv' /\ [Next]_vars => [Promise!Next]_Promise!vars
  BY StepPromise
<1>4. Init => Promise!Init
  BY InitPromise
<1> QED
  <2> HIDE DEF Inv
  <2> QED  BY <1>1, <1>2, <1>3, <1>4, PTL DEF Spec, KeepsPromise, Promise!Spec
-----------------------------------------------------------------------------
(* What is forgotten, and paid for again: CacheHistory, under a clock that *)
(* is never set back.                                                      *)

\* Of the first n stores of s the i-th is the last one for job j.
IsLast(s, i, j, n) == s[i].job = j /\ \A k \in 1..n : s[k].job = j => k <= i

\* What LastStore and Newer say of the log, of any sequence of stores.
NewerThan(s, i, n) == {k \in 1..n \ {i} : s[k].at >= s[i].at}
Crowded(s, i, n) == MaxSize > 0 /\ Cardinality(NewerThan(s, i, n)) >= MaxSize

\* Of the first n stores none answers for job j at instant t.
Excused(s, j, n, t) ==
    \A i \in 1..n : IsLast(s, i, j, n) =>
        \/ TTL > 0 /\ t - s[i].at > TTL
        \/ Crowded(s, i, n)

Stores == [job : JobIDs, at : Int, after : Nat, asked : Int]
Glances == [after : Nat, asked : Int]

\* The steps of a caller that did not find its job.
Missed == {"miss", "dial", "answered", "store"}

Recorded ==
    /\ log \in Seq(Stores) /\ seen \in [Callers -> Glances]
    /\ \A k \in 1..Len(log) : log[k].at <= now /\ log[k].after <= Len(log)
    /\ \A c \in Callers : seen[c].after <= Len(log)

\* An entry is what the last store of its job has left.
FromLog ==
    \A j \in DOMAIN entries : \E i \in 1..Len(log) :
        IsLast(log, i, j, Len(log)) /\ log[i].at = entries[j].storedAt

Retained ==
    \A j \in JobIDs, i \in 1..Len(log) :
        IsLast(log, i, j, Len(log)) /\ ~Crowded(log, i, Len(log)) => j \in DOMAIN entries

Redialled ==
    /\ \A k \in 1..Len(log) : Excused(log, log[k].job, log[k].after, log[k].asked)
    /\ \A c \in Cached : pc[c] \in Missed =>
          Excused(log, JobID(req[c]), seen[c].after, seen[c].asked)

HistoryInv == Recorded /\ FromLog /\ Retained /\ Redialled

\* Of a set of numbers up to n that is not empty one is the greatest.
LEMMA Greatest ==
    ASSUME NEW n \in Nat, NEW S \in SUBSET (1..n), S # {}
    PROVE  \E i \in S : \A k \in S : k <= i
<1> DEFINE T == {n - i : i \in S}
<1>1. T \in SUBSET Nat /\ T # {}
  <2>1. \A i \in S : n - i \in Nat
    OBVIOUS
  <2> QED  BY <2>1
<1>2. PICK m \in T : \A l \in T : m <= l
  <2> HIDE DEF T
  <2> QED  BY <1>1, LeastNumber
<1>3. PICK i \in S : m = n - i
  BY <1>2
<1>4. ASSUME NEW k \in S PROVE k <= i
  <2>1. n - i <= n - k
    BY <1>2, <1>3
  <2>2. n \in Int /\ i \in Int /\ k \in Int
    OBVIOUS
  <2> QED  BY <2>1, <2>2
<1> QED  BY <1>4

\* LastStore is 0 or the last one.
LEMMA LastStoreIs ==
    ASSUME NEW j, NEW n \in Nat
    PROVE  LastStore(j, n) # 0 =>
              LastStore(j, n) \in 1..n /\ IsLast(log, LastStore(j, n), j, n)
<1> DEFINE S == {i \in 1..n : log[i].job = j}
<1>1. CASE S = {}
  BY <1>1 DEF LastStore
<1>2. CASE S # {}
  <2>1. \E i \in S : \A k \in S : k <= i
    <3>1. S \in SUBSET (1..n)
      OBVIOUS
    <3> HIDE DEF S
    <3> QED  BY <1>2, <3>1, Greatest
  <2>2. LastStore(j, n) = CHOOSE i \in S : \A k \in S : k <= i
    BY <1>2 DEF LastStore
  <2>3. LastStore(j, n) \in S /\ \A k \in S : k <= LastStore(j, n)
    <3> HIDE DEF S
    <3> QED  BY <2>1, <2>2
  <2> QED  BY <2>3 DEF IsLast
<1> QED  BY <1>1, <1>2

\* The last one is one only.
LEMMA LastIsOne ==
    ASSUME NEW s, NEW n \in Nat, NEW j, NEW i \in 1..n, NEW k \in 1..n,
           IsLast(s, i, j, n), IsLast(s, k, j, n)
    PROVE  i = k
<1>1. i <= k /\ k <= i
  BY DEF IsLast
<1> QED  BY <1>1

LEMMA NewerFinite ==
    ASSUME NEW s, NEW i, NEW n \in Nat
    PROVE  IsFiniteSet(NewerThan(s, i, n)) /\ Cardinality(NewerThan(s, i, n)) \in Nat
<1>1. NewerThan(s, i, n) \in SUBSET (1..n) /\ IsFiniteSet(1..n)
  BY FS_Interval DEF NewerThan
<1> QED  BY <1>1, FS_Subset, FS_CardinalityType

\* What is said of the first n stores is said of any log that begins with them.
LEMMA SamePrefix ==
    ASSUME NEW s, NEW t, NEW n \in Nat, \A k \in 1..n : t[k] = s[k]
    PROVE  /\ \A i \in 1..n : \A j : IsLast(t, i, j, n) <=> IsLast(s, i, j, n)
           /\ \A i \in 1..n : Crowded(t, i, n) <=> Crowded(s, i, n)
           /\ \A j, a : Excused(t, j, n, a) <=> Excused(s, j, n, a)
<1>1. \A i \in 1..n : \A j : IsLast(t, i, j, n) <=> IsLast(s, i, j, n)
  BY DEF IsLast
<1>2. \A i \in 1..n : NewerThan(t, i, n) = NewerThan(s, i, n)
  BY DEF NewerThan
<1>3. \A i \in 1..n : Crowded(t, i, n) <=> Crowded(s, i, n)
  BY <1>2 DEF Crowded
<1>4. \A j, a : Excused(t, j, n, a) <=> Excused(s, j, n, a)
  BY <1>1, <1>3 DEF Excused
<1> QED  BY <1>1, <1>3, <1>4

\* One more store: the others stay last, and crowded, as they were.
LEMMA OneMore ==
    ASSUME NEW s, NEW t, NEW n \in Nat, \A k \in 1..n : t[k] = s[k],
           NEW i \in 1..n, NEW j
    PROVE  /\ IsLast(s, i, j, n) /\ t[n + 1].job # j => IsLast(t, i, j, n + 1)
           /\ IsLast(t, i, j, n + 1) => IsLast(s, i, j, n)
           /\ Crowded(s, i, n) => Crowded(t, i, n + 1)
<1>1. \A k : k \in 1..n + 1 <=> k \in 1..n \/ k = n + 1
  OBVIOUS
<1>2. IsLast(s, i, j, n) /\ t[n + 1].job # j => IsLast(t, i, j, n + 1)
  BY <1>1 DEF IsLast
<1>3. IsLast(t, i, j, n + 1) => IsLast(s, i, j, n)
  BY <1>1 DEF IsLast
<1>4. Crowded(s, i, n) => Crowded(t, i, n + 1)
  <2> DEFINE A == NewerThan(s, i, n)
             B == NewerThan(t, i, n + 1)
  <2>1. A \subseteq B
    BY <1>1 DEF NewerThan
  <2>2. IsFiniteSet(B) /\ Cardinality(A) \in Nat /\ Cardinality(B) \in Nat
    BY NewerFinite
  <2> HIDE DEF A, B
  <2>3. Cardinality(A) <= Cardinality(B)
    BY <2>1, <2>2, FS_Subset
  <2>4. Cardinality(A) >= MaxSize => Cardinality(B) >= MaxSize
    BY <2>2, <2>3, CacheAssumption
  <2> QED  BY <2>4 DEF Crowded, A, B
<1> QED  BY <1>2, <1>3, <1>4
-----------------------------------------------------------------------------
(* The steps of the history. *)

\* A step stores and is logged; or looks a job up and is noted; or changes
\* neither the cache nor a caller that has missed, other than by ending its call.
LEMMA HistorySteps ==
    ASSUME TypeOK, Accounts, HNext
    PROVE  \/ \E c \in Cached : Store(c) /\ log' = Append(log, NewStore(c)) /\ UNCHANGED seen
           \/ \E c \in Callers :
                 /\ Lookup(c) /\ UNCHANGED log
                 /\ seen' = [seen EXCEPT ![c] = [after |-> Len(log), asked |-> now]]
           \/ /\ UNCHANGED <<entries, log, seen>>
              /\ \A c \in Cached : pc'[c] \in Missed => pc[c] \in Missed /\ req'[c] = req[c]
<1> USE DEF Goto
<1>0. pc \in [Callers -> Steps] /\ \A c \in Callers \cap Direct : pc[c] \notin {"store", "lookup"}
  BY DEF TypeOK, Accounts, DirectPassesBy
<1>1. ASSUME NEW c \in Callers, Store(c)
      PROVE  c \in Cached /\ log' = Append(log, NewStore(c)) /\ UNCHANGED seen
  <2>1. pc[c] = "store" /\ pc' = [pc EXCEPT ![c] = "fresh"]
    BY <1>1 DEF Store
  <2>2. StoreStep(c) /\ \A d \in Callers : (StoreStep(d) => d = c) /\ ~LookupStep(d)
    BY <1>0, <2>1 DEF StoreStep, LookupStep
  <2> QED  BY <1>0, <2>1, <2>2 DEF HNext, NewStore, Cached
<1>2. ASSUME NEW c \in Callers, Lookup(c)
      PROVE  UNCHANGED log /\ seen' = [seen EXCEPT ![c] = [after |-> Len(log), asked |-> now]]
  <2>1. pc[c] = "lookup" /\ (pc' = [pc EXCEPT ![c] = "hit"] \/ pc' = [pc EXCEPT ![c] = "miss"])
    BY <1>2 DEF Lookup
  <2>2. LookupStep(c) /\ \A d \in Callers : (LookupStep(d) => d = c) /\ ~StoreStep(d)
    BY <1>0, <2>1 DEF StoreStep, LookupStep
  <2> QED  BY <2>2 DEF HNext
<1> DEFINE Quiet == /\ UNCHANGED <<entries, log, seen>>
                    /\ \A c \in Cached : pc'[c] \in Missed => pc[c] \in Missed /\ req'[c] = req[c]
<1>3. ASSUME NEW c \in Callers, NEW step, pc' = [pc EXCEPT ![c] = step],
             pc[c] \notin {"lookup", "store"}, UNCHANGED entries,
             step \in Missed => pc[c] \in Missed \/ c \notin Cached,
             \/ UNCHANGED req
             \/ /\ step \notin Missed \/ c \notin Cached
                /\ \A d \in Callers \ {c} : req'[d] = req[d]
      PROVE  Quiet
  <2>1. \A d \in Callers : ~StoreStep(d) /\ ~LookupStep(d)
    BY <1>0, <1>3 DEF StoreStep, LookupStep
  <2>2. UNCHANGED <<log, seen>>
    BY <2>1 DEF HNext
  <2>3. \A d \in Cached : pc'[d] = IF d = c THEN step ELSE pc[d]
    BY <1>0, <1>3 DEF Cached
  <2> QED  BY <1>3, <2>2, <2>3 DEF Cached
<1>4. ASSUME UNCHANGED <<entries, pc, req>> PROVE Quiet
  <2>1. \A d \in Callers : ~StoreStep(d) /\ ~LookupStep(d)
    BY <1>0, <1>4 DEF StoreStep, LookupStep
  <2> QED  BY <1>4, <2>1 DEF HNext
<1>5. ASSUME NEW c \in Callers, NEW r \in Asked, Call(c, r) PROVE Quiet
  <2>1. \A d \in Callers \ {c} : req'[d] = req[d]
    BY <1>5 DEF Call, TypeOK
  <2>3. CASE c \in Direct
    <3>1. c \notin Cached /\ pc' = [pc EXCEPT ![c] = "dial"] /\ pc[c] \notin {"lookup", "store"}
      BY <1>5, <2>3 DEF Call, Returned, Cached
    <3> HIDE DEF Quiet
    <3> QED  BY <1>3, <1>5, <2>1, <3>1 DEF Call
  <2>4. CASE c \notin Direct
    <3>1. pc' = [pc EXCEPT ![c] = "lookup"] /\ pc[c] \notin {"lookup", "store"}
      BY <1>5, <2>4 DEF Call, Returned
    <3>2. "lookup" \notin Missed
      BY DEF Missed
    <3> HIDE DEF Quiet
    <3> QED  BY <1>3, <1>5, <2>1, <3>1, <3>2 DEF Call
  <2> QED  BY <2>3, <2>4
<1>6. ASSUME NEW c \in Callers,
             \/ NilClient(c) \/ CountHit(c) \/ CountMiss(c) \/ Answer(c) \/ Deliver(c)
             \/ ChatError(c)
      PROVE  Quiet
  <2> HIDE DEF Quiet
  <2> USE <1>3 DEF Missed
  <2>1. CASE NilClient(c)
    BY <2>1 DEF NilClient, Returned
  <2>2. CASE CountHit(c)
    BY <2>2 DEF CountHit
  <2>3. CASE CountMiss(c)
    BY <2>3 DEF CountMiss
  <2>4. CASE Answer(c)
    BY <2>4 DEF Answer
  <2>5. CASE Deliver(c)
    BY <2>5 DEF Deliver
  <2>6. CASE ChatError(c)
    BY <2>6 DEF ChatError
  <2> QED  BY <1>6, <2>1, <2>2, <2>3, <2>4, <2>5, <2>6
<1>7. ASSUME Tick \/ \E t \in ClockSettings : SetClock(t) PROVE Quiet
  BY <1>4, <1>7 DEF Tick, SetClock
<1> HIDE DEF Quiet
<1>8. (\E c \in Callers : Store(c) \/ Lookup(c)) \/ Quiet
  <2>1. Next
    BY DEF HNext
  <2>2. ASSUME NEW c \in Callers, Advance(c) PROVE Store(c) \/ Lookup(c) \/ Quiet
    BY <1>6, <2>2 DEF Advance
  <2>3. ASSUME NEW c \in Callers, (\E r \in Asked : Call(c, r)) \/ NilClient(c) \/ Answer(c)
        PROVE  Quiet
    BY <1>5, <1>6, <2>3
  <2> QED  BY <1>7, <2>1, <2>2, <2>3 DEF Next
<1> QED  BY <1>1, <1>2, <1>8 DEF Quiet
-----------------------------------------------------------------------------
(* The invariant. *)

LEMMA InitHistory == HInit => HistoryInv
<1> SUFFICES ASSUME HInit PROVE HistoryInv
  OBVIOUS
<1>1. Len(log) = 0 /\ log \in Seq(Stores)
  BY EmptySeq DEF HInit
<1>2. 1..Len(log) = {}
  BY <1>1
<1>3. DOMAIN entries = {} /\ \A c \in Cached : pc[c] \notin Missed
  BY DEF HInit, Init, EmptyCache, Cached, Missed
<1>4. seen \in [Callers -> Glances] /\ \A c \in Callers : seen[c].after <= Len(log)
  BY <1>1 DEF HInit, Glances
<1> QED  BY <1>1, <1>2, <1>3, <1>4 DEF HistoryInv, Recorded, FromLog, Retained, Redialled

\* The log as far as it was, and the new store.
LEMMA Grown ==
    ASSUME Recorded, NEW x \in Stores, NEW t, t = Append(log, x)
    PROVE  /\ t \in Seq(Stores) /\ Len(log) \in Nat /\ Len(t) = Len(log) + 1
           /\ t[Len(log) + 1] = x /\ \A k \in 1..Len(log) : t[k] = log[k]
  BY AppendProperties, LenProperties DEF Recorded

LEMMA NewStoreIs ==
    ASSUME TypeOK, Recorded, NEW c \in Cached, Store(c)
    PROVE  /\ NewStore(c) \in Stores
           /\ NewStore(c).job = JobID(req[c]) /\ NewStore(c).at = now
           /\ NewStore(c).after = seen[c].after /\ NewStore(c).asked = seen[c].asked
<1>1. c \in Callers /\ req[c] \in Requests /\ now \in Int
  BY DEF Store, TypeOK, Cached
<1>2. JobID(req[c]) \in JobIDs
  BY <1>1, RequestType
<1>3. seen[c] \in Glances
  BY <1>1 DEF Recorded
<1> QED  BY <1>1, <1>2, <1>3 DEF NewStore, Stores, Glances

\* What a Store evicts is crowded out by the entries it leaves and by what it
\* stores.
LEMMA EvictedIsCrowded ==
    ASSUME TypeOK, Recorded, FromLog, Full(entries), NEW j \in Oldest(entries),
           NEW i \in 1..Len(log), IsLast(log, i, j, Len(log)),
           NEW t, \A k \in 1..Len(log) : t[k] = log[k], t[Len(log) + 1].at = now
    PROVE  Crowded(t, i, Len(log) + 1)
<1> DEFINE n == Len(log)
           D == DOMAIN entries
           A == NewerThan(t, i, n + 1)
           Place(k) == CHOOSE p \in 1..n : IsLast(log, p, k, n) /\ log[p].at = entries[k].storedAt
           f == [k \in D |-> IF k = j THEN n + 1 ELSE Place(k)]
<1>1. n \in Nat /\ \A k \in 1..n : log[k] \in Stores
  BY LenProperties, ElementOfSeq DEF Recorded
<1>2. \A k \in D : Place(k) \in 1..n /\ IsLast(log, Place(k), k, n)
                     /\ log[Place(k)].at = entries[k].storedAt
  BY DEF FromLog
<1> HIDE DEF Place
<1>3. j \in D /\ \A k \in D : entries[j].storedAt <= entries[k].storedAt
  BY DEF Oldest
<1>4. Place(j) = i
  BY <1>1, <1>2, <1>3, LastIsOne
<1>5. log[i].at = entries[j].storedAt
  BY <1>2, <1>3, <1>4
<1>6. n + 1 \in A
  <2>1. t[i].at = log[i].at /\ log[i].at <= now /\ n + 1 # i /\ n + 1 \in 1..n + 1
    BY <1>1 DEF Recorded
  <2>2. log[i].at \in Int /\ now \in Int
    BY <1>1 DEF Stores, TypeOK
  <2> QED  BY <2>1, <2>2 DEF NewerThan
<1>7. ASSUME NEW k \in D, k # j PROVE Place(k) \in A
  <2>1. Place(k) \in 1..n /\ log[Place(k)].job = k /\ log[i].job = j
    BY <1>2 DEF IsLast
  <2>2. Place(k) \in 1..n + 1 /\ Place(k) # i
    BY <1>1, <1>7, <2>1
  <2>3. log[i].at <= log[Place(k)].at
    BY <1>2, <1>3, <1>5
  <2>4. log[i].at \in Int /\ log[Place(k)].at \in Int
    BY <1>1, <2>1 DEF Stores
  <2>5. t[Place(k)].at >= t[i].at
    BY <2>1, <2>3, <2>4
  <2> QED  BY <2>2, <2>5 DEF NewerThan
<1>8. f \in [D -> A]
  <2> HIDE DEF A, D
  <2> QED  BY <1>6, <1>7
<1>9. ASSUME NEW k \in D, NEW l \in D, f[k] = f[l] PROVE k = l
  <2>1. \A m \in D : Place(m) # n + 1 /\ log[Place(m)].job = m
    BY <1>1, <1>2 DEF IsLast
  <2>2. f[k] = (IF k = j THEN n + 1 ELSE Place(k)) /\ f[l] = (IF l = j THEN n + 1 ELSE Place(l))
    OBVIOUS
  <2> HIDE DEF f, D
  <2>3. CASE k = j \/ l = j
    BY <1>9, <2>1, <2>2, <2>3
  <2>4. CASE k # j /\ l # j
    BY <1>9, <2>1, <2>2, <2>4
  <2> QED  BY <2>3, <2>4
<1>10. IsFiniteSet(A) /\ Cardinality(A) \in Nat
  BY <1>1, NewerFinite
<1>11. IsFiniteSet(D) /\ Cardinality(D) \in Nat
  BY EntriesFinite
<1>12. Cardinality(D) <= Cardinality(A)
  <2> HIDE DEF A, D
  <2>1. f \in Injection(D, A)
    <3> HIDE DEF f
    <3> QED  BY <1>8, <1>9 DEF Injection, IsInjective
  <2> HIDE DEF f
  <2> QED  BY <1>10, <2>1, FS_Injection
<1>13. MaxSize > 0 /\ Cardinality(D) >= MaxSize
  BY DEF Full
<1> HIDE DEF A, D
<1>14. Cardinality(A) >= MaxSize
  BY <1>10, <1>11, <1>12, <1>13, CacheAssumption
<1> QED  BY <1>13, <1>14 DEF Crowded, A

\* The clock is not set back by a step.
Forward == now' >= now

\* The cache holds what the log says it must, and says where it came from.
LEMMA StoreKeepsHistory ==
    ASSUME TypeOK, TypeOK', Recorded, FromLog, Retained, NEW c \in Cached, Store(c),
           log' = Append(log, NewStore(c))
    PROVE  FromLog' /\ Retained'
<1> DEFINE n == Len(log)
           t == log'
           J == JobID(req[c])
<1>1. NewStore(c) \in Stores /\ NewStore(c).job = J /\ NewStore(c).at = now
  BY NewStoreIs
<1>2. /\ n \in Nat /\ Len(t) = n + 1
      /\ t[n + 1] = NewStore(c) /\ \A k \in 1..n : t[k] = log[k]
  <2> HIDE DEF t
  <2> QED  BY <1>1, Grown DEF t
<1>3. PICK e \in AfterEviction(entries) : entries' = Insert(e, J, resp[c], now)
  BY DEF Store
<1>4. /\ DOMAIN e \subseteq DOMAIN entries /\ \A j \in DOMAIN e : e[j] = entries[j]
      /\ ~Full(entries) => e = entries
  BY EvictionType DEF TypeOK
<1>5. /\ DOMAIN entries' = DOMAIN e \cup {J} /\ entries'[J].storedAt = now
      /\ \A j \in DOMAIN e \ {J} : entries'[j] = entries[j]
  BY <1>3, <1>4 DEF Insert
<1> HIDE DEF J, t, n
<1>6. ASSUME NEW j \in DOMAIN entries'
      PROVE  \E i \in 1..n + 1 : IsLast(t, i, j, n + 1) /\ t[i].at = entries'[j].storedAt
  <2>1. CASE j = J
    <3>1. IsLast(t, n + 1, J, n + 1) /\ t[n + 1].at = now /\ n + 1 \in 1..n + 1
      BY <1>1, <1>2 DEF IsLast
    <3> QED  BY <1>5, <2>1, <3>1
  <2>2. CASE j # J
    <3>1. j \in DOMAIN entries /\ entries'[j] = entries[j]
      BY <1>4, <1>5, <2>2
    <3>2. PICK i \in 1..n : IsLast(log, i, j, n) /\ log[i].at = entries[j].storedAt
      BY <3>1 DEF FromLog, n
    <3>3. IsLast(t, i, j, n + 1)
      BY <1>1, <1>2, <2>2, <3>2, OneMore
    <3>4. i \in 1..n + 1 /\ t[i].at = entries'[j].storedAt
      BY <1>2, <3>1, <3>2
    <3> QED  BY <3>3, <3>4
  <2> QED  BY <2>1, <2>2
<1>7. ASSUME NEW j \in JobIDs, NEW i \in 1..n + 1, IsLast(t, i, j, n + 1),
             ~Crowded(t, i, n + 1), j # J
      PROVE  j \in DOMAIN e
  <2>1. i \in 1..n
    <3>1. i # n + 1
      BY <1>1, <1>2, <1>7 DEF IsLast
    <3> QED  BY <1>2, <3>1
  <2>2. IsLast(log, i, j, n) /\ ~Crowded(log, i, n)
    BY <1>2, <1>7, <2>1, OneMore
  <2>3. j \in DOMAIN entries
    BY <2>1, <2>2 DEF Retained, n
  <2>4. ~(Full(entries) /\ j \in Oldest(entries))
    <3>1. t[n + 1].at = now
      BY <1>1, <1>2
    <3> QED  BY <1>2, <1>7, <2>1, <2>2, <3>1, EvictedIsCrowded DEF n
  <2>5. CASE Full(entries)
    <3>1. PICK k \in Oldest(entries) : e = Drop(entries, k)
      BY <2>5 DEF AfterEviction
    <3>2. j # k
      BY <2>4, <2>5, <3>1
    <3> QED  BY <2>3, <3>1, <3>2 DEF Drop
  <2>6. CASE ~Full(entries)
    BY <1>4, <2>3, <2>6
  <2> QED  BY <2>5, <2>6
<1>8. FromLog'
  BY <1>2, <1>6 DEF FromLog, t
<1>9. Retained'
  BY <1>2, <1>5, <1>7 DEF Retained, t
<1> QED  BY <1>8, <1>9

\* A caller that does not find its job has an excuse.
LEMMA MissIsExcused ==
    ASSUME TypeOK, Recorded, FromLog, Retained, NEW c \in Callers, Lookup(c), pc'[c] \in Missed
    PROVE  Excused(log, JobID(req[c]), Len(log), now)
<1> DEFINE J == JobID(req[c])
           n == Len(log)
<1>1. n \in Nat /\ \A k \in 1..n : log[k] \in Stores
  BY LenProperties, ElementOfSeq DEF Recorded
<1>2. ~Hit(entries, J, now)
  BY DEF Lookup, Goto, TypeOK, Missed
<1>3. J \in JobIDs
  BY RequestType DEF Lookup, TypeOK
<1> HIDE DEF J
<1>4. ASSUME NEW i \in 1..n, IsLast(log, i, J, n)
      PROVE  (TTL > 0 /\ now - log[i].at > TTL) \/ Crowded(log, i, n)
  <2>1. CASE J \in DOMAIN entries
    <3>1. PICK k \in 1..n : IsLast(log, k, J, n) /\ log[k].at = entries[J].storedAt
      BY <2>1 DEF FromLog
    <3>2. k = i
      <4> HIDE DEF n
      <4> QED  BY <1>1, <1>4, <3>1, LastIsOne
    <3> QED  BY <1>2, <2>1, <3>1, <3>2 DEF Hit
  <2>2. CASE J \notin DOMAIN entries
    BY <1>3, <1>4, <2>2 DEF Retained
  <2> QED  BY <2>1, <2>2
<1> QED  BY <1>4 DEF Excused, J

LEMMA StepHistory ==
    ASSUME TypeOK, TypeOK', Accounts, HistoryInv, HNext, Forward
    PROVE  HistoryInv'
<1>0. /\ Recorded /\ FromLog /\ Retained /\ Redialled
      /\ log \in Seq(Stores) /\ Len(log) \in Nat
      /\ \A k \in 1..Len(log) : log[k] \in Stores
      /\ now \in Int /\ now' \in Int /\ pc \in [Callers -> Steps]
  BY LenProperties, ElementOfSeq DEF HistoryInv, Recorded, TypeOK
<1>1. \A k \in 1..Len(log) : log[k].at <= now'
  BY <1>0 DEF Recorded, Stores, Forward
<1>2. ASSUME NEW c \in Cached, Store(c), log' = Append(log, NewStore(c)), UNCHANGED seen
      PROVE  HistoryInv'
  <2> DEFINE n == Len(log)
             t == log'
  <2>1. /\ NewStore(c) \in Stores
        /\ NewStore(c).job = JobID(req[c]) /\ NewStore(c).at = now
        /\ NewStore(c).after = seen[c].after /\ NewStore(c).asked = seen[c].asked
    BY <1>0, <1>2, NewStoreIs
  <2>2. /\ t \in Seq(Stores) /\ n \in Nat /\ Len(t) = n + 1
        /\ t[n + 1] = NewStore(c) /\ \A k \in 1..n : t[k] = log[k]
    <3> HIDE DEF t
    <3> QED  BY <1>0, <1>2, <2>1, Grown DEF t
  <2>3. now' = now /\ req' = req /\ pc[c] = "store" /\ c \in Callers
        /\ pc' = [pc EXCEPT ![c] = "fresh"]
    BY <1>2 DEF Store, Goto, Cached
  <2>4. \A d \in Callers : seen[d].after \in 0..n
    BY <1>0 DEF Recorded, Glances
  <2>5. \A k \in 1..n : log[k].after \in 0..n
    BY <1>0 DEF Recorded, Stores
  <2>6. \A m \in 0..n : \A j, a : Excused(t, j, m, a) <=> Excused(log, j, m, a)
    <3> SUFFICES ASSUME NEW m \in 0..n PROVE \A j, a : Excused(t, j, m, a) <=> Excused(log, j, m, a)
      OBVIOUS
    <3>1. m \in Nat /\ \A k \in 1..m : t[k] = log[k]
      BY <2>2
    <3> HIDE DEF t
    <3> QED  BY <3>1, SamePrefix
  <2> HIDE DEF t, n
  <2>7. Recorded'
    <3>1. \A k \in 1..n + 1 : t[k].at <= now' /\ t[k].after <= n + 1
      <4>1. \A k \in 1..n + 1 : k \in 1..n \/ k = n + 1
        BY <2>2
      <4>2. \A k \in 1..n : t[k].at <= now' /\ t[k].after <= n + 1
        BY <1>1, <2>2, <2>5 DEF n
      <4>3. t[n + 1].at <= now' /\ t[n + 1].after <= n + 1
        BY <1>0, <2>1, <2>2, <2>3, <2>4
      <4> QED  BY <4>1, <4>2, <4>3
    <3>2. \A d \in Callers : seen'[d].after <= n + 1
      BY <1>2, <2>2, <2>4
    <3> QED  BY <1>0, <1>2, <2>2, <3>1, <3>2 DEF Recorded, t
  <2>8. Redialled'
    <3>1. \A d \in Cached : pc[d] \in Missed => Excused(t, JobID(req[d]), seen[d].after, seen[d].asked)
      BY <1>0, <2>4, <2>6 DEF Redialled, Cached
    <3>2. Excused(t, t[n + 1].job, t[n + 1].after, t[n + 1].asked)
      BY <1>2, <2>1, <2>2, <2>3, <3>1 DEF Missed
    <3>3. \A k \in 1..n : Excused(t, t[k].job, t[k].after, t[k].asked)
      BY <1>0, <2>2, <2>5, <2>6 DEF Redialled, n
    <3>4. \A k \in 1..n + 1 : Excused(t, t[k].job, t[k].after, t[k].asked)
      <4>1. \A k \in 1..n + 1 : k \in 1..n \/ k = n + 1
        BY <2>2
      <4> QED  BY <3>2, <3>3, <4>1
    <3>5. \A d \in Cached : pc'[d] \in Missed => pc[d] \in Missed
      BY <1>0, <2>3 DEF Missed, Cached
    <3> QED  BY <1>2, <2>2, <2>3, <3>1, <3>4, <3>5 DEF Redialled, t
  <2> QED  BY <1>0, <1>2, <2>7, <2>8, StoreKeepsHistory DEF HistoryInv
<1>3. ASSUME UNCHANGED <<entries, log>>,
             seen' \in [Callers -> Glances], \A d \in Callers : seen'[d].after <= Len(log),
             \A d \in Cached : pc'[d] \in Missed =>
                 Excused(log, JobID(req'[d]), seen'[d].after, seen'[d].asked)
      PROVE  HistoryInv'
  <2>1. Recorded' /\ FromLog' /\ Retained'
    BY <1>0, <1>1, <1>3 DEF Recorded, FromLog, Retained
  <2>2. Redialled'
    BY <1>0, <1>3 DEF Redialled
  <2> QED  BY <2>1, <2>2 DEF HistoryInv
<1>4. ASSUME NEW c \in Callers, Lookup(c), UNCHANGED log,
             seen' = [seen EXCEPT ![c] = [after |-> Len(log), asked |-> now]]
      PROVE  HistoryInv'
  <2>1. UNCHANGED <<entries, req>> /\ \A d \in Callers \ {c} : pc'[d] = pc[d]
    BY <1>0, <1>4 DEF Lookup, Goto
  <2>2. /\ seen' \in [Callers -> Glances] /\ seen'[c] = [after |-> Len(log), asked |-> now]
        /\ \A d \in Callers \ {c} : seen'[d] = seen[d]
    BY <1>0, <1>4 DEF Recorded, Glances
  <2>3. \A d \in Callers : seen'[d].after <= Len(log)
    <3>1. \A d \in Callers : seen[d].after <= Len(log)
      BY <1>0 DEF Recorded
    <3> QED  BY <1>0, <2>2, <3>1
  <2>4. ASSUME NEW d \in Cached, pc'[d] \in Missed
        PROVE  Excused(log, JobID(req'[d]), seen'[d].after, seen'[d].asked)
    <3>1. CASE d = c
      BY <1>0, <1>4, <2>1, <2>2, <2>4, <3>1, MissIsExcused
    <3>2. CASE d # c
      BY <1>0, <2>1, <2>2, <2>4, <3>2 DEF Redialled, Cached
    <3> QED  BY <3>1, <3>2
  <2> QED  BY <1>3, <1>4, <2>1, <2>2, <2>3, <2>4
<1>5. ASSUME UNCHANGED <<entries, log, seen>>,
             \A d \in Cached : pc'[d] \in Missed => pc[d] \in Missed /\ req'[d] = req[d]
      PROVE  HistoryInv'
  <2>1. \A d \in Cached : pc'[d] \in Missed =>
            Excused(log, JobID(req'[d]), seen'[d].after, seen'[d].asked)
    BY <1>0, <1>5 DEF Redialled
  <2> QED  BY <1>0, <1>3, <1>5, <2>1 DEF Recorded
<1> QED  BY <1>2, <1>4, <1>5, HistorySteps

LEMMA HistoryInvariant == HSpec /\ [][Forward]_hvars => [](TypeOK /\ Accounts /\ HistoryInv)
<1> DEFINE Inv == TypeOK /\ Accounts /\ HistoryInv
<1>1. HInit => Inv
  BY InitType, InitAccounts, InitHistory DEF HInit
<1>2. Inv /\ [HNext]_hvars /\ [Forward]_hvars => Inv'
  <2> SUFFICES ASSUME Inv, [HNext]_hvars, [Forward]_hvars PROVE Inv'
    OBVIOUS
  <2>1. [Next]_vars
    BY DEF HNext, hvars
  <2>2. TypeOK' /\ Accounts'
    BY <2>1, StepType, StepAccounts
  <2>3. CASE HNext /\ Forward
    BY <2>2, <2>3, StepHistory
  <2>4. CASE UNCHANGED hvars
    BY <2>2, <2>4
       DEF hvars, vars, HistoryInv, Recorded, FromLog, Retained, Redialled
  <2>5. HNext /\ ~Forward => UNCHANGED hvars
    OBVIOUS
  <2> QED  BY <2>3, <2>4, <2>5
<1>3. HSpec /\ [][Forward]_hvars => []Inv
  <2> HIDE DEF Inv
  <2> QED  BY <1>1, <1>2, PTL DEF HSpec
<1> QED  BY <1>3

\* An answer stays in the cache until as many others, not older than it, have
\* been stored as the cache has room for; the clock must not be set back, for
\* then a later answer may look older, and does not count as newer.
THEOREM AnswersRetained == HSpec /\ [][Forward]_hvars => []Retention
<1>1. Recorded /\ Retained => Retention
  <2> SUFFICES ASSUME Recorded, Retained, NEW j \in JobIDs, LastStore(j, Len(log)) > 0,
                      MaxSize = 0 \/ Cardinality(Newer(LastStore(j, Len(log)), Len(log))) < MaxSize
               PROVE  j \in DOMAIN entries
    BY DEF Retention
  <2> DEFINE n == Len(log)
             i == LastStore(j, n)
  <2>1. n \in Nat
    BY LenProperties DEF Recorded
  <2>2. i \in 1..n /\ IsLast(log, i, j, n)
    BY <2>1, LastStoreIs
  <2>3. ~Crowded(log, i, n)
    <3>1. Newer(i, n) = NewerThan(log, i, n)
      BY DEF Newer, NewerThan
    <3>2. Cardinality(NewerThan(log, i, n)) \in Nat
      BY <2>1, NewerFinite
    <3> HIDE DEF i, n
    <3> QED  BY <3>1, <3>2, CacheAssumption DEF Crowded, i, n
  <2> HIDE DEF i
  <2> QED  BY <2>2, <2>3 DEF Retained
<1>2. HistoryInv => Retention
  BY <1>1 DEF HistoryInv
<1> QED  BY <1>2, HistoryInvariant, PTL

\* A job is paid for again only if its last answer had expired when the second
\* call looked, or had been crowded out by others at least as new, or was not
\* there yet: under the same clock.
THEOREM RedialsAreJustified == HSpec /\ [][Forward]_hvars => []RedialJustified
<1>1. Recorded /\ Redialled => RedialJustified
  <2> SUFFICES ASSUME Recorded, Redialled, NEW k \in DOMAIN log,
                      LastStore(log[k].job, log[k].after) > 0
               PROVE  LET i == LastStore(log[k].job, log[k].after) IN
                      \/ TTL > 0 /\ log[k].asked - log[i].at > TTL
                      \/ MaxSize > 0 /\ Cardinality(Newer(i, log[k].after)) >= MaxSize
    BY DEF RedialJustified
  <2> DEFINE n == log[k].after
             i == LastStore(log[k].job, n)
  <2>1. k \in 1..Len(log) /\ log[k] \in Stores
    BY LenProperties, ElementOfSeq DEF Recorded
  <2>2. n \in Nat
    BY <2>1 DEF Stores
  <2>3. i \in 1..n /\ IsLast(log, i, log[k].job, n)
    BY <2>2, LastStoreIs
  <2>4. Newer(i, n) = NewerThan(log, i, n)
    BY DEF Newer, NewerThan
  <2> HIDE DEF i
  <2>5. (TTL > 0 /\ log[k].asked - log[i].at > TTL) \/ Crowded(log, i, n)
    BY <2>1, <2>3 DEF Redialled, Excused
  <2> QED  BY <2>4, <2>5 DEF Crowded, i
<1>2. HistoryInv => RedialJustified
  BY <1>1 DEF HistoryInv
<1> QED  BY <1>2, HistoryInvariant, PTL
=============================================================================
