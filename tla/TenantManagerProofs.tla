-------------------------- MODULE TenantManagerProofs --------------------------
(***************************************************************************)
(* What TLAPS proves of TenantManager, for any tenants, goroutines, hash   *)
(* and cache: no two tenants ever share a cache, none is replaced, and     *)
(* each tenant's is an IdempotencyCache that nobody else touches.          *)
(***************************************************************************)
EXTENDS TenantManager, CacheOpsProofs, SequenceTheorems

\* A Cache as Manager.CacheFor makes it and Store leaves it.
CacheType ==
    [entries : UNION {[ids -> Entries] : ids \in SUBSET JobIDs},
     stat : [hits : Nat, misses : Nat, evictions : Nat]]

\* The caches made are a sequence: what a handle means never changes.
Typed == TypeOK /\ caches \in Seq(CacheType)

\* A goroutine about to join has made a cache nobody else has seen.
Fresh ==
    \A c \in Callers : pc[c] = "join" =>
        /\ \A t \in DOMAIN registry : registry[t] # held[c]
        /\ \A d \in Callers \ {c} : pc[d] = "join" => held[d] # held[c]

IInv == Typed /\ OneCachePerTenant /\ Fresh
-----------------------------------------------------------------------------
(* Types. *)

LEMMA MapType ==
    ASSUME NEW e
    PROVE  e \in UNION {[ids -> Entries] : ids \in SUBSET JobIDs}
             <=> DOMAIN e \subseteq JobIDs /\ e \in [DOMAIN e -> Entries]
  OBVIOUS

LEMMA NewCacheType == NewCache \in CacheType
<1>1. EmptyCache \in UNION {[ids -> Entries] : ids \in SUBSET JobIDs}
  BY MapType DEF EmptyCache
<1> QED  BY <1>1 DEF NewCache, CacheType

\* What TypeOK says of the caches follows from their being such a sequence.
LEMMA CachesTyped ==
    ASSUME NEW q \in Seq(CacheType)
    PROVE  /\ Len(q) \in Nat
           /\ \A i \in 1..Len(q) :
                 /\ q[i] \in CacheType
                 /\ DOMAIN q[i].entries \subseteq JobIDs
                 /\ q[i].entries \in [DOMAIN q[i].entries -> Entries]
                 /\ q[i].stat \in [hits : Nat, misses : Nat, evictions : Nat]
<1>1. Len(q) \in Nat
  BY LenProperties
<1>2. ASSUME NEW i \in 1..Len(q)
      PROVE  /\ q[i] \in CacheType
             /\ DOMAIN q[i].entries \subseteq JobIDs
             /\ q[i].entries \in [DOMAIN q[i].entries -> Entries]
             /\ q[i].stat \in [hits : Nat, misses : Nat, evictions : Nat]
  <2>1. q[i] \in CacheType
    BY ElementOfSeq
  <2> QED  BY <2>1, MapType DEF CacheType
<1> QED  BY <1>1, <1>2

\* A chatter that uses a cache holds one that was made, for a job it has.
LEMMA InUse ==
    ASSUME Typed, NEW c \in Callers, pc[c] \in Using
    PROVE  /\ c \in Chatters /\ TenantOf[c] \in Tenants
           /\ held[c] \in 1..Len(caches)
           /\ req[c] \in Requests /\ Job(c) \in JobIDs
<1>1. /\ c \in Chatters /\ TenantOf[c] \in Tenants
      /\ held[c] \in 1..Len(caches) /\ req[c] \in Requests
  <2>1. Len(caches) \in Nat
    BY CachesTyped DEF Typed
  <2>2. pc[c] \notin Returned
    BY DEF Using, Returned
  <2>3. held[c] \in 0..Len(caches) /\ held[c] # 0
    BY DEF Typed, TypeOK
  <2>4. c \in Chatters /\ TenantOf[c] \in Tenants /\ req[c] \in Requests
    BY <2>2 DEF Typed, TypeOK
  <2> QED  BY <2>1, <2>3, <2>4
<1>2. TenantPrint[TenantOf[c], req[c].fp] \in Prints
  BY <1>1, TenantAssumption DEF Requests
<1>3. Job(c) \in JobIDs
  BY <1>1, <1>2, CacheAssumption DEF Job, TenantHash, Requests
<1> QED  BY <1>1, <1>3

\* A step that replaces the cache it holds by a typed one keeps the sequence.
LEMMA Replaced ==
    ASSUME caches \in Seq(CacheType), NEW h \in 1..Len(caches),
           NEW k \in CacheType, caches' = [caches EXCEPT ![h] = k]
    PROVE  caches' \in Seq(CacheType) /\ Len(caches') = Len(caches)
  BY ExceptSeq

\* A cache with its two fields set one after the other.
LEMMA BothFields ==
    ASSUME NEW k \in CacheType, NEW m, NEW v
    PROVE  [[k EXCEPT !.entries = m] EXCEPT !.stat.evictions = v]
               = [entries |-> m, stat |-> [k.stat EXCEPT !.evictions = v]]
<1> DEFINE first == [k EXCEPT !.entries = m]
<1>1. first = [entries |-> m, stat |-> k.stat]
  BY DEF CacheType
<1>2. [first EXCEPT !.stat.evictions = v]
          = [first EXCEPT !.stat = [first.stat EXCEPT !.evictions = v]]
  OBVIOUS
<1> HIDE DEF first
<1>3. [first EXCEPT !.stat.evictions = v]
          = [entries |-> m, stat |-> [k.stat EXCEPT !.evictions = v]]
  BY <1>1, <1>2
<1> QED  BY <1>3 DEF first

LEMMA StoreKeeps ==
    ASSUME Typed, NEW c \in Callers, Store(c)
    PROVE  caches' \in Seq(CacheType) /\ Len(caches') = Len(caches)
<1> DEFINE h == held[c]
<1>1. /\ h \in 1..Len(caches) /\ Job(c) \in JobIDs /\ resp[c] \in Responses
      /\ now \in Int
  BY InUse DEF Store, Using, Typed, TypeOK
<1>2. /\ Cache(c) \in CacheType /\ Cache(c) = caches[h]
      /\ DOMAIN Cache(c).entries \subseteq JobIDs
      /\ Cache(c).entries \in [DOMAIN Cache(c).entries -> Entries]
      /\ Cache(c).stat \in [hits : Nat, misses : Nat, evictions : Nat]
  BY <1>1, CachesTyped DEF Cache, Typed
<1>3. PICK e \in AfterEviction(Cache(c).entries) :
          caches' = [caches EXCEPT
              ![held[c]].entries = Insert(e, Job(c), resp[c], now),
              ![held[c]].stat.evictions =
                  IF Full(Cache(c).entries) THEN @ + 1 ELSE @]
  BY DEF Store
<1> DEFINE m == Insert(e, Job(c), resp[c], now)
           s == [Cache(c).stat EXCEPT !.evictions =
                    IF Full(Cache(c).entries) THEN @ + 1 ELSE @]
<1>4. DOMAIN e \subseteq JobIDs /\ e \in [DOMAIN e -> Entries]
  BY <1>2, EvictionType
<1>5. m \in UNION {[ids -> Entries] : ids \in SUBSET JobIDs}
  BY <1>1, <1>4, InsertType, MapType
<1>6. s \in [hits : Nat, misses : Nat, evictions : Nat]
  BY <1>2
<1>7. [entries |-> m, stat |-> s] \in CacheType
  BY <1>5, <1>6 DEF CacheType
<1>8. caches' = [caches EXCEPT ![h] = [entries |-> m, stat |-> s]]
  <2> DEFINE v == IF Full(Cache(c).entries) THEN Cache(c).stat.evictions + 1
                                            ELSE Cache(c).stat.evictions
             both == [[caches[h] EXCEPT !.entries = m] EXCEPT !.stat.evictions = v]
  <2>1. DOMAIN caches = 1..Len(caches)
    BY LenProperties DEF Typed
  <2>2. both = [entries |-> m, stat |-> s]
    <3>1. s = [caches[h].stat EXCEPT !.evictions = v]
      BY <1>2
    <3> HIDE DEF m, s, v
    <3>2. both = [entries |-> m, stat |-> [caches[h].stat EXCEPT !.evictions = v]]
      BY <1>2, BothFields
    <3> HIDE DEF both
    <3> QED  BY <3>1, <3>2
  <2>3. caches' = [caches EXCEPT ![h] = both]
    <3> HIDE DEF m
    <3> QED  BY <1>1, <1>2, <1>3, <2>1 DEF m
  <2> QED  BY <2>2, <2>3
<1> QED  BY <1>1, <1>7, <1>8, Replaced DEF Typed

LEMMA CountsKeep ==
    ASSUME Typed, NEW c \in Callers, CountHit(c) \/ CountMiss(c)
    PROVE  caches' \in Seq(CacheType) /\ Len(caches') = Len(caches)
<1> DEFINE h == held[c]
           hit == [caches[h] EXCEPT !.stat.hits = @ + 1]
           miss == [caches[h] EXCEPT !.stat.misses = @ + 1]
<1>1. h \in 1..Len(caches)
  BY InUse DEF CountHit, CountMiss, Using
<1>2. caches[h] \in CacheType
  BY <1>1, CachesTyped DEF Typed
<1>3. hit \in CacheType /\ miss \in CacheType
  BY <1>2 DEF CacheType
<1>4. caches' = [caches EXCEPT ![h] = hit] \/ caches' = [caches EXCEPT ![h] = miss]
  BY DEF CountHit, CountMiss
<1> QED  BY <1>1, <1>3, <1>4, Replaced DEF Typed

LEMMA MakeKeeps ==
    ASSUME Typed, NEW c \in Callers, Make(c)
    PROVE  /\ caches' \in Seq(CacheType)
           /\ Len(caches') = Len(caches) + 1
           /\ held' = [held EXCEPT ![c] = Len(caches) + 1]
<1>1. caches' = Append(caches, NewCache)
  BY DEF Make
<1>2. caches' \in Seq(CacheType) /\ Len(caches') = Len(caches) + 1
  BY <1>1, NewCacheType, AppendProperties DEF Typed
<1> QED  BY <1>2 DEF Make
-----------------------------------------------------------------------------
(* The induction. *)

LEMMA InitTyped == Init => Typed
<1> SUFFICES ASSUME Init PROVE Typed
  OBVIOUS
<1>1. caches \in Seq(CacheType) /\ Len(caches) = 0
  BY EmptySeq DEF Init
<1> QED  BY <1>1 DEF Init, Typed, TypeOK, Steps, Returned, Using

\* Types are kept if the caches stay a sequence that is no shorter, and the
\* handles, the registry and each goroutine's own state are right.
LEMMA StepTyped == Typed /\ [Next]_vars => Typed'
<1> SUFFICES ASSUME Typed, [Next]_vars PROVE Typed'
  OBVIOUS
<1> USE DEF Goto, Got, Enter, Steps, Returned, Using
<1>0. Len(caches) \in Nat
  BY CachesTyped DEF Typed
<1>1. ASSUME NEW c \in Callers, Refuse(c) PROVE Typed'
  BY <1>1 DEF Refuse, Typed, TypeOK
<1>2. ASSUME NEW c \in Callers, NEW r \in Asked, Chat(c, r) PROVE Typed'
  <2>1. r \in Requests /\ TenantOf[c] \in Tenants
    BY <1>2, TenantAssumption DEF Chat
  <2> QED  BY <1>0, <1>2, <2>1 DEF Chat, Typed, TypeOK
<1>3. ASSUME NEW c \in Callers, PilotRun(c) PROVE Typed'
  <2>1. c \notin Chatters /\ TenantOf[c] \in Tenants
    BY <1>3, TenantAssumption DEF PilotRun
  <2>2. /\ UNCHANGED <<registry, caches, now, req, started, billed>>
        /\ resp' = [resp EXCEPT ![c] = NoResp]
        /\ held' = [held EXCEPT ![c] = 0]
        /\ pc' = [pc EXCEPT ![c] = "load"]
    BY <1>3 DEF PilotRun
  <2> QED  BY <1>0, <2>1, <2>2 DEF Typed, TypeOK
<1>4. ASSUME NEW c \in Callers, Load(c) PROVE Typed'
  <2>1. CASE TenantOf[c] \in DOMAIN registry
    <3>1. /\ registry[TenantOf[c]] \in 1..Len(caches)
          /\ registry[TenantOf[c]] \in 0..Len(caches)
          /\ registry[TenantOf[c]] # 0
      BY <1>0, <2>1 DEF Typed, TypeOK
    <3>2. /\ UNCHANGED <<registry, caches, now, req, resp, started, billed>>
          /\ held' = [held EXCEPT ![c] = registry[TenantOf[c]]]
          /\ pc[c] = "load"
          /\ pc' = [pc EXCEPT ![c] = IF c \in Chatters THEN "lookup" ELSE "piloted"]
      BY <1>4, <2>1 DEF Load
    <3> QED  BY <3>1, <3>2 DEF Typed, TypeOK
  <2>2. CASE TenantOf[c] \notin DOMAIN registry
    BY <1>4, <2>2 DEF Load, Typed, TypeOK
  <2> QED  BY <2>1, <2>2
<1>5. ASSUME NEW c \in Callers, Make(c) PROVE Typed'
  <2>1. /\ caches' \in Seq(CacheType) /\ Len(caches') = Len(caches) + 1
        /\ held' = [held EXCEPT ![c] = Len(caches) + 1]
    BY <1>5, MakeKeeps
  <2>2. held' \in [Callers -> 0..Len(caches')]
    BY <1>0, <2>1 DEF Typed, TypeOK
  <2>3. \A t \in DOMAIN registry' : registry'[t] \in 1..Len(caches')
    BY <1>0, <1>5, <2>1 DEF Make, Typed, TypeOK
  <2>4. \A d \in Callers : pc'[d] \in Using \cup {"join"} => held'[d] # 0
    BY <1>0, <1>5, <2>1 DEF Make, Typed, TypeOK
  <2>5. /\ UNCHANGED <<registry, now, req, resp, started, billed>>
        /\ pc[c] = "make"
        /\ pc' = [pc EXCEPT ![c] = "join"]
    BY <1>5 DEF Make
  <2>6. \A i \in 1..Len(caches') :
            /\ DOMAIN caches'[i].entries \subseteq JobIDs
            /\ caches'[i].entries \in [DOMAIN caches'[i].entries -> Entries]
            /\ caches'[i].stat \in [hits : Nat, misses : Nat, evictions : Nat]
    BY <2>1, CachesTyped
  <2> QED  BY <2>1, <2>2, <2>3, <2>4, <2>5, <2>6 DEF Typed, TypeOK
<1>6. ASSUME NEW c \in Callers, Join(c) PROVE Typed'
  <2>1. /\ TenantOf[c] \in Tenants
        /\ held[c] \in 1..Len(caches)
    <3>1. held[c] \in 0..Len(caches) /\ held[c] # 0
      BY <1>6 DEF Join, Typed, TypeOK
    <3>2. TenantOf[c] \in Tenants
      BY <1>6 DEF Join, Typed, TypeOK
    <3> QED  BY <1>0, <3>1, <3>2
  <2>2. CASE TenantOf[c] \in DOMAIN registry
    <3>1. /\ registry[TenantOf[c]] \in 0..Len(caches)
          /\ registry[TenantOf[c]] # 0
      BY <1>0, <2>2 DEF Typed, TypeOK
    <3> QED  BY <1>6, <2>2, <3>1 DEF Join, Typed, TypeOK
  <2>3. CASE TenantOf[c] \notin DOMAIN registry
    <3>1. /\ DOMAIN registry' = DOMAIN registry \cup {TenantOf[c]}
          /\ \A t \in DOMAIN registry' :
                registry'[t] = IF t = TenantOf[c] THEN held[c] ELSE registry[t]
      BY <1>6, <2>3 DEF Join
    <3>2. /\ DOMAIN registry' \subseteq Tenants
          /\ \A t \in DOMAIN registry' : registry'[t] \in 1..Len(caches)
      BY <2>1, <3>1 DEF Typed, TypeOK
    <3> QED  BY <1>6, <2>3, <3>2 DEF Join, Typed, TypeOK
  <2> QED  BY <2>2, <2>3
<1>7. ASSUME NEW c \in Callers, Lookup(c) PROVE Typed'
  <2>1. pc[c] \in Using
    BY <1>7 DEF Lookup
  <2>2. Hit(Cache(c).entries, Job(c), now) =>
            Cache(c).entries[Job(c)].resp \in Responses
    BY <2>1, InUse, CachesTyped DEF Cache, Hit, Entries, Typed
  <2> QED  BY <1>7, <2>2 DEF Lookup, Typed, TypeOK
<1>8. ASSUME NEW c \in Callers, CountHit(c) PROVE Typed'
  <2>1. caches' \in Seq(CacheType) /\ Len(caches') = Len(caches)
    BY <1>8, CountsKeep
  <2> QED  BY <1>8, <2>1, CachesTyped DEF CountHit, Typed, TypeOK
<1>9. ASSUME NEW c \in Callers, CountMiss(c) PROVE Typed'
  <2>1. caches' \in Seq(CacheType) /\ Len(caches') = Len(caches)
    BY <1>9, CountsKeep
  <2> QED  BY <1>9, <2>1, CachesTyped DEF CountMiss, Typed, TypeOK
<1>10. ASSUME NEW c \in Callers, Answer(c) PROVE Typed'
  <2>1. TenantOf[c] \in Tenants /\ req[c] \in Requests
    BY <1>10, InUse DEF Answer
  <2>2. [req |-> Wire(req[c]), id |-> billed[TenantOf[c]]] \in Responses
    BY <2>1, RequestType DEF Responses, Typed, TypeOK
  <2> QED  BY <1>10, <2>1, <2>2 DEF Answer, Typed, TypeOK
<1>11. ASSUME NEW c \in Callers, Deliver(c) PROVE Typed'
  BY <1>11 DEF Deliver, Typed, TypeOK
<1>12. ASSUME NEW c \in Callers, ChatError(c) PROVE Typed'
  BY <1>12 DEF ChatError, Typed, TypeOK
<1>13. ASSUME NEW c \in Callers, Store(c) PROVE Typed'
  <2>1. caches' \in Seq(CacheType) /\ Len(caches') = Len(caches)
    BY <1>13, StoreKeeps
  <2> QED  BY <1>13, <2>1, CachesTyped DEF Store, Typed, TypeOK
<1>14. CASE Tick
  BY <1>14, TenantAssumption DEF Tick, Typed, TypeOK
<1>15. CASE UNCHANGED vars
  BY <1>15 DEF vars, Typed, TypeOK
<1> QED
  BY <1>1, <1>2, <1>3, <1>4, <1>5, <1>6, <1>7, <1>8, <1>9, <1>10, <1>11, <1>12,
     <1>13, <1>14, <1>15 DEF Next

\* Type correctness: no goroutine ever uses a handle to a cache that was never
\* made, or an answer it does not have.
THEOREM TenantTypeCorrect == Spec => []TypeOK
<1>1. Typed => TypeOK
  BY DEF Typed
<1> QED  BY <1>1, InitTyped, StepTyped, PTL DEF Spec
-----------------------------------------------------------------------------
(* Who holds which cache. *)

\* A goroutine that starts a call, or moves on within one, without touching the
\* registry, and that is neither about to join nor newly using a cache.
LEMMA Elsewhere ==
    ASSUME IInv, NEW c \in Callers, NEW step,
           pc' = [pc EXCEPT ![c] = step], UNCHANGED registry,
           \A d \in Callers \ {c} : held'[d] = held[d],
           step # "join",
           step \in Using => pc[c] \in Using /\ held'[c] = held[c]
    PROVE  OneCachePerTenant' /\ Fresh'
<1>1. \A d \in Chatters : pc'[d] \in Using => pc[d] \in Using /\ held'[d] = held[d]
  BY DEF IInv, Typed, TypeOK, Callers
<1>2. OneCachePerTenant'
  BY <1>1 DEF IInv, OneCachePerTenant, Using
<1>3. \A d \in Callers : pc'[d] = "join" => d # c /\ pc[d] = "join" /\ held'[d] = held[d]
  BY DEF IInv, Typed, TypeOK
<1>4. Fresh'
  BY <1>3 DEF IInv, Fresh
<1> QED  BY <1>2, <1>4

LEMMA StepShares == IInv /\ [Next]_vars => (OneCachePerTenant /\ Fresh)'
<1> SUFFICES ASSUME IInv, [Next]_vars PROVE (OneCachePerTenant /\ Fresh)'
  OBVIOUS
<1> USE DEF Goto
<1>0. /\ Typed /\ OneCachePerTenant /\ Fresh
      /\ pc \in [Callers -> Steps] /\ held \in [Callers -> 0..Len(caches)]
      /\ Len(caches) \in Nat
      /\ Chatters \subseteq Callers
  BY CachesTyped DEF IInv, Typed, TypeOK, Callers
<1>1. ASSUME NEW c \in Callers, Refuse(c) PROVE (OneCachePerTenant /\ Fresh)'
  BY <1>1, Elsewhere DEF Refuse, Using
<1>2. ASSUME NEW c \in Callers, NEW r \in Asked, Chat(c, r)
      PROVE  (OneCachePerTenant /\ Fresh)'
  <2>1. \A d \in Callers \ {c} : held'[d] = held[d]
    BY <1>0, <1>2 DEF Chat, Enter
  <2> QED  BY <1>2, <2>1, Elsewhere DEF Chat, Enter, Using
<1>3. ASSUME NEW c \in Callers, PilotRun(c) PROVE (OneCachePerTenant /\ Fresh)'
  <2>1. \A d \in Callers \ {c} : held'[d] = held[d]
    BY <1>0, <1>3 DEF PilotRun, Enter
  <2> QED  BY <1>3, <2>1, Elsewhere DEF PilotRun, Enter, Using
<1>4. ASSUME NEW c \in Callers, Load(c) PROVE (OneCachePerTenant /\ Fresh)'
  <2>1. CASE TenantOf[c] \in DOMAIN registry
    <3>1. /\ UNCHANGED registry
          /\ held' = [held EXCEPT ![c] = registry[TenantOf[c]]]
          /\ pc' = [pc EXCEPT ![c] = IF c \in Chatters THEN "lookup" ELSE "piloted"]
      BY <1>4, <2>1 DEF Load, Got
    <3>2. OneCachePerTenant'
      BY <1>0, <2>1, <3>1 DEF OneCachePerTenant
    <3>3. Fresh'
      BY <1>0, <3>1 DEF Fresh
    <3> QED  BY <3>2, <3>3
  <2>2. CASE TenantOf[c] \notin DOMAIN registry
    BY <1>4, <2>2, Elsewhere DEF Load, Using
  <2> QED  BY <2>1, <2>2
<1>5. ASSUME NEW c \in Callers, Make(c) PROVE (OneCachePerTenant /\ Fresh)'
  <2>1. /\ UNCHANGED registry
        /\ held' = [held EXCEPT ![c] = Len(caches) + 1]
        /\ pc' = [pc EXCEPT ![c] = "join"]
    BY <1>0, <1>5, MakeKeeps DEF Make
  <2>2. OneCachePerTenant'
    BY <1>0, <2>1 DEF OneCachePerTenant, Using
  <2>3. \A t \in DOMAIN registry : registry[t] # Len(caches) + 1
    BY <1>0 DEF Typed, TypeOK
  <2>4. \A d \in Callers : held[d] # Len(caches) + 1
    BY <1>0
  <2>5. Fresh'
    BY <1>0, <2>1, <2>3, <2>4 DEF Fresh
  <2> QED  BY <2>2, <2>5
<1>6. ASSUME NEW c \in Callers, Join(c) PROVE (OneCachePerTenant /\ Fresh)'
  <2>1. pc' = [pc EXCEPT ![c] = IF c \in Chatters THEN "lookup" ELSE "piloted"]
    BY <1>6 DEF Join, Got
  <2>2. CASE TenantOf[c] \in DOMAIN registry
    <3>1. UNCHANGED registry /\ held' = [held EXCEPT ![c] = registry[TenantOf[c]]]
      BY <1>6, <2>2 DEF Join
    <3>2. OneCachePerTenant'
      BY <1>0, <2>1, <2>2, <3>1 DEF OneCachePerTenant
    <3>3. Fresh'
      BY <1>0, <2>1, <3>1 DEF Fresh
    <3> QED  BY <3>2, <3>3
  <2>3. CASE TenantOf[c] \notin DOMAIN registry
    <3>1. /\ UNCHANGED held
          /\ DOMAIN registry' = DOMAIN registry \cup {TenantOf[c]}
          /\ \A t \in DOMAIN registry' :
                registry'[t] = IF t = TenantOf[c] THEN held[c] ELSE registry[t]
      BY <1>6, <2>3 DEF Join
    <3>2. \A t \in DOMAIN registry : registry[t] # held[c]
      BY <1>0, <1>6 DEF Join, Fresh
    <3>3. \A s, t \in DOMAIN registry' : registry'[s] = registry'[t] => s = t
      BY <1>0, <3>1, <3>2 DEF OneCachePerTenant
    <3>4. \A d \in Chatters : pc'[d] \in Using =>
              TenantOf[d] \in DOMAIN registry' /\ held'[d] = registry'[TenantOf[d]]
      BY <1>0, <2>1, <2>3, <3>1 DEF OneCachePerTenant
    <3>5. Fresh'
      BY <1>0, <1>6, <2>1, <3>1 DEF Fresh, Join
    <3> QED  BY <3>3, <3>4, <3>5 DEF OneCachePerTenant
  <2> QED  BY <2>2, <2>3
<1>7. ASSUME NEW c \in Callers, Lookup(c) PROVE (OneCachePerTenant /\ Fresh)'
  BY <1>7, Elsewhere DEF Lookup, Using
<1>8. ASSUME NEW c \in Callers, CountHit(c) PROVE (OneCachePerTenant /\ Fresh)'
  BY <1>8, Elsewhere DEF CountHit, Using
<1>9. ASSUME NEW c \in Callers, CountMiss(c) PROVE (OneCachePerTenant /\ Fresh)'
  BY <1>9, Elsewhere DEF CountMiss, Using
<1>10. ASSUME NEW c \in Callers, Answer(c) PROVE (OneCachePerTenant /\ Fresh)'
  BY <1>10, Elsewhere DEF Answer, Using
<1>11. ASSUME NEW c \in Callers, Deliver(c) PROVE (OneCachePerTenant /\ Fresh)'
  BY <1>11, Elsewhere DEF Deliver, Using
<1>12. ASSUME NEW c \in Callers, ChatError(c) PROVE (OneCachePerTenant /\ Fresh)'
  BY <1>12, Elsewhere DEF ChatError, Using
<1>13. ASSUME NEW c \in Callers, Store(c) PROVE (OneCachePerTenant /\ Fresh)'
  BY <1>13, Elsewhere DEF Store, Using
<1>14. CASE UNCHANGED <<registry, held, pc>>
  BY <1>0, <1>14 DEF OneCachePerTenant, Fresh
<1> QED
  BY <1>1, <1>2, <1>3, <1>4, <1>5, <1>6, <1>7, <1>8, <1>9, <1>10, <1>11, <1>12,
     <1>13, <1>14 DEF Next, Tick, vars

LEMMA InitInv == Init => IInv
<1> SUFFICES ASSUME Init PROVE OneCachePerTenant /\ Fresh
  BY InitTyped DEF IInv
<1>1. DOMAIN registry = {} /\ \A c \in Callers : pc[c] = "idle"
  BY DEF Init
<1> QED  BY <1>1 DEF OneCachePerTenant, Fresh, Using, Callers

\* However calls for a tenant race to make its cache, all that use one use the
\* same, and no two tenants share one: CacheFor's LoadOrStore.
THEOREM OneCacheHolds == Spec => []OneCachePerTenant
<1>1. IInv /\ [Next]_vars => IInv'
  BY StepTyped, StepShares DEF IInv
<1>2. IInv => OneCachePerTenant
  BY DEF IInv
<1> QED  BY InitInv, <1>1, <1>2, PTL DEF Spec

\* A tenant's cache, once in the registry, stays there: CacheFor never stores
\* over one.
THEOREM CacheKeptHolds == Spec => CacheKept
<1> DEFINE Kept == \A t \in DOMAIN registry :
                       t \in DOMAIN registry' /\ registry'[t] = registry[t]
<1>1. ASSUME [Next]_vars PROVE Kept
  <2>1. ASSUME NEW c \in Callers, Join(c) PROVE Kept
    BY <2>1 DEF Join
  <2>2. CASE UNCHANGED registry
    BY <2>2
  <2> QED
    BY <1>1, <2>1, <2>2
       DEF Next, vars, Refuse, Chat, PilotRun, Enter, Load, Make, Lookup, CountHit,
           CountMiss, Answer, Deliver, ChatError, Store, Tick
<1>2. [Next]_vars => [Kept]_vars
  BY <1>1
<1> HIDE DEF Kept
<1>3. Spec => [][Kept]_vars
  BY <1>2, PTL DEF Spec
<1> QED  BY <1>3 DEF CacheKept, Kept
-----------------------------------------------------------------------------
(* Each tenant's view. *)

\* A cache that is about to join is as it was made, and only pilots pilot.
Untouched == \A c \in Callers : pc[c] = "join" => caches[held[c]] = NewCache
Apart == \A c \in Chatters : pc[c] # "piloted"

VInv == IInv /\ Untouched /\ Apart

LEMMA InitUntouched == Init => Untouched /\ Apart
  BY DEF Init, Untouched, Apart, Callers

LEMMA StepUntouched == VInv /\ [Next]_vars => (Untouched /\ Apart)'
<1> SUFFICES ASSUME VInv, [Next]_vars PROVE (Untouched /\ Apart)'
  OBVIOUS
<1> USE DEF Goto
<1>0. /\ Typed /\ Untouched /\ Apart /\ Fresh /\ OneCachePerTenant
      /\ pc \in [Callers -> Steps] /\ held \in [Callers -> 0..Len(caches)]
      /\ Len(caches) \in Nat
      /\ Chatters \subseteq Callers
  BY CachesTyped DEF VInv, IInv, Typed, TypeOK, Callers
<1>1. ASSUME NEW c \in Callers, NEW s, pc' = [pc EXCEPT ![c] = s], s # "join",
             \A d \in Callers \ {c} : held'[d] = held[d],
             s = "piloted" => c \notin Chatters,
             \A d \in Callers \ {c} : pc[d] = "join" => caches'[held[d]] = caches[held[d]]
      PROVE  (Untouched /\ Apart)'
  <2>1. \A d \in Callers : pc'[d] = IF d = c THEN s ELSE pc[d]
    BY <1>0, <1>1
  <2> QED  BY <1>0, <1>1, <2>1 DEF Untouched, Apart
<1>2. ASSUME NEW c \in Callers, NEW s, pc' = [pc EXCEPT ![c] = s], s # "join",
             \A d \in Callers \ {c} : held'[d] = held[d],
             s = "piloted" => c \notin Chatters, UNCHANGED caches
      PROVE  (Untouched /\ Apart)'
  BY <1>1, <1>2
<1>3. ASSUME NEW c \in Callers, Refuse(c) PROVE (Untouched /\ Apart)'
  BY <1>2, <1>3 DEF Refuse
<1>4. ASSUME NEW c \in Callers, (\E r \in Asked : Chat(c, r)) \/ PilotRun(c)
      PROVE  (Untouched /\ Apart)'
  <2>1. /\ pc' = [pc EXCEPT ![c] = "load"] /\ held' = [held EXCEPT ![c] = 0]
        /\ UNCHANGED caches
    BY <1>4 DEF Chat, PilotRun, Enter
  <2>2. \A d \in Callers \ {c} : held'[d] = held[d]
    BY <1>0, <2>1
  <2> QED  BY <1>2, <2>1, <2>2
<1>5. ASSUME NEW c \in Callers, Load(c) \/ Join(c) PROVE (Untouched /\ Apart)'
  <2>1. \E s \in {"make", "lookup", "piloted"} :
            pc' = [pc EXCEPT ![c] = s] /\ (s = "piloted" => c \notin Chatters)
    BY <1>5 DEF Load, Join, Got
  <2>2. UNCHANGED caches /\ (UNCHANGED held \/ \E h : held' = [held EXCEPT ![c] = h])
    BY <1>5 DEF Load, Join
  <2>3. \A d \in Callers \ {c} : held'[d] = held[d]
    BY <1>0, <2>2
  <2> QED  BY <1>2, <2>1, <2>2, <2>3
<1>6. ASSUME NEW c \in Callers, Make(c) PROVE (Untouched /\ Apart)'
  <2>1. /\ caches' = Append(caches, NewCache) /\ caches \in Seq(CacheType)
        /\ held' = [held EXCEPT ![c] = Len(caches) + 1]
        /\ pc' = [pc EXCEPT ![c] = "join"]
    BY <1>0, <1>6, MakeKeeps DEF Make, Typed
  <2>2. /\ caches'[Len(caches) + 1] = NewCache
        /\ \A i \in 1..Len(caches) : caches'[i] = caches[i]
    BY <2>1, NewCacheType, AppendProperties
  <2>3. \A d \in Callers : pc[d] = "join" => held[d] \in 1..Len(caches)
    BY <1>0 DEF Typed, TypeOK
  <2> QED  BY <1>0, <2>1, <2>2, <2>3 DEF Untouched, Apart
<1>7. ASSUME NEW c \in Callers, pc[c] \in Using, UNCHANGED held,
             caches' = [caches EXCEPT ![held[c]] = caches'[held[c]]],
             NEW s, pc' = [pc EXCEPT ![c] = s], s \notin {"join", "piloted"}
      PROVE  (Untouched /\ Apart)'
  <2>1. c \in Chatters /\ held[c] \in 1..Len(caches)
    BY <1>0, <1>7, InUse
  <2>2. TenantOf[c] \in DOMAIN registry /\ held[c] = registry[TenantOf[c]]
    BY <1>0, <1>7, <2>1 DEF OneCachePerTenant
  <2>3. \A d \in Callers : pc[d] = "join" => held[d] # held[c] /\ held[d] \in 1..Len(caches)
    BY <1>0, <2>2 DEF Fresh, Typed, TypeOK
  <2>4. DOMAIN caches = 1..Len(caches)
    BY <1>0, LenProperties DEF Typed
  <2>5. \A d \in Callers : pc[d] = "join" => caches'[held[d]] = caches[held[d]]
    BY <1>7, <2>3, <2>4
  <2> QED  BY <1>1, <1>7, <2>5
<1>8. ASSUME NEW c \in Callers,
             CountHit(c) \/ CountMiss(c) \/ Store(c)
      PROVE  (Untouched /\ Apart)'
  <2>1. pc[c] \in Using /\ UNCHANGED held
    BY <1>8 DEF CountHit, CountMiss, Store, Using
  <2>2. \E s \in {"replay", "dial", "fresh"} : pc' = [pc EXCEPT ![c] = s]
    BY <1>8 DEF CountHit, CountMiss, Store
  <2>3. \E k : caches' = [caches EXCEPT ![held[c]] = k]
    BY <1>8 DEF CountHit, CountMiss, Store
  <2>4. held[c] \in 1..Len(caches) /\ DOMAIN caches = 1..Len(caches)
    BY <1>0, <2>1, InUse, LenProperties DEF Typed
  <2>5. caches' = [caches EXCEPT ![held[c]] = caches'[held[c]]]
    BY <2>3, <2>4
  <2> QED  BY <1>7, <2>1, <2>2, <2>5
<1>9. ASSUME NEW c \in Callers, Lookup(c) \/ Answer(c) \/ Deliver(c) \/ ChatError(c)
      PROVE  (Untouched /\ Apart)'
  <2>1. UNCHANGED <<caches, held>>
    BY <1>9 DEF Lookup, Answer, Deliver, ChatError
  <2>2. \E s \in {"hit", "miss", "answered", "store", "error"} : pc' = [pc EXCEPT ![c] = s]
    BY <1>9 DEF Lookup, Answer, Deliver, ChatError
  <2> QED  BY <1>2, <2>1, <2>2
<1>10. CASE UNCHANGED <<caches, held, pc>>
  BY <1>0, <1>10 DEF Untouched, Apart
<1> QED
  BY <1>3, <1>4, <1>5, <1>6, <1>8, <1>9, <1>10 DEF Next, Tick, vars
-----------------------------------------------------------------------------
(* What one tenant sees. *)

InCall == {"load", "make", "join"}
PcOf(t) == [c \in ChattersOf[t] |-> SeenPc(c)]
ReqOf(t) == [c \in ChattersOf[t] |-> req[c]]
RespOf(t) == [c \in ChattersOf[t] |-> resp[c]]
StartedOf(t) == [k \in {"cached", "direct"} |-> IF k = "cached" THEN started[t] ELSE 0]
BilledOf(t) == [k \in {"cached", "direct"} |-> IF k = "cached" THEN billed[t] ELSE 0]
View(t) == <<TenantCache(t), now, PcOf(t), ReqOf(t), RespOf(t), StartedOf(t), BilledOf(t)>>

\* The operators of the cache are the manager's, with the tenant's hash.
LEMMA SameOperators ==
    ASSUME NEW t
    PROVE  /\ \A e, j, n : Seen(t)!Hit(e, j, n) <=> Hit(e, j, n)
           /\ \A e : Seen(t)!Full(e) <=> Full(e)
           /\ \A e : Seen(t)!AfterEviction(e) = AfterEviction(e)
           /\ \A e, j, r, n : Seen(t)!Insert(e, j, r, n) = Insert(e, j, r, n)
           /\ \A r : Seen(t)!Wire(r) = Wire(r)
<1>1. \A S : Seen(t)!Cardinality(S) = Cardinality(S)
  BY DEF Seen!Cardinality, Cardinality
<1>2. \A e : Seen(t)!Full(e) <=> Full(e)
  BY <1>1 DEF Seen!Full, Full
<1>3. \A e, j : Seen(t)!Drop(e, j) = Drop(e, j) /\ Seen(t)!Oldest(e) = Oldest(e)
  BY DEF Seen!Drop, Drop, Seen!Oldest, Oldest
<1>4. \A e : Seen(t)!AfterEviction(e) = AfterEviction(e)
  BY <1>2, <1>3 DEF Seen!AfterEviction, AfterEviction
<1>5. \A e, j, r, n : Seen(t)!Insert(e, j, r, n) = Insert(e, j, r, n)
  BY DEF Seen!Insert, Insert
<1>6. \A e, j, n : Seen(t)!Hit(e, j, n) <=> Hit(e, j, n)
  BY DEF Seen!Hit, Hit
<1>7. \A r : Seen(t)!Wire(r) = Wire(r)
  BY DEF Seen!Wire, Wire
<1> QED  BY <1>2, <1>4, <1>5, <1>6, <1>7

LEMMA ViewUnchanged ==
    ASSUME NEW t, UNCHANGED View(t)
    PROVE  UNCHANGED Seen(t)!vars
  BY DEF View, Seen!vars, PcOf, ReqOf, RespOf, StartedOf, BilledOf

LEMMA InitSeen == ASSUME Init, NEW t \in Tenants PROVE Seen(t)!Init
<1>1. ChattersOf[t] \subseteq Callers
  BY DEF ChattersOf, Callers
<1>2. TenantCache(t) = NewCache
  BY DEF Init, TenantCache
<1> QED
  BY <1>1, <1>2 DEF Init, Seen!Init, NewCache, SeenPc, Seen!EmptyCache, EmptyCache

\* The cache that a tenant sees, when a cache is made, registered or changed.
LEMMA CacheSeen ==
    ASSUME VInv, NEW t \in Tenants, NEW c \in Callers
    PROVE  /\ UNCHANGED <<registry, caches>> => UNCHANGED TenantCache(t)
           /\ Make(c) \/ Join(c) => UNCHANGED TenantCache(t)
           /\ \A k : pc[c] \in Using /\ UNCHANGED registry
                        /\ caches' = [caches EXCEPT ![held[c]] = k]
                    => TenantCache(t)' = IF TenantOf[c] = t THEN k ELSE TenantCache(t)
           /\ pc[c] \in Using /\ TenantOf[c] = t => Cache(c) = TenantCache(t)
<1>0. /\ Typed /\ Untouched /\ Fresh /\ OneCachePerTenant
      /\ caches \in Seq(CacheType) /\ Len(caches) \in Nat /\ DOMAIN caches = 1..Len(caches)
      /\ \A s \in DOMAIN registry : registry[s] \in 1..Len(caches)
  BY CachesTyped, LenProperties DEF VInv, IInv, Typed, TypeOK
<1>1. UNCHANGED <<registry, caches>> => UNCHANGED TenantCache(t)
  BY DEF TenantCache
<1>2. ASSUME Make(c) PROVE UNCHANGED TenantCache(t)
  <2>1. caches' = Append(caches, NewCache) /\ UNCHANGED registry
    BY <1>2 DEF Make
  <2>2. \A i \in 1..Len(caches) : caches'[i] = caches[i]
    BY <1>0, <2>1, NewCacheType, AppendProperties
  <2> QED  BY <1>0, <2>1, <2>2 DEF TenantCache
<1>3. ASSUME Join(c) PROVE UNCHANGED TenantCache(t)
  <2>1. UNCHANGED caches /\ caches[held[c]] = NewCache
    BY <1>0, <1>3 DEF Join, Untouched
  <2>2. \/ UNCHANGED registry
        \/ /\ TenantOf[c] \notin DOMAIN registry
           /\ DOMAIN registry' = DOMAIN registry \cup {TenantOf[c]}
           /\ \A s \in DOMAIN registry' :
                 registry'[s] = IF s = TenantOf[c] THEN held[c] ELSE registry[s]
    BY <1>3 DEF Join
  <2> QED  BY <2>1, <2>2 DEF TenantCache
<1>4. ASSUME pc[c] \in Using
      PROVE  /\ c \in Chatters /\ TenantOf[c] \in DOMAIN registry
             /\ held[c] = registry[TenantOf[c]]
  BY <1>0, <1>4, InUse DEF OneCachePerTenant
<1>5. ASSUME pc[c] \in Using, UNCHANGED registry,
             NEW k, caches' = [caches EXCEPT ![held[c]] = k]
      PROVE  TenantCache(t)' = IF TenantOf[c] = t THEN k ELSE TenantCache(t)
  <2>1. CASE TenantOf[c] = t
    BY <1>0, <1>4, <1>5, <2>1 DEF TenantCache
  <2>2. CASE TenantOf[c] # t
    <3>1. t \in DOMAIN registry => registry[t] # held[c]
      BY <1>0, <1>4, <1>5, <2>2 DEF OneCachePerTenant
    <3> QED  BY <1>0, <1>5, <2>2, <3>1 DEF TenantCache
  <2> QED  BY <2>1, <2>2
<1>6. pc[c] \in Using /\ TenantOf[c] = t => Cache(c) = TenantCache(t)
  BY <1>4 DEF Cache, TenantCache
<1> QED  BY <1>1, <1>2, <1>3, <1>5, <1>6

\* A step of one goroutine, as its tenant and as another sees it.
Turn(c) == \A d \in Callers \ {c} : pc'[d] = pc[d] /\ req'[d] = req[d] /\ resp'[d] = resp[d]

LEMMA TurnSeen ==
    ASSUME VInv, NEW t \in Tenants, NEW c \in Callers, Turn(c)
    PROVE  /\ c \notin ChattersOf[t] => UNCHANGED <<PcOf(t), ReqOf(t), RespOf(t)>>
           /\ c \in ChattersOf[t] =>
                 /\ PcOf(t)' = [PcOf(t) EXCEPT ![c] = SeenPc(c)']
                 /\ ReqOf(t)' = [ReqOf(t) EXCEPT ![c] = req'[c]]
                 /\ RespOf(t)' = [RespOf(t) EXCEPT ![c] = resp'[c]]
<1>1. \A d \in ChattersOf[t] : d \in Callers
  BY DEF ChattersOf, Callers
<1>2. \A d \in ChattersOf[t] \ {c} :
          SeenPc(d)' = SeenPc(d) /\ req'[d] = req[d] /\ resp'[d] = resp[d]
  BY <1>1 DEF Turn, SeenPc
<1>3. c \notin ChattersOf[t] => UNCHANGED <<PcOf(t), ReqOf(t), RespOf(t)>>
  BY <1>2 DEF PcOf, ReqOf, RespOf
<1>4. ASSUME c \in ChattersOf[t]
      PROVE  /\ PcOf(t)' = [PcOf(t) EXCEPT ![c] = SeenPc(c)']
             /\ ReqOf(t)' = [ReqOf(t) EXCEPT ![c] = req'[c]]
             /\ RespOf(t)' = [RespOf(t) EXCEPT ![c] = resp'[c]]
  <2>1. PcOf(t)' = [PcOf(t) EXCEPT ![c] = SeenPc(c)']
    BY <1>2, <1>4 DEF PcOf
  <2>2. ReqOf(t)' = [ReqOf(t) EXCEPT ![c] = req'[c]]
    BY <1>2, <1>4 DEF ReqOf
  <2>3. RespOf(t)' = [RespOf(t) EXCEPT ![c] = resp'[c]]
    BY <1>2, <1>4 DEF RespOf
  <2> QED  BY <2>1, <2>2, <2>3
<1> QED  BY <1>3, <1>4

\* Every step of a goroutine is its turn.
LEMMA StepIsTurn ==
    ASSUME VInv, NEW c \in Callers,
           \/ Refuse(c) \/ (\E r \in Asked : Chat(c, r)) \/ PilotRun(c)
           \/ Load(c) \/ Make(c) \/ Join(c)
           \/ Lookup(c) \/ CountHit(c) \/ CountMiss(c) \/ Answer(c)
           \/ Deliver(c) \/ ChatError(c) \/ Store(c)
    PROVE  Turn(c)
<1>1. DOMAIN pc = Callers /\ DOMAIN req = Callers /\ DOMAIN resp = Callers
  BY DEF VInv, IInv, Typed, TypeOK
<1>2. \E s : pc' = [pc EXCEPT ![c] = s]
  BY DEF Refuse, Chat, PilotRun, Enter, Load, Make, Join, Got, Goto, Lookup, CountHit,
         CountMiss, Answer, Deliver, ChatError, Store
<1>3. UNCHANGED req \/ \E r : req' = [req EXCEPT ![c] = r]
  BY DEF Refuse, Chat, PilotRun, Enter, Load, Make, Join, Lookup, CountHit,
         CountMiss, Answer, Deliver, ChatError, Store
<1>4. UNCHANGED resp \/ \E r : resp' = [resp EXCEPT ![c] = r]
  BY DEF Refuse, Chat, PilotRun, Enter, Load, Make, Join, Lookup, CountHit,
         CountMiss, Answer, Deliver, ChatError, Store
<1> QED  BY <1>1, <1>2, <1>3, <1>4 DEF Turn

\* Calls.
LEMMA RefuseSeen ==
    ASSUME VInv, NEW t \in Tenants, NEW c \in ChattersOf[t], Refuse(c)
    PROVE  Seen(t)!NilClient(c)
<1>1. c \in Callers /\ pc[c] \in {"idle", "replay", "fresh", "error"}
  BY DEF Refuse, Returned, VInv, Apart, ChattersOf, Callers
<1>2. /\ PcOf(t)' = [PcOf(t) EXCEPT ![c] = "error"]
      /\ RespOf(t)' = [RespOf(t) EXCEPT ![c] = NoResp]
      /\ UNCHANGED ReqOf(t)
  <2>1. pc' = [pc EXCEPT ![c] = "error"] /\ resp' = [resp EXCEPT ![c] = NoResp] /\ UNCHANGED req
    BY DEF Refuse, Goto
  <2>2. SeenPc(c)' = "error" /\ resp'[c] = NoResp
    BY <1>1, <2>1 DEF VInv, IInv, Typed, TypeOK, SeenPc
  <2>3. UNCHANGED ReqOf(t)
    BY <2>1 DEF ReqOf
  <2> QED  BY <1>1, <2>2, <2>3, StepIsTurn, TurnSeen
<1>3. UNCHANGED <<TenantCache(t), now, StartedOf(t), BilledOf(t)>>
  BY <1>1, CacheSeen DEF Refuse, StartedOf, BilledOf
<1>4. PcOf(t)[c] = pc[c]
  BY <1>1 DEF PcOf, SeenPc
<1> QED
  BY <1>1, <1>2, <1>3, <1>4
     DEF Seen!NilClient, Seen!Returned, Seen!Goto, PcOf, ReqOf, RespOf, StartedOf, BilledOf

LEMMA ChatSeen ==
    ASSUME VInv, NEW t \in Tenants, NEW c \in ChattersOf[t], NEW r \in Asked, Chat(c, r)
    PROVE  Seen(t)!Call(c, r)
<1>1. /\ c \in Callers /\ TenantOf[c] = t
      /\ pc[c] \in {"idle", "replay", "fresh", "error"}
  BY DEF Chat, Enter, Returned, VInv, Apart, ChattersOf, Callers
<1>2. /\ PcOf(t)' = [PcOf(t) EXCEPT ![c] = "lookup"]
      /\ RespOf(t)' = [RespOf(t) EXCEPT ![c] = NoResp]
      /\ ReqOf(t)' = [ReqOf(t) EXCEPT ![c] = r]
  <2>1. /\ pc' = [pc EXCEPT ![c] = "load"] /\ resp' = [resp EXCEPT ![c] = NoResp]
        /\ req' = [req EXCEPT ![c] = r]
    BY DEF Chat, Enter, Goto
  <2>2. SeenPc(c)' = "lookup" /\ resp'[c] = NoResp /\ req'[c] = r
    BY <1>1, <2>1 DEF VInv, IInv, Typed, TypeOK, SeenPc
  <2> QED  BY <1>1, <2>2, StepIsTurn, TurnSeen
<1>3. UNCHANGED <<TenantCache(t), now, BilledOf(t)>>
  BY <1>1, CacheSeen DEF Chat, Enter, BilledOf
<1>4. /\ StartedOf(t)["cached"] + StartedOf(t)["direct"] < Quota[t]
      /\ StartedOf(t)' = [StartedOf(t) EXCEPT !["cached"] = @ + 1]
  <2>1. /\ started \in [Tenants -> Nat] /\ started[t] < Quota[t]
        /\ started' = [started EXCEPT ![t] = @ + 1]
    BY <1>1 DEF Chat, VInv, IInv, Typed, TypeOK
  <2>2. started[t] \in Nat /\ started'[t] = started[t] + 1
    BY <2>1
  <2>3. StartedOf(t)["cached"] = started[t] /\ StartedOf(t)["direct"] = 0
    BY DEF StartedOf
  <2>4. StartedOf(t)' = [StartedOf(t) EXCEPT !["cached"] = StartedOf(t)["cached"] + 1]
    BY <2>2 DEF StartedOf
  <2> QED  BY <2>1, <2>2, <2>3, <2>4
<1>5. PcOf(t)[c] = pc[c]
  BY <1>1 DEF PcOf, SeenPc
<1> QED
  BY <1>1, <1>2, <1>3, <1>4, <1>5
     DEF Seen!Call, Seen!Returned, Seen!Goto, Seen!Kind, PcOf, ReqOf, RespOf, StartedOf, BilledOf

\* Fetching the cache is not seen.
LEMMA FetchSeen ==
    ASSUME VInv, NEW t \in Tenants, NEW c \in ChattersOf[t], Load(c) \/ Make(c) \/ Join(c)
    PROVE  UNCHANGED View(t)
<1>1. c \in Callers /\ c \in Chatters
  BY DEF ChattersOf, Callers
<1>2. /\ UNCHANGED <<now, req, resp, started, billed>>
      /\ \E s \in {"make", "join", "lookup"} : pc' = [pc EXCEPT ![c] = s]
      /\ pc[c] \in InCall
  BY <1>1 DEF Load, Make, Join, Got, Goto, InCall
<1>3. UNCHANGED <<ReqOf(t), RespOf(t), StartedOf(t), BilledOf(t)>>
  BY <1>2 DEF ReqOf, RespOf, StartedOf, BilledOf
<1>4. UNCHANGED PcOf(t)
  BY <1>1, <1>2 DEF PcOf, SeenPc, InCall, VInv, IInv, Typed, TypeOK
<1>5. UNCHANGED TenantCache(t)
  BY <1>1, CacheSeen DEF Load
<1> QED  BY <1>2, <1>3, <1>4, <1>5 DEF View

\* The steps of CachedChat.
LEMMA UserSeen ==
    ASSUME VInv, NEW t \in Tenants, NEW c \in Callers, pc[c] \in Using, TenantOf[c] = t
    PROVE  /\ c \in ChattersOf[t]
           /\ PcOf(t)[c] = pc[c] /\ ReqOf(t)[c] = req[c] /\ RespOf(t)[c] = resp[c]
           /\ Job(c) = Seen(t)!JobID(req[c])
           /\ Cache(c) = TenantCache(t)
           /\ TenantCache(t).stat \in [hits : Nat, misses : Nat, evictions : Nat]
           /\ TenantCache(t) = [entries |-> TenantCache(t).entries, stat |-> TenantCache(t).stat]
<1>1. c \in ChattersOf[t]
  BY InUse DEF VInv, IInv, ChattersOf
<1>2. PcOf(t)[c] = pc[c] /\ ReqOf(t)[c] = req[c] /\ RespOf(t)[c] = resp[c]
  BY <1>1 DEF PcOf, ReqOf, RespOf, SeenPc, Using
<1>3. Job(c) = Seen(t)!JobID(req[c])
  BY DEF Job, Seen!JobID
<1>4. Cache(c) = TenantCache(t)
  BY CacheSeen
<1>5. TenantCache(t) \in CacheType
  BY <1>4, InUse, CachesTyped DEF VInv, IInv, Typed, Cache
<1> QED  BY <1>1, <1>2, <1>3, <1>4, <1>5 DEF CacheType

LEMMA UseSeen ==
    ASSUME VInv, NEW t \in Tenants, NEW c \in Callers, TenantOf[c] = t,
           \/ Lookup(c) \/ CountHit(c) \/ CountMiss(c) \/ Answer(c)
           \/ Deliver(c) \/ ChatError(c) \/ Store(c)
    PROVE  Seen(t)!Advance(c) \/ Seen(t)!Answer(c)
<1> DEFINE e == TenantCache(t).entries
           st == TenantCache(t).stat
<1> USE DEF Goto
<1>1. pc[c] \in Using /\ Turn(c)
  BY StepIsTurn DEF Lookup, CountHit, CountMiss, Answer, Deliver, ChatError, Store, Using
<1>2. /\ c \in ChattersOf[t]
      /\ PcOf(t)[c] = pc[c] /\ ReqOf(t)[c] = req[c] /\ RespOf(t)[c] = resp[c]
      /\ Job(c) = Seen(t)!JobID(req[c])
      /\ Cache(c) = TenantCache(t)
      /\ st \in [hits : Nat, misses : Nat, evictions : Nat]
      /\ TenantCache(t) = [entries |-> e, stat |-> st]
  BY <1>1, UserSeen
<1>3. /\ PcOf(t)' = [PcOf(t) EXCEPT ![c] = SeenPc(c)']
      /\ RespOf(t)' = [RespOf(t) EXCEPT ![c] = resp'[c]]
  BY <1>1, <1>2, TurnSeen
<1>4. DOMAIN pc = Callers /\ DOMAIN resp = Callers /\ billed \in [Tenants -> Nat]
  BY DEF VInv, IInv, Typed, TypeOK
<1>5. UNCHANGED <<now, ReqOf(t), StartedOf(t)>>
  BY DEF Lookup, CountHit, CountMiss, Answer, Deliver, ChatError, Store, ReqOf, StartedOf
<1>6. UNCHANGED billed => UNCHANGED BilledOf(t)
  BY DEF BilledOf
<1>7. UNCHANGED <<registry, caches>> => UNCHANGED TenantCache(t)
  BY CacheSeen
<1>8. UNCHANGED resp => UNCHANGED RespOf(t)
  BY DEF RespOf
<1>9. CASE Lookup(c)
  <2>1. UNCHANGED <<TenantCache(t), BilledOf(t)>> /\ PcOf(t)[c] = "lookup"
    BY <1>2, <1>6, <1>7, <1>9 DEF Lookup
  <2>2. Job(c) = Seen(t)!JobID(ReqOf(t)[c])
    BY <1>2
  <2>3. \/ /\ Seen(t)!Hit(e, Job(c), now)
           /\ RespOf(t)' = [RespOf(t) EXCEPT ![c] = e[Job(c)].resp]
           /\ PcOf(t)' = [PcOf(t) EXCEPT ![c] = "hit"]
        \/ /\ ~Seen(t)!Hit(e, Job(c), now)
           /\ PcOf(t)' = [PcOf(t) EXCEPT ![c] = "miss"]
           /\ UNCHANGED RespOf(t)
    <3>1. CASE Hit(e, Job(c), now)
      <4>1. SeenPc(c)' = "hit" /\ resp'[c] = e[Job(c)].resp
        BY <1>2, <1>4, <1>9, <3>1 DEF Lookup, SeenPc
      <4> QED  BY <1>3, <3>1, <4>1, SameOperators
    <3>2. CASE ~Hit(e, Job(c), now)
      <4>1. SeenPc(c)' = "miss" /\ UNCHANGED resp
        BY <1>2, <1>4, <1>9, <3>2 DEF Lookup, SeenPc
      <4> QED  BY <1>3, <1>8, <3>2, <4>1, SameOperators
    <3> QED  BY <3>1, <3>2
  <2>4. Seen(t)!Lookup(c)
    BY <1>5, <2>1, <2>2, <2>3
       DEF Seen!Lookup, Seen!Goto, PcOf, ReqOf, RespOf, StartedOf, BilledOf
  <2> QED  BY <2>4 DEF Seen!Advance
<1>10. CASE CountHit(c)
  <2>1. /\ UNCHANGED <<RespOf(t), BilledOf(t)>> /\ PcOf(t)[c] = "hit"
        /\ PcOf(t)' = [PcOf(t) EXCEPT ![c] = "replay"]
    <3>1. SeenPc(c)' = "replay"
      BY <1>4, <1>10 DEF CountHit, SeenPc
    <3> QED  BY <1>2, <1>3, <1>6, <1>8, <1>10, <3>1 DEF CountHit
  <2>2. TenantCache(t)' = [Cache(c) EXCEPT !.stat.hits = @ + 1]
    <3>1. caches' = [caches EXCEPT ![held[c]] = [Cache(c) EXCEPT !.stat.hits = @ + 1]]
      BY <1>10 DEF CountHit, Cache
    <3> QED  BY <1>1, <1>10, <3>1, CacheSeen DEF CountHit
  <2>3. TenantCache(t)'.entries = e /\ TenantCache(t)'.stat = [st EXCEPT !.hits = @ + 1]
    BY <1>2, <2>2
  <2>4. Seen(t)!CountHit(c)
    BY <1>5, <2>1, <2>3
       DEF Seen!CountHit, Seen!Goto, PcOf, ReqOf, RespOf, StartedOf, BilledOf
  <2> QED  BY <2>4 DEF Seen!Advance
<1>11. CASE CountMiss(c)
  <2>1. /\ UNCHANGED <<RespOf(t), BilledOf(t)>> /\ PcOf(t)[c] = "miss"
        /\ PcOf(t)' = [PcOf(t) EXCEPT ![c] = "dial"]
    <3>1. SeenPc(c)' = "dial"
      BY <1>4, <1>11 DEF CountMiss, SeenPc
    <3> QED  BY <1>2, <1>3, <1>6, <1>8, <1>11, <3>1 DEF CountMiss
  <2>2. TenantCache(t)' = [Cache(c) EXCEPT !.stat.misses = @ + 1]
    <3>1. caches' = [caches EXCEPT ![held[c]] = [Cache(c) EXCEPT !.stat.misses = @ + 1]]
      BY <1>11 DEF CountMiss, Cache
    <3> QED  BY <1>1, <1>11, <3>1, CacheSeen DEF CountMiss
  <2>3. TenantCache(t)'.entries = e /\ TenantCache(t)'.stat = [st EXCEPT !.misses = @ + 1]
    BY <1>2, <2>2
  <2>4. Seen(t)!CountMiss(c)
    BY <1>5, <2>1, <2>3
       DEF Seen!CountMiss, Seen!Goto, PcOf, ReqOf, RespOf, StartedOf, BilledOf
  <2> QED  BY <2>4 DEF Seen!Advance
<1>12. CASE Answer(c)
  <2> DEFINE a == [req |-> Wire(req[c]), id |-> billed[t]]
  <2>1. UNCHANGED TenantCache(t) /\ PcOf(t)[c] = "dial"
    BY <1>2, <1>7, <1>12 DEF Answer
  <2>2. /\ resp' = [resp EXCEPT ![c] = a] /\ SeenPc(c)' = "answered"
        /\ billed[t] \in Nat /\ billed'[t] = billed[t] + 1
    BY <1>4, <1>12 DEF Answer, SeenPc
  <2>3. a = [req |-> Seen(t)!Wire(ReqOf(t)[c]),
             id |-> BilledOf(t)["cached"] + BilledOf(t)["direct"]]
    <3>1. BilledOf(t)["cached"] + BilledOf(t)["direct"] = billed[t]
      BY <2>2 DEF BilledOf
    <3> QED  BY <1>2, <3>1, SameOperators
  <2> HIDE DEF a
  <2>4. /\ PcOf(t)' = [PcOf(t) EXCEPT ![c] = "answered"]
        /\ RespOf(t)' = [RespOf(t) EXCEPT ![c] = a]
    BY <1>3, <1>4, <2>2
  <2>5. BilledOf(t)' = [BilledOf(t) EXCEPT !["cached"] = @ + 1]
    BY <2>2 DEF BilledOf
  <2>6. Seen(t)!Answer(c)
    BY <1>5, <2>1, <2>3, <2>4, <2>5
       DEF Seen!Answer, Seen!Goto, Seen!Kind, PcOf, ReqOf, RespOf, StartedOf, BilledOf
  <2> QED  BY <2>6
<1>13. CASE Deliver(c)
  <2>1. /\ UNCHANGED <<TenantCache(t), RespOf(t), BilledOf(t)>> /\ PcOf(t)[c] = "answered"
        /\ PcOf(t)' = [PcOf(t) EXCEPT ![c] = "store"]
    <3>1. SeenPc(c)' = "store"
      BY <1>4, <1>13 DEF Deliver, SeenPc
    <3> QED  BY <1>2, <1>3, <1>6, <1>7, <1>8, <1>13, <3>1 DEF Deliver
  <2>2. Seen(t)!Deliver(c)
    BY <1>5, <2>1
       DEF Seen!Deliver, Seen!Goto, PcOf, ReqOf, RespOf, StartedOf, BilledOf
  <2> QED  BY <2>2 DEF Seen!Advance
<1>14. CASE ChatError(c)
  <2>1. /\ UNCHANGED <<TenantCache(t), BilledOf(t)>> /\ PcOf(t)[c] \in {"dial", "answered"}
        /\ PcOf(t)' = [PcOf(t) EXCEPT ![c] = "error"]
        /\ RespOf(t)' = [RespOf(t) EXCEPT ![c] = NoResp]
    <3>1. SeenPc(c)' = "error" /\ resp'[c] = NoResp
      BY <1>4, <1>14 DEF ChatError, SeenPc
    <3> QED  BY <1>2, <1>3, <1>6, <1>7, <1>14, <3>1 DEF ChatError
  <2>2. Seen(t)!ChatError(c)
    BY <1>5, <2>1
       DEF Seen!ChatError, Seen!Goto, PcOf, ReqOf, RespOf, StartedOf, BilledOf
  <2> QED  BY <2>2 DEF Seen!Advance
<1>15. CASE Store(c)
  <2>1. /\ UNCHANGED <<RespOf(t), BilledOf(t)>> /\ PcOf(t)[c] = "store"
        /\ PcOf(t)' = [PcOf(t) EXCEPT ![c] = "fresh"]
    <3>1. SeenPc(c)' = "fresh"
      BY <1>4, <1>15 DEF Store, SeenPc
    <3> QED  BY <1>2, <1>3, <1>6, <1>8, <1>15, <3>1 DEF Store
  <2>2. PICK old \in AfterEviction(Cache(c).entries) :
            caches' = [caches EXCEPT
                ![held[c]].entries = Insert(old, Job(c), resp[c], now),
                ![held[c]].stat.evictions = IF Full(Cache(c).entries) THEN @ + 1 ELSE @]
    BY <1>15 DEF Store
  <2> DEFINE new == Insert(old, Job(c), resp[c], now)
             n == IF Full(e) THEN st.evictions + 1 ELSE st.evictions
             counted == [st EXCEPT !.evictions = n]
  <2>3. TenantCache(t)' = [entries |-> new, stat |-> counted]
    <3>1. held[c] \in 1..Len(caches) /\ caches[held[c]] = TenantCache(t)
      BY <1>1, <1>2, InUse DEF VInv, IInv, Cache
    <3>2. caches' = [caches EXCEPT ![held[c]].entries = new, ![held[c]].stat.evictions = n]
      <4> HIDE DEF new
      <4> QED  BY <1>2, <2>2, <3>1 DEF new
    <3> HIDE DEF new, n
    <3>3. TenantCache(t) \in CacheType /\ DOMAIN caches = 1..Len(caches)
      BY <3>1, CachesTyped, LenProperties DEF VInv, IInv, Typed
    <3> DEFINE both == [[TenantCache(t) EXCEPT !.entries = new] EXCEPT !.stat.evictions = n]
    <3>4. caches' = [caches EXCEPT ![held[c]] = both]
      BY <3>1, <3>2, <3>3
    <3>5. both = [entries |-> new, stat |-> counted]
      BY <3>3, BothFields
    <3> HIDE DEF both, counted
    <3>6. caches' = [caches EXCEPT ![held[c]] = [entries |-> new, stat |-> counted]]
      BY <3>4, <3>5
    <3> QED  BY <1>1, <1>15, <3>6, CacheSeen DEF Store
  <2>4. TenantCache(t)'.entries = new /\ TenantCache(t)'.stat = counted
    <3> HIDE DEF new, counted
    <3> QED  BY <2>3
  <2>5. /\ old \in Seen(t)!AfterEviction(e)
        /\ new = Seen(t)!Insert(old, Seen(t)!JobID(ReqOf(t)[c]), RespOf(t)[c], now)
        /\ counted = [st EXCEPT !.evictions = IF Seen(t)!Full(e) THEN @ + 1 ELSE @]
    BY <1>2, SameOperators
  <2> HIDE DEF new, counted
  <2>6. Seen(t)!Store(c)
    BY <1>5, <2>1, <2>4, <2>5
       DEF Seen!Store, Seen!Goto, PcOf, ReqOf, RespOf, StartedOf, BilledOf
  <2> QED  BY <2>6 DEF Seen!Advance
<1> QED  BY <1>9, <1>10, <1>11, <1>12, <1>13, <1>14, <1>15

\* What others do is not seen.
LEMMA OthersSeen ==
    ASSUME VInv, NEW t \in Tenants, NEW c \in Callers, c \notin ChattersOf[t],
           \/ Refuse(c) \/ (\E r \in Asked : Chat(c, r)) \/ PilotRun(c)
           \/ Load(c) \/ Make(c) \/ Join(c)
           \/ Lookup(c) \/ CountHit(c) \/ CountMiss(c) \/ Answer(c)
           \/ Deliver(c) \/ ChatError(c) \/ Store(c)
    PROVE  UNCHANGED View(t)
<1>1. UNCHANGED <<PcOf(t), ReqOf(t), RespOf(t)>>
  BY StepIsTurn, TurnSeen
<1>2. c \in Chatters => TenantOf[c] # t
  BY DEF ChattersOf
<1>3. UNCHANGED now /\ started'[t] = started[t]
  BY <1>2 DEF Refuse, Chat, PilotRun, Enter, Load, Make, Join, Lookup, CountHit,
              CountMiss, Answer, Deliver, ChatError, Store, VInv, IInv, Typed, TypeOK
<1>4. pc[c] \in Using => TenantOf[c] # t
  BY <1>2, InUse DEF VInv, IInv
<1>5. billed'[t] = billed[t]
  <2>1. Answer(c) => pc[c] \in Using
    BY DEF Answer, Using
  <2> QED
    BY <1>4, <2>1 DEF Refuse, Chat, PilotRun, Enter, Load, Make, Join, Lookup, CountHit,
              CountMiss, Answer, Deliver, ChatError, Store, VInv, IInv, Typed, TypeOK
<1>6. UNCHANGED TenantCache(t)
  <2>1. CASE CountHit(c) \/ CountMiss(c) \/ Store(c)
    <3>1. pc[c] \in Using /\ UNCHANGED registry
      BY <2>1 DEF CountHit, CountMiss, Store, Using
    <3>2. \E k : caches' = [caches EXCEPT ![held[c]] = k]
      BY <2>1 DEF CountHit, CountMiss, Store
    <3> QED  BY <1>4, <3>1, <3>2, CacheSeen
  <2>2. CASE Make(c) \/ Join(c)
    BY <2>2, CacheSeen
  <2>3. CASE UNCHANGED <<registry, caches>>
    BY <2>3, CacheSeen
  <2> QED
    BY <2>1, <2>2, <2>3 DEF Refuse, Chat, PilotRun, Enter, Load, Lookup, Answer, Deliver,
                            ChatError
<1> QED  BY <1>1, <1>3, <1>5, <1>6 DEF View, StartedOf, BilledOf

\* A tenant sees each step as one of its own cache, or not at all.
LEMMA StepSeen ==
    ASSUME VInv, [Next]_vars, NEW t \in Tenants
    PROVE  UNCHANGED Seen(t)!vars \/ Seen(t)!Next
<1>1. ASSUME NEW c \in ChattersOf[t], Refuse(c) PROVE Seen(t)!Next
  BY <1>1, RefuseSeen DEF Seen!Next
<1>2. ASSUME NEW c \in ChattersOf[t], NEW r \in Asked, Chat(c, r) PROVE Seen(t)!Next
  BY <1>2, ChatSeen DEF Seen!Next
<1>3. ASSUME NEW c \in ChattersOf[t], Load(c) \/ Make(c) \/ Join(c)
      PROVE  UNCHANGED Seen(t)!vars
  BY <1>3, FetchSeen, ViewUnchanged
<1>4. ASSUME NEW c \in ChattersOf[t],
             \/ Lookup(c) \/ CountHit(c) \/ CountMiss(c) \/ Answer(c)
             \/ Deliver(c) \/ ChatError(c) \/ Store(c)
      PROVE  Seen(t)!Next
  <2>1. c \in Callers /\ TenantOf[c] = t
    BY DEF ChattersOf, Callers
  <2> QED  BY <1>4, <2>1, UseSeen DEF Seen!Next
<1>5. ASSUME NEW c \in Callers, PilotRun(c) PROVE c \notin ChattersOf[t]
  BY <1>5, TenantAssumption DEF PilotRun, ChattersOf
<1>6. ASSUME NEW c \in Callers, c \notin ChattersOf[t],
             \/ Refuse(c) \/ (\E r \in Asked : Chat(c, r)) \/ PilotRun(c)
             \/ Load(c) \/ Make(c) \/ Join(c)
             \/ Lookup(c) \/ CountHit(c) \/ CountMiss(c) \/ Answer(c)
             \/ Deliver(c) \/ ChatError(c) \/ Store(c)
      PROVE  UNCHANGED Seen(t)!vars
  BY <1>6, OthersSeen, ViewUnchanged
<1>7. CASE Tick
  <2>1. /\ now < MaxTime /\ now' = now + 1
        /\ UNCHANGED <<TenantCache(t), PcOf(t), ReqOf(t), RespOf(t), StartedOf(t), BilledOf(t)>>
    BY <1>7 DEF Tick, TenantCache, PcOf, SeenPc, ReqOf, RespOf, StartedOf, BilledOf
  <2>2. Seen(t)!Tick
    BY <2>1 DEF Seen!Tick, PcOf, ReqOf, RespOf, StartedOf, BilledOf
  <2> QED  BY <2>2 DEF Seen!Next
<1>8. CASE UNCHANGED vars
  <2>1. UNCHANGED View(t)
    BY <1>8 DEF vars, View, TenantCache, PcOf, SeenPc, ReqOf, RespOf, StartedOf, BilledOf
  <2> QED  BY <2>1, ViewUnchanged
<1> QED
  BY <1>1, <1>2, <1>3, <1>4, <1>5, <1>6, <1>7, <1>8 DEF Next

LEMMA ViewInvariant == Spec => []VInv
<1>1. Init => VInv
  BY InitInv, InitUntouched DEF VInv
<1>2. VInv /\ [Next]_vars => VInv'
  <2>1. VInv /\ [Next]_vars => IInv'
    BY StepTyped, StepShares DEF VInv, IInv
  <2> QED  BY <2>1, StepUntouched DEF VInv
<1> QED  BY <1>1, <1>2, PTL DEF Spec

\* Each tenant has a cache of its own that behaves as IdempotencyCache, whatever
\* other tenants do, and however calls race to make it.
THEOREM TenantsApart == Spec => TenantsIsolated
<1> DEFINE Seeing == \A t \in Tenants : UNCHANGED Seen(t)!vars \/ Seen(t)!Next
<1>1. Init => \A t \in Tenants : Seen(t)!Init
  BY InitSeen
<1>2. VInv /\ [Next]_vars => Seeing
  BY StepSeen
<1> HIDE DEF Seeing
<1>3. VInv /\ [Next]_vars => [Seeing]_vars
  BY <1>2
<1>4. Spec => [][Seeing]_vars
  BY <1>3, ViewInvariant, PTL DEF Spec
<1>5. Spec => \A t \in Tenants : Seen(t)!Init
  BY <1>1 DEF Spec
<1> QED  BY <1>4, <1>5 DEF TenantsIsolated, Seeing
=============================================================================
