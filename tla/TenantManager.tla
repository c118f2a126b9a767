---------------------------- MODULE TenantManager ----------------------------
(***************************************************************************)
(* internal/tenancy: a Manager that gives each tenant a Cache of its own,  *)
(* made on first use by whichever goroutine comes first.  A goroutine      *)
(* works for the tenant of its context.  Chatting goroutines go through    *)
(* Manager.CachedChat; piloting ones through PilotRun, which fetches the   *)
(* tenant's cache and does nothing else with it.                           *)
(*                                                                         *)
(*   load --found-----------------------> lookup ... as IdempotencyCache   *)
(*     \--absent--> make --> join ------>   (piloted, for a pilot)         *)
(***************************************************************************)
EXTENDS CacheOps, Sequences

CONSTANTS
    Tenants,
    NoTenant,      \* the tenant of a context that carries none
    Chatters,      \* goroutines that call CachedChat
    Pilots,        \* goroutines that call PilotRun or CacheFor
    TenantOf,      \* the tenant in each goroutine's context
    TenantPrint,   \* "tenant:" + tenant + "|" + fingerprint
    Asked,         \* the requests chatters may make
    NoReq, NoResp,
    Quota,         \* bound: chats started for each tenant
    MaxTime        \* bound: the instant the clock stops at

Callers == Chatters \cup Pilots

ASSUME TenantAssumption ==
    /\ IsFiniteSet(Tenants)
    /\ IsFiniteSet(Callers)
    /\ Chatters \cap Pilots = {}
    /\ NoTenant \notin Tenants
    /\ TenantOf \in [Callers -> Tenants \cup {NoTenant}]
    /\ TenantPrint \in [Tenants \X Prints -> Prints]
    /\ Asked \subseteq Requests
    /\ NoResp \notin Responses
    /\ Quota \in [Tenants -> Nat]
    /\ MaxTime \in Nat

VARIABLES
    registry,  \* Manager.caches: from tenants to handles
    caches,    \* every Cache ever made, by handle
    held,      \* the handle each goroutine holds, 0 if none
    now,
    pc, req, resp,
    started,   \* chats begun for each tenant (bounds the model)
    billed     \* completions produced for each tenant

vars == <<registry, caches, held, now, pc, req, resp, started, billed>>

Returned == {"idle", "replay", "fresh", "error", "piloted"}
Steps == Returned \cup {"load", "make", "join", "lookup", "hit", "miss", "dial",
                        "answered", "store"}

NewCache ==
    [entries |-> EmptyCache, stat |-> [hits |-> 0, misses |-> 0, evictions |-> 0]]

\* CachedChat hands idempotency.CachedChat a fingerprint with the tenant in it;
\* the request that is sent keeps its own messages.
TenantHash ==
    [t \in Tenants |-> [x \in Prints \X Models \X Backends |->
        Hash[<<TenantPrint[t, x[1]], x[2], x[3]>>]]]
Job(c) == TenantHash[TenantOf[c]][<<req[c].fp, req[c].model, req[c].backend>>]
Cache(c) == caches[held[c]]
Goto(c, step) == pc' = [pc EXCEPT ![c] = step]

\* The steps at which a chatter reads or writes the cache it holds.
Using == {"lookup", "hit", "miss", "dial", "answered", "store"}

TypeOK ==
    /\ \A i \in 1..Len(caches) : LET e == caches[i].entries IN
          /\ DOMAIN e \subseteq JobIDs
          /\ e \in [DOMAIN e -> Entries]
          /\ caches[i].stat \in [hits : Nat, misses : Nat, evictions : Nat]
    /\ DOMAIN registry \subseteq Tenants
    /\ \A t \in DOMAIN registry : registry[t] \in 1..Len(caches)
    /\ held \in [Callers -> 0..Len(caches)]
    /\ now \in Int
    /\ pc \in [Callers -> Steps]
    /\ req \in [Callers -> Requests \cup {NoReq}]
    /\ resp \in [Callers -> Responses \cup {NoResp}]
    /\ started \in [Tenants -> Nat]
    /\ billed \in [Tenants -> Nat]
    /\ \A c \in Callers :
          /\ pc[c] \notin Returned => TenantOf[c] \in Tenants
          /\ pc[c] \in Using \cup {"join"} => held[c] # 0
          /\ pc[c] \in Using => c \in Chatters
          /\ c \in Chatters /\ pc[c] \notin Returned => req[c] \in Requests
          /\ pc[c] \in {"hit", "answered", "store"} => resp[c] \in Responses

Init ==
    /\ registry = [t \in {} |-> 0]
    /\ caches = <<>>
    /\ held = [c \in Callers |-> 0]
    /\ now = 0
    /\ pc = [c \in Callers |-> "idle"]
    /\ req = [c \in Callers |-> NoReq]
    /\ resp = [c \in Callers |-> NoResp]
    /\ started = [t \in Tenants |-> 0]
    /\ billed = [t \in Tenants |-> 0]
-----------------------------------------------------------------------------
\* A nil client, or a context without a tenant (ErrTenantRequired): nothing is
\* looked up and no cache is made.
Refuse(c) ==
    /\ pc[c] \in Returned
    /\ resp' = [resp EXCEPT ![c] = NoResp]
    /\ Goto(c, "error")
    /\ UNCHANGED <<registry, caches, held, now, req, started, billed>>

Enter(c) ==
    /\ pc[c] \in Returned
    /\ TenantOf[c] # NoTenant
    /\ resp' = [resp EXCEPT ![c] = NoResp]
    /\ held' = [held EXCEPT ![c] = 0]
    /\ Goto(c, "load")
    /\ UNCHANGED <<registry, caches, now, billed>>

Chat(c, r) ==
    /\ c \in Chatters
    /\ Enter(c)
    /\ started[TenantOf[c]] < Quota[TenantOf[c]]
    /\ started' = [started EXCEPT ![TenantOf[c]] = @ + 1]
    /\ req' = [req EXCEPT ![c] = r]

PilotRun(c) ==
    /\ c \in Pilots
    /\ Enter(c)
    /\ UNCHANGED <<req, started>>

\* CacheFor has returned a cache.  PilotRun leaves it alone: it returns a bundle
\* stamped with the tenant, or an error if it was not given the seven tasks.
Got(c) == Goto(c, IF c \in Chatters THEN "lookup" ELSE "piloted")

\* CacheFor, first look: sync.Map.Load.
Load(c) ==
    /\ pc[c] = "load"
    /\ \/ /\ TenantOf[c] \in DOMAIN registry
          /\ held' = [held EXCEPT ![c] = registry[TenantOf[c]]]
          /\ Got(c)
       \/ /\ TenantOf[c] \notin DOMAIN registry
          /\ Goto(c, "make")
          /\ UNCHANGED held
    /\ UNCHANGED <<registry, caches, now, req, resp, started, billed>>

\* Mutants: a handle to a cache that was never made; one cache for everybody.
MakeNothing(c) ==
    /\ pc[c] = "make"
    /\ held' = [held EXCEPT ![c] = Len(caches) + 1]
    /\ Goto(c, "join")
    /\ UNCHANGED <<registry, caches, now, req, resp, started, billed>>

MakeShared(c) ==
    /\ pc[c] = "make"
    /\ caches' = IF caches = <<>> THEN <<NewCache>> ELSE caches
    /\ held' = [held EXCEPT ![c] = 1]
    /\ Goto(c, "join")
    /\ UNCHANGED <<registry, now, req, resp, started, billed>>

\* CacheFor: a cache is made before it is known to be needed.
Make(c) ==
    /\ pc[c] = "make"
    /\ caches' = Append(caches, NewCache)
    /\ held' = [held EXCEPT ![c] = Len(caches')]
    /\ Goto(c, "join")
    /\ UNCHANGED <<registry, now, req, resp, started, billed>>

\* Mutants: Store in place of LoadOrStore; the loser of a race keeps the cache
\* it made.
JoinOverwrites(c) ==
    /\ pc[c] = "join"
    /\ registry' = [t \in DOMAIN registry \cup {TenantOf[c]} |->
                        IF t = TenantOf[c] THEN held[c] ELSE registry[t]]
    /\ Got(c)
    /\ UNCHANGED <<caches, held, now, req, resp, started, billed>>

JoinKeepsOwn(c) ==
    /\ pc[c] = "join"
    /\ registry' = [t \in DOMAIN registry \cup {TenantOf[c]} |->
                        IF t \in DOMAIN registry THEN registry[t] ELSE held[c]]
    /\ Got(c)
    /\ UNCHANGED <<caches, held, now, req, resp, started, billed>>

\* CacheFor: sync.Map.LoadOrStore.  The loser of a race drops the cache it made.
Join(c) ==
    /\ pc[c] = "join"
    /\ \/ /\ TenantOf[c] \in DOMAIN registry
          /\ held' = [held EXCEPT ![c] = registry[TenantOf[c]]]
          /\ UNCHANGED registry
       \/ /\ TenantOf[c] \notin DOMAIN registry
          /\ registry' = [t \in DOMAIN registry \cup {TenantOf[c]} |->
                            IF t = TenantOf[c] THEN held[c] ELSE registry[t]]
          /\ UNCHANGED held
    /\ Got(c)
    /\ UNCHANGED <<caches, now, req, resp, started, billed>>
-----------------------------------------------------------------------------
(* The steps of idempotency.CachedChat on the cache that c holds. *)

Lookup(c) ==
    /\ pc[c] = "lookup"
    /\ LET e == Cache(c).entries IN
       \/ /\ Hit(e, Job(c), now)
          /\ resp' = [resp EXCEPT ![c] = e[Job(c)].resp]
          /\ Goto(c, "hit")
       \/ /\ ~Hit(e, Job(c), now)
          /\ Goto(c, "miss")
          /\ UNCHANGED resp
    /\ UNCHANGED <<registry, caches, held, now, req, started, billed>>

CountHit(c) ==
    /\ pc[c] = "hit"
    /\ caches' = [caches EXCEPT ![held[c]].stat.hits = @ + 1]
    /\ Goto(c, "replay")
    /\ UNCHANGED <<registry, held, now, req, resp, started, billed>>

CountMiss(c) ==
    /\ pc[c] = "miss"
    /\ caches' = [caches EXCEPT ![held[c]].stat.misses = @ + 1]
    /\ Goto(c, "dial")
    /\ UNCHANGED <<registry, held, now, req, resp, started, billed>>

Answer(c) ==
    /\ pc[c] = "dial"
    /\ billed' = [billed EXCEPT ![TenantOf[c]] = @ + 1]
    /\ resp' = [resp EXCEPT ![c] =
                  [req |-> Wire(req[c]), id |-> billed[TenantOf[c]]]]
    /\ Goto(c, "answered")
    /\ UNCHANGED <<registry, caches, held, now, req, started>>

Deliver(c) ==
    /\ pc[c] = "answered"
    /\ Goto(c, "store")
    /\ UNCHANGED <<registry, caches, held, now, req, resp, started, billed>>

ChatError(c) ==
    /\ pc[c] \in {"dial", "answered"}
    /\ resp' = [resp EXCEPT ![c] = NoResp]
    /\ Goto(c, "error")
    /\ UNCHANGED <<registry, caches, held, now, req, started, billed>>

Store(c) ==
    /\ pc[c] = "store"
    /\ \E e \in AfterEviction(Cache(c).entries) :
          caches' = [caches EXCEPT
              ![held[c]].entries = Insert(e, Job(c), resp[c], now),
              ![held[c]].stat.evictions =
                  IF Full(Cache(c).entries) THEN @ + 1 ELSE @]
    /\ Goto(c, "fresh")
    /\ UNCHANGED <<registry, held, now, req, resp, started, billed>>

Tick ==
    /\ now < MaxTime
    /\ now' = now + 1
    /\ UNCHANGED <<registry, caches, held, pc, req, resp, started, billed>>

Next ==
    \/ \E c \in Callers :
          \/ Refuse(c)
          \/ \E r \in Asked : Chat(c, r)
          \/ PilotRun(c)
          \/ Load(c) \/ Make(c) \/ Join(c)
          \/ Lookup(c) \/ CountHit(c) \/ CountMiss(c) \/ Answer(c)
          \/ Deliver(c) \/ ChatError(c) \/ Store(c)
    \/ Tick

Spec == Init /\ [][Next]_vars
-----------------------------------------------------------------------------
\* "Concurrent calls for the same tenant receive the same cache instance"
\* (tenant.go:80), and no two tenants the same one (tenant.go:10): a cache made
\* by the loser of a race is never used.
OneCachePerTenant ==
    /\ \A c \in Chatters : pc[c] \in Using =>
          /\ TenantOf[c] \in DOMAIN registry
          /\ held[c] = registry[TenantOf[c]]
    /\ \A s, t \in DOMAIN registry : registry[s] = registry[t] => s = t

\* A tenant's cache is never replaced, so what it holds and has counted is not
\* lost to later calls.
CacheKept ==
    [][\A t \in DOMAIN registry : t \in DOMAIN registry' /\ registry'[t] = registry[t]]_vars

-----------------------------------------------------------------------------
(* Seen by one tenant the manager is one IdempotencyCache. *)

ChattersOf == [t \in Tenants |-> {c \in Chatters : TenantOf[c] = t}]

TenantCache(t) == IF t \in DOMAIN registry THEN caches[registry[t]] ELSE NewCache

\* Fetching the cache is part of a call that has not looked it up yet.
SeenPc(c) == IF pc[c] \in {"load", "make", "join"} THEN "lookup" ELSE pc[c]

Seen(t) == INSTANCE IdempotencyCache WITH
    Hash <- TenantHash[t],
    Callers <- ChattersOf[t],
    Direct <- {},
    ClockSettings <- {},
    MaxCalls <- Quota[t],
    entries <- TenantCache(t).entries,
    stat <- TenantCache(t).stat,
    pc <- [c \in ChattersOf[t] |-> SeenPc(c)],
    req <- [c \in ChattersOf[t] |-> req[c]],
    resp <- [c \in ChattersOf[t] |-> resp[c]],
    started <- [k \in {"cached", "direct"} |-> IF k = "cached" THEN started[t] ELSE 0],
    billed <- [k \in {"cached", "direct"} |-> IF k = "cached" THEN billed[t] ELSE 0]

\* "Tenant A's retries never see tenant B's cached responses", and "concurrent
\* tenant calls do not share state" (tenant.go:5, 13): each tenant, whatever
\* the others do and however its cache came to be, has a cache of its own that
\* behaves as IdempotencyCache, and nobody else's call changes it.
TenantsIsolated ==
    /\ \A t \in Tenants : Seen(t)!Init
    /\ [][\A t \in Tenants : UNCHANGED Seen(t)!vars \/ Seen(t)!Next]_vars
=============================================================================
