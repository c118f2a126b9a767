--------------------------- MODULE IdempotencyCache ---------------------------
(***************************************************************************)
(* internal/idempotency: goroutines that call CachedChat on one shared     *)
(* Cache.  The cache's lock is held for short sections only, so a call is  *)
(* a chain of atomic steps with anything in between:                       *)
(*                                                                         *)
(*   lookup --hit--> hit --------------------------------> replay          *)
(*     \--miss--> miss -> dial -> answered -> store ------> fresh          *)
(*                          \--------\--------------------> error          *)
(*                                                                         *)
(* A caller in Direct has no cache configured: it dials straight away.     *)
(***************************************************************************)
EXTENDS CacheOps

CONSTANTS
    Callers,        \* goroutines
    Direct,         \* those that pass a nil cache
    Asked,          \* the requests they may make
    ClockSettings,  \* instants SetClock may install
    NoReq,          \* the request of a caller that has made none
    NoResp,         \* a nil *ChatResponse
    MaxCalls,       \* bound: calls started
    MaxTime         \* bound: the instant the clock stops at

ASSUME CallerAssumption ==
    /\ IsFiniteSet(Callers)
    /\ Direct \subseteq Callers
    /\ Asked \subseteq Requests
    /\ ClockSettings \subseteq Int
    /\ NoResp \notin Responses
    /\ MaxCalls \in Nat
    /\ MaxTime \in Nat

VARIABLES
    entries,  \* Cache.entries
    stat,     \* Cache.stat
    now,      \* what Cache.now() returns
    pc,       \* where each goroutine is in CachedChat
    req,      \* its request
    resp,     \* the response it holds or has returned
    started,  \* calls begun, by kind of caller (bounds the model)
    billed    \* completions the provider produced, by kind of caller

vars == <<entries, stat, now, pc, req, resp, started, billed>>

Returned == {"idle", "replay", "fresh", "error"}
Steps == Returned \cup {"lookup", "hit", "miss", "dial", "answered", "store"}
Kind(c) == IF c \in Direct THEN "direct" ELSE "cached"
Goto(c, step) == pc' = [pc EXCEPT ![c] = step]

TypeOK ==
    /\ DOMAIN entries \subseteq JobIDs
    /\ entries \in [DOMAIN entries -> Entries]
    /\ stat \in [hits : Nat, misses : Nat, evictions : Nat]
    /\ now \in Int
    /\ pc \in [Callers -> Steps]
    /\ req \in [Callers -> Requests \cup {NoReq}]
    /\ resp \in [Callers -> Responses \cup {NoResp}]
    /\ \A c \in Callers :
          /\ pc[c] \notin {"idle", "error"} => req[c] \in Requests
          /\ pc[c] \in {"hit", "answered", "store", "replay", "fresh"} =>
                resp[c] \in Responses
    /\ started \in [{"cached", "direct"} -> Nat]
    /\ billed \in [{"cached", "direct"} -> Nat]

Init ==
    /\ entries = EmptyCache
    /\ stat = [hits |-> 0, misses |-> 0, evictions |-> 0]
    /\ now = 0
    /\ pc = [c \in Callers |-> "idle"]
    /\ req = [c \in Callers |-> NoReq]
    /\ resp = [c \in Callers |-> NoResp]
    /\ started = [k \in {"cached", "direct"} |-> 0]
    /\ billed = [k \in {"cached", "direct"} |-> 0]
-----------------------------------------------------------------------------
\* CachedChat is entered with a request; a nil cache goes straight to Chat.
Call(c, r) ==
    /\ pc[c] \in Returned
    /\ started["cached"] + started["direct"] < MaxCalls
    /\ started' = [started EXCEPT ![Kind(c)] = @ + 1]
    /\ req' = [req EXCEPT ![c] = r]
    /\ resp' = [resp EXCEPT ![c] = NoResp]
    /\ Goto(c, IF c \in Direct THEN "dial" ELSE "lookup")
    /\ UNCHANGED <<entries, stat, now, billed>>

\* CachedChat refuses a nil client before it looks at the cache.
NilClient(c) ==
    /\ pc[c] \in Returned
    /\ resp' = [resp EXCEPT ![c] = NoResp]
    /\ Goto(c, "error")
    /\ UNCHANGED <<entries, stat, now, req, started, billed>>

\* Lookup under the read lock, which is released before Hits is counted.
\* An expired entry is a miss, and stays where it is.
Lookup(c) ==
    /\ pc[c] = "lookup"
    /\ LET j == JobID(req[c]) IN
       \/ /\ Hit(entries, j, now)
          /\ resp' = [resp EXCEPT ![c] = entries[j].resp]
          /\ Goto(c, "hit")
       \/ /\ ~Hit(entries, j, now)
          /\ Goto(c, "miss")
          /\ UNCHANGED resp
    /\ UNCHANGED <<entries, stat, now, req, started, billed>>

\* Mutant: the second critical section of Lookup is left out.
HitUncounted(c) ==
    /\ pc[c] = "hit"
    /\ Goto(c, "replay")
    /\ UNCHANGED <<entries, stat, now, req, resp, started, billed>>

\* The second, separate critical section of Lookup; the caller returns with
\* ErrIdempotentReplay.
CountHit(c) ==
    /\ pc[c] = "hit"
    /\ stat' = [stat EXCEPT !.hits = @ + 1]
    /\ Goto(c, "replay")
    /\ UNCHANGED <<entries, now, req, resp, started, billed>>

\* Mutant: Chat is entered without Misses being counted.
MissUncounted(c) ==
    /\ pc[c] = "miss"
    /\ Goto(c, "dial")
    /\ UNCHANGED <<entries, stat, now, req, resp, started, billed>>

\* Misses is counted, then Chat is entered: nothing rereads the cache here.
CountMiss(c) ==
    /\ pc[c] = "miss"
    /\ stat' = [stat EXCEPT !.misses = @ + 1]
    /\ Goto(c, "dial")
    /\ UNCHANGED <<entries, now, req, resp, started, billed>>

\* The provider completes the request, and bills it, whether or not the
\* answer reaches the client.
Answer(c) ==
    /\ pc[c] = "dial"
    /\ billed' = [billed EXCEPT ![Kind(c)] = @ + 1]
    /\ resp' = [resp EXCEPT ![c] =
                  [req |-> Wire(req[c]), id |-> billed["cached"] + billed["direct"]]]
    /\ Goto(c, "answered")
    /\ UNCHANGED <<entries, stat, now, req, started>>

\* Chat returns the decoded answer.
Deliver(c) ==
    /\ pc[c] = "answered"
    /\ Goto(c, IF c \in Direct THEN "fresh" ELSE "store")
    /\ UNCHANGED <<entries, stat, now, req, resp, started, billed>>

\* Mutants: the error of Chat is not looked at; the client has no timeout, so
\* that only an answer brings it back.
ErrorIgnored(c) ==
    /\ pc[c] \in {"dial", "answered"}
    /\ resp' = [resp EXCEPT ![c] = NoResp]
    /\ Goto(c, "fresh")
    /\ UNCHANGED <<entries, stat, now, req, started, billed>>

ErrorAfterAnswer(c) ==
    /\ pc[c] = "answered"
    /\ resp' = [resp EXCEPT ![c] = NoResp]
    /\ Goto(c, "error")
    /\ UNCHANGED <<entries, stat, now, req, started, billed>>

\* Chat returns an error: before an answer (refused, status >= 400, the
\* 120 s timeout) or after it (connection cut, body not decodable).
ChatError(c) ==
    /\ pc[c] \in {"dial", "answered"}
    /\ resp' = [resp EXCEPT ![c] = NoResp]
    /\ Goto(c, "error")
    /\ UNCHANGED <<entries, stat, now, req, started, billed>>

\* Mutant: every Store in a capped cache counts an eviction.
StoreCountsEviction(c) ==
    /\ pc[c] = "store"
    /\ \E e \in AfterEviction(entries) :
          entries' = Insert(e, JobID(req[c]), resp[c], now)
    /\ stat' = [stat EXCEPT !.evictions = IF MaxSize > 0 THEN @ + 1 ELSE @]
    /\ Goto(c, "fresh")
    /\ UNCHANGED <<now, req, resp, started, billed>>

\* Store under the write lock: evict if full, then insert or overwrite.
Store(c) ==
    /\ pc[c] = "store"
    /\ \E e \in AfterEviction(entries) :
          entries' = Insert(e, JobID(req[c]), resp[c], now)
    /\ stat' = [stat EXCEPT !.evictions = IF Full(entries) THEN @ + 1 ELSE @]
    /\ Goto(c, "fresh")
    /\ UNCHANGED <<now, req, resp, started, billed>>

\* Time passes.
Tick ==
    /\ now < MaxTime
    /\ now' = now + 1
    /\ UNCHANGED <<entries, stat, pc, req, resp, started, billed>>

\* SetClock installs another clock, which may be behind the current one.
SetClock(t) ==
    /\ now' = t
    /\ UNCHANGED <<entries, stat, pc, req, resp, started, billed>>

\* What goroutine c does by itself once it has been called.  ChatError
\* stands for the client's timeout: Chat always comes back.
Advance(c) ==
    \/ Lookup(c) \/ CountHit(c) \/ CountMiss(c)
    \/ Deliver(c) \/ ChatError(c) \/ Store(c)

Next ==
    \/ \E c \in Callers :
          \/ \E r \in Asked : Call(c, r)
          \/ NilClient(c)
          \/ Advance(c)
          \/ Answer(c)
    \/ Tick
    \/ \E t \in ClockSettings : SetClock(t)

Spec == Init /\ [][Next]_vars

\* The scheduler runs every goroutine that can run, and the http.Client
\* timeout ends every Chat.  Nothing is assumed of the provider, of the clock
\* or of the callers' wish to call again.
FairSpec == Spec /\ \A c \in Callers : WF_vars(Advance(c))
-----------------------------------------------------------------------------
Cached == Callers \ Direct

\* The callers of the cache that are at one of the given steps.
At(steps) == {c \in Cached : pc[c] \in steps}

Uncounted == At({"lookup", "hit", "miss"})
Dialling == At({"dial"})
Unstored == At({"answered", "store"})

\* The size cap holds at every instant, however many goroutines store at
\* once and whatever the clock does ("bounded memory", cache.go:14).
CapacityBound ==
    MaxSize > 0 => Cardinality(DOMAIN entries) <= MaxSize

\* No call is lost or counted twice by the counters, which are updated in
\* critical sections of their own: a call through the cache is a hit, a miss,
\* or has not got as far as being counted.
StatsAccount ==
    stat.hits + stat.misses
        + Cardinality(Uncounted)
    = started["cached"]

\* Every completion that was paid for through the cache is a counted miss,
\* even when its answer was lost on the way back: Misses is never below the
\* bill, and exceeds it by the dials that reached nobody or still wait.
EveryBillCounted ==
    billed["cached"] + Cardinality(Dialling) <= stat.misses

\* Every entry the cache ever held was paid for: those held now, those evicted
\* and those about to be stored add up to no more than the bill.
EntriesPaidFor ==
    Cardinality(DOMAIN entries) + stat.evictions
        + Cardinality(Unstored)
    <= billed["cached"]

\* A response, replayed or fresh, answers the request of the call it is
\* returned from, with the entries being filled, overwritten and evicted by
\* other goroutines between the lookup and the return: as long as the hash
\* keeps the triples apart, no caller is given somebody else's answer.
HashInjective ==
    \A s, t \in Prints \X Models \X Backends : Hash[s] = Hash[t] => s = t

AnswersRequest ==
    HashInjective =>
        \A c \in Callers : resp[c] # NoResp => resp[c].req = Wire(req[c])

\* Every call comes back, whatever the provider does (client.go:109 gives
\* each round-trip a timeout).
CallReturns ==
    \A c \in Callers : (pc[c] \notin Returned) ~> (pc[c] \in Returned)

\* cache.go:111: Store "enforces the maxSize cap by evicting the oldest entry
\* on overflow": an entry is evicted only to make room for a new one.
EvictsOnlyOnOverflow ==
    [][stat'.evictions > stat.evictions =>
          \E c \in Cached :
             /\ pc[c] = "store"
             /\ JobID(req[c]) \notin DOMAIN entries]_vars
=============================================================================
