------------------------------- MODULE CacheOps -------------------------------
(***************************************************************************)
(* Package idempotency without its callers: the map of cached responses as *)
(* a function from job ids to entries, and what one critical section of    *)
(* Cache does to it.  Pure operators, so that one cache (IdempotencyCache) *)
(* and one cache per tenant (TenantManager) are built from the same code.  *)
(***************************************************************************)
EXTENDS LlmClient, Integers, FiniteSets

CONSTANTS
    JobIDs,    \* the 8-hex-digit job ids
    Hash,      \* sha256 over "fp|model|backend", cut to 4 bytes
    TTL,       \* Cache.ttl, 0: entries never expire
    MaxSize    \* Cache.maxSize, 0: unbounded

\* Hash is any function of the triple: the prefix is short and the joined
\* string ambiguous, so two triples may well get the same job id.
ASSUME CacheAssumption ==
    /\ IsFiniteSet(JobIDs)
    /\ Hash \in [Prints \X Models \X Backends -> JobIDs]
    /\ TTL \in Nat
    /\ MaxSize \in Nat

\* Mutant: a job id without the model in it.
JobIDWithoutModel(r) == Hash[<<r.fp, NoModel, r.backend>>]

JobID(r) == Hash[<<r.fp, r.model, r.backend>>]

Entries == [resp : Responses, storedAt : Int]

EmptyCache == [j \in {} |-> {}]

\* Mutants: entries never expire; an entry expires the instant it is TTL old.
HitWithoutTTL(e, j, t) == j \in DOMAIN e
HitUntilTTL(e, j, t) == j \in DOMAIN e /\ ~(TTL > 0 /\ t - e[j].storedAt >= TTL)

\* Lookup's read section: present, and not older than the TTL.
Hit(e, j, t) ==
    /\ j \in DOMAIN e
    /\ ~(TTL > 0 /\ t - e[j].storedAt > TTL)

\* Mutant: the cap is off by one.
FullOffByOne(e) == MaxSize > 0 /\ Cardinality(DOMAIN e) > MaxSize

\* Store's test of the size cap.  It does not ask whether the job being
\* stored already has an entry.
Full(e) == MaxSize > 0 /\ Cardinality(DOMAIN e) >= MaxSize

\* Mutant: the comparison of instants is the wrong way round.
Newest(e) == {j \in DOMAIN e : \A k \in DOMAIN e : e[j].storedAt >= e[k].storedAt}

\* The ids evictOldestLocked may choose: the map is iterated in no fixed
\* order, so any id among those with the earliest storedAt.
Oldest(e) ==
    {j \in DOMAIN e : \A k \in DOMAIN e : e[j].storedAt <= e[k].storedAt}

Drop(e, j) == [k \in DOMAIN e \ {j} |-> e[k]]

\* The maps that can be left when Store is about to insert.
AfterEviction(e) == IF Full(e) THEN {Drop(e, j) : j \in Oldest(e)} ELSE {e}

Insert(e, j, resp, t) ==
    [k \in DOMAIN e \cup {j} |->
        IF k = j THEN [resp |-> resp, storedAt |-> t] ELSE e[k]]
=============================================================================
