----------------------------- MODULE CacheHistory -----------------------------
(***************************************************************************)
(* IdempotencyCache with what it forgets: every Store, in order, and for   *)
(* each call how many of them had happened when it looked the cache up.    *)
(* The history variables follow the steps and never constrain them.        *)
(***************************************************************************)
EXTENDS IdempotencyCache, Sequences

VARIABLES
    log,    \* the stores so far: [job, at, after, asked]
    seen    \* for each caller, its last lookup: [after, asked]

hvars == <<vars, log, seen>>

HInit ==
    /\ Init
    /\ log = <<>>
    /\ seen = [c \in Callers |-> [after |-> 0, asked |-> 0]]

StoreStep(c) == pc[c] = "store" /\ pc'[c] = "fresh"
NewStore(c) ==
    [job |-> JobID(req[c]), at |-> now, after |-> seen[c].after, asked |-> seen[c].asked]

LookupStep(c) == pc[c] = "lookup" /\ pc'[c] # "lookup"

HNext ==
    /\ Next
    /\ \/ \E c \in Callers :
             /\ StoreStep(c)
             /\ log' = Append(log, NewStore(c))
             /\ UNCHANGED seen
       \/ \E c \in Callers :
             /\ LookupStep(c)
             /\ seen' = [seen EXCEPT ![c] = [after |-> Len(log), asked |-> now]]
             /\ UNCHANGED log
       \/ /\ \A c \in Callers : ~StoreStep(c) /\ ~LookupStep(c)
          /\ UNCHANGED <<log, seen>>

HSpec == HInit /\ [][HNext]_hvars

-----------------------------------------------------------------------------
\* The last of the first n stores that was for this job, 0 if there is none.
LastStore(j, n) ==
    LET S == {i \in 1..n : log[i].job = j} IN
    IF S = {} THEN 0 ELSE CHOOSE i \in S : \A k \in S : k <= i

\* Among the first n stores, those that make store i one of the oldest: any
\* other store whose instant is not earlier.
Newer(i, n) == {k \in 1..n \ {i} : log[k].at >= log[i].at}

\* Evicting "the oldest entry" (cache.go:112) means that an answer stays in the
\* cache until MaxSize other answers at least as new have been stored, for
\* whatever jobs, by whatever goroutines, at however few distinct instants.
Retention ==
    \A j \in JobIDs :
        LET i == LastStore(j, Len(log)) IN
        i > 0 /\ (MaxSize = 0 \/ Cardinality(Newer(i, Len(log))) < MaxSize)
            => j \in DOMAIN entries

\* "Repeated calls with the same logical inputs short-circuit" (cache.go:5): a
\* job is paid for a second time only if its last answer was not there yet when
\* the second call looked, or had expired, or had been crowded out.
RedialJustified ==
    \A k \in DOMAIN log :
        LET i == LastStore(log[k].job, log[k].after) IN
        i > 0 => \/ TTL > 0 /\ log[k].asked - log[i].at > TTL
                 \/ /\ MaxSize > 0
                    /\ Cardinality(Newer(i, log[k].after)) >= MaxSize
=============================================================================
