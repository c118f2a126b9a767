---------------------------- MODULE CacheOpsProofs ----------------------------
(***************************************************************************)
(* What the operators on the map of entries return, for the proofs about   *)
(* one cache and about one cache per tenant.                               *)
(***************************************************************************)
EXTENDS CacheOps, TLAPS

\* Insert yields a typed map that has the new id besides the old ones.
LEMMA InsertType ==
    ASSUME NEW e, DOMAIN e \subseteq JobIDs, e \in [DOMAIN e -> Entries],
           NEW j \in JobIDs, NEW r \in Responses, NEW t \in Int
    PROVE  /\ DOMAIN Insert(e, j, r, t) = DOMAIN e \cup {j}
           /\ DOMAIN Insert(e, j, r, t) \subseteq JobIDs
           /\ Insert(e, j, r, t) \in [DOMAIN Insert(e, j, r, t) -> Entries]
  BY DEF Insert, Entries

\* Eviction yields a typed map that has lost one id if the map was full.
LEMMA EvictionType ==
    ASSUME NEW e, DOMAIN e \subseteq JobIDs, e \in [DOMAIN e -> Entries],
           NEW f \in AfterEviction(e)
    PROVE  /\ DOMAIN f \subseteq DOMAIN e
           /\ f \in [DOMAIN f -> Entries]
           /\ \A j \in DOMAIN f : f[j] = e[j]
           /\ ~Full(e) => f = e
           /\ Full(e) => \E j \in DOMAIN e : DOMAIN f = DOMAIN e \ {j}
  BY DEF AfterEviction, Drop, Oldest, Entries

\* A request has a job id, and goes on the wire as a request.
LEMMA RequestType ==
    ASSUME NEW r \in Requests
    PROVE  JobID(r) \in JobIDs /\ Wire(r) \in Requests
  BY CacheAssumption, LlmClientAssumption DEF JobID, Wire, Requests
===============================================================================
