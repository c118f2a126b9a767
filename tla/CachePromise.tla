----------------------------- MODULE CachePromise -----------------------------
(***************************************************************************)
(* What IdempotencyCache looks like to those who only see calls begin and  *)
(* end: the refinement mapping under which it implements IdempotentChat.   *)
(***************************************************************************)
EXTENDS IdempotencyCache

\* The promise of IdempotentChat: a call is open until it is answered, and the
\* bookkeeping steps on the way are not seen.
Remembered ==
    {[job |-> j, resp |-> entries[j].resp, at |-> entries[j].storedAt] :
        j \in DOMAIN entries}

Phase(c) ==
    CASE pc[c] = "lookup" -> "asked"
      [] pc[c] \in {"hit", "replay"} -> "replay"
      [] pc[c] \in {"miss", "dial", "answered", "store"} -> "upstream"
      [] OTHER -> pc[c]

Answered(c) == IF pc[c] \in Returned \cup {"hit"} THEN resp[c] ELSE NoResp

Promise == INSTANCE IdempotentChat WITH
    Remembering <- Cached,
    Job <- JobID,
    memory <- Remembered,
    clock <- now,
    phase <- [c \in Callers |-> Phase(c)],
    ask <- req,
    answer <- [c \in Callers |-> Answered(c)]

\* CachedChat does what its comment says (cache.go:160): every replay is a
\* fresh remembered answer to the same job, nothing is dialled on a hit, every
\* answer dialled for is remembered when it is returned, and errors never are.
KeepsPromise == Promise!Spec
=============================================================================
