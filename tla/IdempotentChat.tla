---------------------------- MODULE IdempotentChat ----------------------------
(***************************************************************************)
(* What CachedChat promises its callers (the comment at cache.go:160),     *)
(* with no critical sections, counters or eviction policy.  A call is      *)
(* open until it is answered.  At one instant of the call the memory is    *)
(* consulted: a fresh answer to the same job is replayed and nothing is    *)
(* dialled; only if there is none may the provider be asked.  A new        *)
(* answer is remembered from the instant it is returned, an error never.   *)
(* The memory may forget, but only at the moment it learns.                *)
(***************************************************************************)
EXTENDS LlmClient, Integers, FiniteSets

CONSTANTS
    Callers,
    Remembering,  \* the callers that use the memory
    Job(_),       \* the identity of a request, as the memory sees it
    TTL,
    MaxSize,
    NoReq,
    NoResp

VARIABLES
    memory,  \* remembered answers: [job, resp, at]
    clock,
    phase,   \* phase of each caller's call
    ask,     \* the request it makes
    answer   \* the answer it has been given

vars == <<memory, clock, phase, ask, answer>>

Closed == {"idle", "replay", "fresh", "error"}

Fresh(m) == TTL > 0 => clock - m.at <= TTL
Known(j) == {m \in memory : m.job = j /\ Fresh(m)}

Init ==
    /\ memory = {}
    /\ clock = 0
    /\ phase = [c \in Callers |-> "idle"]
    /\ ask = [c \in Callers |-> NoReq]
    /\ answer = [c \in Callers |-> NoResp]

Close(c, how, resp) ==
    /\ phase' = [phase EXCEPT ![c] = how]
    /\ answer' = [answer EXCEPT ![c] = resp]

Open(c) ==
    /\ phase[c] \in Closed
    /\ ask'[c] \in Requests
    /\ ask' = [ask EXCEPT ![c] = ask'[c]]
    /\ Close(c, IF c \in Remembering THEN "asked" ELSE "upstream", NoResp)
    /\ UNCHANGED <<memory, clock>>

\* The call is refused before anything is looked up.
Refuse(c) ==
    /\ phase[c] \in Closed
    /\ Close(c, "error", NoResp)
    /\ UNCHANGED <<memory, clock, ask>>

Replay(c) ==
    /\ phase[c] = "asked"
    /\ \E m \in Known(Job(ask[c])) : Close(c, "replay", m.resp)
    /\ UNCHANGED <<memory, clock, ask>>

GoUpstream(c) ==
    /\ phase[c] = "asked"
    /\ Known(Job(ask[c])) = {}
    /\ phase' = [phase EXCEPT ![c] = "upstream"]
    /\ UNCHANGED <<memory, clock, ask, answer>>

\* The provider's answer to this very request is returned, and remembered in
\* place of an older answer to the same job.
Learn(c) ==
    /\ phase[c] = "upstream"
    /\ LET new == [job |-> Job(ask[c]), resp |-> answer'[c], at |-> clock] IN
       /\ new.resp \in Responses
       /\ new.resp.req = Wire(ask[c])
       /\ Close(c, "fresh", new.resp)
       /\ IF c \in Remembering
          THEN /\ new \in memory'
               /\ memory' \subseteq {m \in memory : m.job # new.job} \cup {new}
               /\ MaxSize > 0 => Cardinality(memory') <= MaxSize
          ELSE memory' = memory
    /\ UNCHANGED <<clock, ask>>

Fail(c) ==
    /\ phase[c] = "upstream"
    /\ Close(c, "error", NoResp)
    /\ UNCHANGED <<memory, clock, ask>>

ClockStep ==
    /\ clock' \in Int
    /\ UNCHANGED <<memory, phase, ask, answer>>

Next ==
    \/ \E c \in Callers :
          Open(c) \/ Refuse(c) \/ Replay(c) \/ GoUpstream(c) \/ Learn(c) \/ Fail(c)
    \/ ClockStep

Spec == Init /\ [][Next]_vars
=============================================================================
