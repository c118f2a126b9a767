------------------------------ MODULE LlmClient ------------------------------
(***************************************************************************)
(* The part of package llmclient that its callers can tell apart: what a   *)
(* chat request is, which request really reaches the provider, and what a  *)
(* response answers.  The provider behind the HTTP round-trip is not under *)
(* src/; a call to it is split into its steps by the modules that make it. *)
(***************************************************************************)

EXTENDS Naturals

CONSTANTS
    Prints,       \* prompt fingerprints (what identifies the messages)
    Models,       \* model ids, NoModel (the empty string) included
    Backends,     \* llmclient.Backend values a Client was built with
    NoModel,      \* ChatRequest.Model == ""
    DefaultModel  \* Backend.DefaultModel, as a function

ASSUME LlmClientAssumption ==
    /\ NoModel \in Models
    /\ DefaultModel \in [Backends -> Models \ {NoModel}]

\* A ChatRequest together with the client it is given to.  MaxTokens and
\* Temperature are left out: nothing in the modelled code reads them.
Requests == [fp : Prints, model : Models, backend : Backends]

\* The request that chatAt puts on the wire: an empty model becomes the
\* backend's default model, after the caller has computed its cache key.
Wire(r) ==
    IF r.model = NoModel THEN [r EXCEPT !.model = DefaultModel[r.backend]]
                         ELSE r

\* A decoded ChatResponse: the wire request it answers and the number of the
\* upstream completion (the bill) it comes from.
Responses == [req : Requests, id : Nat]
=============================================================================
