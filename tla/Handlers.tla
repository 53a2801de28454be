------------------------------ MODULE Handlers ------------------------------
(***************************************************************************)
(* What the handlers of all surfaces share: the snapshot view a request is *)
(* judged by, the gateway-wide in-flight slots, the two pools of           *)
(* large-body slots, refusing and recording a request, and the deferred    *)
(* releases when a handler returns.                                        *)
(*                                                                         *)
(* A handler's checks read only its own request and its own view, so a run *)
(* of checks between two uses of shared state is one step.  Which of the   *)
(* faults a body has is chosen when the body is read.                      *)
(***************************************************************************)
EXTENDS Integers, Sequences, FiniteSets

CONSTANTS Requests,
          Surfaces,       \* the surfaces requests come in on
          Documents,      \* the documents the store can serve
          Sizes,          \* the configured sizes of the three pools
          MaxGeneration   \* bound: how many documents are served in turn

\* What a document says of the key that makes the requests and of the model
\* they name.
Document ==
    [enabled: BOOLEAN,                          \* ServiceEnabled
     key: {"unknown", "inactive", "active"},    \* the key entry and its status
     grant: BOOLEAN,                            \* AllowsEndpoint
     axis: {"token", "credit"},                 \* BudgetAxis of the model
     allowed: BOOLEAN,                          \* AllowsModel, ServesCreditModel
     quota: BOOLEAN,                            \* QuotaExhausted
     credential: {"none", "pending", "held"},   \* UpstreamCredentials, CreditPending
     record: BOOLEAN,                           \* RecordBodies
     passthroughRef: BOOLEAN]

Completions == {"chat", "messages", "responses", "completions"}

\* The passthrough routes that differ: with a body and usage in the answer
\* (images, embeddings), with the price looked up (rerank, speech,
\* transcriptions), and without a body.
Routes == {"images", "rerank", "imageModels"}

\* Requests in a process are finitely many at any time, and every one comes in
\* on a route the mux knows.
ASSUME HandlersAssumption ==
    /\ IsFiniteSet(Requests)
    /\ Surfaces \subseteq Completions \cup Routes
    /\ Documents \subseteq Document
    /\ Sizes \subseteq [inFlight: Nat \ {0}, chat: Nat, pass: Nat]
    /\ MaxGeneration \in Nat \ {0}
    /\ Documents # {} /\ Surfaces # {} /\ Sizes # {}

VARIABLES
    size,        \* of Server.inFlight, chatLarge and passthroughLarge
    docs,        \* the documents served so far; the last one is current
    h,           \* the handler of each request
    inFlight,    \* len(Server.inFlight)
    chatLarge,   \* chatLarge.used
    passLarge,   \* passthroughLarge.used
    running      \* admissions of the limiter that are not released

vars == <<size, docs, h, inFlight, chatLarge, passLarge, running>>

NewHandler(sf) ==
    [surface   |-> sf,
     pc        |-> "new",
     view      |-> 0,        \* the generation read by store.Current
     keyID     |-> FALSE,    \* ev.KeyID is set
     inFlight  |-> FALSE,    \* holds a gateway-wide slot
     large     |-> FALSE,    \* holds a large-body slot of its surface
     admitted  |-> FALSE,    \* holds an admission of the limiter
     status    |-> "",       \* ev.Status
     answered  |-> FALSE,    \* an upstream answered 200
     streamed  |-> FALSE,    \* with a stream
     named     |-> FALSE,    \* the answer names a generation to look up
     capture   |-> FALSE,    \* a body record was offered
     spent     |-> 0,        \* requests taken from the key's rpm budget
     charges   |-> 0,        \* ChargeTokens
     cost      |-> FALSE,    \* ev.CostUsd is set
     lookup    |-> "no",     \* the goroutine that looks it up: no, pending or done
     filled    |-> 0,        \* counted in streamCostFilled, passthroughCostFilled
     missed    |-> 0,        \* counted in streamCostMissing, passthroughCostMissing
     events    |-> 0]        \* events handed to the spool

Init ==
    /\ size \in Sizes
    /\ docs \in {<<d>> : d \in Documents}
    /\ h \in [Requests -> {NewHandler(sf) : sf \in Surfaces}]
    /\ inFlight = 0 /\ chatLarge = 0 /\ passLarge = 0 /\ running = 0

-----------------------------------------------------------------------------
\* The first of a list of <<code, condition>> whose condition holds.
FirstOf(checks) ==
    LET hits == {i \in 1..Len(checks) : checks[i][2]}
    IN  IF hits = {} THEN "none"
        ELSE checks[CHOOSE i \in hits : \A j \in hits : i <= j][1]

\* Mutant of View: a later check reads the document served by then.
ViewNow(r) == docs[Len(docs)]

\* The document a request is judged by.
View(r) == docs[h[r].view]

Statuses == {"auth_rejected", "rate_limited", "bad_request", "canceled",
             "timeout", "upstream_err", "ok"}

StatusOf(code) ==
    CASE code \in {"service_disabled", "missing_key", "invalid_key", "key_inactive",
                   "endpoint_not_allowed", "credit_pending", "credit_unavailable"}
           -> "auth_rejected"
      [] code \in {"quota_exhausted", "server_busy", "large_request_busy",
                   "rate_limited", "credit_exhausted"} -> "rate_limited"
      [] code \in {"client_disconnected", "request_body_read_failed"} -> "canceled"
      [] code = "upstream_timeout" -> "timeout"
      [] code \in {"upstream_error", "response_too_large", "no_passthrough_ref",
                   "usage_missing"} -> "upstream_err"
      [] code = "ok" -> "ok"
      [] OTHER -> "bad_request"

\* record: an attempt that never resolved to a key is not spooled.
Spools(hd, status) == IF ~hd.keyID /\ status = "auth_rejected" THEN 0 ELSE 1

\* The handler with its event recorded; what is deferred still has to run.
Recorded(hd, code) ==
    [hd EXCEPT !.pc = "returning", !.status = StatusOf(code),
               !.events = @ + Spools(hd, StatusOf(code))]

\* Mutant of withGenerationCost: a lookup that is not admitted is not counted.
withGenerationCostUncounted(r, hd, code, admitted) ==
    IF hd.cost \/ ~hd.named \/ View(r).credential # "held" \/ ~admitted
    THEN Recorded(hd, code)
    ELSE [hd EXCEPT !.pc = "returning", !.lookup = "pending", !.status = StatusOf(code)]

\* withGenerationCost: an event without a cost waits for its lookup, if there
\* is an id and a credential to look it up with and the lookup is admitted (a
\* full pool or a drain refuse it: module CostLookups).
withGenerationCost(r, hd, code, admitted) ==
    IF hd.cost \/ ~hd.named \/ View(r).credential # "held" THEN Recorded(hd, code)
    ELSE IF ~admitted THEN Recorded([hd EXCEPT !.missed = @ + 1], code)
    ELSE [hd EXCEPT !.pc = "returning", !.lookup = "pending", !.status = StatusOf(code)]

Pools == <<inFlight, chatLarge, passLarge, running>>

\* Only the handler of r changes.
Becomes(r, hd) == h' = [h EXCEPT ![r] = hd]

Refuse(r, code) == Becomes(r, Recorded(h[r], code))

\* The gateway-wide slot, never waited for; refused with server_busy.
TakeInFlight(r, next) ==
    /\ h[r].pc = "slot"
    /\ IF inFlight < size.inFlight
       THEN /\ inFlight' = inFlight + 1
            /\ Becomes(r, [h[r] EXCEPT !.pc = next, !.inFlight = TRUE])
       ELSE Refuse(r, "server_busy") /\ inFlight' = inFlight
    /\ UNCHANGED <<size, docs, chatLarge, passLarge, running>>

\* Mutant of Return: a handler that was refused keeps its large-body slot.
ReturnKeepsLarge(r) ==
    LET Held(b) == IF b THEN 1 ELSE 0
        chat    == h[r].surface \in Completions
        gives   == h[r].large /\ h[r].status # "bad_request"
    IN  /\ h[r].pc = "returning"
        /\ Becomes(r, [h[r] EXCEPT !.pc = "done", !.inFlight = FALSE,
                                   !.large = FALSE, !.admitted = FALSE])
        /\ inFlight' = inFlight - Held(h[r].inFlight)
        /\ chatLarge' = chatLarge - Held(chat /\ gives)
        /\ passLarge' = passLarge - Held(~chat /\ gives)
        /\ running' = running - Held(h[r].admitted)
        /\ UNCHANGED <<size, docs>>

\* The deferred calls: the admission, the large-body slot and the
\* gateway-wide slot are released.
Return(r) ==
    LET Held(b) == IF b THEN 1 ELSE 0
        chat    == h[r].surface \in Completions
    IN  /\ h[r].pc = "returning"
        /\ Becomes(r, [h[r] EXCEPT !.pc = "done", !.inFlight = FALSE,
                                   !.large = FALSE, !.admitted = FALSE])
        /\ inFlight' = inFlight - Held(h[r].inFlight)
        /\ chatLarge' = chatLarge - Held(chat /\ h[r].large)
        /\ passLarge' = passLarge - Held(~chat /\ h[r].large)
        /\ running' = running - Held(h[r].admitted)
        /\ UNCHANGED <<size, docs>>

\* The price of an answer is read from the generation record after the
\* handler has gone on, or not found, and its event recorded then (when a
\* lookup ends is module CostLookups).
LookupRecords(r, found) ==
    /\ h[r].lookup = "pending"
    /\ LET hd == [h[r] EXCEPT !.lookup = "done",
                              !.events = @ + Spools(h[r], h[r].status)]
       IN  Becomes(r, IF found THEN [hd EXCEPT !.cost = TRUE, !.filled = @ + 1]
                      ELSE [hd EXCEPT !.missed = @ + 1])
    /\ UNCHANGED <<size, docs, Pools>>

\* A refresh of the store puts another document in place (SnapshotStore).
Reload(d) ==
    /\ Len(docs) < MaxGeneration
    /\ docs' = Append(docs, d)
    /\ UNCHANGED <<size, h, Pools>>
=============================================================================
