-------------------------- MODULE RequestPipeline --------------------------
(***************************************************************************)
(* serveProtocol, the pipeline of the completion surfaces: chat serves     *)
(* both axes, messages, responses and legacy completions the money axis    *)
(* alone.  The relay of a stream is StreamRelay, the limiter Limiter and   *)
(* the call of the upstreams UpstreamCall; here each is one step with all  *)
(* its outcomes.                                                           *)
(***************************************************************************)
EXTENDS Handlers

\* Protocol values that differ: the surfaces closed to self-hosted models,
\* which are also those that do not estimate usage and capture no bodies.
creditOnly(sf) == sf # "chat"

\* From the snapshot view to the gateway-wide slot.
Preamble(d, missing) == FirstOf(<<
    <<"service_disabled", ~d.enabled>>,
    <<"missing_key", missing>>,
    <<"invalid_key", d.key = "unknown">>,
    <<"key_inactive", d.key = "inactive">>,
    <<"endpoint_not_allowed", ~d.grant>>,
    <<"quota_exhausted", d.quota /\ d.credential # "held">> >>)

\* What can be wrong with a body by itself: the upload stops; it is too
\* large, not JSON, misses a member, or names a preset or an unknown model;
\* or it has what its axis does not take, parameters and tools on the
\* self-hosted one, fenced models and capabilities on the other.
BodyFaults == {"request_body_read_failed", "malformed", "closed_to_axis", "none"}

\* From the read body to the limits of the axis.
BodyChecks(d, sf, fault) == FirstOf(<<
    <<fault, fault \in {"request_body_read_failed", "malformed"}>>,
    <<"model_not_on_surface", d.axis = "token" /\ creditOnly(sf)>>,
    <<fault, d.axis = "token" /\ fault = "closed_to_axis">>,
    <<"model_not_allowed", ~d.allowed>>,
    <<fault, d.axis = "credit" /\ fault = "closed_to_axis">>,
    <<"credit_pending", d.axis = "credit" /\ d.credential = "pending">>,
    <<"credit_unavailable", d.axis = "credit" /\ d.credential = "none">> >>)

-----------------------------------------------------------------------------
Pipelined(r) == h[r].surface \in Completions

\* The view is read once, and the request judged by it.
Begin(r, missing) ==
    /\ Pipelined(r) /\ h[r].pc = "new"
    /\ LET d   == docs[Len(docs)]
           hd  == [h[r] EXCEPT !.view = Len(docs),
                               !.keyID = d.enabled /\ ~missing /\ d.key # "unknown"]
           bad == Preamble(d, missing)
       IN  Becomes(r, IF bad = "none" THEN [hd EXCEPT !.pc = "slot"] ELSE Recorded(hd, bad))
    /\ UNCHANGED <<size, docs, Pools>>

Slot(r) == Pipelined(r) /\ TakeInFlight(r, "length")

\* The declared length: small, above the ordinary bound, or above the large
\* one; a large body needs a slot before it is read.
DeclaredLength(r, length) ==
    /\ Pipelined(r) /\ h[r].pc = "length"
    /\ CASE length = "small" ->
              Becomes(r, [h[r] EXCEPT !.pc = "body"]) /\ chatLarge' = chatLarge
         [] length = "huge" \/ (length = "large" /\ size.chat = 0) ->
              Refuse(r, "request_too_large") /\ chatLarge' = chatLarge
         [] length = "large" /\ size.chat > 0 /\ chatLarge >= size.chat ->
              Refuse(r, "large_request_busy") /\ chatLarge' = chatLarge
         [] length = "large" /\ chatLarge < size.chat ->
              /\ Becomes(r, [h[r] EXCEPT !.pc = "body", !.large = TRUE])
              /\ chatLarge' = chatLarge + 1
    /\ UNCHANGED <<size, docs, inFlight, passLarge, running>>

ReadBody(r, fault) ==
    /\ Pipelined(r) /\ h[r].pc = "body"
    /\ LET bad == BodyChecks(View(r), h[r].surface, fault)
       IN  Becomes(r, IF bad # "none" THEN Recorded(h[r], bad)
                      ELSE [h[r] EXCEPT !.pc = IF View(r).axis = "token"
                                             THEN "limits" ELSE "shape"])
    /\ UNCHANGED <<size, docs, Pools>>

\* The limiter admits the request of a self-hosted model, or not; the daily
\* quota is judged after it, so that a key without quota is still held to its
\* rate.
Limits(r, ok) ==
    /\ Pipelined(r) /\ h[r].pc = "limits"
    /\ IF ~ok
       THEN Refuse(r, "rate_limited") /\ running' = running
       ELSE /\ running' = running + 1
            /\ LET hd == [h[r] EXCEPT !.spent = @ + 1, !.admitted = TRUE]
               IN  Becomes(r, IF View(r).quota THEN Recorded(hd, "quota_exhausted")
                              ELSE [hd EXCEPT !.pc = "shape"])
    /\ UNCHANGED <<size, docs, inFlight, chatLarge, passLarge>>

\* The output length asked for and the input length, after the limits.
Shape(r, fits) ==
    /\ Pipelined(r) /\ h[r].pc = "shape"
    /\ Becomes(r, IF fits THEN [h[r] EXCEPT !.pc = "call"]
                  ELSE Recorded(h[r], "too_long"))
    /\ UNCHANGED <<size, docs, Pools>>

UpstreamFailures == {"client_disconnected", "upstream_timeout", "credit_exhausted",
                     "upstream_error"}

\* callUpstream fails, or the caller left meanwhile: nothing was relayed, and nothing is charged.
CallFails(r, code) ==
    /\ Pipelined(r) /\ h[r].pc = "call"
    /\ Becomes(r, Recorded(h[r], code))
    /\ UNCHANGED <<size, docs, Pools>>

\* The upstream answers, with a stream if the body asked for one: the
\* request's bodies and its slot are let go of.  A lookup goes by the id in the
\* header of a stream on the money axis; other answers only hand it on.
Headers(r, streaming, named) ==
    /\ Pipelined(r) /\ h[r].pc = "call"
    /\ named => streaming /\ View(r).axis = "credit"
    /\ Becomes(r, [h[r] EXCEPT !.answered = TRUE, !.streamed = streaming,
                     !.named = named, !.large = FALSE,
                     !.pc = IF streaming THEN "relay" ELSE "answer"])
    /\ chatLarge' = IF h[r].large THEN chatLarge - 1 ELSE chatLarge
    /\ UNCHANGED <<size, docs, inFlight, passLarge, running>>

\* Mutant of Charge: the money axis is metered as well.
ChargeBothAxes(r) == 1

\* charge: a no-op on the money axis.
Charge(r) == IF View(r).axis = "token" THEN 1 ELSE 0

Captures(r) == h[r].surface = "chat" /\ View(r).record

\* finishNonStream: the answer fits the ordinary bound, or a slot is there
\* for it, or it is refused; the slot is held through the write.
ReadAnswer(r, length) ==
    /\ Pipelined(r) /\ h[r].pc = "answer"
    /\ IF length = "small"
       THEN Becomes(r, [h[r] EXCEPT !.pc = "write"]) /\ chatLarge' = chatLarge
       ELSE IF chatLarge < size.chat
       THEN /\ chatLarge' = chatLarge + 1
            /\ Becomes(r, LET hd == [h[r] EXCEPT !.large = TRUE]
                          IN  IF length = "large" THEN [hd EXCEPT !.pc = "write"]
                              ELSE Recorded([hd EXCEPT !.charges = @ + Charge(r)],
                                            "response_too_large"))
       ELSE /\ Becomes(r, Recorded([h[r] EXCEPT !.charges = @ + Charge(r)],
                                   "response_too_large"))
            /\ chatLarge' = chatLarge
    /\ UNCHANGED <<size, docs, inFlight, passLarge, running>>

\* The answer cannot be read, by a timeout or not, or is not JSON: charged by
\* estimate.
AnswerFails(r, code) ==
    /\ Pipelined(r) /\ h[r].pc \in {"answer", "write"}
    /\ code = "upstream_timeout" => h[r].pc = "answer"
    /\ Becomes(r, Recorded([h[r] EXCEPT !.charges = @ + Charge(r)], code))
    /\ UNCHANGED <<size, docs, Pools>>

\* The answer is written, metered, offered for capture and recorded.  A
\* self-hosted model has no price.
WriteAnswer(r, code, priced) ==
    /\ Pipelined(r) /\ h[r].pc = "write"
    /\ code = "usage_missing" => creditOnly(h[r].surface) /\ ~priced
    /\ priced => View(r).axis = "credit"
    /\ Becomes(r, Recorded([h[r] EXCEPT !.charges = @ + Charge(r), !.capture = Captures(r),
                                        !.cost = priced], code))
    /\ UNCHANGED <<size, docs, Pools>>

\* relayStream ends: metered, offered for capture, and recorded, on the money
\* axis by way of a lookup when the stream's usage carried no price.
RelayEnds(r, code, priced, admitted) ==
    /\ Pipelined(r) /\ h[r].pc = "relay"
    /\ code = "usage_missing" => creditOnly(h[r].surface) /\ ~priced
    /\ priced => View(r).axis = "credit"
    /\ LET hd == [h[r] EXCEPT !.charges = @ + Charge(r), !.capture = Captures(r),
                              !.cost = priced]
       IN  Becomes(r, IF View(r).axis = "credit" THEN withGenerationCost(r, hd, code, admitted)
                      ELSE Recorded(hd, code))
    /\ UNCHANGED <<size, docs, Pools>>

PipelineStep(r) ==
    \/ \E b \in BOOLEAN : Begin(r, b) \/ Limits(r, b) \/ Shape(r, b)
    \/ \E s, n \in BOOLEAN : Headers(r, s, n)
    \/ Slot(r)
    \/ \E n \in {"small", "large", "huge"} : DeclaredLength(r, n) \/ ReadAnswer(r, n)
    \/ \E f \in BodyFaults : ReadBody(r, f)
    \/ \E c \in UpstreamFailures : CallFails(r, c)
    \/ \E c \in {"upstream_timeout", "upstream_error"} : AnswerFails(r, c)
    \/ \E c \in {"ok", "client_disconnected", "upstream_error", "usage_missing"},
          p \in BOOLEAN : WriteAnswer(r, c, p)
    \/ \E c \in {"ok", "client_disconnected", "upstream_timeout", "upstream_error",
                 "usage_missing"}, p, b \in BOOLEAN : RelayEnds(r, c, p, b)
=============================================================================
