---------------------------- MODULE Passthrough ----------------------------
(***************************************************************************)
(* handlePassthrough and finishPassthrough: the routes that forward a body *)
(* to the vendor as it came and relay the answer as it came, always on the *)
(* money axis, with one attempt, no stream and one large-body slot for     *)
(* request and answer together.                                            *)
(***************************************************************************)
EXTENDS Handlers

\* The routes: the image catalogue is read without a body; rerank, speech and
\* transcriptions have the price of every answer looked up.
readsBody(route)  == route # "imageModels"
lookupCost(route) == route = "rerank"

\* From the snapshot view to the gateway-wide slot.
PassPreamble(d, missing) == FirstOf(<<
    <<"service_disabled", ~d.enabled>>,
    <<"missing_key", missing>>,
    <<"invalid_key", d.key = "unknown">>,
    <<"key_inactive", d.key = "inactive">>,
    <<"endpoint_not_allowed", ~d.grant>>,
    <<"no_passthrough_ref", ~d.passthroughRef>>,
    <<"credit_pending", d.credential = "pending">>,
    <<"credit_unavailable", d.credential = "none">> >>)

\* What can be wrong with a body: its shape, or what it asks for (fallback
\* candidates, server tools, plugins, a stream).
PassBodyFaults == {"malformed", "closed_to_axis", "none"}

PassBodyChecks(d, fault) == FirstOf(<<
    <<fault, fault = "malformed">>,
    <<"model_not_allowed", ~d.allowed>>,
    <<fault, fault = "closed_to_axis">> >>)

-----------------------------------------------------------------------------
Passed(r) == h[r].surface \in Routes

PassBegin(r, missing) ==
    /\ Passed(r) /\ h[r].pc = "new"
    /\ LET d   == docs[Len(docs)]
           hd  == [h[r] EXCEPT !.view = Len(docs),
                               !.keyID = d.enabled /\ ~missing /\ d.key # "unknown"]
           bad == PassPreamble(d, missing)
       IN  Becomes(r, IF bad = "none" THEN [hd EXCEPT !.pc = "slot"] ELSE Recorded(hd, bad))
    /\ UNCHANGED <<size, docs, Pools>>

PassSlot(r) ==
    Passed(r) /\ TakeInFlight(r, IF readsBody(h[r].surface) THEN "length" ELSE "call")

\* passthroughLargeHold.take: one slot for the request and its answer.
CanTake(r) == h[r].large \/ passLarge < size.pass

Takes(r, hd) ==
    /\ Becomes(r, hd)
    /\ passLarge' = IF h[r].large THEN passLarge ELSE passLarge + 1

PassLength(r, length) ==
    /\ Passed(r) /\ h[r].pc = "length"
    /\ CASE length = "small" ->
              Becomes(r, [h[r] EXCEPT !.pc = "body"]) /\ passLarge' = passLarge
         [] length = "huge" \/ (length = "large" /\ size.pass = 0) ->
              Refuse(r, "request_too_large") /\ passLarge' = passLarge
         [] length = "large" /\ size.pass > 0 /\ ~CanTake(r) ->
              Refuse(r, "large_request_busy") /\ passLarge' = passLarge
         [] length = "large" /\ CanTake(r) ->
              Takes(r, [h[r] EXCEPT !.pc = "body", !.large = TRUE])
    /\ UNCHANGED <<size, docs, inFlight, chatLarge, running>>

PassReadBody(r, fault) ==
    /\ Passed(r) /\ h[r].pc = "body"
    /\ LET bad == PassBodyChecks(View(r), fault)
       IN  Becomes(r, IF bad # "none" THEN Recorded(h[r], bad)
                      ELSE [h[r] EXCEPT !.pc = "call"])
    /\ UNCHANGED <<size, docs, Pools>>

PassFailures == {"client_disconnected", "upstream_timeout", "credit_exhausted",
                 "upstream_error"}

\* The one attempt fails.
PassCallFails(r, code) ==
    /\ Passed(r) /\ h[r].pc = "call"
    /\ Refuse(r, code)
    /\ UNCHANGED <<size, docs, Pools>>

\* The answer's header may name a generation; for a catalogue nobody asks.
PassHeaders(r, named) ==
    /\ Passed(r) /\ h[r].pc = "call"
    /\ named => readsBody(h[r].surface)
    /\ Becomes(r, [h[r] EXCEPT !.answered = TRUE, !.named = named, !.pc = "answer"])
    /\ UNCHANGED <<size, docs, Pools>>

\* The record wrapper: whether the price of an answer that ends without one is
\* looked up.
LooksUp(r, code) ==
    readsBody(h[r].surface) /\ (lookupCost(h[r].surface) \/ code # "ok")

\* The end of finishPassthrough.
Finish(r, hd, code, admitted) ==
    IF LooksUp(r, code) THEN withGenerationCost(r, hd, code, admitted)
    ELSE Recorded(hd, code)

\* finishPassthrough reads the answer: past the ordinary bound with the slot
\* it has or can take, past the large one not at all.
PassReadAnswer(r, length, admitted) ==
    LET TooLarge(hd) == Finish(r, hd, "response_too_large", admitted)
    IN  /\ Passed(r) /\ h[r].pc = "answer"
        /\ CASE length = "small" ->
                  Becomes(r, [h[r] EXCEPT !.pc = "write"]) /\ passLarge' = passLarge
             [] length = "declaredHuge" \/ (length # "small" /\ ~CanTake(r)) ->
                  Becomes(r, TooLarge(h[r])) /\ passLarge' = passLarge
             [] length = "large" /\ CanTake(r) ->
                  Takes(r, [h[r] EXCEPT !.pc = "write", !.large = TRUE])
             [] length = "huge" /\ CanTake(r) ->
                  Takes(r, TooLarge([h[r] EXCEPT !.large = TRUE]))
        /\ UNCHANGED <<size, docs, inFlight, chatLarge, running>>

\* The read fails, by a timeout or not; or the JSON does not parse or the media
\* type is not audio.
PassAnswerFails(r, code, admitted) ==
    /\ Passed(r) /\ h[r].pc \in {"answer", "write"}
    /\ code = "upstream_timeout" => h[r].pc = "answer"
    /\ Becomes(r, Finish(r, h[r], code, admitted))
    /\ UNCHANGED <<size, docs, Pools>>

\* The answer is written under a deadline, metered and recorded.  Its usage
\* may carry a price, and on some of the routes that look it up its body
\* names the generation where the header does not.
PassWriteAnswer(r, code, priced, inBody, admitted) ==
    /\ Passed(r) /\ h[r].pc = "write"
    /\ priced => readsBody(h[r].surface)
    /\ inBody => lookupCost(h[r].surface)
    /\ Becomes(r, Finish(r, [h[r] EXCEPT !.cost = priced, !.named = @ \/ inBody],
                         code, admitted))
    /\ UNCHANGED <<size, docs, Pools>>

PassthroughStep(r) ==
    \/ \E b \in BOOLEAN : PassBegin(r, b) \/ PassHeaders(r, b)
    \/ PassSlot(r)
    \/ \E n \in {"small", "large", "huge"} : PassLength(r, n)
    \/ \E f \in PassBodyFaults : PassReadBody(r, f)
    \/ \E c \in PassFailures : PassCallFails(r, c)
    \/ \E n \in {"small", "large", "huge", "declaredHuge"}, b \in BOOLEAN :
           PassReadAnswer(r, n, b)
    \/ \E c \in {"upstream_timeout", "upstream_error"}, b \in BOOLEAN : PassAnswerFails(r, c, b)
    \/ \E c \in {"ok", "client_disconnected"}, p, i, b \in BOOLEAN :
           PassWriteAnswer(r, c, p, i, b)
=============================================================================
