------------------------------- MODULE Server -------------------------------
(***************************************************************************)
(* The request handlers of the gateway together: the completion pipeline   *)
(* and the passthrough surface share the in-flight slots and the document  *)
(* store, and each has its pool of large-body slots.                       *)
(***************************************************************************)
EXTENDS RequestPipeline, Passthrough

Next ==
    \/ \E r \in Requests :
          \/ PipelineStep(r) \/ PassthroughStep(r) \/ Return(r)
          \/ \E b \in BOOLEAN : LookupRecords(r, b)
    \/ \E d \in Documents : Reload(d)

Spec == Init /\ [][Next]_vars

-----------------------------------------------------------------------------
Done(r) == h[r].pc = "done"

\* The handlers that hold a slot of each pool.
HoldInFlight == {r \in Requests : h[r].inFlight}
HoldChat == {r \in Requests : h[r].large /\ h[r].surface \in Completions}
HoldPass == {r \in Requests : h[r].large /\ h[r].surface \in Routes}

InFlightPool == INSTANCE Slots WITH
    Holders <- Requests, cap <- size.inFlight,
    holders <- HoldInFlight, used <- inFlight
ChatPool == INSTANCE Slots WITH
    Holders <- Requests, cap <- size.chat,
    holders <- HoldChat, used <- chatLarge
PassPool == INSTANCE Slots WITH
    Holders <- Requests, cap <- size.pass,
    holders <- HoldPass, used <- passLarge

\* The in-flight channel and the two pools of large-body slots, through every
\* refusal, early release and deferred release: each implements Slots, so no
\* slot leaks, none is given back twice, and none is held by two requests.
PoolsImplemented == InFlightPool!Spec /\ ChatPool!Spec /\ PassPool!Spec

\* The document the handler of r read first.
FirstRead(r) == docs[h[r].view]

\* record, charge and the limiter over every path of the handlers: a request
\* leaves one event, unless it never resolved to a key; an answer on a
\* self-hosted model is charged to the token bucket once, whichever way it
\* ended, and nothing else is; the request budget of a key is spent once, only
\* by what its document lets it ask of a self-hosted model; and nothing stays
\* running in the limiter.
AccountedOnce ==
    /\ \A r \in Requests :
          LET d       == FirstRead(r)
              metered == h[r].surface = "chat" /\ d.axis = "token"
          IN  Done(r) /\ h[r].lookup # "pending" =>
                /\ h[r].events = IF h[r].keyID \/ h[r].status # "auth_rejected" THEN 1 ELSE 0
                /\ h[r].charges = IF metered /\ h[r].answered THEN 1 ELSE 0
                /\ h[r].spent <= 1
                /\ h[r].spent = 1 => metered /\ d.enabled /\ d.grant /\ d.allowed
    /\ running = Cardinality({r \in Requests : h[r].admitted})

\* One snapshot view per request: an answer is relayed, charged and captured
\* only as the document of the event's own generation allows, whatever was
\* served in the meantime.
OneDocument ==
    \A r \in Requests :
        LET d == FirstRead(r)
        IN  /\ h[r].answered =>
                 /\ d.enabled /\ d.key = "active" /\ d.grant
                 /\ readsBody(h[r].surface) => d.allowed
                 /\ d.axis = "token" /\ h[r].surface \in Completions => ~d.quota
                 /\ d.axis = "credit" \/ h[r].surface \in Routes => d.credential = "held"
            /\ h[r].capture => d.record

\* Answers the vendor may have billed without saying for how much: a stream on
\* the money axis, however it ended, and on the passthrough routes that carry a
\* body an answer that was not handed over or whose usage is optional.
MayLackPrice(hd, d) ==
    \/ hd.streamed /\ d.axis = "credit"
    \/ /\ hd.surface \in Routes /\ readsBody(hd.surface)
       /\ hd.status # "ok" \/ lookupCost(hd.surface)

\* withGenerationCost and the lookup that outlives the handler: when the event
\* of such an answer is in the spool it has a cost or, if the answer named its
\* generation, the gap was counted, once, whether the lookup was refused or
\* ended empty; and nothing else is counted as missing, or as filled in.
BilledIsPriced ==
    \A r \in Requests : Done(r) /\ h[r].lookup # "pending" =>
        LET lacks == h[r].answered /\ h[r].named /\ MayLackPrice(h[r], FirstRead(r))
        IN  /\ h[r].missed = IF lacks /\ ~h[r].cost THEN 1 ELSE 0
            /\ h[r].filled \in (IF lacks /\ h[r].cost THEN {0, 1} ELSE {0})
=============================================================================
