---------------------------- MODULE StreamRelay ----------------------------
(***************************************************************************)
(* The relay of streamed answers (relayStream) through the extractors of   *)
(* the surfaces: chat and legacy completions (chatStream), responses       *)
(* (responsesStream) and messages (namedStream with messagesStream.read).  *)
(* Streams share the large-body slots of chat; what interleaves is the     *)
(* streams, their upstreams, clients that leave or stop reading, and the   *)
(* deadlines.                                                              *)
(*                                                                         *)
(* A line is its kind and its size; what the data of an event says is told *)
(* when the event is dispatched.  What a client has received is the        *)
(* sequence of the marks it can tell apart.                                *)
(***************************************************************************)
EXTENDS Integers, Sequences, FiniteSets, SequencesExt

CONSTANTS Streams,
          Others,        \* handlers that hold a slot for a request or a whole answer
          Surfaces,      \* the surfaces that are streamed on
          OrdinaryCap,   \* upstreamResponseCapBytes
          LargeCap,      \* ChatLargeResponseMaxBytes
          Sizes,         \* the sizes of lines, a blank one's among them
          Overhead,      \* what keeping a data line costs beyond its size: dataLineOverhead
          Pool,          \* the slots of chatLarge
          MaxLines       \* bound: the lines one upstream sends

LineBreak == 1   \* the size of a blank line

ASSUME StreamAssumption ==
    /\ Surfaces \subseteq {"chat", "completions", "responses", "messages"}
    /\ OrdinaryCap \in Nat \ {0} /\ LargeCap \in Nat
    /\ Sizes \subseteq Nat \ {0} /\ LineBreak \in Sizes /\ Overhead \in Nat
    /\ Pool \in Nat /\ MaxLines \in Nat
    /\ Streams \cap Others = {}

\* What the data of an event can be: a piece of the answer, usage (on
\* messages its two halves), [DONE], the surface's end event with or without
\* usage, an end that says the answer failed, an error, a heartbeat, or an
\* object this relay cannot read.
Payloads == {"delta", "usageIn", "usageOut", "usage", "[DONE]", "stop",
             "stopUsage", "failed", "error", "ping", "unreadable"}

Marks == {"delta", "ping", "error", "end"}

VARIABLES
    surface,   \* the surface of each stream
    pc,        \* reading, comment, writing, closing, lastWrite, recording, ended
    event,     \* the event being assembled: its bytes, data seen, badField
    large,     \* whether the stream holds a large-body slot (releaseEvent)
    used,      \* chatLarge.used
    other,     \* the other handlers that hold a slot
    x,         \* the extractor: done, upstreamError, dropped, usage halves
    frame,     \* the bytes a write is handing to the client
    cause,     \* why the reading ended
    client,    \* "there" or "gone": a.clientCtx
    late,      \* whether the deadline of a.upCtx has passed
    out,       \* what the client has received
    lines,     \* how many lines the upstream has sent
    status     \* the recorded status and error type

vars == <<surface, pc, event, large, used, other, x, frame, cause, client, late,
          out, lines, status>>

NoEvent == [bytes |-> 0, data |-> FALSE, badField |-> FALSE]
NoFrame == <<>>

Init ==
    /\ surface \in [Streams -> Surfaces]
    /\ pc = [s \in Streams |-> "reading"]
    /\ event = [s \in Streams |-> NoEvent]
    /\ large = [s \in Streams |-> FALSE]
    /\ used = 0
    /\ other = {}
    /\ x = [s \in Streams |-> [done |-> FALSE, upstreamError |-> FALSE,
                               dropped |-> FALSE, usage |-> {}]]
    /\ frame = [s \in Streams |-> NoFrame]
    /\ cause = [s \in Streams |-> "none"]
    /\ client = [s \in Streams |-> "there"]
    /\ late = [s \in Streams |-> FALSE]
    /\ out = [s \in Streams |-> <<>>]
    /\ lines = [s \in Streams |-> 0]
    /\ status = [s \in Streams |-> "none"]

-----------------------------------------------------------------------------
(***************************************************************************)
(* The extractors: the state after one event, and what is sent.            *)
(***************************************************************************)
BothHalves == {"in", "out"}

ChatLike == {"chat", "completions"}

\* chatStream.event; the client did not ask for usage, so the chunk that
\* holds nothing else is kept back.
ChatEvent(e, p) ==
    CASE p = "[DONE]"  -> [x |-> [e EXCEPT !.done = TRUE], out |-> <<"end">>]
      [] p = "usage"   -> [x |-> [e EXCEPT !.usage = BothHalves], out |-> <<>>]
      [] p = "error"   -> [x |-> [e EXCEPT !.upstreamError = TRUE], out |-> <<"error">>]
      [] p = "ping"    -> [x |-> e, out |-> <<"ping">>]
      [] p = "unreadable" -> [x |-> [e EXCEPT !.dropped = TRUE], out |-> <<>>]
      [] OTHER         -> [x |-> e, out |-> <<"delta">>]

\* responsesStream.event; every ending is followed by a [DONE] of its own.
ResponsesEvent(e, p) ==
    CASE p = "[DONE]"  -> [x |-> e, out |-> <<>>]
      [] p \in {"stop", "stopUsage"} ->
            [x |-> [e EXCEPT !.done = TRUE,
                             !.usage = IF p = "stop" THEN @ ELSE BothHalves],
             out |-> <<"delta", "end">>]
      [] p \in {"failed", "error"} ->
            [x |-> [e EXCEPT !.done = TRUE, !.upstreamError = TRUE],
             out |-> <<"error", "end">>]
      [] p \in {"ping", "unreadable"} ->
            [x |-> [e EXCEPT !.dropped = TRUE], out |-> <<>>]
      [] OTHER         -> [x |-> e, out |-> <<"delta">>]

\* namedStream.event and messagesStream.read, settle; an error ends the
\* stream (namedStream.done).
MessagesEvent(e, p, badField) ==
    CASE badField \/ p \in {"[DONE]", "ping", "unreadable"} ->
            [x |-> [e EXCEPT !.dropped = TRUE], out |-> <<>>]
      [] ~badField /\ p = "usageIn" ->
            [x |-> [e EXCEPT !.usage = @ \cup {"in"}], out |-> <<"delta">>]
      [] ~badField /\ p = "usageOut" ->
            [x |-> [e EXCEPT !.usage = @ \cup {"out"}], out |-> <<"delta">>]
      [] ~badField /\ p = "usage" ->
            [x |-> [e EXCEPT !.usage = BothHalves], out |-> <<"delta">>]
      [] ~badField /\ p = "error" ->
            [x |-> [e EXCEPT !.done = TRUE, !.upstreamError = TRUE],
             out |-> <<"error">>]
      [] ~badField /\ p \in {"stop", "stopUsage"} ->
            [x |-> [e EXCEPT !.done = TRUE], out |-> <<"end">>]
      [] OTHER -> [x |-> e, out |-> <<"delta">>]

Extract(s, p) ==
    CASE surface[s] \in ChatLike    -> ChatEvent(x[s], p)
      [] surface[s] = "responses" -> ResponsesEvent(x[s], p)
      [] surface[s] = "messages"  -> MessagesEvent(x[s], p, event[s].badField)

\* errorEvent and terminator of the surface.
errorEvent(s) ==
    IF surface[s] = "messages" THEN <<"error">> ELSE <<"error", "end">>

terminator(s) == IF surface[s] = "messages" THEN NoFrame ELSE <<"end">>

noUsageEstimate(s) == surface[s] # "chat"
haveUsage(s) == x[s].usage = BothHalves

-----------------------------------------------------------------------------
(***************************************************************************)
(* Reading lines.                                                          *)
(***************************************************************************)
eventCap(s) == IF large[s] THEN LargeCap ELSE OrdinaryCap

\* Mutant of Takes: one slot more than the pool has.
TakesOneMore(s, n, data) ==
    /\ data /\ ~large[s]
    /\ event[s].bytes + n > OrdinaryCap
    /\ LargeCap > OrdinaryCap
    /\ used <= Pool

\* overCap: a data line takes the event past the ordinary bound, and there is
\* a slot for it.
Takes(s, n, data) ==
    /\ data /\ ~large[s]
    /\ event[s].bytes + n > OrdinaryCap
    /\ LargeCap > OrdinaryCap
    /\ used < Pool

\* The line is held against what the event costs so far; nothing, or a blank
\* line, may be too much after a data line that was itself within the bound.
Fits(s, n, data) ==
    event[s].bytes + n <= (IF Takes(s, n, data) THEN LargeCap ELSE eventCap(s))

\* readLine: a line of n bytes arrives.
LineArrives(s, n, data) ==
    /\ pc[s] = "reading" /\ lines[s] < MaxLines
    /\ lines' = [lines EXCEPT ![s] = @ + 1]
    /\ large' = [large EXCEPT ![s] = @ \/ Takes(s, n, data)]
    /\ used' = IF Takes(s, n, data) THEN used + 1 ELSE used
    /\ UNCHANGED <<surface, other, x, client, late, out, status>>

DataLine(s, n) ==
    /\ LineArrives(s, n, TRUE)
    /\ Fits(s, n, TRUE)
    /\ event' = [event EXCEPT ![s].bytes = @ + n + Overhead, ![s].data = TRUE]
    /\ UNCHANGED <<pc, frame, cause>>

\* An event:, id: or retry: line, kept or marked by sseEvent.field.
FieldLine(s, n, kept) ==
    /\ LineArrives(s, n, FALSE)
    /\ Fits(s, n, FALSE)
    /\ event' = [event EXCEPT ![s].badField = @ \/ ~kept]
    /\ UNCHANGED <<pc, frame, cause>>

\* A comment line is written at once, also between the lines of an event.
CommentLine(s, n) ==
    /\ LineArrives(s, n, FALSE)
    /\ Fits(s, n, FALSE)
    /\ pc' = [pc EXCEPT ![s] = "comment"]
    /\ frame' = [frame EXCEPT ![s] = <<"ping">>]
    /\ UNCHANGED <<event, cause>>

\* errResponseOverCap: the line does not fit, with or without a slot.
LineOverCap(s, n, data) ==
    /\ LineArrives(s, n, data)
    /\ ~Fits(s, n, data)
    /\ pc' = [pc EXCEPT ![s] = "closing"]
    /\ cause' = [cause EXCEPT ![s] = "overCap"]
    /\ UNCHANGED <<event, frame>>

\* resetEventCap, or the deferred releaseEvent: the slots given back.
Released == used' = used - Cardinality({s \in Streams : large[s] /\ ~large'[s]})

\* flushEvent: an event without data is not dispatched, the others go to the
\* extractor; one that is not sent gives its slot back at once.
flushEvent(s, p) ==
    LET r == IF event[s].data THEN Extract(s, p) ELSE [x |-> x[s], out |-> NoFrame]
    IN  /\ x' = [x EXCEPT ![s] = r.x]
        /\ frame' = [frame EXCEPT ![s] = r.out]
        /\ large' = [large EXCEPT ![s] = @ /\ r.out # NoFrame]
        /\ event' = [event EXCEPT ![s] = NoEvent]
        /\ Released

\* Mutant of Continue: the relay reads on after the end event.
ContinuePastTheEnd(s, eof) == IF eof THEN "closing" ELSE "reading"

\* Where the loop goes once a line was handled.
Continue(s, eof) == IF eof \/ x'[s].done THEN "closing" ELSE "reading"

BlankLine(s, p) ==
    /\ pc[s] = "reading" /\ lines[s] < MaxLines
    /\ Fits(s, LineBreak, FALSE)
    /\ lines' = [lines EXCEPT ![s] = @ + 1]
    /\ flushEvent(s, p)
    /\ pc' = [pc EXCEPT ![s] = IF frame'[s] # NoFrame THEN "writing"
                               ELSE Continue(s, FALSE)]
    /\ UNCHANGED <<surface, other, cause, client, late, out, status>>

\* The upstream closes cleanly: what was assembled is dispatched.
EndOfFile(s, p) ==
    /\ pc[s] = "reading"
    /\ Fits(s, 0, FALSE)
    /\ flushEvent(s, p)
    /\ cause' = [cause EXCEPT ![s] = "eof"]
    /\ pc' = [pc EXCEPT ![s] = IF frame'[s] # NoFrame THEN "writing" ELSE "closing"]
    /\ UNCHANGED <<surface, other, client, late, out, lines, status>>

\* The read fails: the connection broke, or the context of the request ended
\* with its deadline or its client.  Where even nothing more fits, this end and
\* a clean one count as too much.
ReadFails(s) ==
    /\ pc[s] = "reading"
    /\ pc' = [pc EXCEPT ![s] = "closing"]
    /\ cause' = [cause EXCEPT ![s] = IF Fits(s, 0, FALSE) THEN "broken" ELSE "overCap"]
    /\ UNCHANGED <<surface, other, event, large, used, x, frame, client, late,
                   out, lines, status>>

-----------------------------------------------------------------------------
(***************************************************************************)
(* Writing.                                                                *)
(***************************************************************************)
Writes(s) == pc[s] \in {"writing", "comment", "lastWrite"}

\* writeUnderDeadline bounds the write of a dispatched event that holds a
\* slot, and no other write.
UnderDeadline(s) == pc[s] = "writing" /\ large[s]

\* Where the handler goes after a write; the record follows the last one.
AfterWrite(s) ==
    IF pc[s] = "lastWrite" THEN "recording" ELSE Continue(s, cause[s] = "eof")

\* writeRaw: the client has taken the frame.
Written(s) ==
    /\ Writes(s)
    /\ x' = x
    /\ out' = [out EXCEPT ![s] = @ \o frame[s]]
    /\ frame' = [frame EXCEPT ![s] = NoFrame]
    /\ large' = [large EXCEPT ![s] = @ /\ pc[s] # "writing"]
    /\ pc' = [pc EXCEPT ![s] = AfterWrite(s)]
    /\ Released
    /\ UNCHANGED <<surface, other, event, cause, client, late, lines, status>>

\* Mutant of WriteFails: no write has a deadline.
WriteFailsOnlyGone(s) ==
    /\ Writes(s) /\ client[s] = "gone"
    /\ frame' = [frame EXCEPT ![s] = NoFrame]
    /\ large' = [large EXCEPT ![s] = @ /\ pc[s] # "writing"]
    /\ cause' = [cause EXCEPT ![s] = IF pc[s] = "lastWrite" THEN @ ELSE "writeFailed"]
    /\ pc' = [pc EXCEPT ![s] = IF @ = "lastWrite" THEN "recording" ELSE "closing"]
    /\ Released
    /\ UNCHANGED <<surface, other, event, x, client, late, out, lines, status>>

\* A write fails once the client is gone and, under a deadline, when the
\* client does not read in time.
WriteFails(s) ==
    /\ Writes(s)
    /\ client[s] = "gone" \/ UnderDeadline(s)
    /\ frame' = [frame EXCEPT ![s] = NoFrame]
    /\ large' = [large EXCEPT ![s] = @ /\ pc[s] # "writing"]
    /\ cause' = [cause EXCEPT ![s] = IF pc[s] = "lastWrite" THEN @ ELSE "writeFailed"]
    /\ pc' = [pc EXCEPT ![s] = IF @ = "lastWrite" THEN "recording" ELSE "closing"]
    /\ Released
    /\ UNCHANGED <<surface, other, event, x, client, late, out, lines, status>>

-----------------------------------------------------------------------------
(***************************************************************************)
(* The end of the relay.                                                   *)
(***************************************************************************)
\* Mutant of Classify: a connection closed cleanly ends the answer.
ClassifyCleanClose(s) ==
    IF cause[s] = "writeFailed" \/ client[s] = "gone"
    THEN <<"client_disconnected", NoFrame>>
    ELSE IF cause[s] \in {"overCap", "broken"}
    THEN <<"upstream_stream_interrupted", errorEvent(s)>>
    ELSE <<"ok", NoFrame>>

\* The switch at the end of relayStream: how the ending is recorded, and what
\* is written after it.
Classify(s) ==
    LET e == x[s]
    IN  IF cause[s] = "writeFailed" \/ client[s] = "gone"
        THEN <<"client_disconnected", NoFrame>>
        ELSE IF ~e.done /\ late[s]
        THEN <<"request_deadline_exceeded", errorEvent(s)>>
        ELSE IF cause[s] = "overCap"
        THEN <<"upstream_response_too_large", errorEvent(s)>>
        ELSE IF cause[s] = "broken"
        THEN <<"upstream_stream_interrupted", errorEvent(s)>>
        ELSE IF ~e.done /\ ~e.upstreamError
        THEN <<"upstream_stream_unterminated", errorEvent(s)>>
        ELSE IF e.dropped
        THEN <<"upstream_chunk_unreadable", NoFrame>>
        ELSE IF e.upstreamError
        THEN <<"upstream_error", IF e.done THEN NoFrame ELSE terminator(s)>>
        ELSE <<"ok", NoFrame>>

Close(s) ==
    /\ pc[s] = "closing"
    /\ status' = [status EXCEPT ![s] = Classify(s)[1]]
    /\ frame' = [frame EXCEPT ![s] = Classify(s)[2]]
    /\ pc' = [pc EXCEPT ![s] = IF frame'[s] = NoFrame THEN "recording" ELSE "lastWrite"]
    /\ UNCHANGED <<surface, other, event, large, used, x, cause, client, late, out, lines>>

\* settleUsage, dropUsageEstimate and the record; the handler returns, and its
\* deferred releaseEvent runs.
Record(s) ==
    /\ pc[s] = "recording"
    /\ pc' = [pc EXCEPT ![s] = "ended"]
    /\ status' = [status EXCEPT ![s] =
                    IF @ = "ok" /\ noUsageEstimate(s) /\ ~haveUsage(s)
                    THEN "upstream_usage_missing" ELSE @]
    /\ large' = [large EXCEPT ![s] = FALSE]
    /\ Released
    /\ UNCHANGED <<surface, other, event, x, frame, cause, client, late, out, lines>>

ClientLeaves(s) ==
    /\ pc[s] # "ended" /\ client[s] = "there"
    /\ client' = [client EXCEPT ![s] = "gone"]
    /\ UNCHANGED <<surface, other, pc, event, large, used, x, frame, cause, late,
                   out, lines, status>>

\* The deadline of upCtx, RequestMaxDuration.
DeadlinePasses(s) ==
    /\ pc[s] # "ended" /\ ~late[s]
    /\ late' = [late EXCEPT ![s] = TRUE]
    /\ UNCHANGED <<surface, other, pc, event, large, used, x, frame, cause, client,
                   out, lines, status>>

\* A handler of a large request, or of a large answer that is not streamed.
OtherTakes(o) ==
    /\ o \notin other /\ used < Pool
    /\ other' = other \cup {o}
    /\ used' = used + 1
    /\ UNCHANGED <<surface, pc, event, large, x, frame, cause, client, late, out,
                   lines, status>>

OtherGives(o) ==
    /\ o \in other
    /\ other' = other \ {o}
    /\ used' = used - 1
    /\ UNCHANGED <<surface, pc, event, large, x, frame, cause, client, late, out,
                   lines, status>>

Next ==
    \/ \E o \in Others : OtherTakes(o) \/ OtherGives(o)
    \/ \E s \in Streams :
           \/ \E n \in Sizes : DataLine(s, n) \/ CommentLine(s, n)
           \/ \E n \in Sizes, b \in BOOLEAN : FieldLine(s, n, b) \/ LineOverCap(s, n, b)
           \/ \E p \in Payloads : BlankLine(s, p) \/ EndOfFile(s, p)
           \/ ReadFails(s) \/ Written(s) \/ WriteFails(s)
           \/ Close(s) \/ Record(s) \/ ClientLeaves(s) \/ DeadlinePasses(s)

Spec == Init /\ [][Next]_vars

\* The relay's own steps, the two deadlines and a read whose context ended.
\* Nothing is assumed of the upstream, and no client is assumed to read.
Fairness ==
    \A s \in Streams :
        /\ WF_vars(DeadlinePasses(s))
        /\ WF_vars(ReadFails(s) /\ (late[s] \/ client[s] = "gone"))
        /\ WF_vars(WriteFails(s))
        /\ WF_vars(Close(s) \/ Record(s))

FairSpec == Spec /\ Fairness

-----------------------------------------------------------------------------
(***************************************************************************)
(* Properties.                                                             *)
(***************************************************************************)
Ended(s) == pc[s] = "ended"

\* What a client of the surface takes for the end of the answer.
Ends(s) == IF surface[s] = "messages" THEN {"end", "error"} ELSE {"end"}

EndsSent(s) == {i \in 1..Len(out[s]) : out[s][i] \in Ends(s)}

\* relayStream and the extractors: a stream recorded as a success has reached
\* its client whole.  It is closed by the surface's own end, nothing follows
\* it, no error went out, no event was left out, and a surface that does not
\* estimate has its usage.
SuccessIsWhole ==
    \A s \in Streams :
        (Ended(s) /\ status[s] = "ok") =>
            /\ EndsSent(s) = {Len(out[s])}
            /\ "error" \notin Range(out[s])
            /\ ~x[s].dropped
            /\ noUsageEstimate(s) => haveUsage(s)

\* relayStream: whatever the upstream does after its end event, and however
\* the relay ends, a client that is there is never sent a second end; and it
\* is sent one, so that it can tell a cut answer from a complete one, except
\* where a chunk was dropped before an error that closed the stream.
ClosedOnce ==
    \A s \in Streams :
        /\ Cardinality(EndsSent(s)) <= 1
        /\ EndsSent(s) # {} => EndsSent(s) = {Len(out[s])}
        /\ Ended(s) /\ client[s] = "there" /\ status[s] # "client_disconnected" =>
            EndsSent(s) # {} \/ (x[s].dropped /\ x[s].upstreamError)

\* The comment of relayStream on an unreadable chunk: the upstream's end has
\* already gone out when that is recorded.
UnreadableReachedItsEnd ==
    \A s \in Streams :
        (Ended(s) /\ status[s] = "upstream_chunk_unreadable") => EndsSent(s) # {}

\* largeBodySlots under the relay: the count of used slots is exactly that of
\* the streams that assemble or write a large event, and stays in the pool.
LargePool == INSTANCE Slots WITH
    Holders <- Streams \cup Others, cap <- Pool,
    holders <- {s \in Streams : large[s]} \cup other
SlotsImplemented == LargePool!Spec

\* writeUnderDeadline: a client that reads slowly or not at all cannot keep a
\* slot, as long as the stream is not stuck in a write without a deadline.
LargeSlotIsReturned ==
    \A s \in Streams : []<>(~large[s] \/ pc[s] \in {"comment", "lastWrite"})
=============================================================================
