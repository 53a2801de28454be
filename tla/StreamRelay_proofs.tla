------------------------- MODULE StreamRelay_proofs -------------------------
(***************************************************************************)
(* Proofs about StreamRelay, for any streams, surfaces, caps, line sizes   *)
(* and pool.                                                               *)
(*                                                                         *)
(* What a client has received is tied to where the relay is (Flow): while  *)
(* it reads, no end has gone out; the frame it is about to write closes    *)
(* the answer exactly when the extractor is done; and once the ending is   *)
(* classified, the record says no more than what went out (Outcome).       *)
(***************************************************************************)
EXTENDS StreamRelay, FiniteSetTheorems, TLAPS

Extractor == [done: BOOLEAN, upstreamError: BOOLEAN, dropped: BOOLEAN,
              usage: SUBSET BothHalves]

Places == {"reading", "comment", "writing", "closing", "lastWrite", "recording",
           "ended"}

Statuses == {"none", "ok", "client_disconnected", "request_deadline_exceeded",
             "upstream_response_too_large", "upstream_stream_interrupted",
             "upstream_stream_unterminated", "upstream_chunk_unreadable",
             "upstream_error", "upstream_usage_missing"}

\* The variables keep their types.
Types ==
    /\ surface \in [Streams -> {"chat", "completions", "responses", "messages"}]
    /\ pc \in [Streams -> Places]
    /\ event \in [Streams -> [bytes: Nat, data: BOOLEAN, badField: BOOLEAN]]
    /\ large \in [Streams -> BOOLEAN]
    /\ used \in Int
    /\ other \subseteq Others
    /\ x \in [Streams -> Extractor]
    /\ frame \in [Streams -> Seq(Marks)]
    /\ cause \in [Streams -> {"none", "eof", "broken", "overCap", "writeFailed"}]
    /\ client \in [Streams -> {"there", "gone"}]
    /\ late \in [Streams -> BOOLEAN]
    /\ out \in [Streams -> Seq(Marks)]
    /\ lines \in [Streams -> Nat]
    /\ status \in [Streams -> Statuses]

\* Where a piece of output holds an end, and whether it holds an error.
EndsIn(q, ends) == {i \in 1..Len(q) : q[i] \in ends}
HasError(q)     == \E i \in 1..Len(q) : q[i] = "error"

\* Output that holds no end, and output closed by its only end.
Open(q, ends)   == EndsIn(q, ends) = {}
Sealed(q, ends) == EndsIn(q, ends) = {Len(q)}

\* What a client of a surface takes for the end of the answer.
EndsOf(sf) == IF sf = "messages" THEN {"end", "error"} ELSE {"end"}

\* On the surfaces that have one, an error event ends the stream.
ErrorsEnd(sf, e) == sf \in {"responses", "messages"} /\ e.upstreamError => e.done

\* The record says no more than what went out: st is recorded of a stream whose
\* client cl has received o from the extractor e.
Outcome(sf, e, cl, o, st) ==
    /\ Open(o, EndsOf(sf)) \/ Sealed(o, EndsOf(sf))
    /\ st = "ok" => Sealed(o, EndsOf(sf)) /\ ~HasError(o) /\ ~e.dropped
    /\ cl = "there" /\ st # "client_disconnected" =>
         Sealed(o, EndsOf(sf)) \/ (e.dropped /\ e.upstreamError)

\* What is known of a stream at each place of relayStream.
FlowAt(sf, at, e, f, why, cl, o, st) ==
    /\ ErrorsEnd(sf, e)
    /\ at \in {"reading", "comment", "writing", "closing"} =>
         (HasError(o) => e.upstreamError)
    /\ at \in {"reading", "comment", "writing", "lastWrite"} => Open(o, EndsOf(sf))
    /\ at \in {"reading", "comment"} => ~e.done /\ why = "none"
    /\ at = "comment" => f = <<"ping">>
    /\ at = "writing" =>
         /\ why \in {"none", "eof"}
         /\ e.done => Sealed(f, EndsOf(sf))
         /\ ~e.done => Open(f, EndsOf(sf))
         /\ HasError(f) => e.upstreamError
    /\ at = "closing" =>
         /\ Open(o, EndsOf(sf)) \/ Sealed(o, EndsOf(sf))
         /\ why \in {"broken", "overCap"} => ~e.done
         /\ ~e.done => Open(o, EndsOf(sf))
         /\ e.done /\ why # "writeFailed" => Sealed(o, EndsOf(sf))
    /\ at = "lastWrite" => Sealed(f, EndsOf(sf)) /\ st # "ok"
    /\ at \in {"recording", "ended"} => Outcome(sf, e, cl, o, st)
    /\ at = "ended" /\ st = "ok" /\ sf # "chat" => e.usage = BothHalves

Flow(s) ==
    FlowAt(surface[s], pc[s], x[s], frame[s], cause[s], client[s], out[s], status[s])

IInv == Types /\ \A s \in Streams : Flow(s)

-----------------------------------------------------------------------------
\* What the client has after one more frame.
LEMMA ConcatFacts ==
    ASSUME NEW q \in Seq(Marks), NEW f \in Seq(Marks), NEW ends, Open(q, ends)
    PROVE  /\ q \o f \in Seq(Marks)
           /\ Open(f, ends) => Open(q \o f, ends)
           /\ Sealed(f, ends) => Sealed(q \o f, ends)
           /\ HasError(q \o f) => HasError(q) \/ HasError(f)
<1> DEFINE m == Len(q)
           n == Len(f)
           g == q \o f
<1>1. m \in Nat /\ n \in Nat /\ g \in Seq(Marks) /\ Len(g) = m + n
  OBVIOUS
<1>2. \A i \in 1..m : g[i] = q[i]
  OBVIOUS
<1>3. \A i \in 1..n : g[m + i] = f[i]
  OBVIOUS
<1>4. \A i \in 1..Len(g) : i \in 1..m \/ \E j \in 1..n : i = m + j
  <2> SUFFICES ASSUME NEW i \in 1..Len(g), i \notin 1..m
               PROVE  \E j \in 1..n : i = m + j
    OBVIOUS
  <2>1. i - m \in 1..n /\ i = m + (i - m)
    BY <1>1
  <2> QED
    BY <2>1
<1>5. \A i \in 1..m : q[i] \notin ends
  BY DEF Open, EndsIn
<1> HIDE DEF m, n, g
<1>6. Open(f, ends) => Open(g, ends)
  <2> SUFFICES ASSUME Open(f, ends) PROVE \A i \in 1..Len(g) : g[i] \notin ends
    BY DEF Open, EndsIn
  <2>1. \A j \in 1..n : f[j] \notin ends
    BY DEF Open, EndsIn, n
  <2> QED
    BY <1>2, <1>3, <1>4, <1>5, <2>1
<1>7. Sealed(f, ends) => Sealed(g, ends)
  <2> SUFFICES ASSUME Sealed(f, ends) PROVE EndsIn(g, ends) = {Len(g)}
    BY DEF Sealed
  <2>1. n \in 1..n /\ f[n] \in ends /\ \A j \in 1..n : f[j] \in ends => j = n
    BY DEF Sealed, EndsIn, n
  <2>2. m + n \in 1..Len(g) /\ g[m + n] \in ends
    BY <1>1, <1>3, <2>1
  <2>3. ASSUME NEW i \in 1..Len(g), g[i] \in ends
        PROVE  i = m + n
    BY <1>2, <1>3, <1>4, <1>5, <2>1, <2>3
  <2> QED
    BY <1>1, <2>2, <2>3 DEF EndsIn
<1>8. HasError(g) => HasError(q) \/ HasError(f)
  BY <1>2, <1>3, <1>4 DEF HasError, m, n
<1> QED
  BY <1>1, <1>6, <1>7, <1>8 DEF g

\* The frames the relay writes.
LEMMA FrameFacts ==
    ASSUME NEW ends
    PROVE  /\ Open(<<>>, ends) /\ ~HasError(<<>>) /\ <<>> \in Seq(Marks)
           /\ \A m \in Marks :
                /\ <<m>> \in Seq(Marks) /\ <<m>> # <<>>
                /\ m \notin ends => Open(<<m>>, ends)
                /\ m \in ends => Sealed(<<m>>, ends)
                /\ HasError(<<m>>) => m = "error"
           /\ \A m \in Marks :
                /\ <<m, "end">> \in Seq(Marks) /\ <<m, "end">> # <<>>
                /\ m \notin ends /\ "end" \in ends => Sealed(<<m, "end">>, ends)
                /\ HasError(<<m, "end">>) => m = "error"
<1>1. Open(<<>>, ends) /\ ~HasError(<<>>) /\ <<>> \in Seq(Marks)
  BY DEF Open, EndsIn, HasError
<1>2. ASSUME NEW m \in Marks
      PROVE  /\ <<m>> \in Seq(Marks) /\ <<m>> # <<>>
             /\ m \notin ends => Open(<<m>>, ends)
             /\ m \in ends => Sealed(<<m>>, ends)
             /\ HasError(<<m>>) => m = "error"
  <2>1. Len(<<m>>) = 1 /\ <<m>>[1] = m /\ \A i \in 1..1 : i = 1
    OBVIOUS
  <2>2. EndsIn(<<m>>, ends) = IF m \in ends THEN {1} ELSE {}
    BY <2>1 DEF EndsIn
  <2> QED
    BY <2>1, <2>2 DEF Open, Sealed, HasError
<1>3. ASSUME NEW m \in Marks
      PROVE  /\ <<m, "end">> \in Seq(Marks) /\ <<m, "end">> # <<>>
             /\ m \notin ends /\ "end" \in ends => Sealed(<<m, "end">>, ends)
             /\ HasError(<<m, "end">>) => m = "error"
  <2> DEFINE f == <<m, "end">>
  <2>0. f \in Seq(Marks) /\ f # <<>>
    BY DEF Marks
  <2>1. Len(f) = 2 /\ f[1] = m /\ f[2] = "end" /\ \A i \in 1..2 : i = 1 \/ i = 2
    OBVIOUS
  <2> HIDE DEF f
  <2>2. m \notin ends /\ "end" \in ends => Sealed(f, ends)
    BY <2>1 DEF EndsIn, Sealed
  <2>3. HasError(f) => m = "error"
    BY <2>1 DEF HasError
  <2> QED
    BY <2>0, <2>2, <2>3 DEF f
<1> QED
  BY <1>1, <1>2, <1>3

\* What an extractor that is not done makes of an event: the stream is done
\* exactly when the frame closes it, and an error that is sent is known.
Sound(sf, e, r) ==
    /\ r.x \in Extractor /\ r.out \in Seq(Marks)
    /\ r.x.done => Sealed(r.out, EndsOf(sf)) /\ r.out # <<>>
    /\ ~r.x.done => Open(r.out, EndsOf(sf))
    /\ HasError(r.out) => r.x.upstreamError
    /\ e.upstreamError => r.x.upstreamError
    /\ ErrorsEnd(sf, r.x)

LEMMA SoundFacts ==
    ASSUME NEW sf, NEW e, NEW y \in Extractor, NEW f \in Seq(Marks),
           y.done => Sealed(f, EndsOf(sf)) /\ f # <<>>,
           ~y.done => Open(f, EndsOf(sf)),
           HasError(f) => y.upstreamError, e.upstreamError => y.upstreamError,
           ErrorsEnd(sf, y)
    PROVE  Sound(sf, e, [x |-> y, out |-> f])
<1> DEFINE r == [x |-> y, out |-> f]
<1>1. r.x = y /\ r.out = f
  OBVIOUS
<1> HIDE DEF r
<1>2. Sound(sf, e, r)
  BY <1>1, Zenon DEF Sound
<1> QED
  BY <1>2 DEF r

\* The steps of an extractor's state.
LEMMA ExtractorFacts ==
    ASSUME NEW e \in Extractor
    PROVE  /\ [e EXCEPT !.done = TRUE] \in Extractor
           /\ [e EXCEPT !.done = TRUE].done
           /\ [e EXCEPT !.done = TRUE].upstreamError = e.upstreamError
           /\ [e EXCEPT !.upstreamError = TRUE] \in Extractor
           /\ [e EXCEPT !.upstreamError = TRUE].upstreamError
           /\ [e EXCEPT !.upstreamError = TRUE].done = e.done
           /\ [e EXCEPT !.done = TRUE, !.upstreamError = TRUE] \in Extractor
           /\ [e EXCEPT !.done = TRUE, !.upstreamError = TRUE].done
           /\ [e EXCEPT !.done = TRUE, !.upstreamError = TRUE].upstreamError
           /\ [e EXCEPT !.dropped = TRUE] \in Extractor
           /\ [e EXCEPT !.dropped = TRUE].done = e.done
           /\ [e EXCEPT !.dropped = TRUE].upstreamError = e.upstreamError
           /\ \A u \in SUBSET BothHalves :
                /\ [e EXCEPT !.usage = u] \in Extractor
                /\ [e EXCEPT !.usage = u].done = e.done
                /\ [e EXCEPT !.usage = u].upstreamError = e.upstreamError
                /\ [e EXCEPT !.done = TRUE, !.usage = u] \in Extractor
                /\ [e EXCEPT !.done = TRUE, !.usage = u].done
                /\ [e EXCEPT !.done = TRUE, !.usage = u].upstreamError = e.upstreamError
  BY DEF Extractor

\* The frames the extractors send, on the surfaces with one end and on the one
\* where an error is an end too.
LEMMA FramesSent ==
    /\ \A f \in {<<>>, <<"ping">>, <<"delta">>} :
         f \in Seq(Marks) /\ ~HasError(f) /\ \A sf : Open(f, EndsOf(sf))
    /\ <<"end">> \in Seq(Marks) /\ ~HasError(<<"end">>) /\ <<"end">> # <<>>
    /\ \A sf : Sealed(<<"end">>, EndsOf(sf))
    /\ <<"error">> \in Seq(Marks) /\ <<"error">> # <<>>
    /\ \A sf : sf # "messages" => Open(<<"error">>, EndsOf(sf))
    /\ Sealed(<<"error">>, EndsOf("messages"))
    /\ <<"error", "end">> \in Seq(Marks) /\ <<"error", "end">> # <<>>
    /\ \A sf : sf # "messages" => Sealed(<<"error", "end">>, EndsOf(sf))
    /\ <<"delta", "end">> \in Seq(Marks) /\ <<"delta", "end">> # <<>>
    /\ \A sf : Sealed(<<"delta", "end">>, EndsOf(sf))
    /\ ~HasError(<<"delta", "end">>)
<1>1. \A sf : /\ "end" \in EndsOf(sf) /\ "ping" \notin EndsOf(sf) /\ "delta" \notin EndsOf(sf)
              /\ sf # "messages" => "error" \notin EndsOf(sf)
              /\ "error" \in EndsOf("messages")
  BY DEF EndsOf
<1>2. "end" \in Marks /\ "ping" \in Marks /\ "delta" \in Marks /\ "error" \in Marks
  BY DEF Marks
<1>3. "end" # "error" /\ "ping" # "error" /\ "delta" # "error"
  OBVIOUS
<1> QED
  BY <1>1, <1>2, <1>3, FrameFacts

LEMMA ChatFacts ==
    ASSUME NEW e \in Extractor, ~e.done, NEW sf \in ChatLike, NEW p \in Payloads
    PROVE  Sound(sf, e, ChatEvent(e, p))
<1>1. sf # "messages" /\ \A y : ErrorsEnd(sf, y)
  BY DEF ChatLike, ErrorsEnd
<1>2. BothHalves \in SUBSET BothHalves
  OBVIOUS
<1>3. CASE p = "[DONE]"
  <2> DEFINE y == [e EXCEPT !.done = TRUE]
             f == <<"end">>
  <2>1. ChatEvent(e, p) = [x |-> y, out |-> f]
    BY <1>3 DEF ChatEvent
  <2>3. y \in Extractor /\ y.done /\ (y.upstreamError <=> e.upstreamError)
    BY DEF Extractor
  <2>4. f \in Seq(Marks) /\ Sealed(f, EndsOf(sf)) /\ f # <<>> /\ ~HasError(f)
    BY <1>1, FramesSent
  <2> HIDE DEF y, f
  <2> QED
    BY <1>1, <2>1, <2>3, <2>4, SoundFacts
<1>4. CASE p = "usage"
  <2> DEFINE y == [e EXCEPT !.usage = BothHalves]
             f == <<>>
  <2>1. ChatEvent(e, p) = [x |-> y, out |-> f]
    BY <1>4 DEF ChatEvent
  <2>3. y \in Extractor /\ ~y.done /\ (y.upstreamError <=> e.upstreamError)
    BY <1>2 DEF Extractor
  <2>4. f \in Seq(Marks) /\ Open(f, EndsOf(sf)) /\ ~HasError(f)
    BY <1>1, FramesSent
  <2> HIDE DEF y, f
  <2> QED
    BY <1>1, <2>1, <2>3, <2>4, SoundFacts
<1>5. CASE p = "error"
  <2> DEFINE y == [e EXCEPT !.upstreamError = TRUE]
             f == <<"error">>
  <2>1. ChatEvent(e, p) = [x |-> y, out |-> f]
    BY <1>5 DEF ChatEvent
  <2>3. y \in Extractor /\ ~y.done /\ y.upstreamError
    BY ExtractorFacts
  <2>4. f \in Seq(Marks) /\ Open(f, EndsOf(sf))
    BY <1>1, FramesSent
  <2> HIDE DEF y, f
  <2> QED
    BY <1>1, <2>1, <2>3, <2>4, SoundFacts
<1>6. CASE p = "ping"
  <2> DEFINE y == e
             f == <<"ping">>
  <2>1. ChatEvent(e, p) = [x |-> y, out |-> f]
    BY <1>6 DEF ChatEvent
  <2>3. y \in Extractor /\ ~y.done /\ (y.upstreamError <=> e.upstreamError)
    BY ExtractorFacts
  <2>4. f \in Seq(Marks) /\ Open(f, EndsOf(sf)) /\ ~HasError(f)
    BY <1>1, FramesSent
  <2> HIDE DEF y, f
  <2> QED
    BY <1>1, <2>1, <2>3, <2>4, SoundFacts
<1>7. CASE p = "unreadable"
  <2> DEFINE y == [e EXCEPT !.dropped = TRUE]
             f == <<>>
  <2>1. ChatEvent(e, p) = [x |-> y, out |-> f]
    BY <1>7 DEF ChatEvent
  <2>3. y \in Extractor /\ ~y.done /\ (y.upstreamError <=> e.upstreamError)
    BY ExtractorFacts
  <2>4. f \in Seq(Marks) /\ Open(f, EndsOf(sf)) /\ ~HasError(f)
    BY <1>1, FramesSent
  <2> HIDE DEF y, f
  <2> QED
    BY <1>1, <2>1, <2>3, <2>4, SoundFacts
<1>8. CASE p \notin {"[DONE]", "usage", "error", "ping", "unreadable"}
  <2> DEFINE y == e
             f == <<"delta">>
  <2>1. ChatEvent(e, p) = [x |-> y, out |-> f]
    BY <1>8 DEF ChatEvent
  <2>3. y \in Extractor /\ ~y.done /\ (y.upstreamError <=> e.upstreamError)
    BY ExtractorFacts
  <2>4. f \in Seq(Marks) /\ Open(f, EndsOf(sf)) /\ ~HasError(f)
    BY <1>1, FramesSent
  <2> HIDE DEF y, f
  <2> QED
    BY <1>1, <2>1, <2>3, <2>4, SoundFacts
<1> QED
  BY <1>3, <1>4, <1>5, <1>6, <1>7, <1>8

LEMMA ResponsesFacts ==
    ASSUME NEW e \in Extractor, ~e.done, ~e.upstreamError, NEW p \in Payloads
    PROVE  Sound("responses", e, ResponsesEvent(e, p))
<1>1. "responses" # "messages"
  OBVIOUS
<1>2. CASE p = "[DONE]"
  <2> DEFINE y == e
             f == <<>>
  <2>1. ResponsesEvent(e, p) = [x |-> y, out |-> f]
    BY <1>2 DEF ResponsesEvent
  <2>3. y \in Extractor /\ ~y.done /\ (y.upstreamError <=> e.upstreamError)
    BY ExtractorFacts
  <2>4. f \in Seq(Marks) /\ Open(f, EndsOf("responses")) /\ ~HasError(f)
    BY <1>1, FramesSent
  <2> HIDE DEF y, f
  <2> QED
    BY <2>1, <2>3, <2>4, SoundFacts DEF ErrorsEnd
<1>3. CASE p \in {"stop", "stopUsage"}
  <2> DEFINE u == IF p = "stop" THEN e.usage ELSE BothHalves
  <2> DEFINE y == [e EXCEPT !.done = TRUE, !.usage = u]
             f == <<"delta", "end">>
  <2>1. ResponsesEvent(e, p) = [x |-> y, out |-> f]
    BY <1>3 DEF ResponsesEvent
  <2>2. u \in SUBSET BothHalves
    BY DEF Extractor
  <2> HIDE DEF u
  <2>3. y \in Extractor /\ y.done /\ (y.upstreamError <=> e.upstreamError)
    BY <2>2 DEF Extractor
  <2>4. f \in Seq(Marks) /\ Sealed(f, EndsOf("responses")) /\ f # <<>> /\ ~HasError(f)
    BY <1>1, FramesSent
  <2> HIDE DEF y, f
  <2> QED
    BY <2>1, <2>3, <2>4, SoundFacts DEF ErrorsEnd
<1>4. CASE p \in {"failed", "error"}
  <2> DEFINE y == [e EXCEPT !.done = TRUE, !.upstreamError = TRUE]
             f == <<"error", "end">>
  <2>1. ResponsesEvent(e, p) = [x |-> y, out |-> f]
    BY <1>4 DEF ResponsesEvent
  <2>3. y \in Extractor /\ y.done /\ y.upstreamError
    BY ExtractorFacts
  <2>4. f \in Seq(Marks) /\ Sealed(f, EndsOf("responses")) /\ f # <<>>
    BY <1>1, FramesSent
  <2> HIDE DEF y, f
  <2> QED
    BY <2>1, <2>3, <2>4, SoundFacts DEF ErrorsEnd
<1>5. CASE p \in {"ping", "unreadable"}
  <2> DEFINE y == [e EXCEPT !.dropped = TRUE]
             f == <<>>
  <2>1. ResponsesEvent(e, p) = [x |-> y, out |-> f]
    BY <1>5 DEF ResponsesEvent
  <2>3. y \in Extractor /\ ~y.done /\ (y.upstreamError <=> e.upstreamError)
    BY ExtractorFacts
  <2>4. f \in Seq(Marks) /\ Open(f, EndsOf("responses")) /\ ~HasError(f)
    BY <1>1, FramesSent
  <2> HIDE DEF y, f
  <2> QED
    BY <2>1, <2>3, <2>4, SoundFacts DEF ErrorsEnd
<1>6. CASE p \notin {"[DONE]", "stop", "stopUsage", "failed", "error", "ping", "unreadable"}
  <2> DEFINE y == e
             f == <<"delta">>
  <2>1. ResponsesEvent(e, p) = [x |-> y, out |-> f]
    BY <1>6 DEF ResponsesEvent
  <2>3. y \in Extractor /\ ~y.done /\ (y.upstreamError <=> e.upstreamError)
    BY ExtractorFacts
  <2>4. f \in Seq(Marks) /\ Open(f, EndsOf("responses")) /\ ~HasError(f)
    BY <1>1, FramesSent
  <2> HIDE DEF y, f
  <2> QED
    BY <2>1, <2>3, <2>4, SoundFacts DEF ErrorsEnd
<1> QED
  BY <1>2, <1>3, <1>4, <1>5, <1>6

LEMMA MessagesFacts ==
    ASSUME NEW e \in Extractor, ~e.done, ~e.upstreamError, NEW p \in Payloads,
           NEW bad \in BOOLEAN
    PROVE  Sound("messages", e, MessagesEvent(e, p, bad))
<1>1. CASE bad \/ p \in {"[DONE]", "ping", "unreadable"}
  <2> DEFINE y == [e EXCEPT !.dropped = TRUE]
             f == <<>>
  <2>1. MessagesEvent(e, p, bad) = [x |-> y, out |-> f]
    BY <1>1 DEF MessagesEvent
  <2>3. y \in Extractor /\ ~y.done /\ (y.upstreamError <=> e.upstreamError)
    BY ExtractorFacts
  <2>4. f \in Seq(Marks) /\ Open(f, EndsOf("messages")) /\ ~HasError(f)
    BY FramesSent
  <2> HIDE DEF y, f
  <2> QED
    BY <2>1, <2>3, <2>4, SoundFacts DEF ErrorsEnd
<1>2. CASE ~bad /\ p \in {"usageIn", "usageOut", "usage"}
  <2> DEFINE u == CASE p = "usageIn" -> e.usage \cup {"in"}
                    [] p = "usageOut" -> e.usage \cup {"out"}
                    [] OTHER -> BothHalves
  <2> DEFINE y == [e EXCEPT !.usage = u]
             f == <<"delta">>
  <2>1. MessagesEvent(e, p, bad) = [x |-> y, out |-> f]
    <3>1. CASE p = "usageIn"
      BY <1>2, <3>1 DEF MessagesEvent
    <3>2. CASE p = "usageOut"
      BY <1>2, <3>2 DEF MessagesEvent
    <3>3. CASE p = "usage"
      BY <1>2, <3>3 DEF MessagesEvent
    <3> QED
      BY <1>2, <3>1, <3>2, <3>3
  <2>2. u \in SUBSET BothHalves
    BY <1>2 DEF Extractor, BothHalves
  <2> HIDE DEF u
  <2>3. y \in Extractor /\ ~y.done /\ (y.upstreamError <=> e.upstreamError)
    BY <2>2 DEF Extractor
  <2>4. f \in Seq(Marks) /\ Open(f, EndsOf("messages")) /\ ~HasError(f)
    BY FramesSent
  <2> HIDE DEF y, f
  <2> QED
    BY <2>1, <2>3, <2>4, SoundFacts DEF ErrorsEnd
<1>3. CASE ~bad /\ p = "error"
  <2> DEFINE y == [e EXCEPT !.done = TRUE, !.upstreamError = TRUE]
             f == <<"error">>
  <2>1. MessagesEvent(e, p, bad) = [x |-> y, out |-> f]
    BY <1>3 DEF MessagesEvent
  <2>3. y \in Extractor /\ y.done /\ y.upstreamError
    BY ExtractorFacts
  <2>4. f \in Seq(Marks) /\ Sealed(f, EndsOf("messages")) /\ f # <<>>
    BY FramesSent
  <2> HIDE DEF y, f
  <2> QED
    BY <2>1, <2>3, <2>4, SoundFacts DEF ErrorsEnd
<1>4. CASE ~bad /\ p \in {"stop", "stopUsage"}
  <2> DEFINE y == [e EXCEPT !.done = TRUE]
             f == <<"end">>
  <2>1. MessagesEvent(e, p, bad) = [x |-> y, out |-> f]
    BY <1>4 DEF MessagesEvent
  <2>3. y \in Extractor /\ y.done /\ (y.upstreamError <=> e.upstreamError)
    BY ExtractorFacts
  <2>4. f \in Seq(Marks) /\ Sealed(f, EndsOf("messages")) /\ f # <<>> /\ ~HasError(f)
    BY FramesSent
  <2> HIDE DEF y, f
  <2> QED
    BY <2>1, <2>3, <2>4, SoundFacts DEF ErrorsEnd
<1>5. CASE ~bad /\ p \in {"delta", "failed"}
  <2> DEFINE y == e
             f == <<"delta">>
  <2>1. MessagesEvent(e, p, bad) = [x |-> y, out |-> f]
    BY <1>5 DEF MessagesEvent
  <2>3. y \in Extractor /\ ~y.done /\ (y.upstreamError <=> e.upstreamError)
    BY ExtractorFacts
  <2>4. f \in Seq(Marks) /\ Open(f, EndsOf("messages")) /\ ~HasError(f)
    BY FramesSent
  <2> HIDE DEF y, f
  <2> QED
    BY <2>1, <2>3, <2>4, SoundFacts DEF ErrorsEnd
<1> QED
  BY <1>1, <1>2, <1>3, <1>4, <1>5 DEF Payloads

LEMMA ExtractFacts ==
    ASSUME Types, NEW s \in Streams, ~x[s].done, ErrorsEnd(surface[s], x[s]),
           NEW p \in Payloads
    PROVE  Sound(surface[s], x[s], Extract(s, p))
<1>1. /\ x[s] \in Extractor /\ event[s].badField \in BOOLEAN
      /\ surface[s] \in {"chat", "completions", "responses", "messages"}
  BY DEF Types
<1>2. CASE surface[s] \in ChatLike
  <2>1. Extract(s, p) = ChatEvent(x[s], p)
    BY <1>2 DEF Extract, ChatLike
  <2> QED
    BY <1>1, <1>2, <2>1, ChatFacts
<1>3. CASE surface[s] = "responses"
  <2>1. Extract(s, p) = ResponsesEvent(x[s], p)
    BY <1>3 DEF Extract, ChatLike
  <2> QED
    BY <1>1, <1>3, <2>1, ResponsesFacts DEF ErrorsEnd
<1>4. CASE surface[s] = "messages"
  <2>1. Extract(s, p) = MessagesEvent(x[s], p, event[s].badField)
    BY <1>4 DEF Extract, ChatLike
  <2> QED
    BY <1>1, <1>4, <2>1, MessagesFacts DEF ErrorsEnd
<1> QED
  BY <1>1, <1>2, <1>3, <1>4 DEF ChatLike

-----------------------------------------------------------------------------
\* What the client makes of a frame it has taken, or has not: the five ways the
\* relay goes on from a write.
LEMMA WrittenFlow ==
    ASSUME NEW sf, NEW e \in Extractor, NEW f \in Seq(Marks), NEW why, NEW cl,
           NEW o \in Seq(Marks), NEW st, NEW at \in {"writing", "comment", "lastWrite"},
           FlowAt(sf, at, e, f, why, cl, o, st),
           NEW next, next = IF at = "lastWrite" THEN "recording"
                            ELSE IF why = "eof" \/ e.done THEN "closing" ELSE "reading"
    PROVE  FlowAt(sf, next, e, <<>>, why, cl, o \o f, st)
<1>1. /\ ErrorsEnd(sf, e) /\ Open(o, EndsOf(sf))
      /\ at # "lastWrite" => (HasError(o) => e.upstreamError)
  BY DEF FlowAt
<1>2. /\ Open(f, EndsOf(sf)) => Open(o \o f, EndsOf(sf))
      /\ Sealed(f, EndsOf(sf)) => Sealed(o \o f, EndsOf(sf))
      /\ HasError(o \o f) => HasError(o) \/ HasError(f)
  BY <1>1, ConcatFacts
<1>3. CASE at = "lastWrite"
  <2>1. Sealed(o \o f, EndsOf(sf)) /\ st # "ok" /\ next = "recording"
    BY <1>2, <1>3 DEF FlowAt
  <2> QED
    BY <1>1, <2>1 DEF FlowAt, Outcome
<1>4. CASE at # "lastWrite"
  <2>1. /\ HasError(f) => e.upstreamError
        /\ e.done => Sealed(f, EndsOf(sf))
        /\ ~e.done => Open(f, EndsOf(sf))
    <3>1. CASE at = "comment"
      BY <3>1, FramesSent DEF FlowAt
    <3>2. CASE at = "writing"
      BY <3>2 DEF FlowAt
    <3> QED
      BY <1>4, <3>1, <3>2
  <2>2. HasError(o \o f) => e.upstreamError
    BY <1>1, <1>2, <1>4, <2>1
  <2>3. why \in {"none", "eof"}
    BY <1>4 DEF FlowAt
  <2>4. CASE next = "closing"
    BY <1>1, <1>2, <2>1, <2>2, <2>3, <2>4 DEF FlowAt
  <2>5. CASE next = "reading"
    <3>1. ~e.done /\ why = "none"
      BY <1>4, <2>3, <2>5
    <3> QED
      BY <1>1, <1>2, <2>1, <2>2, <2>5, <3>1 DEF FlowAt
  <2> QED
    BY <1>4, <2>4, <2>5
<1> QED
  BY <1>3, <1>4

\* The ending the switch chooses agrees with what the client has, and what is
\* written after it closes what is open.
LEMMA ClassifyFlow ==
    ASSUME Types, NEW s \in Streams, pc[s] = "closing", Flow(s)
    PROVE  \E st \in Statuses \ {"none"}, f \in Seq(Marks) :
              /\ Classify(s)[1] = st /\ Classify(s)[2] = f
              /\ FlowAt(surface[s], IF f = <<>> THEN "recording" ELSE "lastWrite", x[s],
                        f, cause[s], client[s], out[s], st)
<1> DEFINE sf == surface[s]
           e  == x[s]
           o  == out[s]
           why == cause[s]
           cl == client[s]
           C  == Classify(s)
<1>1. FlowAt(sf, "closing", e, frame[s], why, cl, o, status[s])
  BY DEF Flow
<1> HIDE DEF sf, e, o, why, cl, C
<1>2. /\ ErrorsEnd(sf, e) /\ (HasError(o) => e.upstreamError)
      /\ Open(o, EndsOf(sf)) \/ Sealed(o, EndsOf(sf))
      /\ why \in {"broken", "overCap"} => ~e.done
      /\ ~e.done => Open(o, EndsOf(sf))
      /\ e.done /\ why # "writeFailed" => Sealed(o, EndsOf(sf))
  BY <1>1 DEF FlowAt
<1>3. ASSUME NEW st \in Statuses \ {"none"}, NEW f \in Seq(Marks), C = <<st, f>>,
             FlowAt(sf, IF f = <<>> THEN "recording" ELSE "lastWrite", e, f, why, cl, o, st)
      PROVE  \E st1 \in Statuses \ {"none"}, f1 \in Seq(Marks) :
                /\ C[1] = st1 /\ C[2] = f1
                /\ FlowAt(sf, IF f1 = <<>> THEN "recording" ELSE "lastWrite", e, f1,
                          why, cl, o, st1)
  <2>1. C[1] = st /\ C[2] = f
    BY <1>3
  <2> QED
    BY <1>3, <2>1, Zenon
<1>4. <<>> \in Seq(Marks)
  BY FramesSent
<1>5. /\ errorEvent(s) \in Seq(Marks) /\ errorEvent(s) # <<>>
      /\ Sealed(errorEvent(s), EndsOf(sf))
  BY FramesSent DEF errorEvent, sf
<1>6. ASSUME Open(o, EndsOf(sf)), NEW st, st # "ok"
      PROVE  FlowAt(sf, IF errorEvent(s) = <<>> THEN "recording" ELSE "lastWrite", e,
                    errorEvent(s), why, cl, o, st)
  <2>1. FlowAt(sf, "lastWrite", e, errorEvent(s), why, cl, o, st)
    BY <1>2, <1>5, <1>6 DEF FlowAt
  <2> QED
    BY <1>5, <2>1
<1>7. ASSUME NEW st, Outcome(sf, e, cl, o, st)
      PROVE  FlowAt(sf, IF <<>> = <<>> THEN "recording" ELSE "lastWrite", e, <<>>,
                    why, cl, o, st)
  <2>1. FlowAt(sf, "recording", e, <<>>, why, cl, o, st)
    BY <1>2, <1>7 DEF FlowAt
  <2> QED
    BY <2>1
<1>8. CASE why = "writeFailed" \/ cl = "gone"
  <2>1. C = <<"client_disconnected", <<>>>>
    BY <1>8 DEF Classify, C, why, cl, NoFrame
  <2>2. Outcome(sf, e, cl, o, "client_disconnected")
    BY <1>2 DEF Outcome
  <2>3. "client_disconnected" \in Statuses \ {"none"}
    BY DEF Statuses
  <2> QED
    BY <1>3, <1>4, <1>7, <2>1, <2>2, <2>3 DEF sf, e, o, why, cl, C
<1>9. CASE ~(why = "writeFailed" \/ cl = "gone") /\ ~e.done /\ late[s]
  <2>1. C = <<"request_deadline_exceeded", errorEvent(s)>>
    BY <1>9 DEF Classify, C, why, cl, e
  <2>2. "request_deadline_exceeded" \in Statuses \ {"none"} /\ "request_deadline_exceeded" # "ok"
    BY DEF Statuses
  <2> QED
    BY <1>2, <1>3, <1>5, <1>6, <1>9, <2>1, <2>2 DEF sf, e, o, why, cl, C
<1>10. CASE /\ ~(why = "writeFailed" \/ cl = "gone") /\ ~(~e.done /\ late[s])
            /\ why \in {"overCap", "broken"} \/ (~e.done /\ ~e.upstreamError)
  <2>1. \E st \in {"upstream_response_too_large", "upstream_stream_interrupted",
                   "upstream_stream_unterminated"} : C = <<st, errorEvent(s)>>
    BY <1>10 DEF Classify, C, why, cl, e
  <2>2. PICK st \in {"upstream_response_too_large", "upstream_stream_interrupted",
                     "upstream_stream_unterminated"} : C = <<st, errorEvent(s)>>
    BY <2>1
  <2>3. st \in Statuses \ {"none"} /\ st # "ok"
    BY DEF Statuses
  <2>4. Open(o, EndsOf(sf))
    BY <1>2, <1>10
  <2> QED
    BY <1>3, <1>5, <1>6, <2>2, <2>3, <2>4 DEF sf, e, o, why, cl, C
<1>11. CASE /\ ~(why = "writeFailed" \/ cl = "gone") /\ ~(~e.done /\ late[s])
            /\ ~(why \in {"overCap", "broken"} \/ (~e.done /\ ~e.upstreamError))
  <2>0. why # "writeFailed" /\ (e.done \/ e.upstreamError)
    BY <1>11
  <2>1. CASE e.dropped
    <3>1. C = <<"upstream_chunk_unreadable", <<>>>>
      BY <1>11, <2>1 DEF Classify, C, why, cl, e, NoFrame
    <3>2. Outcome(sf, e, cl, o, "upstream_chunk_unreadable")
      BY <1>2, <2>0, <2>1 DEF Outcome
    <3>3. "upstream_chunk_unreadable" \in Statuses \ {"none"}
      BY DEF Statuses
    <3> QED
      BY <1>3, <1>4, <1>7, <3>1, <3>2, <3>3 DEF sf, e, o, why, cl, C
  <2>2. CASE ~e.dropped /\ e.upstreamError
    <3>1. C = <<"upstream_error", IF e.done THEN <<>> ELSE terminator(s)>>
      BY <1>11, <2>2 DEF Classify, C, why, cl, e, NoFrame
    <3>2. "upstream_error" \in Statuses \ {"none"} /\ "upstream_error" # "ok"
      BY DEF Statuses
    <3>3. CASE e.done
      <4>1. C = <<"upstream_error", <<>>>>
        BY <3>1, <3>3
      <4>2. Outcome(sf, e, cl, o, "upstream_error")
        BY <1>2, <2>0, <3>2, <3>3 DEF Outcome
      <4> QED
        BY <1>3, <1>4, <1>7, <3>2, <4>1, <4>2 DEF sf, e, o, why, cl, C
    <3>4. CASE ~e.done
      <4>1. sf # "messages"
        BY <1>2, <2>2, <3>4 DEF ErrorsEnd
      <4>2. C = <<"upstream_error", <<"end">>>>
        BY <3>1, <3>4, <4>1 DEF terminator, sf
      <4>3. FlowAt(sf, "lastWrite", e, <<"end">>, why, cl, o, "upstream_error")
        BY <1>2, <3>2, <3>4, FramesSent DEF FlowAt
      <4>4. FlowAt(sf, IF <<"end">> = <<>> THEN "recording" ELSE "lastWrite", e, <<"end">>,
                   why, cl, o, "upstream_error")
        BY <4>3, FramesSent
      <4>5. <<"end">> \in Seq(Marks)
        BY FramesSent
      <4> QED
        BY <1>3, <3>2, <4>2, <4>4, <4>5 DEF sf, e, o, why, cl, C
    <3> QED
      BY <3>3, <3>4
  <2>3. CASE ~e.dropped /\ ~e.upstreamError
    <3>1. C = <<"ok", <<>>>>
      BY <1>11, <2>3 DEF Classify, C, why, cl, e, NoFrame
    <3>2. Outcome(sf, e, cl, o, "ok")
      BY <1>2, <2>0, <2>3 DEF Outcome
    <3>3. "ok" \in Statuses \ {"none"}
      BY DEF Statuses
    <3> QED
      BY <1>3, <1>4, <1>7, <3>1, <3>2, <3>3 DEF sf, e, o, why, cl, C
  <2> QED
    BY <2>1, <2>2, <2>3
<1> QED
  BY <1>8, <1>9, <1>10, <1>11

-----------------------------------------------------------------------------
\* What dispatching an event makes of the extractor and the frame.
LEMMA FlushFacts ==
    ASSUME IInv, NEW s \in Streams, pc[s] = "reading", NEW p \in Payloads, flushEvent(s, p)
    PROVE  \E y \in Extractor, f \in Seq(Marks) :
              /\ x' = [x EXCEPT ![s] = y] /\ frame' = [frame EXCEPT ![s] = f]
              /\ x'[s] = y /\ frame'[s] = f
              /\ large' = [large EXCEPT ![s] = large[s] /\ f # <<>>]
              /\ Sound(surface[s], x[s], [x |-> y, out |-> f])
<1> DEFINE r == IF event[s].data THEN Extract(s, p) ELSE [x |-> x[s], out |-> <<>>]
<1>0. Types /\ FlowAt(surface[s], pc[s], x[s], frame[s], cause[s], client[s], out[s], status[s])
  BY DEF IInv, Flow
<1>1. ~x[s].done /\ ErrorsEnd(surface[s], x[s])
  BY <1>0 DEF FlowAt
<1>2. x[s] \in Extractor /\ x \in [Streams -> Extractor] /\ frame \in [Streams -> Seq(Marks)]
  BY <1>0 DEF Types
<1>3. Sound(surface[s], x[s], r)
  <2>1. CASE event[s].data
    BY <1>0, <1>1, <2>1, ExtractFacts
  <2>2. CASE ~event[s].data
    <3>1. Sound(surface[s], x[s], [x |-> x[s], out |-> <<>>])
      BY <1>1, <1>2, FramesSent, SoundFacts
    <3> QED
      BY <2>2, <3>1
  <2> QED
    BY <2>1, <2>2
<1>4. /\ x' = [x EXCEPT ![s] = r.x] /\ frame' = [frame EXCEPT ![s] = r.out]
      /\ large' = [large EXCEPT ![s] = large[s] /\ r.out # <<>>]
  BY DEF flushEvent, NoFrame
<1> HIDE DEF r
<1>5. r.x \in Extractor /\ r.out \in Seq(Marks)
  BY <1>3 DEF Sound
<1>6. x'[s] = r.x /\ frame'[s] = r.out
  BY <1>2, <1>4
<1>7. Sound(surface[s], x[s], [x |-> r.x, out |-> r.out])
  <2> DEFINE q == [x |-> r.x, out |-> r.out]
  <2>1. q.x = r.x /\ q.out = r.out
    OBVIOUS
  <2> HIDE DEF q
  <2>2. Sound(surface[s], x[s], q)
    BY <1>3, <2>1, Zenon DEF Sound
  <2> QED
    BY <2>2 DEF q
<1> QED
  BY <1>4, <1>5, <1>6, <1>7

\* What a stream that ends an event gives back: its slot if it held one, and
\* nothing else.
LEMMA ReleasedFacts ==
    ASSUME Types, NEW s \in Streams, NEW b \in BOOLEAN,
           large' = [large EXCEPT ![s] = large[s] /\ b], Released
    PROVE  /\ large' \in [Streams -> BOOLEAN] /\ used' \in Int
           /\ large'[s] = (large[s] /\ b)
           /\ \A t \in Streams \ {s} : large'[t] = large[t]
           /\ large[s] /\ ~b => used' = used - 1
           /\ ~(large[s] /\ ~b) => used' = used
<1> DEFINE G == {t \in Streams : large[t] /\ ~large'[t]}
<1>1. large \in [Streams -> BOOLEAN] /\ used \in Int
  BY DEF Types
<1>2. /\ large' \in [Streams -> BOOLEAN] /\ large'[s] = (large[s] /\ b)
      /\ \A t \in Streams \ {s} : large'[t] = large[t]
  BY <1>1
<1>3. used' = used - Cardinality(G)
  BY DEF Released
<1>4. CASE large[s] /\ ~b
  <2>1. G = {s}
    BY <1>2, <1>4
  <2>2. Cardinality(G) = 1
    BY <2>1, FS_Singleton
  <2> QED
    BY <1>1, <1>2, <1>3, <1>4, <2>2
<1>5. CASE ~(large[s] /\ ~b)
  <2>1. G = {}
    BY <1>2, <1>5
  <2>2. Cardinality(G) = 0
    BY <2>1, FS_EmptySet
  <2> QED
    BY <1>1, <1>2, <1>3, <1>5, <2>2
<1> QED
  BY <1>4, <1>5

\* The record of each stream keeps its type.
LEMMA TypesStep == IInv /\ [Next]_vars => Types'
<1> SUFFICES ASSUME IInv, [Next]_vars PROVE Types'
  OBVIOUS
<1>0. Types
  BY DEF IInv
<1>1. ASSUME NEW o \in Others, OtherTakes(o) \/ OtherGives(o)
      PROVE  Types'
  BY <1>0, <1>1 DEF OtherTakes, OtherGives, Types
<1>2. ASSUME NEW s \in Streams, NEW n \in Sizes, NEW b \in BOOLEAN, LineArrives(s, n, b)
      PROVE  /\ lines' \in [Streams -> Nat] /\ large' \in [Streams -> BOOLEAN] /\ used' \in Int
             /\ UNCHANGED <<surface, other, x, client, late, out, status>>
  BY <1>0, <1>2 DEF LineArrives, Types
<1>3. \A n \in Sizes : n \in Nat
  BY StreamAssumption DEF StreamAssumption
<1>4. ASSUME NEW s \in Streams, NEW n \in Sizes, DataLine(s, n)
      PROVE  Types'
  <2>1. LineArrives(s, n, TRUE) /\ UNCHANGED <<pc, frame, cause>>
    BY <1>4 DEF DataLine
  <2>2. event' \in [Streams -> [bytes: Nat, data: BOOLEAN, badField: BOOLEAN]]
    <3> DEFINE R == [bytes: Nat, data: BOOLEAN, badField: BOOLEAN]
               m == event[s].bytes + n + Overhead
    <3>1. event \in [Streams -> R] /\ m \in Nat
      BY <1>0, <1>3, StreamAssumption DEF Types
    <3>2. event' = [event EXCEPT ![s] = [event[s] EXCEPT !.bytes = m, !.data = TRUE]]
      BY <1>4 DEF DataLine
    <3> HIDE DEF m
    <3>3. \A e \in R : [e EXCEPT !.bytes = m, !.data = TRUE] \in R
      BY <3>1
    <3> HIDE DEF R
    <3>4. event' \in [Streams -> R]
      BY <3>1, <3>2, <3>3
    <3> QED
      BY <3>4 DEF R
  <2> QED
    BY <1>0, <1>2, <2>1, <2>2 DEF Types
<1>5. ASSUME NEW s \in Streams, NEW n \in Sizes, NEW b \in BOOLEAN, FieldLine(s, n, b)
      PROVE  Types'
  <2>1. LineArrives(s, n, FALSE) /\ UNCHANGED <<pc, frame, cause>>
    BY <1>5 DEF FieldLine
  <2>2. event' \in [Streams -> [bytes: Nat, data: BOOLEAN, badField: BOOLEAN]]
    <3> DEFINE R == [bytes: Nat, data: BOOLEAN, badField: BOOLEAN]
               v == event[s].badField \/ ~b
    <3>1. event \in [Streams -> R] /\ v \in BOOLEAN
      BY <1>0 DEF Types
    <3>2. event' = [event EXCEPT ![s] = [event[s] EXCEPT !.badField = v]]
      BY <1>5 DEF FieldLine
    <3> HIDE DEF v
    <3>3. \A e \in R : [e EXCEPT !.badField = v] \in R
      BY <3>1
    <3> HIDE DEF R
    <3>4. event' \in [Streams -> R]
      BY <3>1, <3>2, <3>3
    <3> QED
      BY <3>4 DEF R
  <2> QED
    BY <1>0, <1>2, <2>1, <2>2 DEF Types
<1>6. ASSUME NEW s \in Streams, NEW n \in Sizes, CommentLine(s, n)
      PROVE  Types'
  <2>1. /\ LineArrives(s, n, FALSE) /\ UNCHANGED <<event, cause>>
        /\ pc' = [pc EXCEPT ![s] = "comment"] /\ frame' = [frame EXCEPT ![s] = <<"ping">>]
    BY <1>6 DEF CommentLine
  <2>2. pc' \in [Streams -> Places] /\ frame' \in [Streams -> Seq(Marks)]
    BY <1>0, <2>1, FramesSent DEF Types, Places
  <2> QED
    BY <1>0, <1>2, <2>1, <2>2 DEF Types
<1>7. ASSUME NEW s \in Streams, NEW n \in Sizes, NEW b \in BOOLEAN, LineOverCap(s, n, b)
      PROVE  Types'
  <2>1. /\ LineArrives(s, n, b) /\ UNCHANGED <<event, frame>>
        /\ pc' = [pc EXCEPT ![s] = "closing"] /\ cause' = [cause EXCEPT ![s] = "overCap"]
    BY <1>7 DEF LineOverCap
  <2>2. /\ pc' \in [Streams -> Places]
        /\ cause' \in [Streams -> {"none", "eof", "broken", "overCap", "writeFailed"}]
    BY <1>0, <2>1 DEF Types, Places
  <2> QED
    BY <1>0, <1>2, <2>1, <2>2 DEF Types
<1>8. ASSUME NEW s \in Streams, NEW b \in BOOLEAN,
             large' = [large EXCEPT ![s] = large[s] /\ b], Released
      PROVE  large' \in [Streams -> BOOLEAN] /\ used' \in Int
  BY <1>0, <1>8, ReleasedFacts
<1>9. ASSUME NEW s \in Streams, NEW p \in Payloads, pc[s] = "reading", flushEvent(s, p)
      PROVE  /\ x' \in [Streams -> Extractor] /\ frame' \in [Streams -> Seq(Marks)]
             /\ large' \in [Streams -> BOOLEAN] /\ used' \in Int
             /\ event' \in [Streams -> [bytes: Nat, data: BOOLEAN, badField: BOOLEAN]]
  <2>1. PICK y \in Extractor, f \in Seq(Marks) :
              /\ x' = [x EXCEPT ![s] = y] /\ frame' = [frame EXCEPT ![s] = f]
              /\ x'[s] = y /\ frame'[s] = f
              /\ large' = [large EXCEPT ![s] = large[s] /\ f # <<>>]
              /\ Sound(surface[s], x[s], [x |-> y, out |-> f])
    BY <1>9, FlushFacts
  <2>2. event' = [event EXCEPT ![s] = NoEvent] /\ Released
    BY <1>9 DEF flushEvent
  <2>3. NoEvent \in [bytes: Nat, data: BOOLEAN, badField: BOOLEAN]
    BY DEF NoEvent
  <2>4. (f # <<>>) \in BOOLEAN
    OBVIOUS
  <2>5. large' \in [Streams -> BOOLEAN] /\ used' \in Int
    BY <1>8, <2>1, <2>2, <2>4
  <2>6. x' \in [Streams -> Extractor] /\ frame' \in [Streams -> Seq(Marks)]
    BY <1>0, <2>1 DEF Types
  <2>7. event' \in [Streams -> [bytes: Nat, data: BOOLEAN, badField: BOOLEAN]]
    BY <1>0, <2>2, <2>3 DEF Types
  <2> QED
    BY <2>5, <2>6, <2>7
<1>10. ASSUME NEW s \in Streams, NEW p \in Payloads, BlankLine(s, p)
       PROVE  Types'
  <2>1. /\ pc[s] = "reading" /\ flushEvent(s, p) /\ lines' = [lines EXCEPT ![s] = @ + 1]
        /\ UNCHANGED <<surface, other, cause, client, late, out, status>>
        /\ \E v \in Places : pc' = [pc EXCEPT ![s] = v]
    BY <1>10 DEF BlankLine, Continue, Places
  <2>2. pc' \in [Streams -> Places] /\ lines' \in [Streams -> Nat]
    BY <1>0, <2>1 DEF Types
  <2> QED
    BY <1>0, <1>9, <2>1, <2>2 DEF Types
<1>11. ASSUME NEW s \in Streams, NEW p \in Payloads, EndOfFile(s, p)
       PROVE  Types'
  <2>1. /\ pc[s] = "reading" /\ flushEvent(s, p) /\ cause' = [cause EXCEPT ![s] = "eof"]
        /\ UNCHANGED <<surface, other, client, late, out, lines, status>>
        /\ \E v \in Places : pc' = [pc EXCEPT ![s] = v]
    BY <1>11 DEF EndOfFile, Places
  <2>2. /\ pc' \in [Streams -> Places]
        /\ cause' \in [Streams -> {"none", "eof", "broken", "overCap", "writeFailed"}]
    BY <1>0, <2>1 DEF Types
  <2> QED
    BY <1>0, <1>9, <2>1, <2>2 DEF Types
<1>12. ASSUME NEW s \in Streams, ReadFails(s)
       PROVE  Types'
  BY <1>0, <1>12 DEF ReadFails, Types, Places
<1>13. ASSUME NEW s \in Streams, Written(s)
       PROVE  Types'
  <2>1. /\ out' = [out EXCEPT ![s] = out[s] \o frame[s]] /\ Released /\ x' = x
        /\ frame' = [frame EXCEPT ![s] = <<>>]
        /\ large' = [large EXCEPT ![s] = large[s] /\ pc[s] # "writing"]
        /\ \E v \in Places : pc' = [pc EXCEPT ![s] = v]
        /\ UNCHANGED <<surface, other, event, cause, client, late, lines, status>>
    BY <1>13 DEF Written, AfterWrite, Continue, Places, NoFrame
  <2>2. out[s] \in Seq(Marks) /\ frame[s] \in Seq(Marks)
    BY <1>0 DEF Types
  <2>3. out[s] \o frame[s] \in Seq(Marks) /\ <<>> \in Seq(Marks)
    BY <2>2
  <2>4. out' \in [Streams -> Seq(Marks)] /\ frame' \in [Streams -> Seq(Marks)]
    BY <1>0, <2>1, <2>3 DEF Types
  <2>5. (pc[s] # "writing") \in BOOLEAN
    OBVIOUS
  <2>6. large' \in [Streams -> BOOLEAN] /\ used' \in Int
    BY <1>8, <2>1, <2>5
  <2>7. pc' \in [Streams -> Places]
    BY <1>0, <2>1 DEF Types
  <2> QED
    BY <1>0, <2>1, <2>4, <2>6, <2>7 DEF Types
<1>14. ASSUME NEW s \in Streams, WriteFails(s)
       PROVE  Types'
  <2>1. /\ Released /\ frame' = [frame EXCEPT ![s] = <<>>]
        /\ large' = [large EXCEPT ![s] = large[s] /\ pc[s] # "writing"]
        /\ cause' = [cause EXCEPT ![s] = IF pc[s] = "lastWrite" THEN cause[s] ELSE "writeFailed"]
        /\ \E v \in Places : pc' = [pc EXCEPT ![s] = v]
        /\ UNCHANGED <<surface, other, event, x, client, late, out, lines, status>>
    BY <1>14 DEF WriteFails, Places, NoFrame
  <2>2. <<>> \in Seq(Marks)
    OBVIOUS
  <2>3. /\ frame' \in [Streams -> Seq(Marks)] /\ pc' \in [Streams -> Places]
        /\ cause' \in [Streams -> {"none", "eof", "broken", "overCap", "writeFailed"}]
    BY <1>0, <2>1, <2>2 DEF Types
  <2>4. (pc[s] # "writing") \in BOOLEAN
    OBVIOUS
  <2>5. large' \in [Streams -> BOOLEAN] /\ used' \in Int
    BY <1>8, <2>1, <2>4
  <2> QED
    BY <1>0, <2>1, <2>3, <2>5 DEF Types
<1>15. ASSUME NEW s \in Streams, Close(s)
       PROVE  Types'
  <2>1. PICK st \in Statuses, f \in Seq(Marks) : Classify(s)[1] = st /\ Classify(s)[2] = f
    BY <1>0, <1>15, ClassifyFlow DEF Close, IInv
  <2>2. /\ status' = [status EXCEPT ![s] = st] /\ frame' = [frame EXCEPT ![s] = f]
        /\ \E v \in Places : pc' = [pc EXCEPT ![s] = v]
        /\ UNCHANGED <<surface, other, event, large, used, x, cause, client, late, out, lines>>
    BY <1>15, <2>1 DEF Close, Places
  <2>3. /\ status' \in [Streams -> Statuses] /\ frame' \in [Streams -> Seq(Marks)]
        /\ pc' \in [Streams -> Places]
    BY <1>0, <2>1, <2>2 DEF Types
  <2> QED
    BY <1>0, <2>2, <2>3 DEF Types
<1>16. ASSUME NEW s \in Streams, Record(s)
       PROVE  Types'
  <2>1. /\ Released /\ pc' = [pc EXCEPT ![s] = "ended"]
        /\ large' = [large EXCEPT ![s] = large[s] /\ FALSE]
        /\ status' = [status EXCEPT ![s] = IF status[s] = "ok" /\ noUsageEstimate(s) /\ ~haveUsage(s)
                                           THEN "upstream_usage_missing" ELSE status[s]]
        /\ UNCHANGED <<surface, other, event, x, frame, cause, client, late, out, lines>>
    BY <1>16 DEF Record
  <2>2. large' \in [Streams -> BOOLEAN] /\ used' \in Int
    BY <1>8, <2>1
  <2>3. pc' \in [Streams -> Places] /\ status' \in [Streams -> Statuses]
    BY <1>0, <2>1 DEF Types, Places, Statuses
  <2> QED
    BY <1>0, <2>1, <2>2, <2>3 DEF Types
<1>17. ASSUME NEW s \in Streams, ClientLeaves(s) \/ DeadlinePasses(s)
       PROVE  Types'
  BY <1>0, <1>17 DEF ClientLeaves, DeadlinePasses, Types
<1>18. CASE UNCHANGED vars
  BY <1>0, <1>18 DEF vars, Types
<1> QED
  BY <1>1, <1>4, <1>5, <1>6, <1>7, <1>10, <1>11, <1>12, <1>13, <1>14, <1>15, <1>16, <1>17,
     <1>18 DEF Next

\* What is known of a stream only depends on the stream.
LEMMA FlowNext ==
    ASSUME NEW t \in Streams, surface'[t] = surface[t],
           FlowAt(surface[t], pc'[t], x'[t], frame'[t], cause'[t], client'[t], out'[t],
                  status'[t])
    PROVE  Flow(t)'
  BY DEF Flow

LEMMA FlowStep == IInv /\ [Next]_vars => \A t \in Streams : Flow(t)'
<1> SUFFICES ASSUME IInv, [Next]_vars, NEW t \in Streams PROVE Flow(t)'
  OBVIOUS
<1>0. /\ Types
      /\ FlowAt(surface[t], pc[t], x[t], frame[t], cause[t], client[t], out[t], status[t])
  BY DEF IInv, Flow
<1>a. /\ x[t] \in Extractor /\ frame[t] \in Seq(Marks) /\ out[t] \in Seq(Marks)
      /\ pc[t] \in Places
  BY <1>0 DEF Types
<1>b. ASSUME /\ surface'[t] = surface[t] /\ pc'[t] = pc[t] /\ x'[t] = x[t]
             /\ frame'[t] = frame[t] /\ cause'[t] = cause[t] /\ client'[t] = client[t]
             /\ out'[t] = out[t] /\ status'[t] = status[t]
      PROVE  Flow(t)'
  BY <1>0, <1>b, FlowNext
<1>1. ASSUME NEW o \in Others, OtherTakes(o) \/ OtherGives(o)
      PROVE  Flow(t)'
  BY <1>1, <1>b DEF OtherTakes, OtherGives
<1>2. ASSUME NEW s \in Streams, NEW n \in Sizes, NEW b \in BOOLEAN,
             DataLine(s, n) \/ FieldLine(s, n, b)
      PROVE  Flow(t)'
  BY <1>2, <1>b DEF DataLine, FieldLine, LineArrives
<1>3. ASSUME NEW s \in Streams, NEW n \in Sizes, CommentLine(s, n)
      PROVE  Flow(t)'
  <2>1. /\ pc[s] = "reading" /\ pc' = [pc EXCEPT ![s] = "comment"]
        /\ frame' = [frame EXCEPT ![s] = <<"ping">>]
        /\ UNCHANGED <<surface, x, client, out, status, cause>>
    BY <1>3 DEF CommentLine, LineArrives
  <2>2. CASE s # t
    <3>1. pc'[t] = pc[t] /\ frame'[t] = frame[t]
      BY <1>0, <2>1, <2>2 DEF Types
    <3> QED
      BY <1>b, <2>1, <3>1
  <2>3. CASE s = t
    <3>1. pc'[t] = "comment" /\ frame'[t] = <<"ping">> /\ pc[t] = "reading"
      BY <1>0, <2>1, <2>3 DEF Types
    <3>2. FlowAt(surface[t], "comment", x[t], <<"ping">>, cause[t], client[t], out[t], status[t])
      BY <1>0, <3>1 DEF FlowAt
    <3> QED
      BY <2>1, <3>1, <3>2, FlowNext
  <2> QED
    BY <2>2, <2>3
<1>4. ASSUME NEW s \in Streams, NEW c \in {"overCap", "broken"}, pc[s] = "reading",
             pc' = [pc EXCEPT ![s] = "closing"], cause' = [cause EXCEPT ![s] = c],
             UNCHANGED <<surface, x, frame, client, out, status>>
      PROVE  Flow(t)'
  <2>1. CASE s # t
    <3>1. pc'[t] = pc[t] /\ cause'[t] = cause[t]
      BY <1>0, <1>4, <2>1 DEF Types
    <3> QED
      BY <1>b, <1>4, <3>1
  <2>2. CASE s = t
    <3>1. pc'[t] = "closing" /\ cause'[t] = c /\ pc[t] = "reading"
      BY <1>0, <1>4, <2>2 DEF Types
    <3>2. FlowAt(surface[t], "closing", x[t], frame[t], c, client[t], out[t], status[t])
      BY <1>0, <3>1 DEF FlowAt
    <3> QED
      BY <1>4, <3>1, <3>2, FlowNext
  <2> QED
    BY <2>1, <2>2
<1>5. ASSUME NEW s \in Streams, NEW p \in Payloads, NEW c,
             pc[s] = "reading", flushEvent(s, p), cause' = [cause EXCEPT ![s] = c],
             \/ c = cause[s] /\ pc' = [pc EXCEPT ![s] = IF frame'[s] # <<>> THEN "writing"
                                                       ELSE Continue(s, FALSE)]
             \/ c = "eof" /\ pc' = [pc EXCEPT ![s] = IF frame'[s] # <<>> THEN "writing"
                                                     ELSE "closing"],
             UNCHANGED <<surface, client, out, status>>
      PROVE  Flow(t)'
  <2>1. PICK y \in Extractor, f \in Seq(Marks) :
              /\ x' = [x EXCEPT ![s] = y] /\ frame' = [frame EXCEPT ![s] = f]
              /\ x'[s] = y /\ frame'[s] = f
              /\ large' = [large EXCEPT ![s] = large[s] /\ f # <<>>]
              /\ Sound(surface[s], x[s], [x |-> y, out |-> f])
    BY <1>5, FlushFacts
  <2>2. CASE s # t
    <3>1. pc'[t] = pc[t] /\ cause'[t] = cause[t] /\ x'[t] = x[t] /\ frame'[t] = frame[t]
      BY <1>0, <1>5, <2>1, <2>2 DEF Types
    <3> QED
      BY <1>b, <1>5, <3>1
  <2>3. CASE s = t
    <3>1. /\ Open(out[t], EndsOf(surface[t])) /\ cause[t] = "none"
          /\ HasError(out[t]) => x[t].upstreamError
      BY <1>0, <1>5, <2>3 DEF FlowAt
    <3>2. /\ y.done => Sealed(f, EndsOf(surface[t])) /\ f # <<>>
          /\ ~y.done => Open(f, EndsOf(surface[t]))
          /\ HasError(f) => y.upstreamError
          /\ x[t].upstreamError => y.upstreamError
          /\ ErrorsEnd(surface[t], y)
      <4> DEFINE q == [x |-> y, out |-> f]
      <4>1. q.x = y /\ q.out = f
        OBVIOUS
      <4>2. Sound(surface[t], x[t], q)
        BY <2>1, <2>3
      <4> HIDE DEF q
      <4> QED
        BY <4>1, <4>2, Zenon DEF Sound
    <3>3. HasError(out[t]) => y.upstreamError
      BY <3>1, <3>2
    <3>4. cause'[t] = c /\ x'[t] = y /\ frame'[t] = f /\ c \in {"none", "eof"}
      BY <1>0, <1>5, <2>1, <2>3, <3>1 DEF Types
    <3>5. CASE f # <<>>
      <4>1. pc'[t] = "writing"
        BY <1>0, <1>5, <2>1, <2>3, <3>5 DEF Types
      <4>2. FlowAt(surface[t], "writing", y, f, c, client[t], out[t], status[t])
        BY <3>1, <3>2, <3>3, <3>4 DEF FlowAt
      <4> QED
        BY <1>5, <3>4, <4>1, <4>2, FlowNext
    <3>6. CASE f = <<>>
      <4>1. ~y.done
        BY <3>2, <3>6
      <4>2. (pc'[t] = "reading" /\ c = "none") \/ pc'[t] = "closing"
        BY <1>0, <1>5, <2>1, <2>3, <3>1, <3>6, <4>1 DEF Types, Continue
      <4>3. FlowAt(surface[t], pc'[t], y, f, c, client[t], out[t], status[t])
        BY <3>1, <3>2, <3>3, <3>4, <4>1, <4>2 DEF FlowAt
      <4> QED
        BY <1>5, <3>4, <4>3, FlowNext
    <3> QED
      BY <3>5, <3>6
  <2> QED
    BY <2>2, <2>3
<1>6. ASSUME NEW s \in Streams, Written(s)
      PROVE  Flow(t)'
  <2>1. /\ Writes(s) /\ x' = x /\ out' = [out EXCEPT ![s] = out[s] \o frame[s]]
        /\ frame' = [frame EXCEPT ![s] = <<>>] /\ pc' = [pc EXCEPT ![s] = AfterWrite(s)]
        /\ UNCHANGED <<surface, cause, client, status>>
    BY <1>6 DEF Written, NoFrame
  <2>2. CASE s # t
    <3>1. pc'[t] = pc[t] /\ out'[t] = out[t] /\ frame'[t] = frame[t]
      BY <1>0, <2>1, <2>2 DEF Types
    <3> QED
      BY <1>b, <2>1, <3>1
  <2>3. CASE s = t
    <3>1. /\ pc'[t] = AfterWrite(t) /\ out'[t] = out[t] \o frame[t] /\ frame'[t] = <<>>
          /\ pc[t] \in {"writing", "comment", "lastWrite"}
      BY <1>0, <2>1, <2>3 DEF Types, Writes
    <3>2. pc'[t] = IF pc[t] = "lastWrite" THEN "recording"
                   ELSE IF cause[t] = "eof" \/ x[t].done THEN "closing" ELSE "reading"
      BY <2>1, <3>1 DEF AfterWrite, Continue
    <3>3. FlowAt(surface[t], pc'[t], x[t], <<>>, cause[t], client[t], out[t] \o frame[t],
                 status[t])
      BY <1>0, <1>a, <3>1, <3>2, WrittenFlow
    <3> QED
      BY <2>1, <3>1, <3>3, FlowNext
  <2> QED
    BY <2>2, <2>3
<1>7. ASSUME NEW s \in Streams, WriteFails(s)
      PROVE  Flow(t)'
  <2>1. /\ Writes(s) /\ (client[s] = "gone" \/ UnderDeadline(s))
        /\ frame' = [frame EXCEPT ![s] = <<>>]
        /\ cause' = [cause EXCEPT ![s] = IF pc[s] = "lastWrite" THEN cause[s] ELSE "writeFailed"]
        /\ pc' = [pc EXCEPT ![s] = IF pc[s] = "lastWrite" THEN "recording" ELSE "closing"]
        /\ UNCHANGED <<surface, x, client, out, status>>
    BY <1>7 DEF WriteFails, NoFrame
  <2>2. CASE s # t
    <3>1. pc'[t] = pc[t] /\ cause'[t] = cause[t] /\ frame'[t] = frame[t]
      BY <1>0, <2>1, <2>2 DEF Types
    <3> QED
      BY <1>b, <2>1, <3>1
  <2>3. CASE s = t /\ pc[s] = "lastWrite"
    <3>1. /\ pc'[t] = "recording" /\ cause'[t] = cause[t] /\ frame'[t] = <<>>
          /\ client[t] = "gone" /\ pc[t] = "lastWrite"
      BY <1>0, <2>1, <2>3 DEF Types, UnderDeadline
    <3>2. FlowAt(surface[t], "recording", x[t], <<>>, cause[t], client[t], out[t], status[t])
      BY <1>0, <3>1 DEF FlowAt, Outcome
    <3> QED
      BY <2>1, <3>1, <3>2, FlowNext
  <2>4. CASE s = t /\ pc[s] # "lastWrite"
    <3>1. /\ pc'[t] = "closing" /\ cause'[t] = "writeFailed" /\ frame'[t] = <<>>
          /\ pc[t] \in {"writing", "comment"}
      BY <1>0, <2>1, <2>4 DEF Types, Writes
    <3>2. FlowAt(surface[t], "closing", x[t], <<>>, "writeFailed", client[t], out[t], status[t])
      BY <1>0, <3>1 DEF FlowAt
    <3> QED
      BY <2>1, <3>1, <3>2, FlowNext
  <2> QED
    BY <2>2, <2>3, <2>4
<1>8. ASSUME NEW s \in Streams, Close(s)
      PROVE  Flow(t)'
  <2>0. Flow(s) /\ pc[s] = "closing"
    BY <1>8 DEF IInv, Close
  <2>1. PICK st \in Statuses \ {"none"}, f \in Seq(Marks) :
              /\ Classify(s)[1] = st /\ Classify(s)[2] = f
              /\ FlowAt(surface[s], IF f = <<>> THEN "recording" ELSE "lastWrite", x[s],
                        f, cause[s], client[s], out[s], st)
    BY <1>0, <2>0, ClassifyFlow
  <2>2. /\ status' = [status EXCEPT ![s] = st] /\ frame' = [frame EXCEPT ![s] = f]
        /\ pc' = [pc EXCEPT ![s] = IF frame'[s] = <<>> THEN "recording" ELSE "lastWrite"]
        /\ UNCHANGED <<surface, x, cause, client, out>>
    BY <1>8, <2>1 DEF Close, NoFrame
  <2>3. CASE s # t
    <3>1. pc'[t] = pc[t] /\ status'[t] = status[t] /\ frame'[t] = frame[t]
      BY <1>0, <2>2, <2>3 DEF Types
    <3> QED
      BY <1>b, <2>2, <3>1
  <2>4. CASE s = t
    <3>1. status'[t] = st /\ frame'[t] = f
      BY <1>0, <2>2, <2>4 DEF Types
    <3>2. pc'[t] = IF f = <<>> THEN "recording" ELSE "lastWrite"
      BY <1>0, <2>2, <2>4, <3>1 DEF Types
    <3> QED
      BY <2>1, <2>2, <2>4, <3>1, <3>2, FlowNext
  <2> QED
    BY <2>3, <2>4
<1>9. ASSUME NEW s \in Streams, Record(s)
      PROVE  Flow(t)'
  <2>1. /\ pc[s] = "recording" /\ pc' = [pc EXCEPT ![s] = "ended"]
        /\ status' = [status EXCEPT ![s] = IF status[s] = "ok" /\ noUsageEstimate(s) /\ ~haveUsage(s)
                                           THEN "upstream_usage_missing" ELSE status[s]]
        /\ UNCHANGED <<surface, x, frame, cause, client, out>>
    BY <1>9 DEF Record
  <2>2. CASE s # t
    <3>1. pc'[t] = pc[t] /\ status'[t] = status[t]
      BY <1>0, <2>1, <2>2 DEF Types
    <3> QED
      BY <1>b, <2>1, <3>1
  <2>3. CASE s = t
    <3>1. /\ pc'[t] = "ended" /\ pc[t] = "recording"
          /\ status'[t] = IF status[t] = "ok" /\ surface[t] # "chat" /\ x[t].usage # BothHalves
                          THEN "upstream_usage_missing" ELSE status[t]
      BY <1>0, <2>1, <2>3 DEF Types, noUsageEstimate, haveUsage
    <3>2. /\ Outcome(surface[t], x[t], client[t], out[t], status[t])
          /\ ErrorsEnd(surface[t], x[t])
      BY <1>0, <3>1 DEF FlowAt
    <3>3. CASE status'[t] = status[t]
      <4>1. status[t] = "ok" /\ surface[t] # "chat" => x[t].usage = BothHalves
        BY <3>1, <3>3
      <4>2. FlowAt(surface[t], "ended", x[t], frame[t], cause[t], client[t], out[t], status[t])
        BY <3>2, <4>1 DEF FlowAt
      <4> QED
        BY <2>1, <3>1, <3>3, <4>2, FlowNext
    <3>4. CASE status[t] = "ok" /\ status'[t] = "upstream_usage_missing"
      <4>1. Outcome(surface[t], x[t], client[t], out[t], "upstream_usage_missing")
        BY <3>2, <3>4 DEF Outcome
      <4>2. FlowAt(surface[t], "ended", x[t], frame[t], cause[t], client[t], out[t],
                   "upstream_usage_missing")
        BY <3>2, <4>1 DEF FlowAt
      <4> QED
        BY <2>1, <3>1, <3>4, <4>2, FlowNext
    <3> QED
      BY <3>1, <3>3, <3>4
  <2> QED
    BY <2>2, <2>3
<1>10. ASSUME NEW s \in Streams, ClientLeaves(s)
       PROVE  Flow(t)'
  <2>1. /\ client' = [client EXCEPT ![s] = "gone"]
        /\ UNCHANGED <<surface, pc, x, frame, cause, out, status>>
    BY <1>10 DEF ClientLeaves
  <2>2. client'[t] = client[t] \/ client'[t] = "gone"
    BY <1>0, <2>1 DEF Types
  <2>3. FlowAt(surface[t], pc[t], x[t], frame[t], cause[t], client'[t], out[t], status[t])
    <3>1. CASE client'[t] = client[t]
      BY <1>0, <3>1
    <3>2. CASE client'[t] = "gone"
      <4>1. Outcome(surface[t], x[t], client[t], out[t], status[t])
              => Outcome(surface[t], x[t], client'[t], out[t], status[t])
        BY <3>2 DEF Outcome
      <4> QED
        BY <1>0, <4>1 DEF FlowAt
    <3> QED
      BY <2>2, <3>1, <3>2
  <2> QED
    BY <2>1, <2>3, FlowNext
<1>11. ASSUME NEW s \in Streams, DeadlinePasses(s)
       PROVE  Flow(t)'
  BY <1>11, <1>b DEF DeadlinePasses
<1>12. CASE UNCHANGED vars
  BY <1>12, <1>b DEF vars
<1>13. ASSUME NEW s \in Streams, NEW n \in Sizes, NEW b \in BOOLEAN, LineOverCap(s, n, b)
       PROVE  Flow(t)'
  BY <1>4, <1>13 DEF LineOverCap, LineArrives
<1>14. ASSUME NEW s \in Streams, ReadFails(s)
       PROVE  Flow(t)'
  <2>1. PICK c \in {"overCap", "broken"} : cause' = [cause EXCEPT ![s] = c]
    BY <1>14 DEF ReadFails
  <2> QED BY <1>4, <1>14, <2>1 DEF ReadFails
<1>15. ASSUME NEW s \in Streams, NEW p \in Payloads, BlankLine(s, p)
       PROVE  Flow(t)'
  <2>1. cause' = [cause EXCEPT ![s] = cause[s]]
    BY <1>0, <1>15 DEF BlankLine, Types
  <2> QED
    BY <1>5, <1>15, <2>1 DEF BlankLine, NoFrame
<1>16. ASSUME NEW s \in Streams, NEW p \in Payloads, EndOfFile(s, p)
       PROVE  Flow(t)'
  BY <1>5, <1>16 DEF EndOfFile, NoFrame
<1> QED
  BY <1>1, <1>2, <1>3, <1>6, <1>7, <1>8, <1>9, <1>10, <1>11, <1>12, <1>13, <1>14, <1>15,
     <1>16 DEF Next

-----------------------------------------------------------------------------
LEMMA InitIInv == Init => IInv
<1> SUFFICES ASSUME Init PROVE IInv
  OBVIOUS
<1>1. <<>> \in Seq(Marks) /\ ~HasError(<<>>) /\ \A sf : Open(<<>>, EndsOf(sf))
  BY FramesSent
<1>2. [done |-> FALSE, upstreamError |-> FALSE, dropped |-> FALSE, usage |-> {}] \in Extractor
  BY DEF Extractor
<1>3. surface \in [Streams -> {"chat", "completions", "responses", "messages"}]
  BY StreamAssumption DEF StreamAssumption, Init
<1>4. NoEvent \in [bytes: Nat, data: BOOLEAN, badField: BOOLEAN]
  BY DEF NoEvent
<1>5. Types
  BY <1>1, <1>2, <1>3, <1>4 DEF Init, Types, Places, Statuses, NoFrame
<1>6. ASSUME NEW s \in Streams
      PROVE  Flow(s)
  <2>1. /\ pc[s] = "reading" /\ ~x[s].done /\ ~x[s].upstreamError /\ out[s] = <<>>
        /\ cause[s] = "none"
    BY DEF Init
  <2> QED
    BY <1>1, <2>1 DEF Flow, FlowAt, ErrorsEnd
<1> QED
  BY <1>5, <1>6 DEF IInv

\* The inductive invariant holds of every state the relay can reach.
THEOREM Invariance == Spec => []IInv
<1>1. Init => IInv
  BY InitIInv
<1>2. IInv /\ [Next]_vars => IInv'
  BY TypesStep, FlowStep DEF IInv
<1> QED
  BY <1>1, <1>2, PTL DEF Spec

\* What an ended stream has sent, in the terms of the properties.
LEMMA SentFacts ==
    ASSUME IInv, NEW s \in Streams
    PROVE  /\ EndsSent(s) = EndsIn(out[s], EndsOf(surface[s]))
           /\ "error" \in Range(out[s]) => HasError(out[s])
           /\ Open(out[s], EndsOf(surface[s])) \/ Sealed(out[s], EndsOf(surface[s]))
<1>1. EndsSent(s) = EndsIn(out[s], EndsOf(surface[s]))
  BY DEF EndsSent, EndsIn, Ends, EndsOf
<1>2. out[s] \in Seq(Marks) /\ pc[s] \in Places
  BY DEF IInv, Types
<1>3. "error" \in Range(out[s]) => HasError(out[s])
  <2>1. DOMAIN out[s] = 1..Len(out[s])
    BY <1>2
  <2> QED
    BY <2>1 DEF Range, HasError
<1>4. Open(out[s], EndsOf(surface[s])) \/ Sealed(out[s], EndsOf(surface[s]))
  BY <1>2 DEF IInv, Flow, FlowAt, Outcome, Places
<1> QED
  BY <1>1, <1>3, <1>4

\* A stream relayStream records as a success has reached its client whole.
THEOREM Whole == Spec => []SuccessIsWhole
<1>1. IInv => SuccessIsWhole
  <2> SUFFICES ASSUME IInv, NEW s \in Streams, Ended(s), status[s] = "ok"
               PROVE  /\ EndsSent(s) = {Len(out[s])} /\ "error" \notin Range(out[s])
                      /\ ~x[s].dropped /\ (noUsageEstimate(s) => haveUsage(s))
    BY DEF SuccessIsWhole
  <2>1. FlowAt(surface[s], "ended", x[s], frame[s], cause[s], client[s], out[s], "ok")
    BY DEF IInv, Flow, Ended
  <2>2. /\ Sealed(out[s], EndsOf(surface[s])) /\ ~HasError(out[s]) /\ ~x[s].dropped
        /\ surface[s] # "chat" => x[s].usage = BothHalves
    BY <2>1 DEF FlowAt, Outcome
  <2> QED
    BY <2>2, SentFacts DEF Sealed, noUsageEstimate, haveUsage
<1> QED
  BY <1>1, Invariance, PTL

\* relayStream never sends a client a second end, and sends it one unless a
\* chunk was dropped before an error.
THEOREM EndsOnce == Spec => []ClosedOnce
<1>1. IInv => ClosedOnce
  <2> SUFFICES ASSUME IInv, NEW s \in Streams
               PROVE  /\ Cardinality(EndsSent(s)) <= 1
                      /\ EndsSent(s) # {} => EndsSent(s) = {Len(out[s])}
                      /\ Ended(s) /\ client[s] = "there" /\ status[s] # "client_disconnected"
                           => EndsSent(s) # {} \/ (x[s].dropped /\ x[s].upstreamError)
    BY DEF ClosedOnce
  <2>1. EndsSent(s) = {} \/ EndsSent(s) = {Len(out[s])}
    BY SentFacts DEF Open, Sealed
  <2>2. Cardinality(EndsSent(s)) <= 1
    <3>1. CASE EndsSent(s) = {}
      <4>1. Cardinality(EndsSent(s)) = 0
        BY <3>1, FS_EmptySet
      <4> QED
        BY <4>1
    <3>2. CASE EndsSent(s) = {Len(out[s])}
      <4>1. Cardinality(EndsSent(s)) = 1
        BY <3>2, FS_Singleton
      <4> QED
        BY <4>1
    <3> QED
      BY <2>1, <3>1, <3>2
  <2>3. ASSUME Ended(s), client[s] = "there", status[s] # "client_disconnected"
        PROVE  EndsSent(s) # {} \/ (x[s].dropped /\ x[s].upstreamError)
    <3>1. FlowAt(surface[s], "ended", x[s], frame[s], cause[s], client[s], out[s], status[s])
      BY <2>3 DEF IInv, Flow, Ended
    <3>2. Sealed(out[s], EndsOf(surface[s])) \/ (x[s].dropped /\ x[s].upstreamError)
      BY <2>3, <3>1 DEF FlowAt, Outcome
    <3> QED
      BY <3>2, SentFacts DEF Sealed
  <2> QED
    BY <2>1, <2>2, <2>3
<1> QED
  BY <1>1, Invariance, PTL

-----------------------------------------------------------------------------
\* The streams and handlers that hold a slot.
Holding == {s \in Streams : large[s]} \cup other

\* A stream that gives back its slot, or takes one, takes a step of the pool.
LEMMA GivesSlot ==
    ASSUME IInv, NEW s \in Streams, NEW b \in BOOLEAN, other' = other,
           large' = [large EXCEPT ![s] = large[s] /\ b], Released
    PROVE  LargePool!Give(s) \/ UNCHANGED <<Pool, Holding, used>>
<1>1. Types
  BY DEF IInv
<1>2. /\ large \in [Streams -> BOOLEAN] /\ large' \in [Streams -> BOOLEAN]
      /\ large'[s] = (large[s] /\ b)
      /\ \A t \in Streams \ {s} : large'[t] = large[t]
      /\ large[s] /\ ~b => used' = used - 1
      /\ ~(large[s] /\ ~b) => used' = used
  BY <1>1, ReleasedFacts DEF Types
<1>3. CASE large[s] /\ ~b
  <2>1. s \notin other
    BY <1>1, StreamAssumption DEF StreamAssumption, Types
  <2>2. s \in Holding /\ Holding' = Holding \ {s}
    BY <1>2, <1>3, <2>1 DEF Holding
  <2> QED
    BY <1>2, <1>3, <2>2 DEF LargePool!Give, Holding
<1>4. CASE ~(large[s] /\ ~b)
  <2>1. Holding' = Holding
    BY <1>2, <1>4 DEF Holding
  <2> QED
    BY <1>2, <1>4, <2>1
<1> QED
  BY <1>3, <1>4

LEMMA TakesSlot ==
    ASSUME IInv, NEW s \in Streams, NEW n \in Sizes, NEW d \in BOOLEAN, LineArrives(s, n, d)
    PROVE  LargePool!Take(s) \/ UNCHANGED <<Pool, Holding, used>>
<1>1. Types
  BY DEF IInv
<1>2. /\ large' = [large EXCEPT ![s] = large[s] \/ Takes(s, n, d)]
      /\ used' = IF Takes(s, n, d) THEN used + 1 ELSE used
      /\ other' = other
  BY DEF LineArrives
<1>3. CASE Takes(s, n, d)
  <2>1. ~large[s] /\ used < Pool
    BY <1>3 DEF Takes
  <2>2. s \notin other
    BY <1>1, StreamAssumption DEF StreamAssumption, Types
  <2>3. large'[s] /\ \A t \in Streams \ {s} : large'[t] = large[t]
    BY <1>1, <1>2, <1>3 DEF Types
  <2>4. s \notin Holding /\ Holding' = Holding \cup {s}
    BY <1>2, <2>1, <2>2, <2>3 DEF Holding
  <2> QED
    BY <1>2, <1>3, <2>1, <2>4 DEF LargePool!Take, Holding
<1>4. CASE ~Takes(s, n, d)
  <2>1. \A t \in Streams : large'[t] = large[t]
    BY <1>1, <1>2, <1>4 DEF Types
  <2> QED
    BY <1>2, <1>4, <2>1 DEF Holding
<1> QED
  BY <1>3, <1>4

\* The slots overCap and resetEventCap take and give back, together with those
\* of the other handlers, are a pool of Pool slots with one holder each.
THEOREM SlotsAreKept == Spec => SlotsImplemented
<1> DEFINE held == {s \in Streams : large[s]} \cup other
<1>1. Init => LargePool!Init
  <2> SUFFICES ASSUME Init PROVE Pool \in Nat /\ held = {} /\ used = 0
    BY DEF LargePool!Init
  <2> QED
    BY StreamAssumption DEF StreamAssumption, Init
<1>2. IInv /\ [Next]_vars => [LargePool!Next]_<<Pool, held, used>>
  <2> SUFFICES ASSUME IInv, [Next]_vars
               PROVE  LargePool!Next \/ UNCHANGED <<Pool, held, used>>
    OBVIOUS
  <2>0. Types /\ held = Holding
    BY DEF IInv, Holding
  <2>a. ASSUME NEW s \in Streams, NEW n \in Sizes, NEW b \in BOOLEAN, LineArrives(s, n, b)
        PROVE  LargePool!Next \/ UNCHANGED <<Pool, held, used>>
    BY <2>a, TakesSlot DEF LargePool!Next, Holding
  <2>b. ASSUME NEW s \in Streams, NEW b \in BOOLEAN, other' = other,
               large' = [large EXCEPT ![s] = large[s] /\ b], Released
        PROVE  LargePool!Next \/ UNCHANGED <<Pool, held, used>>
    BY <2>b, GivesSlot DEF LargePool!Next, Holding
  <2>1. ASSUME NEW o \in Others, OtherTakes(o)
        PROVE  LargePool!Next
    <3>1. o \notin Streams
      BY StreamAssumption DEF StreamAssumption
    <3>2. /\ o \notin other /\ used < Pool /\ other' = other \cup {o} /\ used' = used + 1
          /\ large' = large
      BY <2>1 DEF OtherTakes
    <3>3. LargePool!Take(o)
      BY <3>1, <3>2 DEF LargePool!Take
    <3> QED
      BY <3>3 DEF LargePool!Next
  <2>2. ASSUME NEW o \in Others, OtherGives(o)
        PROVE  LargePool!Next
    <3>1. o \notin Streams
      BY StreamAssumption DEF StreamAssumption
    <3>2. o \in other /\ other' = other \ {o} /\ used' = used - 1 /\ large' = large
      BY <2>2 DEF OtherGives
    <3>3. LargePool!Give(o)
      BY <3>1, <3>2 DEF LargePool!Give
    <3> QED
      BY <3>3 DEF LargePool!Next
  <2>3. ASSUME NEW s \in Streams, NEW n \in Sizes, NEW b \in BOOLEAN,
               \/ DataLine(s, n) \/ CommentLine(s, n)
               \/ FieldLine(s, n, b) \/ LineOverCap(s, n, b)
        PROVE  LargePool!Next \/ UNCHANGED <<Pool, held, used>>
    <3>1. LineArrives(s, n, TRUE) \/ LineArrives(s, n, FALSE) \/ LineArrives(s, n, b)
      BY <2>3 DEF DataLine, CommentLine, FieldLine, LineOverCap
    <3> QED
      BY <2>a, <3>1
  <2>4. ASSUME NEW s \in Streams, NEW p \in Payloads, BlankLine(s, p) \/ EndOfFile(s, p)
        PROVE  LargePool!Next \/ UNCHANGED <<Pool, held, used>>
    <3>1. flushEvent(s, p) /\ other' = other /\ pc[s] = "reading"
      BY <2>4 DEF BlankLine, EndOfFile
    <3>2. Released
      BY <3>1 DEF flushEvent
    <3>3. PICK y \in Extractor, f \in Seq(Marks) :
              /\ x' = [x EXCEPT ![s] = y] /\ frame' = [frame EXCEPT ![s] = f]
              /\ x'[s] = y /\ frame'[s] = f
              /\ large' = [large EXCEPT ![s] = large[s] /\ f # <<>>]
              /\ Sound(surface[s], x[s], [x |-> y, out |-> f])
      BY <3>1, FlushFacts
    <3>4. (f # <<>>) \in BOOLEAN
      OBVIOUS
    <3> QED
      BY <2>b, <3>1, <3>2, <3>3, <3>4
  <2>5. ASSUME NEW s \in Streams, Written(s) \/ WriteFails(s)
        PROVE  LargePool!Next \/ UNCHANGED <<Pool, held, used>>
    <3>1. /\ other' = other /\ Released
          /\ large' = [large EXCEPT ![s] = large[s] /\ pc[s] # "writing"]
      BY <2>5 DEF Written, WriteFails
    <3>2. (pc[s] # "writing") \in BOOLEAN
      OBVIOUS
    <3> QED
      BY <2>b, <3>1, <3>2
  <2>6. ASSUME NEW s \in Streams, Record(s)
        PROVE  LargePool!Next \/ UNCHANGED <<Pool, held, used>>
    <3>1. other' = other /\ Released /\ large' = [large EXCEPT ![s] = large[s] /\ FALSE]
      BY <2>6 DEF Record
    <3> QED
      BY <2>b, <3>1
  <2>7. ASSUME NEW s \in Streams,
               ReadFails(s) \/ Close(s) \/ ClientLeaves(s) \/ DeadlinePasses(s)
        PROVE  UNCHANGED <<Pool, held, used>>
    BY <2>7 DEF ReadFails, Close, ClientLeaves, DeadlinePasses
  <2>8. CASE UNCHANGED vars
    BY <2>8 DEF vars
  <2> QED
    BY <2>1, <2>2, <2>3, <2>4, <2>5, <2>6, <2>7, <2>8 DEF Next
<1> QED
  BY <1>1, <1>2, Invariance, PTL DEF Spec, SlotsImplemented, LargePool!Spec
=============================================================================
