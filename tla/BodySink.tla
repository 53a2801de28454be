------------------------------ MODULE BodySink ------------------------------
(***************************************************************************)
(* The body-capture queue (internal/bodies): handlers offer records and    *)
(* never wait, one loop drains the queue and posts batches, and what does  *)
(* not fit or is not accepted is dropped and counted.                      *)
(*                                                                         *)
(* Offer reads the byte counter, sends on the channel and raises the       *)
(* counter in three steps; the loop receives and lowers it in two.         *)
(***************************************************************************)
EXTENDS Integers, Sequences, FiniteSets, SequencesExt

CONSTANTS Records,       \* the records offered, one handler each
          Size,          \* Record.size: their bytes
          QueueSize,     \* the channel's capacity
          MaxBytes,      \* Sink.maxBytes
          Batch,         \* Sink.batch
          BatchCapBytes, \* the bytes after which a batch is posted
          MaxOffers      \* how many handlers are in Offer at once

ASSUME SinkAssumption ==
    /\ Records # {} /\ IsFiniteSet(Records)
    /\ Size \in [Records -> Nat \ {0}]
    /\ QueueSize \in Nat /\ MaxBytes \in Nat /\ Batch \in Nat \ {0}
    /\ BatchCapBytes \in Nat /\ MaxOffers \in Nat \ {0}

VARIABLES offer,        \* where each record's Offer is
          queue,        \* the channel
          queuedBytes,  \* the byte counter
          received,     \* received and not yet subtracted, at most one
          pending,      \* the batch being collected
          posting,      \* the loop is in post
          stopping,     \* the loop's context ended
          returned,     \* Run returned
          dropped,      \* the counter of dropped records
          delivered,    \* history: the records accepted by the control plane
          abandoned     \* history: the records of a batch that shutdown cut off

sinkVars == <<offer, queue, queuedBytes, received, pending, posting, stopping,
              returned, dropped, delivered, abandoned>>
loopVars == <<received, pending, posting, returned, delivered, abandoned>>

\* The bytes of a sequence of records.
Bytes(s) ==
    LET sum[n \in 0..Len(s)] == IF n = 0 THEN 0 ELSE sum[n - 1] + Size[s[n]]
    IN  sum[Len(s)]

SinkInit ==
    /\ offer = [r \in Records |-> "new"]
    /\ queue = <<>> /\ queuedBytes = 0
    /\ received = <<>> /\ pending = <<>> /\ posting = FALSE
    /\ stopping = FALSE /\ returned = FALSE
    /\ dropped = 0 /\ delivered = {} /\ abandoned = {}

InOffer == {r \in Records : offer[r] \in {"passed", "sent"}}

\* The counter is read ...
OfferCheck(r) ==
    /\ offer[r] = "new"
    /\ Cardinality(InOffer) < MaxOffers
    /\ IF queuedBytes + Size[r] > MaxBytes
       THEN offer' = [offer EXCEPT ![r] = "dropped"] /\ dropped' = dropped + 1
       ELSE offer' = [offer EXCEPT ![r] = "passed"] /\ UNCHANGED dropped
    /\ UNCHANGED <<queue, queuedBytes, stopping, loopVars>>

\* ... the record is sent, unless the channel is full ...
OfferSend(r) ==
    /\ offer[r] = "passed"
    /\ IF Len(queue) < QueueSize
       THEN /\ offer' = [offer EXCEPT ![r] = "sent"]
            /\ queue' = Append(queue, r)
            /\ UNCHANGED dropped
       ELSE /\ offer' = [offer EXCEPT ![r] = "dropped"]
            /\ dropped' = dropped + 1
            /\ UNCHANGED queue
    /\ UNCHANGED <<queuedBytes, stopping, loopVars>>

\* ... and the counter is raised.
OfferCount(r) ==
    /\ offer[r] = "sent"
    /\ offer' = [offer EXCEPT ![r] = "counted"]
    /\ queuedBytes' = queuedBytes + Size[r]
    /\ UNCHANGED <<queue, stopping, dropped, loopVars>>

Looping == received = <<>> /\ ~posting /\ ~returned

Receive ==
    /\ Looping /\ queue # <<>>
    /\ received' = <<Head(queue)>>
    /\ queue' = Tail(queue)
    /\ UNCHANGED <<offer, queuedBytes, pending, posting, stopping, returned,
                   dropped, delivered, abandoned>>

\* Mutant of Collect: the counter is not lowered.
CollectKeepsBytes ==
    /\ received # <<>>
    /\ pending' = pending \o received
    /\ received' = <<>>
    /\ posting' = (Len(pending') >= Batch \/ Bytes(pending') >= BatchCapBytes)
    /\ UNCHANGED <<offer, queue, queuedBytes, stopping, returned, dropped, delivered,
                   abandoned>>

\* The counter is lowered and the batch posted when it is full.
Collect ==
    /\ received # <<>>
    /\ queuedBytes' = queuedBytes - Bytes(received)
    /\ pending' = pending \o received
    /\ received' = <<>>
    /\ posting' = (Len(pending') >= Batch \/ Bytes(pending') >= BatchCapBytes)
    /\ UNCHANGED <<offer, queue, stopping, returned, dropped, delivered, abandoned>>

TickFlush ==
    /\ Looping /\ pending # <<>>
    /\ posting' = TRUE
    /\ UNCHANGED <<offer, queue, queuedBytes, received, pending, stopping, returned,
                   dropped, delivered, abandoned>>

\* post returns; a failed batch is dropped, and not counted once the context
\* ended.
Flushed ==
    /\ posting
    /\ \/ delivered' = delivered \cup Range(pending) /\ UNCHANGED <<dropped, abandoned>>
       \/ /\ ~stopping
          /\ dropped' = dropped + Len(pending)
          /\ UNCHANGED <<delivered, abandoned>>
       \/ /\ stopping
          /\ abandoned' = abandoned \cup Range(pending)
          /\ UNCHANGED <<dropped, delivered>>
    /\ pending' = <<>> /\ posting' = FALSE
    /\ UNCHANGED <<offer, queue, queuedBytes, received, stopping, returned>>

\* The process is told to stop; the loop may still take its other cases, and
\* handlers that are served to their end still offer.
SinkStops ==
    /\ ~stopping
    /\ stopping' = TRUE
    /\ UNCHANGED <<offer, queue, queuedBytes, dropped, loopVars>>

\* Run returns: its batch is given up, and nobody reads the channel any more.
RunReturns ==
    /\ stopping /\ Looping
    /\ returned' = TRUE
    /\ abandoned' = abandoned \cup Range(pending)
    /\ pending' = <<>>
    /\ UNCHANGED <<offer, queue, queuedBytes, received, posting, stopping, dropped,
                   delivered>>

SinkNext ==
    \/ \E r \in Records : OfferCheck(r) \/ OfferSend(r) \/ OfferCount(r)
    \/ Receive \/ Collect \/ TickFlush \/ Flushed \/ SinkStops \/ RunReturns

-----------------------------------------------------------------------------
Answered == {r \in Records : offer[r] \in {"sent", "counted", "dropped"}}

\* The records the loop still works on, and those its end leaves uncounted.
Held == Range(received) \cup Range(pending)
        \cup IF returned THEN {} ELSE Range(queue)
CutByShutdown == abandoned \cup IF returned THEN Range(queue) ELSE {}

\* No captured body vanishes without a trace and the queue keeps to its memory:
\* every record is held by the loop, delivered, counted as dropped or, once the
\* process was told to stop and never before, cut off by shutdown; the counter
\* is exact whenever nobody is between its steps; and handlers that pass the
\* check together exceed the bound by one record each at most.
BodiesAreAccountedFor ==
    /\ Cardinality(Answered \ (Held \cup delivered \cup CutByShutdown)) = dropped
    /\ ~stopping => CutByShutdown = {}
    /\ InOffer = {} /\ received = <<>> => queuedBytes = Bytes(queue)
    /\ \E r \in Records :
         /\ \A x \in Records : Size[x] <= Size[r]
         /\ Bytes(queue) <= MaxBytes + (MaxOffers - 1) * Size[r]
=============================================================================
