--------------------------- MODULE VendorCatalog ---------------------------
(***************************************************************************)
(* The copy of the vendor's model catalogue (server/catalog.go): a loop    *)
(* that wakes every retry period and reads when a read is due, a failure   *)
(* backoff that belongs to one upstream, and a document that may move      *)
(* passthrough to another upstream at any moment.  Time is counted in      *)
(* retry periods.                                                          *)
(***************************************************************************)
EXTENDS Integers

CONSTANTS Upstreams,   \* the upstreams a document may put passthrough on
          Configured,  \* those of Config.Upstreams
          Interval,    \* vendorCatalogInterval, in retry periods
          MaxMoves,    \* bound: how often the document moves passthrough
          MaxTime      \* bound: how long the loop is watched

NoRef == ""

ASSUME CatalogAssumption ==
    /\ NoRef \notin Upstreams /\ Configured \subseteq Upstreams
    /\ Interval \in Nat \ {0} /\ MaxMoves \in Nat /\ MaxTime \in Nat

retry == 1
vendorCatalogTimeout == 1   \* half a retry period, rounded up

VARIABLES clock,
          passthroughRef,   \* Document.PassthroughRef
          copy,             \* catalogState.current: its upstream and age
          backoff, notBefore, backoffRef,  \* catalogSchedule
          timer,            \* when the loop wakes next
          reading,          \* the upstream being read, or NoRef
          readStart,        \* when that read began
          moves,            \* how often the document moved
          failed,           \* history: the upstreams whose last read failed
          waited            \* history: how long a due read has not begun

catalogVars == <<clock, passthroughRef, copy, backoff, notBefore, backoffRef,
                 timer, reading, readStart, moves, failed, waited>>
schedule == <<backoff, notBefore, backoffRef>>

CatalogInit ==
    /\ clock = 0
    /\ passthroughRef \in Upstreams \cup {NoRef}
    /\ copy = [ref |-> NoRef, fetchedAt |-> 0]
    /\ backoff = 0 /\ notBefore = 0 /\ backoffRef = NoRef
    /\ timer = 0 /\ reading = NoRef /\ readStart = 0
    /\ moves = 0 /\ failed = {} /\ waited = 0

forRef(ref) == ref # NoRef /\ copy.ref = ref

vendorCatalogDue(ref) ==
    ref # NoRef /\ (forRef(ref) => clock - copy.fetchedAt >= Interval)

\* The document is replaced by one with another passthrough upstream, or none.
Move ==
    /\ moves < MaxMoves
    /\ moves' = moves + 1
    /\ passthroughRef' \in (Upstreams \cup {NoRef}) \ {passthroughRef}
    /\ waited' = 0
    /\ UNCHANGED <<clock, copy, schedule, timer, reading, readStart, failed>>

Awake == timer <= clock /\ reading = NoRef
ReadOver == reading # NoRef /\ clock - readStart >= vendorCatalogTimeout

CatalogTick ==
    /\ clock < MaxTime
    /\ ~Awake /\ ~ReadOver
    /\ clock' = clock + 1
    /\ waited' = IF vendorCatalogDue(passthroughRef) /\ reading # passthroughRef
                 THEN waited + 1 ELSE 0
    /\ UNCHANGED <<passthroughRef, copy, schedule, timer, reading, readStart,
                   moves, failed>>

\* Mutant of mayRead: the backoff is kept for the next upstream.
mayReadKeepsBackoff(ref) ==
    /\ backoffRef' = ref
    /\ UNCHANGED <<backoff, notBefore>>

\* mayRead: another upstream starts without the backoff of the last one.
mayRead(ref) ==
    /\ backoffRef' = ref
    /\ backoff' = IF ref # backoffRef THEN 0 ELSE backoff
    /\ notBefore' = IF ref # backoffRef THEN 0 ELSE notBefore

\* The loop wakes.  A due read of an upstream that is not configured is
\* skipped and earns no backoff.
Wake ==
    /\ Awake
    /\ timer' = clock + retry
    /\ mayRead(passthroughRef)
    /\ IF /\ clock >= notBefore' /\ vendorCatalogDue(passthroughRef)
          /\ passthroughRef \in Configured
       THEN reading' = passthroughRef /\ readStart' = clock /\ waited' = 0
       ELSE UNCHANGED <<reading, readStart, waited>>
    /\ UNCHANGED <<clock, passthroughRef, copy, moves, failed>>

ReadSucceeds ==
    /\ reading # NoRef
    /\ copy' = [ref |-> reading, fetchedAt |-> clock]
    /\ backoff' = 0 /\ notBefore' = 0
    /\ failed' = failed \ {reading}
    /\ reading' = NoRef
    /\ UNCHANGED <<clock, passthroughRef, backoffRef, timer, readStart, moves, waited>>

\* A read fails or times out: the copy stays, the wait doubles up to Interval.
ReadFails ==
    /\ reading # NoRef
    /\ LET wait == IF backoff = 0 THEN retry ELSE backoff
       IN  /\ notBefore' = readStart + wait
           /\ backoff' = IF wait * 2 < Interval THEN wait * 2 ELSE Interval
    /\ failed' = failed \cup {reading}
    /\ reading' = NoRef
    /\ UNCHANGED <<clock, passthroughRef, copy, backoffRef, timer, readStart,
                   moves, waited>>

CatalogNext == Move \/ CatalogTick \/ Wake \/ ReadSucceeds \/ ReadFails

-----------------------------------------------------------------------------
\* A due read of a configured upstream begins in time: at the next wake when
\* the upstream's own last read did not fail, whatever failed on the one before
\* it, and within the longest backoff otherwise.
DueReadBegins ==
    passthroughRef \in Configured =>
        waited <= IF passthroughRef \in failed THEN Interval ELSE retry
=============================================================================
