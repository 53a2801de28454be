---------------------------- MODULE CostLookups ----------------------------
(***************************************************************************)
(* The end of a request on a commercial model, and the end of the process. *)
(*                                                                         *)
(* An answer that ended without its price has the price read from the      *)
(* vendor's generation record after its handler returned                   *)
(* (generation_cost.go); only then is its usage event written.  A shutdown *)
(* (main.go) waits a bounded time for the handlers, then for the pending   *)
(* lookups, and closes the spool.  What interleaves: the handlers, the     *)
(* lookups and the main goroutine.                                         *)
(***************************************************************************)
EXTENDS Integers, FiniteSets

CONSTANTS Streams, Passthroughs,  \* the requests of either surface
          StreamSlots,            \* generationCostPending
          PassthroughSlots,       \* passthroughCostPending
          Reads                   \* how many reads a schedule has

Requests == Streams \cup Passthroughs

ASSUME CostLookupsAssumption ==
    /\ Streams \cap Passthroughs = {}
    /\ IsFiniteSet(Streams) /\ IsFiniteSet(Passthroughs)
    /\ StreamSlots \in Nat /\ PassthroughSlots \in Nat
    /\ Reads \in Nat \ {0}

Pools == {"stream", "passthrough"}
pool(r) == IF r \in Streams THEN "stream" ELSE "passthrough"
bound(p) == IF p = "stream" THEN StreamSlots ELSE PassthroughSlots

VARIABLES
    main,       \* where the main goroutine is
    grace,      \* shutdownCtx is done
    handler,    \* "new", "running" or "returned"
    lookup,     \* where the goroutine of withGenerationCost is
    reads,      \* reads of the generation record made so far
    priced,     \* requests whose event has a cost
    slots,      \* how many slots of each pool are taken
    wg,         \* generationCosts.wg
    draining,   \* generationCosts.draining
    canceled,   \* generationCosts.ctx is canceled
    open,       \* main has not closed the spool
    lines,      \* how often each event was written to the spool
    outlived    \* history: handlers still running when Shutdown returned

mainVars == <<main, grace, draining, canceled, open, outlived>>
vars == <<mainVars, handler, lookup, reads, priced, slots, wg, lines>>

MainStates == {"serving", "shutdown", "drain", "wait", "canceled", "close",
               "exit", "stopped", "failed"}
LookupStates == {"none", "looking", "ending", "recorded", "freed", "done"}

TypeOK ==
    /\ main \in MainStates
    /\ grace \in BOOLEAN /\ draining \in BOOLEAN /\ canceled \in BOOLEAN
    /\ open \in BOOLEAN
    /\ handler \in [Requests -> {"new", "running", "returned"}]
    /\ lookup \in [Requests -> LookupStates]
    /\ reads \in [Requests -> 0..Reads]
    /\ priced \in SUBSET Requests
    /\ slots \in [Pools -> Int]
    /\ wg \in Int
    /\ lines \in [Requests -> Nat]
    /\ outlived \in SUBSET Requests

Init ==
    /\ main = "serving"
    /\ grace = FALSE /\ draining = FALSE /\ canceled = FALSE /\ open = TRUE
    /\ handler = [r \in Requests |-> "new"]
    /\ lookup = [r \in Requests |-> "none"]
    /\ reads = [r \in Requests |-> 0]
    /\ priced = {}
    /\ slots = [p \in Pools |-> 0]
    /\ wg = 0
    /\ lines = [r \in Requests |-> 0]
    /\ outlived = {}

Alive == main \notin {"stopped", "failed"}

\* record: the event goes to the spool.  A Writer that was closed opens its day
\* file again, so what loses an event is the end of the process.
record(r) == lines' = [lines EXCEPT ![r] = @ + 1]

-----------------------------------------------------------------------------
(***************************************************************************)
(* The handlers.                                                           *)
(***************************************************************************)
Arrive(r) ==
    /\ main = "serving"
    /\ handler[r] = "new"
    /\ handler' = [handler EXCEPT ![r] = "running"]
    /\ UNCHANGED <<mainVars, lookup, reads, priced, slots, wg, lines>>

Returns(r) ==
    /\ Alive
    /\ handler[r] = "running"
    /\ handler' = [handler EXCEPT ![r] = "returned"]

\* The answer named its price, or there is nothing to look it up with.
EndRecorded(r) ==
    /\ Returns(r)
    /\ record(r)
    /\ \/ priced' = priced \cup {r}
       \/ UNCHANGED priced
    /\ UNCHANGED <<mainVars, lookup, reads, slots, wg>>

\* Mutant of CanAdmit: a drain in progress does not matter.
CanAdmitWhileDraining(r) == slots[pool(r)] < bound(pool(r))

CanAdmit(r) == ~draining /\ slots[pool(r)] < bound(pool(r))

\* Mutant of EndSkipped: the event is left to the lookup that was refused.
EndSkippedUnrecorded(r) ==
    /\ Returns(r)
    /\ ~CanAdmit(r)
    /\ UNCHANGED <<mainVars, lookup, reads, priced, slots, wg, lines>>

\* admit refuses the lookup: the event is written at once, without a cost.
EndSkipped(r) ==
    /\ Returns(r)
    /\ ~CanAdmit(r)
    /\ record(r)
    /\ UNCHANGED <<mainVars, lookup, reads, priced, slots, wg>>

\* admit takes a slot and registers the lookup, which outlives the handler.
EndLookedUp(r) ==
    /\ Returns(r)
    /\ CanAdmit(r)
    /\ slots' = [slots EXCEPT ![pool(r)] = @ + 1]
    /\ wg' = wg + 1
    /\ lookup' = [lookup EXCEPT ![r] = "looking"]
    /\ UNCHANGED <<mainVars, reads, priced, lines>>

-----------------------------------------------------------------------------
(***************************************************************************)
(* The lookups.                                                            *)
(***************************************************************************)

\* One read of the record: a cost, nothing that a later read could change, or
\* a record not there yet, which ends the lookup at the last read.
readGenerationCost(r) ==
    /\ Alive
    /\ lookup[r] = "looking"
    /\ reads[r] < Reads
    /\ reads' = [reads EXCEPT ![r] = @ + 1]
    /\ \/ lookup' = [lookup EXCEPT ![r] = "ending"] /\ priced' = priced \cup {r}
       \/ lookup' = [lookup EXCEPT ![r] = "ending"] /\ UNCHANGED priced
       \/ /\ lookup' = [lookup EXCEPT ![r] = IF reads'[r] = Reads THEN "ending" ELSE @]
          /\ UNCHANGED priced
    /\ UNCHANGED <<mainVars, handler, slots, wg, lines>>

\* The schedule's deadline passes, or the drain canceled the lookups.
GiveUp(r) ==
    /\ Alive
    /\ lookup[r] = "looking"
    /\ lookup' = [lookup EXCEPT ![r] = "ending"]
    /\ UNCHANGED <<mainVars, handler, reads, priced, slots, wg, lines>>

\* The event is written; then, in the order of the deferred calls, the slot is
\* given back and the wait group told.
LookupRecords(r) ==
    /\ Alive
    /\ lookup[r] = "ending"
    /\ record(r)
    /\ lookup' = [lookup EXCEPT ![r] = "recorded"]
    /\ UNCHANGED <<mainVars, handler, reads, priced, slots, wg>>

\* Mutant of LookupFreesSlot: the slot goes back to the streams' pool.
LookupFreesStreamSlot(r) ==
    /\ Alive
    /\ lookup[r] = "recorded"
    /\ slots' = [slots EXCEPT !["stream"] = @ - 1]
    /\ lookup' = [lookup EXCEPT ![r] = "freed"]
    /\ UNCHANGED <<mainVars, handler, reads, priced, wg, lines>>

LookupFreesSlot(r) ==
    /\ Alive
    /\ lookup[r] = "recorded"
    /\ slots' = [slots EXCEPT ![pool(r)] = @ - 1]
    /\ lookup' = [lookup EXCEPT ![r] = "freed"]
    /\ UNCHANGED <<mainVars, handler, reads, priced, wg, lines>>

LookupDone(r) ==
    /\ Alive
    /\ lookup[r] = "freed"
    /\ wg' = wg - 1
    /\ lookup' = [lookup EXCEPT ![r] = "done"]
    /\ UNCHANGED <<mainVars, handler, reads, priced, slots, lines>>

-----------------------------------------------------------------------------
(***************************************************************************)
(* The main goroutine.                                                     *)
(***************************************************************************)
requestVars == <<handler, lookup, reads, priced, slots, wg, lines>>

Running == {r \in Requests : handler[r] = "running"}

\* The termination signal: the listeners close and the grace starts.
Signal ==
    /\ main = "serving"
    /\ main' = "shutdown"
    /\ UNCHANGED <<grace, draining, canceled, open, outlived, requestVars>>

\* The listener failed: the process exits at once.
ListenerFails ==
    /\ main = "serving"
    /\ main' = "failed"
    /\ UNCHANGED <<grace, draining, canceled, open, outlived, requestVars>>

GraceEnds ==
    /\ main \notin {"serving", "stopped", "failed"}
    /\ ~grace
    /\ grace' = TRUE
    /\ UNCHANGED <<main, draining, canceled, open, outlived, requestVars>>

\* Shutdown returns once no handler runs or the grace is over; it leaves the
\* handlers that still run alone.
ShutdownReturns ==
    /\ main = "shutdown"
    /\ Running = {} \/ grace
    /\ main' = "drain"
    /\ outlived' = Running
    /\ UNCHANGED <<grace, draining, canceled, open, requestVars>>

\* DrainCostLookups: from here no lookup is admitted ...
DrainStart ==
    /\ main = "drain"
    /\ draining' = TRUE
    /\ main' = "wait"
    /\ UNCHANGED <<grace, canceled, open, outlived, requestVars>>

\* Mutant of DrainCancels: the lookups are not told.
DrainCancelsNothing ==
    /\ main = "wait"
    /\ grace
    /\ main' = "canceled"
    /\ UNCHANGED <<grace, draining, canceled, open, outlived, requestVars>>

\* ... the pending ones are canceled when the grace is over ...
DrainCancels ==
    /\ main = "wait"
    /\ grace
    /\ canceled' = TRUE
    /\ main' = "canceled"
    /\ UNCHANGED <<grace, draining, open, outlived, requestVars>>

\* Mutant of DrainReturns: after canceling, nothing is waited for.
DrainReturnsAtOnce ==
    /\ main \in {"wait", "canceled"}
    /\ main = "wait" => wg = 0
    /\ main' = "close"
    /\ UNCHANGED <<grace, draining, canceled, open, outlived, requestVars>>

\* ... and it returns once the wait group is done.
DrainReturns ==
    /\ main \in {"wait", "canceled"}
    /\ wg = 0
    /\ main' = "close"
    /\ UNCHANGED <<grace, draining, canceled, open, outlived, requestVars>>

CloseSpool ==
    /\ main = "close"
    /\ open' = FALSE
    /\ main' = "exit"
    /\ UNCHANGED <<grace, draining, canceled, outlived, requestVars>>

Exit ==
    /\ main = "exit"
    /\ main' = "stopped"
    /\ UNCHANGED <<grace, draining, canceled, open, outlived, requestVars>>

-----------------------------------------------------------------------------
MainStep ==
    ShutdownReturns \/ DrainStart \/ DrainCancels \/ DrainReturns
        \/ CloseSpool \/ Exit

LookupEnds(r) ==
    LookupRecords(r) \/ LookupFreesSlot(r) \/ LookupDone(r)

Next ==
    \/ \E r \in Requests :
         \/ Arrive(r) \/ EndRecorded(r) \/ EndSkipped(r) \/ EndLookedUp(r)
         \/ readGenerationCost(r) \/ GiveUp(r) \/ LookupEnds(r)
    \/ Signal \/ ListenerFails \/ GraceEnds \/ MainStep

Spec == Init /\ [][Next]_vars

\* The grace is a timer, goroutines run, and a canceled lookup gives up.  No
\* handler is assumed to return.
FairSpec ==
    /\ Spec
    /\ WF_vars(GraceEnds) /\ WF_vars(MainStep)
    /\ \A r \in Requests :
         WF_vars(LookupEnds(r)) /\ WF_vars(canceled /\ GiveUp(r))

-----------------------------------------------------------------------------
(***************************************************************************)
(* Properties.                                                             *)
(***************************************************************************)

\* The lookups that hold a slot of a pool, and those the wait group counts.
Holding(p) == {r \in Requests : pool(r) = p
                                /\ lookup[r] \in {"looking", "ending", "recorded"}}
Pending == {r \in Requests : lookup[r] \notin {"none", "done"}}

\* The counters of the lookups are exact: a slot is held from admission until
\* after the event is written, the wait group a step longer, neither pool goes
\* over its bound and neither surface takes room from the other.
CountersAreExact ==
    /\ \A p \in Pools : slots[p] = Cardinality(Holding(p)) /\ slots[p] <= bound(p)
    /\ wg = Cardinality(Pending)

\* The spool closes behind the last pending lookup: an admitted lookup has its
\* event in the spool before that, found or not, whatever the drain cut short.
LookupsLandBeforeClose ==
    ~open => \A r \in Requests : lookup[r] # "none" => lines[r] = 1

\* When an orderly shutdown is over, every request that was taken has exactly
\* one event, except for handlers that were still running after the grace.
OnlyOutlivingHandlersLose ==
    main = "stopped" => \A r \in Requests :
        handler[r] # "new" => lines[r] = 1 \/ (lines[r] = 0 /\ r \in outlived)

\* "A WaitGroup must not gain work while something waits on it": no lookup is
\* admitted once the drain began, also by a handler that returns during it.
NoWorkWhileWaiting == [][draining => wg' <= wg]_vars

\* A shutdown ends, even if no handler ever returns and no record is published.
ShutdownEnds == main = "shutdown" ~> main = "stopped"
=============================================================================
