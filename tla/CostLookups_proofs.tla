------------------------- MODULE CostLookups_proofs -------------------------
(***************************************************************************)
(* Proofs about CostLookups, for any number of requests on either surface, *)
(* any pool sizes and any schedule length.                                 *)
(*                                                                         *)
(* The main goroutine closes the spool when a counter reads zero.  That no *)
(* event is lost by then needs the counter to be the number of pending     *)
(* lookups (CountersAreExact), the phases of the shutdown to exclude new   *)
(* lookups (Phases), and a ledger of what each request has had written     *)
(* (Ledger).                                                               *)
(***************************************************************************)
EXTENDS CostLookups, FiniteSetTheorems, TLAPS

\* What has been written for a request, from where its handler and its lookup
\* are.
LedgerOf(r) ==
    /\ lookup[r] # "none" => handler[r] = "returned"
    /\ handler[r] # "returned" => lines[r] = 0
    /\ lookup[r] \in {"looking", "ending"} => lines[r] = 0
    /\ lookup[r] \in {"recorded", "freed", "done"} => lines[r] = 1
    /\ handler[r] = "returned" /\ lookup[r] = "none"
         => lines[r] = 1 \/ (lines[r] = 0 /\ r \in outlived)

Ledger == \A r \in Requests : LedgerOf(r)

\* What each phase of the shutdown has behind it.
Drained == {"close", "exit", "stopped"}
Draining == {"wait", "canceled"} \cup Drained

Phases ==
    /\ main \in Draining => draining
    /\ draining => main \in Draining
    /\ main \in {"exit", "stopped"} => ~open
    /\ ~open => main \in {"exit", "stopped"}
    /\ main \in Drained => \A r \in Requests : lookup[r] \in {"none", "done"}
    /\ main \in {"serving", "shutdown"} => outlived = {}
    /\ main \in Draining \cup {"drain"}
         => \A r \in Requests : handler[r] = "running" => r \in outlived

-----------------------------------------------------------------------------
\* Sets of requests are finite, so that they can be counted.
LEMMA FiniteRequests ==
    ASSUME NEW S \in SUBSET Requests
    PROVE  IsFiniteSet(S) /\ Cardinality(S) \in Nat
<1>1. IsFiniteSet(Requests)
  BY CostLookupsAssumption, FS_Union DEF CostLookupsAssumption, Requests
<1> QED
  BY <1>1, FS_Subset, FS_CardinalityType

\* Every step keeps every variable in its type.
LEMMA TypeStep == TypeOK /\ [Next]_vars => TypeOK'
<1> USE CostLookupsAssumption DEF CostLookupsAssumption, TypeOK, MainStates, LookupStates
<1> SUFFICES ASSUME TypeOK, [Next]_vars
             PROVE  TypeOK'
  OBVIOUS
<1>1. ASSUME NEW r \in Requests, Arrive(r)
      PROVE  TypeOK'
  BY <1>1 DEF Arrive, mainVars
<1>2. ASSUME NEW r \in Requests, EndRecorded(r)
      PROVE  TypeOK'
  BY <1>2 DEF EndRecorded, Returns, record, mainVars
<1>3. ASSUME NEW r \in Requests, EndSkipped(r)
      PROVE  TypeOK'
  BY <1>3 DEF EndSkipped, Returns, record, mainVars
<1>4. ASSUME NEW r \in Requests, EndLookedUp(r)
      PROVE  TypeOK'
  BY <1>4 DEF EndLookedUp, Returns, mainVars, pool, Pools
<1>5. ASSUME NEW r \in Requests, readGenerationCost(r)
      PROVE  TypeOK'
  BY <1>5 DEF readGenerationCost, mainVars
<1>6. ASSUME NEW r \in Requests, GiveUp(r)
      PROVE  TypeOK'
  BY <1>6 DEF GiveUp, mainVars
<1>7. ASSUME NEW r \in Requests, LookupRecords(r)
      PROVE  TypeOK'
  BY <1>7 DEF LookupRecords, record, mainVars
<1>8. ASSUME NEW r \in Requests, LookupFreesSlot(r)
      PROVE  TypeOK'
  BY <1>8 DEF LookupFreesSlot, mainVars, pool, Pools
<1>9. ASSUME NEW r \in Requests, LookupDone(r)
      PROVE  TypeOK'
  BY <1>9 DEF LookupDone, mainVars
<1>10. CASE Signal \/ ListenerFails \/ GraceEnds
  BY <1>10 DEF Signal, ListenerFails, GraceEnds, requestVars
<1>11. CASE ShutdownReturns
  BY <1>11 DEF ShutdownReturns, Running, requestVars
<1>12. CASE DrainStart \/ DrainCancels \/ DrainReturns \/ CloseSpool \/ Exit
  BY <1>12 DEF DrainStart, DrainCancels, DrainReturns, CloseSpool, Exit, requestVars
<1>13. CASE UNCHANGED vars
  BY <1>13 DEF vars, mainVars
<1> QED
  BY <1>1, <1>2, <1>3, <1>4, <1>5, <1>6, <1>7, <1>8, <1>9, <1>10, <1>11,
     <1>12, <1>13 DEF Next, LookupEnds, MainStep

\* The state stays well formed.
THEOREM TypeCorrect == Spec => []TypeOK
<1>1. Init => TypeOK
  <2> SUFFICES ASSUME Init PROVE TypeOK
    OBVIOUS
  <2>1. reads \in [Requests -> 0..Reads]
    BY CostLookupsAssumption DEF CostLookupsAssumption, Init
  <2>2. handler \in [Requests -> {"new", "running", "returned"}]
    BY DEF Init
  <2>3. lookup \in [Requests -> LookupStates]
    BY DEF Init, LookupStates
  <2>4. slots \in [Pools -> Int] /\ wg \in Int /\ lines \in [Requests -> Nat]
    BY DEF Init
  <2> QED
    BY <2>1, <2>2, <2>3, <2>4, Zenon DEF Init, TypeOK, MainStates
<1> QED
  BY <1>1, TypeStep, PTL DEF Spec

-----------------------------------------------------------------------------
\* The counters stay exact: one lookup enters or leaves a set at a time.
LEMMA CountersStep ==
    TypeOK /\ Ledger /\ CountersAreExact /\ [Next]_vars => CountersAreExact'
<1> SUFFICES ASSUME TypeOK, Ledger, CountersAreExact, [Next]_vars
             PROVE  CountersAreExact'
  OBVIOUS
<1>1. ASSUME lookup' = lookup, slots' = slots, wg' = wg
      PROVE  CountersAreExact'
  BY <1>1 DEF CountersAreExact, Holding, Pending
<1>2. ASSUME NEW r \in Requests,
             lookup[r] \in {"looking", "ending"},
             lookup' \in {lookup, [lookup EXCEPT ![r] = "ending"],
                          [lookup EXCEPT ![r] = "recorded"]},
             slots' = slots, wg' = wg
      PROVE  CountersAreExact'
  <2>1. Pending' = Pending /\ \A p \in Pools : Holding(p)' = Holding(p)
    BY <1>2 DEF Pending, Holding, TypeOK
  <2> QED
    BY <1>2, <2>1 DEF CountersAreExact
<1>3. ASSUME NEW r \in Requests, EndLookedUp(r)
      PROVE  CountersAreExact'
  <2>0. lookup[r] = "none"
    BY <1>3 DEF EndLookedUp, Returns, Ledger, LedgerOf
  <2>1. Pending' = Pending \cup {r} /\ r \notin Pending
    BY <1>3, <2>0 DEF EndLookedUp, Pending, TypeOK
  <2>2. \A p \in Pools : Holding(p)' = IF p = pool(r) THEN Holding(p) \cup {r}
                                                     ELSE Holding(p)
    BY <1>3, <2>0 DEF EndLookedUp, Holding, TypeOK
  <2>3. r \notin Holding(pool(r)) /\ pool(r) \in Pools
    BY <2>0 DEF Holding, pool, Pools
  <2>4. /\ slots' = [slots EXCEPT ![pool(r)] = @ + 1]
        /\ slots[pool(r)] < bound(pool(r)) /\ wg' = wg + 1
    BY <1>3 DEF EndLookedUp, CanAdmit
  <2>5. Cardinality(Pending') = Cardinality(Pending) + 1
    BY <2>1, FiniteRequests, FS_AddElement DEF Pending
  <2>6. Cardinality(Holding(pool(r)) \cup {r}) = Cardinality(Holding(pool(r))) + 1
    BY <2>3, FiniteRequests, FS_AddElement DEF Holding
  <2>7. \A p \in Pools : bound(p) \in Nat
    BY CostLookupsAssumption DEF CostLookupsAssumption, bound
  <2> QED
    BY <2>2, <2>3, <2>4, <2>5, <2>6, <2>7 DEF CountersAreExact, TypeOK
<1>4. ASSUME NEW r \in Requests, LookupFreesSlot(r)
      PROVE  CountersAreExact'
  <2>1. Pending' = Pending
    BY <1>4 DEF LookupFreesSlot, Pending, TypeOK
  <2>2. \A p \in Pools : Holding(p)' = IF p = pool(r) THEN Holding(p) \ {r}
                                                     ELSE Holding(p)
    BY <1>4 DEF LookupFreesSlot, Holding, TypeOK
  <2>3. r \in Holding(pool(r)) /\ pool(r) \in Pools
    BY <1>4 DEF LookupFreesSlot, Holding, pool, Pools
  <2>4. slots' = [slots EXCEPT ![pool(r)] = @ - 1] /\ wg' = wg
    BY <1>4 DEF LookupFreesSlot
  <2>5. Cardinality(Holding(pool(r)) \ {r}) = Cardinality(Holding(pool(r))) - 1
    BY <2>3, FiniteRequests, FS_RemoveElement DEF Holding
  <2>6. \A p \in Pools : bound(p) \in Nat
    BY CostLookupsAssumption DEF CostLookupsAssumption, bound
  <2>7. ASSUME NEW p \in Pools
        PROVE  slots'[p] = Cardinality(Holding(p)') /\ slots'[p] <= bound(p)
    <3>1. slots[p] = Cardinality(Holding(p)) /\ slots[p] <= bound(p) /\ slots[p] \in Int
      BY DEF CountersAreExact, TypeOK
    <3>2. CASE p = pool(r)
      BY <2>2, <2>4, <2>5, <2>6, <3>1, <3>2 DEF TypeOK
    <3>3. CASE p # pool(r)
      BY <2>2, <2>4, <3>1, <3>3 DEF TypeOK
    <3> QED
      BY <3>2, <3>3
  <2> QED
    BY <2>1, <2>4, <2>7 DEF CountersAreExact
<1>5. ASSUME NEW r \in Requests, LookupDone(r)
      PROVE  CountersAreExact'
  <2>1. Pending' = Pending \ {r} /\ r \in Pending
    BY <1>5 DEF LookupDone, Pending, TypeOK
  <2>2. \A p \in Pools : Holding(p)' = Holding(p)
    BY <1>5 DEF LookupDone, Holding, TypeOK
  <2>3. Cardinality(Pending') = Cardinality(Pending) - 1
    BY <2>1, FiniteRequests, FS_RemoveElement DEF Pending
  <2>4. slots' = slots /\ wg' = wg - 1
    BY <1>5 DEF LookupDone
  <2> QED
    BY <2>2, <2>3, <2>4 DEF CountersAreExact
<1>6. ASSUME NEW r \in Requests,
             Arrive(r) \/ EndRecorded(r) \/ EndSkipped(r)
      PROVE  CountersAreExact'
  BY <1>1, <1>6 DEF Arrive, EndRecorded, EndSkipped
<1>7. ASSUME NEW r \in Requests, readGenerationCost(r)
      PROVE  CountersAreExact'
  <2>1. /\ lookup[r] = "looking" /\ slots' = slots /\ wg' = wg
        /\ lookup' \in {lookup, [lookup EXCEPT ![r] = "ending"]}
    BY <1>7 DEF readGenerationCost, TypeOK
  <2> QED
    BY <1>2, <2>1
<1>8. ASSUME NEW r \in Requests, GiveUp(r) \/ LookupRecords(r)
      PROVE  CountersAreExact'
  BY <1>2, <1>8 DEF GiveUp, LookupRecords
<1>9. CASE Signal \/ ListenerFails \/ GraceEnds \/ MainStep
  BY <1>1, <1>9 DEF Signal, ListenerFails, GraceEnds, MainStep, ShutdownReturns,
     DrainStart, DrainCancels, DrainReturns, CloseSpool, Exit, requestVars
<1>10. CASE UNCHANGED vars
  BY <1>1, <1>10 DEF vars
<1> QED
  BY <1>3, <1>4, <1>5, <1>6, <1>7, <1>8, <1>9, <1>10 DEF Next, LookupEnds

-----------------------------------------------------------------------------
\* A pending lookup keeps the wait group above zero.
LEMMA WaitGroupZero ==
    ASSUME CountersAreExact, wg = 0
    PROVE  \A r \in Requests : lookup[r] \in {"none", "done"}
<1>1. Pending = {}
  BY FiniteRequests, FS_EmptySet DEF CountersAreExact, Pending
<1> QED
  BY <1>1 DEF Pending

\* The phases of the shutdown keep what they promise.
LEMMA PhasesStep ==
    TypeOK /\ Ledger /\ Phases /\ CountersAreExact /\ [Next]_vars => Phases'
<1> SUFFICES ASSUME TypeOK, Ledger, Phases, CountersAreExact, [Next]_vars
             PROVE  Phases'
  OBVIOUS
<1> USE DEF Phases, Draining, Drained
<1>1. ASSUME NEW r \in Requests, Arrive(r)
      PROVE  Phases'
  BY <1>1 DEF Arrive, mainVars, TypeOK
<1>2. ASSUME NEW r \in Requests, EndRecorded(r) \/ EndSkipped(r)
      PROVE  Phases'
  BY <1>2 DEF EndRecorded, EndSkipped, Returns, mainVars, TypeOK
<1>3. ASSUME NEW r \in Requests, EndLookedUp(r)
      PROVE  Phases'
  BY <1>3 DEF EndLookedUp, Returns, CanAdmit, mainVars, TypeOK
<1>4. ASSUME NEW r \in Requests, lookup[r] \notin {"none", "done"},
             UNCHANGED <<mainVars, handler>>,
             \A q \in Requests : q = r \/ lookup'[q] = lookup[q]
      PROVE  Phases'
  BY <1>4 DEF mainVars
<1>5. ASSUME NEW r \in Requests, readGenerationCost(r) \/ GiveUp(r)
      PROVE  Phases'
  BY <1>4, <1>5 DEF readGenerationCost, GiveUp, TypeOK
<1>6. ASSUME NEW r \in Requests, LookupEnds(r)
      PROVE  Phases'
  BY <1>4, <1>6 DEF LookupEnds, LookupRecords, LookupFreesSlot, LookupDone, TypeOK
<1>7. CASE Signal \/ ListenerFails \/ GraceEnds
  BY <1>7 DEF Signal, ListenerFails, GraceEnds, requestVars
<1>8. CASE ShutdownReturns
  BY <1>8 DEF ShutdownReturns, Running, requestVars
<1>9. CASE DrainStart \/ DrainCancels \/ CloseSpool \/ Exit
  BY <1>9 DEF DrainStart, DrainCancels, CloseSpool, Exit, requestVars
<1>10. CASE DrainReturns
  BY <1>10, WaitGroupZero DEF DrainReturns, requestVars
<1>11. CASE UNCHANGED vars
  BY <1>11 DEF vars, mainVars
<1> QED
  BY <1>1, <1>2, <1>3, <1>5, <1>6, <1>7, <1>8, <1>9, <1>10, <1>11
     DEF Next, MainStep

\* The ledger of each request is kept.
LEMMA LedgerStep == TypeOK /\ Ledger /\ Phases /\ [Next]_vars => Ledger'
<1> SUFFICES ASSUME TypeOK, Ledger, Phases, [Next]_vars, NEW q \in Requests
             PROVE  LedgerOf(q)'
  BY DEF Ledger
<1>0. LedgerOf(q)
  BY DEF Ledger
<1> USE <1>0 DEF LedgerOf
<1>1. ASSUME NEW r \in Requests, Arrive(r)
      PROVE  LedgerOf(q)'
  BY <1>1 DEF Arrive, mainVars, TypeOK
<1>2. ASSUME NEW r \in Requests, EndRecorded(r) \/ EndSkipped(r)
      PROVE  LedgerOf(q)'
  <2>1. ~open => r \in outlived
    BY <1>2 DEF EndRecorded, EndSkipped, Returns, Phases, Draining, Drained
  <2>2. LedgerOf(r)
    BY DEF Ledger
  <2> QED
    BY <1>2, <2>1, <2>2 DEF EndRecorded, EndSkipped, Returns, record, mainVars, TypeOK
<1>3. ASSUME NEW r \in Requests, EndLookedUp(r)
      PROVE  LedgerOf(q)'
  BY <1>3 DEF EndLookedUp, Returns, mainVars, TypeOK
<1>4. ASSUME NEW r \in Requests, readGenerationCost(r) \/ GiveUp(r)
      PROVE  LedgerOf(q)'
  BY <1>4 DEF readGenerationCost, GiveUp, mainVars, TypeOK
<1>5. ASSUME NEW r \in Requests, LookupRecords(r)
      PROVE  LedgerOf(q)'
  <2>1. open
    BY <1>5 DEF LookupRecords, Phases, Draining, Drained
  <2> QED
    BY <1>5, <2>1 DEF LookupRecords, record, mainVars, TypeOK
<1>6. ASSUME NEW r \in Requests, LookupFreesSlot(r) \/ LookupDone(r)
      PROVE  LedgerOf(q)'
  BY <1>6 DEF LookupFreesSlot, LookupDone, mainVars, TypeOK
<1>7. CASE ShutdownReturns
  BY <1>7 DEF ShutdownReturns, Phases, requestVars
<1>8. CASE Signal \/ ListenerFails \/ GraceEnds \/ DrainStart \/ DrainCancels
             \/ DrainReturns \/ CloseSpool \/ Exit
  BY <1>8 DEF Signal, ListenerFails, GraceEnds, DrainStart, DrainCancels,
     DrainReturns, CloseSpool, Exit, requestVars
<1>9. CASE UNCHANGED vars
  BY <1>9 DEF vars, mainVars
<1> QED
  BY <1>1, <1>2, <1>3, <1>4, <1>5, <1>6, <1>7, <1>8, <1>9
     DEF Next, LookupEnds, MainStep

\* The counters, the phases and the ledger hold in every reachable state.
LEMMA Inductive == Spec => [](TypeOK /\ Ledger /\ Phases /\ CountersAreExact)
<1>1. Init => Ledger /\ Phases
  BY DEF Init, Ledger, LedgerOf, Phases, Draining, Drained
<1>2. Init => CountersAreExact
  <2> SUFFICES ASSUME Init PROVE CountersAreExact
    OBVIOUS
  <2>1. Pending = {} /\ \A p \in Pools : Holding(p) = {}
    BY DEF Init, Pending, Holding
  <2>2. \A p \in Pools : slots[p] = 0 /\ slots[p] <= bound(p)
    BY CostLookupsAssumption DEF CostLookupsAssumption, Init, bound
  <2> QED
    BY <2>1, <2>2, FS_EmptySet DEF Init, CountersAreExact
<1> QED
  BY <1>1, <1>2, TypeCorrect, CountersStep, PhasesStep, LedgerStep, PTL DEF Spec

\* Slots and wait group count exactly the lookups that hold them, so neither a
\* slot leaks nor a pool outgrows its bound.
THEOREM CountersCorrect == Spec => []CountersAreExact
  BY Inductive, PTL

\* The spool never closes on a pending lookup: its event is there before.
THEOREM NoLookupIsLost == Spec => []LookupsLandBeforeClose
<1>1. Ledger /\ Phases => LookupsLandBeforeClose
  BY DEF Ledger, LedgerOf, Phases, Drained, LookupsLandBeforeClose
<1> QED
  BY <1>1, Inductive, PTL

\* After an orderly shutdown every request has exactly one event, except for
\* handlers that were still running when the grace ended.
THEOREM ShutdownRecords == Spec => []OnlyOutlivingHandlersLose
<1>1. TypeOK /\ Ledger /\ Phases => OnlyOutlivingHandlersLose
  <2> SUFFICES ASSUME TypeOK, Ledger, Phases, main = "stopped",
                      NEW r \in Requests, handler[r] # "new"
               PROVE  lines[r] = 1 \/ (lines[r] = 0 /\ r \in outlived)
    BY DEF OnlyOutlivingHandlersLose
  <2>1. LedgerOf(r)
    BY DEF Ledger
  <2>2. CASE handler[r] = "running"
    BY <2>1, <2>2 DEF LedgerOf, Phases, Draining, Drained
  <2>3. CASE handler[r] = "returned"
    BY <2>1, <2>3 DEF LedgerOf, Phases, Drained
  <2> QED
    BY <2>2, <2>3 DEF TypeOK
<1> QED
  BY <1>1, Inductive, PTL

\* The wait group gains no work once the drain waits on it.
THEOREM DrainAdmitsNothing == Spec => NoWorkWhileWaiting
<1>1. TypeOK /\ [Next]_vars => [draining => wg' <= wg]_vars
  <2> SUFFICES ASSUME TypeOK, draining, [Next]_vars
               PROVE  wg' <= wg
    OBVIOUS
  <2>1. wg \in Int
    BY DEF TypeOK
  <2>2. wg' = wg \/ wg' = wg - 1
    BY DEF Next, LookupEnds, MainStep, Arrive, EndRecorded, EndSkipped,
       EndLookedUp, CanAdmit, readGenerationCost, GiveUp, LookupRecords,
       LookupFreesSlot, LookupDone, Signal, ListenerFails, GraceEnds,
       ShutdownReturns, DrainStart, DrainCancels, DrainReturns, CloseSpool,
       Exit, requestVars, vars
  <2> QED
    BY <2>1, <2>2
<1> QED
  BY <1>1, TypeCorrect, PTL DEF Spec, NoWorkWhileWaiting
=============================================================================
