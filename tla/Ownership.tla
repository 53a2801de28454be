----------------------------- MODULE Ownership -----------------------------
(***************************************************************************)
(* Who owns a vendor object (internal/ownership): the api keeps one row    *)
(* per object, the gateway binds, looks up and releases through calls with *)
(* a timeout, and caches confirmations for a while in a list of bounded    *)
(* length.  Other gateways call the same api, and no route uses the client *)
(* yet.                                                                    *)
(***************************************************************************)
EXTENDS Integers, Sequences, SequencesExt

CONSTANTS Objects,     \* the objects of one key
          Calls,       \* the calls this gateway may have in progress
          CacheSizes,  \* values of Options.CacheSize
          CacheTTL,    \* Options.CacheTTL, in ticks
          Timeout,     \* Options.Timeout, in ticks
          BindBudget,  \* Options.BindBudget, in ticks: all attempts of one bind
          BindDelays,  \* how often an unavailable bind is tried again
          MaxNow       \* bound: how long the client is watched

ASSUME OwnershipAssumption ==
    /\ CacheSizes \subseteq Nat \ {0} /\ CacheTTL \in Nat \ {0} /\ Timeout \in Nat \ {0}
    /\ BindBudget \in Nat \ {0} /\ BindDelays \in Nat /\ MaxNow \in Nat

VARIABLES cacheSize,   \* cache.max
          now,
          row,         \* the api's row: "none", "late" (on its way with the
                       \* usage events), "owned" or "released"
          releasedAt,  \* history: when the row was released
          order,       \* cache.order: objects and when they expire
          call         \* the calls in progress

ownershipVars == <<cacheSize, now, row, releasedAt, order, call>>

NoCall == [op |-> "none", object |-> "none", answer |-> "none", began |-> 0,
           since |-> 0, attempt |-> 0]

OwnershipInit ==
    /\ cacheSize \in CacheSizes
    /\ now = 0
    /\ row = [o \in Objects |-> "none"]
    /\ releasedAt = [o \in Objects |-> 0]
    /\ order = <<>>
    /\ call = [c \in Calls |-> NoCall]

\* Mutant of OnTime: a single call has no timeout.
OnTimeBinds(c) == call[c].op = "bind" => now - call[c].began < BindBudget

\* A call goes on only within the timeout of its attempt and, a bind, within
\* the budget of all its attempts.
OnTime(c) ==
    /\ call[c] # NoCall /\ call[c].answer # "slept" => now - call[c].since < Timeout
    /\ call[c].op = "bind" => now - call[c].began < BindBudget

OwnershipTick ==
    /\ now < MaxNow
    /\ \A c \in Calls : OnTime(c)
    /\ now' = now + 1
    /\ UNCHANGED <<cacheSize, row, releasedAt, order, call>>

-----------------------------------------------------------------------------
Entries(o) == {i \in DOMAIN order : order[i].object = o}

\* list.Remove of the one element cache.entries has for the object, if any.
Without(o) == IF Entries(o) = {} THEN order
              ELSE RemoveAt(order, CHOOSE i \in Entries(o) : TRUE)

\* cache.owned: present and unexpired.
CacheOwned(o) == \E i \in Entries(o) : now < order[i].expires

\* Before a new entry the front goes while it is expired or the list is full.
Evicted ==
    LET Stays(n) == n <= Len(order) =>
                      Len(order) - n + 1 < cacheSize /\ now < order[n].expires
        first == CHOOSE n \in 1..(Len(order) + 1) :
                    Stays(n) /\ \A m \in 1..(n - 1) : ~Stays(m)
    IN  SubSeq(order, first, Len(order))

\* cache.put: a known entry is renewed and moves to the back.
put(o) ==
    order' = Append(IF Entries(o) # {} THEN Without(o) ELSE Evicted,
                    [object |-> o, expires |-> now + CacheTTL])

forget(o) == order' = Without(o)

-----------------------------------------------------------------------------
Begin(c, op, o) ==
    /\ call[c] = NoCall
    /\ call' = [call EXCEPT ![c] = [op |-> op, object |-> o, answer |-> "none",
                                    began |-> now, since |-> now, attempt |-> 0]]

\* An object the vendor accepted is bound.
BindBegin(c, o) ==
    /\ row[o] = "none" /\ \A d \in Calls : call[d].object # o
    /\ Begin(c, "bind", o)
    /\ UNCHANGED <<cacheSize, now, row, releasedAt, order>>

\* Owned answers from the cache, or asks the api.
OwnedBegin(c, o) ==
    /\ ~CacheOwned(o)
    /\ Begin(c, "lookup", o)
    /\ forget(o)
    /\ UNCHANGED <<cacheSize, now, row, releasedAt>>

\* Release, of whatever object: the entry goes first, before the api answers.
ReleaseBegin(c, o) ==
    /\ Begin(c, "release", o)
    /\ forget(o)
    /\ UNCHANGED <<cacheSize, now, row, releasedAt>>

\* The api handles a call.  A repeated bind gets the success of the first,
\* though the object was released in between.
ApiAnswers(c) ==
    LET o == call[c].object IN
    /\ call[c].op # "none" /\ call[c].answer = "none"
    /\ row' = [row EXCEPT ![o] =
                 CASE call[c].op = "bind" /\ @ \in {"none", "late"} -> "owned"
                   [] call[c].op = "release" /\ @ = "owned" -> "released"
                   [] OTHER -> @]
    /\ releasedAt' = IF row'[o] # row[o] /\ row'[o] = "released"
                     THEN [releasedAt EXCEPT ![o] = now] ELSE releasedAt
    /\ call' = [call EXCEPT ![c].answer = IF call[c].op = "bind" THEN "owned" ELSE row'[o]]
    /\ UNCHANGED <<cacheSize, now, order>>

\* The api refuses a call for a reason of its own.
ApiRefuses(c) ==
    /\ call[c].op # "none" /\ call[c].answer = "none"
    /\ call' = [call EXCEPT ![c].answer = "refused"]
    /\ UNCHANGED <<cacheSize, now, row, releasedAt, order>>

\* Another gateway releases an object.
ReleasedElsewhere(o) ==
    /\ row[o] = "owned"
    /\ row' = [row EXCEPT ![o] = "released"]
    /\ releasedAt' = [releasedAt EXCEPT ![o] = now]
    /\ UNCHANGED <<cacheSize, now, order, call>>

\* The answer arrives: a confirmation is cached, a refusal ends the call.
CallReturns(c) ==
    /\ call[c].answer \notin {"none", "slept"}
    /\ IF call[c].op \in {"bind", "lookup"} /\ call[c].answer = "owned"
       THEN put(call[c].object) ELSE UNCHANGED order
    /\ call' = [call EXCEPT ![c] = NoCall]
    /\ UNCHANGED <<cacheSize, now, row, releasedAt>>

\* No usable answer: the call timed out, or its answer was lost.  A bind has
\* attempts left until its delays or its budget are used up.
Retries(c) == /\ call[c].op = "bind"
              /\ call[c].attempt < BindDelays /\ now - call[c].began < BindBudget

CallUnavailable(c) ==
    /\ call[c] # NoCall /\ call[c].answer # "slept"
    /\ call' = [call EXCEPT ![c] = IF Retries(c) THEN [@ EXCEPT !.answer = "slept"]
                                   ELSE NoCall]
    /\ UNCHANGED <<cacheSize, now, row, releasedAt, order>>

\* The delay before the next attempt is over, or the budget ended it.
BindSlept(c) ==
    /\ call[c].answer = "slept"
    /\ call' = [call EXCEPT ![c] =
                  IF now - call[c].began < BindBudget
                  THEN [call[c] EXCEPT !.answer = "none", !.since = now, !.attempt = @ + 1]
                  ELSE NoCall]
    /\ UNCHANGED <<cacheSize, now, row, releasedAt, order>>

\* A bind that did not land is remembered; the late bind travels with the usage.
Remember(c) ==
    /\ call[c].op = "bind" /\ ~Retries(c) /\ call[c].answer # "refused"
    /\ put(call[c].object)
    /\ call' = [call EXCEPT ![c] = NoCall]
    /\ row' = [row EXCEPT ![call[c].object] = IF @ = "none" THEN "late" ELSE @]
    /\ UNCHANGED <<cacheSize, now, releasedAt>>

LateBindArrives(o) ==
    /\ row[o] = "late"
    /\ row' = [row EXCEPT ![o] = "owned"]
    /\ UNCHANGED <<cacheSize, now, releasedAt, order, call>>

OwnershipNext ==
    \/ OwnershipTick
    \/ \E c \in Calls, o \in Objects :
         BindBegin(c, o) \/ OwnedBegin(c, o) \/ ReleaseBegin(c, o)
    \/ \E c \in Calls :
         ApiAnswers(c) \/ ApiRefuses(c) \/ CallReturns(c) \/ CallUnavailable(c) \/ BindSlept(c)
         \/ Remember(c)
    \/ \E o \in Objects : ReleasedElsewhere(o) \/ LateBindArrives(o)

-----------------------------------------------------------------------------
\* An object whose ownership ended is not answered as owned for longer than one
\* lifetime of the cache and the longest of the calls that cache a confirmation,
\* although a lookup that the api answered before the release caches its answer
\* after it, and a bind that lost its answer is remembered after it; the cache
\* stays within its size and its front is what expires first.
StaleOwnershipEnds ==
    LET longest == IF Timeout > BindBudget THEN Timeout ELSE BindBudget IN
    /\ \A o \in Objects :
         CacheOwned(o) /\ row[o] = "released"
            => now - releasedAt[o] < CacheTTL + longest
    /\ Len(order) <= cacheSize
    /\ \A i, j \in DOMAIN order : i < j => order[i].expires <= order[j].expires
=============================================================================
