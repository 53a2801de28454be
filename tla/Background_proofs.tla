------------------------- MODULE Background_proofs -------------------------
(***************************************************************************)
(* Proofs about body capture, the vendor catalogue and object ownership,   *)
(* for any sizes, periods and bounds.                                      *)
(*                                                                         *)
(* The catalogue's wait is bounded together with the time left to the next *)
(* wake (Waiting).  A cached confirmation ends in time because the call    *)
(* that brings it began, or was answered, before the release (InTime).     *)
(* The bytes of the queue are bounded together with those of the offers    *)
(* that passed the check (Memory), over lists of the records at a stage.   *)
(***************************************************************************)
EXTENDS Background, FiniteSetTheorems, SequenceTheorems,
        WellFoundedInduction, TLAPS

-----------------------------------------------------------------------------
(* The vendor catalogue.                                                   *)

Ref == Upstreams \cup {NoRef}

CatalogTypes ==
    /\ clock \in Nat /\ timer \in Nat /\ readStart \in Nat /\ waited \in Nat
    /\ backoff \in Nat /\ notBefore \in Nat /\ moves \in Nat
    /\ passthroughRef \in Ref /\ backoffRef \in Ref /\ reading \in Ref
    /\ copy \in [ref: Ref, fetchedAt: Nat] /\ copy.fetchedAt <= clock
    /\ failed \subseteq Upstreams

\* The loop wakes within a retry period, and a read is over by the next wake.
Loop ==
    /\ clock <= timer /\ timer <= clock + retry
    /\ reading # NoRef => timer = readStart + retry /\ backoffRef = reading

\* A backoff runs only for an upstream that failed, and from its last read.
Backing ==
    /\ backoff <= Interval
    /\ notBefore <= readStart + Interval
    /\ notBefore > 0 => backoffRef \in failed

\* The wait counts from the last read at the earliest, for a read that is due
\* and not under way; with what is left to the next wake it is within bounds.
Waiting ==
    /\ readStart + waited <= clock
    /\ waited > 0 => vendorCatalogDue(passthroughRef) /\ reading # passthroughRef
    /\ passthroughRef \in Configured =>
         waited + timer <= clock + IF passthroughRef \in failed THEN Interval ELSE retry

CatalogInv == CatalogTypes /\ Loop /\ Backing /\ Waiting

\* The loop starts awake, with nothing due to have waited.
LEMMA CatalogStarts == CatalogInit => CatalogInv
<1> SUFFICES ASSUME CatalogInit PROVE CatalogInv
  OBVIOUS
<1> USE CatalogAssumption DEF CatalogInit, retry
<1>1. CatalogTypes
  BY DEF CatalogTypes, Ref
<1>2. Loop /\ Backing /\ Waiting
  BY DEF Loop, Backing, Waiting
<1> QED BY <1>1, <1>2 DEF CatalogInv

\* A step of the loop, of a read or of a document keeps the catalogue's invariant.
LEMMA CatalogStep == CatalogInv /\ CatalogNext => CatalogInv'
<1> SUFFICES ASSUME CatalogInv, CatalogNext PROVE CatalogInv'
  OBVIOUS
<1> USE CatalogAssumption DEF retry, vendorCatalogTimeout
<1>t. CatalogTypes /\ Loop /\ Backing /\ Waiting
  BY DEF CatalogInv
<1>i. Interval \in Nat /\ Interval >= 1
  OBVIOUS
<1>1. CASE Move
  <2>1. /\ waited' = 0 /\ passthroughRef' \in Ref /\ moves' \in Nat
        /\ UNCHANGED <<clock, copy, backoff, notBefore, backoffRef, timer, reading,
                       readStart, failed>>
    BY <1>1, <1>t DEF Move, schedule, Ref, CatalogTypes
  <2>2. CatalogTypes' /\ Loop' /\ Backing'
    BY <2>1, <1>t DEF CatalogTypes, Loop, Backing
  <2>3. Waiting'
    BY <2>1, <1>t, <1>i DEF CatalogTypes, Loop, Waiting
  <2> QED BY <2>2, <2>3 DEF CatalogInv
<1>2. CASE CatalogTick
  <2>1. /\ clock' = clock + 1
        /\ ~Awake /\ ~ReadOver
        /\ waited' = IF vendorCatalogDue(passthroughRef) /\ reading # passthroughRef
                     THEN waited + 1 ELSE 0
        /\ UNCHANGED <<passthroughRef, copy, backoff, notBefore, backoffRef, timer, reading,
                       readStart, moves, failed>>
    BY <1>2 DEF CatalogTick, schedule
  <2>2. clock' <= timer
    BY <2>1, <1>t DEF Awake, ReadOver, CatalogTypes, Loop
  <2>3. CatalogTypes'
    BY <2>1, <1>t DEF CatalogTypes
  <2>4. Loop' /\ Backing'
    BY <2>1, <2>2, <1>t DEF CatalogTypes, Loop, Backing
  <2>5. waited' > 0 => vendorCatalogDue(passthroughRef)' /\ reading' # passthroughRef'
    BY <2>1, <1>t DEF vendorCatalogDue, forRef, CatalogTypes
  <2>6. /\ readStart' + waited' <= clock'
        /\ passthroughRef' \in Configured =>
             waited' + timer' <= clock' + IF passthroughRef' \in failed' THEN Interval ELSE retry
    <3>1. waited' = waited + 1 \/ waited' = 0
      BY <2>1
    <3> QED BY <3>1, <2>1, <2>2, <1>t, <1>i DEF CatalogTypes, Waiting, Loop
  <2> QED BY <2>3, <2>4, <2>5, <2>6 DEF CatalogInv, Waiting
<1>3. CASE Wake
  <2>1. /\ timer <= clock /\ reading = NoRef
        /\ timer' = clock + 1
        /\ backoffRef' = passthroughRef
        /\ backoff' = IF passthroughRef # backoffRef THEN 0 ELSE backoff
        /\ notBefore' = IF passthroughRef # backoffRef THEN 0 ELSE notBefore
        /\ UNCHANGED <<clock, passthroughRef, copy, moves, failed>>
    BY <1>3 DEF Wake, Awake, mayRead
  <2>2. /\ notBefore' \in Nat /\ backoff' \in Nat /\ backoff' <= Interval
        /\ notBefore' <= readStart + Interval
        /\ notBefore' > 0 => backoffRef' \in failed
    BY <2>1, <1>t, <1>i DEF CatalogTypes, Backing
  <2>3. CASE clock >= notBefore' /\ vendorCatalogDue(passthroughRef) /\ passthroughRef \in Configured
    <3>1. reading' = passthroughRef /\ readStart' = clock /\ waited' = 0
      BY <2>3, <1>3 DEF Wake
    <3>2. readStart <= clock
      BY <1>t DEF CatalogTypes, Waiting
    <3>3. CatalogTypes' /\ Loop'
      BY <2>1, <2>2, <3>1, <1>t DEF CatalogTypes, Loop
    <3>4. Backing'
      BY <2>1, <2>2, <3>1, <3>2, <1>t, <1>i DEF CatalogTypes, Backing
    <3>5. Waiting'
      BY <2>1, <3>1, <1>t, <1>i DEF CatalogTypes, Waiting
    <3> QED BY <3>3, <3>4, <3>5 DEF CatalogInv
  <2>4. CASE ~(clock >= notBefore' /\ vendorCatalogDue(passthroughRef) /\ passthroughRef \in Configured)
    <3>1. UNCHANGED <<reading, readStart, waited>>
      BY <2>4, <1>3 DEF Wake
    <3>2. CatalogTypes' /\ Loop'
      BY <2>1, <2>2, <3>1, <1>t DEF CatalogTypes, Loop
    <3>3. Backing'
      BY <2>1, <2>2, <3>1 DEF Backing
    <3>4. waited > 0 /\ passthroughRef \in Configured =>
            clock < notBefore' /\ passthroughRef \in failed
      BY <2>4, <2>1, <2>2, <1>t DEF CatalogTypes, Waiting
    <3>5. passthroughRef' \in Configured =>
            waited' + timer' <= clock' + IF passthroughRef' \in failed' THEN Interval ELSE retry
      <4>1. CASE waited = 0
        BY <4>1, <2>1, <3>1, <1>t, <1>i DEF CatalogTypes
      <4>2. CASE waited > 0 /\ passthroughRef \in Configured
        <5>1. waited + 1 <= Interval
          BY <4>2, <3>4, <2>2, <1>t, <1>i DEF CatalogTypes, Waiting
        <5> QED BY <5>1, <4>2, <3>4, <3>1, <2>1, <1>t, <1>i DEF CatalogTypes
      <4> QED BY <4>1, <4>2, <2>1, <1>t DEF CatalogTypes
    <3>6. /\ readStart' + waited' <= clock'
          /\ waited' > 0 => vendorCatalogDue(passthroughRef)' /\ reading' # passthroughRef'
      BY <2>1, <3>1, <1>t DEF Waiting, vendorCatalogDue, forRef
    <3> QED BY <3>2, <3>3, <3>5, <3>6 DEF CatalogInv, Waiting
  <2> QED BY <2>3, <2>4
<1>4. CASE ReadSucceeds
  <2>1. /\ reading # NoRef
        /\ copy' = [ref |-> reading, fetchedAt |-> clock]
        /\ backoff' = 0 /\ notBefore' = 0
        /\ failed' = failed \ {reading}
        /\ reading' = NoRef
        /\ UNCHANGED <<clock, passthroughRef, backoffRef, timer, readStart, moves, waited>>
    BY <1>4 DEF ReadSucceeds
  <2>2. CatalogTypes'
    BY <2>1, <1>t DEF CatalogTypes, Ref
  <2>3. Loop' /\ Backing'
    BY <2>1, <1>t, <1>i DEF CatalogTypes, Loop, Backing
  <2>4. waited > 0 => passthroughRef # NoRef /\ passthroughRef # reading
    BY <1>t DEF Waiting, vendorCatalogDue
  <2>5. waited' > 0 => vendorCatalogDue(passthroughRef)' /\ reading' # passthroughRef'
    BY <2>1, <2>4 DEF vendorCatalogDue, forRef
  <2>6. passthroughRef' \in Configured =>
          waited' + timer' <= clock' + IF passthroughRef' \in failed' THEN Interval ELSE retry
    <3>1. CASE waited = 0
      BY <3>1, <2>1, <1>t, <1>i DEF CatalogTypes, Loop
    <3>2. CASE waited > 0
      BY <3>2, <2>4, <2>1, <1>t, <1>i DEF Waiting
    <3> QED BY <3>1, <3>2, <1>t DEF CatalogTypes
  <2> QED BY <2>1, <2>2, <2>3, <2>5, <2>6, <1>t DEF CatalogInv, Waiting
<1>5. CASE ReadFails
  <2> DEFINE wait == IF backoff = 0 THEN retry ELSE backoff
  <2>1. /\ reading # NoRef
        /\ notBefore' = readStart + wait
        /\ backoff' = IF wait * 2 < Interval THEN wait * 2 ELSE Interval
        /\ failed' = failed \cup {reading}
        /\ reading' = NoRef
        /\ UNCHANGED <<clock, passthroughRef, copy, backoffRef, timer, readStart, moves, waited>>
    BY <1>5 DEF ReadFails
  <2>2. wait \in Nat /\ wait <= Interval
    BY <1>t, <1>i DEF CatalogTypes, Backing
  <2> HIDE DEF wait
  <2>3. notBefore' \in Nat /\ notBefore' <= readStart + Interval
        /\ backoff' \in Nat /\ backoff' <= Interval
    BY <2>1, <2>2, <1>t, <1>i DEF CatalogTypes
  <2>4. CatalogTypes'
    BY <2>1, <2>3, <1>t DEF CatalogTypes, Ref
  <2>5. Loop' /\ Backing'
    BY <2>1, <2>3, <1>t DEF Loop, Backing
  <2>6. waited' > 0 => vendorCatalogDue(passthroughRef)' /\ reading' # passthroughRef'
    BY <2>1, <1>t DEF Waiting, vendorCatalogDue, forRef
  <2>7. passthroughRef' \in Configured =>
          waited' + timer' <= clock' + IF passthroughRef' \in failed' THEN Interval ELSE retry
    BY <2>1, <1>t, <1>i DEF CatalogTypes, Waiting
  <2> QED BY <2>1, <2>4, <2>5, <2>6, <2>7, <1>t DEF CatalogInv, Waiting
<1> QED BY <1>1, <1>2, <1>3, <1>4, <1>5 DEF CatalogNext
-----------------------------------------------------------------------------
(* Object ownership.                                                       *)

Longest == IF Timeout > BindBudget THEN Timeout ELSE BindBudget

Rows  == {"none", "late", "owned", "released"}
Entry == [object: Objects, expires: Nat]
Call  == [op: {"none", "bind", "lookup", "release"}, object: Objects \cup {"none"},
          answer: Rows \cup {"slept", "refused"}, began: Nat, since: Nat, attempt: Nat]

OwnershipTypes ==
    /\ cacheSize \in Nat \ {0} /\ now \in Nat
    /\ row \in [Objects -> Rows] /\ releasedAt \in [Objects -> Nat]
    /\ call \in [Calls -> Call]

\* The list q is a cache of at most m entries at time t, in order of expiry.
Ordered(q, m, t) ==
    /\ q \in Seq(Entry) /\ Len(q) <= m
    /\ \A i, j \in 1..Len(q) : i < j => q[i].expires <= q[j].expires
    /\ \A i \in 1..Len(q) : q[i].expires <= t + CacheTTL

\* An entry ends in time after its object was released.
Ends(e, rows, ends) ==
    rows[e.object] = "released" => e.expires <= ends[e.object] + CacheTTL + Longest

\* A call that may cache a confirmation began before the object was released,
\* or was answered before, and is itself over in time.
InTime(k, t, rows, ends) ==
    /\ k.op = "none" => k.answer = "none"
    /\ k.op # "none" => k.object \in Objects
    /\ k.op = "bind" =>
         /\ k.began <= t /\ t <= k.began + BindBudget
         /\ rows[k.object] = "released" => k.began <= ends[k.object]
    /\ k.op = "lookup" =>
         /\ k.answer # "slept" /\ k.since <= t /\ t <= k.since + Timeout
         /\ k.answer = "owned" =>
              /\ rows[k.object] \in {"owned", "released"}
              /\ rows[k.object] = "released" => k.since <= ends[k.object]

OwnershipInv ==
    /\ OwnershipTypes
    /\ Ordered(order, cacheSize, now)
    /\ \A i \in 1..Len(order) : Ends(order[i], row, releasedAt)
    /\ \A c \in Calls : InTime(call[c], now, row, releasedAt)

\* The cache starts empty, with no call in progress.
LEMMA OwnershipStarts == OwnershipInit => OwnershipInv
<1> SUFFICES ASSUME OwnershipInit PROVE OwnershipInv
  OBVIOUS
<1> USE OwnershipAssumption DEF OwnershipInit
<1>1. NoCall \in Call
  BY DEF NoCall, Call, Rows
<1>2. OwnershipTypes
  BY <1>1 DEF OwnershipTypes, Rows
<1>3. Ordered(order, cacheSize, now) /\ Len(order) = 0
  BY DEF Ordered
<1>4. \A c \in Calls : InTime(call[c], now, row, releasedAt)
  BY DEF InTime, NoCall
<1> QED BY <1>2, <1>3, <1>4 DEF OwnershipInv

\* A number that some natural number satisfies has a least one.
LEMMA Least ==
    ASSUME NEW S \in SUBSET Nat, S # {}
    PROVE  \E n \in S : \A m \in S : n <= m
<1> DEFINE R == {ss \in Nat \X Nat : ss[1] < ss[2]}
<1>1. IsWellFoundedOn(R, Nat)
  BY NatLessThanWellFounded, Zenon DEF OpToRel
<1>2. \A i, j \in Nat : j < i => <<j, i>> \in R
  OBVIOUS
<1> HIDE DEF R
<1>3. PICK n \in S : \A m \in S : ~(<<m, n>> \in R)
  BY <1>1, WFMin
<1>4. \A m \in S : n <= m
  <2> TAKE m \in S
  <2>1. m \in Nat /\ n \in Nat /\ ~(m < n)
    BY <1>2, <1>3
  <2> QED BY <2>1
<1> QED BY <1>4

\* list.Remove keeps the order of what stays.
LEMMA Removed ==
    ASSUME NEW S, NEW q \in Seq(S), NEW i \in 1..Len(q)
    PROVE  /\ RemoveAt(q, i) \in Seq(S)
           /\ Len(RemoveAt(q, i)) = Len(q) - 1
           /\ \A j \in 1..(Len(q) - 1) : RemoveAt(q, i)[j] = q[IF j < i THEN j ELSE j + 1]
<1> DEFINE a == SubSeq(q, 1, i - 1)
           b == SubSeq(q, i + 1, Len(q))
<1>1. /\ a \in Seq(S) /\ Len(a) = i - 1
      /\ \A j \in 1..(i - 1) : a[j] = q[j]
  BY SubSeqProperties
<1>2. /\ b \in Seq(S) /\ Len(b) = Len(q) - i
      /\ \A j \in 1..(Len(q) - i) : b[j] = q[i + j]
  BY SubSeqProperties
<1>3. RemoveAt(q, i) = a \o b
  BY DEF RemoveAt
<1> HIDE DEF a, b
<1>4. /\ a \o b \in Seq(S) /\ Len(a \o b) = Len(q) - 1
      /\ \A j \in 1..(Len(q) - 1) : (a \o b)[j] = IF j <= i - 1 THEN a[j] ELSE b[j - (i - 1)]
  <2>1. /\ a \o b \in Seq(S) /\ Len(a \o b) = Len(a) + Len(b)
        /\ \A j \in 1..(Len(a) + Len(b)) :
              (a \o b)[j] = IF j <= Len(a) THEN a[j] ELSE b[j - Len(a)]
    BY <1>1, <1>2, ConcatProperties
  <2>2. Len(q) \in Nat /\ i \in Nat
    BY LenProperties
  <2>3. Len(a) + Len(b) = Len(q) - 1
    BY <1>1, <1>2, <2>2
  <2>4. Len(a) = i - 1
    BY <1>1
  <2> QED BY <2>1, <2>3, <2>4
<1>5. ASSUME NEW j \in 1..(Len(q) - 1)
      PROVE  (a \o b)[j] = q[IF j < i THEN j ELSE j + 1]
  <2>1. CASE j < i
    BY <2>1, <1>1, <1>4
  <2>2. CASE ~(j < i)
    <3>1. j - (i - 1) \in 1..(Len(q) - i) /\ i + (j - (i - 1)) = j + 1
      BY <2>2
    <3>2. (a \o b)[j] = b[j - (i - 1)]
      BY <2>2, <1>4
    <3> QED BY <3>1, <3>2, <1>2, <2>2
  <2> QED BY <2>1, <2>2
<1> QED BY <1>3, <1>4, <1>5

\* Every entry of q is one of s.
From(q, s) == \A i \in 1..Len(q) : \E j \in 1..Len(s) : q[i] = s[j]

\* cache.forget, and the removal before an entry moves to the back.
LEMMA WithoutKeeps ==
    ASSUME cacheSize \in Nat \ {0}, now \in Nat, Ordered(order, cacheSize, now), NEW o
    PROVE  /\ Ordered(Without(o), cacheSize, now)
           /\ Entries(o) # {} => Len(Without(o)) < cacheSize
           /\ From(Without(o), order)
<1> USE OwnershipAssumption
<1>0. order \in Seq(Entry) /\ Len(order) \in Nat /\ DOMAIN order = 1..Len(order)
  BY LenProperties DEF Ordered
<1>1. CASE Entries(o) = {}
  <2>1. Without(o) = order
    BY <1>1 DEF Without
  <2> QED BY <1>1, <2>1, <1>0 DEF From
<1>2. CASE Entries(o) # {}
  <2> DEFINE i == CHOOSE k \in Entries(o) : TRUE
             q == RemoveAt(order, i)
  <2>1. i \in 1..Len(order)
    BY <1>2, <1>0 DEF Entries
  <2>2. Without(o) = q
    BY <1>2 DEF Without
  <2> HIDE DEF i
  <2>3. /\ q \in Seq(Entry) /\ Len(q) = Len(order) - 1
        /\ \A j \in 1..(Len(order) - 1) : q[j] = order[IF j < i THEN j ELSE j + 1]
    BY <1>0, <2>1, Removed
  <2> HIDE DEF q
  <2>4. \A j \in 1..Len(q) : (IF j < i THEN j ELSE j + 1) \in 1..Len(order)
    BY <2>1, <2>3, <1>0
  <2>5. From(q, order)
    BY <2>3, <2>4 DEF From
  <2>6. \A j, k \in 1..Len(q) : j < k => q[j].expires <= q[k].expires
    <3> SUFFICES ASSUME NEW j \in 1..Len(q), NEW k \in 1..Len(q), j < k
                 PROVE  q[j].expires <= q[k].expires
      OBVIOUS
    <3> DEFINE f == IF j < i THEN j ELSE j + 1
               g == IF k < i THEN k ELSE k + 1
    <3>1. f \in 1..Len(order) /\ g \in 1..Len(order) /\ f < g
      BY <2>1, <2>3, <1>0
    <3>2. q[j] = order[f] /\ q[k] = order[g]
      BY <2>3
    <3> HIDE DEF f, g
    <3> QED BY <3>1, <3>2 DEF Ordered
  <2>7. \A j \in 1..Len(q) : q[j].expires <= now + CacheTTL
    BY <2>5 DEF From, Ordered
  <2>8. Len(q) < cacheSize
    BY <2>3, <1>0 DEF Ordered
  <2>9. Ordered(q, cacheSize, now)
    BY <2>3, <2>6, <2>7, <2>8, <1>0 DEF Ordered
  <2> QED BY <2>2, <2>5, <2>8, <2>9
<1> QED BY <1>1, <1>2

\* The loop of cache.put that makes room for a new entry.
LEMMA EvictedKeeps ==
    ASSUME cacheSize \in Nat \ {0}, now \in Nat, Ordered(order, cacheSize, now)
    PROVE  /\ Ordered(Evicted, cacheSize, now)
           /\ Len(Evicted) < cacheSize
           /\ From(Evicted, order)
<1> USE OwnershipAssumption
<1>0. order \in Seq(Entry) /\ Len(order) \in Nat
  BY LenProperties DEF Ordered
<1> DEFINE n == Len(order)
           Stays(x) == x <= n => n - x + 1 < cacheSize /\ now < order[x].expires
           first == CHOOSE x \in 1..(n + 1) : Stays(x) /\ \A m \in 1..(x - 1) : ~Stays(m)
           q == SubSeq(order, first, n)
<1>1. first \in 1..(n + 1) /\ Stays(first)
  <2> DEFINE S == {x \in 1..(n + 1) : Stays(x)}
  <2>1. n + 1 \in S /\ S \in SUBSET Nat
    BY <1>0
  <2> HIDE DEF S
  <2>2. PICK x \in S : \A m \in S : x <= m
    BY <2>1, Least
  <2>3. x \in 1..(n + 1) /\ Stays(x) /\ \A m \in 1..(x - 1) : ~Stays(m)
    <3>1. x \in 1..(n + 1) /\ Stays(x)
      BY DEF S
    <3>2. ASSUME NEW m \in 1..(x - 1) PROVE ~Stays(m)
      <4> HIDE DEF Stays
      <4>1. m \in 1..(n + 1) /\ ~(x <= m)
        BY <3>1, <1>0
      <4> QED BY <4>1, <2>2 DEF S
    <3> QED BY <3>1, <3>2
  <2> HIDE DEF Stays
  <2> QED BY <2>3
<1>2. Evicted = q
  BY DEF Evicted
<1> HIDE DEF first
<1>3. /\ q \in Seq(Entry) /\ Len(q) = n - first + 1
      /\ \A i \in 1..(n - first + 1) : q[i] = order[first + i - 1]
  <2>1. \A i \in first..n : order[i] \in Entry
    BY <1>0, <1>1, ElementOfSeq
  <2> QED BY <1>0, <1>1, <2>1, SubSeqProperties
<1>4. Len(q) < cacheSize
  BY <1>0, <1>1, <1>3
<1> HIDE DEF q, Stays
<1>5. \A i \in 1..Len(q) : first + i - 1 \in 1..n
  BY <1>0, <1>1, <1>3
<1>6. From(q, order)
  BY <1>3, <1>5 DEF From
<1>7. \A i, j \in 1..Len(q) : i < j => q[i].expires <= q[j].expires
  <2> SUFFICES ASSUME NEW i \in 1..Len(q), NEW j \in 1..Len(q), i < j
               PROVE  q[i].expires <= q[j].expires
    OBVIOUS
  <2>1. first + i - 1 < first + j - 1
    BY <1>1, <1>0, <1>3
  <2> QED BY <2>1, <1>3, <1>5 DEF Ordered
<1>8. \A i \in 1..Len(q) : q[i].expires <= now + CacheTTL
  BY <1>6 DEF From, Ordered
<1> QED BY <1>2, <1>3, <1>4, <1>6, <1>7, <1>8, <1>0 DEF Ordered

\* cache.put leaves a list in order, within its size, of old entries and the new.
LEMMA PutKeeps ==
    ASSUME cacheSize \in Nat \ {0}, now \in Nat, Ordered(order, cacheSize, now),
           NEW o \in Objects, put(o)
    PROVE  /\ Ordered(order', cacheSize, now)
           /\ \A i \in 1..Len(order') :
                 \/ \E j \in 1..Len(order) : order'[i] = order[j]
                 \/ order'[i] = [object |-> o, expires |-> now + CacheTTL]
<1> USE OwnershipAssumption
<1> DEFINE b == IF Entries(o) # {} THEN Without(o) ELSE Evicted
           e == [object |-> o, expires |-> now + CacheTTL]
<1>1. order' = Append(b, e)
  BY DEF put
<1>2. Ordered(b, cacheSize, now) /\ Len(b) < cacheSize /\ From(b, order)
  BY WithoutKeeps, EvictedKeeps
<1>3. e \in Entry /\ e.expires = now + CacheTTL
  BY DEF Entry
<1> HIDE DEF b, e
<1>4. b \in Seq(Entry) /\ Len(b) \in Nat
  BY <1>2, LenProperties DEF Ordered
<1>5. /\ order' \in Seq(Entry) /\ Len(order') = Len(b) + 1
      /\ \A i \in 1..Len(b) : order'[i] = b[i]
      /\ order'[Len(b) + 1] = e
  BY <1>1, <1>3, <1>4, AppendProperties
<1>6. \A i \in 1..Len(order') : i \in 1..Len(b) \/ i = Len(b) + 1
  BY <1>4, <1>5
<1>7. \A i, j \in 1..Len(order') : i < j => order'[i].expires <= order'[j].expires
  <2> SUFFICES ASSUME NEW i \in 1..Len(order'), NEW j \in 1..Len(order'), i < j
               PROVE  order'[i].expires <= order'[j].expires
    OBVIOUS
  <2>1. i \in 1..Len(b)
    BY <1>4, <1>5
  <2>2. CASE j \in 1..Len(b)
    BY <2>1, <2>2, <1>2, <1>5 DEF Ordered
  <2>3. CASE j = Len(b) + 1
    BY <2>1, <2>3, <1>2, <1>3, <1>5 DEF Ordered
  <2> QED BY <2>2, <2>3, <1>6
<1>8. \A i \in 1..Len(order') : order'[i].expires <= now + CacheTTL
  BY <1>2, <1>3, <1>5, <1>6 DEF Ordered
<1>9. \A i \in 1..Len(order') :
         \/ \E j \in 1..Len(order) : order'[i] = order[j]
         \/ order'[i] = e
  BY <1>2, <1>5, <1>6 DEF From
<1>10. Len(order') <= cacheSize
  BY <1>2, <1>4, <1>5
<1> QED BY <1>5, <1>7, <1>8, <1>9, <1>10 DEF Ordered, e

\* What any call, of this gateway or another, may do to the api's rows: a row
\* that is released stays so, and one that is released is released now.
RowsMove ==
    /\ row' \in [Objects -> Rows] /\ releasedAt' \in [Objects -> Nat]
    /\ \A o \in Objects :
         /\ row[o] \in {"owned", "released"} => row'[o] \in {"owned", "released"}
         /\ row'[o] = "released" =>
              \/ row[o] = "released" /\ releasedAt'[o] = releasedAt[o]
              \/ releasedAt'[o] = now

\* Such a step leaves every call in time ...
LEMMA StaysInTime ==
    ASSUME NEW k \in Call, now \in Nat, RowsMove, InTime(k, now, row, releasedAt)
    PROVE  InTime(k, now, row', releasedAt')
<1>1. k.began \in Nat /\ k.since \in Nat
  BY DEF Call
<1>2. CASE k.op = "none"
  BY <1>2 DEF InTime
<1>3. CASE k.op # "none"
  <2>1. k.object \in Objects
    BY <1>3 DEF InTime
  <2>2. CASE row'[k.object] = "released" => row[k.object] = "released" /\ releasedAt'[k.object] = releasedAt[k.object]
    BY <1>3, <2>1, <2>2 DEF InTime, RowsMove
  <2>3. CASE releasedAt'[k.object] = now
    BY <1>3, <2>1, <2>3, <1>1 DEF InTime, RowsMove
  <2> QED BY <2>1, <2>2, <2>3 DEF RowsMove
<1> QED BY <1>2, <1>3

\* ... and every entry ending in time.
LEMMA StaysEnding ==
    ASSUME NEW e \in Entry, now \in Nat, RowsMove, e.expires <= now + CacheTTL,
           Ends(e, row, releasedAt)
    PROVE  Ends(e, row', releasedAt')
<1> USE OwnershipAssumption
<1>1. e.object \in Objects /\ e.expires \in Nat
  BY DEF Entry
<1>2. Longest \in Nat
  BY DEF Longest
<1>3. CASE row'[e.object] # "released"
  BY <1>3 DEF Ends
<1>4. CASE row[e.object] = "released" /\ releasedAt'[e.object] = releasedAt[e.object]
  BY <1>4 DEF Ends
<1>5. CASE releasedAt'[e.object] = now
  BY <1>5, <1>1, <1>2 DEF Ends
<1> QED BY <1>1, <1>3, <1>4, <1>5 DEF RowsMove

\* A confirmation that is cached now ends in time.
LEMMA Confirmed ==
    ASSUME NEW k \in Call, now \in Nat, row \in [Objects -> Rows],
           releasedAt \in [Objects -> Nat], InTime(k, now, row, releasedAt),
           k.op = "bind" \/ (k.op = "lookup" /\ k.answer = "owned")
    PROVE  Ends([object |-> k.object, expires |-> now + CacheTTL], row, releasedAt)
<1> USE OwnershipAssumption
<1>1. /\ k.began \in Nat /\ k.since \in Nat /\ k.object \in Objects
      /\ releasedAt[k.object] \in Nat
  BY DEF Call, InTime
<1>2. Longest \in Nat /\ Timeout <= Longest /\ BindBudget <= Longest
  BY DEF Longest
<1>3. row[k.object] = "released" => now <= releasedAt[k.object] + Longest
  <2>1. CASE k.op = "bind"
    BY <2>1, <1>1, <1>2 DEF InTime
  <2>2. CASE k.op = "lookup" /\ k.answer = "owned"
    BY <2>2, <1>1, <1>2 DEF InTime
  <2> QED BY <2>1, <2>2
<1> HIDE DEF Longest
<1> QED BY <1>1, <1>2, <1>3 DEF Ends

\* The entries after a cache operation, from those before it and the new one.
LEMMA EntriesEnd ==
    ASSUME OwnershipInv, NEW q, q \in Seq(Entry), NEW e,
           \A i \in 1..Len(q) : (\E j \in 1..Len(order) : q[i] = order[j]) \/ q[i] = e,
           Ends(e, row, releasedAt)
    PROVE  \A i \in 1..Len(q) : Ends(q[i], row, releasedAt)
  BY DEF OwnershipInv

\* A step that leaves the clock alone keeps the invariant if its new list and
\* its new calls are in order.
LEMMA Keeps ==
    ASSUME OwnershipInv, cacheSize' = cacheSize, now' = now, RowsMove,
           call' \in [Calls -> Call],
           Ordered(order', cacheSize, now),
           \A i \in 1..Len(order') : Ends(order'[i], row, releasedAt),
           \A c \in Calls : call'[c] = call[c] \/ InTime(call'[c], now, row', releasedAt')
    PROVE  OwnershipInv'
<1>0. OwnershipTypes /\ \A c \in Calls : InTime(call[c], now, row, releasedAt)
  BY DEF OwnershipInv
<1>1. now \in Nat /\ call \in [Calls -> Call]
  BY <1>0 DEF OwnershipTypes
<1>2. OwnershipTypes'
  BY <1>0 DEF OwnershipTypes, RowsMove
<1>3. \A i \in 1..Len(order') : Ends(order'[i], row', releasedAt')
  <2> TAKE i \in 1..Len(order')
  <2>1. order'[i] \in Entry /\ order'[i].expires <= now + CacheTTL
    BY ElementOfSeq DEF Ordered
  <2> QED BY <2>1, <1>1, StaysEnding
<1>4. \A c \in Calls : InTime(call'[c], now, row', releasedAt')
  <2> TAKE c \in Calls
  <2>1. call[c] \in Call
    BY <1>1
  <2>2. InTime(call[c], now, row', releasedAt')
    BY <2>1, <1>0, <1>1, StaysInTime
  <2> QED BY <2>2
<1> QED BY <1>2, <1>3, <1>4 DEF OwnershipInv

\* A call that is over is in time, and so is a state in which rows do not move.
LEMMA Idle ==
    ASSUME OwnershipInv
    PROVE  /\ NoCall \in Call
           /\ \A rows, ends : InTime(NoCall, now, rows, ends)
           /\ UNCHANGED <<row, releasedAt>> => RowsMove
<1>1. NoCall \in Call
  BY DEF NoCall, Call, Rows
<1>2. \A rows, ends : InTime(NoCall, now, rows, ends)
  BY DEF NoCall, InTime
<1>3. UNCHANGED <<row, releasedAt>> => RowsMove
  BY DEF RowsMove, OwnershipInv, OwnershipTypes
<1> QED BY <1>1, <1>2, <1>3

\* Time passes only while every call is within its timeout and budget.
LEMMA TickKeeps == OwnershipInv /\ OwnershipTick => OwnershipInv'
<1> SUFFICES ASSUME OwnershipInv, OwnershipTick PROVE OwnershipInv'
  OBVIOUS
<1> USE OwnershipAssumption
<1>1. /\ now' = now + 1 /\ UNCHANGED <<cacheSize, row, releasedAt, order, call>>
      /\ now \in Nat /\ call \in [Calls -> Call]
  BY DEF OwnershipTick, OwnershipInv, OwnershipTypes
<1>2. OwnershipTypes'
  BY <1>1 DEF OwnershipInv, OwnershipTypes
<1>3. Ordered(order, cacheSize, now + 1)
  <2>1. \A i \in 1..Len(order) : order[i] \in Entry
    BY ElementOfSeq DEF OwnershipInv, Ordered
  <2>2. \A i \in 1..Len(order) : order[i].expires \in Nat
    BY <2>1 DEF Entry
  <2> QED BY <2>2, <1>1 DEF OwnershipInv, Ordered
<1>4. ASSUME NEW c \in Calls PROVE InTime(call[c], now + 1, row, releasedAt)
  <2> DEFINE k == call[c]
  <2>1. InTime(k, now, row, releasedAt) /\ k \in Call
    BY <1>1 DEF OwnershipInv
  <2>2. /\ k # NoCall /\ k.answer # "slept" => now - k.since < Timeout
        /\ k.op = "bind" => now - k.began < BindBudget
    BY DEF OwnershipTick, OnTime
  <2> HIDE DEF k
  <2>3. k.op = "lookup" => k # NoCall
    BY DEF NoCall
  <2>4. k.since \in Nat /\ k.began \in Nat
    BY <2>1 DEF Call
  <2> QED BY <2>1, <2>2, <2>3, <2>4, <1>1 DEF InTime, k
<1> QED BY <1>1, <1>2, <1>3, <1>4 DEF OwnershipInv

\* Bind, Owned and Release begin.
LEMMA BeginKeeps ==
    ASSUME OwnershipInv, NEW c \in Calls, NEW o \in Objects,
           BindBegin(c, o) \/ OwnedBegin(c, o) \/ ReleaseBegin(c, o)
    PROVE  OwnershipInv'
<1> USE OwnershipAssumption
<1>0. /\ now \in Nat /\ cacheSize \in Nat \ {0} /\ call \in [Calls -> Call]
      /\ Ordered(order, cacheSize, now)
  BY DEF OwnershipInv, OwnershipTypes
<1>1. PICK op \in {"bind", "lookup", "release"} :
         /\ Begin(c, op, o) /\ (op = "bind" => row[o] = "none")
         /\ order' = order \/ order' = Without(o)
         /\ UNCHANGED <<cacheSize, now, row, releasedAt>>
  BY DEF BindBegin, OwnedBegin, ReleaseBegin, forget
<1> DEFINE k == [op |-> op, object |-> o, answer |-> "none", began |-> now, since |-> now,
                 attempt |-> 0]
<1>2. call' = [call EXCEPT ![c] = k]
  BY <1>1 DEF Begin
<1>3. k \in Call
  BY <1>0 DEF Call, Rows
<1>4. InTime(k, now, row, releasedAt)
  BY <1>0, <1>1 DEF InTime
<1> HIDE DEF k
<1>5. call' \in [Calls -> Call] /\ \A d \in Calls : call'[d] = call[d] \/ call'[d] = k
  BY <1>0, <1>2, <1>3
<1>6. Ordered(order', cacheSize, now) /\ From(order', order)
  <2>1. From(order, order)
    BY DEF From
  <2> QED BY <2>1, <1>0, <1>1, WithoutKeeps
<1>7. \A i \in 1..Len(order') : Ends(order'[i], row, releasedAt)
  BY <1>6 DEF OwnershipInv, From
<1> QED BY <1>1, <1>4, <1>5, <1>6, <1>7, Idle, Keeps

\* The api refuses a call.
LEMMA RefusalKeeps ==
    ASSUME OwnershipInv, NEW c \in Calls, ApiRefuses(c)
    PROVE  OwnershipInv'
<1> DEFINE k == call[c]
           k2 == [k EXCEPT !.answer = "refused"]
<1>0. /\ now \in Nat /\ call \in [Calls -> Call] /\ Ordered(order, cacheSize, now)
      /\ k \in Call /\ InTime(k, now, row, releasedAt) /\ k.op # "none"
      /\ \A i \in 1..Len(order) : Ends(order[i], row, releasedAt)
  BY DEF OwnershipInv, OwnershipTypes, ApiRefuses
<1>1. call' = [call EXCEPT ![c] = k2] /\ UNCHANGED <<cacheSize, now, row, releasedAt, order>>
  BY DEF ApiRefuses
<1>2. RowsMove
  BY <1>1, Idle
<1>3. /\ k2 \in Call /\ k2.op = k.op /\ k2.object = k.object /\ k2.began = k.began
      /\ k2.since = k.since /\ k2.answer = "refused"
  BY <1>0 DEF Call
<1> HIDE DEF k2
<1>4. InTime(k2, now, row, releasedAt)
  BY <1>0, <1>3 DEF InTime
<1>5. call' \in [Calls -> Call] /\ \A d \in Calls : call'[d] = call[d] \/ call'[d] = k2
  BY <1>0, <1>1, <1>3
<1> QED BY <1>0, <1>1, <1>2, <1>4, <1>5, Keeps

\* The api answers a call.
LEMMA AnswerKeeps ==
    ASSUME OwnershipInv, NEW c \in Calls, ApiAnswers(c)
    PROVE  OwnershipInv'
<1>0. /\ now \in Nat /\ call \in [Calls -> Call] /\ Ordered(order, cacheSize, now)
      /\ row \in [Objects -> Rows] /\ releasedAt \in [Objects -> Nat]
  BY DEF OwnershipInv, OwnershipTypes
<1> DEFINE k == call[c]
           o == k.object
           new == CASE k.op = "bind" /\ row[o] \in {"none", "late"} -> "owned"
                    [] k.op = "release" /\ row[o] = "owned" -> "released"
                    [] OTHER -> row[o]
           ans == IF k.op = "bind" THEN "owned" ELSE new
<1>1. k \in Call /\ InTime(k, now, row, releasedAt) /\ k.op # "none" /\ k.answer = "none"
  BY <1>0 DEF OwnershipInv, ApiAnswers
<1>2. o \in Objects
  BY <1>1 DEF InTime
<1>3. row' = [row EXCEPT ![o] = new] /\ row'[o] = new
  <2>1. row' = [row EXCEPT ![o] = new]
    BY DEF ApiAnswers
  <2> HIDE DEF new
  <2> QED BY <2>1, <1>0, <1>2
<1>4. /\ new \in Rows
      /\ row[o] \in {"owned", "released"} => new \in {"owned", "released"}
      /\ new = "released" => row[o] \in {"owned", "released"}
  <2>0. row[o] \in Rows
    BY <1>0, <1>2
  <2>1. CASE k.op = "bind" /\ row[o] \in {"none", "late"}
    BY <2>1, <2>0 DEF Rows
  <2>2. CASE k.op = "release" /\ row[o] = "owned"
    BY <2>2 DEF Rows
  <2>3. CASE /\ ~(k.op = "bind" /\ row[o] \in {"none", "late"})
             /\ ~(k.op = "release" /\ row[o] = "owned")
    <3>1. new = row[o]
      BY <2>3
    <3> QED BY <3>1, <2>0, <2>3 DEF Rows
  <2> QED BY <2>1, <2>2, <2>3
<1>5. /\ releasedAt' = IF new # row[o] /\ new = "released"
                       THEN [releasedAt EXCEPT ![o] = now] ELSE releasedAt
      /\ call' = [call EXCEPT ![c] = [k EXCEPT !.answer = ans]]
      /\ UNCHANGED <<cacheSize, now, order>>
      /\ ans \in Rows
      /\ k.op = "lookup" => ans = new
  <2> HIDE DEF new
  <2> QED BY <1>3, <1>4 DEF ApiAnswers, Rows
<1> HIDE DEF new, ans
<1>6. RowsMove
  <2>1. row' \in [Objects -> Rows] /\ releasedAt' \in [Objects -> Nat]
    BY <1>0, <1>2, <1>3, <1>4, <1>5
  <2>2. ASSUME NEW p \in Objects
        PROVE  /\ row[p] \in {"owned", "released"} => row'[p] \in {"owned", "released"}
               /\ row'[p] = "released" =>
                    \/ row[p] = "released" /\ releasedAt'[p] = releasedAt[p]
                    \/ releasedAt'[p] = now
    <3>1. CASE p = o
      BY <3>1, <1>0, <1>2, <1>3, <1>4, <1>5
    <3>2. CASE p # o
      BY <3>2, <1>0, <1>2, <1>3, <1>5
    <3> QED BY <3>1, <3>2
  <2> QED BY <2>1, <2>2 DEF RowsMove
<1> DEFINE k2 == [k EXCEPT !.answer = ans]
<1>7. k2 \in Call
  BY <1>1, <1>5 DEF Call
<1>8. InTime(k2, now, row', releasedAt')
  <2>1. InTime(k, now, row', releasedAt')
    BY <1>0, <1>1, <1>6, StaysInTime
  <2>2. /\ k2.op = k.op /\ k2.object = k.object /\ k2.began = k.began /\ k2.since = k.since
        /\ k2.answer = ans
    BY <1>1 DEF Call
  <2>3. ans # "slept"
    BY <1>5 DEF Rows
  <2>4. k2.op = "lookup" /\ k2.answer = "owned" => new = "owned"
    BY <1>5, <2>2
  <2> HIDE DEF k2
  <2> QED BY <1>1, <1>3, <2>1, <2>2, <2>3, <2>4 DEF InTime
<1> HIDE DEF k2
<1>9. call' \in [Calls -> Call] /\ \A d \in Calls : call'[d] = call[d] \/ call'[d] = k2
  <2>1. call' = [call EXCEPT ![c] = k2]
    BY <1>5 DEF k2
  <2> QED BY <2>1, <1>0, <1>7
<1>10. \A i \in 1..Len(order) : Ends(order[i], row, releasedAt)
  BY DEF OwnershipInv
<1> QED BY <1>0, <1>5, <1>6, <1>8, <1>9, <1>10, Keeps

\* A confirmation is cached, or a bind remembered.
LEMMA PutEnds ==
    ASSUME OwnershipInv, NEW c \in Calls, put(call[c].object),
           call[c].op = "bind" \/ (call[c].op = "lookup" /\ call[c].answer = "owned")
    PROVE  /\ Ordered(order', cacheSize, now)
           /\ \A i \in 1..Len(order') : Ends(order'[i], row, releasedAt)
<1>1. /\ now \in Nat /\ cacheSize \in Nat \ {0} /\ Ordered(order, cacheSize, now)
      /\ row \in [Objects -> Rows] /\ releasedAt \in [Objects -> Nat]
      /\ call[c] \in Call /\ InTime(call[c], now, row, releasedAt)
  BY DEF OwnershipInv, OwnershipTypes
<1>2. call[c].object \in Objects
  BY <1>1 DEF InTime
<1> DEFINE e == [object |-> call[c].object, expires |-> now + CacheTTL]
<1>3. /\ Ordered(order', cacheSize, now)
      /\ \A i \in 1..Len(order') : (\E j \in 1..Len(order) : order'[i] = order[j])
                                     \/ order'[i] = e
  BY <1>1, <1>2, PutKeeps
<1>4. Ends(e, row, releasedAt)
  BY <1>1, Confirmed
<1> HIDE DEF e
<1>5. order' \in Seq(Entry)
  BY <1>3 DEF Ordered
<1> QED BY <1>3, <1>4, <1>5, EntriesEnd

\* A call returns, is retried or is given up.
LEMMA ReturnKeeps ==
    ASSUME OwnershipInv, NEW c \in Calls,
           CallReturns(c) \/ CallUnavailable(c) \/ BindSlept(c)
    PROVE  OwnershipInv'
<1>0. /\ now \in Nat /\ call \in [Calls -> Call] /\ Ordered(order, cacheSize, now)
      /\ InTime(call[c], now, row, releasedAt) /\ call[c] \in Call
      /\ \A i \in 1..Len(order) : Ends(order[i], row, releasedAt)
  BY DEF OwnershipInv, OwnershipTypes
<1> DEFINE k == call[c]
<1>1. UNCHANGED <<cacheSize, now, row, releasedAt>>
  BY DEF CallReturns, CallUnavailable, BindSlept
<1>2. RowsMove
  BY <1>1, Idle
<1>3. /\ Ordered(order', cacheSize, now)
      /\ \A i \in 1..Len(order') : Ends(order'[i], row, releasedAt)
  <2>1. CASE /\ put(call[c].object)
             /\ call[c].op = "bind" \/ (call[c].op = "lookup" /\ call[c].answer = "owned")
    BY <2>1, PutEnds
  <2>2. CASE UNCHANGED order
    BY <2>2, <1>0
  <2> QED BY <2>1, <2>2 DEF CallReturns, CallUnavailable, BindSlept
<1>4. PICK k2 : /\ call' = [call EXCEPT ![c] = k2]
                /\ \/ k2 = NoCall
                   \/ k.op = "bind" /\ k2 = [k EXCEPT !.answer = "slept"]
                   \/ /\ k.answer = "slept"
                      /\ k2 = [k EXCEPT !.answer = "none", !.since = now, !.attempt = @ + 1]
  <2>1. CASE CallReturns(c)
    BY <2>1 DEF CallReturns
  <2>2. CASE CallUnavailable(c)
    <3>1. CASE Retries(c)
      BY <2>2, <3>1 DEF CallUnavailable, Retries
    <3>2. CASE ~Retries(c)
      BY <2>2, <3>2 DEF CallUnavailable
    <3> QED BY <3>1, <3>2
  <2>3. CASE BindSlept(c)
    <3>1. CASE now - k.began < BindBudget
      BY <2>3, <3>1 DEF BindSlept
    <3>2. CASE ~(now - k.began < BindBudget)
      BY <2>3, <3>2 DEF BindSlept
    <3> QED BY <3>1, <3>2
  <2> QED BY <2>1, <2>2, <2>3
<1>5. k2 \in Call /\ InTime(k2, now, row, releasedAt)
  <2>1. CASE k2 = NoCall
    BY <2>1, Idle
  <2>2. CASE k.op = "bind" /\ k2 = [k EXCEPT !.answer = "slept"]
    <3>1. /\ k2 \in Call /\ k2.op = k.op /\ k2.object = k.object /\ k2.began = k.began
      BY <2>2, <1>0 DEF Call
    <3> QED BY <3>1, <2>2, <1>0 DEF InTime
  <2>3. CASE /\ k.answer = "slept"
             /\ k2 = [k EXCEPT !.answer = "none", !.since = now, !.attempt = @ + 1]
    <3>1. /\ k2 \in Call /\ k2.op = k.op /\ k2.object = k.object /\ k2.began = k.began
          /\ k2.answer = "none"
      <4>1. k.attempt + 1 \in Nat
        BY <1>0 DEF Call
      <4> QED BY <4>1, <2>3, <1>0 DEF Call, Rows
    <3>2. k.op # "lookup" /\ k.op # "none"
      BY <2>3, <1>0 DEF InTime
    <3> QED BY <3>1, <3>2, <1>0 DEF InTime
  <2> QED BY <1>4, <2>1, <2>2, <2>3
<1>6. call' \in [Calls -> Call] /\ \A d \in Calls : call'[d] = call[d] \/ call'[d] = k2
  BY <1>0, <1>4, <1>5
<1>7. InTime(k2, now, row', releasedAt')
  BY <1>1, <1>5
<1> QED BY <1>1, <1>2, <1>3, <1>6, <1>7, Keeps

\* Remember, a late bind that arrives, and a release by another gateway.
LEMMA OthersKeep ==
    ASSUME OwnershipInv,
           \/ \E c \in Calls : Remember(c)
           \/ \E o \in Objects : ReleasedElsewhere(o) \/ LateBindArrives(o)
    PROVE  OwnershipInv'
<1>0. /\ now \in Nat /\ call \in [Calls -> Call] /\ Ordered(order, cacheSize, now)
      /\ row \in [Objects -> Rows] /\ releasedAt \in [Objects -> Nat]
      /\ \A i \in 1..Len(order) : Ends(order[i], row, releasedAt)
  BY DEF OwnershipInv, OwnershipTypes
<1>1. ASSUME NEW c \in Calls, Remember(c) PROVE OwnershipInv'
  <2> DEFINE o == call[c].object
  <2>1. /\ call[c].op = "bind" /\ put(o)
        /\ call' = [call EXCEPT ![c] = NoCall]
        /\ row' = [row EXCEPT ![o] = IF row[o] = "none" THEN "late" ELSE row[o]]
        /\ UNCHANGED <<cacheSize, now, releasedAt>>
    BY <1>1 DEF Remember
  <2>2. o \in Objects
    BY <2>1 DEF OwnershipInv, InTime
  <2>3. RowsMove
    <3>1. row' \in [Objects -> Rows] /\ releasedAt' \in [Objects -> Nat]
      BY <1>0, <2>1, <2>2 DEF Rows
    <3>2. \A p \in Objects : row'[p] = row[p] \/ (row[p] = "none" /\ row'[p] = "late")
      BY <1>0, <2>1, <2>2
    <3> QED BY <3>1, <3>2, <2>1 DEF RowsMove
  <2>4. /\ Ordered(order', cacheSize, now)
        /\ \A i \in 1..Len(order') : Ends(order'[i], row, releasedAt)
    BY <2>1, PutEnds
  <2>5. /\ call' \in [Calls -> Call]
        /\ \A d \in Calls : call'[d] = call[d] \/ call'[d] = NoCall
    BY <1>0, <2>1, Idle
  <2> QED BY <2>1, <2>3, <2>4, <2>5, Idle, Keeps
<1>2. ASSUME NEW o \in Objects, ReleasedElsewhere(o) PROVE OwnershipInv'
  <2>1. RowsMove
    BY <1>0, <1>2 DEF ReleasedElsewhere, RowsMove, Rows
  <2> QED BY <1>0, <1>2, <2>1, Keeps DEF ReleasedElsewhere
<1>3. ASSUME NEW o \in Objects, LateBindArrives(o) PROVE OwnershipInv'
  <2>1. RowsMove
    BY <1>0, <1>3 DEF LateBindArrives, RowsMove, Rows
  <2> QED BY <1>0, <1>3, <2>1, Keeps DEF LateBindArrives
<1> QED BY <1>1, <1>2, <1>3

\* Every step of this gateway, of the api and of the others keeps the invariant.
LEMMA OwnershipStep == OwnershipInv /\ OwnershipNext => OwnershipInv'
  BY TickKeeps, BeginKeeps, AnswerKeeps, RefusalKeeps, ReturnKeeps, OthersKeep DEF OwnershipNext

\* The invariant gives the property.
LEMMA OwnershipEnds == OwnershipInv => StaleOwnershipEnds
<1> SUFFICES ASSUME OwnershipInv PROVE StaleOwnershipEnds
  OBVIOUS
<1> USE OwnershipAssumption
<1>0. /\ now \in Nat /\ order \in Seq(Entry) /\ DOMAIN order = 1..Len(order)
      /\ releasedAt \in [Objects -> Nat]
  BY LenProperties DEF OwnershipInv, OwnershipTypes, Ordered
<1>1. ASSUME NEW o \in Objects, CacheOwned(o), row[o] = "released"
      PROVE  now - releasedAt[o] < CacheTTL + Longest
  <2>1. PICK i \in 1..Len(order) : order[i].object = o /\ now < order[i].expires
    BY <1>0, <1>1 DEF CacheOwned, Entries
  <2>2. order[i].expires <= releasedAt[o] + CacheTTL + Longest
    BY <1>1, <2>1 DEF OwnershipInv, Ends
  <2>3. order[i].expires \in Nat /\ releasedAt[o] \in Nat /\ Longest \in Nat
    <3>1. order[i] \in Entry
      BY <1>0, <2>1, ElementOfSeq
    <3> QED BY <3>1, <1>0 DEF Entry, Longest
  <2> QED BY <2>1, <2>2, <2>3, <1>0
<1>2. /\ Len(order) <= cacheSize
      /\ \A i, j \in DOMAIN order : i < j => order[i].expires <= order[j].expires
  BY <1>0 DEF OwnershipInv, Ordered
<1> QED BY <1>1, <1>2 DEF StaleOwnershipEnds, Longest
-----------------------------------------------------------------------------
(* Body capture.  Sums over sequences come first.                          *)

\* Induction on the numbers up to N, for a set instead of a predicate.
LEMMA UpTo ==
    ASSUME NEW N \in Nat, NEW S, 0 \in S, \A n \in 0..(N - 1) : n \in S => n + 1 \in S
    PROVE  \A n \in 0..N : n \in S
<1> SUFFICES ASSUME NEW n \in 0..N, n \notin S PROVE FALSE
  OBVIOUS
<1> DEFINE Out == {m \in 0..N : m \notin S}
<1>1. n \in Out /\ Out \in SUBSET Nat
  OBVIOUS
<1>2. PICK m \in Out : \A k \in Out : m <= k
  <2> HIDE DEF Out
  <2> QED BY <1>1, Least
<1>3. m \in 0..N /\ m \notin S /\ m # 0
  OBVIOUS
<1>4. m - 1 \in 0..(N - 1) /\ m - 1 \in 0..N /\ ~(m <= m - 1) /\ (m - 1) + 1 = m
  BY <1>3
<1>5. m - 1 \in S
  BY <1>2, <1>4
<1> QED BY <1>3, <1>4, <1>5

\* f[n] is the size of the first n records of s.
Sums(f, s) ==
    /\ f \in [0..Len(s) -> Nat]
    /\ f[0] = 0
    /\ \A n \in 1..Len(s) : f[n] = f[n - 1] + Size[s[n]]

\* The recursion of Bytes has a solution, and Bytes is its last value.
LEMMA BytesIsSum ==
    ASSUME NEW s \in Seq(Records)
    PROVE  \E f : Sums(f, s) /\ Bytes(s) = f[Len(s)]
<1>0. Len(s) \in Nat /\ \A n \in 1..Len(s) : Size[s[n]] \in Nat
  BY SinkAssumption, LenProperties, ElementOfSeq
<1> DEFINE N == Len(s)
           Solves(f, k) == f = [n \in 0..k |-> IF n = 0 THEN 0 ELSE f[n - 1] + Size[s[n]]]
           S == {k \in 0..N : \E f \in [0..k -> Nat] : Solves(f, k)}
<1>1. 0 \in S
  <2> DEFINE z == [n \in 0..0 |-> 0]
  <2>1. z \in [0..0 -> Nat]
    OBVIOUS
  <2>2. Solves(z, 0)
    OBVIOUS
  <2>3. 0 \in 0..N
    BY <1>0
  <2> HIDE DEF z, Solves
  <2> QED BY <2>1, <2>2, <2>3
<1>2. ASSUME NEW k \in 0..(N - 1), k \in S PROVE k + 1 \in S
  <2>1. PICK f \in [0..k -> Nat] : Solves(f, k)
    BY <1>2
  <2> DEFINE g == [n \in 0..(k + 1) |-> IF n = k + 1 THEN f[k] + Size[s[k + 1]] ELSE f[n]]
  <2>0. k \in Nat /\ k + 1 \in 1..N /\ N \in Nat
    BY <1>0
  <2>2. g \in [0..(k + 1) -> Nat]
    <3>1. f[k] + Size[s[k + 1]] \in Nat
      BY <1>0, <2>0
    <3>2. \A n \in 0..(k + 1) : n # k + 1 => n \in 0..k
      BY <2>0
    <3> QED BY <3>1, <3>2
  <2>3. ASSUME NEW n \in 0..(k + 1)
        PROVE  g[n] = IF n = 0 THEN 0 ELSE g[n - 1] + Size[s[n]]
    <3>1. CASE n = k + 1
      <4>1. n - 1 = k /\ n # 0 /\ k \in 0..(k + 1) /\ k # k + 1
        BY <3>1, <2>0
      <4> QED BY <4>1, <3>1
    <3>2. CASE n # k + 1
      <4>1. n \in 0..k
        BY <3>2, <2>0
      <4>2. g[n] = f[n]
        BY <3>2
      <4>3. f[n] = IF n = 0 THEN 0 ELSE f[n - 1] + Size[s[n]]
        BY <4>1, <2>1
      <4>4. n # 0 => n - 1 \in 0..(k + 1) /\ n - 1 # k + 1
        BY <4>1, <2>0
      <4>5. n # 0 => g[n - 1] = f[n - 1]
        BY <4>4
      <4> HIDE DEF g
      <4> QED BY <4>2, <4>3, <4>5
    <3> QED BY <3>1, <3>2
  <2>4. Solves(g, k + 1)
    <3>1. g = [n \in 0..(k + 1) |-> g[n]]
      OBVIOUS
    <3> HIDE DEF g
    <3> QED BY <3>1, <2>3
  <2>5. k + 1 \in 0..N
    BY <2>0
  <2> HIDE DEF g, Solves
  <2> QED BY <2>2, <2>4, <2>5
<1> HIDE DEF Solves
<1>3. PICK f \in [0..N -> Nat] : Solves(f, N)
  <2>1. \A n \in 0..N : n \in S
    <3> HIDE DEF S
    <3> QED BY <1>0, <1>1, <1>2, UpTo
  <2> QED BY <2>1, <1>0
<1> DEFINE c == CHOOSE g : Solves(g, N)
<1>4. Solves(c, N)
  BY <1>3
<1>5. Bytes(s) = c[N]
  BY DEF Bytes, Solves
<1> HIDE DEF c
<1>6. DOMAIN c = 0..N /\ c[0] = 0 /\ \A n \in 1..N : c[n] = c[n - 1] + Size[s[n]]
  BY <1>4, <1>0 DEF Solves
<1>7. \A n \in 0..N : c[n] \in Nat
  <2> DEFINE T == {n \in 0..N : c[n] \in Nat}
  <2>1. 0 \in T
    BY <1>6, <1>0
  <2>2. ASSUME NEW n \in 0..(N - 1), n \in T PROVE n + 1 \in T
    <3>1. n + 1 \in 1..N /\ n + 1 \in 0..N /\ (n + 1) - 1 = n
      BY <1>0
    <3> QED BY <3>1, <2>2, <1>0, <1>6
  <2> HIDE DEF T
  <2>3. \A n \in 0..N : n \in T
    BY <1>0, <2>1, <2>2, UpTo
  <2> QED BY <2>3 DEF T
<1>8. c = [n \in 0..N |-> c[n]]
  BY <1>4 DEF Solves
<1>9. Sums(c, s)
  BY <1>6, <1>7, <1>8 DEF Sums
<1> QED BY <1>5, <1>9

\* The size of two sequences one after the other.
LEMMA BytesConcat ==
    ASSUME NEW s \in Seq(Records), NEW t \in Seq(Records)
    PROVE  Bytes(s \o t) = Bytes(s) + Bytes(t)
<1> DEFINE u == s \o t
           m == Len(s)
           k == Len(t)
<1>0. /\ m \in Nat /\ k \in Nat /\ u \in Seq(Records) /\ Len(u) = m + k
      /\ \A n \in 1..(m + k) : u[n] = IF n <= m THEN s[n] ELSE t[n - m]
  BY ConcatProperties, LenProperties
<1>1. PICK f : Sums(f, s) /\ Bytes(s) = f[m]
  BY BytesIsSum
<1>2. PICK g : Sums(g, t) /\ Bytes(t) = g[k]
  BY BytesIsSum
<1>3. PICK h : Sums(h, u) /\ Bytes(u) = h[m + k]
  BY <1>0, BytesIsSum
<1> HIDE DEF u, m, k
<1>4. /\ f \in [0..m -> Nat] /\ f[0] = 0 /\ \A n \in 1..m : f[n] = f[n - 1] + Size[s[n]]
      /\ g \in [0..k -> Nat] /\ g[0] = 0 /\ \A n \in 1..k : g[n] = g[n - 1] + Size[t[n]]
      /\ h \in [0..(m + k) -> Nat] /\ h[0] = 0
      /\ \A n \in 1..(m + k) : h[n] = h[n - 1] + Size[u[n]]
  BY <1>0, <1>1, <1>2, <1>3 DEF Sums, m, k
<1>z. \A n \in 1..k : Size[t[n]] \in Nat
  BY SinkAssumption, ElementOfSeq DEF k
<1>5. \A n \in 0..m : h[n] = f[n]
  <2> DEFINE S == {n \in 0..m : h[n] = f[n]}
  <2>1. 0 \in S
    BY <1>0, <1>4
  <2>2. ASSUME NEW n \in 0..(m - 1), n \in S PROVE n + 1 \in S
    <3>1. n + 1 \in 1..m /\ n + 1 \in 1..(m + k) /\ (n + 1) - 1 = n /\ n + 1 \in 0..m
      BY <1>0
    <3>2. u[n + 1] = s[n + 1]
      BY <3>1, <1>0
    <3>3. h[n + 1] = h[n] + Size[u[n + 1]] /\ f[n + 1] = f[n] + Size[s[n + 1]]
      BY <3>1, <1>4
    <3> QED BY <3>1, <3>2, <3>3, <2>2
  <2> HIDE DEF S
  <2>3. \A n \in 0..m : n \in S
    BY <1>0, <2>1, <2>2, UpTo
  <2> QED BY <2>3 DEF S
<1>6. \A n \in 0..k : h[m + n] = f[m] + g[n]
  <2> DEFINE S == {n \in 0..k : h[m + n] = f[m] + g[n]}
  <2>0. f[m] \in Nat /\ h[m] = f[m]
    BY <1>0, <1>4, <1>5
  <2>1. 0 \in S
    BY <1>0, <1>4, <2>0
  <2>2. ASSUME NEW n \in 0..(k - 1), n \in S PROVE n + 1 \in S
    <3>1. /\ n + 1 \in 1..k /\ (n + 1) - 1 = n /\ n + 1 \in 0..k /\ n \in 0..k
          /\ m + (n + 1) \in 1..(m + k) /\ (m + (n + 1)) - 1 = m + n
          /\ ~(m + (n + 1) <= m) /\ (m + (n + 1)) - m = n + 1
      BY <1>0
    <3>2. u[m + (n + 1)] = t[n + 1]
      BY <3>1, <1>0
    <3>3. h[m + (n + 1)] = h[m + n] + Size[t[n + 1]] /\ g[n + 1] = g[n] + Size[t[n + 1]]
      BY <3>1, <3>2, <1>4
    <3>4. g[n] \in Nat /\ Size[t[n + 1]] \in Nat
      BY <3>1, <1>4, <1>z
    <3>5. h[m + n] = f[m] + g[n]
      BY <2>2
    <3>6. h[m + (n + 1)] = f[m] + g[n + 1]
      BY <3>3, <3>4, <3>5, <2>0
    <3> QED BY <3>1, <3>6
  <2> HIDE DEF S
  <2>3. \A n \in 0..k : n \in S
    BY <1>0, <2>1, <2>2, UpTo
  <2> QED BY <2>3 DEF S
<1>7. k \in 0..k
  BY <1>0
<1> QED BY <1>1, <1>2, <1>3, <1>6, <1>7 DEF u

\* The size of no record, of one, and of any number.
LEMMA BytesFacts ==
    /\ Bytes(<<>>) = 0
    /\ \A r \in Records : Bytes(<<r>>) = Size[r]
    /\ \A s \in Seq(Records) : Bytes(s) \in Nat
<1>1. Bytes(<<>>) = 0
  <2>1. <<>> \in Seq(Records) /\ Len(<<>>) = 0
    OBVIOUS
  <2>2. PICK f : Sums(f, <<>>) /\ Bytes(<<>>) = f[Len(<<>>)]
    BY <2>1, BytesIsSum
  <2> QED BY <2>1, <2>2 DEF Sums
<1>2. ASSUME NEW r \in Records PROVE Bytes(<<r>>) = Size[r]
  <2>1. <<r>> \in Seq(Records) /\ Len(<<r>>) = 1 /\ <<r>>[1] = r
    OBVIOUS
  <2>2. PICK f : Sums(f, <<r>>) /\ Bytes(<<r>>) = f[1]
    BY <2>1, BytesIsSum
  <2>3. f[1] = f[1 - 1] + Size[r] /\ f[0] = 0
    BY <2>1, <2>2 DEF Sums
  <2> QED BY <2>2, <2>3, SinkAssumption
<1>3. ASSUME NEW s \in Seq(Records) PROVE Bytes(s) \in Nat
  <2>1. PICK f : Sums(f, s) /\ Bytes(s) = f[Len(s)]
    BY BytesIsSum
  <2>2. Len(s) \in 0..Len(s)
    BY LenProperties
  <2> QED BY <2>1, <2>2 DEF Sums
<1> QED BY <1>1, <1>2, <1>3

\* Records of at most m bytes each.
LEMMA BytesBound ==
    ASSUME NEW s \in Seq(Records), NEW m \in Nat, \A r \in Records : Size[r] <= m
    PROVE  Bytes(s) <= Len(s) * m
<1> DEFINE N == Len(s)
<1>0. N \in Nat
  BY LenProperties
<1>1. PICK f : Sums(f, s) /\ Bytes(s) = f[N]
  BY BytesIsSum
<1>2. \A n \in 1..N : Size[s[n]] \in Nat /\ Size[s[n]] <= m
  BY SinkAssumption, ElementOfSeq
<1> HIDE DEF N
<1>3. f \in [0..N -> Nat] /\ f[0] = 0 /\ \A n \in 1..N : f[n] = f[n - 1] + Size[s[n]]
  BY <1>1 DEF Sums, N
<1> DEFINE S == {n \in 0..N : f[n] <= n * m}
<1>4. 0 \in S
  BY <1>0, <1>3
<1>5. ASSUME NEW n \in 0..(N - 1), n \in S PROVE n + 1 \in S
  <2>1. n + 1 \in 1..N /\ (n + 1) - 1 = n /\ n + 1 \in 0..N /\ n \in 0..N /\ n \in Nat
    BY <1>0
  <2>2. f[n + 1] = f[n] + Size[s[n + 1]] /\ f[n] <= n * m /\ f[n] \in Nat
    BY <2>1, <1>3, <1>5
  <2>3. n * m \in Nat /\ (n + 1) * m = n * m + m
    BY <2>1
  <2>4. f[n + 1] <= (n + 1) * m
    BY <2>1, <2>2, <2>3, <1>2
  <2> QED BY <2>1, <2>4
<1> HIDE DEF S
<1>6. \A n \in 0..N : n \in S
  BY <1>0, <1>4, <1>5, UpTo
<1>7. f[N] <= N * m
  BY <1>0, <1>6 DEF S
<1> QED BY <1>1, <1>7 DEF N

Distinct(q) == \A i, j \in 1..Len(q) : q[i] = q[j] => i = j

\* q lists the records of S, each once.
List(q, S) == q \in Seq(Records) /\ Distinct(q) /\ Range(q) = S

\* What a sequence of records ranges over.
LEMMA RangeOf ==
    ASSUME NEW q \in Seq(Records)
    PROVE  /\ \A x : x \in Range(q) <=> \E i \in 1..Len(q) : q[i] = x
           /\ Range(q) \subseteq Records
<1>1. DOMAIN q = 1..Len(q) /\ \A i \in 1..Len(q) : q[i] \in Records
  BY LenProperties, ElementOfSeq
<1> QED BY <1>1 DEF Range

\* What a list made of two parts lists.
LEMMA TwoParts ==
    ASSUME NEW s \in Seq(Records), NEW t \in Seq(Records)
    PROVE  /\ Range(s \o t) = Range(s) \cup Range(t)
           /\ Distinct(s \o t) =>
                Distinct(s) /\ Distinct(t) /\ Range(s) \cap Range(t) = {}
           /\ Distinct(s) /\ Distinct(t) /\ Range(s) \cap Range(t) = {} => Distinct(s \o t)
<1> DEFINE u == s \o t
           m == Len(s)
           k == Len(t)
<1>0. /\ m \in Nat /\ k \in Nat /\ u \in Seq(Records) /\ Len(u) = m + k
      /\ \A n \in 1..(m + k) : u[n] = IF n <= m THEN s[n] ELSE t[n - m]
  BY ConcatProperties, LenProperties
<1>r. /\ \A x : x \in Range(s) <=> \E i \in 1..m : s[i] = x
      /\ \A x : x \in Range(t) <=> \E i \in 1..k : t[i] = x
  BY RangeOf
<1>u. \A x : x \in Range(u) <=> \E i \in 1..(m + k) : u[i] = x
  <2> HIDE DEF u, m, k
  <2> QED BY <1>0, RangeOf
<1> HIDE DEF u, m, k
<1>1. \A n \in 1..m : n \in 1..(m + k) /\ u[n] = s[n]
  BY <1>0
<1>2. \A n \in 1..k : m + n \in 1..(m + k) /\ u[m + n] = t[n]
  <2> TAKE n \in 1..k
  <2>1. m + n \in 1..(m + k) /\ ~(m + n <= m) /\ (m + n) - m = n
    BY <1>0
  <2> QED BY <2>1, <1>0
<1>3. \A n \in 1..(m + k) : n \in 1..m \/ \E j \in 1..k : n = m + j
  <2> TAKE n \in 1..(m + k)
  <2>1. CASE n <= m
    BY <2>1, <1>0
  <2>2. CASE ~(n <= m)
    <3>1. n - m \in 1..k /\ n = m + (n - m)
      BY <2>2, <1>0
    <3> QED BY <3>1
  <2> QED BY <2>1, <2>2
<1>4. Range(u) = Range(s) \cup Range(t)
  <2>1. ASSUME NEW x \in Range(u) PROVE x \in Range(s) \cup Range(t)
    <3>1. PICK n \in 1..(m + k) : u[n] = x
      BY <1>u
    <3>2. CASE n \in 1..m
      BY <3>1, <3>2, <1>1, <1>r
    <3>3. ASSUME NEW j \in 1..k, n = m + j PROVE x \in Range(t)
      BY <3>1, <3>3, <1>2, <1>r
    <3> QED BY <3>2, <3>3, <1>3
  <2>2. ASSUME NEW x \in Range(s) PROVE x \in Range(u)
    <3>1. PICK n \in 1..m : s[n] = x
      BY <1>r
    <3> QED BY <3>1, <1>1, <1>u
  <2>3. ASSUME NEW x \in Range(t) PROVE x \in Range(u)
    <3>1. PICK n \in 1..k : t[n] = x
      BY <1>r
    <3> QED BY <3>1, <1>2, <1>u
  <2> QED BY <2>1, <2>2, <2>3
<1>5. ASSUME Distinct(u)
      PROVE  Distinct(s) /\ Distinct(t) /\ Range(s) \cap Range(t) = {}
  <2>0. \A i, j \in 1..(m + k) : u[i] = u[j] => i = j
    BY <1>5, <1>0 DEF Distinct
  <2>1. Distinct(s)
    BY <2>0, <1>1 DEF Distinct, m
  <2>2. \A i, j \in 1..k : t[i] = t[j] => i = j
    <3> TAKE i, j \in 1..k
    <3>1. t[i] = t[j] => m + i = m + j
      BY <2>0, <1>2
    <3> QED BY <3>1, <1>0
  <2>3. ASSUME NEW x \in Range(s) \cap Range(t) PROVE FALSE
    <3>1. PICK i \in 1..m : s[i] = x
      BY <1>r
    <3>2. PICK j \in 1..k : t[j] = x
      BY <1>r
    <3>3. i = m + j
      BY <3>1, <3>2, <1>1, <1>2, <2>0
    <3> QED BY <3>3, <1>0
  <2> QED BY <2>1, <2>2, <2>3 DEF Distinct, k
<1>6. ASSUME Distinct(s), Distinct(t), Range(s) \cap Range(t) = {}
      PROVE  Distinct(u)
  <2>0. /\ \A i, j \in 1..m : s[i] = s[j] => i = j
        /\ \A i, j \in 1..k : t[i] = t[j] => i = j
    BY <1>6 DEF Distinct, m, k
  <2> SUFFICES ASSUME NEW i \in 1..(m + k), NEW j \in 1..(m + k), u[i] = u[j]
               PROVE  i = j
    BY <1>0 DEF Distinct
  <2>1. CASE i \in 1..m /\ j \in 1..m
    BY <2>1, <2>0, <1>1
  <2>2. ASSUME NEW a \in 1..k, i = m + a, NEW b \in 1..k, j = m + b PROVE i = j
    BY <2>2, <2>0, <1>2
  <2>3. ASSUME i \in 1..m, NEW b \in 1..k, j = m + b PROVE FALSE
    BY <2>3, <1>1, <1>2, <1>6, <1>r
  <2>4. ASSUME j \in 1..m, NEW b \in 1..k, i = m + b PROVE FALSE
    BY <2>4, <1>1, <1>2, <1>6, <1>r
  <2> QED BY <2>1, <2>2, <2>3, <2>4, <1>3
<1> QED BY <1>4, <1>5, <1>6 DEF u

\* A list of S has one place per record.
LEMMA ListCard ==
    ASSUME NEW q, NEW S, List(q, S)
    PROVE  IsFiniteSet(S) /\ Cardinality(S) = Len(q)
<1> DEFINE N == Len(q)
<1>0. N \in Nat /\ q \in [1..N -> Records] /\ q \in Seq(Records)
  BY LenProperties DEF List
<1>1. \A x : x \in S <=> \E i \in 1..N : q[i] = x
  BY <1>0, RangeOf DEF List
<1>2. \A i, j \in 1..N : q[i] = q[j] => i = j
  BY DEF List, Distinct
<1> HIDE DEF N
<1>3. q \in Bijection(1..N, S)
  <2>1. q \in [1..N -> S]
    BY <1>0, <1>1
  <2>2. q \in Injection(1..N, S)
    BY <2>1, <1>2, <1>0 DEF Injection, IsInjective
  <2>3. q \in Surjection(1..N, S)
    BY <2>1, <1>1 DEF Surjection
  <2> QED BY <2>2, <2>3 DEF Bijection
<1>4. ExistsBijection(1..N, S)
  BY <1>3 DEF ExistsBijection
<1>5. IsFiniteSet(1..N) /\ Cardinality(1..N) = N
  BY <1>0, FS_Interval
<1> QED BY <1>4, <1>5, FS_Bijection DEF N

\* The list of one record.
LEMMA OneRecord ==
    ASSUME NEW r \in Records
    PROVE  \E o : /\ o = <<r>> /\ o \in Seq(Records) /\ Range(o) = {r} /\ Distinct(o)
                 /\ Bytes(o) = Size[r]
<1>1. <<r>> \in Seq(Records) /\ Len(<<r>>) = 1 /\ <<r>>[1] = r
  OBVIOUS
<1>2. \A x : x \in Range(<<r>>) <=> \E i \in 1..1 : <<r>>[i] = x
  BY <1>1, RangeOf
<1>3. Range(<<r>>) = {r} /\ Distinct(<<r>>)
  BY <1>1, <1>2 DEF Distinct
<1> QED BY <1>1, <1>3, BytesFacts

\* One more record at the end of a list.
LEMMA ListAdd ==
    ASSUME NEW q, NEW S, List(q, S), NEW r \in Records, r \notin S
    PROVE  List(q \o <<r>>, S \cup {r}) /\ Bytes(q \o <<r>>) = Bytes(q) + Size[r]
<1>1. q \in Seq(Records) /\ Range(q) = S /\ Distinct(q)
  BY DEF List
<1>2. PICK o : /\ o = <<r>> /\ o \in Seq(Records) /\ Range(o) = {r} /\ Distinct(o)
               /\ Bytes(o) = Size[r]
  BY OneRecord
<1>3. q \o o \in Seq(Records) /\ Bytes(q \o o) = Bytes(q) + Bytes(o)
  BY <1>1, <1>2, ConcatProperties, BytesConcat
<1>4. Range(q \o o) = Range(q) \cup Range(o) /\ Distinct(q \o o)
  <2>1. Range(q) \cap Range(o) = {}
    BY <1>1, <1>2
  <2> QED BY <2>1, <1>1, <1>2, TwoParts
<1>5. List(q \o o, S \cup {r})
  BY <1>1, <1>2, <1>3, <1>4 DEF List
<1> QED BY <1>2, <1>3, <1>5

\* A list without one of its records.
LEMMA ListRemove ==
    ASSUME NEW q, NEW S, List(q, S), NEW r \in S
    PROVE  \E p : List(p, S \ {r}) /\ Bytes(p) + Size[r] = Bytes(q)
<1>0. q \in Seq(Records) /\ Len(q) \in Nat /\ Distinct(q) /\ Range(q) = S
  BY LenProperties DEF List
<1>1. PICK i \in 1..Len(q) : q[i] = r
  BY <1>0, RangeOf
<1> DEFINE a == SubSeq(q, 1, i - 1)
           b == SubSeq(q, i + 1, Len(q))
<1>2. a \in Seq(Records) /\ b \in Seq(Records)
  BY <1>0, SubSeqProperties
<1>3. q = (a \o <<r>>) \o b
  <2>1. SubSeq(q, 1, i) = a \o <<q[i]>>
    BY <1>0, SubSeqRecursiveSecond
  <2>2. SubSeq(q, 1, i) \o b = SubSeq(q, 1, Len(q))
    BY <1>0, ConcatAdjacentSubSeq
  <2>3. SubSeq(q, 1, Len(q)) = q
    BY <1>0, SubSeqFull
  <2> QED BY <2>1, <2>2, <2>3, <1>1
<1> HIDE DEF a, b
<1>4. r \in Records
  BY <1>0, <1>1, ElementOfSeq
<1>5. PICK o : /\ o = <<r>> /\ o \in Seq(Records) /\ Range(o) = {r} /\ Distinct(o)
               /\ Bytes(o) = Size[r]
  BY <1>4, OneRecord
<1> DEFINE c == a \o o
<1>6. c \in Seq(Records) /\ Bytes(c) = Bytes(a) + Size[r] /\ Range(c) = Range(a) \cup {r}
  <2>1. c \in Seq(Records) /\ Bytes(c) = Bytes(a) + Bytes(o)
    BY <1>2, <1>5, ConcatProperties, BytesConcat
  <2>2. Range(c) = Range(a) \cup Range(o)
    BY <1>2, <1>5, TwoParts
  <2> QED BY <2>1, <2>2, <1>5
<1>7. Distinct(c) => Distinct(a) /\ r \notin Range(a)
  <2>1. Distinct(c) => Distinct(a) /\ Range(a) \cap Range(o) = {}
    BY <1>2, <1>5, TwoParts
  <2> QED BY <2>1, <1>5
<1> HIDE DEF c
<1>8. /\ Distinct(c) /\ Distinct(b) /\ Range(c) \cap Range(b) = {}
      /\ S = Range(c) \cup Range(b) /\ Bytes(q) = Bytes(c) + Bytes(b)
  <2>1. q = c \o b
    BY <1>3, <1>5 DEF c
  <2> QED BY <2>1, <1>0, <1>2, <1>6, TwoParts, BytesConcat
<1>9. /\ a \o b \in Seq(Records) /\ Bytes(a \o b) = Bytes(a) + Bytes(b)
      /\ Range(a \o b) = S \ {r} /\ Distinct(a \o b)
  <2>1. a \o b \in Seq(Records) /\ Bytes(a \o b) = Bytes(a) + Bytes(b)
    BY <1>2, ConcatProperties, BytesConcat
  <2>2. Range(a) \cap Range(b) = {} /\ Range(a) \cup Range(b) = S \ {r}
    BY <1>6, <1>7, <1>8
  <2> QED BY <2>1, <2>2, <1>2, <1>7, <1>8, TwoParts
<1>10. Bytes(a \o b) + Size[r] = Bytes(q)
  <2>1. Bytes(a) \in Nat /\ Bytes(b) \in Nat /\ Size[r] \in Nat
    BY <1>2, <1>4, BytesFacts, SinkAssumption
  <2> QED BY <2>1, <1>6, <1>8, <1>9
<1>11. List(a \o b, S \ {r})
  BY <1>9 DEF List
<1> QED BY <1>10, <1>11

\* Nothing is listed in no bytes.
LEMMA ListOfNone ==
    ASSUME NEW q, List(q, {})
    PROVE  Bytes(q) = 0
<1>1. q \in Seq(Records) /\ Len(q) \in Nat /\ Range(q) = {}
  BY LenProperties DEF List
<1>2. Len(q) = 0
  <2>1. Len(q) # 0 => 1 \in 1..Len(q)
    BY <1>1
  <2> QED BY <1>1, <2>1, RangeOf
<1>3. q = <<>>
  <2>1. q # <<>> => Len(q) \in Nat \ {0}
    BY <1>1, EmptySeq
  <2> QED BY <2>1, <1>2
<1> QED BY <1>3, BytesFacts

\* Finitely many records have a size in common that none exceeds.
LEMMA SomeBound == \E M \in Nat : \A x \in Records : Size[x] <= M
<1> DEFINE N == Cardinality(Records)
<1>1. N \in Nat /\ ExistsBijection(1..N, Records)
  BY SinkAssumption, FS_CardinalityType
<1>2. PICK f : f \in Bijection(1..N, Records)
  BY <1>1 DEF ExistsBijection
<1>3. f \in [1..N -> Records] /\ \A x \in Records : \E i \in 1..N : f[i] = x
  BY <1>2 DEF Bijection, Injection, Surjection
<1> HIDE DEF N
<1> DEFINE S == {k \in 0..N : \E M \in Nat : \A i \in 1..k : Size[f[i]] <= M}
<1>4. 0 \in S
  BY <1>1
<1>5. ASSUME NEW k \in 0..(N - 1), k \in S PROVE k + 1 \in S
  <2>1. PICK M \in Nat : \A i \in 1..k : Size[f[i]] <= M
    BY <1>5
  <2>2. /\ k + 1 \in 1..N /\ k + 1 \in 0..N
        /\ \A i \in 1..(k + 1) : i # k + 1 => i \in 1..k
    BY <1>1
  <2> DEFINE m == Size[f[k + 1]]
  <2>3. m \in Nat
    BY <2>2, <1>3, SinkAssumption
  <2>4. ASSUME NEW i \in 1..(k + 1) PROVE Size[f[i]] <= M + m
    <3>1. i \in 1..N /\ Size[f[i]] \in Nat
      BY <2>2, <1>1, <1>3, SinkAssumption
    <3>2. CASE i = k + 1
      BY <3>2, <2>3, <2>1
    <3>3. CASE i # k + 1
      BY <3>3, <3>1, <2>1, <2>2, <2>3
    <3> QED BY <3>2, <3>3
  <2>5. M + m \in Nat
    BY <2>1, <2>3
  <2> HIDE DEF m
  <2> QED BY <2>2, <2>4, <2>5
<1> HIDE DEF S
<1>6. \A k \in 0..N : k \in S
  BY <1>1, <1>4, <1>5, UpTo
<1>7. PICK M \in Nat : \A i \in 1..N : Size[f[i]] <= M
  <2>1. N \in 0..N
    BY <1>1
  <2>2. N \in S
    BY <1>6, <2>1
  <2> QED BY <2>2 DEF S
<1> QED BY <1>3, <1>7

\* There is a largest record.
LEMMA Largest == \E r \in Records : \A x \in Records : Size[x] <= Size[r]
<1>m. PICK M \in Nat : \A x \in Records : Size[x] <= M
  BY SomeBound
<1>0. \A x \in Records : Size[x] \in Nat /\ Size[x] <= M
  BY <1>m, SinkAssumption
<1> DEFINE S == {M - Size[x] : x \in Records}
<1>1. S \in SUBSET Nat /\ S # {}
  BY <1>0, SinkAssumption
<1>2. PICK n \in S : \A m \in S : n <= m
  <2> HIDE DEF S
  <2> QED BY <1>1, Least
<1>3. PICK r \in Records : n = M - Size[r]
  OBVIOUS
<1>4. ASSUME NEW x \in Records PROVE Size[x] <= Size[r]
  <2>1. M - Size[r] <= M - Size[x]
    BY <1>2, <1>3
  <2>2. Size[x] \in Nat /\ Size[r] \in Nat
    BY SinkAssumption
  <2> QED BY <2>1, <2>2
<1> QED BY <1>4

Stages == {"new", "passed", "sent", "counted", "dropped"}

SinkTypes ==
    /\ offer \in [Records -> Stages]
    /\ queue \in Seq(Records) /\ received \in Seq(Records) /\ pending \in Seq(Records)
    /\ queuedBytes \in Int /\ dropped \in Nat
    /\ delivered \subseteq Records /\ abandoned \subseteq Records

At(of, stages) == {r \in Records : of[r] \in stages}

\* The records on their way, in the order they leave.
Line == (pending \o received) \o queue

\* ln are the records on their way, gone those that arrived or were abandoned,
\* each in one place, and n counts the answered ones that are in none.
Custody(of, ln, gone, n) ==
    /\ Distinct(ln)
    /\ Range(ln) \cup gone \subseteq At(of, {"sent", "counted"})
    /\ Range(ln) \cap gone = {}
    /\ n = Cardinality(At(of, {"sent", "counted", "dropped"}) \ (Range(ln) \cup gone))

\* The counter lacks the records sent and not yet counted.
Counter ==
    \E q : /\ List(q, At(offer, {"sent"}))
           /\ queuedBytes + Bytes(q) = Bytes(queue) + Bytes(received)

\* What is queued and what has passed the check keep to the bound together.
Memory ==
    \E q : /\ List(q, At(offer, {"passed"}))
           /\ \A m \in Nat : (\A r \in Records : Size[r] <= m) =>
                 Bytes(queue) + Bytes(received) + Bytes(q) <= MaxBytes + (MaxOffers - 1) * m

SinkInv ==
    /\ SinkTypes
    /\ Custody(offer, Line, delivered \cup abandoned, dropped)
    /\ Counter
    /\ Memory

\* Nothing is cut off before the process is told to stop.
Unstopped == ~stopping => abandoned = {} /\ ~returned

\* The line is what the loop works on and what is in the channel.
LEMMA LineHolds ==
    ASSUME SinkTypes
    PROVE  /\ Line \in Seq(Records)
           /\ Range(Line) = Range(received) \cup Range(pending) \cup Range(queue)
           /\ pending \o received \in Seq(Records)
           /\ Range(pending \o received) = Range(pending) \cup Range(received)
<1> DEFINE s == pending \o received
<1>1. s \in Seq(Records) /\ Range(s) = Range(pending) \cup Range(received)
  BY ConcatProperties, TwoParts DEF SinkTypes
<1> HIDE DEF s
<1>2. s \o queue \in Seq(Records) /\ Range(s \o queue) = Range(s) \cup Range(queue)
  BY <1>1, ConcatProperties, TwoParts DEF SinkTypes
<1> QED BY <1>1, <1>2 DEF s, Line

\* Of finitely many records, so many are at some stages.
LEMMA AtFinite ==
    ASSUME NEW of, NEW stages, NEW S
    PROVE  /\ IsFiniteSet(At(of, stages) \ S) /\ Cardinality(At(of, stages) \ S) \in Nat
           /\ IsFiniteSet(At(of, stages))
<1>1. At(of, stages) \ S \in SUBSET Records /\ At(of, stages) \in SUBSET Records
  BY DEF At
<1> QED BY <1>1, SinkAssumption, FS_Subset, FS_CardinalityType

\* The sink starts empty.
LEMMA SinkStarts == SinkInit => SinkInv
<1> SUFFICES ASSUME SinkInit PROVE SinkInv
  OBVIOUS
<1> USE SinkAssumption DEF SinkInit
<1>1. SinkTypes
  BY DEF SinkTypes, Stages
<1>2. At(offer, {"sent"}) = {} /\ At(offer, {"passed"}) = {} /\ At(offer, {"sent", "counted", "dropped"}) = {}
  BY DEF At
<1>3. List(<<>>, {})
  <2>1. PICK e : e = <<>> /\ e \in Seq(Records) /\ Len(e) = 0
    BY EmptySeq
  <2>2. \A x : x \in Range(e) <=> \E i \in 1..Len(e) : e[i] = x
    BY <2>1, RangeOf
  <2>3. Range(e) = {} /\ Distinct(e)
    BY <2>1, <2>2 DEF Distinct
  <2> QED BY <2>1, <2>3 DEF List
<1>4. Counter
  BY <1>2, <1>3, BytesFacts DEF Counter
<1>5. Memory
  <2>1. ASSUME NEW m \in Nat PROVE 0 + 0 + 0 <= MaxBytes + (MaxOffers - 1) * m
    <3>1. MaxOffers - 1 \in Nat /\ MaxBytes \in Nat
      OBVIOUS
    <3>2. (MaxOffers - 1) * m \in Nat
      BY <3>1
    <3> QED BY <3>1, <3>2
  <2>2. Bytes(queue) = 0 /\ Bytes(received) = 0 /\ Bytes(<<>>) = 0
    BY BytesFacts
  <2>3. List(<<>>, At(offer, {"passed"}))
    BY <1>2, <1>3
  <2>4. \A m \in Nat : Bytes(queue) + Bytes(received) + Bytes(<<>>) <= MaxBytes + (MaxOffers - 1) * m
    BY <2>1, <2>2
  <2> QED BY <2>3, <2>4 DEF Memory
<1>6. Custody(offer, Line, delivered \cup abandoned, dropped)
  <2>1. Line = <<>>
    BY DEF Line
  <2>2. Distinct(<<>>) /\ Range(<<>>) = {}
    BY <1>3 DEF List
  <2> QED BY <2>1, <2>2, <1>2, FS_EmptySet DEF Custody
<1> QED BY <1>1, <1>4, <1>5, <1>6 DEF SinkInv

\* An offer is dropped and counted.
LEMMA CustodyDrops ==
    ASSUME NEW of \in [Records -> Stages], NEW ln, NEW gone, NEW n, Custody(of, ln, gone, n),
           NEW r \in Records, of[r] \in {"new", "passed"}
    PROVE  Custody([of EXCEPT ![r] = "dropped"], ln, gone, n + 1)
<1> DEFINE new == [of EXCEPT ![r] = "dropped"]
           lost == At(of, {"sent", "counted", "dropped"}) \ (Range(ln) \cup gone)
<1>1. \A x \in Records : new[x] = IF x = r THEN "dropped" ELSE of[x]
  OBVIOUS
<1> HIDE DEF new
<1>2. r \notin At(of, {"sent", "counted", "dropped"}) /\ r \notin At(of, {"sent", "counted"})
  BY DEF At
<1>3. /\ At(new, {"sent", "counted", "dropped"}) = At(of, {"sent", "counted", "dropped"}) \cup {r}
      /\ At(new, {"sent", "counted"}) = At(of, {"sent", "counted"})
  BY <1>1, <1>2 DEF At
<1>4. r \notin Range(ln) \cup gone /\ n = Cardinality(lost)
  BY <1>2 DEF Custody
<1>5. At(new, {"sent", "counted", "dropped"}) \ (Range(ln) \cup gone) = lost \cup {r} /\ r \notin lost
  BY <1>2, <1>3, <1>4
<1>6. IsFiniteSet(lost)
  BY AtFinite
<1>7. Cardinality(lost \cup {r}) = n + 1
  <2> HIDE DEF lost
  <2> QED BY <1>4, <1>5, <1>6, FS_AddElement
<1> QED BY <1>3, <1>5, <1>7 DEF Custody, new

\* An offer moves on before or after it is on its way.
LEMMA CustodyMoves ==
    ASSUME NEW of \in [Records -> Stages], NEW ln, NEW gone, NEW n, Custody(of, ln, gone, n),
           NEW r \in Records, NEW to \in Stages,
           \/ of[r] = "new" /\ to = "passed"
           \/ of[r] = "sent" /\ to = "counted"
    PROVE  Custody([of EXCEPT ![r] = to], ln, gone, n)
<1> DEFINE new == [of EXCEPT ![r] = to]
<1>1. \A x \in Records : new[x] = IF x = r THEN to ELSE of[x]
  OBVIOUS
<1> HIDE DEF new
<1>2. /\ At(new, {"sent", "counted", "dropped"}) = At(of, {"sent", "counted", "dropped"})
      /\ At(new, {"sent", "counted"}) = At(of, {"sent", "counted"})
  BY <1>1 DEF At
<1> QED BY <1>2 DEF Custody, new

\* An offer is sent.
LEMMA CustodySends ==
    ASSUME NEW of \in [Records -> Stages], NEW ln \in Seq(Records), NEW gone, NEW n,
           Custody(of, ln, gone, n), NEW r \in Records, of[r] = "passed"
    PROVE  Custody([of EXCEPT ![r] = "sent"], ln \o <<r>>, gone, n)
<1> DEFINE new == [of EXCEPT ![r] = "sent"]
<1>1. \A x \in Records : new[x] = IF x = r THEN "sent" ELSE of[x]
  OBVIOUS
<1> HIDE DEF new
<1>2. r \notin At(of, {"sent", "counted", "dropped"}) /\ r \notin At(of, {"sent", "counted"})
  BY DEF At
<1>3. /\ At(new, {"sent", "counted", "dropped"}) = At(of, {"sent", "counted", "dropped"}) \cup {r}
      /\ At(new, {"sent", "counted"}) = At(of, {"sent", "counted"}) \cup {r}
  BY <1>1, <1>2 DEF At
<1>4. r \notin Range(ln) \cup gone
  BY <1>2 DEF Custody
<1>5. List(ln, Range(ln))
  BY DEF Custody, List
<1>6. Distinct(ln \o <<r>>) /\ Range(ln \o <<r>>) = Range(ln) \cup {r}
  BY <1>4, <1>5, ListAdd DEF List
<1>7. At(new, {"sent", "counted", "dropped"}) \ (Range(ln \o <<r>>) \cup gone)
        = At(of, {"sent", "counted", "dropped"}) \ (Range(ln) \cup gone)
  BY <1>2, <1>3, <1>6
<1> QED BY <1>3, <1>4, <1>6, <1>7 DEF Custody, new

\* The arithmetic of the check: what is on its way, with b bytes counted at c
\* and q not, and the records p passed before a record of z bytes.
LEMMA Room ==
    ASSUME NEW b \in Nat, NEW c \in Int, NEW q \in Nat, NEW p \in Nat, NEW z \in Nat,
           NEW x \in Nat, NEW y \in Nat, NEW w \in Int, NEW max \in Nat,
           c + q = b, q <= x, p <= y, x + y <= w, c + z <= max
    PROVE  b + (p + z) <= max + w
  OBVIOUS

\* Two disjoint sets have as many elements as both together.
LEMMA DisjointCard ==
    ASSUME NEW A, NEW B, IsFiniteSet(A), IsFiniteSet(B), A \cap B = {}
    PROVE  Cardinality(A \cup B) = Cardinality(A) + Cardinality(B)
<1>1. Cardinality(A \cup B) = Cardinality(A) + Cardinality(B) - Cardinality(A \cap B)
  BY FS_Union
<1>2. Cardinality(A) \in Nat /\ Cardinality(B) \in Nat /\ Cardinality(A \cap B) = 0
  BY FS_CardinalityType, FS_EmptySet
<1> QED BY <1>1, <1>2

\* Three sequences one after the other.
LEMMA Associative ==
    ASSUME NEW s \in Seq(Records), NEW t \in Seq(Records), NEW u \in Seq(Records)
    PROVE  (s \o t) \o u = s \o (t \o u)
  BY ConcatAssociative

\* Offer reads the counter: what passed before it and was not counted then is
\* of the handlers in Offer, one record each.
LEMMA CheckKeeps ==
    ASSUME SinkInv, NEW r \in Records, OfferCheck(r)
    PROVE  SinkInv'
<1> USE SinkAssumption
<1>0. /\ offer \in [Records -> Stages] /\ queuedBytes \in Int /\ dropped \in Nat
      /\ queue \in Seq(Records) /\ received \in Seq(Records) /\ offer[r] = "new"
      /\ UNCHANGED <<queue, queuedBytes, received, pending, delivered, abandoned>>
      /\ Custody(offer, Line, delivered \cup abandoned, dropped)
  BY DEF SinkInv, SinkTypes, OfferCheck, loopVars
<1>1. Line' = Line
  BY <1>0 DEF Line
<1>2. PICK q : /\ List(q, At(offer, {"sent"}))
               /\ queuedBytes + Bytes(q) = Bytes(queue) + Bytes(received)
  BY DEF SinkInv, Counter
<1>3. PICK p : /\ List(p, At(offer, {"passed"}))
               /\ \A m \in Nat : (\A x \in Records : Size[x] <= m) =>
                     Bytes(queue) + Bytes(received) + Bytes(p) <= MaxBytes + (MaxOffers - 1) * m
  BY DEF SinkInv, Memory
<1>4. CASE queuedBytes + Size[r] > MaxBytes
  <2>1. offer' = [offer EXCEPT ![r] = "dropped"] /\ dropped' = dropped + 1
    BY <1>4 DEF OfferCheck
  <2>2. SinkTypes'
    BY <1>0, <2>1 DEF SinkInv, SinkTypes, Stages
  <2>3. Custody(offer', Line', delivered' \cup abandoned', dropped')
    BY <1>0, <1>1, <2>1, CustodyDrops
  <2>4. At(offer', {"sent"}) = At(offer, {"sent"}) /\ At(offer', {"passed"}) = At(offer, {"passed"})
    BY <1>0, <2>1 DEF At
  <2>5. Counter' /\ Memory'
    BY <1>0, <1>2, <1>3, <2>4 DEF Counter, Memory
  <2> QED BY <2>2, <2>3, <2>5 DEF SinkInv
<1>5. CASE ~(queuedBytes + Size[r] > MaxBytes)
  <2>1. offer' = [offer EXCEPT ![r] = "passed"] /\ dropped' = dropped
    BY <1>5 DEF OfferCheck
  <2>2. SinkTypes'
    BY <1>0, <2>1 DEF SinkInv, SinkTypes, Stages
  <2>3. Custody(offer', Line', delivered' \cup abandoned', dropped')
    BY <1>0, <1>1, <2>1, CustodyMoves DEF Stages
  <2>4. /\ At(offer', {"sent"}) = At(offer, {"sent"})
        /\ At(offer', {"passed"}) = At(offer, {"passed"}) \cup {r}
        /\ r \notin At(offer, {"passed"})
    BY <1>0, <2>1 DEF At
  <2>5. Counter'
    BY <1>0, <1>2, <2>4 DEF Counter
  <2> DEFINE p2 == p \o <<r>>
  <2>6. List(p2, At(offer', {"passed"})) /\ Bytes(p2) = Bytes(p) + Size[r]
    BY <1>3, <2>4, ListAdd
  <2> HIDE DEF p2
  <2>7. Len(q) \in Nat /\ Len(p) \in Nat /\ Len(q) + Len(p) <= MaxOffers - 1
    <3>1. /\ IsFiniteSet(At(offer, {"sent"})) /\ Cardinality(At(offer, {"sent"})) = Len(q)
          /\ IsFiniteSet(At(offer, {"passed"})) /\ Cardinality(At(offer, {"passed"})) = Len(p)
      BY <1>2, <1>3, ListCard
    <3>2. /\ At(offer, {"sent"}) \cap At(offer, {"passed"}) = {}
          /\ At(offer, {"sent"}) \cup At(offer, {"passed"}) = InOffer
      BY DEF At, InOffer
    <3>3. Cardinality(InOffer) = Len(q) + Len(p)
      BY <3>1, <3>2, DisjointCard
    <3>4. Len(q) \in Nat /\ Len(p) \in Nat
      BY <3>1, FS_CardinalityType
    <3>5. Cardinality(InOffer) < MaxOffers
      BY DEF OfferCheck
    <3> QED BY <3>3, <3>4, <3>5
  <2>8. ASSUME NEW m \in Nat, \A x \in Records : Size[x] <= m
        PROVE  Bytes(queue) + Bytes(received) + Bytes(p2) <= MaxBytes + (MaxOffers - 1) * m
    <3>1. q \in Seq(Records) /\ p \in Seq(Records)
      BY <1>2, <1>3 DEF List
    <3>2. Bytes(q) <= Len(q) * m /\ Bytes(p) <= Len(p) * m
      BY <3>1, <2>8, BytesBound
    <3>3. /\ Bytes(q) \in Nat /\ Bytes(p) \in Nat /\ Bytes(queue) \in Nat
          /\ Bytes(received) \in Nat /\ Size[r] \in Nat
      BY <1>0, <3>1, BytesFacts
    <3>4. Len(q) * m + Len(p) * m <= (MaxOffers - 1) * m
      <4> DEFINE a == Len(q)
                 b == Len(p)
                 d == MaxOffers - 1 - (a + b)
      <4>1. a \in Nat /\ b \in Nat /\ d \in Nat /\ MaxOffers - 1 = a + b + d
        BY <2>7
      <4> HIDE DEF a, b, d
      <4>2. (a + b + d) * m = a * m + b * m + d * m /\ d * m \in Nat /\ a * m \in Nat /\ b * m \in Nat
        BY <4>1
      <4> QED BY <4>1, <4>2 DEF a, b
    <3>5. queuedBytes + Size[r] <= MaxBytes
      BY <1>0, <1>5, <3>3
    <3>6. Len(q) * m \in Nat /\ Len(p) * m \in Nat /\ (MaxOffers - 1) * m \in Int
      BY <2>7
    <3> DEFINE b == Bytes(queue) + Bytes(received)
    <3>7. b \in Nat /\ MaxBytes \in Nat
      BY <3>3
    <3>8. queuedBytes + Bytes(q) = b
      BY <1>2
    <3> HIDE DEF b
    <3>9. b + (Bytes(p) + Size[r]) <= MaxBytes + (MaxOffers - 1) * m
      BY <3>2, <3>3, <3>4, <3>5, <3>6, <3>7, <3>8, <1>0, Room
    <3> QED BY <3>9, <2>6 DEF b
  <2>9. Memory'
    BY <1>0, <2>6, <2>8 DEF Memory
  <2> QED BY <2>2, <2>3, <2>5, <2>9 DEF SinkInv
<1> QED BY <1>4, <1>5

\* Offer sends the record, or finds the channel full.
LEMMA SendKeeps ==
    ASSUME SinkInv, NEW r \in Records, OfferSend(r)
    PROVE  SinkInv'
<1> USE SinkAssumption
<1>0. /\ offer \in [Records -> Stages] /\ queuedBytes \in Int /\ dropped \in Nat
      /\ queue \in Seq(Records) /\ received \in Seq(Records) /\ offer[r] = "passed"
      /\ UNCHANGED <<queuedBytes, received, pending, delivered, abandoned>>
      /\ Custody(offer, Line, delivered \cup abandoned, dropped)
  BY DEF SinkInv, SinkTypes, OfferSend, loopVars
<1>2. PICK q : /\ List(q, At(offer, {"sent"}))
               /\ queuedBytes + Bytes(q) = Bytes(queue) + Bytes(received)
  BY DEF SinkInv, Counter
<1>3. PICK p : /\ List(p, At(offer, {"passed"}))
               /\ \A m \in Nat : (\A x \in Records : Size[x] <= m) =>
                     Bytes(queue) + Bytes(received) + Bytes(p) <= MaxBytes + (MaxOffers - 1) * m
  BY DEF SinkInv, Memory
<1>4. PICK p2 : List(p2, At(offer, {"passed"}) \ {r}) /\ Bytes(p2) + Size[r] = Bytes(p)
  <2>1. r \in At(offer, {"passed"})
    BY <1>0 DEF At
  <2> QED BY <2>1, <1>3, ListRemove
<1>5. /\ Bytes(p) \in Nat /\ Bytes(p2) \in Nat /\ Bytes(q) \in Nat /\ Bytes(queue) \in Nat
      /\ Bytes(received) \in Nat /\ Size[r] \in Nat
  BY <1>0, <1>2, <1>3, <1>4, BytesFacts DEF List
<1>6. CASE Len(queue) < QueueSize
  <2>1. /\ offer' = [offer EXCEPT ![r] = "sent"] /\ queue' = Append(queue, r)
        /\ dropped' = dropped
    BY <1>6 DEF OfferSend
  <2>2. queue' = queue \o <<r>>
    BY <1>0, <2>1, AppendIsConcat
  <2>3. queue' \in Seq(Records) /\ Bytes(queue') = Bytes(queue) + Size[r]
    <3>1. PICK o : o = <<r>> /\ o \in Seq(Records) /\ Bytes(o) = Size[r]
      BY OneRecord
    <3> QED BY <1>0, <2>2, <3>1, ConcatProperties, BytesConcat
  <2>4. SinkTypes'
    BY <1>0, <2>1, <2>3 DEF SinkInv, SinkTypes, Stages
  <2>5. Line' = Line \o <<r>>
    <3> DEFINE s == pending \o received
    <3>1. s \in Seq(Records)
      BY LineHolds DEF SinkInv
    <3>2. PICK o : o = <<r>> /\ o \in Seq(Records)
      BY OneRecord
    <3>3. s' = s /\ Line' = s' \o queue' /\ Line = s \o queue
      BY <1>0 DEF Line
    <3> HIDE DEF s
    <3>4. (s \o queue) \o o = s \o (queue \o o)
      BY <1>0, <3>1, <3>2, Associative
    <3> QED BY <3>2, <3>3, <3>4, <2>2
  <2>6. Custody(offer', Line', delivered' \cup abandoned', dropped')
    <3>1. Line \in Seq(Records)
      BY LineHolds DEF SinkInv
    <3> QED BY <1>0, <2>1, <2>5, <3>1, CustodySends
  <2>7. /\ At(offer', {"sent"}) = At(offer, {"sent"}) \cup {r} /\ r \notin At(offer, {"sent"})
        /\ At(offer', {"passed"}) = At(offer, {"passed"}) \ {r}
    BY <1>0, <2>1 DEF At
  <2> DEFINE q2 == q \o <<r>>
  <2>8. List(q2, At(offer', {"sent"})) /\ Bytes(q2) = Bytes(q) + Size[r]
    BY <1>2, <2>7, ListAdd
  <2> HIDE DEF q2
  <2>9. Counter'
    <3>0. /\ queuedBytes \in Int
          /\ queuedBytes + Bytes(q) = Bytes(queue) + Bytes(received)
      BY <1>0, <1>2
    <3>1. queuedBytes + (Bytes(q) + Size[r]) = (Bytes(queue) + Size[r]) + Bytes(received)
      BY <3>0, <1>5
    <3>2. queuedBytes' = queuedBytes /\ received' = received
      BY <1>0
    <3>3. queuedBytes' + Bytes(q2) = Bytes(queue') + Bytes(received')
      BY <3>1, <3>2, <2>3, <2>8
    <3> QED BY <3>3, <2>8 DEF Counter
  <2>10. Memory'
    <3>1. Bytes(queue') + Bytes(received') + Bytes(p2) = Bytes(queue) + Bytes(received) + Bytes(p)
      BY <1>0, <1>4, <1>5, <2>3
    <3> QED BY <3>1, <1>3, <1>4, <2>7 DEF Memory
  <2> QED BY <2>4, <2>6, <2>9, <2>10 DEF SinkInv
<1>7. CASE ~(Len(queue) < QueueSize)
  <2>1. /\ offer' = [offer EXCEPT ![r] = "dropped"] /\ queue' = queue
        /\ dropped' = dropped + 1
    BY <1>7 DEF OfferSend
  <2>2. SinkTypes'
    BY <1>0, <2>1 DEF SinkInv, SinkTypes, Stages
  <2>3. Line' = Line
    BY <1>0, <2>1 DEF Line
  <2>4. Custody(offer', Line', delivered' \cup abandoned', dropped')
    BY <1>0, <2>1, <2>3, CustodyDrops
  <2>5. /\ At(offer', {"sent"}) = At(offer, {"sent"})
        /\ At(offer', {"passed"}) = At(offer, {"passed"}) \ {r}
    BY <1>0, <2>1 DEF At
  <2>6. Counter'
    BY <1>0, <1>2, <2>1, <2>5 DEF Counter
  <2>7. Memory'
    <3>1. ASSUME NEW m \in Nat, \A x \in Records : Size[x] <= m
          PROVE  Bytes(queue) + Bytes(received) + Bytes(p2) <= MaxBytes + (MaxOffers - 1) * m
      <4>1. Bytes(queue) + Bytes(received) + Bytes(p) <= MaxBytes + (MaxOffers - 1) * m
        BY <3>1, <1>3
      <4>2. (MaxOffers - 1) * m \in Int
        OBVIOUS
      <4> QED BY <4>1, <4>2, <1>4, <1>5
    <3> QED BY <3>1, <1>0, <1>4, <2>1, <2>5 DEF Memory
  <2> QED BY <2>2, <2>4, <2>6, <2>7 DEF SinkInv
<1> QED BY <1>6, <1>7

\* Offer raises the counter.
LEMMA CountKeeps ==
    ASSUME SinkInv, NEW r \in Records, OfferCount(r)
    PROVE  SinkInv'
<1> USE SinkAssumption
<1>0. /\ offer \in [Records -> Stages] /\ queuedBytes \in Int
      /\ queue \in Seq(Records) /\ received \in Seq(Records) /\ offer[r] = "sent"
      /\ offer' = [offer EXCEPT ![r] = "counted"] /\ queuedBytes' = queuedBytes + Size[r]
      /\ UNCHANGED <<queue, received, pending, delivered, abandoned, dropped>>
      /\ Custody(offer, Line, delivered \cup abandoned, dropped)
  BY DEF SinkInv, SinkTypes, OfferCount, loopVars
<1>1. Line' = Line
  BY <1>0 DEF Line
<1>2. PICK q : /\ List(q, At(offer, {"sent"}))
               /\ queuedBytes + Bytes(q) = Bytes(queue) + Bytes(received)
  BY DEF SinkInv, Counter
<1>3. /\ At(offer', {"sent"}) = At(offer, {"sent"}) \ {r} /\ r \in At(offer, {"sent"})
      /\ At(offer', {"passed"}) = At(offer, {"passed"})
  BY <1>0 DEF At
<1>4. PICK q2 : List(q2, At(offer, {"sent"}) \ {r}) /\ Bytes(q2) + Size[r] = Bytes(q)
  BY <1>2, <1>3, ListRemove
<1>5. Bytes(q2) \in Nat /\ Size[r] \in Nat
  BY <1>4, BytesFacts DEF List
<1>6. Counter'
  <2>1. (queuedBytes + Size[r]) + Bytes(q2) = queuedBytes + (Bytes(q2) + Size[r])
    BY <1>0, <1>5
  <2>2. queuedBytes' + Bytes(q2) = Bytes(queue') + Bytes(received')
    BY <2>1, <1>0, <1>2, <1>4
  <2> QED BY <2>2, <1>3, <1>4 DEF Counter
<1>7. Memory'
  BY <1>0, <1>3 DEF SinkInv, Memory
<1>8. SinkTypes'
  BY <1>0, <1>5 DEF SinkInv, SinkTypes, Stages
<1>9. Custody(offer', Line', delivered' \cup abandoned', dropped')
  BY <1>0, <1>1, CustodyMoves DEF Stages
<1> QED BY <1>6, <1>7, <1>8, <1>9 DEF SinkInv

\* The loop receives the record at the front of the channel.
LEMMA ReceiveKeeps == SinkInv /\ Receive => SinkInv'
<1> SUFFICES ASSUME SinkInv, Receive PROVE SinkInv'
  OBVIOUS
<1>0. /\ queue \in Seq(Records) /\ pending \in Seq(Records) /\ queue # <<>> /\ received = <<>>
      /\ received' = <<Head(queue)>> /\ queue' = Tail(queue)
      /\ UNCHANGED <<offer, queuedBytes, pending, dropped, delivered, abandoned>>
      /\ Custody(offer, Line, delivered \cup abandoned, dropped)
  BY DEF SinkInv, SinkTypes, Receive, Looping
<1>1. Head(queue) \in Records /\ queue' \in Seq(Records)
  BY <1>0, HeadTailProperties
<1>2. PICK o : o = <<Head(queue)>> /\ o \in Seq(Records)
  BY <1>1, OneRecord
<1>3. queue = o \o queue'
  <2>1. queue = <<Head(queue)>> \o Tail(queue)
    <3>1. Len(queue) \in Nat /\ Len(queue) >= 1
      BY <1>0, LenProperties, EmptySeq
    <3>2. SubSeq(queue, 1, Len(queue)) = <<queue[1]>> \o SubSeq(queue, 1 + 1, Len(queue))
      BY <1>0, <3>1, SubSeqRecursiveFirst
    <3>3. SubSeq(queue, 1, Len(queue)) = queue /\ Tail(queue) = SubSeq(queue, 2, Len(queue))
      BY <1>0, SubSeqFull, TailIsSubSeq
    <3>4. Head(queue) = queue[1]
      BY <1>0, HeadTailProperties
    <3> QED BY <3>2, <3>3, <3>4
  <2> QED BY <2>1, <1>0, <1>2
<1>4. Line' = Line
  <2>1. Line = pending \o queue
    BY <1>0, ConcatEmptySeq DEF Line
  <2>2. Line' = (pending \o o) \o queue'
    BY <1>0, <1>2 DEF Line
  <2>3. (pending \o o) \o queue' = pending \o (o \o queue')
    BY <1>0, <1>1, <1>2, Associative
  <2> QED BY <2>1, <2>2, <2>3, <1>3
<1>5. Bytes(queue') + Bytes(received') = Bytes(queue) + Bytes(received)
  <2>1. Bytes(queue) = Bytes(o) + Bytes(queue') /\ Bytes(received) = 0
    BY <1>0, <1>1, <1>2, <1>3, BytesConcat, BytesFacts
  <2>2. Bytes(o) \in Nat /\ Bytes(queue') \in Nat /\ received' = o
    BY <1>0, <1>1, <1>2, BytesFacts
  <2> QED BY <2>1, <2>2
<1>6. SinkTypes'
  BY <1>0, <1>1, <1>2 DEF SinkInv, SinkTypes
<1>7. Counter' /\ Memory'
  BY <1>0, <1>5 DEF SinkInv, Counter, Memory
<1> QED BY <1>0, <1>4, <1>6, <1>7 DEF SinkInv

\* The loop lowers the counter and adds the record to the batch.
LEMMA CollectKeeps == SinkInv /\ Collect => SinkInv'
<1> SUFFICES ASSUME SinkInv, Collect PROVE SinkInv'
  OBVIOUS
<1> USE SinkAssumption
<1>0. /\ queue \in Seq(Records) /\ pending \in Seq(Records) /\ received \in Seq(Records)
      /\ queuedBytes \in Int
      /\ queuedBytes' = queuedBytes - Bytes(received)
      /\ received' = <<>> /\ pending' = pending \o received
      /\ UNCHANGED <<offer, queue, dropped, delivered, abandoned>>
      /\ Custody(offer, Line, delivered \cup abandoned, dropped)
  BY DEF SinkInv, SinkTypes, Collect
<1>1. pending' \in Seq(Records) /\ <<>> \in Seq(Records)
  BY <1>0, ConcatProperties
<1>2. Line' = Line
  BY <1>0, <1>1, ConcatEmptySeq DEF Line
<1>3. Bytes(queue) \in Nat /\ Bytes(received) \in Nat /\ Bytes(received') = 0
  BY <1>0, BytesFacts
<1>4. PICK q : /\ List(q, At(offer, {"sent"}))
               /\ queuedBytes + Bytes(q) = Bytes(queue) + Bytes(received)
  BY DEF SinkInv, Counter
<1>5. PICK p : /\ List(p, At(offer, {"passed"}))
               /\ \A m \in Nat : (\A x \in Records : Size[x] <= m) =>
                     Bytes(queue) + Bytes(received) + Bytes(p) <= MaxBytes + (MaxOffers - 1) * m
  BY DEF SinkInv, Memory
<1>6. Bytes(q) \in Nat /\ Bytes(p) \in Nat
  BY <1>4, <1>5, BytesFacts DEF List
<1>7. Counter'
  <2>0. /\ queuedBytes \in Int
        /\ queuedBytes + Bytes(q) = Bytes(queue) + Bytes(received)
    BY <1>0, <1>4
  <2>1. queuedBytes - Bytes(received) + Bytes(q) = Bytes(queue) + 0
    BY <2>0, <1>3, <1>6
  <2> QED BY <2>1, <1>0, <1>3, <1>4 DEF Counter
<1>8. Memory'
  <2>1. ASSUME NEW m \in Nat, \A x \in Records : Size[x] <= m
        PROVE  Bytes(queue) + 0 + Bytes(p) <= MaxBytes + (MaxOffers - 1) * m
    <3>1. Bytes(queue) + Bytes(received) + Bytes(p) <= MaxBytes + (MaxOffers - 1) * m
      BY <2>1, <1>5
    <3>2. (MaxOffers - 1) * m \in Int
      OBVIOUS
    <3> QED BY <3>1, <3>2, <1>3, <1>6
  <2> QED BY <2>1, <1>0, <1>3, <1>5 DEF Memory
<1>9. SinkTypes'
  BY <1>0, <1>1, <1>3 DEF SinkInv, SinkTypes
<1> QED BY <1>0, <1>2, <1>7, <1>8, <1>9 DEF SinkInv

\* A batch leaves the line: it arrived or was abandoned, or it is counted.
LEMMA CustodyLeaves ==
    ASSUME NEW of \in [Records -> Stages], NEW b \in Seq(Records), NEW ln \in Seq(Records),
           NEW gone, NEW n \in Nat, Custody(of, b \o ln, gone, n)
    PROVE  /\ Custody(of, ln, gone \cup Range(b), n)
           /\ Custody(of, ln, gone, n + Len(b))
<1> DEFINE answered == At(of, {"sent", "counted", "dropped"})
           taken == At(of, {"sent", "counted"})
           lost == answered \ (Range(b) \cup Range(ln) \cup gone)
<1>1. /\ Distinct(b) /\ Distinct(ln) /\ Range(b) \cap Range(ln) = {}
      /\ Range(b \o ln) = Range(b) \cup Range(ln)
  BY TwoParts DEF Custody
<1>2. /\ Range(b) \cup Range(ln) \cup gone \subseteq taken
      /\ (Range(b) \cup Range(ln)) \cap gone = {} /\ n = Cardinality(lost)
  BY <1>1 DEF Custody
<1>3. taken \subseteq answered
  BY DEF At
<1>4. Custody(of, ln, gone \cup Range(b), n)
  <2>1. answered \ (Range(ln) \cup (gone \cup Range(b))) = lost
    OBVIOUS
  <2>2. Range(ln) \cap (gone \cup Range(b)) = {} /\ Range(ln) \cup (gone \cup Range(b)) \subseteq taken
    BY <1>1, <1>2
  <2> HIDE DEF lost
  <2> QED BY <2>1, <2>2, <1>1, <1>2 DEF Custody
<1>5. Cardinality(lost \cup Range(b)) = n + Len(b)
  <2>1. List(b, Range(b))
    BY <1>1 DEF List
  <2>2. IsFiniteSet(Range(b)) /\ Cardinality(Range(b)) = Len(b)
    BY <2>1, ListCard
  <2>3. IsFiniteSet(lost)
    BY AtFinite
  <2>4. lost \cap Range(b) = {}
    OBVIOUS
  <2> HIDE DEF lost
  <2> QED BY <2>2, <2>3, <2>4, <1>2, DisjointCard
<1>6. Custody(of, ln, gone, n + Len(b))
  <2>1. answered \ (Range(ln) \cup gone) = lost \cup Range(b)
    BY <1>1, <1>2, <1>3
  <2>2. Range(ln) \cap gone = {} /\ Range(ln) \cup gone \subseteq taken
    BY <1>2
  <2> HIDE DEF lost
  <2> QED BY <2>1, <2>2, <1>1, <1>5 DEF Custody
<1> QED BY <1>4, <1>6

\* post returns, or Run does.
LEMMA FlushKeeps == SinkInv /\ (Flushed \/ RunReturns) => SinkInv'
<1> SUFFICES ASSUME SinkInv, Flushed \/ RunReturns PROVE SinkInv'
  OBVIOUS
<1>0. /\ queue \in Seq(Records) /\ pending \in Seq(Records) /\ received \in Seq(Records)
      /\ offer \in [Records -> Stages] /\ dropped \in Nat
      /\ delivered \subseteq Records /\ abandoned \subseteq Records
      /\ pending' = <<>>
      /\ UNCHANGED <<offer, queue, queuedBytes, received>>
      /\ Custody(offer, Line, delivered \cup abandoned, dropped)
  BY DEF SinkInv, SinkTypes, Flushed, RunReturns
<1> DEFINE rest == received \o queue
<1>1. rest \in Seq(Records) /\ Line = pending \o rest
  BY <1>0, ConcatProperties, Associative DEF Line
<1>2. Line' = rest
  BY <1>0, ConcatEmptySeq DEF Line
<1> HIDE DEF rest
<1>3. /\ Custody(offer, rest, (delivered \cup abandoned) \cup Range(pending), dropped)
      /\ Custody(offer, rest, delivered \cup abandoned, dropped + Len(pending))
  BY <1>0, <1>1, CustodyLeaves
<1>4. Len(pending) \in Nat /\ Range(pending) \subseteq Records
  BY <1>0, LenProperties, RangeOf
<1>5. \/ delivered' = delivered \cup Range(pending) /\ UNCHANGED <<dropped, abandoned>>
      \/ dropped' = dropped + Len(pending) /\ UNCHANGED <<delivered, abandoned>>
      \/ abandoned' = abandoned \cup Range(pending) /\ UNCHANGED <<dropped, delivered>>
  BY DEF Flushed, RunReturns
<1>6. Custody(offer', Line', delivered' \cup abandoned', dropped')
  <2>1. CASE delivered' = delivered \cup Range(pending) /\ UNCHANGED <<dropped, abandoned>>
    <3>1. delivered' \cup abandoned' = (delivered \cup abandoned) \cup Range(pending)
      BY <2>1
    <3> QED BY <3>1, <2>1, <1>0, <1>2, <1>3
  <2>2. CASE dropped' = dropped + Len(pending) /\ UNCHANGED <<delivered, abandoned>>
    BY <2>2, <1>0, <1>2, <1>3
  <2>3. CASE abandoned' = abandoned \cup Range(pending) /\ UNCHANGED <<dropped, delivered>>
    <3>1. delivered' \cup abandoned' = (delivered \cup abandoned) \cup Range(pending)
      BY <2>3
    <3> QED BY <3>1, <2>3, <1>0, <1>2, <1>3
  <2> QED BY <1>5, <2>1, <2>2, <2>3
<1>7. SinkTypes'
  <2>1. dropped' \in Nat /\ delivered' \subseteq Records /\ abandoned' \subseteq Records
    BY <1>0, <1>4, <1>5
  <2>2. pending' \in Seq(Records)
    BY <1>0
  <2> QED BY <2>1, <2>2, <1>0 DEF SinkInv, SinkTypes
<1>8. Counter' /\ Memory'
  BY <1>0 DEF SinkInv, Counter, Memory
<1> QED BY <1>6, <1>7, <1>8 DEF SinkInv

\* Every step of a handler, of the loop and of the shutdown keeps the invariant.
LEMMA SinkStep == SinkInv /\ SinkNext => SinkInv'
<1>1. SinkInv /\ (TickFlush \/ SinkStops) => SinkInv'
  <2> SUFFICES ASSUME SinkInv, TickFlush \/ SinkStops PROVE SinkInv'
    OBVIOUS
  <2>1. UNCHANGED <<offer, queue, queuedBytes, received, pending, dropped, delivered, abandoned>>
    BY DEF TickFlush, SinkStops, loopVars
  <2> QED BY <2>1 DEF SinkInv, SinkTypes, Line, Counter, Memory
<1> QED BY <1>1, CheckKeeps, SendKeeps, CountKeeps, ReceiveKeeps, CollectKeeps, FlushKeeps
        DEF SinkNext

\* Only the end of the process makes the loop give a batch up or return.
LEMMA StopsFirst == Unstopped /\ SinkNext => Unstopped'
<1> SUFFICES ASSUME Unstopped, SinkNext PROVE Unstopped'
  OBVIOUS
<1>1. CASE \E r \in Records : OfferCheck(r) \/ OfferSend(r) \/ OfferCount(r)
  BY <1>1 DEF Unstopped, OfferCheck, OfferSend, OfferCount, loopVars
<1>2. CASE Receive \/ Collect \/ TickFlush
  BY <1>2 DEF Unstopped, Receive, Collect, TickFlush
<1>3. CASE Flushed
  BY <1>3 DEF Unstopped, Flushed
<1>4. CASE SinkStops \/ RunReturns
  BY <1>4 DEF Unstopped, SinkStops, RunReturns
<1> QED BY <1>1, <1>2, <1>3, <1>4 DEF SinkNext

\* The invariant gives the property.
LEMMA SinkAccounts == SinkInv /\ Unstopped => BodiesAreAccountedFor
<1> SUFFICES ASSUME SinkInv, Unstopped PROVE BodiesAreAccountedFor
  OBVIOUS
<1> USE SinkAssumption
<1>0. ~stopping => CutByShutdown = {}
  BY DEF Unstopped, CutByShutdown
<1>1. Cardinality(Answered \ (Held \cup delivered \cup CutByShutdown)) = dropped
  <2>1. /\ Range(Line) = Range(received) \cup Range(pending) \cup Range(queue)
        /\ At(offer, {"sent", "counted", "dropped"}) = Answered
    BY LineHolds DEF SinkInv, At, Answered
  <2>2. Held \cup delivered \cup CutByShutdown = Range(Line) \cup (delivered \cup abandoned)
    BY <2>1 DEF Held, CutByShutdown
  <2> QED BY <2>1, <2>2 DEF SinkInv, Custody
<1>2. ASSUME InOffer = {}, received = <<>> PROVE queuedBytes = Bytes(queue)
  <2>1. At(offer, {"sent"}) = {}
    BY <1>2 DEF At, InOffer
  <2>2. PICK q : /\ List(q, At(offer, {"sent"}))
                 /\ queuedBytes + Bytes(q) = Bytes(queue) + Bytes(received)
    BY DEF SinkInv, Counter
  <2>3. Bytes(q) = 0 /\ Bytes(received) = 0 /\ Bytes(queue) \in Nat /\ queuedBytes \in Int
    BY <2>1, <2>2, <1>2, ListOfNone, BytesFacts DEF SinkInv, SinkTypes
  <2> QED BY <2>2, <2>3
<1>3. PICK r \in Records : \A x \in Records : Size[x] <= Size[r]
  BY Largest
<1>4. Bytes(queue) <= MaxBytes + (MaxOffers - 1) * Size[r]
  <2>1. PICK p : /\ List(p, At(offer, {"passed"}))
                 /\ \A m \in Nat : (\A x \in Records : Size[x] <= m) =>
                       Bytes(queue) + Bytes(received) + Bytes(p) <= MaxBytes + (MaxOffers - 1) * m
    BY DEF SinkInv, Memory
  <2>2. Bytes(queue) \in Nat /\ Bytes(received) \in Nat /\ Bytes(p) \in Nat
    BY <2>1, BytesFacts DEF SinkInv, SinkTypes, List
  <2>3. Size[r] \in Nat
    OBVIOUS
  <2>4. Bytes(queue) + Bytes(received) + Bytes(p) <= MaxBytes + (MaxOffers - 1) * Size[r]
    BY <2>1, <2>3, <1>3
  <2>5. (MaxOffers - 1) * Size[r] \in Int /\ MaxBytes \in Nat
    BY <2>3
  <2> QED BY <2>2, <2>4, <2>5
<1> QED BY <1>0, <1>1, <1>2, <1>3, <1>4 DEF BodiesAreAccountedFor

-----------------------------------------------------------------------------
(* The parts side by side.                                                 *)

IInv == SinkInv /\ Unstopped /\ CatalogInv /\ OwnershipInv

\* A part that does not move keeps its invariant.
LEMMA PartsRest ==
    /\ SinkInv /\ Unstopped /\ UNCHANGED sinkVars => SinkInv' /\ Unstopped'
    /\ CatalogInv /\ UNCHANGED catalogVars => CatalogInv'
    /\ OwnershipInv /\ UNCHANGED ownershipVars => OwnershipInv'
<1>1. SinkInv /\ Unstopped /\ UNCHANGED sinkVars => SinkInv' /\ Unstopped'
  BY DEF sinkVars, Unstopped, SinkInv, SinkTypes, Line, Counter, Memory
<1>2. CatalogInv /\ UNCHANGED catalogVars => CatalogInv'
  BY DEF catalogVars, schedule, CatalogInv, CatalogTypes, Loop, Backing, Waiting, vendorCatalogDue, forRef
<1>3. OwnershipInv /\ UNCHANGED ownershipVars => OwnershipInv'
  BY DEF ownershipVars, OwnershipInv, OwnershipTypes
<1> QED BY <1>1, <1>2, <1>3

\* The invariants of the three parts hold in every state the process reaches.
THEOREM Invariance == Spec => []IInv
<1>1. Init => IInv
  <2>1. SinkInit => Unstopped
    BY DEF SinkInit, Unstopped
  <2> QED BY <2>1, SinkStarts, CatalogStarts, OwnershipStarts DEF Init, IInv
<1>2. IInv /\ [Next]_vars => IInv'
  <2> SUFFICES ASSUME IInv, [Next]_vars PROVE IInv'
    OBVIOUS
  <2>1. /\ SinkNext \/ UNCHANGED sinkVars
        /\ CatalogNext \/ UNCHANGED catalogVars
        /\ OwnershipNext \/ UNCHANGED ownershipVars
    BY DEF Next, vars
  <2> QED BY <2>1, PartsRest, SinkStep, StopsFirst, CatalogStep, OwnershipStep DEF IInv
<1> QED BY <1>1, <1>2, PTL DEF Spec

\* Sink.Offer, Run and the batch: no captured body is lost track of but those
\* that shutdown cuts off, which it does to none before; the counter is exact at
\* rest, and the queue exceeds its bound by one record for every
\* other concurrent offer at most, whatever the sizes.
THEOREM NoBodyVanishes == Spec => []BodiesAreAccountedFor
<1>1. IInv => BodiesAreAccountedFor
  BY SinkAccounts DEF IInv
<1> QED BY <1>1, Invariance, PTL

\* RunVendorCatalog: a due read of a configured upstream begins at the next wake,
\* or within the longest backoff when its own last read failed.
THEOREM ReadsBeginInTime == Spec => []DueReadBegins
<1>1. IInv => DueReadBegins
  <2> SUFFICES ASSUME IInv PROVE DueReadBegins
    OBVIOUS
  <2>1. /\ waited \in Nat /\ clock \in Nat /\ timer \in Nat /\ clock <= timer
        /\ passthroughRef \in Configured =>
             waited + timer <= clock + IF passthroughRef \in failed THEN Interval ELSE retry
    BY DEF IInv, CatalogInv, CatalogTypes, Loop, Waiting
  <2> QED BY <2>1, CatalogAssumption DEF DueReadBegins, retry, vendorCatalogTimeout
<1> QED BY <1>1, Invariance, PTL

\* cache.put, Bind, Owned, Release and Remember: a released object is not taken
\* for owned for longer than one lifetime of the cache and the longest call.
THEOREM OwnershipIsForgotten == Spec => []StaleOwnershipEnds
<1>1. IInv => StaleOwnershipEnds
  BY OwnershipEnds DEF IInv
<1> QED BY <1>1, Invariance, PTL
=============================================================================
