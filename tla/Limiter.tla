------------------------------ MODULE Limiter ------------------------------
(***************************************************************************)
(* The per-key limits of the gateway (limits.Limiter): requests per        *)
(* minute, tokens per minute and concurrent requests, used by the handler  *)
(* of a request on a self-hosted model.  Every operation runs under the    *)
(* limiter's mutex and is one step; what interleaves is the handlers of    *)
(* several requests, the clock and the documents that change a key's       *)
(* limits.                                                                 *)
(*                                                                         *)
(* A tick is a second.  The level of a bucket is counted in units of which *)
(* Minute make one request or token, so that the continuous refill of one  *)
(* tick is a whole number: perMinute units.                                *)
(***************************************************************************)
EXTENDS Integers, FiniteSets, FiniteSetsExt

CONSTANTS Keys, Requests,
          KeyOf,     \* the key each request is made with
          Limits,    \* the limits documents give to keys, defaults applied
          Tokens,    \* what one answer can cost
          Minute,    \* ticks in a minute
          GcEvery,   \* Limiter.gcEvery, in ticks
          IdleTTL,   \* Limiter.idleTTL, in ticks
          MaxTime    \* bound: the last tick

ASSUME LimiterAssumption ==
    /\ KeyOf \in [Requests -> Keys] /\ IsFiniteSet(Requests)
    /\ Limits \subseteq [rpm: Nat \ {0}, tpm: Nat \ {0}, conc: Nat \ {0}]
    \* the limits in use have a largest one
    /\ \E l \in Limits : \A m \in Limits : l.rpm >= m.rpm
    /\ \E l \in Limits : \A m \in Limits : l.tpm >= m.tpm
    /\ Tokens \subseteq Nat
    /\ Minute \in Nat \ {0} /\ GcEvery \in Nat /\ IdleTTL \in Nat
    /\ MaxTime \in Nat
    /\ IdleTTL >= Minute

Bucket   == [level: Int, lastFill: Nat]
KeyState == [rpm: Bucket, tpm: Bucket, inFlight: Nat, lastSeen: Nat]
NoState  == [inFlight |-> 0]
Reasons  == {"rpm", "tpm"}
NoWait   == [reason |-> "none", until |-> 0]

VARIABLES
    now,      \* the clock, in ticks
    limits,   \* what the served document gives each key
    perKey,   \* Limiter.perKey; NoState for a key that is not in the map
    lastGC,   \* Limiter.lastGC
    req,      \* where the handler of each request is
    tpmOf,    \* the tpm a handler's charge closure holds
    wait,     \* the Retry-After a key was last told, and why
    at,       \* history: when each request was admitted
    asked,    \* history: when a key's last Acquire was, or -1
    credit    \* history: a key's token balance at the fastest refill in use,
              \* since it was last unasked for during the whole idle time

vars == <<now, limits, perKey, lastGC, req, tpmOf, wait, at, asked, credit>>

Fastest(f(_)) == Max({f(l) : l \in Limits})
RpmOf(l) == l.rpm
TpmOf(l) == l.tpm

TypeOK ==
    /\ now \in 0..MaxTime
    /\ limits \in [Keys -> Limits]
    /\ perKey \in [Keys -> KeyState \cup {NoState}]
    /\ lastGC \in Int
    /\ req \in [Requests -> {"new", "held", "charged", "done"}]
    /\ tpmOf \in [Requests -> Nat]
    /\ wait \in [Keys -> [reason: Reasons \cup {"none"}, until: Nat]]
    /\ at \in [Requests -> 0..MaxTime \cup {-1}]
    /\ asked \in [Keys -> 0..MaxTime \cup {-1}]
    /\ credit \in [Keys -> Int]

Init ==
    /\ now = 0
    /\ limits \in [Keys -> Limits]
    /\ perKey = [k \in Keys |-> NoState]
    /\ lastGC = -GcEvery
    /\ req = [r \in Requests |-> "new"]
    /\ tpmOf = [r \in Requests |-> 0]
    /\ wait = [k \in Keys |-> NoWait]
    /\ at = [r \in Requests |-> -1]
    /\ asked = [k \in Keys |-> -1]
    /\ credit = [k \in Keys |-> Fastest(TpmOf) * Minute]

-----------------------------------------------------------------------------
(***************************************************************************)
(* Buckets.                                                                *)
(***************************************************************************)
Smaller(a, b) == IF a < b THEN a ELSE b

fresh(perMinute) == [level |-> perMinute * Minute, lastFill |-> now]

refill(b, perMinute) ==
    IF now <= b.lastFill
    THEN b
    ELSE [level |-> Smaller(b.level + (now - b.lastFill) * perMinute,
                            perMinute * Minute),
          lastFill |-> now]

\* Mutant of refillWait: rounded down.
refillWaitFloor(level, target, perMinute) ==
    LET ticks == (target - level) \div perMinute
    IN  IF ticks < 1 THEN 1 ELSE ticks

\* refillWait, rounded up to the seconds of the Retry-After header.
refillWait(level, target, perMinute) ==
    LET missing == target - level
        ticks   == (missing + perMinute - 1) \div perMinute
    IN  IF ticks < 1 THEN 1 ELSE ticks

\* Mutant of Idle: a key is forgotten as soon as nothing of it runs.
IdleAtOnce(k) == perKey[k] # NoState /\ perKey[k].inFlight = 0

\* Mutant of Idle: a key with running requests counts as idle.
IdleWhileRunning(k) ==
    perKey[k] # NoState /\ now - perKey[k].lastSeen > IdleTTL

\* gcLocked: the keys that are idle and were not seen for long are forgotten.
Idle(k) ==
    /\ perKey[k] # NoState
    /\ perKey[k].inFlight = 0
    /\ now - perKey[k].lastSeen > IdleTTL

gcLocked ==
    IF now - lastGC < GcEvery
    THEN perKey
    ELSE [k \in Keys |-> IF Idle(k) THEN NoState ELSE perKey[k]]

\* The state Acquire decides on: looked up or made, seen now, both buckets
\* refilled at the limits of the moment.
Seen(k) ==
    LET st == gcLocked[k]
        l  == limits[k]
    IN  [rpm      |-> IF st = NoState THEN fresh(l.rpm) ELSE refill(st.rpm, l.rpm),
         tpm      |-> IF st = NoState THEN fresh(l.tpm) ELSE refill(st.tpm, l.tpm),
         inFlight |-> st.inFlight,
         lastSeen |-> now]

\* Mutant of Verdict: one more concurrent request passes.
VerdictOneMore(k) ==
    LET st == Seen(k)
    IN  CASE st.inFlight > limits[k].conc -> "conc"
          [] st.inFlight <= limits[k].conc /\ st.rpm.level < Minute -> "rpm"
          [] st.inFlight <= limits[k].conc /\ st.rpm.level >= Minute
               /\ st.tpm.level < 0 -> "tpm"
          [] OTHER -> "ok"

Verdict(k) ==
    LET st == Seen(k)
    IN  CASE st.inFlight >= limits[k].conc -> "conc"
          [] st.inFlight < limits[k].conc /\ st.rpm.level < Minute -> "rpm"
          [] st.inFlight < limits[k].conc /\ st.rpm.level >= Minute
               /\ st.tpm.level < 0 -> "tpm"
          [] OTHER -> "ok"

-----------------------------------------------------------------------------
(***************************************************************************)
(* The handlers.                                                           *)
(***************************************************************************)
Acquire(k) ==
    /\ lastGC' = IF now - lastGC < GcEvery THEN lastGC ELSE now
    /\ asked' = [asked EXCEPT ![k] = now]
    /\ credit' = [credit EXCEPT ![k] = IF now - asked[k] > IdleTTL
                                       THEN Fastest(TpmOf) * Minute ELSE @]
    /\ UNCHANGED <<now, limits>>

\* The request is admitted: it pays one request and holds a slot.
Admit(r) ==
    LET k == KeyOf[r]
    IN  /\ req[r] = "new"
        /\ Verdict(k) = "ok"
        /\ Acquire(k)
        /\ perKey' = [gcLocked EXCEPT ![k] =
                        [Seen(k) EXCEPT !.rpm.level = @ - Minute,
                                        !.inFlight = @ + 1]]
        /\ req' = [req EXCEPT ![r] = "held"]
        /\ tpmOf' = [tpmOf EXCEPT ![r] = limits[k].tpm]
        /\ at' = [at EXCEPT ![r] = now]
        /\ wait' = [wait EXCEPT ![k] = NoWait]

\* The request is refused and its client told when to come back.
Refuse(r) ==
    LET k == KeyOf[r]
        v == Verdict(k)
        s == Seen(k)
    IN  /\ req[r] = "new"
        /\ v # "ok"
        /\ Acquire(k)
        /\ perKey' = [gcLocked EXCEPT ![k] = s]
        /\ wait' = CASE v = "conc" -> wait
                     [] v = "rpm" -> [wait EXCEPT ![k] =
                          [reason |-> "rpm",
                           until |-> now + refillWait(s.rpm.level, Minute, limits[k].rpm)]]
                     [] v = "tpm" -> [wait EXCEPT ![k] =
                          [reason |-> "tpm",
                           until |-> now + refillWait(s.tpm.level, 0, limits[k].tpm)]]
        /\ UNCHANGED <<req, tpmOf, at>>

\* Mutant of ChargeTokens: the bucket never goes into debt.
ChargeTokensNoDebt(r) ==
    LET k == KeyOf[r]
    IN  /\ req[r] = "held"
        /\ req' = [req EXCEPT ![r] = "charged"]
        /\ \E n \in Tokens :
             /\ perKey' = [perKey EXCEPT ![k].tpm.level =
                              IF @ < n * Minute THEN 0 ELSE @ - n * Minute]
             /\ credit' = [credit EXCEPT ![k] = @ - n * Minute]
        /\ wait' = [wait EXCEPT ![k] = NoWait]
        /\ UNCHANGED <<now, limits, lastGC, tpmOf, at, asked>>

\* The answer's cost is known: the key's token bucket may go into debt.
ChargeTokens(r) ==
    LET k == KeyOf[r]
        b == refill(perKey[k].tpm, tpmOf[r])
    IN  /\ req[r] = "held"
        /\ req' = [req EXCEPT ![r] = "charged"]
        /\ \E n \in Tokens :
             IF n = 0 \/ perKey[k] = NoState
             THEN UNCHANGED <<perKey, wait, credit>>
             ELSE /\ perKey' = [perKey EXCEPT ![k].tpm =
                                  [b EXCEPT !.level = @ - n * Minute]]
                  /\ credit' = [credit EXCEPT ![k] = @ - n * Minute]
                  /\ wait' = [wait EXCEPT ![k] = NoWait]
        /\ UNCHANGED <<now, limits, lastGC, tpmOf, at, asked>>

\* The deferred Release, also of a handler that failed before any charge.
Release(r) ==
    LET k == KeyOf[r]
    IN  /\ req[r] \in {"held", "charged"}
        /\ req' = [req EXCEPT ![r] = "done"]
        /\ perKey' = [perKey EXCEPT ![k].inFlight = IF @ > 0 THEN @ - 1 ELSE @]
        /\ UNCHANGED <<now, limits, lastGC, tpmOf, wait, at, asked, credit>>

\* A served document gives a key other limits (keyLimits).
keyLimits(k) ==
    /\ \E l \in Limits \ {limits[k]} : limits' = [limits EXCEPT ![k] = l]
    /\ wait' = [wait EXCEPT ![k] = NoWait]
    /\ UNCHANGED <<now, perKey, lastGC, req, tpmOf, at, asked, credit>>

Tick ==
    /\ now < MaxTime
    /\ now' = now + 1
    /\ credit' = [k \in Keys |-> Smaller(credit[k] + Fastest(TpmOf),
                                         Fastest(TpmOf) * Minute)]
    /\ UNCHANGED <<limits, perKey, lastGC, req, tpmOf, wait, at, asked>>

Next ==
    \/ \E r \in Requests : Admit(r) \/ Refuse(r) \/ ChargeTokens(r) \/ Release(r)
    \/ \E k \in Keys : keyLimits(k)
    \/ Tick

Spec == Init /\ [][Next]_vars

-----------------------------------------------------------------------------
(***************************************************************************)
(* Properties.                                                             *)
(***************************************************************************)
Held(k) == {r \in Requests : KeyOf[r] = k /\ req[r] \in {"held", "charged"}}

Admitted(k) == \E r \in Requests : KeyOf[r] = k /\ req[r] = "new" /\ req'[r] = "held"

\* The slot count of a key is the number of its handlers that are running,
\* whatever the collection of idle keys did between Acquire and Release.
InFlightIsExact == \A k \in Keys : perKey[k].inFlight = Cardinality(Held(k))

\* A key never has more requests running than the limit it was admitted under,
\* also after a document lowered it.
ConcurrencyIsBounded ==
    [][\A k \in Keys : Admitted(k) => Cardinality(Held(k)') <= limits[k].conc]_vars

\* The token-bucket promise: over every interval, a key is admitted at most one
\* full bucket more than what refills in it, at the highest rate it was given.
\* Forgetting an idle key gives nothing back, because its bucket is full by then.
RequestRateIsBounded ==
    \A k \in Keys : \A s \in 0..now :
        Cardinality({r \in Requests : KeyOf[r] = k /\ at[r] >= s}) * Minute
            <= Fastest(RpmOf) * (Minute + now - s)

\* Token debt holds a key back until it can have refilled, however many
\* handlers charged it and whenever they did; only a key nobody asked for
\* during the whole idle time is forgiven.
DebtHoldsWhileAsked ==
    [][\A k \in Keys : Admitted(k) => credit'[k] >= 0]_vars

\* A client that waited as long as it was told is not refused again for the
\* same reason, unless another request of its key came between.
RetryAfterIsEnough ==
    [][\A k \in Keys : wait[k].reason # "none" /\ wait'[k] # wait[k]
                         /\ wait'[k].reason = wait[k].reason
                            => now < wait[k].until]_vars
=============================================================================
