--------------------------- MODULE Limiter_proofs ---------------------------
(***************************************************************************)
(* Proofs about Limiter, for any keys, any number of requests, any limits, *)
(* costs, idle time and collection interval.                               *)
(*                                                                         *)
(* What a bucket holds says little at the moments it is not looked at: it  *)
(* is refilled only by the next operation, at a rate that may have changed.*)
(* The invariants therefore speak of what a bucket could hold by now at    *)
(* the fastest rate in use (Pot): the requests admitted and that potential *)
(* together stay below what refills (Rate), the token balance is never     *)
(* below it (Owing), and forgetting a key changes neither, because by then *)
(* its potential is a full bucket (Custody).                               *)
(***************************************************************************)
EXTENDS Limiter, FiniteSetTheorems, TLAPS

MaxRpm == Fastest(RpmOf)
MaxTpm == Fastest(TpmOf)

Present(k) == perKey[k] # NoState

\* What a bucket holds at time t if it refills at the given rate.
Pot(b, t, fastest) ==
    Smaller(b.level + (t - b.lastFill) * fastest, fastest * Minute)

\* A bucket that refills at perMinute holds the target at the given time.
Enough(b, perMinute, until, target) ==
    /\ until >= b.lastFill => b.level + (until - b.lastFill) * perMinute >= target
    /\ until < b.lastFill => b.level >= target

\* When a key was last seen is when it was last asked for; a key that is not
\* in the map was never asked for, or not during the idle time.
Custody(k) ==
    /\ asked[k] <= now
    /\ Present(k) =>
         /\ asked[k] = perKey[k].lastSeen
         /\ perKey[k].rpm.lastFill = perKey[k].lastSeen
         /\ perKey[k].tpm.lastFill <= now
         /\ perKey[k].rpm.level \in 0..MaxRpm * Minute
         /\ perKey[k].tpm.level <= MaxTpm * Minute
    /\ ~Present(k) =>
         \/ asked[k] = -1 /\ credit[k] = MaxTpm * Minute
         \/ now - asked[k] > IdleTTL

\* Which requests were admitted, at which rate and when.
Journal ==
    \A r \in Requests :
        /\ (req[r] = "new") <=> (at[r] = -1)
        /\ at[r] <= now
        /\ tpmOf[r] <= MaxTpm

Since(k, s) == {r \in Requests : KeyOf[r] = k /\ at[r] >= s}

Potential(k) == IF Present(k) THEN Pot(perKey[k].rpm, now, MaxRpm) ELSE MaxRpm * Minute

Rate(k) ==
    \A s \in 0..now :
        Cardinality(Since(k, s)) * Minute + Potential(k) <= MaxRpm * (Minute + now - s)

Owing(k) ==
    /\ credit[k] <= MaxTpm * Minute
    /\ Present(k) => Pot(perKey[k].tpm, now, MaxTpm) <= credit[k]

\* A client that was told to wait finds its bucket refilled by then.
Promise(k) ==
    Present(k) =>
      /\ wait[k].reason = "rpm" =>
           Enough(perKey[k].rpm, limits[k].rpm, wait[k].until, Minute)
      /\ wait[k].reason = "tpm" =>
           Enough(perKey[k].tpm, limits[k].tpm, wait[k].until, 0)

KeyInv(k) == Custody(k) /\ Rate(k) /\ Owing(k) /\ Promise(k)

IInv == TypeOK /\ InFlightIsExact /\ Journal /\ \A k \in Keys : KeyInv(k)

-----------------------------------------------------------------------------
\* The fastest rates are rates in use, and no rate in use is faster.
LEMMA FastestFacts ==
    /\ MaxRpm \in Nat /\ MaxTpm \in Nat
    /\ \A l \in Limits : l.rpm <= MaxRpm /\ l.tpm <= MaxTpm
    /\ \A l \in Limits : l.rpm \in Nat \ {0} /\ l.tpm \in Nat \ {0} /\ l.conc \in Nat \ {0}
<1>1. \A l \in Limits : l.rpm \in Nat \ {0} /\ l.tpm \in Nat \ {0} /\ l.conc \in Nat \ {0}
  BY LimiterAssumption DEF LimiterAssumption
<1>2. MaxRpm \in Nat /\ \A l \in Limits : l.rpm <= MaxRpm
  <2> DEFINE S == {l.rpm : l \in Limits}
  <2>1. \E x \in S : \A y \in S : x >= y
    BY LimiterAssumption DEF LimiterAssumption
  <2>2. Max(S) \in S /\ \A y \in S : Max(S) >= y
    BY <2>1 DEF Max
  <2>3. MaxRpm = Max(S)
    BY DEF MaxRpm, Fastest, RpmOf
  <2> QED
    BY <1>1, <2>2, <2>3
<1>3. MaxTpm \in Nat /\ \A l \in Limits : l.tpm <= MaxTpm
  <2> DEFINE S == {l.tpm : l \in Limits}
  <2>1. \E x \in S : \A y \in S : x >= y
    BY LimiterAssumption DEF LimiterAssumption
  <2>2. Max(S) \in S /\ \A y \in S : Max(S) >= y
    BY <2>1 DEF Max
  <2>3. MaxTpm = Max(S)
    BY DEF MaxTpm, Fastest, TpmOf
  <2> QED
    BY <1>1, <2>2, <2>3
<1> QED
  BY <1>1, <1>2, <1>3

\* The products the buckets are made of.
LEMMA Products ==
    ASSUME NEW a \in Nat, NEW b \in Nat, NEW c \in Nat
    PROVE  /\ a * b \in Nat
           /\ a <= c => a * b <= c * b /\ b * a <= b * c
           /\ (a + c) * b = a * b + c * b
           /\ b * (a + c) = b * a + b * c
           /\ (a + 1) * b = a * b + b
  OBVIOUS

\* What one refill does, at any rate in use: the bucket is filled up to now,
\* never above its potential, never below what it held, and what was promised
\* of it still holds.
LEMMA RefillFacts ==
    ASSUME NEW b \in Bucket, now \in Nat, b.lastFill <= now,
           NEW p \in Nat, NEW fastest \in Nat, p <= fastest,
           b.level <= fastest * Minute
    PROVE  /\ refill(b, p) \in Bucket
           /\ refill(b, p).lastFill = now
           /\ refill(b, p).level <= Pot(b, now, fastest)
           /\ refill(b, p).level <= fastest * Minute
           /\ b.level >= 0 => refill(b, p).level >= 0
           /\ Pot(b, now, fastest) \in Int
<1> DEFINE d == now - b.lastFill
           c == refill(b, p)
<1>0. /\ Minute \in Nat /\ b.level \in Int /\ b.lastFill \in Nat /\ d \in Nat
  BY LimiterAssumption DEF LimiterAssumption, Bucket
<1>1. /\ d * p \in Nat /\ d * fastest \in Nat /\ p * Minute \in Nat
      /\ fastest * Minute \in Nat
      /\ d * p <= d * fastest /\ p * Minute <= fastest * Minute
  BY <1>0, Products
<1>2. CASE now <= b.lastFill
  <2>1. c = b /\ b.lastFill = now /\ d = 0
    BY <1>0, <1>2 DEF refill
  <2>a. 0 * fastest = 0
    OBVIOUS
  <2>2. d * fastest = 0
    BY <2>1, <2>a, Zenon
  <2>3. Pot(b, now, fastest) = b.level
    BY <1>0, <1>1, <2>2 DEF Pot, Smaller
  <2> QED
    BY <1>0, <1>1, <2>1, <2>3
<1>3. CASE ~(now <= b.lastFill)
  <2>1. c = [level |-> Smaller(b.level + d * p, p * Minute), lastFill |-> now]
    BY <1>3 DEF refill
  <2>2. c.level = Smaller(b.level + d * p, p * Minute) /\ c.lastFill = now
    BY <2>1
  <2>3. c.level \in Int
    BY <1>0, <1>1, <2>2 DEF Smaller
  <2>4. c \in Bucket
    BY <2>1, <2>2, <2>3 DEF Bucket
  <2>5. c.level <= b.level + d * p /\ c.level <= p * Minute
    BY <1>0, <1>1, <2>2 DEF Smaller
  <2>6. Pot(b, now, fastest) \in {b.level + d * fastest, fastest * Minute}
    BY DEF Pot, Smaller
  <2>7. c.level <= Pot(b, now, fastest) /\ Pot(b, now, fastest) \in Int /\ c.level <= fastest * Minute
    BY <1>0, <1>1, <2>3, <2>5, <2>6
  <2>8. b.level >= 0 => c.level >= 0
    BY <1>0, <1>1, <2>2 DEF Smaller
  <2> QED
    BY <2>2, <2>4, <2>7, <2>8
<1> QED
  BY <1>2, <1>3

LEMMA RefillKeepsPromise ==
    ASSUME NEW b \in Bucket, now \in Nat, b.lastFill <= now, NEW p \in Nat,
           NEW until \in Nat, NEW target \in Int, target <= p * Minute,
           Enough(b, p, until, target)
    PROVE  /\ Enough(refill(b, p), p, until, target)
           /\ until <= now => refill(b, p).level >= target
<1> DEFINE d == now - b.lastFill
           c == refill(b, p)
<1>0. /\ Minute \in Nat /\ b.level \in Int /\ b.lastFill \in Nat /\ d \in Nat
  BY LimiterAssumption DEF LimiterAssumption, Bucket
<1>1. d * p \in Nat /\ p * Minute \in Nat
  BY <1>0, Products
<1>2. CASE now <= b.lastFill
  <2>1. c = b /\ b.lastFill = now
    BY <1>0, <1>2 DEF refill
  <2>2. until = now => b.level + (until - b.lastFill) * p = b.level
    <3>1. 0 * p = 0 /\ b.level + 0 = b.level
      BY <1>0
    <3>2. until = now => until - b.lastFill = 0
      BY <1>0, <2>1
    <3> QED
      BY <3>1, <3>2, Zenon
  <2>3. until <= now => b.level >= target
    BY <1>0, <2>1, <2>2 DEF Enough
  <2> QED
    BY <2>1, <2>3
<1>3. CASE ~(now <= b.lastFill)
  <2>1. c = [level |-> Smaller(b.level + d * p, p * Minute), lastFill |-> now]
    BY <1>3 DEF refill
  <2>2. c.level = Smaller(b.level + d * p, p * Minute) /\ c.lastFill = now
    BY <2>1
  <2>3. c.level \in Int
    BY <1>0, <1>1, <2>2 DEF Smaller
  <2>4. ASSUME until >= now
        PROVE  c.level + (until - now) * p >= target
    <3> DEFINE e == until - now
    <3>1. e \in Nat /\ e * p \in Nat /\ until - b.lastFill = d + e
      BY <1>0, <2>4, Products
    <3>2. (d + e) * p = d * p + e * p
      BY <1>0, <3>1, Products
    <3>3. until >= b.lastFill
      BY <1>0, <2>4
    <3>4. b.level + (d + e) * p >= target
      BY <3>1, <3>3, Zenon DEF Enough
    <3>5. b.level + (d * p + e * p) >= target
      BY <3>2, <3>4
    <3> HIDE DEF e
    <3>6. c.level + e * p >= target
      BY <1>0, <1>1, <2>2, <2>3, <3>1, <3>5 DEF Smaller
    <3> QED
      BY <3>6 DEF e
  <2>5. ASSUME until <= now
        PROVE  c.level >= target
    <3>1. CASE until < b.lastFill
      BY <1>0, <1>1, <2>2, <3>1 DEF Enough, Smaller
    <3>2. CASE until >= b.lastFill
      <4> DEFINE e == until - b.lastFill
      <4>1. e \in Nat /\ e <= d
        BY <1>0, <2>5, <3>2
      <4>2. e * p <= d * p /\ e * p \in Nat
        BY <1>0, <4>1, Products
      <4>3. b.level + e * p >= target
        BY <3>2 DEF Enough
      <4> HIDE DEF e
      <4> QED
        BY <1>0, <1>1, <2>2, <2>3, <4>2, <4>3 DEF Smaller
    <3> QED
      BY <1>0, <3>1, <3>2
  <2> QED
    BY <2>2, <2>4, <2>5 DEF Enough
<1> QED
  BY <1>2, <1>3

\* The wait a refused client is told lets the bucket refill to the target.
LEMMA WaitFacts ==
    ASSUME NEW b \in Bucket, now \in Nat, b.lastFill = now, NEW p \in Nat \ {0},
           NEW target \in Int
    PROVE  /\ refillWait(b.level, target, p) \in Nat
           /\ Enough(b, p, now + refillWait(b.level, target, p), target)
<1> DEFINE m == target - b.level
           q == (m + p - 1) \div p
           w == refillWait(b.level, target, p)
<1>0. b.level \in Int /\ m \in Int /\ target = b.level + m
  BY DEF Bucket
<1>1. q \in Int /\ p * q >= m
  <2>1. m + p - 1 \in Int
    BY <1>0
  <2>2. \A z \in Int : z \div p \in Int /\ p * (z \div p) > z - p
    OBVIOUS
  <2>3. q \in Int /\ p * q > (m + p - 1) - p
    BY <2>1, <2>2
  <2>4. p * q \in Int
    BY <2>3
  <2> HIDE DEF q
  <2> QED
    BY <1>0, <2>3, <2>4
<1>2. w = IF q < 1 THEN 1 ELSE q
  BY DEF refillWait
<1>3. w \in Nat /\ w >= 1 /\ w >= q
  BY <1>1, <1>2
<1> HIDE DEF m, q, w
<1>4. w * p >= m
  <2>1. \A x, y \in Int : x >= y => x * p >= p * y
    OBVIOUS
  <2>2. w * p >= p * q /\ w * p \in Int /\ p * q \in Int
    BY <1>1, <1>3, <2>1
  <2> QED
    BY <1>0, <1>1, <2>2
<1>5. (now + w) - b.lastFill = w /\ now + w >= b.lastFill
  BY <1>3
<1>6. b.level + w * p >= target
  BY <1>0, <1>3, <1>4
<1>7. b.level + ((now + w) - b.lastFill) * p >= target
  BY <1>5, <1>6
<1>8. Enough(b, p, now + w, target)
  BY <1>3, <1>5, <1>7 DEF Enough
<1> QED
  BY <1>3, <1>8 DEF w

-----------------------------------------------------------------------------
\* A key in the map has its buckets; one that is not has no slot in use.
LEMMA StateFacts ==
    /\ NoState \notin KeyState /\ NoState.inFlight = 0
    /\ \A st \in KeyState : /\ st.rpm \in Bucket /\ st.tpm \in Bucket
                             /\ st.inFlight \in Nat /\ st.lastSeen \in Nat
    /\ \A b \in Bucket : b.level \in Int /\ b.lastFill \in Nat
<1>1. NoState \notin KeyState
  BY DEF NoState, KeyState
<1> QED
  BY <1>1 DEF NoState, KeyState, Bucket

LEMMA PresentFacts ==
    ASSUME TypeOK, NEW k \in Keys, Present(k)
    PROVE  /\ perKey[k] \in KeyState
           /\ perKey[k].rpm \in Bucket /\ perKey[k].tpm \in Bucket
           /\ perKey[k].inFlight \in Nat /\ perKey[k].lastSeen \in Nat
           /\ perKey[k].rpm.level \in Int /\ perKey[k].rpm.lastFill \in Nat
           /\ perKey[k].tpm.level \in Int /\ perKey[k].tpm.lastFill \in Nat
<1>1. perKey[k] \in KeyState
  BY DEF TypeOK, Present
<1> QED
  BY <1>1, StateFacts

\* By the time a key may be forgotten its request bucket could be full.
LEMMA IdleIsFull ==
    ASSUME TypeOK, NEW k \in Keys, Custody(k), Idle(k)
    PROVE  Potential(k) = MaxRpm * Minute /\ now - asked[k] > IdleTTL
<1> DEFINE b == perKey[k].rpm
           d == now - b.lastFill
<1>1. /\ Present(k) /\ b \in Bucket /\ b.level \in Nat /\ b.lastFill \in Nat
      /\ b.lastFill = asked[k]
  BY PresentFacts DEF Idle, Custody, Present
<1>2. Minute \in Nat /\ IdleTTL \in Nat /\ IdleTTL >= Minute /\ now \in Nat
  BY LimiterAssumption DEF LimiterAssumption, TypeOK
<1>3. d > IdleTTL /\ d \in Nat
  BY <1>1, <1>2 DEF Idle, Custody
<1>4. MaxRpm * Minute <= d * MaxRpm /\ d * MaxRpm \in Nat /\ MaxRpm * Minute \in Nat
  <2>1. Minute <= d
    BY <1>2, <1>3
  <2>2. Minute * MaxRpm <= d * MaxRpm /\ d * MaxRpm \in Nat /\ Minute * MaxRpm \in Nat
    BY <1>2, <1>3, <2>1, FastestFacts, Products
  <2>3. Minute * MaxRpm = MaxRpm * Minute
    BY <1>2, FastestFacts
  <2> QED
    BY <2>2, <2>3
<1>5. Pot(b, now, MaxRpm) = MaxRpm * Minute
  BY <1>1, <1>4 DEF Pot, Smaller
<1> QED
  BY <1>1, <1>3, <1>5 DEF Potential

\* The collection forgets idle keys and leaves the others as they are.
LEMMA GcFacts ==
    ASSUME TypeOK, NEW k \in Keys
    PROVE  /\ gcLocked \in [Keys -> KeyState \cup {NoState}]
           /\ gcLocked[k] = perKey[k] \/ (Idle(k) /\ gcLocked[k] = NoState)
           /\ gcLocked[k].inFlight = perKey[k].inFlight
<1>1. gcLocked \in [Keys -> KeyState \cup {NoState}]
  BY DEF TypeOK, gcLocked
<1>2. gcLocked[k] = perKey[k] \/ (Idle(k) /\ gcLocked[k] = NoState)
  BY DEF gcLocked
<1>3. gcLocked[k].inFlight = perKey[k].inFlight
  BY <1>2, StateFacts DEF Idle
<1> QED
  BY <1>1, <1>2, <1>3

\* A bucket made now is full at the rate of the moment.
LEMMA FreshFacts ==
    ASSUME now \in Nat, NEW p \in Nat \ {0}, NEW fastest \in Nat, p <= fastest
    PROVE  /\ fresh(p) \in Bucket
           /\ fresh(p).lastFill = now
           /\ fresh(p).level \in Nat
           /\ fresh(p).level <= fastest * Minute
           /\ fresh(p).level >= Minute
           /\ \A until \in Nat, target \in {0, Minute} : Enough(fresh(p), p, until, target)
<1>0. Minute \in Nat
  BY LimiterAssumption DEF LimiterAssumption
<1>1. p * Minute \in Nat /\ p * Minute <= fastest * Minute /\ p * Minute >= Minute
  <2>1. 1 * Minute <= p * Minute /\ 1 * Minute = Minute
    BY <1>0, Products
  <2> QED
    BY <1>0, <2>1, Products
<1>2. fresh(p).level = p * Minute /\ fresh(p).lastFill = now
  BY DEF fresh
<1>3. fresh(p) \in Bucket
  BY <1>1 DEF fresh, Bucket
<1>4. ASSUME NEW until \in Nat, NEW target \in {0, Minute}
      PROVE  Enough(fresh(p), p, until, target)
  <2>1. CASE until >= now
    <3>1. until - now \in Nat
      BY <2>1
    <3>2. (until - now) * p \in Nat
      BY <3>1, Products
    <3> QED
      BY <1>0, <1>1, <1>2, <2>1, <3>2 DEF Enough
  <2>2. CASE until < now
    BY <1>0, <1>1, <1>2, <2>2 DEF Enough
  <2> QED
    BY <2>1, <2>2
<1> QED
  BY <1>1, <1>2, <1>3, <1>4

\* The balance a key has once it is asked for.
Balance(k) == IF now - asked[k] > IdleTTL THEN MaxTpm * Minute ELSE credit[k]

\* What Acquire decides on, looked up or made: no bucket is above its
\* potential, and every promise is kept.
SeenIsSound(k) ==
    /\ Seen(k) \in KeyState
    /\ Seen(k).lastSeen = now
    /\ Seen(k).rpm.lastFill = now /\ Seen(k).tpm.lastFill = now
    /\ Seen(k).inFlight = perKey[k].inFlight
    /\ Seen(k).rpm.level >= 0
    /\ Seen(k).rpm.level <= Potential(k) /\ Seen(k).rpm.level <= MaxRpm * Minute
    /\ Seen(k).tpm.level <= Balance(k) /\ Seen(k).tpm.level <= MaxTpm * Minute
    /\ wait[k].reason = "rpm" =>
         /\ Enough(Seen(k).rpm, limits[k].rpm, wait[k].until, Minute)
         /\ wait[k].until <= now => Seen(k).rpm.level >= Minute
    /\ wait[k].reason = "tpm" =>
         /\ Enough(Seen(k).tpm, limits[k].tpm, wait[k].until, 0)
         /\ wait[k].until <= now => Seen(k).tpm.level >= 0

LEMMA SeenFacts ==
    ASSUME TypeOK, NEW k \in Keys, KeyInv(k)
    PROVE  SeenIsSound(k)
<1> DEFINE st == gcLocked[k]
           l  == limits[k]
           R  == IF st = NoState THEN fresh(l.rpm) ELSE refill(st.rpm, l.rpm)
           T  == IF st = NoState THEN fresh(l.tpm) ELSE refill(st.tpm, l.tpm)
<1>1. Seen(k) = [rpm |-> R, tpm |-> T, inFlight |-> st.inFlight, lastSeen |-> now]
  BY DEF Seen
<1>2. /\ l \in Limits /\ l.rpm \in Nat \ {0} /\ l.tpm \in Nat \ {0}
      /\ l.rpm <= MaxRpm /\ l.tpm <= MaxTpm /\ MaxRpm \in Nat /\ MaxTpm \in Nat
      /\ now \in Nat /\ Minute \in Nat /\ credit[k] \in Int /\ wait[k].until \in Nat
      /\ MaxTpm * Minute \in Nat /\ MaxRpm * Minute \in Nat
  <2>1. l \in Limits /\ now \in Nat /\ Minute \in Nat /\ credit[k] \in Int /\ wait[k].until \in Nat
    BY LimiterAssumption DEF LimiterAssumption, TypeOK
  <2> QED
    BY <2>1, FastestFacts, Products
<1>3. st.inFlight = perKey[k].inFlight /\ st.inFlight \in Nat
  <2>1. perKey[k].inFlight \in Nat
    BY PresentFacts, StateFacts DEF Present
  <2> QED
    BY <2>1, GcFacts
<1>4. SUFFICES /\ R \in Bucket /\ T \in Bucket /\ R.lastFill = now /\ T.lastFill = now
               /\ R.level >= 0 /\ R.level <= Potential(k) /\ R.level <= MaxRpm * Minute
               /\ T.level <= Balance(k) /\ T.level <= MaxTpm * Minute
               /\ wait[k].reason = "rpm" =>
                    /\ Enough(R, l.rpm, wait[k].until, Minute)
                    /\ wait[k].until <= now => R.level >= Minute
               /\ wait[k].reason = "tpm" =>
                    /\ Enough(T, l.tpm, wait[k].until, 0)
                    /\ wait[k].until <= now => T.level >= 0
  <2> HIDE DEF R, T, st
  <2>1. /\ Seen(k).rpm = R /\ Seen(k).tpm = T /\ Seen(k).inFlight = st.inFlight
        /\ Seen(k).lastSeen = now
    BY <1>1
  <2>2. R \in Bucket /\ T \in Bucket => Seen(k) \in KeyState
    BY <1>1, <1>2, <1>3 DEF KeyState
  <2> QED
    BY <1>3, <2>1, <2>2 DEF SeenIsSound
<1>5. CASE st = NoState
  <2>1. R = fresh(l.rpm) /\ T = fresh(l.tpm)
    BY <1>5
  <2>2. /\ R \in Bucket /\ R.lastFill = now /\ R.level \in Nat /\ R.level <= MaxRpm * Minute
        /\ R.level >= Minute /\ Enough(R, l.rpm, wait[k].until, Minute)
    BY <1>2, <2>1, FreshFacts
  <2>3. /\ T \in Bucket /\ T.lastFill = now /\ T.level \in Nat /\ T.level <= MaxTpm * Minute
        /\ Enough(T, l.tpm, wait[k].until, 0)
    BY <1>2, <2>1, FreshFacts
  <2>4. Potential(k) = MaxRpm * Minute /\ Balance(k) = MaxTpm * Minute
    <3>1. CASE Idle(k)
      BY <3>1, IdleIsFull DEF KeyInv, Balance
    <3>2. CASE ~Idle(k)
      <4>1. ~Present(k)
        BY <1>5, <3>2, GcFacts DEF Present
      <4> QED
        BY <4>1 DEF KeyInv, Custody, Potential, Balance
    <3> QED
      BY <3>1, <3>2
  <2> HIDE DEF R, T
  <2> QED
    BY <2>2, <2>3, <2>4
<1>6. CASE st # NoState
  <2>1. st = perKey[k] /\ Present(k)
    BY <1>6, GcFacts DEF Present
  <2>2. R = refill(perKey[k].rpm, l.rpm) /\ T = refill(perKey[k].tpm, l.tpm)
    BY <1>6, <2>1
  <2>3. /\ perKey[k].rpm \in Bucket /\ perKey[k].tpm \in Bucket
        /\ perKey[k].rpm.lastFill <= now /\ perKey[k].tpm.lastFill <= now
        /\ perKey[k].rpm.level >= 0 /\ perKey[k].rpm.level <= MaxRpm * Minute
        /\ perKey[k].tpm.level <= MaxTpm * Minute
    BY <1>2, <2>1, PresentFacts DEF KeyInv, Custody
  <2>4. /\ R \in Bucket /\ R.lastFill = now /\ R.level <= Pot(perKey[k].rpm, now, MaxRpm)
        /\ R.level <= MaxRpm * Minute /\ R.level >= 0
    BY <1>2, <2>2, <2>3, RefillFacts
  <2>5. /\ T \in Bucket /\ T.lastFill = now /\ T.level <= Pot(perKey[k].tpm, now, MaxTpm)
        /\ T.level <= MaxTpm * Minute /\ Pot(perKey[k].tpm, now, MaxTpm) \in Int
    BY <1>2, <2>2, <2>3, RefillFacts
  <2>6. T.level <= Balance(k)
    <3>1. Pot(perKey[k].tpm, now, MaxTpm) <= credit[k] /\ T.level \in Int
      BY <2>1, <2>5, StateFacts DEF KeyInv, Owing
    <3> HIDE DEF T
    <3> QED
      BY <1>2, <2>5, <3>1 DEF Balance
  <2>7. ASSUME wait[k].reason = "rpm"
        PROVE  /\ Enough(R, l.rpm, wait[k].until, Minute)
               /\ wait[k].until <= now => R.level >= Minute
    <3>1. Enough(perKey[k].rpm, l.rpm, wait[k].until, Minute)
      BY <2>1, <2>7 DEF KeyInv, Promise
    <3>2. Minute \in Int /\ Minute <= l.rpm * Minute
      <4>1. 1 * Minute <= l.rpm * Minute /\ 1 * Minute = Minute
        BY <1>2, Products
      <4> QED
        BY <1>2, <4>1
    <3>3. l.rpm \in Nat
      BY <1>2
    <3>4. /\ perKey[k].rpm \in Bucket /\ perKey[k].rpm.lastFill <= now
          /\ now \in Nat /\ wait[k].until \in Nat
      BY <1>2, <2>3
    <3>5. /\ Enough(refill(perKey[k].rpm, l.rpm), l.rpm, wait[k].until, Minute)
          /\ wait[k].until <= now => refill(perKey[k].rpm, l.rpm).level >= Minute
      BY <3>1, <3>2, <3>3, <3>4, RefillKeepsPromise
    <3> QED
      BY <2>2, <3>5
  <2>8. ASSUME wait[k].reason = "tpm"
        PROVE  /\ Enough(T, l.tpm, wait[k].until, 0)
               /\ wait[k].until <= now => T.level >= 0
    <3>1. Enough(perKey[k].tpm, l.tpm, wait[k].until, 0)
      BY <2>1, <2>8 DEF KeyInv, Promise
    <3>2. 0 <= l.tpm * Minute
      <4>1. \A n, m \in Nat : 0 <= n * m
        OBVIOUS
      <4> QED
        BY <1>2, <4>1
    <3>3. l.tpm \in Nat
      BY <1>2
    <3>4. /\ perKey[k].tpm \in Bucket /\ perKey[k].tpm.lastFill <= now
          /\ now \in Nat /\ wait[k].until \in Nat
      BY <1>2, <2>3
    <3>5. /\ Enough(refill(perKey[k].tpm, l.tpm), l.tpm, wait[k].until, 0)
          /\ wait[k].until <= now => refill(perKey[k].tpm, l.tpm).level >= 0
      BY <3>1, <3>2, <3>3, <3>4, RefillKeepsPromise
    <3> QED
      BY <2>2, <3>5
  <2>9. R.level <= Potential(k)
    BY <2>1, <2>4 DEF Potential
  <2> HIDE DEF R, T
  <2> QED
    BY <2>4, <2>5, <2>6, <2>7, <2>8, <2>9
<1> QED
  BY <1>5, <1>6

-----------------------------------------------------------------------------
\* A bucket filled up to now is its own potential, and in one tick the
\* potential grows by no more than one tick's refill.
LEMMA PotNow ==
    ASSUME NEW b \in Bucket, NEW f \in Nat, b.level <= f * Minute
    PROVE  Pot(b, b.lastFill, f) = b.level
<1>1. 0 * f = 0 /\ b.level \in Int /\ b.lastFill \in Nat /\ f * Minute \in Nat
  BY LimiterAssumption, Products DEF LimiterAssumption, Bucket
<1>2. (b.lastFill - b.lastFill) * f = 0
  BY <1>1
<1> QED
  BY <1>1, <1>2 DEF Pot, Smaller

LEMMA PotTick ==
    ASSUME NEW b \in Bucket, NEW t \in Nat, b.lastFill <= t, NEW f \in Nat
    PROVE  /\ Pot(b, t, f) \in Int /\ Pot(b, t + 1, f) \in Int
           /\ Pot(b, t + 1, f) <= Pot(b, t, f) + f
           /\ Pot(b, t, f) <= f * Minute
           /\ Pot(b, t + 1, f) <= f * Minute
           /\ b.level >= 0 => Pot(b, t, f) >= 0
<1> DEFINE d == t - b.lastFill
<1>1. b.level \in Int /\ d \in Nat /\ f * Minute \in Nat /\ d * f \in Nat
  <2>1. b.level \in Int /\ d \in Nat /\ Minute \in Nat
    BY LimiterAssumption DEF LimiterAssumption, Bucket
  <2> QED
    BY <2>1, Products
<1>2. (t + 1) - b.lastFill = d + 1
  BY DEF Bucket
<1>3. (d + 1) * f = d * f + f
  BY <1>1, Products
<1>4. Pot(b, t + 1, f) = Smaller(b.level + (d * f + f), f * Minute)
  BY <1>2, <1>3 DEF Pot
<1>5. Pot(b, t, f) = Smaller(b.level + d * f, f * Minute)
  BY DEF Pot
<1> HIDE DEF d
<1> QED
  BY <1>1, <1>4, <1>5 DEF Smaller

\* Requests are counted.
LEMMA Counted ==
    ASSUME NEW S \in SUBSET Requests
    PROVE  IsFiniteSet(S) /\ Cardinality(S) \in Nat
  BY LimiterAssumption, FS_Subset, FS_CardinalityType DEF LimiterAssumption

\* What each verdict says of the state it is given for.
LEMMA VerdictFacts ==
    ASSUME NEW k
    PROVE  /\ Verdict(k) = "rpm" => Seen(k).rpm.level < Minute
           /\ Verdict(k) = "tpm" => Seen(k).tpm.level < 0
           /\ Verdict(k) \in {"ok", "conc", "rpm", "tpm"}
           /\ Verdict(k) = "ok" =>
                /\ ~(Seen(k).inFlight >= limits[k].conc)
                /\ Seen(k).inFlight < limits[k].conc => ~(Seen(k).rpm.level < Minute)
                /\ Seen(k).inFlight < limits[k].conc /\ Seen(k).rpm.level >= Minute
                     => ~(Seen(k).tpm.level < 0)
  BY DEF Verdict

\* What an admitted request leaves: one request paid, one slot more.
Paid(k) == [Seen(k) EXCEPT !.rpm.level = @ - Minute, !.inFlight = @ + 1]

LEMMA PaidFacts ==
    ASSUME NEW k, Seen(k) \in KeyState
    PROVE  /\ Paid(k) \in KeyState
           /\ Paid(k).rpm.level = Seen(k).rpm.level - Minute
           /\ Paid(k).rpm.lastFill = Seen(k).rpm.lastFill
           /\ Paid(k).tpm = Seen(k).tpm
           /\ Paid(k).inFlight = Seen(k).inFlight + 1
           /\ Paid(k).lastSeen = Seen(k).lastSeen
<1> DEFINE S == Seen(k)
           P == Paid(k)
<1>1. Minute \in Nat
  BY LimiterAssumption DEF LimiterAssumption
<1>2. P = [S EXCEPT !.rpm.level = @ - Minute, !.inFlight = @ + 1]
  BY DEF Paid
<1> HIDE DEF S, P
<1>3. S \in KeyState
  BY DEF S
<1>4. /\ S.rpm \in Bucket /\ S.tpm \in Bucket /\ S.inFlight \in Nat /\ S.lastSeen \in Nat
      /\ S.rpm.level \in Int /\ S.rpm.lastFill \in Nat
  BY <1>3, StateFacts
<1>5. /\ P.rpm = [S.rpm EXCEPT !.level = @ - Minute]
      /\ P.tpm = S.tpm /\ P.inFlight = S.inFlight + 1 /\ P.lastSeen = S.lastSeen
      /\ DOMAIN P = DOMAIN S
  BY <1>2, <1>3 DEF KeyState
<1>6. P.rpm.level = S.rpm.level - Minute /\ P.rpm.lastFill = S.rpm.lastFill
  BY <1>4, <1>5 DEF Bucket
<1>7. P.rpm \in Bucket
  BY <1>1, <1>4, <1>5 DEF Bucket
<1>8. P = [rpm |-> P.rpm, tpm |-> P.tpm, inFlight |-> P.inFlight, lastSeen |-> P.lastSeen]
  BY <1>2, <1>3 DEF KeyState
<1>9. P \in KeyState
  BY <1>4, <1>5, <1>7, <1>8 DEF KeyState
<1> QED
  BY <1>5, <1>6, <1>9 DEF S, P

\* What a charge leaves: the token bucket filled up to now, less the cost.
Charged(k, r, n) ==
    LET b == refill(perKey[k].tpm, tpmOf[r])
    IN  [perKey[k] EXCEPT !.tpm = [b EXCEPT !.level = @ - n * Minute]]

LEMMA ChargedFacts ==
    ASSUME TypeOK, NEW k \in Keys, Present(k), Custody(k), NEW r \in Requests,
           tpmOf[r] <= MaxTpm, NEW n \in Tokens
    PROVE  /\ n * Minute \in Nat
           /\ Charged(k, r, n) \in KeyState
           /\ Charged(k, r, n).rpm = perKey[k].rpm
           /\ Charged(k, r, n).inFlight = perKey[k].inFlight
           /\ Charged(k, r, n).lastSeen = perKey[k].lastSeen
           /\ Charged(k, r, n).tpm.lastFill = now
           /\ Charged(k, r, n).tpm.level
                <= Pot(perKey[k].tpm, now, MaxTpm) - n * Minute
           /\ Charged(k, r, n).tpm.level <= MaxTpm * Minute
           /\ Pot(perKey[k].tpm, now, MaxTpm) \in Int
<1> DEFINE S == perKey[k]
           B == refill(S.tpm, tpmOf[r])
           c == n * Minute
           P == Charged(k, r, n)
<1>0. Minute \in Nat /\ n \in Nat /\ now \in Nat /\ tpmOf[r] \in Nat /\ MaxTpm \in Nat
  BY LimiterAssumption, FastestFacts DEF LimiterAssumption, TypeOK
<1>1. c \in Nat /\ MaxTpm * Minute \in Nat
  BY <1>0, Products
<1>2. /\ S \in KeyState /\ S.rpm \in Bucket /\ S.tpm \in Bucket /\ S.inFlight \in Nat
      /\ S.lastSeen \in Nat
  BY PresentFacts
<1>3. S.tpm.lastFill <= now /\ S.tpm.level <= MaxTpm * Minute
  BY DEF Custody
<1>4. /\ B \in Bucket /\ B.lastFill = now /\ B.level <= Pot(S.tpm, now, MaxTpm)
      /\ B.level <= MaxTpm * Minute /\ Pot(S.tpm, now, MaxTpm) \in Int
  BY <1>0, <1>2, <1>3, RefillFacts
<1>5. P = [S EXCEPT !.tpm = [B EXCEPT !.level = @ - c]]
  BY DEF Charged
<1> HIDE DEF S, B, c, P
<1>6. B.level \in Int
  BY <1>4, StateFacts
<1>7. /\ P.rpm = S.rpm /\ P.inFlight = S.inFlight /\ P.lastSeen = S.lastSeen
      /\ P.tpm = [B EXCEPT !.level = @ - c]
  BY <1>2, <1>5 DEF KeyState
<1>a. P = [rpm |-> P.rpm, tpm |-> P.tpm, inFlight |-> P.inFlight, lastSeen |-> P.lastSeen]
  BY <1>2, <1>5, <1>7 DEF KeyState
<1>8. P.tpm.level = B.level - c /\ P.tpm.lastFill = now /\ P.tpm \in Bucket
  <2>1. P.tpm = [level |-> B.level - c, lastFill |-> now]
    BY <1>4, <1>7 DEF Bucket
  <2> QED
    BY <1>0, <1>1, <1>6, <2>1 DEF Bucket
<1>9. P \in KeyState
  BY <1>2, <1>7, <1>8, <1>a DEF KeyState
<1>10. /\ P.tpm.level <= Pot(S.tpm, now, MaxTpm) - c
       /\ P.tpm.level <= MaxTpm * Minute
  BY <1>1, <1>4, <1>6, <1>8
<1> QED
  BY <1>1, <1>4, <1>7, <1>8, <1>9, <1>10 DEF S, c, P

\* A slot given back.
LEMMA ReleasedFacts ==
    ASSUME NEW st \in KeyState, NEW n \in Nat
    PROVE  /\ [st EXCEPT !.inFlight = n] \in KeyState
           /\ [st EXCEPT !.inFlight = n].rpm = st.rpm
           /\ [st EXCEPT !.inFlight = n].tpm = st.tpm
           /\ [st EXCEPT !.inFlight = n].lastSeen = st.lastSeen
           /\ [st EXCEPT !.inFlight = n].inFlight = n
  BY DEF KeyState

-----------------------------------------------------------------------------
\* A running request keeps its key in the map.
LEMMA RunningIsPresent ==
    ASSUME TypeOK, InFlightIsExact, NEW r \in Requests, req[r] \in {"held", "charged"}
    PROVE  /\ KeyOf[r] \in Keys /\ Present(KeyOf[r]) /\ r \in Held(KeyOf[r])
           /\ perKey[KeyOf[r]].inFlight > 0
<1>1. KeyOf[r] \in Keys /\ r \in Held(KeyOf[r])
  BY LimiterAssumption DEF LimiterAssumption, Held
<1>2. IsFiniteSet(Held(KeyOf[r])) /\ Cardinality(Held(KeyOf[r])) \in Nat
  BY Counted DEF Held
<1>3. Cardinality(Held(KeyOf[r])) > 0
  BY <1>1, <1>2, FS_EmptySet
<1> QED
  BY <1>1, <1>3, StateFacts DEF InFlightIsExact, Present

\* What the four steps of a request do to its key's entry.
LEMMA AdmitFacts ==
    ASSUME IInv, NEW r \in Requests, Admit(r)
    PROVE  LET k == KeyOf[r] IN
           /\ k \in Keys /\ SeenIsSound(k)
           /\ perKey' = [gcLocked EXCEPT ![k] = Paid(k)] /\ perKey'[k] = Paid(k)
           /\ Seen(k).inFlight < limits[k].conc
           /\ Seen(k).rpm.level >= Minute /\ Seen(k).tpm.level >= 0
<1> DEFINE k == KeyOf[r]
<1>1. k \in Keys
  BY LimiterAssumption DEF LimiterAssumption
<1>2. SeenIsSound(k)
  BY <1>1, SeenFacts DEF IInv
<1>3. Seen(k).inFlight \in Nat /\ Seen(k).rpm.level \in Int /\ Seen(k).tpm.level \in Int
  BY <1>2, StateFacts DEF SeenIsSound
<1>4. limits[k].conc \in Nat /\ Minute \in Nat
  BY <1>1, FastestFacts, LimiterAssumption DEF LimiterAssumption, IInv, TypeOK
<1>5. Verdict(k) = "ok"
  BY DEF Admit
<1>6. /\ Seen(k).inFlight < limits[k].conc
      /\ Seen(k).rpm.level >= Minute /\ Seen(k).tpm.level >= 0
  BY <1>3, <1>4, <1>5, VerdictFacts
<1>7. perKey' = [gcLocked EXCEPT ![k] = Paid(k)]
  BY DEF Admit, Paid
<1>8. perKey'[k] = Paid(k)
  BY <1>1, <1>7, GcFacts DEF IInv
<1> QED
  BY <1>1, <1>2, <1>6, <1>7, <1>8

LEMMA RefuseFacts ==
    ASSUME IInv, NEW r \in Requests, Refuse(r)
    PROVE  LET k == KeyOf[r] IN
           /\ k \in Keys /\ SeenIsSound(k)
           /\ perKey' = [gcLocked EXCEPT ![k] = Seen(k)] /\ perKey'[k] = Seen(k)
           /\ \/ wait' = wait
              \/ /\ Seen(k).rpm.level < Minute
                 /\ wait' = [wait EXCEPT ![k] = [reason |-> "rpm",
                      until |-> now + refillWait(Seen(k).rpm.level, Minute, limits[k].rpm)]]
              \/ /\ Seen(k).tpm.level < 0
                 /\ wait' = [wait EXCEPT ![k] = [reason |-> "tpm",
                      until |-> now + refillWait(Seen(k).tpm.level, 0, limits[k].tpm)]]
<1> DEFINE k == KeyOf[r]
<1>1. k \in Keys
  BY LimiterAssumption DEF LimiterAssumption
<1>2. SeenIsSound(k)
  BY <1>1, SeenFacts DEF IInv
<1>3. perKey' = [gcLocked EXCEPT ![k] = Seen(k)]
  BY DEF Refuse
<1>4. perKey'[k] = Seen(k)
  BY <1>1, <1>3, GcFacts DEF IInv
<1>5. Verdict(k) \in {"conc", "rpm", "tpm"}
  BY VerdictFacts DEF Refuse
<1>6. CASE Verdict(k) = "conc"
  BY <1>1, <1>2, <1>3, <1>4, <1>6 DEF Refuse
<1>7. CASE Verdict(k) = "rpm"
  <2>1. wait' = [wait EXCEPT ![k] = [reason |-> "rpm",
                      until |-> now + refillWait(Seen(k).rpm.level, Minute, limits[k].rpm)]]
    BY <1>7 DEF Refuse
  <2> QED
    BY <1>1, <1>2, <1>3, <1>4, <1>7, <2>1, VerdictFacts
<1>8. CASE Verdict(k) = "tpm"
  <2>1. wait' = [wait EXCEPT ![k] = [reason |-> "tpm",
                      until |-> now + refillWait(Seen(k).tpm.level, 0, limits[k].tpm)]]
    BY <1>8 DEF Refuse
  <2> QED
    BY <1>1, <1>2, <1>3, <1>4, <1>8, <2>1, VerdictFacts
<1> QED
  BY <1>5, <1>6, <1>7, <1>8

\* What a charge and a release do to their key's entry.
LEMMA ChargeFacts ==
    ASSUME IInv, NEW r \in Requests, ChargeTokens(r)
    PROVE  LET k == KeyOf[r] IN
           /\ k \in Keys /\ Present(k)
           /\ \/ perKey' = perKey /\ wait' = wait /\ credit' = credit
              \/ \E n \in Tokens :
                   /\ perKey' = [perKey EXCEPT ![k] = Charged(k, r, n)]
                   /\ perKey'[k] = Charged(k, r, n)
                   /\ credit' = [credit EXCEPT ![k] = credit[k] - n * Minute]
                   /\ wait' = [wait EXCEPT ![k] = NoWait]
<1> DEFINE k == KeyOf[r]
<1>1. k \in Keys /\ Present(k)
  BY RunningIsPresent DEF IInv, ChargeTokens
<1>2. PICK n \in Tokens :
        IF n = 0 \/ perKey[k] = NoState
        THEN perKey' = perKey /\ wait' = wait /\ credit' = credit
        ELSE /\ perKey' = [perKey EXCEPT ![k] = Charged(k, r, n)]
             /\ credit' = [credit EXCEPT ![k] = credit[k] - n * Minute]
             /\ wait' = [wait EXCEPT ![k] = NoWait]
  BY DEF ChargeTokens, Charged
<1>3. CASE n = 0 \/ perKey[k] = NoState
  BY <1>1, <1>2, <1>3
<1>4. CASE ~(n = 0 \/ perKey[k] = NoState)
  <2>1. perKey'[k] = Charged(k, r, n)
    BY <1>1, <1>2, <1>4 DEF IInv, TypeOK
  <2> QED
    BY <1>1, <1>2, <1>4, <2>1
<1> QED
  BY <1>3, <1>4

LEMMA ReleaseFacts ==
    ASSUME IInv, NEW r \in Requests, Release(r)
    PROVE  LET k == KeyOf[r]
               n == perKey[k].inFlight - 1
           IN /\ k \in Keys /\ Present(k) /\ n \in Nat
              /\ perKey' = [perKey EXCEPT ![k] = [perKey[k] EXCEPT !.inFlight = n]]
              /\ perKey'[k] = [perKey[k] EXCEPT !.inFlight = n]
<1> DEFINE k == KeyOf[r]
           n == perKey[k].inFlight - 1
<1>1. k \in Keys /\ Present(k) /\ perKey[k].inFlight > 0
  BY RunningIsPresent DEF IInv, Release
<1>2. n \in Nat
  BY <1>1, PresentFacts DEF IInv
<1>3. perKey' = [perKey EXCEPT ![k] = [perKey[k] EXCEPT !.inFlight = n]]
  BY <1>1 DEF Release
<1>4. perKey'[k] = [perKey[k] EXCEPT !.inFlight = n]
  BY <1>1, <1>3 DEF IInv, TypeOK
<1> QED
  BY <1>1, <1>2, <1>3, <1>4

-----------------------------------------------------------------------------
\* Every step keeps every variable in its type.
LEMMA TypeStep == IInv /\ [Next]_vars => TypeOK'
<1> SUFFICES ASSUME IInv, [Next]_vars PROVE TypeOK'
  OBVIOUS
<1>0. TypeOK
  BY DEF IInv
<1>a. /\ now \in Nat /\ MaxTime \in Nat /\ Minute \in Nat /\ MaxTpm \in Nat
      /\ MaxTpm * Minute \in Nat
  BY <1>0, LimiterAssumption, FastestFacts, Products DEF LimiterAssumption, TypeOK
<1>b. ASSUME NEW k \in Keys, Acquire(k)
      PROVE  /\ lastGC' \in Int /\ now' = now /\ limits' = limits
             /\ asked' \in [Keys -> 0..MaxTime \cup {-1}]
             /\ credit' \in [Keys -> Int]
  <2>1. credit' = [credit EXCEPT ![k] = IF now - asked[k] > IdleTTL
                                        THEN MaxTpm * Minute ELSE credit[k]]
    BY <1>b DEF Acquire, MaxTpm
  <2>2. credit' \in [Keys -> Int]
    BY <1>0, <1>a, <2>1 DEF TypeOK
  <2>3. lastGC' \in Int
    BY <1>0, <1>b DEF Acquire, TypeOK
  <2> QED
    BY <1>0, <1>b, <2>2, <2>3 DEF Acquire, TypeOK
<1>1. ASSUME NEW r \in Requests, Admit(r)
      PROVE  TypeOK'
  <2> DEFINE k == KeyOf[r]
  <2>1. k \in Keys /\ SeenIsSound(k) /\ perKey' = [gcLocked EXCEPT ![k] = Paid(k)]
    BY <1>1, AdmitFacts
  <2>2. perKey' \in [Keys -> KeyState \cup {NoState}]
    <3>1. Paid(k) \in KeyState /\ gcLocked \in [Keys -> KeyState \cup {NoState}]
      BY <1>0, <2>1, PaidFacts, GcFacts DEF SeenIsSound
    <3> HIDE DEF k
    <3> QED
      BY <2>1, <3>1
  <2>3. limits[k].tpm \in Nat
    BY <1>0, <2>1, FastestFacts DEF TypeOK
  <2>4. /\ req' \in [Requests -> {"new", "held", "charged", "done"}]
        /\ tpmOf' \in [Requests -> Nat]
        /\ at' \in [Requests -> 0..MaxTime \cup {-1}]
    BY <1>0, <1>1, <2>3 DEF Admit, TypeOK
  <2>5. wait' \in [Keys -> [reason: Reasons \cup {"none"}, until: Nat]]
    BY <1>0, <1>1, <2>1 DEF Admit, TypeOK, NoWait
  <2>6. Acquire(k)
    BY <1>1 DEF Admit
  <2> QED
    BY <1>0, <1>b, <2>1, <2>2, <2>4, <2>5, <2>6 DEF TypeOK
<1>2. ASSUME NEW r \in Requests, Refuse(r)
      PROVE  TypeOK'
  <2> DEFINE k == KeyOf[r]
  <2>1. k \in Keys /\ SeenIsSound(k) /\ perKey' = [gcLocked EXCEPT ![k] = Seen(k)]
    BY <1>2, RefuseFacts
  <2>2. perKey' \in [Keys -> KeyState \cup {NoState}]
    <3>1. Seen(k) \in KeyState /\ gcLocked \in [Keys -> KeyState \cup {NoState}]
      BY <1>0, <2>1, GcFacts DEF SeenIsSound
    <3> HIDE DEF k
    <3> QED
      BY <2>1, <3>1
  <2>3. /\ now + refillWait(Seen(k).rpm.level, Minute, limits[k].rpm) \in Nat
        /\ now + refillWait(Seen(k).tpm.level, 0, limits[k].tpm) \in Nat
    <3>1. limits[k].rpm \in Nat \ {0} /\ limits[k].tpm \in Nat \ {0}
      BY <1>0, <2>1, FastestFacts DEF TypeOK
    <3>2. /\ Seen(k).rpm \in Bucket /\ Seen(k).rpm.lastFill = now
          /\ Seen(k).tpm \in Bucket /\ Seen(k).tpm.lastFill = now
      BY <2>1, StateFacts DEF SeenIsSound
    <3>3. Minute \in Int /\ 0 \in Int
      BY <1>a
    <3>4. refillWait(Seen(k).rpm.level, Minute, limits[k].rpm) \in Nat
      BY <1>a, <3>1, <3>2, <3>3, WaitFacts, Zenon
    <3>5. refillWait(Seen(k).tpm.level, 0, limits[k].tpm) \in Nat
      BY <1>a, <3>1, <3>2, <3>3, WaitFacts, Zenon
    <3> QED
      BY <1>a, <3>4, <3>5
  <2>4. wait' \in [Keys -> [reason: Reasons \cup {"none"}, until: Nat]]
    <3> DEFINE W == [reason: Reasons \cup {"none"}, until: Nat]
               u == now + refillWait(Seen(k).rpm.level, Minute, limits[k].rpm)
               v == now + refillWait(Seen(k).tpm.level, 0, limits[k].tpm)
    <3>1. \/ wait' = wait
          \/ wait' = [wait EXCEPT ![k] = [reason |-> "rpm", until |-> u]]
          \/ wait' = [wait EXCEPT ![k] = [reason |-> "tpm", until |-> v]]
      BY <1>2, RefuseFacts, Zenon
    <3>2. wait \in [Keys -> W] /\ u \in Nat /\ v \in Nat
      BY <1>0, <2>3 DEF TypeOK
    <3> HIDE DEF k, u, v
    <3>3. [reason |-> "rpm", until |-> u] \in W /\ [reason |-> "tpm", until |-> v] \in W
      BY <3>2 DEF Reasons
    <3> HIDE DEF W
    <3>4. wait' \in [Keys -> W]
      BY <3>1, <3>2, <3>3
    <3> QED
      BY <3>4 DEF W
  <2>5. Acquire(k) /\ req' = req /\ tpmOf' = tpmOf /\ at' = at
    BY <1>2 DEF Refuse
  <2> QED
    BY <1>0, <1>b, <2>1, <2>2, <2>4, <2>5 DEF TypeOK
<1>3. ASSUME NEW r \in Requests, ChargeTokens(r)
      PROVE  TypeOK'
  <2> DEFINE k == KeyOf[r]
  <2>1. /\ req' = [req EXCEPT ![r] = "charged"]
        /\ UNCHANGED <<now, limits, lastGC, tpmOf, at, asked>>
    BY <1>3 DEF ChargeTokens
  <2>2. req' \in [Requests -> {"new", "held", "charged", "done"}]
    BY <1>0, <2>1 DEF TypeOK
  <2>3. CASE perKey' = perKey /\ wait' = wait /\ credit' = credit
    BY <1>0, <2>1, <2>2, <2>3 DEF TypeOK
  <2>4. ASSUME NEW n \in Tokens,
               perKey' = [perKey EXCEPT ![k] = Charged(k, r, n)],
               credit' = [credit EXCEPT ![k] = credit[k] - n * Minute],
               wait' = [wait EXCEPT ![k] = NoWait]
        PROVE  TypeOK'
    <3>1. k \in Keys /\ Present(k) /\ Custody(k) /\ tpmOf[r] <= MaxTpm
      BY <1>3, ChargeFacts DEF IInv, KeyInv, Journal
    <3>2. Charged(k, r, n) \in KeyState /\ n * Minute \in Nat
      BY <1>0, <3>1, ChargedFacts
    <3> HIDE DEF k
    <3>3. perKey' \in [Keys -> KeyState \cup {NoState}]
      BY <1>0, <2>4, <3>1, <3>2 DEF TypeOK
    <3>4. credit' \in [Keys -> Int]
      BY <1>0, <2>4, <3>1, <3>2 DEF TypeOK
    <3>5. wait' \in [Keys -> [reason: Reasons \cup {"none"}, until: Nat]]
      BY <1>0, <2>4, <3>1 DEF TypeOK, NoWait
    <3> QED
      BY <1>0, <2>1, <2>2, <3>3, <3>4, <3>5 DEF TypeOK
  <2> QED
    BY <1>3, <2>3, <2>4, ChargeFacts
<1>4. ASSUME NEW r \in Requests, Release(r)
      PROVE  TypeOK'
  <2> DEFINE k == KeyOf[r]
             n == perKey[k].inFlight - 1
  <2>1. /\ k \in Keys /\ Present(k) /\ n \in Nat
        /\ perKey' = [perKey EXCEPT ![k] = [perKey[k] EXCEPT !.inFlight = n]]
    BY <1>4, ReleaseFacts
  <2>2. [perKey[k] EXCEPT !.inFlight = n] \in KeyState
    BY <1>0, <2>1, PresentFacts, ReleasedFacts
  <2>3. req' \in [Requests -> {"new", "held", "charged", "done"}]
    BY <1>0, <1>4 DEF Release, TypeOK
  <2> HIDE DEF k, n
  <2>4. perKey' \in [Keys -> KeyState \cup {NoState}]
    BY <1>0, <2>1, <2>2 DEF TypeOK
  <2> QED
    BY <1>0, <1>4, <2>3, <2>4 DEF Release, TypeOK
<1>5. ASSUME NEW k \in Keys, keyLimits(k)
      PROVE  TypeOK'
  BY <1>0, <1>5 DEF keyLimits, TypeOK, NoWait
<1>6. CASE Tick
  <2>1. credit' = [k \in Keys |-> Smaller(credit[k] + MaxTpm, MaxTpm * Minute)]
    BY <1>6 DEF Tick, MaxTpm
  <2>2. credit' \in [Keys -> Int]
    BY <1>0, <1>a, <2>1 DEF TypeOK, Smaller
  <2>3. now' \in 0..MaxTime
    BY <1>0, <1>a, <1>6 DEF Tick, TypeOK
  <2> QED
    BY <1>0, <1>6, <2>2, <2>3 DEF Tick, TypeOK
<1>7. CASE UNCHANGED vars
  BY <1>0, <1>7 DEF vars, TypeOK
<1> QED
  BY <1>1, <1>2, <1>3, <1>4, <1>5, <1>6, <1>7 DEF Next

-----------------------------------------------------------------------------
\* Every step keeps the journal of admissions.
LEMMA JournalStep == IInv /\ [Next]_vars => Journal'
<1> SUFFICES ASSUME IInv, [Next]_vars PROVE Journal'
  OBVIOUS
<1>0. TypeOK /\ Journal
  BY DEF IInv
<1>a. now \in Nat
  BY <1>0, LimiterAssumption DEF LimiterAssumption, TypeOK
<1>1. ASSUME NEW r \in Requests, Admit(r)
      PROVE  Journal'
  <2>1. KeyOf[r] \in Keys
    BY LimiterAssumption DEF LimiterAssumption
  <2>2. limits[KeyOf[r]].tpm <= MaxTpm
    BY <1>0, <2>1, FastestFacts DEF TypeOK
  <2>3. MaxTpm' = MaxTpm
    BY DEF MaxTpm, Fastest, TpmOf
  <2>4. now # -1
    BY <1>a
  <2>5. /\ now' = now /\ req' = [req EXCEPT ![r] = "held"] /\ at' = [at EXCEPT ![r] = now]
        /\ tpmOf' = [tpmOf EXCEPT ![r] = limits[KeyOf[r]].tpm]
    BY <1>1 DEF Admit, Acquire
  <2> SUFFICES ASSUME NEW q \in Requests
               PROVE  /\ (req'[q] = "new") <=> (at'[q] = -1)
                      /\ at'[q] <= now' /\ tpmOf'[q] <= MaxTpm
    BY <2>3 DEF Journal
  <2>6. CASE q = r
    BY <1>0, <1>a, <2>2, <2>4, <2>5, <2>6 DEF TypeOK
  <2>7. CASE q # r
    BY <1>0, <2>5, <2>7 DEF TypeOK, Journal
  <2> QED
    BY <2>6, <2>7
<1>2. ASSUME NEW r \in Requests, Refuse(r)
      PROVE  Journal'
  BY <1>0, <1>2 DEF Refuse, Acquire, Journal, MaxTpm, Fastest, TpmOf
<1>3. ASSUME NEW r \in Requests, ChargeTokens(r) \/ Release(r)
      PROVE  Journal'
  <2>1. /\ now' = now /\ at' = at /\ tpmOf' = tpmOf /\ req[r] # "new"
        /\ \/ req' = [req EXCEPT ![r] = "charged"]
           \/ req' = [req EXCEPT ![r] = "done"]
    BY <1>3 DEF ChargeTokens, Release
  <2>2. \A q \in Requests : (req'[q] = "new") <=> (req[q] = "new")
    BY <1>0, <2>1 DEF TypeOK
  <2> QED
    BY <1>0, <2>1, <2>2 DEF Journal, MaxTpm, Fastest, TpmOf
<1>4. ASSUME NEW k \in Keys, keyLimits(k)
      PROVE  Journal'
  BY <1>0, <1>4 DEF keyLimits, Journal, MaxTpm, Fastest, TpmOf
<1>5. CASE Tick
  <2>1. now' = now + 1 /\ at' = at /\ tpmOf' = tpmOf /\ req' = req
    BY <1>5 DEF Tick
  <2>2. \A q \in Requests : at[q] <= now => at[q] <= now + 1
    BY <1>0, <1>a DEF TypeOK
  <2>3. MaxTpm' = MaxTpm
    BY DEF MaxTpm, Fastest, TpmOf
  <2> QED
    BY <1>0, <2>1, <2>2, <2>3 DEF Journal
<1>6. CASE UNCHANGED vars
  BY <1>0, <1>6 DEF vars, Journal, MaxTpm, Fastest, TpmOf
<1> QED
  BY <1>1, <1>2, <1>3, <1>4, <1>5, <1>6 DEF Next

\* Every step keeps the slot counts exact.
LEMMA CountStep == IInv /\ [Next]_vars => InFlightIsExact'
<1> SUFFICES ASSUME IInv, [Next]_vars PROVE InFlightIsExact'
  OBVIOUS
<1>0. TypeOK /\ InFlightIsExact
  BY DEF IInv
<1>a. ASSUME NEW k
      PROVE  Held(k) \in SUBSET Requests /\ IsFiniteSet(Held(k)) /\ Cardinality(Held(k)) \in Nat
  BY Counted DEF Held
<1>1. ASSUME NEW r \in Requests, Admit(r)
      PROVE  InFlightIsExact'
  <2>1. /\ KeyOf[r] \in Keys /\ SeenIsSound(KeyOf[r])
        /\ perKey' = [gcLocked EXCEPT ![KeyOf[r]] = Paid(KeyOf[r])]
        /\ perKey'[KeyOf[r]] = Paid(KeyOf[r])
    BY <1>1, AdmitFacts
  <2>2. req' = [req EXCEPT ![r] = "held"] /\ req[r] = "new"
    BY <1>1 DEF Admit
  <2> SUFFICES ASSUME NEW k \in Keys
               PROVE  perKey'[k].inFlight = Cardinality(Held(k)')
    BY DEF InFlightIsExact
  <2>3. CASE k = KeyOf[r]
    <3>1. Held(k)' = Held(k) \cup {r} /\ r \notin Held(k)
      BY <1>0, <2>2, <2>3 DEF Held, TypeOK
    <3>2. Cardinality(Held(k)') = Cardinality(Held(k)) + 1
      BY <1>a, <3>1, FS_AddElement
    <3>3. Paid(k).inFlight = perKey[k].inFlight + 1
      BY <2>1, <2>3, PaidFacts DEF SeenIsSound
    <3> QED
      BY <1>0, <2>1, <2>3, <3>2, <3>3 DEF InFlightIsExact
  <2>4. CASE k # KeyOf[r]
    <3>1. Held(k)' = Held(k)
      BY <1>0, <2>2, <2>4 DEF Held, TypeOK
    <3>2. perKey'[k] = gcLocked[k]
      BY <1>0, <2>1, <2>4, GcFacts
    <3> QED
      BY <1>0, <3>1, <3>2, GcFacts DEF InFlightIsExact
  <2> QED
    BY <2>3, <2>4
<1>2. ASSUME NEW r \in Requests, Refuse(r)
      PROVE  InFlightIsExact'
  <2>1. /\ KeyOf[r] \in Keys /\ SeenIsSound(KeyOf[r])
        /\ perKey' = [gcLocked EXCEPT ![KeyOf[r]] = Seen(KeyOf[r])]
        /\ perKey'[KeyOf[r]] = Seen(KeyOf[r])
    BY <1>2, RefuseFacts
  <2>2. req' = req
    BY <1>2 DEF Refuse
  <2> SUFFICES ASSUME NEW k \in Keys
               PROVE  perKey'[k].inFlight = Cardinality(Held(k)')
    BY DEF InFlightIsExact
  <2>3. Held(k)' = Held(k)
    BY <2>2 DEF Held
  <2>4. perKey'[k].inFlight = perKey[k].inFlight
    <3>1. CASE k = KeyOf[r]
      BY <2>1, <3>1 DEF SeenIsSound
    <3>2. CASE k # KeyOf[r]
      <4>1. perKey'[k] = gcLocked[k]
        BY <1>0, <2>1, <3>2, GcFacts
      <4> QED
        BY <1>0, <4>1, GcFacts
    <3> QED
      BY <3>1, <3>2
  <2> QED
    BY <1>0, <2>3, <2>4 DEF InFlightIsExact
<1>3. ASSUME NEW r \in Requests, ChargeTokens(r)
      PROVE  InFlightIsExact'
  <2>1. req' = [req EXCEPT ![r] = "charged"] /\ req[r] = "held"
    BY <1>3 DEF ChargeTokens
  <2> SUFFICES ASSUME NEW k \in Keys
               PROVE  perKey'[k].inFlight = Cardinality(Held(k)')
    BY DEF InFlightIsExact
  <2>2. Held(k)' = Held(k)
    BY <1>0, <2>1 DEF Held, TypeOK
  <2>3. perKey'[k].inFlight = perKey[k].inFlight
    <3>1. CASE perKey' = perKey
      BY <3>1
    <3>2. ASSUME NEW n \in Tokens,
                 perKey' = [perKey EXCEPT ![KeyOf[r]] = Charged(KeyOf[r], r, n)]
          PROVE  perKey'[k].inFlight = perKey[k].inFlight
      <4>1. /\ KeyOf[r] \in Keys /\ Present(KeyOf[r]) /\ Custody(KeyOf[r])
            /\ tpmOf[r] <= MaxTpm
        BY <1>3, ChargeFacts DEF IInv, KeyInv, Journal
      <4>2. Charged(KeyOf[r], r, n).inFlight = perKey[KeyOf[r]].inFlight
        BY <1>0, <4>1, ChargedFacts
      <4> QED
        BY <1>0, <3>2, <4>1, <4>2 DEF TypeOK
    <3> QED
      BY <1>3, <3>1, <3>2, ChargeFacts
  <2> QED
    BY <1>0, <2>2, <2>3 DEF InFlightIsExact
<1>4. ASSUME NEW r \in Requests, Release(r)
      PROVE  InFlightIsExact'
  <2> DEFINE n == perKey[KeyOf[r]].inFlight - 1
  <2>1. /\ KeyOf[r] \in Keys /\ Present(KeyOf[r]) /\ n \in Nat
        /\ perKey' = [perKey EXCEPT ![KeyOf[r]] = [perKey[KeyOf[r]] EXCEPT !.inFlight = n]]
        /\ perKey'[KeyOf[r]] = [perKey[KeyOf[r]] EXCEPT !.inFlight = n]
    BY <1>4, ReleaseFacts
  <2>2. req' = [req EXCEPT ![r] = "done"] /\ req[r] \in {"held", "charged"}
    BY <1>4 DEF Release
  <2> SUFFICES ASSUME NEW k \in Keys
               PROVE  perKey'[k].inFlight = Cardinality(Held(k)')
    BY DEF InFlightIsExact
  <2>3. CASE k = KeyOf[r]
    <3>1. Held(k)' = Held(k) \ {r} /\ r \in Held(k)
      BY <1>0, <2>2, <2>3 DEF Held, TypeOK
    <3>2. Cardinality(Held(k)') = Cardinality(Held(k)) - 1
      BY <1>a, <3>1, FS_RemoveElement
    <3>3. perKey'[k].inFlight = n
      <4>1. perKey[KeyOf[r]] \in KeyState
        BY <1>0, <2>1, PresentFacts
      <4>2. n \in Nat
        BY <2>1
      <4> HIDE DEF n
      <4>3. [perKey[KeyOf[r]] EXCEPT !.inFlight = n].inFlight = n
        BY <4>1, <4>2, ReleasedFacts
      <4>4. perKey'[k] = [perKey[KeyOf[r]] EXCEPT !.inFlight = n]
        BY <2>1, <2>3, Zenon
      <4> QED
        BY <4>3, <4>4, Zenon
    <3> QED
      BY <1>0, <2>3, <3>2, <3>3 DEF InFlightIsExact
  <2>4. CASE k # KeyOf[r]
    <3>1. Held(k)' = Held(k)
      BY <1>0, <2>2, <2>4 DEF Held, TypeOK
    <3>2. perKey'[k] = perKey[k]
      BY <1>0, <2>1, <2>4 DEF TypeOK
    <3> QED
      BY <1>0, <3>1, <3>2 DEF InFlightIsExact
  <2> QED
    BY <2>3, <2>4
<1>5. ASSUME NEW k \in Keys, keyLimits(k)
      PROVE  InFlightIsExact'
  BY <1>0, <1>5 DEF keyLimits, InFlightIsExact, Held
<1>6. CASE Tick \/ UNCHANGED vars
  BY <1>0, <1>6 DEF Tick, vars, InFlightIsExact, Held
<1> QED
  BY <1>1, <1>2, <1>3, <1>4, <1>5, <1>6 DEF Next

-----------------------------------------------------------------------------
\* What is to be shown of a key that is in the map after a step, and of one
\* that is not.
LEMMA PresentKey ==
    ASSUME NEW k \in Keys, NEW st \in KeyState, perKey'[k] = st, NEW t, now' = t,
           asked'[k] = st.lastSeen, st.lastSeen <= t,
           st.rpm.lastFill = st.lastSeen, st.tpm.lastFill <= t,
           st.rpm.level \in 0..MaxRpm * Minute, st.tpm.level <= MaxTpm * Minute,
           \A s \in 0..t : Cardinality(Since(k, s)') * Minute + Pot(st.rpm, t, MaxRpm)
                             <= MaxRpm * (Minute + t - s),
           credit'[k] <= MaxTpm * Minute, Pot(st.tpm, t, MaxTpm) <= credit'[k],
           wait'[k].reason = "rpm" =>
             Enough(st.rpm, limits'[k].rpm, wait'[k].until, Minute),
           wait'[k].reason = "tpm" =>
             Enough(st.tpm, limits'[k].tpm, wait'[k].until, 0)
    PROVE  KeyInv(k)'
<1>1. MaxRpm' = MaxRpm /\ MaxTpm' = MaxTpm
  BY DEF MaxRpm, MaxTpm, Fastest, RpmOf, TpmOf
<1>2. Present(k)'
  BY StateFacts DEF Present
<1>3. Custody(k)'
  BY <1>1, <1>2 DEF Custody
<1>4. Potential(k)' = Pot(st.rpm, t, MaxRpm)
  BY <1>1, <1>2 DEF Potential, Pot, Smaller
<1>5. Rate(k)'
  BY <1>1, <1>4 DEF Rate
<1>6. Owing(k)'
  BY <1>1, <1>2 DEF Owing, Pot, Smaller
<1>7. Promise(k)'
  BY <1>2 DEF Promise, Enough
<1> QED
  BY <1>3, <1>5, <1>6, <1>7 DEF KeyInv

LEMMA AbsentKey ==
    ASSUME NEW k \in Keys, perKey'[k] = NoState, NEW t, now' = t, asked'[k] <= t,
           \/ asked'[k] = -1 /\ credit'[k] = MaxTpm * Minute
           \/ t - asked'[k] > IdleTTL,
           \A s \in 0..t : Cardinality(Since(k, s)') * Minute + MaxRpm * Minute
                             <= MaxRpm * (Minute + t - s),
           credit'[k] <= MaxTpm * Minute
    PROVE  KeyInv(k)'
<1>1. MaxRpm' = MaxRpm /\ MaxTpm' = MaxTpm
  BY DEF MaxRpm, MaxTpm, Fastest, RpmOf, TpmOf
<1>2. ~Present(k)'
  BY DEF Present
<1>3. Custody(k)'
  BY <1>1, <1>2 DEF Custody
<1>4. Potential(k)' = MaxRpm * Minute
  BY <1>1, <1>2 DEF Potential
<1>5. Rate(k)'
  BY <1>1, <1>4 DEF Rate
<1>6. Owing(k)'
  BY <1>1, <1>2 DEF Owing
<1>7. Promise(k)'
  BY <1>2 DEF Promise
<1> QED
  BY <1>3, <1>5, <1>6, <1>7 DEF KeyInv

\* A key a step does not touch, or only forgets because it is idle.
LEMMA OtherKey ==
    ASSUME IInv, NEW k \in Keys, now' = now,
           asked'[k] = asked[k], credit'[k] = credit[k],
           wait'[k] = wait[k], limits'[k] = limits[k],
           perKey'[k] = perKey[k] \/ (Idle(k) /\ perKey'[k] = NoState),
           \A r \in Requests : KeyOf[r] = k => at'[r] = at[r]
    PROVE  KeyInv(k)'
<1>0. TypeOK /\ KeyInv(k)
  BY DEF IInv
<1>1. \A s : Since(k, s)' = Since(k, s)
  BY DEF Since
<1>2. CASE perKey'[k] = perKey[k] /\ Present(k)
  <2>1. perKey[k] \in KeyState
    BY <1>0, <1>2, PresentFacts
  <2>2. /\ asked'[k] = perKey[k].lastSeen /\ perKey[k].lastSeen <= now
        /\ perKey[k].rpm.lastFill = perKey[k].lastSeen /\ perKey[k].tpm.lastFill <= now
        /\ perKey[k].rpm.level \in 0..MaxRpm * Minute
        /\ perKey[k].tpm.level <= MaxTpm * Minute
    BY <1>0, <1>2 DEF KeyInv, Custody
  <2>3. \A s \in 0..now : Cardinality(Since(k, s)') * Minute + Pot(perKey[k].rpm, now, MaxRpm)
                             <= MaxRpm * (Minute + now - s)
    BY <1>0, <1>1, <1>2 DEF KeyInv, Rate, Potential
  <2>4. credit'[k] <= MaxTpm * Minute /\ Pot(perKey[k].tpm, now, MaxTpm) <= credit'[k]
    BY <1>0, <1>2 DEF KeyInv, Owing
  <2>5. /\ wait'[k].reason = "rpm" =>
             Enough(perKey[k].rpm, limits'[k].rpm, wait'[k].until, Minute)
        /\ wait'[k].reason = "tpm" =>
             Enough(perKey[k].tpm, limits'[k].tpm, wait'[k].until, 0)
    BY <1>0, <1>2 DEF KeyInv, Promise
  <2> QED
    BY <1>2, <2>1, <2>2, <2>3, <2>4, <2>5, PresentKey
<1>3. CASE perKey'[k] = NoState /\ (Idle(k) \/ ~Present(k))
  <2>1. /\ asked'[k] <= now /\ credit'[k] <= MaxTpm * Minute
        /\ \/ asked'[k] = -1 /\ credit'[k] = MaxTpm * Minute
           \/ now - asked'[k] > IdleTTL
        /\ Potential(k) = MaxRpm * Minute
    BY <1>0, <1>3, IdleIsFull DEF KeyInv, Custody, Owing, Potential
  <2>2. \A s \in 0..now : Cardinality(Since(k, s)') * Minute + MaxRpm * Minute
                             <= MaxRpm * (Minute + now - s)
    BY <1>0, <1>1, <2>1 DEF KeyInv, Rate
  <2> QED
    BY <1>3, <2>1, <2>2, AbsentKey
<1> QED
  BY <1>2, <1>3 DEF Present

-----------------------------------------------------------------------------
\* What a key could be admitted is counted in whole units, and never negative.
LEMMA PotentialFacts ==
    ASSUME TypeOK, NEW k \in Keys, Custody(k)
    PROVE  Potential(k) \in Nat
<1>1. MaxRpm \in Nat /\ Minute \in Nat /\ MaxRpm * Minute \in Nat /\ now \in Nat
  BY FastestFacts, LimiterAssumption, Products DEF LimiterAssumption, TypeOK
<1>2. CASE Present(k)
  <2>1. /\ perKey[k].rpm \in Bucket /\ perKey[k].rpm.lastFill <= now
        /\ perKey[k].rpm.level >= 0
    BY <1>2, PresentFacts DEF Custody
  <2>2. Pot(perKey[k].rpm, now, MaxRpm) \in Int /\ Pot(perKey[k].rpm, now, MaxRpm) >= 0
    BY <1>1, <2>1, PotTick
  <2> QED
    BY <1>2, <2>2 DEF Potential
<1>3. CASE ~Present(k)
  BY <1>1, <1>3 DEF Potential
<1> QED
  BY <1>2, <1>3

\* Every operation that asks for a key keeps what is known of the others.
LEMMA OthersOfAcquire ==
    ASSUME IInv, NEW k \in Keys, NEW j \in Keys, j # k, Acquire(k),
           NEW v, perKey' = [gcLocked EXCEPT ![k] = v],
           wait'[j] = wait[j],
           \A r \in Requests : KeyOf[r] = j => at'[r] = at[r]
    PROVE  KeyInv(j)'
<1>0. TypeOK
  BY DEF IInv
<1>1. perKey'[j] = gcLocked[j]
  BY <1>0, GcFacts
<1>2. perKey'[j] = perKey[j] \/ (Idle(j) /\ perKey'[j] = NoState)
  BY <1>0, <1>1, GcFacts
<1>3. /\ now' = now /\ limits' = limits /\ asked'[j] = asked[j] /\ credit'[j] = credit[j]
  BY <1>0 DEF Acquire, TypeOK
<1> QED
  BY <1>2, <1>3, OtherKey

\* The key that is asked for has the balance of the moment.
LEMMA BalanceFacts ==
    ASSUME IInv, NEW k \in Keys, Acquire(k)
    PROVE  /\ credit'[k] = Balance(k) /\ Balance(k) \in Int
           /\ Balance(k) <= MaxTpm * Minute
           /\ asked'[k] = now /\ now' = now /\ limits' = limits
<1>0. TypeOK /\ Owing(k)
  BY DEF IInv, KeyInv
<1>1. MaxTpm \in Nat /\ Minute \in Nat /\ MaxTpm * Minute \in Nat
  BY FastestFacts, LimiterAssumption, Products DEF LimiterAssumption
<1>2. credit'[k] = Balance(k)
  BY <1>0 DEF Acquire, Balance, TypeOK, MaxTpm
<1>3. credit[k] \in Int /\ credit[k] <= MaxTpm * Minute
  BY <1>0 DEF TypeOK, Owing
<1>4. Balance(k) \in Int /\ Balance(k) <= MaxTpm * Minute
  BY <1>1, <1>3 DEF Balance
<1> QED
  BY <1>0, <1>2, <1>4 DEF Acquire, TypeOK

LEMMA AdmitKeys ==
    ASSUME IInv, NEW r \in Requests, Admit(r), NEW j \in Keys
    PROVE  KeyInv(j)'
<1> DEFINE k == KeyOf[r]
<1>0. TypeOK /\ Journal
  BY DEF IInv
<1>1. /\ k \in Keys /\ SeenIsSound(k)
      /\ perKey' = [gcLocked EXCEPT ![k] = Paid(k)] /\ perKey'[k] = Paid(k)
      /\ Seen(k).rpm.level >= Minute
  BY AdmitFacts
<1>2. /\ Acquire(k) /\ req[r] = "new" /\ at' = [at EXCEPT ![r] = now]
      /\ wait' = [wait EXCEPT ![k] = NoWait]
  BY DEF Admit
<1>3. CASE j # k
  <2>1. wait'[j] = wait[j] /\ \A q \in Requests : KeyOf[q] = j => at'[q] = at[q]
    BY <1>0, <1>1, <1>2, <1>3 DEF TypeOK
  <2> QED
    BY <1>1, <1>2, <1>3, <2>1, OthersOfAcquire
<1>4. CASE j = k
  <2> DEFINE P == Paid(k)
             S == Seen(k)
  <2> HIDE DEF k
  <2>1. /\ now \in Nat /\ Minute \in Nat /\ MaxRpm \in Nat /\ MaxTpm \in Nat
        /\ MaxRpm * Minute \in Nat
    BY <1>0, FastestFacts, LimiterAssumption, Products DEF LimiterAssumption, TypeOK
  <2>2. Custody(k) /\ Rate(k) /\ Potential(k) \in Nat
    BY <1>0, <1>1, PotentialFacts DEF IInv, KeyInv
  <2>3. /\ credit'[k] = Balance(k) /\ Balance(k) \in Int /\ Balance(k) <= MaxTpm * Minute
        /\ asked'[k] = now /\ now' = now /\ limits' = limits
    BY <1>1, <1>2, BalanceFacts
  <2>4. S \in KeyState /\ S.rpm.level \in Int /\ S.tpm.level \in Int
    BY <1>1, StateFacts DEF SeenIsSound
  <2>5. /\ P \in KeyState /\ P.rpm.level = S.rpm.level - Minute /\ P.tpm = S.tpm
        /\ P.lastSeen = now /\ P.rpm.lastFill = now /\ P.tpm.lastFill = now
    BY <1>1, <2>4, PaidFacts DEF SeenIsSound
  <2>6. P.rpm \in Bucket /\ P.tpm \in Bucket
    BY <2>5, StateFacts
  <2>7. /\ S.rpm.level <= Potential(k) /\ S.rpm.level <= MaxRpm * Minute
        /\ S.tpm.level <= Balance(k) /\ S.tpm.level <= MaxTpm * Minute
    BY <1>1 DEF SeenIsSound
  <2>8. P.rpm.level \in 0..MaxRpm * Minute
    BY <1>1, <2>1, <2>4, <2>5, <2>7
  <2>9. Pot(P.rpm, now, MaxRpm) = P.rpm.level /\ Pot(P.tpm, now, MaxTpm) = S.tpm.level
    <3>1. P.rpm.level <= MaxRpm * Minute /\ P.tpm.level <= MaxTpm * Minute
      BY <2>1, <2>5, <2>7, <2>8
    <3> QED
      BY <2>1, <2>5, <2>6, <3>1, PotNow
  <2>10. ASSUME NEW s \in 0..now
         PROVE  Cardinality(Since(k, s)') * Minute + Pot(P.rpm, now, MaxRpm)
                  <= MaxRpm * (Minute + now - s)
    <3> DEFINE C == Cardinality(Since(k, s))
    <3>1. at[r] = -1
      BY <1>0, <1>2 DEF Journal
    <3>2. r \notin Since(k, s) /\ Since(k, s)' = Since(k, s) \cup {r}
      BY <1>0, <1>2, <2>1, <3>1 DEF Since, TypeOK, k
    <3>3. IsFiniteSet(Since(k, s)) /\ C \in Nat
      BY Counted DEF Since
    <3>4. Cardinality(Since(k, s)') = C + 1
      BY <3>2, <3>3, FS_AddElement
    <3>5. C * Minute + Potential(k) <= MaxRpm * (Minute + now - s)
      BY <2>2 DEF Rate
    <3> HIDE DEF C
    <3>6. (C + 1) * Minute = C * Minute + Minute /\ C * Minute \in Nat
      BY <2>1, <3>3, Products
    <3>7. MaxRpm * (Minute + now - s) \in Int
      BY <2>1
    <3>8. C * Minute + Minute + P.rpm.level <= MaxRpm * (Minute + now - s)
      BY <2>1, <2>2, <2>4, <2>5, <2>7, <3>5, <3>6, <3>7
    <3> QED
      BY <2>9, <3>4, <3>6, <3>8
  <2>11. wait'[k].reason = "none"
    BY <1>0, <1>1, <1>2 DEF TypeOK, NoWait
  <2>12. /\ perKey'[k] = P /\ now' = now /\ asked'[k] = P.lastSeen /\ P.lastSeen <= now
         /\ P.rpm.lastFill = P.lastSeen /\ P.tpm.lastFill <= now
         /\ P.tpm.level <= MaxTpm * Minute
         /\ credit'[k] <= MaxTpm * Minute /\ Pot(P.tpm, now, MaxTpm) <= credit'[k]
    BY <1>1, <2>1, <2>3, <2>5, <2>7, <2>9
  <2>13. KeyInv(k)'
    <3> HIDE DEF P, S
    <3> QED
      BY <1>1, <2>5, <2>8, <2>10, <2>11, <2>12, PresentKey
  <2> QED
    BY <1>4, <2>13
<1> QED
  BY <1>3, <1>4

LEMMA RefuseKeys ==
    ASSUME IInv, NEW r \in Requests, Refuse(r), NEW j \in Keys
    PROVE  KeyInv(j)'
<1> DEFINE k == KeyOf[r]
           S == Seen(k)
           u == now + refillWait(S.rpm.level, Minute, limits[k].rpm)
           v == now + refillWait(S.tpm.level, 0, limits[k].tpm)
<1>0. TypeOK
  BY DEF IInv
<1>1. /\ k \in Keys /\ SeenIsSound(k)
      /\ perKey' = [gcLocked EXCEPT ![k] = S] /\ perKey'[k] = S
  BY RefuseFacts
<1>2. Acquire(k) /\ at' = at
  BY DEF Refuse
<1>3. \/ wait' = wait
      \/ wait' = [wait EXCEPT ![k] = [reason |-> "rpm", until |-> u]]
      \/ wait' = [wait EXCEPT ![k] = [reason |-> "tpm", until |-> v]]
  BY RefuseFacts, Zenon
<1>4. CASE j # k
  <2> HIDE DEF k, S, u, v
  <2>1. wait'[j] = wait[j] /\ \A q \in Requests : KeyOf[q] = j => at'[q] = at[q]
    BY <1>0, <1>1, <1>2, <1>3, <1>4 DEF TypeOK
  <2> QED
    BY <1>1, <1>2, <1>4, <2>1, OthersOfAcquire
<1>5. CASE j = k
  <2>1. /\ now \in Nat /\ Minute \in Int /\ 0 \in Int /\ MaxRpm \in Nat /\ MaxTpm \in Nat
        /\ MaxRpm * Minute \in Nat /\ Minute \in Nat
    BY <1>0, FastestFacts, LimiterAssumption, Products DEF LimiterAssumption, TypeOK
  <2>2. Custody(k) /\ Rate(k) /\ Potential(k) \in Nat
    BY <1>0, <1>1, PotentialFacts DEF IInv, KeyInv
  <2>3. /\ credit'[k] = Balance(k) /\ Balance(k) \in Int /\ Balance(k) <= MaxTpm * Minute
        /\ asked'[k] = now /\ now' = now /\ limits' = limits
    BY <1>1, <1>2, BalanceFacts
  <2>4. /\ S \in KeyState /\ S.rpm.level \in Int /\ S.tpm.level \in Int
        /\ S.rpm \in Bucket /\ S.tpm \in Bucket
        /\ S.lastSeen = now /\ S.rpm.lastFill = now /\ S.tpm.lastFill = now
    BY <1>1, StateFacts DEF SeenIsSound
  <2>5. /\ S.rpm.level >= 0
        /\ S.rpm.level <= Potential(k) /\ S.rpm.level <= MaxRpm * Minute
        /\ S.tpm.level <= Balance(k) /\ S.tpm.level <= MaxTpm * Minute
    BY <1>1 DEF SeenIsSound
  <2>6. S.rpm.level \in 0..MaxRpm * Minute
    BY <2>1, <2>4, <2>5
  <2>7. Pot(S.rpm, now, MaxRpm) = S.rpm.level /\ Pot(S.tpm, now, MaxTpm) = S.tpm.level
    BY <2>1, <2>4, <2>5, PotNow
  <2>8. ASSUME NEW s \in 0..now
        PROVE  Cardinality(Since(k, s)') * Minute + Pot(S.rpm, now, MaxRpm)
                  <= MaxRpm * (Minute + now - s)
    <3> DEFINE C == Cardinality(Since(k, s))
    <3>1. Since(k, s)' = Since(k, s)
      BY <1>2 DEF Since
    <3>2. C \in Nat
      BY Counted DEF Since
    <3>3. C * Minute + Potential(k) <= MaxRpm * (Minute + now - s)
      BY <2>2 DEF Rate
    <3>4. C * Minute \in Nat
      BY <2>1, <3>2, Products
    <3>5. MaxRpm * (Minute + now - s) \in Int
      BY <2>1
    <3> HIDE DEF C, S, k
    <3>6. C * Minute + S.rpm.level <= MaxRpm * (Minute + now - s)
      BY <2>2, <2>4, <2>5, <3>3, <3>4, <3>5
    <3> QED
      BY <2>7, <3>1, <3>6 DEF C
  <2>9. limits[k].rpm \in Nat \ {0} /\ limits[k].tpm \in Nat \ {0}
    BY <1>0, <1>1, FastestFacts DEF TypeOK
  <2>10. Enough(S.rpm, limits[k].rpm, u, Minute)
    BY <2>1, <2>4, <2>9, WaitFacts, Zenon
  <2>11. Enough(S.tpm, limits[k].tpm, v, 0)
    BY <2>1, <2>4, <2>9, WaitFacts, Zenon
  <2>12. /\ wait[k].reason = "rpm" => Enough(S.rpm, limits[k].rpm, wait[k].until, Minute)
         /\ wait[k].reason = "tpm" => Enough(S.tpm, limits[k].tpm, wait[k].until, 0)
    BY <1>1 DEF SeenIsSound
  <2> HIDE DEF k, S, u, v
  <2>13. \/ wait'[k] = wait[k]
         \/ wait'[k] = [reason |-> "rpm", until |-> u]
         \/ wait'[k] = [reason |-> "tpm", until |-> v]
    BY <1>0, <1>1, <1>3 DEF TypeOK
  <2>14. /\ wait'[k].reason = "rpm" => Enough(S.rpm, limits'[k].rpm, wait'[k].until, Minute)
         /\ wait'[k].reason = "tpm" => Enough(S.tpm, limits'[k].tpm, wait'[k].until, 0)
    <3>1. CASE wait'[k] = wait[k]
      BY <2>3, <2>12, <3>1
    <3>2. CASE wait'[k] = [reason |-> "rpm", until |-> u]
      BY <2>3, <2>10, <3>2
    <3>3. CASE wait'[k] = [reason |-> "tpm", until |-> v]
      BY <2>3, <2>11, <3>3
    <3> QED
      BY <2>13, <3>1, <3>2, <3>3
  <2>15. /\ asked'[k] = S.lastSeen /\ S.lastSeen <= now
         /\ S.rpm.lastFill = S.lastSeen /\ S.tpm.lastFill <= now
         /\ credit'[k] <= MaxTpm * Minute /\ Pot(S.tpm, now, MaxTpm) <= credit'[k]
    BY <2>1, <2>3, <2>4, <2>5, <2>7
  <2>16. KeyInv(k)'
    BY <1>1, <2>3, <2>4, <2>5, <2>6, <2>8, <2>14, <2>15, PresentKey
  <2> QED
    BY <1>5, <2>16
<1> QED
  BY <1>4, <1>5

LEMMA ChargeKeys ==
    ASSUME IInv, NEW r \in Requests, ChargeTokens(r), NEW j \in Keys
    PROVE  KeyInv(j)'
<1> DEFINE k == KeyOf[r]
<1>0. TypeOK /\ Journal
  BY DEF IInv
<1>1. k \in Keys /\ Present(k)
  BY ChargeFacts
<1>2. UNCHANGED <<now, limits, at, asked>>
  BY DEF ChargeTokens
<1>3. CASE perKey' = perKey /\ wait' = wait /\ credit' = credit
  BY <1>2, <1>3, OtherKey
<1>4. ASSUME NEW n \in Tokens,
             perKey' = [perKey EXCEPT ![k] = Charged(k, r, n)],
             perKey'[k] = Charged(k, r, n),
             credit' = [credit EXCEPT ![k] = credit[k] - n * Minute],
             wait' = [wait EXCEPT ![k] = NoWait]
      PROVE  KeyInv(j)'
  <2>1. CASE j # k
    <3>1. perKey'[j] = perKey[j] /\ credit'[j] = credit[j] /\ wait'[j] = wait[j]
      BY <1>0, <1>4, <2>1 DEF TypeOK
    <3> QED
      BY <1>2, <3>1, OtherKey
  <2>2. CASE j = k
    <3> DEFINE P == Charged(k, r, n)
    <3>1. KeyInv(k) /\ tpmOf[r] <= MaxTpm
      BY <1>0, <1>1 DEF IInv, Journal
    <3>2. /\ n * Minute \in Nat /\ P \in KeyState /\ P.rpm = perKey[k].rpm
          /\ P.lastSeen = perKey[k].lastSeen /\ P.tpm.lastFill = now
          /\ P.tpm.level <= Pot(perKey[k].tpm, now, MaxTpm) - n * Minute
          /\ P.tpm.level <= MaxTpm * Minute /\ Pot(perKey[k].tpm, now, MaxTpm) \in Int
      BY <1>0, <1>1, <3>1, ChargedFacts DEF KeyInv
    <3>3. now \in Nat /\ MaxTpm \in Nat /\ MaxTpm * Minute \in Nat /\ credit[k] \in Int
      BY <1>0, <1>1, FastestFacts, LimiterAssumption, Products DEF LimiterAssumption, TypeOK
    <3>4. P.tpm \in Bucket /\ P.tpm.level \in Int
      BY <3>2, StateFacts
    <3>5. credit'[k] = credit[k] - n * Minute /\ wait'[k].reason = "none"
      BY <1>0, <1>1, <1>4 DEF TypeOK, NoWait
    <3> HIDE DEF P, k
    <3>6. Pot(P.tpm, now, MaxTpm) = P.tpm.level
      BY <3>2, <3>3, <3>4, PotNow
    <3>7. Pot(perKey[k].tpm, now, MaxTpm) <= credit[k] /\ credit[k] <= MaxTpm * Minute
      BY <1>1, <3>1 DEF KeyInv, Owing
    <3>8. credit'[k] <= MaxTpm * Minute /\ Pot(P.tpm, now, MaxTpm) <= credit'[k]
      BY <3>2, <3>3, <3>4, <3>5, <3>6, <3>7
    <3>9. /\ asked'[k] = P.lastSeen /\ P.lastSeen <= now
          /\ P.rpm.lastFill = P.lastSeen /\ P.tpm.lastFill <= now
          /\ P.rpm.level \in 0..MaxRpm * Minute
      BY <1>1, <1>2, <3>1, <3>2, <3>3 DEF KeyInv, Custody
    <3>10. \A s : Since(k, s)' = Since(k, s)
      BY <1>2 DEF Since
    <3>11. \A s \in 0..now : Cardinality(Since(k, s)') * Minute + Pot(P.rpm, now, MaxRpm)
                               <= MaxRpm * (Minute + now - s)
      BY <1>1, <3>1, <3>2, <3>10 DEF KeyInv, Rate, Potential
    <3>12. perKey'[k] = P /\ now' = now
      BY <1>2, <1>4 DEF P
    <3>13. KeyInv(k)'
      BY <1>1, <3>2, <3>5, <3>8, <3>9, <3>11, <3>12, PresentKey
    <3> QED
      BY <2>2, <3>13
  <2> QED
    BY <2>1, <2>2
<1> QED
  BY <1>3, <1>4, ChargeFacts

LEMMA ReleaseKeys ==
    ASSUME IInv, NEW r \in Requests, Release(r), NEW j \in Keys
    PROVE  KeyInv(j)'
<1> DEFINE k == KeyOf[r]
           n == perKey[k].inFlight - 1
           P == [perKey[k] EXCEPT !.inFlight = n]
<1>0. TypeOK
  BY DEF IInv
<1>1. k \in Keys /\ Present(k) /\ n \in Nat /\ perKey' = [perKey EXCEPT ![k] = P] /\ perKey'[k] = P
  BY ReleaseFacts
<1>2. UNCHANGED <<now, limits, wait, at, asked, credit>>
  BY DEF Release
<1>3. CASE j # k
  <2>1. perKey'[j] = perKey[j]
    BY <1>0, <1>1, <1>3 DEF TypeOK
  <2> QED
    BY <1>2, <2>1, OtherKey
<1>4. CASE j = k
  <2>1. perKey[k] \in KeyState /\ KeyInv(k)
    BY <1>0, <1>1, PresentFacts DEF IInv
  <2>2. P \in KeyState /\ P.rpm = perKey[k].rpm /\ P.tpm = perKey[k].tpm /\ P.lastSeen = perKey[k].lastSeen
    BY <1>1, <2>1, ReleasedFacts
  <2> HIDE DEF k, n, P
  <2>3. /\ asked'[k] = P.lastSeen /\ P.lastSeen <= now
        /\ P.rpm.lastFill = P.lastSeen /\ P.tpm.lastFill <= now
        /\ P.rpm.level \in 0..MaxRpm * Minute /\ P.tpm.level <= MaxTpm * Minute
    BY <1>1, <1>2, <2>1, <2>2 DEF KeyInv, Custody
  <2>4. \A s : Since(k, s)' = Since(k, s)
    BY <1>2 DEF Since
  <2>5. \A s \in 0..now : Cardinality(Since(k, s)') * Minute + Pot(P.rpm, now, MaxRpm)
                             <= MaxRpm * (Minute + now - s)
    BY <1>1, <2>1, <2>2, <2>4 DEF KeyInv, Rate, Potential
  <2>6. credit'[k] <= MaxTpm * Minute /\ Pot(P.tpm, now, MaxTpm) <= credit'[k]
    BY <1>1, <1>2, <2>1, <2>2 DEF KeyInv, Owing
  <2>7. /\ wait'[k].reason = "rpm" => Enough(P.rpm, limits'[k].rpm, wait'[k].until, Minute)
        /\ wait'[k].reason = "tpm" => Enough(P.tpm, limits'[k].tpm, wait'[k].until, 0)
    BY <1>1, <1>2, <2>1, <2>2 DEF KeyInv, Promise
  <2>8. KeyInv(k)'
    BY <1>1, <1>2, <2>2, <2>3, <2>5, <2>6, <2>7, PresentKey
  <2> QED
    BY <1>4, <2>8
<1> QED
  BY <1>3, <1>4

LEMMA LimitsKeys ==
    ASSUME IInv, NEW k \in Keys, keyLimits(k), NEW j \in Keys
    PROVE  KeyInv(j)'
<1>0. TypeOK /\ KeyInv(k)
  BY DEF IInv
<1>1. /\ UNCHANGED <<now, perKey, at, asked, credit>>
      /\ wait' = [wait EXCEPT ![k] = NoWait]
      /\ \E l \in Limits : limits' = [limits EXCEPT ![k] = l]
  BY DEF keyLimits
<1>2. CASE j # k
  <2>1. wait'[j] = wait[j] /\ limits'[j] = limits[j]
    BY <1>0, <1>1, <1>2 DEF TypeOK
  <2> QED
    BY <1>1, <2>1, OtherKey
<1>3. CASE j = k
  <2>1. wait'[k].reason = "none"
    BY <1>0, <1>1 DEF TypeOK, NoWait
  <2>2. MaxRpm' = MaxRpm /\ MaxTpm' = MaxTpm
    BY DEF MaxRpm, MaxTpm, Fastest, RpmOf, TpmOf
  <2>3. Custody(k)' /\ Owing(k)'
    BY <1>0, <1>1, <2>2 DEF KeyInv, Custody, Owing, Present, Pot, Smaller
  <2>4. Rate(k)'
    BY <1>0, <1>1, <2>2 DEF KeyInv, Rate, Since, Potential, Present, Pot, Smaller
  <2>5. Promise(k)'
    BY <2>1 DEF Promise
  <2> QED
    BY <1>3, <2>3, <2>4, <2>5 DEF KeyInv
<1> QED
  BY <1>2, <1>3

\* In one tick the bound on the admissions of a key grows as its potential can.
LEMMA TickRate ==
    ASSUME IInv, NEW k \in Keys, at' = at,
           NEW Q \in Int, Q <= Potential(k) + MaxRpm, Q <= MaxRpm * Minute
    PROVE  \A s \in 0..(now + 1) : Cardinality(Since(k, s)') * Minute + Q
                                     <= MaxRpm * (Minute + (now + 1) - s)
<1>0. TypeOK /\ Journal /\ Custody(k) /\ Rate(k)
  BY DEF IInv, KeyInv
<1>1. now \in Nat /\ Minute \in Nat /\ MaxRpm \in Nat /\ Potential(k) \in Nat
  BY <1>0, PotentialFacts, FastestFacts, LimiterAssumption DEF LimiterAssumption, TypeOK
<1> SUFFICES ASSUME NEW s \in 0..(now + 1)
             PROVE  Cardinality(Since(k, s)') * Minute + Q
                      <= MaxRpm * (Minute + (now + 1) - s)
  OBVIOUS
<1> DEFINE C == Cardinality(Since(k, s))
<1>2. Since(k, s)' = Since(k, s) /\ C \in Nat
  BY Counted DEF Since
<1>3. C * Minute \in Nat
  BY <1>1, <1>2, Products
<1>4. CASE s <= now
  <2> DEFINE e == Minute + now - s
  <2>1. s \in 0..now /\ e \in Nat /\ Minute + (now + 1) - s = e + 1
    BY <1>1, <1>4
  <2>2. C * Minute + Potential(k) <= MaxRpm * e
    BY <1>0, <2>1 DEF Rate
  <2> HIDE DEF C, e
  <2>3. MaxRpm * (e + 1) = MaxRpm * e + MaxRpm /\ MaxRpm * e \in Nat
    BY <1>1, <2>1, Products
  <2>4. C * Minute + Q <= MaxRpm * (e + 1)
    BY <1>1, <1>3, <2>2, <2>3
  <2> QED
    BY <1>2, <2>1, <2>4 DEF C
<1>5. CASE s = now + 1
  <2>1. \A r \in Requests : ~(at[r] >= s)
    BY <1>0, <1>1, <1>5 DEF Journal, TypeOK
  <2>2. Since(k, s) = {}
    BY <2>1 DEF Since
  <2>3. C = 0
    BY <2>2, FS_EmptySet
  <2>4. Minute + (now + 1) - s = Minute /\ 0 * Minute = 0 /\ 0 + Q = Q
    BY <1>1, <1>5
  <2> HIDE DEF C
  <2>5. C * Minute + Q <= MaxRpm * (Minute + (now + 1) - s)
    BY <2>3, <2>4
  <2> QED
    BY <1>2, <2>5 DEF C
<1> QED
  BY <1>1, <1>4, <1>5

LEMMA TickKeys ==
    ASSUME IInv, Tick, NEW k \in Keys
    PROVE  KeyInv(k)'
<1>0. TypeOK /\ KeyInv(k)
  BY DEF IInv
<1>1. now' = now + 1 /\ UNCHANGED <<limits, perKey, wait, at, asked>>
  BY DEF Tick
<1>2. credit'[k] = Smaller(credit[k] + MaxTpm, MaxTpm * Minute)
  BY DEF Tick, MaxTpm
<1>3. /\ now \in Nat /\ Minute \in Nat /\ MaxRpm \in Nat /\ MaxTpm \in Nat
      /\ MaxRpm * Minute \in Nat /\ MaxTpm * Minute \in Nat
      /\ credit[k] \in Int /\ asked[k] \in Int /\ IdleTTL \in Nat
  BY <1>0, FastestFacts, LimiterAssumption, Products DEF LimiterAssumption, TypeOK
<1>4. Potential(k) \in Nat
  BY <1>0, PotentialFacts DEF KeyInv
<1>5. credit'[k] \in Int /\ credit'[k] <= MaxTpm * Minute
  BY <1>2, <1>3 DEF Smaller
<1>6. CASE Present(k)
  <2> DEFINE st == perKey[k]
             Q  == Pot(st.rpm, now + 1, MaxRpm)
             T  == Pot(st.tpm, now + 1, MaxTpm)
  <2>1. /\ st \in KeyState /\ st.rpm \in Bucket /\ st.tpm \in Bucket /\ st.lastSeen \in Nat
        /\ st.rpm.level \in Int
    BY <1>0, <1>6, PresentFacts
  <2>2. /\ asked[k] = st.lastSeen /\ st.lastSeen <= now
        /\ st.rpm.lastFill = st.lastSeen /\ st.tpm.lastFill <= now
        /\ st.rpm.level \in 0..MaxRpm * Minute /\ st.tpm.level <= MaxTpm * Minute
    BY <1>0, <1>6 DEF KeyInv, Custody
  <2>3. Q \in Int /\ Q <= Pot(st.rpm, now, MaxRpm) + MaxRpm /\ Q <= MaxRpm * Minute
    BY <1>3, <2>1, <2>2, PotTick
  <2>4. /\ T \in Int /\ T <= Pot(st.tpm, now, MaxTpm) + MaxTpm /\ T <= MaxTpm * Minute
        /\ Pot(st.tpm, now, MaxTpm) \in Int
    BY <1>3, <2>1, <2>2, PotTick
  <2>5. Potential(k) = Pot(st.rpm, now, MaxRpm)
    BY <1>6 DEF Potential
  <2>6. Pot(st.tpm, now, MaxTpm) <= credit[k]
    BY <1>0, <1>6 DEF KeyInv, Owing
  <2>7. st.tpm.lastFill \in Nat
    BY <2>1, StateFacts
  <2>8. /\ wait'[k].reason = "rpm" => Enough(st.rpm, limits'[k].rpm, wait'[k].until, Minute)
        /\ wait'[k].reason = "tpm" => Enough(st.tpm, limits'[k].tpm, wait'[k].until, 0)
    BY <1>0, <1>1, <1>6 DEF KeyInv, Promise
  <2>9. perKey'[k] = st
    BY <1>1
  <2> HIDE DEF st, Q, T
  <2>10. \A s \in 0..(now + 1) : Cardinality(Since(k, s)') * Minute + Q
                                    <= MaxRpm * (Minute + (now + 1) - s)
    BY <1>1, <2>3, <2>5, TickRate
  <2>11. T <= credit'[k]
    BY <1>2, <1>3, <2>4, <2>6 DEF Smaller
  <2>12. st.lastSeen <= now + 1 /\ st.tpm.lastFill <= now + 1
    BY <1>3, <2>1, <2>2, <2>7
  <2> QED
    BY <1>1, <1>5, <2>1, <2>2, <2>8, <2>9, <2>10, <2>11, <2>12, PresentKey DEF Q, T
<1>7. CASE ~Present(k)
  <2>1. Potential(k) = MaxRpm * Minute
    BY <1>7 DEF Potential
  <2>2. \A s \in 0..(now + 1) : Cardinality(Since(k, s)') * Minute + MaxRpm * Minute
                                    <= MaxRpm * (Minute + (now + 1) - s)
    BY <1>1, <1>3, <2>1, TickRate
  <2>3. /\ asked[k] <= now
        /\ \/ asked[k] = -1 /\ credit[k] = MaxTpm * Minute
           \/ now - asked[k] > IdleTTL
    BY <1>0, <1>7 DEF KeyInv, Custody
  <2>4. /\ asked'[k] <= now + 1
        /\ \/ asked'[k] = -1 /\ credit'[k] = MaxTpm * Minute
           \/ (now + 1) - asked'[k] > IdleTTL
    BY <1>1, <1>2, <1>3, <2>3 DEF Smaller
  <2>5. perKey'[k] = NoState
    BY <1>1, <1>7 DEF Present
  <2> QED
    BY <1>1, <1>5, <2>2, <2>4, <2>5, AbsentKey
<1> QED
  BY <1>6, <1>7

-----------------------------------------------------------------------------
LEMMA InitIInv == Init => IInv
<1> SUFFICES ASSUME Init PROVE IInv
  OBVIOUS
<1>1. /\ MaxRpm \in Nat /\ MaxTpm \in Nat /\ MaxTpm * Minute \in Nat /\ MaxRpm * Minute \in Nat
      /\ Minute \in Nat /\ MaxTime \in Nat /\ GcEvery \in Nat
  BY FastestFacts, LimiterAssumption, Products DEF LimiterAssumption
<1>2. credit = [k \in Keys |-> MaxTpm * Minute]
  BY DEF Init, MaxTpm
<1>3. TypeOK
  BY <1>1, <1>2 DEF Init, TypeOK, NoWait
<1>4. Journal
  BY <1>1 DEF Init, Journal
<1>5. InFlightIsExact
  <2>1. \A k : Held(k) = {}
    BY DEF Init, Held
  <2> QED
    BY <2>1, StateFacts, FS_EmptySet DEF Init, InFlightIsExact
<1>6. ASSUME NEW k \in Keys
      PROVE  KeyInv(k)
  <2>1. ~Present(k) /\ now = 0 /\ asked[k] = -1 /\ credit[k] = MaxTpm * Minute
    BY <1>2 DEF Init, Present
  <2>2. Custody(k) /\ Promise(k) /\ Owing(k)
    BY <1>1, <2>1 DEF Custody, Promise, Owing
  <2>3. Rate(k)
    <3> SUFFICES ASSUME NEW s \in 0..now
                 PROVE  Cardinality(Since(k, s)) * Minute + Potential(k)
                          <= MaxRpm * (Minute + now - s)
      BY DEF Rate
    <3>1. s = 0
      BY <2>1
    <3>2. Since(k, s) = {}
      BY <3>1 DEF Init, Since
    <3>3. Cardinality(Since(k, s)) = 0
      BY <3>2, FS_EmptySet
    <3>4. Potential(k) = MaxRpm * Minute
      BY <2>1 DEF Potential
    <3>5. Minute + now - s = Minute /\ 0 * Minute = 0
      BY <1>1, <2>1, <3>1
    <3> QED
      BY <1>1, <3>3, <3>4, <3>5
  <2> QED
    BY <2>2, <2>3 DEF KeyInv
<1> QED
  BY <1>3, <1>4, <1>5, <1>6 DEF IInv

LEMMA Step == IInv /\ [Next]_vars => IInv'
<1> SUFFICES ASSUME IInv, [Next]_vars PROVE IInv'
  OBVIOUS
<1>1. TypeOK' /\ Journal' /\ InFlightIsExact'
  BY TypeStep, JournalStep, CountStep
<1>2. ASSUME NEW k \in Keys
      PROVE  KeyInv(k)'
  <2>1. CASE UNCHANGED vars
    BY <2>1, OtherKey DEF vars
  <2>2. CASE Next
    BY <2>2, AdmitKeys, RefuseKeys, ChargeKeys, ReleaseKeys, LimitsKeys, TickKeys DEF Next
  <2> QED
    BY <2>1, <2>2
<1> QED
  BY <1>1, <1>2 DEF IInv

\* The inductive invariant holds of every state the limiter can reach.
THEOREM Invariance == Spec => []IInv
<1>1. Init => IInv
  BY InitIInv
<1>2. IInv /\ [Next]_vars => IInv'
  BY Step
<1> QED
  BY <1>1, <1>2, PTL DEF Spec

\* perKey, the bookkeeping of Acquire and the handlers' closures keep their types.
THEOREM TypeCorrect == Spec => []TypeOK
<1>1. IInv => TypeOK
  BY DEF IInv
<1> QED
  BY <1>1, Invariance, PTL

\* A key's slot count is the number of its handlers between Acquire and Release,
\* whatever gcLocked collected meanwhile.
THEOREM CountIsExact == Spec => []InFlightIsExact
<1>1. IInv => InFlightIsExact
  BY DEF IInv
<1> QED
  BY <1>1, Invariance, PTL

\* Acquire admits a key at most one full bucket more than what refills, over
\* every interval, through every change of its limits and every collection.
THEOREM RateIsBounded == Spec => []RequestRateIsBounded
<1>1. IInv => RequestRateIsBounded
  <2> SUFFICES ASSUME IInv, NEW k \in Keys, NEW s \in 0..now
               PROVE  Cardinality(Since(k, s)) * Minute <= MaxRpm * (Minute + now - s)
    BY DEF RequestRateIsBounded, Since, MaxRpm
  <2> DEFINE C == Cardinality(Since(k, s))
  <2>1. TypeOK /\ Custody(k) /\ Rate(k)
    BY DEF IInv, KeyInv
  <2>2. Potential(k) \in Nat /\ now \in Nat /\ Minute \in Nat /\ MaxRpm \in Nat /\ C \in Nat
    <3>1. C \in Nat
      BY Counted DEF Since
    <3> QED
      BY <2>1, <3>1, PotentialFacts, FastestFacts, LimiterAssumption DEF LimiterAssumption, TypeOK
  <2>3. C * Minute + Potential(k) <= MaxRpm * (Minute + now - s)
    BY <2>1 DEF Rate
  <2>4. C * Minute \in Nat /\ MaxRpm * (Minute + now - s) \in Int
    BY <2>2, Products
  <2> HIDE DEF C
  <2>5. C * Minute <= MaxRpm * (Minute + now - s)
    BY <2>2, <2>3, <2>4
  <2> QED
    BY <2>5 DEF C
<1> QED
  BY <1>1, Invariance, PTL

-----------------------------------------------------------------------------
\* Only Acquire's verdict "ok" admits, and it admits one request.
LEMMA AdmittedFacts ==
    ASSUME IInv, [Next]_vars, NEW k \in Keys, Admitted(k)
    PROVE  \E r \in Requests : KeyOf[r] = k /\ Admit(r)
<1>1. PICK q \in Requests : KeyOf[q] = k /\ req[q] = "new" /\ req'[q] = "held"
  BY DEF Admitted
<1>2. req \in [Requests -> {"new", "held", "charged", "done"}]
  BY DEF IInv, TypeOK
<1>3. req' # req
  BY <1>1
<1>4. ASSUME NEW r \in Requests, ChargeTokens(r) \/ Release(r)
      PROVE  FALSE
  <2>1. req' = [req EXCEPT ![r] = "charged"] \/ req' = [req EXCEPT ![r] = "done"]
    BY <1>4 DEF ChargeTokens, Release
  <2> QED
    BY <1>1, <1>2, <2>1
<1>5. ASSUME NEW r \in Requests, Refuse(r)
      PROVE  FALSE
  BY <1>3, <1>5 DEF Refuse
<1>6. ~(\E j \in Keys : keyLimits(j)) /\ ~Tick /\ ~(UNCHANGED vars)
  BY <1>3 DEF keyLimits, Tick, vars
<1>7. PICK r \in Requests : Admit(r)
  BY <1>4, <1>5, <1>6 DEF Next
<1>8. req' = [req EXCEPT ![r] = "held"]
  BY <1>7 DEF Admit
<1>9. q = r
  BY <1>1, <1>2, <1>8
<1> QED
  BY <1>1, <1>7, <1>9

\* Acquire never lets a key run more requests than the limit of the moment.
THEOREM ConcurrencyHolds == Spec => ConcurrencyIsBounded
<1>1. IInv /\ InFlightIsExact' /\ [Next]_vars
        => \A k \in Keys : Admitted(k) => Cardinality(Held(k)') <= limits[k].conc
  <2> SUFFICES ASSUME IInv, InFlightIsExact', [Next]_vars, NEW k \in Keys, Admitted(k)
               PROVE  Cardinality(Held(k)') <= limits[k].conc
    OBVIOUS
  <2>1. PICK r \in Requests : KeyOf[r] = k /\ Admit(r)
    BY AdmittedFacts
  <2>2. SeenIsSound(k) /\ perKey'[k] = Paid(k) /\ Seen(k).inFlight < limits[k].conc
    BY <2>1, AdmitFacts
  <2>3. Seen(k) \in KeyState
    BY <2>2 DEF SeenIsSound
  <2>4. Paid(k).inFlight = Seen(k).inFlight + 1 /\ Seen(k).inFlight \in Nat
    BY <2>3, PaidFacts, StateFacts
  <2>5. limits[k].conc \in Nat
    BY FastestFacts DEF IInv, TypeOK
  <2>6. Cardinality(Held(k)') = Seen(k).inFlight + 1
    BY <2>2, <2>4 DEF InFlightIsExact
  <2> QED
    BY <2>2, <2>4, <2>5, <2>6
<1>2. IInv /\ InFlightIsExact' /\ [Next]_vars
        => [\A k \in Keys : Admitted(k) => Cardinality(Held(k)') <= limits[k].conc]_vars
  BY <1>1
<1> QED
  BY <1>2, Invariance, CountIsExact, PTL DEF Spec, ConcurrencyIsBounded

\* Acquire admits no key whose charges are not yet refilled, unless nobody
\* asked for it during the whole idle time.
THEOREM DebtHolds == Spec => DebtHoldsWhileAsked
<1>1. IInv /\ [Next]_vars => \A k \in Keys : Admitted(k) => credit'[k] >= 0
  <2> SUFFICES ASSUME IInv, [Next]_vars, NEW k \in Keys, Admitted(k)
               PROVE  credit'[k] >= 0
    OBVIOUS
  <2>1. PICK r \in Requests : KeyOf[r] = k /\ Admit(r)
    BY AdmittedFacts
  <2>2. SeenIsSound(k) /\ Seen(k).tpm.level >= 0
    BY <2>1, AdmitFacts
  <2>3. Acquire(k)
    BY <2>1 DEF Admit
  <2>4. credit'[k] = Balance(k) /\ Balance(k) \in Int
    BY <2>3, BalanceFacts
  <2>5. Seen(k).tpm.level \in Int /\ Seen(k).tpm.level <= Balance(k)
    BY <2>2, StateFacts DEF SeenIsSound
  <2> QED
    BY <2>2, <2>4, <2>5
<1>2. IInv /\ [Next]_vars
        => [\A k \in Keys : Admitted(k) => credit'[k] >= 0]_vars
  BY <1>1
<1> QED
  BY <1>2, Invariance, PTL DEF Spec, DebtHoldsWhileAsked

\* A client that waited the Retry-After of refillWait is not refused again for
\* the same reason before another request of its key, or other limits, came
\* between.
THEOREM RetryAfterSuffices == Spec => RetryAfterIsEnough
<1> DEFINE Kept == \A k \in Keys : wait[k].reason # "none" /\ wait'[k] # wait[k]
                                     /\ wait'[k].reason = wait[k].reason
                                        => now < wait[k].until
<1>1. IInv /\ [Next]_vars => Kept
  <2> SUFFICES ASSUME IInv, [Next]_vars, NEW k \in Keys, wait[k].reason # "none",
                      wait'[k] # wait[k], wait'[k].reason = wait[k].reason
               PROVE  now < wait[k].until
    OBVIOUS
  <2>0. TypeOK
    BY DEF IInv
  <2>1. NoWait.reason = "none"
    BY DEF NoWait
  <2>2. ASSUME NEW j \in Keys, wait' = [wait EXCEPT ![j] = NoWait]
        PROVE  FALSE
    BY <2>0, <2>1, <2>2 DEF TypeOK
  <2>3. \A r \in Requests : KeyOf[r] \in Keys
    BY LimiterAssumption DEF LimiterAssumption
  <2>4. ASSUME NEW r \in Requests, Admit(r) \/ ChargeTokens(r) \/ Release(r)
        PROVE  FALSE
    <3>1. wait' = wait \/ wait' = [wait EXCEPT ![KeyOf[r]] = NoWait]
      BY <2>4 DEF Admit, ChargeTokens, Release
    <3> QED
      BY <2>2, <2>3, <3>1
  <2>5. ASSUME NEW j \in Keys, keyLimits(j)
        PROVE  FALSE
    BY <2>2, <2>5 DEF keyLimits
  <2>6. ~Tick /\ ~(UNCHANGED vars)
    BY DEF Tick, vars
  <2>7. PICK r \in Requests : Refuse(r)
    BY <2>4, <2>5, <2>6 DEF Next
  <2>8. now \in Nat /\ wait[k].until \in Nat /\ Minute \in Nat
    BY <2>0, LimiterAssumption DEF LimiterAssumption, TypeOK
  <2>9. KeyOf[r] = k
    BY <2>0, <2>7, RefuseFacts DEF TypeOK
  <2>10. SeenIsSound(k)
    BY <2>7, <2>9, RefuseFacts
  <2>11. Seen(k).rpm.level \in Int /\ Seen(k).tpm.level \in Int
    BY <2>10, StateFacts DEF SeenIsSound
  <2>12. \/ wait'[k].reason = "rpm" /\ Seen(k).rpm.level < Minute
         \/ wait'[k].reason = "tpm" /\ Seen(k).tpm.level < 0
    <3> DEFINE u == now + refillWait(Seen(k).rpm.level, Minute, limits[k].rpm)
               v == now + refillWait(Seen(k).tpm.level, 0, limits[k].tpm)
    <3>1. \/ wait' = wait
          \/ /\ Seen(k).rpm.level < Minute
             /\ wait' = [wait EXCEPT ![k] = [reason |-> "rpm", until |-> u]]
          \/ /\ Seen(k).tpm.level < 0
             /\ wait' = [wait EXCEPT ![k] = [reason |-> "tpm", until |-> v]]
      BY <2>7, <2>9, RefuseFacts, Zenon
    <3> HIDE DEF u, v
    <3> QED
      BY <2>0, <3>1 DEF TypeOK
  <2> QED
    BY <2>8, <2>10, <2>11, <2>12 DEF SeenIsSound
<1>2. IInv /\ [Next]_vars => [Kept]_vars
  BY <1>1
<1> QED
  BY <1>2, Invariance, PTL DEF Spec, RetryAfterIsEnough
=============================================================================
