---------------------------- MODULE UpstreamCall ----------------------------
(***************************************************************************)
(* How a request reaches a model's upstreams (server.callUpstream): the    *)
(* order the upstreams are tried in, retries on one upstream, the fall     *)
(* through to the model's fallback, and the health record every request    *)
(* shares (upstreamHealth), which puts an upstream aside after repeated    *)
(* failures.                                                               *)
(*                                                                         *)
(* The health record takes its mutex once per question asked of it, so     *)
(* other requests, the passing of time and passthrough calls change it     *)
(* between two questions of one request.  Time is abstracted: an upstream  *)
(* is in cooldown or not, and a cooldown may run out at any moment.        *)
(***************************************************************************)
EXTENDS Integers, Sequences, FiniteSets

CONSTANTS Calls,            \* concurrent requests
          Refs,             \* upstream references a model may name
          NoRef,            \* a model without a fallback
          Configured,       \* the references this gateway has an upstream for
          Outcomes,         \* what an attempt may come back with
          UpstreamRetries,  \* extra attempts one upstream gets
          CoolingFailures   \* consecutive failures that put an upstream aside

(***************************************************************************)
(* What one attempt comes back with (Server.do):                           *)
(*   ok         200                                                        *)
(*   refused    400, 422, or 402 on the money axis: the request's fault    *)
(*   ended      the request's own context is over                          *)
(*   throttled  429                                                        *)
(*   timeout    no response headers in time                                *)
(*   auth       401, 403: the credential was not taken                     *)
(*   fault      every other failure                                        *)
(***************************************************************************)
Final   == {"ok", "refused", "ended"}
MoveOn  == {"throttled", "timeout"}
Retried == {"auth", "fault"}

ASSUME UpstreamAssumption ==
    /\ NoRef \notin Refs
    /\ Configured \subseteq Refs
    /\ Outcomes \subseteq Final \cup MoveOn \cup Retried
    /\ UpstreamRetries \in Nat
    /\ CoolingFailures \in Nat \ {0}

VARIABLES
    failures,   \* upstreamHealth.failures
    cool,       \* whether upstreamHealth.coolUntil lies in the future
    pc,         \* where each call is
    credit,     \* the model is on the money axis (CREDIT)
    creds,      \* the upstreams the request's key has a credential for
    named,      \* the references the model names, its own before its fallback
    refs,       \* the reordering, then the references the call goes through
    i,          \* the loop index over refs
    attempt,    \* the loop index over attempts on one upstream
    sent,       \* history: the attempts made, with their outcomes
    disturbed   \* history: the health record changed while the call read it

health   == <<failures, cool>>
callVars == <<pc, credit, creds, named, refs, i, attempt, sent, disturbed>>
vars     == <<health, callVars>>

PCs == {"idle", "healthy", "cooling", "pick", "send", "done"}
Attempt == [ref: Refs, outcome: Outcomes]

TypeOK ==
    /\ failures \in [Refs -> 0..CoolingFailures-1]
    /\ cool \in [Refs -> BOOLEAN]
    /\ pc \in [Calls -> PCs]
    /\ credit \in [Calls -> BOOLEAN]
    /\ creds \in [Calls -> SUBSET Refs]
    /\ named \in [Calls -> Seq(Refs)]
    /\ refs \in [Calls -> Seq(Refs)]
    /\ i \in [Calls -> Nat]
    /\ attempt \in [Calls -> 0..UpstreamRetries]
    /\ sent \in [Calls -> Seq(Attempt)]
    /\ disturbed \in [Calls -> BOOLEAN]

Init ==
    /\ failures = [r \in Refs |-> 0]
    /\ cool = [r \in Refs |-> FALSE]
    /\ pc = [c \in Calls |-> "idle"]
    /\ credit = [c \in Calls |-> FALSE]
    /\ creds = [c \in Calls |-> {}]
    /\ named = [c \in Calls |-> <<>>]
    /\ refs = [c \in Calls |-> <<>>]
    /\ i = [c \in Calls |-> 1]
    /\ attempt = [c \in Calls |-> 0]
    /\ sent = [c \in Calls |-> <<>>]
    /\ disturbed = [c \in Calls |-> FALSE]

-----------------------------------------------------------------------------
(***************************************************************************)
(* The shared health record.                                               *)
(***************************************************************************)

\* The calls that are between their first and last question about r.
Reading(r) == {c \in Calls : pc[c] \in {"healthy", "cooling"}
                             /\ r \in {named[c][k] : k \in DOMAIN named[c]}}

\* Whether r is cooling changes under every call that is ordering by it.
Disturb(r) == disturbed' =
    [c \in Calls |-> disturbed[c] \/ (c \in Reading(r) /\ cool'[r] # cool[r])]

recordFailure(r) ==
    /\ IF failures[r] + 1 >= CoolingFailures
       THEN /\ cool' = [cool EXCEPT ![r] = TRUE]
            /\ failures' = [failures EXCEPT ![r] = 0]
       ELSE /\ failures' = [failures EXCEPT ![r] = @ + 1]
            /\ UNCHANGED cool
    /\ Disturb(r)

recordSuccess(r) ==
    /\ failures' = [failures EXCEPT ![r] = 0]
    /\ cool' = [cool EXCEPT ![r] = FALSE]
    /\ Disturb(r)

\* coolFor has passed.
CooldownEnds(r) ==
    /\ cool[r]
    /\ cool' = [cool EXCEPT ![r] = FALSE]
    /\ Disturb(r)
    /\ UNCHANGED <<failures, pc, credit, creds, named, refs, i, attempt, sent>>

\* A passthrough request on the same upstream succeeded; its failures are not
\* recorded here.
PassthroughSucceeds(r) ==
    /\ r \in Configured
    /\ recordSuccess(r)
    /\ UNCHANGED <<pc, credit, creds, named, refs, i, attempt, sent>>

-----------------------------------------------------------------------------
(***************************************************************************)
(* One call.                                                               *)
(***************************************************************************)

\* The pipeline let the request through: on the money axis the key has a
\* credential for the model's own upstream.
Start(c) ==
    /\ pc[c] = "idle"
    /\ \E primary \in Refs, fallback \in Refs \cup {NoRef},
          money \in BOOLEAN, have \in SUBSET Refs :
         /\ money => primary \in have
         /\ ~money => have = {}
         /\ credit' = [credit EXCEPT ![c] = money]
         /\ creds' = [creds EXCEPT ![c] = have]
         /\ IF fallback \in Refs \ {primary}
            THEN /\ named' = [named EXCEPT ![c] = <<primary, fallback>>]
                 /\ pc' = [pc EXCEPT ![c] = "healthy"]
                 /\ UNCHANGED refs
            ELSE /\ named' = [named EXCEPT ![c] = <<primary>>]
                 /\ refs' = [refs EXCEPT ![c] = <<primary>>]
                 /\ pc' = [pc EXCEPT ![c] = "pick"]
    /\ UNCHANGED <<health, i, attempt, sent, disturbed>>

\* One pass of the reordering asks the health record about named[i]; the
\* first pass keeps the ones not cooling, the second the ones cooling.
AskHealth(c, pass, keep, after) ==
    LET r == named[c][i[c]] IN
    /\ pc[c] = pass
    /\ refs' = [refs EXCEPT ![c] = IF cool[r] = keep THEN Append(@, r) ELSE @]
    /\ IF i[c] < Len(named[c])
       THEN i' = [i EXCEPT ![c] = @ + 1] /\ UNCHANGED pc
       ELSE i' = [i EXCEPT ![c] = 1] /\ pc' = [pc EXCEPT ![c] = after]
    /\ UNCHANGED <<health, credit, creds, named, attempt, sent, disturbed>>

\* Mutant of KeepCooling: the cooling upstreams are left out.
KeepCoolingDrops(c) ==
    /\ pc[c] = "cooling"
    /\ i' = [i EXCEPT ![c] = 1]
    /\ pc' = [pc EXCEPT ![c] = "pick"]
    /\ UNCHANGED <<health, credit, creds, named, refs, attempt, sent, disturbed>>

KeepHealthy(c) == AskHealth(c, "healthy", FALSE, "cooling")
KeepCooling(c) == AskHealth(c, "cooling", TRUE, "pick")

\* An upstream this call may send to: configured, and on the money axis only
\* with the key's own credential.
Usable(c, r) == r \in Configured /\ (credit[c] => r \in creds[c])

\* The next reference is sent to, or skipped; past the last one the call has
\* failed.
Pick(c) ==
    /\ pc[c] = "pick"
    /\ \/ /\ i[c] > Len(refs[c])
          /\ pc' = [pc EXCEPT ![c] = "done"]
          /\ UNCHANGED i
       \/ /\ i[c] <= Len(refs[c])
          /\ Usable(c, refs[c][i[c]])
          /\ pc' = [pc EXCEPT ![c] = "send"]
          /\ UNCHANGED i
       \/ /\ i[c] <= Len(refs[c])
          /\ ~Usable(c, refs[c][i[c]])
          /\ i' = [i EXCEPT ![c] = @ + 1]
          /\ UNCHANGED pc
    /\ UNCHANGED <<health, credit, creds, named, refs, attempt, sent,
                   disturbed>>

\* An attempt on refs[i] came back with the given outcome.
Answered(c, outcome) ==
    /\ pc[c] = "send"
    /\ sent' = [sent EXCEPT ![c] =
                  Append(@, [ref |-> refs[c][i[c]], outcome |-> outcome])]
    /\ UNCHANGED <<credit, creds, named, refs>>

Succeed(c) ==
    /\ "ok" \in Outcomes
    /\ Answered(c, "ok")
    /\ recordSuccess(refs[c][i[c]])
    /\ pc' = [pc EXCEPT ![c] = "done"]
    /\ UNCHANGED <<i, attempt>>

\* Mutant of GiveUp: a refusal falls through to the next upstream.
GiveUpFallsThrough(c, outcome) ==
    /\ outcome \in {"refused", "ended"}
    /\ Answered(c, outcome)
    /\ pc' = [pc EXCEPT ![c] = "pick"]
    /\ i' = [i EXCEPT ![c] = @ + 1]
    /\ UNCHANGED <<health, attempt, disturbed>>

\* Refused for good, or the request itself is over.
GiveUp(c, outcome) ==
    /\ outcome \in {"refused", "ended"}
    /\ Answered(c, outcome)
    /\ pc' = [pc EXCEPT ![c] = "done"]
    /\ UNCHANGED <<health, i, attempt, disturbed>>

\* Mutant of FallThrough: a timeout is retried like any other failure.
FallThroughRetries(c, outcome) ==
    /\ outcome \in MoveOn
    /\ Answered(c, outcome)
    /\ IF attempt[c] < UpstreamRetries
       THEN /\ attempt' = [attempt EXCEPT ![c] = @ + 1]
            /\ UNCHANGED <<pc, i>>
       ELSE /\ attempt' = [attempt EXCEPT ![c] = 0]
            /\ i' = [i EXCEPT ![c] = @ + 1]
            /\ pc' = [pc EXCEPT ![c] = "pick"]
    /\ UNCHANGED <<health, disturbed>>

\* A throttle or a timeout: not again on this upstream.
FallThrough(c, outcome) ==
    /\ outcome \in MoveOn
    /\ Answered(c, outcome)
    /\ pc' = [pc EXCEPT ![c] = "pick"]
    /\ i' = [i EXCEPT ![c] = @ + 1]
    /\ attempt' = [attempt EXCEPT ![c] = 0]
    /\ UNCHANGED <<health, disturbed>>

\* Any other failure counts against the upstream and is tried again while
\* attempts are left.
Retry(c, outcome) ==
    /\ outcome \in Retried
    /\ Answered(c, outcome)
    /\ recordFailure(refs[c][i[c]])
    /\ IF attempt[c] < UpstreamRetries
       THEN /\ attempt' = [attempt EXCEPT ![c] = @ + 1]
            /\ UNCHANGED <<pc, i>>
       ELSE /\ attempt' = [attempt EXCEPT ![c] = 0]
            /\ i' = [i EXCEPT ![c] = @ + 1]
            /\ pc' = [pc EXCEPT ![c] = "pick"]

CallStep(c) == \/ KeepHealthy(c) \/ KeepCooling(c) \/ Pick(c) \/ Succeed(c)
               \/ \E o \in Outcomes : GiveUp(c, o) \/ FallThrough(c, o)
                                      \/ Retry(c, o)

Next ==
    \/ \E c \in Calls : Start(c) \/ CallStep(c)
    \/ \E r \in Refs : CooldownEnds(r) \/ PassthroughSucceeds(r)

Spec == Init /\ [][Next]_vars

-----------------------------------------------------------------------------
(***************************************************************************)
(* Properties.                                                             *)
(***************************************************************************)

\* The call sent to r again after an attempt on r had one of these outcomes.
SentAgainAfter(c, bad) ==
    \E a, b \in DOMAIN sent[c] :
        /\ a < b
        /\ sent[c][a].ref = sent[c][b].ref
        /\ sent[c][a].outcome \in bad

\* A call whose ordering was not disturbed never sends to an upstream again
\* once that upstream timed out or throttled it: the answer may be under way
\* there, and it would be billed twice.
UndisturbedNeverResends ==
    \A c \in Calls : ~disturbed[c] => ~SentAgainAfter(c, MoveOn)

Exhausted(c) == /\ pc[c] = "done"
                /\ \A a \in DOMAIN sent[c] : sent[c][a].outcome \notin Final

TriedEvery(c) ==
    \A k \in DOMAIN named[c] : Usable(c, named[c][k]) =>
        \E a \in DOMAIN sent[c] : sent[c][a].ref = named[c][k]

\* Cooldown is advice: a call whose ordering was not disturbed fails only
\* after every upstream it may use was tried, cooling or not.
UndisturbedTriesEvery ==
    \A c \in Calls : Exhausted(c) /\ ~disturbed[c] => TriedEvery(c)

\* However the orderings and the health record interleave, a call makes at
\* most UpstreamRetries + 1 attempts per pass of the ordering and reference,
\* and nothing after an answer that settles it.
AttemptsAreBounded ==
    \A c \in Calls :
        /\ Len(sent[c]) <= 4 * (UpstreamRetries + 1)
        /\ \A a \in DOMAIN sent[c] : sent[c][a].outcome \in Final =>
              a = Len(sent[c]) /\ pc[c] = "done"

\* "A timed-out upstream must not be sent the same completion again."
TimeoutIsNeverResent == \A c \in Calls : ~SentAgainAfter(c, {"timeout"})
=============================================================================
