------------------------ MODULE UpstreamCall_proofs ------------------------
(***************************************************************************)
(* Proofs about UpstreamCall, for any number of concurrent calls, any      *)
(* upstreams, any number of retries and any cooling threshold.             *)
(*                                                                         *)
(* The properties speak of the attempts a call has made.  They hold        *)
(* because of where in the list the call stands (Shape, Trail) and, for a  *)
(* call nobody disturbed, because the two passes over a health record that *)
(* did not change put every named upstream in the list exactly once        *)
(* (Ordered).                                                              *)
(***************************************************************************)
EXTENDS UpstreamCall, SequenceTheorems, TLAPS

Asking == {"healthy", "cooling"}
Going  == {"pick", "send", "done"}

\* Where a call stands: what its model names, how far the list can have
\* grown, and which part of it the loops have behind them.
Shape(c) ==
    /\ pc[c] = "idle" => refs[c] = <<>>
    /\ pc[c] # "idle" =>
         \/ Len(named[c]) = 1
         \/ Len(named[c]) = 2 /\ named[c][1] # named[c][2]
    /\ pc[c] \in Asking => Len(named[c]) = 2 /\ i[c] \in 1..2
    /\ pc[c] \in Asking \cup {"idle"} => sent[c] = <<>>
    /\ pc[c] = "idle" => i[c] = 1
    /\ pc[c] = "healthy" => Len(refs[c]) <= i[c] - 1
    /\ pc[c] = "cooling" => Len(refs[c]) <= i[c] + 1
    /\ pc[c] \in Going => Len(refs[c]) <= 4 /\ i[c] \in 1..Len(refs[c]) + 1
    /\ pc[c] = "send" => i[c] <= Len(refs[c])
    /\ pc[c] \in Asking \cup {"idle", "pick"} => attempt[c] = 0

\* The list as the first pass leaves it, and as the question about the first
\* name in the second pass leaves it.
AfterHealthy(c) ==
    LET m == named[c][1]
        n == named[c][2]
    IN /\ cool[m] /\ cool[n] => refs[c] = <<>>
       /\ cool[m] /\ ~cool[n] => refs[c] = <<n>>
       /\ ~cool[m] /\ cool[n] => refs[c] = <<m>>
       /\ ~cool[m] /\ ~cool[n] => refs[c] = <<m, n>>

AfterFirstCooling(c) ==
    LET m == named[c][1]
        n == named[c][2]
    IN /\ cool[n] => refs[c] = <<m>>
       /\ cool[m] /\ ~cool[n] => refs[c] = <<n, m>>
       /\ ~cool[m] /\ ~cool[n] => refs[c] = <<m, n>>

\* A call whose health record did not change while it read it goes through a
\* permutation of what its model names.
Ordered(c) ==
    ~disturbed[c] =>
      /\ pc[c] = "healthy" /\ i[c] = 1 => refs[c] = <<>>
      /\ pc[c] = "healthy" /\ i[c] = 2 =>
           refs[c] = IF cool[named[c][1]] THEN <<>> ELSE <<named[c][1]>>
      /\ pc[c] = "cooling" /\ i[c] = 1 => AfterHealthy(c)
      /\ pc[c] = "cooling" /\ i[c] = 2 => AfterFirstCooling(c)
      /\ pc[c] \in Going =>
           \/ refs[c] = named[c]
           \/ Len(named[c]) = 2 /\ refs[c] = <<named[c][2], named[c][1]>>

\* What the attempts made say about the list: each went to a reference the
\* loop has reached, one it moved on from lies behind it, and every usable
\* reference behind it was tried.
Trail(c) ==
    /\ \A a \in DOMAIN sent[c] : \E k \in 1..Len(refs[c]) :
         /\ refs[c][k] = sent[c][a].ref
         /\ k <= i[c]
         /\ sent[c][a].outcome \in MoveOn => k < i[c]
    /\ pc[c] \in Going =>
         \A k \in 1..Len(refs[c]) : k < i[c] /\ Usable(c, refs[c][k]) =>
            \E a \in DOMAIN sent[c] : sent[c][a].ref = refs[c][k]
    /\ Exhausted(c) => i[c] = Len(refs[c]) + 1

\* How many attempts j references are worth, and how many a call can have
\* behind it.
Worth(j) == j * (UpstreamRetries + 1)

Spent(c) ==
    /\ pc[c] \in {"pick", "send"} => Len(sent[c]) <= Worth(i[c] - 1) + attempt[c]
    /\ Len(sent[c]) <= Worth(4)

\* An answer that settles the call is its last.
Settled(c) ==
    \A a \in DOMAIN sent[c] : sent[c][a].outcome \in Final =>
        a = Len(sent[c]) /\ pc[c] = "done"

CallInv(c) ==
    /\ Shape(c)
    /\ Ordered(c)
    /\ Trail(c)
    /\ Spent(c)
    /\ Settled(c)
    /\ ~disturbed[c] => ~SentAgainAfter(c, MoveOn)

IInv == TypeOK /\ \A c \in Calls : CallInv(c)

-----------------------------------------------------------------------------
\* An update at one index keeps a function in its type.
LEMMA Update ==
    ASSUME NEW S, NEW T, NEW f \in [S -> T], NEW x \in S, NEW g,
           g = f \/ \E v \in T : g = [f EXCEPT ![x] = v]
    PROVE  g \in [S -> T]
  OBVIOUS

\* The two ways the health record changes keep it in its type.
LEMMA HealthTypes ==
    ASSUME TypeOK, NEW r \in Refs, recordFailure(r) \/ recordSuccess(r)
    PROVE  /\ failures' \in [Refs -> 0..CoolingFailures-1]
           /\ cool' \in [Refs -> BOOLEAN]
           /\ disturbed' \in [Calls -> BOOLEAN]
<1> USE UpstreamAssumption DEF UpstreamAssumption
<1>1. failures[r] + 1 < CoolingFailures => failures[r] + 1 \in 0..CoolingFailures-1
  BY DEF TypeOK
<1>2. CASE recordFailure(r)
  <2>0. failures' = [failures EXCEPT ![r] = IF failures[r] + 1 >= CoolingFailures
                                           THEN 0 ELSE failures[r] + 1]
    BY <1>2, Zenon DEF recordFailure
  <2>b. (IF failures[r] + 1 >= CoolingFailures THEN 0 ELSE failures[r] + 1)
          \in 0..CoolingFailures-1
    BY DEF TypeOK
  <2>1. failures' \in [Refs -> 0..CoolingFailures-1]
    BY <2>0, <2>b, Update, Zenon DEF TypeOK
  <2>a. cool' = cool \/ cool' = [cool EXCEPT ![r] = TRUE]
    BY <1>2, Zenon DEF recordFailure
  <2>2. cool' \in [Refs -> BOOLEAN]
    BY <2>a DEF TypeOK
  <2>3. disturbed' \in [Calls -> BOOLEAN]
    BY <1>2 DEF recordFailure, Disturb, Reading, TypeOK
  <2> QED
    BY <2>1, <2>2, <2>3
<1>3. CASE recordSuccess(r)
  <2>1. failures' \in [Refs -> 0..CoolingFailures-1]
    BY <1>3 DEF recordSuccess, TypeOK
  <2>2. cool' \in [Refs -> BOOLEAN]
    BY <1>3 DEF recordSuccess, TypeOK
  <2>3. disturbed' \in [Calls -> BOOLEAN]
    BY <1>3 DEF recordSuccess, Disturb, Reading, TypeOK
  <2> QED
    BY <2>1, <2>2, <2>3
<1> QED
  BY <1>2, <1>3

\* Every step keeps every variable in its type; that the list is never read
\* past its end is what Shape is for.
LEMMA TypeStep == IInv /\ [Next]_vars => TypeOK'
<1> SUFFICES ASSUME IInv, [Next]_vars
             PROVE  TypeOK'
  OBVIOUS
<1>0. TypeOK /\ \A c \in Calls : Shape(c)
  BY DEF IInv, CallInv
<1>1. ASSUME NEW c \in Calls, Start(c)
      PROVE  TypeOK'
  <2>0. PICK primary \in Refs, fallback \in Refs \cup {NoRef},
             money \in BOOLEAN, have \in SUBSET Refs :
          /\ credit' = [credit EXCEPT ![c] = money]
          /\ creds' = [creds EXCEPT ![c] = have]
          /\ \/ /\ fallback \in Refs
                /\ named' = [named EXCEPT ![c] = <<primary, fallback>>]
                /\ pc' = [pc EXCEPT ![c] = "healthy"]
                /\ refs' = refs
             \/ /\ named' = [named EXCEPT ![c] = <<primary>>]
                /\ refs' = [refs EXCEPT ![c] = <<primary>>]
                /\ pc' = [pc EXCEPT ![c] = "pick"]
    BY <1>1, Zenon DEF Start
  <2>a. /\ <<primary>> \in Seq(Refs)
        /\ fallback \in Refs => <<primary, fallback>> \in Seq(Refs)
        /\ "healthy" \in PCs /\ "pick" \in PCs
    BY DEF PCs
  <2>b. /\ \E v \in Seq(Refs) : named' = [named EXCEPT ![c] = v]
        /\ refs' = refs \/ \E v \in Seq(Refs) : refs' = [refs EXCEPT ![c] = v]
        /\ \E v \in PCs : pc' = [pc EXCEPT ![c] = v]
    BY <2>0, <2>a, Zenon
  <2>1. named' \in [Calls -> Seq(Refs)]
    BY <1>0, <2>b DEF TypeOK
  <2>2. refs' \in [Calls -> Seq(Refs)]
    BY <1>0, <2>b DEF TypeOK
  <2>3. pc' \in [Calls -> PCs]
    BY <1>0, <2>b DEF TypeOK
  <2>4. credit' \in [Calls -> BOOLEAN] /\ creds' \in [Calls -> SUBSET Refs]
    BY <1>0, <2>0, Update, Zenon DEF TypeOK
  <2> QED
    BY <1>0, <1>1, <2>1, <2>2, <2>3, <2>4 DEF Start, TypeOK, health
<1>2. ASSUME NEW c \in Calls, KeepHealthy(c) \/ KeepCooling(c)
      PROVE  TypeOK'
  <2>1. named[c][i[c]] \in Refs
    BY <1>0, <1>2 DEF TypeOK, Shape, KeepHealthy, KeepCooling, AskHealth, Asking
  <2>a. \E keep \in BOOLEAN : refs' = [refs EXCEPT ![c] =
            IF cool[named[c][i[c]]] = keep THEN Append(refs[c], named[c][i[c]])
                                           ELSE refs[c]]
    BY <1>2, Zenon DEF KeepHealthy, KeepCooling, AskHealth
  <2>b. \A keep \in BOOLEAN :
          (IF cool[named[c][i[c]]] = keep THEN Append(refs[c], named[c][i[c]])
                                          ELSE refs[c]) \in Seq(Refs)
    BY <1>0, <2>1 DEF TypeOK
  <2>c. /\ i' = [i EXCEPT ![c] = i[c] + 1] \/ i' = [i EXCEPT ![c] = 1]
        /\ \/ pc' = pc
           \/ pc' = [pc EXCEPT ![c] = "cooling"]
           \/ pc' = [pc EXCEPT ![c] = "pick"]
    BY <1>2, Zenon DEF KeepHealthy, KeepCooling, AskHealth
  <2>d. "cooling" \in PCs /\ "pick" \in PCs /\ 1 \in Nat /\ i[c] + 1 \in Nat
    BY <1>0 DEF PCs, TypeOK
  <2>e. /\ \E v \in Seq(Refs) : refs' = [refs EXCEPT ![c] = v]
        /\ \E v \in Nat : i' = [i EXCEPT ![c] = v]
        /\ pc' = pc \/ \E v \in PCs : pc' = [pc EXCEPT ![c] = v]
    BY <2>a, <2>b, <2>c, <2>d, Zenon
  <2>2. refs' \in [Calls -> Seq(Refs)]
    BY <1>0, <2>e DEF TypeOK
  <2>3. pc' \in [Calls -> PCs]
    BY <1>0, <2>e DEF TypeOK
  <2>4. i' \in [Calls -> Nat]
    BY <1>0, <2>e DEF TypeOK
  <2> QED
    BY <1>0, <1>2, <2>2, <2>3, <2>4 DEF TypeOK, KeepHealthy, KeepCooling, AskHealth, health
<1>3. ASSUME NEW c \in Calls, Pick(c)
      PROVE  TypeOK'
  <2>1. /\ i' = i \/ i' = [i EXCEPT ![c] = i[c] + 1]
        /\ \/ pc' = pc
           \/ pc' = [pc EXCEPT ![c] = "done"]
           \/ pc' = [pc EXCEPT ![c] = "send"]
    BY <1>3, Zenon DEF Pick
  <2>a. "done" \in PCs /\ "send" \in PCs /\ i[c] + 1 \in Nat
    BY <1>0 DEF PCs, TypeOK
  <2>b. /\ i' = i \/ \E v \in Nat : i' = [i EXCEPT ![c] = v]
        /\ pc' = pc \/ \E v \in PCs : pc' = [pc EXCEPT ![c] = v]
    BY <2>1, <2>a, Zenon
  <2>2. pc' \in [Calls -> PCs]
    BY <1>0, <2>b DEF TypeOK
  <2>3. i' \in [Calls -> Nat]
    BY <1>0, <2>b DEF TypeOK
  <2> QED
    BY <1>0, <1>3, <2>2, <2>3 DEF TypeOK, Pick, health
<1>4. ASSUME NEW c \in Calls, pc[c] = "send"
      PROVE  refs[c][i[c]] \in Refs
  <2>1. i[c] \in 1..Len(refs[c])
    BY <1>0, <1>4 DEF Shape, Going, TypeOK
  <2> QED
    BY <1>0, <2>1 DEF TypeOK
<1>5. ASSUME NEW c \in Calls, NEW o \in Outcomes, Answered(c, o)
      PROVE  /\ sent' \in [Calls -> Seq(Attempt)]
             /\ credit' \in [Calls -> BOOLEAN] /\ creds' \in [Calls -> SUBSET Refs]
             /\ named' \in [Calls -> Seq(Refs)] /\ refs' \in [Calls -> Seq(Refs)]
  <2>1. [ref |-> refs[c][i[c]], outcome |-> o] \in Attempt
    BY <1>4, <1>5 DEF Answered, Attempt
  <2>2. Append(sent[c], [ref |-> refs[c][i[c]], outcome |-> o]) \in Seq(Attempt)
    BY <1>0, <2>1 DEF TypeOK
  <2> QED
    BY <1>0, <1>5, <2>2, Update, Zenon DEF TypeOK, Answered
<1>6. ASSUME NEW c \in Calls, Succeed(c)
      PROVE  TypeOK'
  <2>1. /\ failures' \in [Refs -> 0..CoolingFailures-1]
        /\ cool' \in [Refs -> BOOLEAN]
        /\ disturbed' \in [Calls -> BOOLEAN]
    BY <1>0, <1>4, <1>6, HealthTypes DEF Succeed, Answered
  <2>2. pc' \in [Calls -> PCs]
    BY <1>0, <1>6 DEF Succeed, TypeOK, PCs
  <2> QED
    BY <1>0, <1>5, <1>6, <2>1, <2>2 DEF Succeed, TypeOK
<1>7. ASSUME NEW c \in Calls, NEW o \in Outcomes, GiveUp(c, o)
      PROVE  TypeOK'
  <2>1. pc' \in [Calls -> PCs]
    BY <1>0, <1>7 DEF GiveUp, TypeOK, PCs
  <2> QED
    BY <1>0, <1>5, <1>7, <2>1 DEF GiveUp, TypeOK, health
<1>8. ASSUME NEW c \in Calls, NEW o \in Outcomes, FallThrough(c, o)
      PROVE  TypeOK'
  <2>1. pc' \in [Calls -> PCs] /\ i' \in [Calls -> Nat]
    BY <1>0, <1>8 DEF FallThrough, TypeOK, PCs
  <2> QED
    BY <1>0, <1>5, <1>8, <2>1, UpstreamAssumption DEF UpstreamAssumption, FallThrough, TypeOK, health
<1>9. ASSUME NEW c \in Calls, NEW o \in Outcomes, Retry(c, o)
      PROVE  TypeOK'
  <2>1. /\ failures' \in [Refs -> 0..CoolingFailures-1]
        /\ cool' \in [Refs -> BOOLEAN]
        /\ disturbed' \in [Calls -> BOOLEAN]
    BY <1>0, <1>4, <1>9, HealthTypes DEF Retry, Answered
  <2>a. /\ i' = i \/ i' = [i EXCEPT ![c] = i[c] + 1]
        /\ pc' = pc \/ pc' = [pc EXCEPT ![c] = "pick"]
        /\ \/ /\ attempt[c] < UpstreamRetries
              /\ attempt' = [attempt EXCEPT ![c] = attempt[c] + 1]
           \/ attempt' = [attempt EXCEPT ![c] = 0]
    BY <1>9, Zenon DEF Retry
  <2>b. /\ "pick" \in PCs /\ i[c] + 1 \in Nat /\ 0 \in 0..UpstreamRetries
        /\ attempt[c] < UpstreamRetries => attempt[c] + 1 \in 0..UpstreamRetries
    BY <1>0, UpstreamAssumption DEF UpstreamAssumption, PCs, TypeOK
  <2>c. /\ i' = i \/ \E v \in Nat : i' = [i EXCEPT ![c] = v]
        /\ pc' = pc \/ \E v \in PCs : pc' = [pc EXCEPT ![c] = v]
        /\ \E v \in 0..UpstreamRetries : attempt' = [attempt EXCEPT ![c] = v]
    BY <2>a, <2>b, Zenon
  <2>2. pc' \in [Calls -> PCs]
    BY <1>0, <2>c DEF TypeOK
  <2>4. i' \in [Calls -> Nat]
    BY <1>0, <2>c DEF TypeOK
  <2>3. attempt' \in [Calls -> 0..UpstreamRetries]
    BY <1>0, <2>c DEF TypeOK
  <2> QED
    BY <1>5, <1>9, <2>1, <2>2, <2>3, <2>4 DEF Retry, TypeOK
<1>10. ASSUME NEW r \in Refs, CooldownEnds(r)
       PROVE  TypeOK'
  <2>1. cool' \in [Refs -> BOOLEAN]
    BY <1>0, <1>10 DEF CooldownEnds, TypeOK
  <2>2. disturbed' \in [Calls -> BOOLEAN]
    BY <1>0, <1>10 DEF CooldownEnds, Disturb, Reading, TypeOK
  <2> QED
    BY <1>0, <1>10, <2>1, <2>2 DEF CooldownEnds, TypeOK
<1>11. ASSUME NEW r \in Refs, PassthroughSucceeds(r)
       PROVE  TypeOK'
  BY <1>0, <1>11, HealthTypes DEF PassthroughSucceeds, TypeOK
<1>12. CASE UNCHANGED vars
  BY <1>0, <1>12 DEF vars, health, callVars, TypeOK
<1> QED
  BY <1>1, <1>2, <1>3, <1>6, <1>7, <1>8, <1>9, <1>10, <1>11, <1>12 DEF Next, CallStep

\* The arithmetic of the attempts: one more reference is worth one more round
\* of them.
LEMMA Rounds ==
    ASSUME NEW j \in Nat
    PROVE  /\ Worth(j) \in Nat
           /\ Worth(j + 1) = Worth(j) + UpstreamRetries + 1
           /\ j <= 4 => Worth(j) <= Worth(4)
<1>1. \A n \in Nat : /\ j * n \in Nat /\ (j + 1) * n = j * n + n
                    /\ j <= 4 => j * n <= 4 * n
  OBVIOUS
<1>2. UpstreamRetries \in Nat /\ UpstreamRetries + 1 \in Nat
  BY UpstreamAssumption DEF UpstreamAssumption
<1> QED
  BY <1>1, <1>2 DEF Worth

-----------------------------------------------------------------------------
\* What else happens leaves a call's own part alone: the record changes at one
\* reference, and a call that was reading it there is marked disturbed.
Untouched(d) ==
    /\ pc'[d] = pc[d] /\ credit'[d] = credit[d] /\ creds'[d] = creds[d]
    /\ named'[d] = named[d] /\ refs'[d] = refs[d] /\ i'[d] = i[d]
    /\ attempt'[d] = attempt[d] /\ sent'[d] = sent[d]

LEMMA Bystander ==
    ASSUME TypeOK, NEW d \in Calls, CallInv(d), Untouched(d), NEW r \in Refs,
           \A q \in Refs \ {r} : cool'[q] = cool[q],
           disturbed'[d] = (disturbed[d] \/ (d \in Reading(r) /\ cool'[r] # cool[r]))
    PROVE  CallInv(d)'
<1>1. Shape(d)' /\ Spent(d)' /\ Settled(d)'
  BY DEF CallInv, Untouched, Shape, Spent, Settled
<1>2. Trail(d)'
  BY DEF CallInv, Untouched, Trail, Usable, Exhausted
<1>3. ~disturbed'[d] => ~disturbed[d]
  OBVIOUS
<1>4. (~disturbed[d] => ~SentAgainAfter(d, MoveOn))'
  BY <1>3 DEF CallInv, Untouched, SentAgainAfter
<1>5. ASSUME ~disturbed'[d], pc[d] \in Asking, NEW k \in 1..2
      PROVE  named[d][k] \in Refs /\ cool'[named[d][k]] = cool[named[d][k]]
  <2>1. Len(named[d]) = 2 /\ named[d] \in Seq(Refs)
    BY <1>5 DEF CallInv, Shape, TypeOK
  <2>2. k \in DOMAIN named[d] /\ named[d][k] \in Refs
    BY <2>1
  <2>3. d \in Reading(r) \/ named[d][k] # r
    BY <1>5, <2>2 DEF Reading, Asking
  <2>4. d \in Reading(r) => cool'[r] = cool[r]
    BY <1>5, Zenon
  <2>5. CASE named[d][k] = r
    BY <2>2, <2>3, <2>4, <2>5, Zenon
  <2>6. CASE named[d][k] # r
    BY <2>2, <2>6
  <2> QED
    BY <2>5, <2>6
<1>6. Ordered(d)'
  <2> SUFFICES ASSUME ~disturbed'[d]
               PROVE  Ordered(d)'
    BY DEF Ordered
  <2>1. Ordered(d) /\ ~disturbed[d]
    BY <1>3 DEF CallInv
  <2>2. CASE pc[d] \in Asking
    <3>1. cool'[named[d][1]] = cool[named[d][1]] /\ cool'[named[d][2]] = cool[named[d][2]]
      BY <1>5, <2>2
    <3> QED
      BY <2>1, <2>2, <3>1 DEF Untouched, Ordered, AfterHealthy, AfterFirstCooling, Asking, Going
  <2>3. CASE pc[d] \notin Asking
    BY <2>1, <2>3 DEF Untouched, Ordered, Asking, Going
  <2> QED
    BY <2>2, <2>3
<1> QED
  BY <1>1, <1>2, <1>4, <1>6 DEF CallInv

\* The pipeline hands the call over: one reference needs no ordering.
LEMMA StartKeeps ==
    ASSUME TypeOK, NEW c \in Calls, CallInv(c), Start(c)
    PROVE  CallInv(c)'
<1>0. /\ pc[c] = "idle" /\ refs[c] = <<>> /\ sent[c] = <<>> /\ i[c] = 1
      /\ attempt[c] = 0
  BY DEF Start, CallInv, Shape, Asking
<1>1. PICK primary \in Refs, fallback \in Refs \cup {NoRef} :
        \/ /\ fallback \in Refs \ {primary}
           /\ named' = [named EXCEPT ![c] = <<primary, fallback>>]
           /\ pc' = [pc EXCEPT ![c] = "healthy"]
           /\ refs' = refs
        \/ /\ named' = [named EXCEPT ![c] = <<primary>>]
           /\ refs' = [refs EXCEPT ![c] = <<primary>>]
           /\ pc' = [pc EXCEPT ![c] = "pick"]
  BY Zenon DEF Start
<1>2. i' = i /\ attempt' = attempt /\ sent' = sent /\ disturbed' = disturbed /\ cool' = cool
  BY DEF Start, health
<1>3. CASE /\ fallback \in Refs \ {primary}
           /\ named' = [named EXCEPT ![c] = <<primary, fallback>>]
           /\ pc' = [pc EXCEPT ![c] = "healthy"]
           /\ refs' = refs
  <2>1. /\ pc'[c] = "healthy" /\ refs'[c] = <<>> /\ sent'[c] = <<>> /\ i'[c] = 1
        /\ attempt'[c] = 0 /\ named'[c] = <<primary, fallback>>
    BY <1>0, <1>2, <1>3 DEF TypeOK
  <2>2. Shape(c)' /\ Ordered(c)'
    BY <1>3, <2>1 DEF Shape, Ordered, Asking, Going
  <2>3. Trail(c)' /\ Settled(c)' /\ ~SentAgainAfter(c, MoveOn)'
    BY <2>1 DEF Trail, Settled, SentAgainAfter, Exhausted, Going
  <2>4. Spent(c)'
    BY <2>1, Rounds DEF Spent
  <2> QED
    BY <2>2, <2>3, <2>4 DEF CallInv
<1>4. CASE /\ named' = [named EXCEPT ![c] = <<primary>>]
           /\ refs' = [refs EXCEPT ![c] = <<primary>>]
           /\ pc' = [pc EXCEPT ![c] = "pick"]
  <2>1. /\ pc'[c] = "pick" /\ refs'[c] = <<primary>> /\ sent'[c] = <<>> /\ i'[c] = 1
        /\ attempt'[c] = 0 /\ named'[c] = <<primary>>
    BY <1>0, <1>2, <1>4 DEF TypeOK
  <2>2. Shape(c)' /\ Ordered(c)'
    BY <2>1 DEF Shape, Ordered, Asking, Going
  <2>3. Trail(c)' /\ Settled(c)' /\ ~SentAgainAfter(c, MoveOn)'
    BY <2>1 DEF Trail, Settled, SentAgainAfter, Exhausted, Going
  <2>4. Spent(c)'
    BY <2>1, Rounds DEF Spent
  <2> QED
    BY <2>2, <2>3, <2>4 DEF CallInv
<1> QED
  BY <1>1, <1>3, <1>4

\* The lists of at most two references, as the passes build them.
LEMMA AppendPair ==
    ASSUME NEW m \in Refs, NEW n \in Refs
    PROVE  Append(<<>>, n) = <<n>> /\ Append(<<m>>, n) = <<m, n>>
<1> DEFINE s == Append(<<m>>, n)
<1>1. <<m>> \in Seq(Refs) /\ s \in Seq(Refs) /\ <<m, n>> \in Seq(Refs)
  OBVIOUS
<1>2. Len(s) = 2 /\ s[1] = m /\ s[2] = n
  BY <1>1, AppendProperties
<1>3. Len(<<m, n>>) = 2 /\ <<m, n>>[1] = m /\ <<m, n>>[2] = n
  OBVIOUS
<1> HIDE DEF s
<1>4. \A k \in 1..Len(s) : s[k] = <<m, n>>[k]
  BY <1>2, <1>3
<1>5. s = <<m, n>>
  BY <1>1, <1>2, <1>3, <1>4, SeqEqual
<1> QED
  BY <1>5 DEF s

LEMMA PairIs ==
    ASSUME NEW s \in Seq(Refs), Len(s) = 2
    PROVE  s = <<s[1], s[2]>>
<1>0. 1 \in 1..Len(s) /\ 2 \in 1..Len(s)
  OBVIOUS
<1>1. s[1] \in Refs /\ s[2] \in Refs
  BY <1>0, ElementOfSeq, Zenon
<1>2. <<s[1], s[2]>> \in Seq(Refs) /\ Len(<<s[1], s[2]>>) = 2
  BY <1>1
<1>3. \A k \in 1..2 : k = 1 \/ k = 2
  OBVIOUS
<1>4. \A k \in 1..2 : s[k] = <<s[1], s[2]>>[k]
  BY <1>1, <1>3
<1> QED
  BY <1>2, <1>4, SeqEqual

\* A question to the health record, in either pass, leaves the attempts
\* alone.
LEMMA AskFacts ==
    ASSUME TypeOK, NEW c \in Calls, CallInv(c), NEW pass \in Asking,
           NEW keep \in BOOLEAN, NEW after \in {"cooling", "pick"},
           AskHealth(c, pass, keep, after)
    PROVE  /\ pc[c] = pass /\ i[c] \in 1..2
           /\ cool' = cool /\ disturbed'[c] = disturbed[c] /\ named'[c] = named[c]
           /\ Len(named[c]) = 2 /\ named[c][1] # named[c][2]
           /\ named[c][1] \in Refs /\ named[c][2] \in Refs
           /\ sent[c] = <<>> /\ sent'[c] = <<>> /\ attempt'[c] = 0
           /\ refs[c] \in Seq(Refs)
           /\ refs'[c] = IF cool[named[c][i[c]]] = keep
                         THEN Append(refs[c], named[c][i[c]]) ELSE refs[c]
           /\ i[c] = 1 => i'[c] = 2 /\ pc'[c] = pass
           /\ i[c] = 2 => i'[c] = 1 /\ pc'[c] = after
<1>1. pc[c] = pass /\ pc[c] \in Asking
  BY DEF AskHealth
<1>2. /\ Len(named[c]) = 2 /\ i[c] \in 1..2 /\ sent[c] = <<>> /\ attempt[c] = 0
      /\ named[c][1] # named[c][2]
  BY <1>1 DEF CallInv, Shape, Asking
<1>3. named[c] \in Seq(Refs) /\ refs[c] \in Seq(Refs)
  BY DEF TypeOK
<1>4. named[c][1] \in Refs /\ named[c][2] \in Refs
  BY <1>2, <1>3
<1>5. /\ cool' = cool /\ disturbed' = disturbed /\ named' = named /\ sent' = sent
      /\ attempt' = attempt
  BY DEF AskHealth, health
<1>6. refs'[c] = IF cool[named[c][i[c]]] = keep
                 THEN Append(refs[c], named[c][i[c]]) ELSE refs[c]
  BY Zenon DEF AskHealth, TypeOK
<1>7. (i[c] = 1 => i'[c] = 2 /\ pc'[c] = pass) /\ (i[c] = 2 => i'[c] = 1 /\ pc'[c] = after)
  BY <1>1, <1>2 DEF AskHealth, TypeOK
<1> QED
  BY <1>1, <1>2, <1>3, <1>4, <1>5, <1>6, <1>7

\* Without attempts, what is said about attempts holds.
LEMMA NothingSent ==
    ASSUME NEW c \in Calls, sent'[c] = <<>>, i'[c] = 1 \/ pc'[c] \notin Going,
           pc'[c] # "done", attempt'[c] = 0, i'[c] \in Nat
    PROVE  Trail(c)' /\ Settled(c)' /\ ~SentAgainAfter(c, MoveOn)' /\ Spent(c)'
<1>1. Trail(c)' /\ Settled(c)' /\ ~SentAgainAfter(c, MoveOn)'
  BY DEF Trail, Settled, SentAgainAfter, Exhausted
<1>2. Spent(c)'
  <2>1. Worth(0) \in Nat /\ Worth(4) \in Nat /\ Len(<<>>) = 0 /\ 1 - 1 = 0
    BY Rounds
  <2>2. CASE i'[c] = 1
    BY <2>1, <2>2 DEF Spent
  <2>3. CASE pc'[c] \notin Going
    BY <2>1, <2>3 DEF Spent, Going
  <2> QED
    BY <2>2, <2>3
<1> QED
  BY <1>1, <1>2

\* The first pass keeps, in order, the references that are not cooling.
LEMMA HealthyKeeps ==
    ASSUME TypeOK, NEW c \in Calls, CallInv(c), KeepHealthy(c)
    PROVE  CallInv(c)'
<1> DEFINE m == named[c][1]
           n == named[c][2]
<1>1. /\ pc[c] = "healthy" /\ i[c] \in 1..2
      /\ cool' = cool /\ disturbed'[c] = disturbed[c] /\ named'[c] = named[c]
      /\ Len(named[c]) = 2 /\ m # n /\ m \in Refs /\ n \in Refs
      /\ sent'[c] = <<>> /\ attempt'[c] = 0
      /\ refs[c] \in Seq(Refs)
      /\ refs'[c] = IF cool[named[c][i[c]]] = FALSE
                    THEN Append(refs[c], named[c][i[c]]) ELSE refs[c]
      /\ i[c] = 1 => i'[c] = 2 /\ pc'[c] = "healthy"
      /\ i[c] = 2 => i'[c] = 1 /\ pc'[c] = "cooling"
  <2>1. "healthy" \in Asking /\ "cooling" \in {"cooling", "pick"} /\ FALSE \in BOOLEAN
    BY DEF Asking
  <2>2. AskHealth(c, "healthy", FALSE, "cooling")
    BY DEF KeepHealthy
  <2> QED
    BY <2>1, <2>2, AskFacts, Zenon
<1>2. Len(refs'[c]) <= Len(refs[c]) + 1
  BY <1>1
<1>3. Shape(c)'
  BY <1>1, <1>2 DEF CallInv, Shape, Asking, Going
<1>4. Ordered(c)'
  <2>0. cool[m] \in BOOLEAN /\ cool[n] \in BOOLEAN
    BY <1>1 DEF TypeOK
  <2> SUFFICES ASSUME ~disturbed[c]
               PROVE  Ordered(c)'
    BY <1>1 DEF Ordered
  <2>1. CASE i[c] = 1
    <3>1. refs[c] = <<>>
      BY <1>1, <2>1 DEF CallInv, Ordered
    <3>2. refs'[c] = IF cool[m] THEN <<>> ELSE <<m>>
      BY <1>1, <2>0, <2>1, <3>1
    <3> QED
      BY <1>1, <2>1, <3>2 DEF Ordered, Going
  <2>2. CASE i[c] = 2
    <3>1. refs[c] = IF cool[m] THEN <<>> ELSE <<m>>
      BY <1>1, <2>2 DEF CallInv, Ordered
    <3>2. refs'[c] = IF cool[n] THEN refs[c] ELSE Append(refs[c], n)
      BY <1>1, <2>0, <2>2
    <3>a. Append(<<>>, n) = <<n>> /\ Append(<<m>>, n) = <<m, n>>
      BY <1>1, AppendPair
    <3>b. /\ cool[m] /\ cool[n] => refs'[c] = <<>>
          /\ cool[m] /\ ~cool[n] => refs'[c] = <<n>>
          /\ ~cool[m] /\ cool[n] => refs'[c] = <<m>>
          /\ ~cool[m] /\ ~cool[n] => refs'[c] = <<m, n>>
      BY <2>0, <3>1, <3>2, <3>a, Zenon
    <3>3. AfterHealthy(c)'
      BY <1>1, <3>b, Zenon DEF AfterHealthy
    <3> QED
      BY <1>1, <2>2, <3>3 DEF Ordered, Going
  <2> QED
    BY <1>1, <2>1, <2>2
<1>5. Trail(c)' /\ Settled(c)' /\ ~SentAgainAfter(c, MoveOn)' /\ Spent(c)'
  BY <1>1, NothingSent DEF Going
<1> QED
  BY <1>3, <1>4, <1>5 DEF CallInv

\* The second pass appends the references that are cooling: every name is in
\* the list once, provided the record did not change since the first pass.
LEMMA CoolingKeeps ==
    ASSUME TypeOK, NEW c \in Calls, CallInv(c), KeepCooling(c)
    PROVE  CallInv(c)'
<1> DEFINE m == named[c][1]
           n == named[c][2]
<1>1. /\ pc[c] = "cooling" /\ i[c] \in 1..2
      /\ cool' = cool /\ disturbed'[c] = disturbed[c] /\ named'[c] = named[c]
      /\ Len(named[c]) = 2 /\ m # n /\ m \in Refs /\ n \in Refs
      /\ sent'[c] = <<>> /\ attempt'[c] = 0
      /\ refs[c] \in Seq(Refs)
      /\ refs'[c] = IF cool[named[c][i[c]]] = TRUE
                    THEN Append(refs[c], named[c][i[c]]) ELSE refs[c]
      /\ i[c] = 1 => i'[c] = 2 /\ pc'[c] = "cooling"
      /\ i[c] = 2 => i'[c] = 1 /\ pc'[c] = "pick"
  <2>1. "cooling" \in Asking /\ "pick" \in {"cooling", "pick"} /\ TRUE \in BOOLEAN
    BY DEF Asking
  <2>2. AskHealth(c, "cooling", TRUE, "pick")
    BY DEF KeepCooling
  <2> QED
    BY <2>1, <2>2, AskFacts, Zenon
<1>2. Len(refs'[c]) <= Len(refs[c]) + 1 /\ Len(refs'[c]) \in Nat /\ Len(refs[c]) \in Nat
  BY <1>1
<1>3. Shape(c)'
  BY <1>1, <1>2 DEF CallInv, Shape, Asking, Going
<1>4. Ordered(c)'
  <2>0. cool[m] \in BOOLEAN /\ cool[n] \in BOOLEAN
    BY <1>1 DEF TypeOK
  <2> SUFFICES ASSUME ~disturbed[c]
               PROVE  Ordered(c)'
    BY <1>1 DEF Ordered
  <2>a. /\ Append(<<>>, m) = <<m>> /\ Append(<<n>>, m) = <<n, m>>
        /\ Append(<<m>>, n) = <<m, n>>
    BY <1>1, AppendPair
  <2>1. CASE i[c] = 1
    <3>1. AfterHealthy(c)
      BY <1>1, <2>1 DEF CallInv, Ordered
    <3>2. refs'[c] = IF cool[m] THEN Append(refs[c], m) ELSE refs[c]
      BY <1>1, <2>0, <2>1
    <3>b. /\ cool[n] => refs'[c] = <<m>>
          /\ cool[m] /\ ~cool[n] => refs'[c] = <<n, m>>
          /\ ~cool[m] /\ ~cool[n] => refs'[c] = <<m, n>>
      BY <2>0, <2>a, <3>1, <3>2, Zenon DEF AfterHealthy
    <3>3. AfterFirstCooling(c)'
      BY <1>1, <3>b, Zenon DEF AfterFirstCooling
    <3> QED
      BY <1>1, <2>1, <3>3 DEF Ordered, Going
  <2>2. CASE i[c] = 2
    <3>1. AfterFirstCooling(c)
      BY <1>1, <2>2 DEF CallInv, Ordered
    <3>2. refs'[c] = IF cool[n] THEN Append(refs[c], n) ELSE refs[c]
      BY <1>1, <2>0, <2>2
    <3>3. refs'[c] = <<m, n>> \/ refs'[c] = <<n, m>>
      BY <2>0, <2>a, <3>1, <3>2, Zenon DEF AfterFirstCooling
    <3>4. named[c] = <<m, n>>
      BY <1>1, PairIs DEF TypeOK
    <3> QED
      BY <1>1, <2>2, <3>3, <3>4 DEF Ordered, Going
  <2> QED
    BY <1>1, <2>1, <2>2
<1>5. Trail(c)' /\ Settled(c)' /\ ~SentAgainAfter(c, MoveOn)' /\ Spent(c)'
  BY <1>1, NothingSent DEF Going
<1> QED
  BY <1>3, <1>4, <1>5 DEF CallInv

\* The next reference is sent to, skipped, or there is none left.
LEMMA PickKeeps ==
    ASSUME TypeOK, NEW c \in Calls, CallInv(c), Pick(c)
    PROVE  CallInv(c)'
<1>1. /\ pc[c] = "pick" /\ attempt[c] = 0 /\ attempt'[c] = 0
      /\ cool' = cool /\ disturbed' = disturbed /\ named' = named /\ refs' = refs
      /\ sent' = sent /\ credit' = credit /\ creds' = creds
      /\ i[c] \in 1..Len(refs[c]) + 1 /\ Len(refs[c]) \in Nat
  BY DEF Pick, health, CallInv, Shape, Going, TypeOK
<1>2. \/ i[c] > Len(refs[c]) /\ pc'[c] = "done" /\ i'[c] = i[c]
      \/ i[c] <= Len(refs[c]) /\ pc'[c] = "send" /\ i'[c] = i[c]
      \/ /\ i[c] <= Len(refs[c]) /\ ~Usable(c, refs[c][i[c]])
         /\ pc'[c] = "pick" /\ i'[c] = i[c] + 1
  BY <1>1 DEF Pick, TypeOK
<1>3. Shape(c)'
  BY <1>1, <1>2 DEF CallInv, Shape, Asking, Going
<1>4. Ordered(c)'
  BY <1>1, <1>2 DEF CallInv, Ordered, Going
<1>5. Trail(c)'
  <2>1. \A a \in DOMAIN sent'[c] : \E k \in 1..Len(refs'[c]) :
          /\ refs'[c][k] = sent'[c][a].ref
          /\ k <= i'[c]
          /\ sent'[c][a].outcome \in MoveOn => k < i'[c]
    BY <1>1, <1>2 DEF CallInv, Trail
  <2>2. ASSUME NEW k \in 1..Len(refs[c]), k < i'[c], Usable(c, refs[c][k])
        PROVE  \E a \in DOMAIN sent[c] : sent[c][a].ref = refs[c][k]
    BY <1>1, <1>2, <2>2 DEF CallInv, Trail, Going
  <2>3. pc'[c] = "done" => i'[c] = Len(refs[c]) + 1
    BY <1>1, <1>2
  <2>4. \A k \in 1..Len(refs'[c]) : k < i'[c] /\ Usable(c, refs[c][k])' =>
          \E a \in DOMAIN sent'[c] : sent'[c][a].ref = refs'[c][k]
    BY <1>1, <2>2 DEF Usable
  <2>5. Exhausted(c)' => i'[c] = Len(refs'[c]) + 1
    BY <1>1, <2>3 DEF Exhausted
  <2> QED
    BY <2>1, <2>4, <2>5 DEF Trail
<1>6. Spent(c)'
  <2>1. Len(sent[c]) <= Worth(i[c] - 1) + 0 /\ Len(sent[c]) \in Nat
    BY <1>1 DEF CallInv, Spent, TypeOK
  <2>2. i[c] - 1 \in Nat /\ i[c] = (i[c] - 1) + 1
    BY <1>1 DEF TypeOK
  <2>3. Worth(i[c]) = Worth(i[c] - 1) + UpstreamRetries + 1 /\ Worth(i[c] - 1) \in Nat
    BY <2>2, Rounds, Zenon
  <2>4. (i[c] + 1) - 1 = i[c] /\ UpstreamRetries \in Nat
    BY <1>1, UpstreamAssumption DEF UpstreamAssumption
  <2>5. Len(sent[c]) <= Worth(i[c]) + 0
    BY <2>1, <2>3, <2>4
  <2> QED
    BY <1>1, <1>2, <2>1, <2>4, <2>5 DEF CallInv, Spent
<1>7. Settled(c)' /\ (~disturbed[c] => ~SentAgainAfter(c, MoveOn))'
  BY <1>1 DEF CallInv, Settled, SentAgainAfter
<1> QED
  BY <1>3, <1>4, <1>5, <1>6, <1>7 DEF CallInv

\* A call nobody disturbed meets each reference once on its way.
LEMMA Distinct ==
    ASSUME TypeOK, NEW c \in Calls, Shape(c), Ordered(c), ~disturbed[c],
           pc[c] \in Going,
           NEW k \in 1..Len(refs[c]), NEW l \in 1..Len(refs[c]), k < l
    PROVE  refs[c][k] # refs[c][l]
<1>1. refs[c] \in Seq(Refs) /\ named[c] \in Seq(Refs)
  BY DEF TypeOK
<1>2. \/ Len(named[c]) = 1
      \/ Len(named[c]) = 2 /\ named[c][1] # named[c][2]
  BY DEF Shape, Going
<1>3. CASE refs[c] = named[c]
  <2>0. k \in 1..Len(named[c]) /\ l \in 1..Len(named[c])
    BY <1>3
  <2>1. k = 1 /\ l = 2 /\ Len(named[c]) = 2
    <3>1. CASE Len(named[c]) = 1
      <4>1. k \in 1..1 /\ l \in 1..1
        BY <2>0, <3>1, Zenon
      <4> QED
        BY <4>1
    <3>2. CASE Len(named[c]) = 2
      <4>1. k \in 1..2 /\ l \in 1..2
        BY <2>0, <3>2, Zenon
      <4> QED
        BY <3>2, <4>1
    <3> QED
      BY <1>2, <3>1, <3>2
  <2> QED
    BY <1>2, <1>3, <2>1
<1>4. CASE Len(named[c]) = 2 /\ refs[c] = <<named[c][2], named[c][1]>>
  <2>1. Len(refs[c]) = 2 /\ refs[c][1] = named[c][2] /\ refs[c][2] = named[c][1]
    BY <1>4
  <2>2. k = 1 /\ l = 2
    BY <2>1
  <2> QED
    BY <1>2, <1>4, <2>1, <2>2
<1> QED
  BY <1>3, <1>4 DEF Ordered

\* An attempt came back: it settles the call, or the loop goes on to the next
\* reference, or to the same one while attempts are left.
LEMMA AnswerKeeps ==
    ASSUME TypeOK, NEW c \in Calls, CallInv(c), NEW o \in Outcomes, Answered(c, o),
           disturbed'[c] = disturbed[c],
           \/ /\ o \in Final
              /\ pc'[c] = "done" /\ i'[c] = i[c] /\ attempt'[c] = attempt[c]
           \/ /\ o \notin Final
              /\ pc'[c] = "pick" /\ i'[c] = i[c] + 1 /\ attempt'[c] = 0
           \/ /\ o \in Retried
              /\ pc'[c] = "send" /\ i'[c] = i[c] /\ attempt'[c] = attempt[c] + 1
    PROVE  CallInv(c)'
<1> DEFINE r == refs[c][i[c]]
           N == Len(sent[c])
           new == [ref |-> r, outcome |-> o]
<1>1. /\ pc[c] = "send" /\ i[c] \in 1..Len(refs[c]) /\ Len(refs[c]) \in Nat
      /\ Len(refs[c]) <= 4
      /\ refs' = refs /\ named' = named /\ credit' = credit /\ creds' = creds
      /\ sent'[c] = Append(sent[c], new)
  <2>1. /\ pc[c] = "send"
        /\ refs' = refs /\ named' = named /\ credit' = credit /\ creds' = creds
        /\ sent' = [sent EXCEPT ![c] = Append(sent[c], new)]
    BY DEF Answered
  <2>2. sent'[c] = Append(sent[c], new)
    BY <2>1 DEF TypeOK
  <2>3. refs[c] \in Seq(Refs) /\ Len(refs[c]) \in Nat
    BY DEF TypeOK
  <2>4. i[c] \in 1..Len(refs[c]) /\ Len(refs[c]) <= 4
    BY <2>1, <2>3 DEF CallInv, Shape, Going
  <2> QED
    BY <2>1, <2>2, <2>3, <2>4
<1>2. r \in Refs /\ new \in Attempt /\ sent[c] \in Seq(Attempt) /\ N \in Nat
  <2>1. r \in Refs
    BY <1>1, ElementOfSeq DEF TypeOK
  <2>2. new \in Attempt
    BY <2>1 DEF Attempt
  <2>3. sent[c] \in Seq(Attempt)
    BY DEF TypeOK
  <2> QED
    BY <2>1, <2>2, <2>3
<1>3. /\ Len(sent'[c]) = N + 1 /\ DOMAIN sent'[c] = 1..N+1 /\ DOMAIN sent[c] = 1..N
      /\ \A a \in 1..N : sent'[c][a] = sent[c][a]
      /\ sent'[c][N+1] = new
  BY <1>1, <1>2, AppendProperties
<1>4. o \in MoveOn => i'[c] = i[c] + 1 /\ o \notin Final
  BY DEF MoveOn, Final, Retried
<1>5. Shape(c)'
  BY <1>1 DEF CallInv, Shape, Asking, Going
<1>6. Ordered(c)'
  BY <1>1 DEF CallInv, Ordered, Going
<1>7. Settled(c)'
  <2> SUFFICES ASSUME NEW a \in 1..N+1, sent'[c][a].outcome \in Final
               PROVE  a = N + 1 /\ pc'[c] = "done"
    BY <1>3 DEF Settled
  <2>1. CASE a \in 1..N
    BY <1>1, <1>3, <2>1 DEF CallInv, Settled
  <2>2. CASE a = N + 1
    BY <1>3, <2>2 DEF Final, Retried
  <2> QED
    BY <1>2, <2>1, <2>2
<1>8. Trail(c)'
  <2>1. ASSUME NEW a \in 1..N+1
        PROVE  \E k \in 1..Len(refs[c]) :
                 /\ refs[c][k] = sent'[c][a].ref
                 /\ k <= i'[c]
                 /\ sent'[c][a].outcome \in MoveOn => k < i'[c]
    <3>1. CASE a \in 1..N
      <4>1. PICK k \in 1..Len(refs[c]) :
              /\ refs[c][k] = sent[c][a].ref
              /\ k <= i[c]
              /\ sent[c][a].outcome \in MoveOn => k < i[c]
        BY <1>3, <3>1 DEF CallInv, Trail
      <4> QED
        BY <1>1, <1>3, <3>1, <4>1
    <3>2. CASE a = N + 1
      BY <1>1, <1>3, <1>4, <3>2
    <3> QED
      BY <1>2, <3>1, <3>2
  <2>2. ASSUME NEW k \in 1..Len(refs[c]), k < i'[c], Usable(c, refs[c][k])
        PROVE  \E a \in 1..N+1 : sent'[c][a].ref = refs[c][k]
    <3>1. CASE k < i[c]
      <4>1. PICK a \in 1..N : sent[c][a].ref = refs[c][k]
        BY <1>1, <1>3, <2>2, <3>1 DEF CallInv, Trail, Going
      <4> QED
        BY <1>2, <1>3, <4>1
    <3>2. CASE k = i[c]
      BY <1>2, <1>3, <3>2
    <3> QED
      BY <1>1, <2>2, <3>1, <3>2
  <2>3. Exhausted(c)' => i'[c] = Len(refs[c]) + 1
    BY <1>2, <1>3 DEF Exhausted
  <2>4. \A k : Usable(c, refs[c][k])' <=> Usable(c, refs[c][k])
    BY <1>1 DEF Usable
  <2> QED
    BY <1>1, <1>3, <2>1, <2>2, <2>3, <2>4 DEF Trail
<1>9. Spent(c)'
  <2>1. N <= Worth(i[c] - 1) + attempt[c] /\ attempt[c] \in 0..UpstreamRetries
    BY <1>1 DEF CallInv, Spent, TypeOK
  <2>2. i[c] - 1 \in Nat /\ i[c] = (i[c] - 1) + 1 /\ i[c] \in Nat /\ i[c] <= 4
    BY <1>1
  <2>3. /\ Worth(i[c]) = Worth(i[c] - 1) + UpstreamRetries + 1 /\ Worth(i[c] - 1) \in Nat
        /\ Worth(i[c]) <= Worth(4) /\ Worth(4) \in Nat
    BY <2>2, Rounds, Zenon
  <2>4. (i[c] + 1) - 1 = i[c] /\ UpstreamRetries \in Nat
    BY <1>1, UpstreamAssumption DEF UpstreamAssumption
  <2>5. N + 1 <= Worth(i[c]) + 0 /\ N + 1 <= Worth(4)
    BY <1>2, <2>1, <2>3, <2>4
  <2>6. N + 1 <= Worth(i[c] - 1) + (attempt[c] + 1)
    BY <1>2, <2>1, <2>3
  <2> QED
    BY <1>3, <2>4, <2>5, <2>6 DEF Spent
<1>10. (~disturbed[c] => ~SentAgainAfter(c, MoveOn))'
  <2> SUFFICES ASSUME ~disturbed[c], NEW a \in 1..N+1, NEW b \in 1..N+1, a < b,
                      sent'[c][a].ref = sent'[c][b].ref,
                      sent'[c][a].outcome \in MoveOn
               PROVE  FALSE
    BY <1>3 DEF SentAgainAfter
  <2>1. a \in 1..N
    BY <1>2
  <2>2. CASE b \in 1..N
    BY <1>3, <2>1, <2>2 DEF CallInv, SentAgainAfter
  <2>3. CASE b = N + 1
    <3>1. PICK k \in 1..Len(refs[c]) : refs[c][k] = sent[c][a].ref /\ k < i[c]
      BY <1>3, <2>1 DEF CallInv, Trail
    <3>2. refs[c][k] = refs[c][i[c]]
      BY <1>3, <2>1, <2>3, <3>1
    <3> QED
      BY <1>1, <3>1, <3>2, Distinct DEF CallInv, Going
  <2>4. b \in 1..N \/ b = N + 1
    BY <1>2
  <2> QED
    BY <2>2, <2>3, <2>4
<1> QED
  BY <1>5, <1>6, <1>7, <1>8, <1>9, <1>10 DEF CallInv

-----------------------------------------------------------------------------
\* Recording an outcome changes the record at that reference only, and marks
\* exactly the calls that were reading it there.
LEMMA RecordFacts ==
    ASSUME TypeOK, NEW r \in Refs,
           \/ recordFailure(r) \/ recordSuccess(r)
           \/ cool' = [cool EXCEPT ![r] = FALSE] /\ Disturb(r)
    PROVE  /\ \A q \in Refs \ {r} : cool'[q] = cool[q]
           /\ \A d \in Calls : disturbed'[d] =
                (disturbed[d] \/ (d \in Reading(r) /\ cool'[r] # cool[r]))
<1>1. \/ cool' = cool
      \/ cool' = [cool EXCEPT ![r] = TRUE]
      \/ cool' = [cool EXCEPT ![r] = FALSE]
  BY Zenon DEF recordFailure, recordSuccess
<1>2. \A q \in Refs \ {r} : cool'[q] = cool[q]
  BY <1>1 DEF TypeOK
<1>3. Disturb(r)
  BY Zenon DEF recordFailure, recordSuccess
<1>4. \A d \in Calls : disturbed'[d] =
         (disturbed[d] \/ (d \in Reading(r) /\ cool'[r] # cool[r]))
  BY <1>3, Zenon DEF Disturb
<1> QED
  BY <1>2, <1>4

\* An attempt of call c leaves the part of every other call alone.
LEMMA OthersUntouched ==
    ASSUME TypeOK, NEW c \in Calls, NEW d \in Calls, d # c,
           Start(c) \/ CallStep(c)
    PROVE  Untouched(d)
<1> USE DEF TypeOK, Untouched
<1>1. CASE Start(c)
  BY <1>1 DEF Start
<1>2. CASE KeepHealthy(c) \/ KeepCooling(c)
  BY <1>2 DEF KeepHealthy, KeepCooling, AskHealth
<1>3. CASE Pick(c)
  BY <1>3 DEF Pick
<1>4. CASE Succeed(c)
  BY <1>4 DEF Succeed, Answered
<1>5. ASSUME NEW o \in Outcomes, GiveUp(c, o) \/ FallThrough(c, o) \/ Retry(c, o)
      PROVE  Untouched(d)
  BY <1>5 DEF GiveUp, FallThrough, Retry, Answered
<1> QED
  BY <1>1, <1>2, <1>3, <1>4, <1>5 DEF CallStep

\* A call in the middle of an attempt is not reading the health record.
LEMMA SenderNotReading ==
    ASSUME NEW c \in Calls, pc[c] = "send", NEW r
    PROVE  c \notin Reading(r)
  BY DEF Reading

\* A call in the middle of an attempt has a reference to send it to.
LEMMA SendsToRef ==
    ASSUME IInv, NEW d \in Calls, pc[d] = "send"
    PROVE  refs[d][i[d]] \in Refs
<1>1. i[d] \in 1..Len(refs[d]) /\ refs[d] \in Seq(Refs)
  BY DEF IInv, TypeOK, CallInv, Shape, Going
<1> QED
  BY <1>1, ElementOfSeq, Zenon

\* Every step keeps the invariant of every call.
LEMMA CallStepKeeps ==
    IInv /\ [Next]_vars => \A d \in Calls : CallInv(d)'
<1> SUFFICES ASSUME IInv, [Next]_vars, NEW d \in Calls
             PROVE  CallInv(d)'
  OBVIOUS
<1>0. TypeOK /\ CallInv(d)
  BY DEF IInv
<1>b. ASSUME Untouched(d), cool' = cool, disturbed' = disturbed
      PROVE  CallInv(d)'
  <2>1. Shape(d)' /\ Spent(d)' /\ Settled(d)' /\ Ordered(d)'
    BY <1>0, <1>b DEF CallInv, Untouched, Shape, Spent, Settled, Ordered, AfterHealthy,
                      AfterFirstCooling
  <2>2. Trail(d)' /\ (~disturbed[d] => ~SentAgainAfter(d, MoveOn))'
    BY <1>0, <1>b DEF CallInv, Untouched, Trail, Usable, Exhausted, SentAgainAfter
  <2> QED
    BY <2>1, <2>2 DEF CallInv
<1>c. ASSUME Untouched(d), NEW r \in Refs,
             \/ recordFailure(r) \/ recordSuccess(r)
             \/ cool' = [cool EXCEPT ![r] = FALSE] /\ Disturb(r)
      PROVE  CallInv(d)'
  <2>1. /\ \A q \in Refs \ {r} : cool'[q] = cool[q]
        /\ disturbed'[d] = (disturbed[d] \/ (d \in Reading(r) /\ cool'[r] # cool[r]))
    BY <1>0, <1>c, RecordFacts, Zenon
  <2> QED
    BY <1>0, <1>c, <2>1, Bystander, Zenon
<1>d. ASSUME pc[d] = "send", recordFailure(refs[d][i[d]]) \/ recordSuccess(refs[d][i[d]])
      PROVE  disturbed'[d] = disturbed[d]
  <2>1. refs[d][i[d]] \in Refs /\ d \notin Reading(refs[d][i[d]])
    BY <1>d, SenderNotReading, SendsToRef
  <2>2. disturbed'[d] = (disturbed[d] \/ FALSE)
    BY <1>0, <1>d, <2>1, RecordFacts, Zenon
  <2>3. disturbed[d] \in BOOLEAN
    BY <1>0 DEF TypeOK
  <2> QED
    BY <2>2, <2>3
<1>1. ASSUME NEW c \in Calls, Start(c)
      PROVE  CallInv(d)'
  <2>1. CASE c = d
    BY <1>0, <1>1, <2>1, StartKeeps
  <2>2. CASE c # d
    <3>1. Untouched(d)
      BY <1>0, <1>1, <2>2, OthersUntouched
    <3> QED
      BY <1>b, <1>1, <3>1 DEF Start, health
  <2> QED
    BY <2>1, <2>2
<1>2. ASSUME NEW c \in Calls, KeepHealthy(c) \/ KeepCooling(c) \/ Pick(c)
      PROVE  CallInv(d)'
  <2>1. CASE c = d
    BY <1>0, <1>2, <2>1, HealthyKeeps, CoolingKeeps, PickKeeps
  <2>2. CASE c # d
    <3>1. Untouched(d)
      BY <1>0, <1>2, <2>2, OthersUntouched DEF CallStep
    <3>2. cool' = cool /\ disturbed' = disturbed
      BY <1>2 DEF KeepHealthy, KeepCooling, AskHealth, Pick, health
    <3> QED
      BY <1>b, <3>1, <3>2
  <2> QED
    BY <2>1, <2>2
<1>3. ASSUME NEW c \in Calls, Succeed(c)
      PROVE  CallInv(d)'
  <2>0. pc[c] = "send" /\ recordSuccess(refs[c][i[c]]) /\ "ok" \in Outcomes /\ Answered(c, "ok")
    BY <1>3 DEF Succeed, Answered
  <2>1. CASE c = d
    <3>1. "ok" \in Final /\ pc'[d] = "done" /\ i'[d] = i[d] /\ attempt'[d] = attempt[d]
      BY <1>0, <1>3, <2>1 DEF Succeed, Final, TypeOK
    <3>2. disturbed'[d] = disturbed[d]
      BY <1>d, <2>0, <2>1
    <3> QED
      BY <1>0, <2>0, <2>1, <3>1, <3>2, AnswerKeeps, Zenon
  <2>2. CASE c # d
    <3>1. Untouched(d)
      BY <1>0, <1>3, <2>2, OthersUntouched DEF CallStep
    <3>2. refs[c][i[c]] \in Refs
      BY <2>0, SendsToRef DEF IInv
    <3> QED
      BY <1>c, <2>0, <3>1, <3>2
  <2> QED
    BY <2>1, <2>2
<1>4. ASSUME NEW c \in Calls, NEW o \in Outcomes, GiveUp(c, o) \/ FallThrough(c, o)
      PROVE  CallInv(d)'
  <2>0. Answered(c, o) /\ cool' = cool /\ disturbed' = disturbed
    BY <1>4 DEF GiveUp, FallThrough, health
  <2>1. CASE c = d
    <3>1. \/ /\ o \in Final
             /\ pc'[d] = "done" /\ i'[d] = i[d] /\ attempt'[d] = attempt[d]
          \/ /\ o \notin Final
             /\ pc'[d] = "pick" /\ i'[d] = i[d] + 1 /\ attempt'[d] = 0
      BY <1>0, <1>4, <2>1 DEF GiveUp, FallThrough, Final, MoveOn, TypeOK
    <3> QED
      BY <1>0, <2>0, <2>1, <3>1, AnswerKeeps, Zenon
  <2>2. CASE c # d
    <3>1. Untouched(d)
      BY <1>0, <1>4, <2>2, OthersUntouched DEF CallStep
    <3> QED
      BY <1>b, <2>0, <3>1
  <2> QED
    BY <2>1, <2>2
<1>5. ASSUME NEW c \in Calls, NEW o \in Outcomes, Retry(c, o)
      PROVE  CallInv(d)'
  <2>0. pc[c] = "send" /\ recordFailure(refs[c][i[c]]) /\ Answered(c, o) /\ o \in Retried
    BY <1>5 DEF Retry, Answered
  <2>1. CASE c = d
    <3>1. \/ /\ o \notin Final
             /\ pc'[d] = "pick" /\ i'[d] = i[d] + 1 /\ attempt'[d] = 0
          \/ /\ o \in Retried
             /\ pc'[d] = "send" /\ i'[d] = i[d] /\ attempt'[d] = attempt[d] + 1
      <4>1. CASE attempt[d] < UpstreamRetries
        BY <1>0, <1>5, <2>0, <2>1, <4>1 DEF Retry, TypeOK
      <4>2. CASE ~(attempt[d] < UpstreamRetries)
        BY <1>0, <1>5, <2>0, <2>1, <4>2 DEF Retry, Final, Retried, TypeOK
      <4> QED
        BY <4>1, <4>2
    <3>2. disturbed'[d] = disturbed[d]
      BY <1>d, <2>0, <2>1
    <3> QED
      BY <1>0, <2>0, <2>1, <3>1, <3>2, AnswerKeeps, Zenon
  <2>2. CASE c # d
    <3>1. Untouched(d)
      BY <1>0, <1>5, <2>2, OthersUntouched DEF CallStep
    <3>2. refs[c][i[c]] \in Refs
      BY <2>0, SendsToRef DEF IInv
    <3> QED
      BY <1>c, <2>0, <3>1, <3>2
  <2> QED
    BY <2>1, <2>2
<1>6. ASSUME NEW r \in Refs, CooldownEnds(r) \/ PassthroughSucceeds(r)
      PROVE  CallInv(d)'
  <2>1. Untouched(d)
    BY <1>6 DEF CooldownEnds, PassthroughSucceeds, Untouched
  <2>2. recordSuccess(r) \/ (cool' = [cool EXCEPT ![r] = FALSE] /\ Disturb(r))
    BY <1>6 DEF CooldownEnds, PassthroughSucceeds
  <2> QED
    BY <1>c, <2>1, <2>2
<1>7. CASE UNCHANGED vars
  BY <1>b, <1>7 DEF vars, health, callVars, Untouched
<1> QED
  BY <1>1, <1>2, <1>3, <1>4, <1>5, <1>6, <1>7 DEF Next, CallStep

-----------------------------------------------------------------------------
\* Nothing has been asked or sent at first.
LEMMA InitHolds == Init => IInv
<1> SUFFICES ASSUME Init PROVE IInv
  OBVIOUS
<1>1. TypeOK
  <2>1. 0 \in 0..CoolingFailures-1 /\ 0 \in 0..UpstreamRetries /\ "idle" \in PCs
    BY UpstreamAssumption DEF UpstreamAssumption, PCs
  <2>2. /\ failures \in [Refs -> 0..CoolingFailures-1] /\ i \in [Calls -> Nat]
        /\ attempt \in [Calls -> 0..UpstreamRetries] /\ pc \in [Calls -> PCs]
    BY <2>1 DEF Init
  <2>3. /\ cool \in [Refs -> BOOLEAN] /\ credit \in [Calls -> BOOLEAN]
        /\ disturbed \in [Calls -> BOOLEAN] /\ creds \in [Calls -> SUBSET Refs]
    BY DEF Init
  <2>4. /\ named \in [Calls -> Seq(Refs)] /\ refs \in [Calls -> Seq(Refs)]
        /\ sent \in [Calls -> Seq(Attempt)]
    BY DEF Init
  <2> QED
    BY <2>2, <2>3, <2>4 DEF TypeOK
<1>2. ASSUME NEW c \in Calls
      PROVE  CallInv(c)
  <2>1. /\ pc[c] = "idle" /\ refs[c] = <<>> /\ sent[c] = <<>> /\ i[c] = 1
        /\ attempt[c] = 0
    BY DEF Init
  <2>2. Shape(c) /\ Ordered(c)
    BY <2>1 DEF Shape, Ordered, Asking, Going
  <2>3. Trail(c) /\ Settled(c) /\ ~SentAgainAfter(c, MoveOn)
    BY <2>1 DEF Trail, Settled, SentAgainAfter, Exhausted, Going
  <2>4. Spent(c)
    BY <2>1, Rounds DEF Spent
  <2> QED
    BY <2>2, <2>3, <2>4 DEF CallInv
<1> QED
  BY <1>1, <1>2 DEF IInv

\* The invariant is inductive.
THEOREM Invariance == Spec => []IInv
<1>1. IInv /\ [Next]_vars => IInv'
  BY TypeStep, CallStepKeeps DEF IInv
<1> QED
  BY <1>1, InitHolds, PTL DEF Spec

\* The state stays well formed: no failure count reaches the threshold, and no
\* call reads past the end of its list.
THEOREM TypeCorrect == Spec => []TypeOK
<1>1. IInv => TypeOK
  BY DEF IInv
<1> QED
  BY <1>1, Invariance, PTL

\* However the calls interleave, one call makes no more than four rounds of
\* attempts, and none after an answer that settles it.
THEOREM Bounded == Spec => []AttemptsAreBounded
<1>1. IInv => AttemptsAreBounded
  BY DEF IInv, CallInv, Spent, Settled, Worth, AttemptsAreBounded
<1> QED
  BY <1>1, Invariance, PTL

\* A call that read an unchanging health record never sends to an upstream
\* again once that upstream throttled it or timed out.
THEOREM NeverResends == Spec => []UndisturbedNeverResends
<1>1. IInv => UndisturbedNeverResends
  BY DEF IInv, CallInv, UndisturbedNeverResends
<1> QED
  BY <1>1, Invariance, PTL

\* Such a call fails only after every upstream it may use was tried, also the
\* ones put aside.
THEOREM TriesEvery == Spec => []UndisturbedTriesEvery
<1>1. ASSUME IInv, NEW c \in Calls, Exhausted(c), ~disturbed[c],
             NEW k \in DOMAIN named[c], Usable(c, named[c][k])
      PROVE  \E a \in DOMAIN sent[c] : sent[c][a].ref = named[c][k]
  <2>0. CallInv(c) /\ named[c] \in Seq(Refs) /\ refs[c] \in Seq(Refs) /\ pc[c] = "done"
    BY <1>1 DEF IInv, TypeOK, Exhausted
  <2>1. i[c] = Len(refs[c]) + 1
    BY <1>1, <2>0 DEF CallInv, Trail
  <2>2. \A j \in 1..Len(refs[c]) : Usable(c, refs[c][j]) =>
          \E a \in DOMAIN sent[c] : sent[c][a].ref = refs[c][j]
    BY <2>0, <2>1 DEF CallInv, Trail, Going
  <2>3. \E j \in 1..Len(refs[c]) : refs[c][j] = named[c][k]
    <3>1. CASE refs[c] = named[c]
      BY <2>0, <3>1
    <3>2. CASE Len(named[c]) = 2 /\ refs[c] = <<named[c][2], named[c][1]>>
      <4>1. Len(refs[c]) = 2 /\ refs[c][1] = named[c][2] /\ refs[c][2] = named[c][1]
        BY <3>2
      <4>2. k = 1 \/ k = 2
        BY <2>0, <3>2
      <4> QED
        BY <4>1, <4>2
    <3> QED
      BY <1>1, <2>0, <3>1, <3>2 DEF CallInv, Ordered, Going
  <2> QED
    BY <1>1, <2>2, <2>3
<1>2. IInv => UndisturbedTriesEvery
  BY <1>1 DEF UndisturbedTriesEvery, TriedEvery
<1> QED
  BY <1>2, Invariance, PTL
=============================================================================
