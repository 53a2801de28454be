--------------------------- MODULE Server_proofs ---------------------------
(***************************************************************************)
(* Proofs about the request handlers, for any number of requests and       *)
(* documents and any sizes of the pools.                                   *)
(*                                                                         *)
(* What a handler holds, has recorded and was charged follows from where   *)
(* it is and from the document it read first (Fate).  A handler touches    *)
(* nobody's record but its own, so one step of one handler is described    *)
(* once (Turn), together with what it does to each pool (Moves), and both  *)
(* the invariants and the three refinements follow from that description.  *)
(***************************************************************************)
EXTENDS Server, FiniteSetTheorems, WellFoundedInduction, TLAPS

Places == {"new", "slot", "length", "body", "limits", "shape", "call", "relay",
           "answer", "write", "returning", "done"}

Handler ==
    [surface: Completions \cup Routes, pc: Places, view: Nat, keyID: BOOLEAN,
     inFlight: BOOLEAN, large: BOOLEAN, admitted: BOOLEAN,
     status: Statuses \cup {""}, answered: BOOLEAN, streamed: BOOLEAN,
     named: BOOLEAN, capture: BOOLEAN, spent: Nat, charges: Nat, cost: BOOLEAN,
     lookup: {"no", "pending", "done"}, filled: Nat, missed: Nat, events: Nat]

Types ==
    /\ size \in [inFlight: Nat \ {0}, chat: Nat, pass: Nat]
    /\ docs \in Seq(Document) /\ Len(docs) > 0
    /\ h \in [Requests -> Handler]
    /\ inFlight \in Int /\ chatLarge \in Int /\ passLarge \in Int

-----------------------------------------------------------------------------
(* What is true of a handler hd that is judged by the document d.          *)

metered(hd, d) == hd.surface = "chat" /\ d.axis = "token"

\* Nothing was recorded, charged or offered yet.
Unsettled(hd) ==
    /\ hd.events = 0 /\ hd.charges = 0 /\ hd.lookup = "no" /\ ~hd.capture
    /\ ~hd.cost /\ hd.filled = 0 /\ hd.missed = 0

\* Nothing is held or spent yet.
Unspent(hd) == hd.spent = 0 /\ ~hd.admitted

Fresh(hd) ==
    /\ Unsettled(hd) /\ Unspent(hd)
    /\ ~hd.inFlight /\ ~hd.large /\ ~hd.answered /\ ~hd.streamed

\* The checks before the body.
Entered(hd, d) ==
    /\ d.enabled /\ d.key = "active" /\ d.grant
    /\ hd.surface \in Routes => d.credential = "held"

\* The checks of the body, on the surfaces that read one.
Granted(hd, d) ==
    /\ readsBody(hd.surface) => d.allowed
    /\ hd.surface \in Completions =>
          /\ d.axis = "token" => hd.surface = "chat"
          /\ d.axis = "credit" => d.credential = "held"

\* The limiter and the quota, on the axis that has them.
Metered(hd, d) ==
    IF metered(hd, d) THEN hd.spent = 1 /\ ~d.quota ELSE Unspent(hd)

\* A handler that has not recorded yet, by where it is.
Working(hd, d) ==
    /\ Unsettled(hd) /\ Entered(hd, d)
    /\ hd.pc = "slot" => ~hd.inFlight
    /\ hd.pc \in {"slot", "length"} => ~hd.large
    /\ hd.pc \in {"slot", "length", "body", "limits"} => Unspent(hd)
    /\ hd.pc \in {"limits", "shape", "call", "relay", "answer", "write"} => Granted(hd, d)
    /\ hd.pc = "limits" => metered(hd, d)
    /\ hd.pc \in {"shape", "call", "relay", "answer", "write"} => Metered(hd, d)
    /\ hd.pc = "answer" /\ hd.surface \in Completions => ~hd.large
    /\ hd.answered <=> hd.pc \in {"relay", "answer", "write"}
    /\ hd.streamed <=> hd.pc = "relay"
    /\ hd.pc = "relay" => hd.surface \in Completions

\* An answer that ended with the status st names its generation and lacks a
\* price: it has to be looked up, or counted.
Owes(hd, d, st) ==
    /\ hd.answered /\ hd.named /\ ~hd.cost
    /\ MayLackPrice([streamed |-> hd.streamed, surface |-> hd.surface, status |-> st], d)

\* What the books of a handler say before and after its event.
Booked(hd, d) ==
    /\ hd.charges = IF metered(hd, d) /\ hd.answered THEN 1 ELSE 0
    /\ hd.spent \in {0, 1}
    /\ hd.spent = 1 => metered(hd, d) /\ Entered(hd, d) /\ Granted(hd, d)
    /\ hd.answered => Entered(hd, d) /\ Granted(hd, d)
    /\ hd.answered /\ metered(hd, d) => ~d.quota
    /\ hd.capture => d.record

\* What they say of its price: a lookup is pending, filled it in or was counted
\* as missing, each only where the price is owed.
Priced(hd, d) ==
    CASE hd.lookup = "pending" -> Owes(hd, d, hd.status) /\ hd.filled = 0 /\ hd.missed = 0
      [] hd.lookup = "no" -> hd.filled = 0 /\ hd.missed = IF Owes(hd, d, hd.status) THEN 1 ELSE 0
      [] hd.lookup = "done" ->
            /\ hd.answered /\ hd.named /\ MayLackPrice(hd, d)
            /\ IF hd.cost THEN hd.filled = 1 /\ hd.missed = 0
               ELSE hd.filled = 0 /\ hd.missed = 1

\* A handler that has recorded, or left it to the lookup of the price.
Settled(hd, d) ==
    /\ hd.events = IF hd.lookup = "pending" THEN 0 ELSE Spools(hd, hd.status)
    /\ Booked(hd, d) /\ Priced(hd, d)

Judged(hd, d) ==
    IF hd.pc \in {"returning", "done"} THEN Settled(hd, d) ELSE Working(hd, d)

Fate(hd, ds) ==
    IF hd.pc = "new" THEN Fresh(hd)
    ELSE hd.view \in 1..Len(ds) /\ Judged(hd, ds[hd.view])

Admitted == {r \in Requests : h[r].admitted}

\* The inductive invariant.
IInv ==
    /\ Types
    /\ \A r \in Requests : Fate(h[r], docs)
    /\ running = Cardinality(Admitted)

-----------------------------------------------------------------------------
(* FirstOf: a list of checks passes only if none of its conditions holds.  *)

LEMMA FirstIs ==
    ASSUME NEW hits, hits \subseteq Nat, hits # {}
    PROVE  (CHOOSE i \in hits : \A j \in hits : i <= j) \in hits
  <1> DEFINE R == {ss \in Nat \X Nat : ss[1] < ss[2]}
  <1>1. IsWellFoundedOn(R, Nat)
    BY NatLessThanWellFounded, Zenon DEF OpToRel
  <1>2. \E i \in hits : \A j \in hits : ~(<<j, i>> \in R)
    <2> HIDE DEF R
    <2>q. QED BY <1>1, WFMin
  <1>3. \A i, j \in Nat : j < i => <<j, i>> \in R
    OBVIOUS
  <1>4. \E i \in hits : \A j \in hits : i <= j
    <2>1. PICK i \in hits : \A j \in hits : ~(<<j, i>> \in R)
      BY <1>2
    <2>2. \A j \in hits : i <= j
      <3> TAKE j \in hits
      <3>1. i \in Nat /\ j \in Nat
        OBVIOUS
      <3>2. ~(<<j, i>> \in R)
        BY <2>1
      <3> HIDE DEF R
      <3>3. ~(j < i)
        BY <3>1, <3>2, <1>3
      <3>q. QED BY <3>1, <3>3
    <2>q. QED BY <2>2
  <1>q. QED
    BY <1>4

LEMMA NoneOf ==
    ASSUME NEW checks, NEW n \in Nat, Len(checks) = n,
           \A i \in 1..n : checks[i][2] => checks[i][1] # "none",
           FirstOf(checks) = "none"
    PROVE  \A i \in 1..n : ~checks[i][2]
  <1> DEFINE hits == {i \in 1..Len(checks) : checks[i][2]}
             first == CHOOSE i \in hits : \A j \in hits : i <= j
  <1>1. CASE hits = {}
    BY <1>1
  <1>2. CASE hits # {}
    <2>1. hits \subseteq Nat
      OBVIOUS
    <2>2. first \in hits
      BY <1>2, <2>1, FirstIs
    <2>3. FirstOf(checks) = checks[first][1]
      BY <1>2 DEF FirstOf
    <2>q. QED
      BY <2>2, <2>3
  <1>q. QED
    BY <1>1, <1>2

LEMMA PreamblePasses ==
    ASSUME NEW d \in Document, NEW missing, Preamble(d, missing) = "none"
    PROVE /\ d.enabled /\ ~missing /\ d.key = "active" /\ d.grant
  <1> DEFINE cs == <<
        <<"service_disabled", ~d.enabled>>,
        <<"missing_key", missing>>,
        <<"invalid_key", d.key = "unknown">>,
        <<"key_inactive", d.key = "inactive">>,
        <<"endpoint_not_allowed", ~d.grant>>,
        <<"quota_exhausted", d.quota /\ d.credential # "held">> >>
  <1>1. FirstOf(cs) = "none" /\ Len(cs) = 6 /\ \A i \in 1..6 : cs[i][1] # "none"
    BY DEF Preamble
  <1>2. ~cs[1][2] /\ ~cs[2][2] /\ ~cs[3][2] /\ ~cs[4][2] /\ ~cs[5][2]
    <2> HIDE DEF cs
    <2>1. \A i \in 1..6 : ~cs[i][2]
      BY <1>1, NoneOf
    <2>q. QED BY <2>1
  <1>3. d.enabled /\ ~missing /\ d.key # "unknown" /\ d.key # "inactive" /\ d.grant
    BY <1>2
  <1>q. QED BY <1>3 DEF Document

LEMMA PassPreamblePasses ==
    ASSUME NEW d \in Document, NEW missing, PassPreamble(d, missing) = "none"
    PROVE  /\ d.enabled /\ ~missing /\ d.key = "active" /\ d.grant
           /\ d.credential = "held"
  <1> DEFINE cs == <<
        <<"service_disabled", ~d.enabled>>,
        <<"missing_key", missing>>,
        <<"invalid_key", d.key = "unknown">>,
        <<"key_inactive", d.key = "inactive">>,
        <<"endpoint_not_allowed", ~d.grant>>,
        <<"no_passthrough_ref", ~d.passthroughRef>>,
        <<"credit_pending", d.credential = "pending">>,
        <<"credit_unavailable", d.credential = "none">> >>
  <1>1. FirstOf(cs) = "none" /\ Len(cs) = 8 /\ \A i \in 1..8 : cs[i][1] # "none"
    BY DEF PassPreamble
  <1>2. /\ ~cs[1][2] /\ ~cs[2][2] /\ ~cs[3][2] /\ ~cs[4][2] /\ ~cs[5][2]
        /\ ~cs[7][2] /\ ~cs[8][2]
    <2> HIDE DEF cs
    <2>1. \A i \in 1..8 : ~cs[i][2]
      BY <1>1, NoneOf
    <2>q. QED BY <2>1
  <1>3. /\ d.enabled /\ ~missing /\ d.key # "unknown" /\ d.key # "inactive" /\ d.grant
        /\ d.credential # "pending" /\ d.credential # "none"
    BY <1>2
  <1>4. d.credential \in {"none", "pending", "held"}
    BY DEF Document
  <1>5. d.key \in {"unknown", "inactive", "active"}
    BY DEF Document
  <1>q. QED BY <1>3, <1>4, <1>5

LEMMA BodyPasses ==
    ASSUME NEW d \in Document, NEW sf, NEW fault, BodyChecks(d, sf, fault) = "none"
    PROVE  /\ d.allowed
           /\ d.axis = "token" => sf = "chat"
           /\ d.axis = "credit" => d.credential = "held"
  <1> DEFINE cs == <<
        <<fault, fault \in {"request_body_read_failed", "malformed"}>>,
        <<"model_not_on_surface", d.axis = "token" /\ creditOnly(sf)>>,
        <<fault, d.axis = "token" /\ fault = "closed_to_axis">>,
        <<"model_not_allowed", ~d.allowed>>,
        <<fault, d.axis = "credit" /\ fault = "closed_to_axis">>,
        <<"credit_pending", d.axis = "credit" /\ d.credential = "pending">>,
        <<"credit_unavailable", d.axis = "credit" /\ d.credential = "none">> >>
  <1>1. FirstOf(cs) = "none" /\ Len(cs) = 7
    BY DEF BodyChecks
  <1>2. \A i \in 1..7 : cs[i][2] => cs[i][1] # "none"
    <2>1. /\ cs[1][2] => cs[1][1] # "none"
          /\ cs[2][2] => cs[2][1] # "none"
          /\ cs[3][2] => cs[3][1] # "none"
          /\ cs[4][2] => cs[4][1] # "none"
          /\ cs[5][2] => cs[5][1] # "none"
          /\ cs[6][2] => cs[6][1] # "none"
          /\ cs[7][2] => cs[7][1] # "none"
      OBVIOUS
    <2> HIDE DEF cs
    <2>q. QED BY <2>1
  <1>3. ~cs[2][2] /\ ~cs[4][2] /\ ~cs[6][2] /\ ~cs[7][2]
    <2> HIDE DEF cs
    <2>1. \A i \in 1..7 : ~cs[i][2]
      BY <1>1, <1>2, NoneOf
    <2>q. QED BY <2>1
  <1>4. /\ d.allowed
        /\ ~(d.axis = "token" /\ creditOnly(sf))
        /\ ~(d.axis = "credit" /\ d.credential = "pending")
        /\ ~(d.axis = "credit" /\ d.credential = "none")
    BY <1>3
  <1>5. d.credential \in {"none", "pending", "held"}
    BY DEF Document
  <1>q. QED BY <1>4, <1>5 DEF creditOnly

LEMMA PassBodyPasses ==
    ASSUME NEW d, NEW fault, PassBodyChecks(d, fault) = "none"
    PROVE  d.allowed
  <1> DEFINE cs == <<
        <<fault, fault = "malformed">>,
        <<"model_not_allowed", ~d.allowed>>,
        <<fault, fault = "closed_to_axis">> >>
  <1>1. FirstOf(cs) = "none" /\ Len(cs) = 3
    BY DEF PassBodyChecks
  <1>2. \A i \in 1..3 : cs[i][2] => cs[i][1] # "none"
    <2>1. /\ cs[1][2] => cs[1][1] # "none"
          /\ cs[2][2] => cs[2][1] # "none"
          /\ cs[3][2] => cs[3][1] # "none"
      OBVIOUS
    <2> HIDE DEF cs
    <2>q. QED BY <2>1
  <1>3. ~cs[2][2]
    <2> HIDE DEF cs
    <2>1. \A i \in 1..3 : ~cs[i][2]
      BY <1>1, <1>2, NoneOf
    <2>q. QED BY <2>1
  <1>q. QED BY <1>3

-----------------------------------------------------------------------------
(* The fields of a handler, and what each kind of update leaves alone.     *)

SameRequest(g, hd) == g.surface = hd.surface /\ g.view = hd.view /\ g.keyID = hd.keyID

SameHolds(g, hd) ==
    g.inFlight = hd.inFlight /\ g.large = hd.large /\ g.admitted = hd.admitted

SameLedger(g, hd) ==
    /\ g.status = hd.status /\ g.capture = hd.capture /\ g.spent = hd.spent
    /\ g.charges = hd.charges /\ g.lookup = hd.lookup /\ g.events = hd.events
    /\ g.cost = hd.cost /\ g.filled = hd.filled /\ g.missed = hd.missed
    /\ g.streamed = hd.streamed /\ g.named = hd.named

\* The part of the books that is about the price.
SamePrice(g, hd) ==
    /\ g.cost = hd.cost /\ g.filled = hd.filled /\ g.missed = hd.missed
    /\ g.streamed = hd.streamed /\ g.named = hd.named

LEMMA HandlerFields ==
    ASSUME NEW hd \in Handler
    PROVE  /\ hd.surface \in Completions \cup Routes /\ hd.pc \in Places
           /\ hd.view \in Nat /\ hd.spent \in Nat /\ hd.charges \in Nat /\ hd.events \in Nat
           /\ hd.cost \in BOOLEAN /\ hd.streamed \in BOOLEAN /\ hd.named \in BOOLEAN
           /\ hd.filled \in Nat /\ hd.missed \in Nat
           /\ hd.lookup \in {"no", "pending", "done"}
           /\ hd.inFlight \in BOOLEAN /\ hd.large \in BOOLEAN /\ hd.admitted \in BOOLEAN
           /\ hd.keyID \in BOOLEAN /\ hd.answered \in BOOLEAN /\ hd.capture \in BOOLEAN
  <1>1. hd.surface \in Completions \cup Routes /\ hd.pc \in Places
    BY DEF Handler
  <1>2. hd.view \in Nat /\ hd.spent \in Nat /\ hd.charges \in Nat /\ hd.events \in Nat
    BY DEF Handler
  <1>3. hd.inFlight \in BOOLEAN /\ hd.large \in BOOLEAN /\ hd.admitted \in BOOLEAN
    BY DEF Handler
  <1>4. hd.keyID \in BOOLEAN /\ hd.answered \in BOOLEAN /\ hd.capture \in BOOLEAN
    BY DEF Handler
  <1>5. hd.cost \in BOOLEAN /\ hd.streamed \in BOOLEAN /\ hd.named \in BOOLEAN
    BY DEF Handler
  <1>6. hd.filled \in Nat /\ hd.missed \in Nat /\ hd.lookup \in {"no", "pending", "done"}
    BY DEF Handler
  <1>q. QED BY <1>1, <1>2, <1>3, <1>4, <1>5, <1>6

LEMMA StatusIn == \A code : StatusOf(code) \in Statuses
  BY DEF StatusOf, Statuses

LEMMA Moved ==
    ASSUME NEW hd \in Handler, NEW p \in Places
    PROVE  LET g == [hd EXCEPT !.pc = p]
           IN  /\ g \in Handler
               /\ g.pc = p /\ g.answered = hd.answered
               /\ SameRequest(g, hd) /\ SameHolds(g, hd) /\ SameLedger(g, hd)
  <1> DEFINE g == [hd EXCEPT !.pc = p]
  <1>1. g \in Handler
    BY DEF Handler, Places
  <1>2. /\ g.pc = p /\ g.answered = hd.answered
    BY DEF Handler
  <1>3. /\ SameRequest(g, hd) /\ SameHolds(g, hd) /\ SameLedger(g, hd)
    BY DEF Handler, SameRequest, SameHolds, SameLedger
  <1>q. QED BY <1>1, <1>2, <1>3

LEMMA TookInFlight ==
    ASSUME NEW hd \in Handler, NEW p \in Places
    PROVE  LET g == [hd EXCEPT !.pc = p, !.inFlight = TRUE]
           IN  /\ g \in Handler
               /\ g.pc = p /\ g.inFlight = TRUE /\ g.large = hd.large
               /\ g.admitted = hd.admitted /\ g.answered = hd.answered
               /\ SameRequest(g, hd) /\ SameLedger(g, hd)
  <1> DEFINE g == [hd EXCEPT !.pc = p, !.inFlight = TRUE]
  <1>1. g \in Handler
    BY DEF Handler, Places
  <1>2. /\ g.pc = p /\ g.inFlight = TRUE /\ g.large = hd.large
        /\ g.admitted = hd.admitted /\ g.answered = hd.answered
    BY DEF Handler
  <1>3. /\ SameRequest(g, hd) /\ SameLedger(g, hd)
    BY DEF Handler, SameRequest, SameLedger
  <1>q. QED BY <1>1, <1>2, <1>3

LEMMA TookLarge ==
    ASSUME NEW hd \in Handler, NEW p \in Places
    PROVE  LET g == [hd EXCEPT !.pc = p, !.large = TRUE]
           IN  /\ g \in Handler
               /\ g.pc = p /\ g.large = TRUE /\ g.inFlight = hd.inFlight
               /\ g.admitted = hd.admitted /\ g.answered = hd.answered
               /\ SameRequest(g, hd) /\ SameLedger(g, hd)
  <1> DEFINE g == [hd EXCEPT !.pc = p, !.large = TRUE]
  <1>1. g \in Handler
    BY DEF Handler, Places
  <1>2. /\ g.pc = p /\ g.large = TRUE /\ g.inFlight = hd.inFlight
        /\ g.admitted = hd.admitted /\ g.answered = hd.answered
    BY DEF Handler
  <1>3. /\ SameRequest(g, hd) /\ SameLedger(g, hd)
    BY DEF Handler, SameRequest, SameLedger
  <1>q. QED BY <1>1, <1>2, <1>3

LEMMA HoldsLarge ==
    ASSUME NEW hd \in Handler
    PROVE  LET g == [hd EXCEPT !.large = TRUE]
           IN  /\ g \in Handler
               /\ g.large = TRUE /\ g.inFlight = hd.inFlight
               /\ g.admitted = hd.admitted /\ g.answered = hd.answered
               /\ g.pc = hd.pc
               /\ SameRequest(g, hd) /\ SameLedger(g, hd)
  <1> DEFINE g == [hd EXCEPT !.large = TRUE]
  <1>1. g \in Handler
    BY DEF Handler, Places
  <1>2. /\ g.large = TRUE /\ g.inFlight = hd.inFlight
        /\ g.admitted = hd.admitted /\ g.answered = hd.answered
        /\ g.pc = hd.pc
    BY DEF Handler
  <1>3. /\ SameRequest(g, hd) /\ SameLedger(g, hd)
    BY DEF Handler, SameRequest, SameLedger
  <1>q. QED BY <1>1, <1>2, <1>3

LEMMA WasAdmitted ==
    ASSUME NEW hd \in Handler, NEW n \in Nat
    PROVE  LET g == [hd EXCEPT !.spent = n, !.admitted = TRUE]
           IN  /\ g \in Handler
               /\ g.spent = n /\ g.admitted = TRUE /\ g.inFlight = hd.inFlight
               /\ g.large = hd.large /\ g.status = hd.status
               /\ g.capture = hd.capture /\ g.charges = hd.charges
               /\ g.lookup = hd.lookup /\ g.events = hd.events
               /\ g.answered = hd.answered /\ g.pc = hd.pc
               /\ SameRequest(g, hd) /\ SamePrice(g, hd)
  <1> DEFINE g == [hd EXCEPT !.spent = n, !.admitted = TRUE]
  <1>1. g \in Handler
    BY DEF Handler, Places
  <1>2. /\ g.spent = n /\ g.admitted = TRUE /\ g.inFlight = hd.inFlight
        /\ g.large = hd.large /\ g.status = hd.status
        /\ g.capture = hd.capture /\ g.charges = hd.charges
        /\ g.lookup = hd.lookup /\ g.events = hd.events
        /\ g.answered = hd.answered /\ g.pc = hd.pc
    BY DEF Handler
  <1>3. /\ SameRequest(g, hd)
    BY DEF Handler, SameRequest
  <1>4. SamePrice(g, hd)
    BY DEF Handler, SamePrice
  <1>q. QED BY <1>1, <1>2, <1>3, <1>4

LEMMA WasCharged ==
    ASSUME NEW hd \in Handler, NEW n \in Nat
    PROVE  LET g == [hd EXCEPT !.charges = n]
           IN  /\ g \in Handler
               /\ g.charges = n /\ g.status = hd.status /\ g.capture = hd.capture
               /\ g.spent = hd.spent /\ g.lookup = hd.lookup
               /\ g.events = hd.events /\ g.answered = hd.answered
               /\ g.pc = hd.pc
               /\ SameRequest(g, hd) /\ SameHolds(g, hd) /\ SamePrice(g, hd)
  <1> DEFINE g == [hd EXCEPT !.charges = n]
  <1>1. g \in Handler
    BY DEF Handler, Places
  <1>2. /\ g.charges = n /\ g.status = hd.status /\ g.capture = hd.capture
        /\ g.spent = hd.spent /\ g.lookup = hd.lookup
        /\ g.events = hd.events /\ g.answered = hd.answered
        /\ g.pc = hd.pc
    BY DEF Handler
  <1>3. /\ SameRequest(g, hd) /\ SameHolds(g, hd)
    BY DEF Handler, SameRequest, SameHolds
  <1>4. SamePrice(g, hd)
    BY DEF Handler, SamePrice
  <1>q. QED BY <1>1, <1>2, <1>3, <1>4

LEMMA WasMissed ==
    ASSUME NEW hd \in Handler, NEW n \in Nat
    PROVE  LET g == [hd EXCEPT !.missed = n]
           IN  /\ g \in Handler
               /\ g.missed = n /\ g.filled = hd.filled /\ g.cost = hd.cost
               /\ g.charges = hd.charges /\ g.capture = hd.capture
               /\ g.spent = hd.spent /\ g.lookup = hd.lookup
               /\ g.events = hd.events /\ g.answered = hd.answered
               /\ g.streamed = hd.streamed /\ g.named = hd.named
               /\ SameRequest(g, hd) /\ SameHolds(g, hd)
  <1> DEFINE g == [hd EXCEPT !.missed = n]
  <1>1. g \in Handler
    BY DEF Handler, Places
  <1>2. /\ g.missed = n /\ g.filled = hd.filled /\ g.cost = hd.cost
        /\ g.charges = hd.charges /\ g.capture = hd.capture
        /\ g.spent = hd.spent /\ g.lookup = hd.lookup
    BY DEF Handler
  <1>3. /\ g.events = hd.events /\ g.answered = hd.answered
        /\ g.streamed = hd.streamed /\ g.named = hd.named
    BY DEF Handler
  <1>4. SameRequest(g, hd) /\ SameHolds(g, hd)
    BY DEF Handler, SameRequest, SameHolds
  <1>q. QED BY <1>1, <1>2, <1>3, <1>4

LEMMA WasPostponed ==
    ASSUME NEW hd \in Handler, NEW st \in Statuses
    PROVE  LET g == [hd EXCEPT !.pc = "returning", !.lookup = "pending", !.status = st]
           IN  /\ g \in Handler
               /\ g.pc = "returning" /\ g.lookup = "pending" /\ g.status = st
               /\ g.capture = hd.capture /\ g.spent = hd.spent
               /\ g.charges = hd.charges /\ g.events = hd.events
               /\ g.answered = hd.answered
               /\ SameRequest(g, hd) /\ SameHolds(g, hd) /\ SamePrice(g, hd)
  <1> DEFINE g == [hd EXCEPT !.pc = "returning", !.lookup = "pending", !.status = st]
  <1>1. g \in Handler
    BY DEF Handler, Places
  <1>2. /\ g.pc = "returning" /\ g.lookup = "pending" /\ g.status = st
        /\ g.capture = hd.capture /\ g.spent = hd.spent
        /\ g.charges = hd.charges /\ g.events = hd.events
        /\ g.answered = hd.answered
    BY DEF Handler
  <1>3. SameRequest(g, hd) /\ SameHolds(g, hd)
    BY DEF Handler, SameRequest, SameHolds
  <1>4. SamePrice(g, hd)
    BY DEF Handler, SamePrice
  <1>q. QED BY <1>1, <1>2, <1>3, <1>4

LEMMA HasReturned ==
    ASSUME NEW hd \in Handler
    PROVE  LET g == [hd EXCEPT !.pc = "done", !.inFlight = FALSE, !.large = FALSE, !.admitted = FALSE]
           IN  /\ g \in Handler
               /\ g.pc = "done" /\ g.inFlight = FALSE /\ g.large = FALSE
               /\ g.admitted = FALSE /\ g.answered = hd.answered
               /\ SameRequest(g, hd) /\ SameLedger(g, hd)
  <1> DEFINE g == [hd EXCEPT !.pc = "done", !.inFlight = FALSE, !.large = FALSE, !.admitted = FALSE]
  <1>1. g \in Handler
    BY DEF Handler, Places
  <1>2. /\ g.pc = "done" /\ g.inFlight = FALSE /\ g.large = FALSE
        /\ g.admitted = FALSE /\ g.answered = hd.answered
    BY DEF Handler
  <1>3. /\ SameRequest(g, hd) /\ SameLedger(g, hd)
    BY DEF Handler, SameRequest, SameLedger
  <1>q. QED BY <1>1, <1>2, <1>3

-----------------------------------------------------------------------------
(* Recording settles a handler whose books are in order.                   *)

\* Settled, but for the event.
Ripe(hd, d, st) ==
    /\ hd.events = 0 /\ hd.lookup = "no" /\ Booked(hd, d)
    /\ hd.filled = 0 /\ hd.missed = IF Owes(hd, d, st) THEN 1 ELSE 0

\* What the books and the debt say of a handler is said of its parts.
LEMMA SameBooks ==
    ASSUME NEW g, NEW hd, NEW d, g.surface = hd.surface, g.answered = hd.answered,
           g.charges = hd.charges, g.spent = hd.spent, g.capture = hd.capture
    PROVE  Booked(g, d) <=> Booked(hd, d)
  BY DEF Booked, metered, Entered, Granted

LEMMA SameDebt ==
    ASSUME NEW g, NEW hd, NEW d, NEW st, g.surface = hd.surface,
           g.answered = hd.answered, g.cost = hd.cost, g.named = hd.named,
           g.streamed = hd.streamed
    PROVE  Owes(g, d, st) <=> Owes(hd, d, st)
  BY DEF Owes, MayLackPrice

LEMMA RecordedIs ==
    ASSUME NEW hd \in Handler, NEW code, NEW d, Ripe(hd, d, StatusOf(code))
    PROVE  LET g == Recorded(hd, code)
           IN  /\ g \in Handler /\ g.pc = "returning" /\ Settled(g, d)
               /\ SameRequest(g, hd) /\ SameHolds(g, hd)
  <1> DEFINE st == StatusOf(code)
             n == hd.events + Spools(hd, st)
             g == [hd EXCEPT !.pc = "returning", !.status = st, !.events = n]
  <1>1. st \in Statuses
    BY StatusIn
  <1>2. Spools(hd, st) \in {0, 1} /\ hd.events = 0
    BY DEF Spools, Ripe
  <1>3. n \in Nat /\ n = Spools(hd, st)
    BY <1>2
  <1>4. Recorded(hd, code) = g
    BY DEF Recorded
  <1>5. /\ g \in Handler /\ g.pc = "returning" /\ g.status = st /\ g.events = n
        /\ g.capture = hd.capture /\ g.spent = hd.spent /\ g.charges = hd.charges
        /\ g.lookup = hd.lookup /\ g.answered = hd.answered
        /\ SameRequest(g, hd) /\ SameHolds(g, hd) /\ SamePrice(g, hd)
    <2>1. st \in Statuses /\ n \in Nat
      BY <1>1, <1>3
    <2> HIDE DEF st, n
    <2>2. g \in Handler
      BY <2>1 DEF Handler, Places
    <2>3. /\ g.pc = "returning" /\ g.status = st /\ g.events = n
          /\ g.capture = hd.capture /\ g.spent = hd.spent /\ g.charges = hd.charges
          /\ g.lookup = hd.lookup /\ g.answered = hd.answered
      BY DEF Handler
    <2>4. SameRequest(g, hd) /\ SameHolds(g, hd)
      BY DEF Handler, SameRequest, SameHolds
    <2>5. SamePrice(g, hd)
      BY DEF Handler, SamePrice
    <2>q. QED BY <2>2, <2>3, <2>4, <2>5
  <1> HIDE DEF g, n
  <1>6. g.surface = hd.surface /\ g.keyID = hd.keyID
    BY <1>5 DEF SameRequest
  <1>7. Spools(g, g.status) = n
    BY <1>3, <1>5, <1>6 DEF Spools
  <1>8. Ripe(hd, d, st)
    OBVIOUS
  <1> HIDE DEF st
  <1>9. Booked(g, d)
    BY <1>5, <1>6, <1>8, SameBooks DEF Ripe
  <1>10. Owes(g, d, g.status) <=> Owes(hd, d, st)
    <2>1. Owes(g, d, st) <=> Owes(hd, d, st)
      BY <1>5, <1>6, SameDebt DEF SamePrice
    <2>q. QED BY <1>5, <2>1
  <1>11. Priced(g, d)
    BY <1>5, <1>8, <1>10 DEF Priced, SamePrice, Ripe
  <1>12. Settled(g, d)
    BY <1>5, <1>7, <1>8, <1>9, <1>11 DEF Settled, Ripe
  <1>q. QED BY <1>4, <1>5, <1>12

LEMMA PostponedIs ==
    ASSUME NEW hd \in Handler, NEW code, NEW d, Booked(hd, d), hd.events = 0,
           hd.filled = 0, hd.missed = 0, Owes(hd, d, StatusOf(code))
    PROVE  LET g == [hd EXCEPT !.pc = "returning", !.lookup = "pending",
                               !.status = StatusOf(code)]
           IN  /\ g \in Handler /\ g.pc = "returning" /\ Settled(g, d)
               /\ SameRequest(g, hd) /\ SameHolds(g, hd)
  <1> DEFINE st == StatusOf(code)
             g == [hd EXCEPT !.pc = "returning", !.lookup = "pending", !.status = st]
  <1>1. st \in Statuses
    BY StatusIn
  <1>2. Owes(hd, d, st)
    OBVIOUS
  <1> HIDE DEF st
  <1>3. /\ g \in Handler /\ g.pc = "returning" /\ g.lookup = "pending" /\ g.status = st
        /\ g.capture = hd.capture /\ g.spent = hd.spent /\ g.charges = hd.charges
        /\ g.events = hd.events /\ g.answered = hd.answered
        /\ SameRequest(g, hd) /\ SameHolds(g, hd) /\ SamePrice(g, hd)
    BY <1>1, WasPostponed
  <1> HIDE DEF g
  <1>4. g.surface = hd.surface
    BY <1>3 DEF SameRequest
  <1>5. Booked(g, d)
    BY <1>3, <1>4, SameBooks
  <1>6. Owes(g, d, g.status)
    BY <1>2, <1>3, <1>4, SameDebt DEF SamePrice
  <1>7. Priced(g, d)
    BY <1>3, <1>6 DEF Priced, SamePrice
  <1>8. Settled(g, d)
    BY <1>3, <1>5, <1>7 DEF Settled
  <1>q. QED BY <1>3, <1>8 DEF g, st

\* withGenerationCost settles the answers whose price may be missing.
LEMMA CostIs ==
    ASSUME NEW r, NEW hd \in Handler, NEW code, NEW admitted,
           Booked(hd, View(r)), hd.events = 0, hd.lookup = "no", hd.filled = 0,
           hd.missed = 0, hd.answered, View(r).credential = "held",
           \/ hd.streamed /\ View(r).axis = "credit"
           \/ /\ hd.surface \in Routes /\ readsBody(hd.surface)
              /\ StatusOf(code) # "ok" \/ lookupCost(hd.surface)
    PROVE  LET g == withGenerationCost(r, hd, code, admitted)
           IN  /\ g \in Handler /\ g.pc = "returning" /\ Settled(g, View(r))
               /\ SameRequest(g, hd) /\ SameHolds(g, hd)
  <1> DEFINE d == View(r)
             g == withGenerationCost(r, hd, code, admitted)
  <1>1. Owes(hd, d, StatusOf(code)) <=> (hd.named /\ ~hd.cost)
    BY DEF Owes, MayLackPrice
  <1>2. CASE hd.cost \/ ~hd.named
    <2>1. g = Recorded(hd, code)
      BY <1>2 DEF withGenerationCost
    <2>2. Ripe(hd, d, StatusOf(code))
      BY <1>1, <1>2 DEF Ripe
    <2> HIDE DEF g
    <2>3. /\ g \in Handler /\ g.pc = "returning" /\ Settled(g, d)
          /\ SameRequest(g, hd) /\ SameHolds(g, hd)
      BY <2>1, <2>2, RecordedIs
    <2>q. QED BY <2>3 DEF g
  <1>3. CASE ~hd.cost /\ hd.named /\ ~admitted
    <2> DEFINE m == [hd EXCEPT !.missed = 1]
    <2>1. [hd EXCEPT !.missed = @ + 1] = m
      OBVIOUS
    <2>2. g = Recorded(m, code)
      BY <1>3, <2>1 DEF withGenerationCost
    <2>3. /\ m \in Handler /\ m.missed = 1 /\ m.filled = hd.filled /\ m.cost = hd.cost
          /\ m.charges = hd.charges /\ m.capture = hd.capture
          /\ m.spent = hd.spent /\ m.lookup = hd.lookup
          /\ m.events = hd.events /\ m.answered = hd.answered
          /\ m.streamed = hd.streamed /\ m.named = hd.named
          /\ SameRequest(m, hd) /\ SameHolds(m, hd)
      BY WasMissed
    <2> HIDE DEF m, g
    <2>4. m.surface = hd.surface
      BY <2>3 DEF SameRequest
    <2>5. Booked(m, d)
      BY <2>3, <2>4, SameBooks
    <2>6. Owes(m, d, StatusOf(code))
      BY <1>1, <1>3, <2>3, <2>4, SameDebt
    <2>7. Ripe(m, d, StatusOf(code))
      BY <2>3, <2>5, <2>6 DEF Ripe
    <2>8. /\ g \in Handler /\ g.pc = "returning" /\ Settled(g, d)
          /\ SameRequest(g, m) /\ SameHolds(g, m)
      BY <2>2, <2>3, <2>7, RecordedIs
    <2>9. SameRequest(g, hd) /\ SameHolds(g, hd)
      BY <2>3, <2>8 DEF SameRequest, SameHolds
    <2>q. QED BY <2>8, <2>9 DEF g
  <1>4. CASE ~hd.cost /\ hd.named /\ admitted
    <2>1. g = [hd EXCEPT !.pc = "returning", !.lookup = "pending", !.status = StatusOf(code)]
      BY <1>4 DEF withGenerationCost
    <2>2. Owes(hd, d, StatusOf(code))
      BY <1>1, <1>4
    <2> HIDE DEF g
    <2>3. /\ g \in Handler /\ g.pc = "returning" /\ Settled(g, d)
          /\ SameRequest(g, hd) /\ SameHolds(g, hd)
      BY <2>1, <2>2, PostponedIs
    <2>q. QED BY <2>3 DEF g
  <1>5. hd.cost \in BOOLEAN /\ hd.named \in BOOLEAN
    BY HandlerFields
  <1>q. QED BY <1>2, <1>3, <1>4, <1>5

\* A handler that is refused before an answer is ripe, whatever the refusal.
LEMMA RefusedIsRipe ==
    ASSUME NEW hd \in Handler, NEW d, NEW st, Working(hd, d), ~hd.answered,
           hd.pc \in {"slot", "length", "body", "limits", "shape", "call"}
    PROVE  Ripe(hd, d, st)
  <1>1. Unsettled(hd) /\ Entered(hd, d)
    BY DEF Working
  <1>2. /\ hd.events = 0 /\ hd.charges = 0 /\ hd.lookup = "no" /\ ~hd.capture
        /\ hd.filled = 0 /\ hd.missed = 0
    BY <1>1 DEF Unsettled
  <1>3. hd.spent \in {0, 1} /\ (hd.spent = 1 => metered(hd, d) /\ Granted(hd, d))
    BY DEF Working, Metered, Unspent
  <1>4. Booked(hd, d)
    BY <1>1, <1>2, <1>3 DEF Booked
  <1>5. ~Owes(hd, d, st)
    BY DEF Owes
  <1>q. QED BY <1>2, <1>4, <1>5 DEF Ripe

-----------------------------------------------------------------------------
(* One turn of a handler: what every step of a request does to the shared  *)
(* state.                                                                  *)

\* A holder comes, goes or stays, and the count with it.
Moves(was, is, used, now, cap) ==
    \/ (was <=> is) /\ now = used
    \/ ~was /\ is /\ used < cap /\ now = used + 1
    \/ was /\ ~is /\ now = used - 1

Turn(r, hd) ==
    /\ hd \in Handler /\ hd.surface = h[r].surface
    /\ Becomes(r, hd) /\ size' = size /\ docs' = docs
    /\ Fate(hd, docs)
    /\ Moves(h[r].inFlight, hd.inFlight, inFlight, inFlight', size.inFlight)
    /\ IF hd.surface \in Completions
       THEN Moves(h[r].large, hd.large, chatLarge, chatLarge', size.chat)
            /\ passLarge' = passLarge
       ELSE Moves(h[r].large, hd.large, passLarge, passLarge', size.pass)
            /\ chatLarge' = chatLarge
    /\ Moves(h[r].admitted, hd.admitted, running, running', running + 1)

\* What is known of a handler that has read its view.
LEMMA Context ==
    ASSUME IInv, NEW r \in Requests, h[r].pc # "new"
    PROVE  /\ h[r] \in Handler /\ View(r) \in Document
           /\ h[r].view \in 1..Len(docs) /\ Judged(h[r], View(r))
  <1>1. h[r] \in Handler /\ Fate(h[r], docs)
    BY DEF IInv, Types
  <1>2. h[r].view \in 1..Len(docs) /\ Judged(h[r], docs[h[r].view])
    BY <1>1 DEF Fate
  <1>3. docs \in Seq(Document)
    BY DEF IInv, Types
  <1>4. docs[h[r].view] \in Document
    BY <1>2, <1>3
  <1>q. QED BY <1>1, <1>2, <1>4 DEF View

LEMMA AtWork ==
    ASSUME IInv, NEW r \in Requests, h[r].pc \notin {"new", "returning", "done"}
    PROVE  /\ h[r] \in Handler /\ View(r) \in Document
           /\ Working(h[r], View(r))
  BY Context DEF Judged

\* A turn that keeps the view and all that is held.
LEMMA QuietTurn ==
    ASSUME IInv, NEW r \in Requests, h[r].pc # "new", NEW hd \in Handler,
           Becomes(r, hd), SameRequest(hd, h[r]), SameHolds(hd, h[r]),
           hd.pc # "new", Judged(hd, View(r)),
           UNCHANGED <<size, docs, Pools>>
    PROVE  Turn(r, hd)
  <1>1. h[r] \in Handler /\ h[r].view \in 1..Len(docs)
    BY Context
  <1>2. Fate(hd, docs)
    BY <1>1 DEF Fate, SameRequest, View
  <1>3. /\ size' = size /\ docs' = docs /\ inFlight' = inFlight /\ chatLarge' = chatLarge
        /\ passLarge' = passLarge /\ running' = running
    BY DEF Pools
  <1>4. hd.surface = h[r].surface
    BY DEF SameRequest
  <1>5. (hd.inFlight <=> h[r].inFlight) /\ (hd.large <=> h[r].large)
           /\ (hd.admitted <=> h[r].admitted)
    BY DEF SameHolds
  <1>q. QED BY <1>2, <1>3, <1>4, <1>5 DEF Turn, Moves

\* A refusal before an answer.
LEMMA Refuses ==
    ASSUME IInv, NEW r \in Requests, NEW code, ~h[r].answered,
           h[r].pc \in {"slot", "length", "body", "limits", "shape", "call"},
           Refuse(r, code), UNCHANGED <<size, docs, Pools>>
    PROVE  \E hd : Turn(r, hd)
  <1> DEFINE g == Recorded(h[r], code)
  <1>1. h[r] \in Handler /\ Working(h[r], View(r)) /\ h[r].pc # "new"
    BY AtWork
  <1>2. Ripe(h[r], View(r), StatusOf(code))
    BY <1>1, RefusedIsRipe
  <1>3. /\ g \in Handler /\ g.pc = "returning" /\ Settled(g, View(r))
        /\ SameRequest(g, h[r]) /\ SameHolds(g, h[r])
    BY <1>1, <1>2, RecordedIs
  <1>4. Becomes(r, g)
    BY DEF Refuse
  <1> HIDE DEF g
  <1>5. Judged(g, View(r)) /\ g.pc # "new"
    BY <1>3 DEF Judged
  <1>q. QED BY <1>1, <1>3, <1>4, <1>5, QuietTurn

LEMMA Starts ==
    ASSUME IInv, NEW r \in Requests, h[r].pc = "new", NEW k \in BOOLEAN, NEW bad,
           bad = "none" => Entered(h[r], docs[Len(docs)]),
           Becomes(r, LET hd == [h[r] EXCEPT !.view = Len(docs), !.keyID = k]
                      IN  IF bad = "none" THEN [hd EXCEPT !.pc = "slot"]
                          ELSE Recorded(hd, bad)),
           UNCHANGED <<size, docs, Pools>>
    PROVE  \E hd : Turn(r, hd)
  <1> DEFINE n == Len(docs)
             d == docs[n]
             hd0 == [h[r] EXCEPT !.view = n, !.keyID = k]
  <1>1. h[r] \in Handler /\ Fresh(h[r]) /\ n \in 1..Len(docs) /\ n \in Nat
    BY DEF IInv, Types, Fate
  <1>2. /\ hd0 \in Handler /\ hd0.view = n /\ hd0.surface = h[r].surface
        /\ hd0.answered = h[r].answered /\ SameHolds(hd0, h[r]) /\ SameLedger(hd0, h[r])
    <2> HIDE DEF n
    <2>1. hd0 \in Handler
      BY <1>1 DEF Handler
    <2>2. hd0.view = n /\ hd0.surface = h[r].surface /\ hd0.answered = h[r].answered
      BY <1>1 DEF Handler
    <2>3. SameHolds(hd0, h[r]) /\ SameLedger(hd0, h[r])
      BY <1>1 DEF Handler, SameHolds, SameLedger
    <2>q. QED BY <2>1, <2>2, <2>3
  <1>3. /\ size' = size /\ docs' = docs /\ inFlight' = inFlight /\ chatLarge' = chatLarge
        /\ passLarge' = passLarge /\ running' = running
    BY DEF Pools
  <1>4. /\ Unsettled(hd0) /\ Unspent(hd0) /\ ~hd0.inFlight /\ ~hd0.large
        /\ ~hd0.answered /\ ~hd0.streamed
    <2> HIDE DEF hd0
    <2>q. QED BY <1>1, <1>2 DEF Fresh, SameHolds, SameLedger, Unsettled, Unspent
  <1>5. SUFFICES ASSUME NEW g \in Handler, Becomes(r, g), SameRequest(g, hd0),
                        SameHolds(g, hd0), g.pc # "new", Judged(g, d)
                 PROVE  Turn(r, g)
    <2>1. CASE bad = "none"
      <3> DEFINE g == [hd0 EXCEPT !.pc = "slot"]
      <3>1. Becomes(r, g)
        BY <2>1
      <3> HIDE DEF hd0
      <3>2. /\ g \in Handler /\ g.pc = "slot" /\ g.answered = hd0.answered
            /\ SameRequest(g, hd0) /\ SameHolds(g, hd0) /\ SameLedger(g, hd0)
        BY <1>2, Moved DEF Places
      <3> HIDE DEF g
      <3>3. Entered(g, d)
        BY <1>2, <2>1, <3>2 DEF SameRequest, Entered
      <3>4. /\ Unsettled(g) /\ Unspent(g) /\ ~g.inFlight /\ ~g.large
            /\ ~g.answered /\ ~g.streamed
        BY <1>4, <3>2 DEF SameHolds, SameLedger, Unsettled, Unspent
      <3>5. Working(g, d)
        BY <3>2, <3>3, <3>4 DEF Working
      <3>q. QED BY <3>1, <3>2, <3>5, <1>5 DEF Judged
    <2>2. CASE bad # "none"
      <3> DEFINE g == Recorded(hd0, bad)
      <3>1. Becomes(r, g)
        BY <2>2
      <3> HIDE DEF hd0
      <3>2. Ripe(hd0, d, StatusOf(bad))
        BY <1>4 DEF Ripe, Unsettled, Unspent, Booked, Owes
      <3>3. /\ g \in Handler /\ g.pc = "returning" /\ Settled(g, d)
            /\ SameRequest(g, hd0) /\ SameHolds(g, hd0)
        BY <1>2, <3>2, RecordedIs
      <3> HIDE DEF g
      <3>q. QED BY <3>1, <3>3, <1>5 DEF Judged
    <2>q. QED BY <2>1, <2>2
  <1> HIDE DEF hd0
  <1>6. g.view = n /\ g.surface = h[r].surface
    BY <1>2, <1>5 DEF SameRequest
  <1>7. Fate(g, docs)
    BY <1>1, <1>5, <1>6 DEF Fate
  <1>8. (g.inFlight <=> h[r].inFlight) /\ (g.large <=> h[r].large)
           /\ (g.admitted <=> h[r].admitted)
    BY <1>2, <1>5 DEF SameHolds
  <1>q. QED BY <1>3, <1>5, <1>6, <1>7, <1>8 DEF Turn, Moves

LEMMA BeginTurns ==
    ASSUME IInv, NEW r \in Requests, NEW missing \in BOOLEAN, Begin(r, missing)
    PROVE  \E hd : Turn(r, hd)
  <1> DEFINE d == docs[Len(docs)]
             k == d.enabled /\ ~missing /\ d.key # "unknown"
             bad == Preamble(d, missing)
  <1>1. h[r].pc = "new" /\ h[r].surface \in Completions /\ UNCHANGED <<size, docs, Pools>>
    BY DEF Begin, Pipelined
  <1>2. Becomes(r, LET hd == [h[r] EXCEPT !.view = Len(docs), !.keyID = k]
                   IN  IF bad = "none" THEN [hd EXCEPT !.pc = "slot"] ELSE Recorded(hd, bad))
    BY DEF Begin
  <1>3. d \in Document
    BY DEF IInv, Types
  <1>4. bad = "none" => Entered(h[r], d)
    BY <1>1, <1>3, PreamblePasses DEF Entered, Completions, Routes
  <1>5. k \in BOOLEAN
    OBVIOUS
  <1> HIDE DEF k, bad
  <1>q. QED BY <1>1, <1>2, <1>4, <1>5, Starts

LEMMA PassBeginTurns ==
    ASSUME IInv, NEW r \in Requests, NEW missing \in BOOLEAN, PassBegin(r, missing)
    PROVE  \E hd : Turn(r, hd)
  <1> DEFINE d == docs[Len(docs)]
             k == d.enabled /\ ~missing /\ d.key # "unknown"
             bad == PassPreamble(d, missing)
  <1>1. h[r].pc = "new" /\ UNCHANGED <<size, docs, Pools>>
    BY DEF PassBegin
  <1>2. Becomes(r, LET hd == [h[r] EXCEPT !.view = Len(docs), !.keyID = k]
                   IN  IF bad = "none" THEN [hd EXCEPT !.pc = "slot"] ELSE Recorded(hd, bad))
    BY DEF PassBegin
  <1>3. d \in Document
    BY DEF IInv, Types
  <1>4. bad = "none" => Entered(h[r], d)
    BY <1>3, PassPreamblePasses DEF Entered
  <1>5. k \in BOOLEAN
    OBVIOUS
  <1> HIDE DEF k, bad
  <1>q. QED BY <1>1, <1>2, <1>4, <1>5, Starts

\* A turn that keeps the view.
LEMMA HoldTurn ==
    ASSUME IInv, NEW r \in Requests, h[r].pc # "new", NEW hd \in Handler,
           Becomes(r, hd), SameRequest(hd, h[r]), hd.pc # "new", Judged(hd, View(r)),
           size' = size, docs' = docs,
           Moves(h[r].inFlight, hd.inFlight, inFlight, inFlight', size.inFlight),
           IF hd.surface \in Completions
           THEN Moves(h[r].large, hd.large, chatLarge, chatLarge', size.chat)
                /\ passLarge' = passLarge
           ELSE Moves(h[r].large, hd.large, passLarge, passLarge', size.pass)
                /\ chatLarge' = chatLarge,
           Moves(h[r].admitted, hd.admitted, running, running', running + 1)
    PROVE  Turn(r, hd)
  <1>1. h[r] \in Handler /\ h[r].view \in 1..Len(docs)
    BY Context
  <1>2. Fate(hd, docs)
    BY <1>1 DEF Fate, SameRequest, View
  <1>3. hd.surface = h[r].surface
    BY DEF SameRequest
  <1>q. QED BY <1>2, <1>3 DEF Turn

\* What Working says of a handler is said of the parts it is made of.
LEMMA SameParts ==
    ASSUME NEW g, NEW hd, NEW d, g.surface = hd.surface
    PROVE  /\ metered(g, d) <=> metered(hd, d)
           /\ Entered(g, d) <=> Entered(hd, d)
           /\ Granted(g, d) <=> Granted(hd, d)
  BY DEF metered, Entered, Granted

LEMMA SlotTurns ==
    ASSUME IInv, NEW r \in Requests, NEW next, TakeInFlight(r, next),
           next = "length" \/ (next = "call" /\ h[r].surface = "imageModels")
    PROVE  \E hd : Turn(r, hd)
  <1> DEFINE d == View(r)
  <1>1. /\ h[r].pc = "slot" /\ h[r].pc # "new" /\ size' = size /\ docs' = docs
        /\ chatLarge' = chatLarge /\ passLarge' = passLarge /\ running' = running
    BY DEF TakeInFlight
  <1>2. h[r] \in Handler /\ Working(h[r], d)
    BY <1>1, AtWork
  <1>3. /\ Unsettled(h[r]) /\ Unspent(h[r]) /\ Entered(h[r], d)
        /\ ~h[r].inFlight /\ ~h[r].large /\ ~h[r].answered /\ ~h[r].streamed
    BY <1>1, <1>2 DEF Working
  <1>4. CASE inFlight < size.inFlight
    <2> DEFINE g == [h[r] EXCEPT !.pc = next, !.inFlight = TRUE]
    <2>1. Becomes(r, g) /\ inFlight' = inFlight + 1
      BY <1>4 DEF TakeInFlight
    <2>2. next \in Places
      BY DEF Places
    <2>3. /\ g \in Handler /\ g.pc = next /\ g.inFlight = TRUE /\ g.large = h[r].large
          /\ g.admitted = h[r].admitted /\ g.answered = h[r].answered
          /\ SameRequest(g, h[r]) /\ SameLedger(g, h[r])
      BY <1>2, <2>2, TookInFlight
    <2> HIDE DEF g
    <2>4. g.surface = h[r].surface
      BY <2>3 DEF SameRequest
    <2>5. /\ Unsettled(g) /\ Unspent(g) /\ Entered(g, d) /\ ~g.large
          /\ ~g.answered /\ ~g.streamed
      BY <1>3, <2>3, <2>4, SameParts DEF Unsettled, Unspent, SameLedger
    <2>6. g.pc = "call" => Granted(g, d) /\ Metered(g, d)
      BY <2>3, <2>4, <2>5 DEF Granted, Metered, metered, readsBody, Completions
    <2>7. Working(g, d)
      BY <2>3, <2>5, <2>6 DEF Working
    <2>8. Judged(g, d) /\ g.pc # "new"
      BY <2>3, <2>7 DEF Judged
    <2>9. /\ Moves(h[r].inFlight, g.inFlight, inFlight, inFlight', size.inFlight)
          /\ Moves(h[r].large, g.large, chatLarge, chatLarge', size.chat)
          /\ Moves(h[r].large, g.large, passLarge, passLarge', size.pass)
          /\ Moves(h[r].admitted, g.admitted, running, running', running + 1)
      BY <1>1, <1>3, <1>4, <2>1, <2>3 DEF Moves
    <2>q. QED BY <1>1, <2>1, <2>3, <2>8, <2>9, HoldTurn
  <1>5. CASE ~(inFlight < size.inFlight)
    <2>1. Refuse(r, "server_busy") /\ UNCHANGED <<size, docs, Pools>>
      BY <1>5, <1>1 DEF TakeInFlight, Pools
    <2>q. QED BY <1>1, <1>3, <2>1, Refuses
  <1>q. QED BY <1>4, <1>5

\* The step from the length to the body, with or without a large-body slot.
LEMMA ToBody ==
    ASSUME IInv, NEW r \in Requests, h[r].pc = "length", NEW g \in Handler,
           g.pc = "body", g.answered = h[r].answered,
           g.admitted = h[r].admitted, SameRequest(g, h[r]), SameLedger(g, h[r])
    PROVE  Judged(g, View(r))
  <1> DEFINE d == View(r)
  <1>1. h[r] \in Handler /\ Working(h[r], d)
    BY AtWork
  <1>2. /\ Unsettled(h[r]) /\ Unspent(h[r]) /\ Entered(h[r], d)
        /\ ~h[r].answered /\ ~h[r].streamed
    BY <1>1 DEF Working
  <1>3. g.surface = h[r].surface
    BY DEF SameRequest
  <1>4. Unsettled(g) /\ Unspent(g) /\ Entered(g, d) /\ ~g.answered /\ ~g.streamed
    BY <1>2, <1>3, SameParts DEF Unsettled, Unspent, SameLedger
  <1>5. Working(g, d)
    BY <1>4 DEF Working
  <1>q. QED BY <1>5 DEF Judged

LEMMA LengthTurns ==
    ASSUME IInv, NEW r \in Requests, NEW length \in {"small", "large", "huge"},
           DeclaredLength(r, length)
    PROVE  \E hd : Turn(r, hd)
  <1>1. /\ h[r].pc = "length" /\ h[r].pc # "new" /\ size' = size /\ docs' = docs
        /\ inFlight' = inFlight /\ passLarge' = passLarge /\ running' = running
        /\ h[r].surface \in Completions
    BY DEF DeclaredLength, Pipelined
  <1>2. h[r] \in Handler /\ ~h[r].large /\ ~h[r].answered
    BY <1>1, AtWork DEF Working
  <1>t. size.chat \in Nat /\ chatLarge \in Int
    BY DEF IInv, Types
  <1>3. \/ Becomes(r, [h[r] EXCEPT !.pc = "body"]) /\ chatLarge' = chatLarge
        \/ Refuse(r, "request_too_large") /\ chatLarge' = chatLarge
        \/ Refuse(r, "large_request_busy") /\ chatLarge' = chatLarge
        \/ /\ Becomes(r, [h[r] EXCEPT !.pc = "body", !.large = TRUE])
           /\ chatLarge < size.chat /\ chatLarge' = chatLarge + 1
    <2>1. CASE length = "small"
      BY <2>1 DEF DeclaredLength
    <2>2. CASE length = "huge" \/ (length = "large" /\ size.chat = 0)
      BY <2>2, <1>t DEF DeclaredLength
    <2>3. CASE length = "large" /\ size.chat > 0 /\ chatLarge >= size.chat
      BY <2>3, <1>t DEF DeclaredLength
    <2>4. CASE length = "large" /\ size.chat > 0 /\ chatLarge < size.chat
      BY <2>4, <1>t DEF DeclaredLength
    <2>q. QED BY <1>t, <2>1, <2>2, <2>3, <2>4
  <1>4. CASE Becomes(r, [h[r] EXCEPT !.pc = "body"]) /\ chatLarge' = chatLarge
    <2> DEFINE g == [h[r] EXCEPT !.pc = "body"]
    <2>1. /\ g \in Handler /\ g.pc = "body" /\ g.answered = h[r].answered
          /\ SameRequest(g, h[r]) /\ SameHolds(g, h[r]) /\ SameLedger(g, h[r])
      BY <1>2, Moved DEF Places
    <2>2. Becomes(r, g)
      BY <1>4
    <2> HIDE DEF g
    <2>3. g.admitted = h[r].admitted
      BY <2>1 DEF SameHolds
    <2>4. Judged(g, View(r)) /\ g.pc # "new"
      BY <1>1, <2>1, <2>3, ToBody
    <2>5. UNCHANGED <<size, docs, Pools>>
      BY <1>1, <1>4 DEF Pools
    <2>q. QED BY <1>1, <2>1, <2>2, <2>4, <2>5, QuietTurn
  <1>5. CASE \/ Refuse(r, "request_too_large") /\ chatLarge' = chatLarge
             \/ Refuse(r, "large_request_busy") /\ chatLarge' = chatLarge
    <2>1. UNCHANGED <<size, docs, Pools>>
      BY <1>1, <1>5 DEF Pools
    <2>q. QED BY <1>1, <1>2, <1>5, <2>1, Refuses
  <1>6. CASE /\ Becomes(r, [h[r] EXCEPT !.pc = "body", !.large = TRUE])
             /\ chatLarge < size.chat /\ chatLarge' = chatLarge + 1
    <2> DEFINE g == [h[r] EXCEPT !.pc = "body", !.large = TRUE]
    <2>1. /\ g \in Handler /\ g.pc = "body" /\ g.large = TRUE /\ g.inFlight = h[r].inFlight
          /\ g.admitted = h[r].admitted /\ g.answered = h[r].answered
          /\ SameRequest(g, h[r]) /\ SameLedger(g, h[r])
      BY <1>2, TookLarge DEF Places
    <2>2. Becomes(r, g)
      BY <1>6
    <2> HIDE DEF g
    <2>3. Judged(g, View(r)) /\ g.pc # "new"
      BY <1>1, <2>1, ToBody
    <2>4. /\ Moves(h[r].inFlight, g.inFlight, inFlight, inFlight', size.inFlight)
          /\ Moves(h[r].large, g.large, chatLarge, chatLarge', size.chat)
          /\ Moves(h[r].admitted, g.admitted, running, running', running + 1)
      BY <1>1, <1>2, <1>6, <2>1 DEF Moves
    <2>5. g.surface \in Completions
      BY <1>1, <2>1 DEF SameRequest
    <2>q. QED BY <1>1, <2>1, <2>2, <2>3, <2>4, <2>5, HoldTurn
  <1>q. QED BY <1>3, <1>4, <1>5, <1>6

LEMMA PassLengthTurns ==
    ASSUME IInv, NEW r \in Requests, NEW length \in {"small", "large", "huge"},
           PassLength(r, length)
    PROVE  \E hd : Turn(r, hd)
  <1>1. /\ h[r].pc = "length" /\ h[r].pc # "new" /\ size' = size /\ docs' = docs
        /\ inFlight' = inFlight /\ chatLarge' = chatLarge /\ running' = running
        /\ h[r].surface \in Routes
    BY DEF PassLength, Passed
  <1>2. h[r] \in Handler /\ ~h[r].large /\ ~h[r].answered
    BY <1>1, AtWork DEF Working
  <1>t. size.pass \in Nat /\ passLarge \in Int
    BY DEF IInv, Types
  <1>c. /\ CanTake(r) <=> passLarge < size.pass
        /\ \A g : Takes(r, g) => Becomes(r, g) /\ passLarge' = passLarge + 1
    BY <1>2 DEF CanTake, Takes
  <1>3. \/ Becomes(r, [h[r] EXCEPT !.pc = "body"]) /\ passLarge' = passLarge
        \/ Refuse(r, "request_too_large") /\ passLarge' = passLarge
        \/ Refuse(r, "large_request_busy") /\ passLarge' = passLarge
        \/ /\ Becomes(r, [h[r] EXCEPT !.pc = "body", !.large = TRUE])
           /\ passLarge < size.pass /\ passLarge' = passLarge + 1
    <2>1. CASE length = "small"
      BY <2>1 DEF PassLength
    <2>2. CASE length = "huge" \/ (length = "large" /\ size.pass = 0)
      BY <1>c, <2>2, <1>t DEF PassLength
    <2>3. CASE length = "large" /\ size.pass > 0 /\ passLarge >= size.pass
      <3>1. ~CanTake(r)
        BY <1>c, <1>t, <2>3
      <3>q. QED BY <2>3, <3>1 DEF PassLength
    <2>4. CASE length = "large" /\ size.pass > 0 /\ passLarge < size.pass
      BY <1>c, <2>4, <1>t DEF PassLength
    <2>q. QED BY <1>t, <2>1, <2>2, <2>3, <2>4
  <1>4. CASE Becomes(r, [h[r] EXCEPT !.pc = "body"]) /\ passLarge' = passLarge
    <2> DEFINE g == [h[r] EXCEPT !.pc = "body"]
    <2>1. /\ g \in Handler /\ g.pc = "body" /\ g.answered = h[r].answered
          /\ SameRequest(g, h[r]) /\ SameHolds(g, h[r]) /\ SameLedger(g, h[r])
      BY <1>2, Moved DEF Places
    <2>2. Becomes(r, g)
      BY <1>4
    <2> HIDE DEF g
    <2>3. g.admitted = h[r].admitted
      BY <2>1 DEF SameHolds
    <2>4. Judged(g, View(r)) /\ g.pc # "new"
      BY <1>1, <2>1, <2>3, ToBody
    <2>5. UNCHANGED <<size, docs, Pools>>
      BY <1>1, <1>4 DEF Pools
    <2>q. QED BY <1>1, <2>1, <2>2, <2>4, <2>5, QuietTurn
  <1>5. CASE \/ Refuse(r, "request_too_large") /\ passLarge' = passLarge
             \/ Refuse(r, "large_request_busy") /\ passLarge' = passLarge
    <2>1. UNCHANGED <<size, docs, Pools>>
      BY <1>1, <1>5 DEF Pools
    <2>q. QED BY <1>1, <1>2, <1>5, <2>1, Refuses
  <1>6. CASE /\ Becomes(r, [h[r] EXCEPT !.pc = "body", !.large = TRUE])
             /\ passLarge < size.pass /\ passLarge' = passLarge + 1
    <2> DEFINE g == [h[r] EXCEPT !.pc = "body", !.large = TRUE]
    <2>1. /\ g \in Handler /\ g.pc = "body" /\ g.large = TRUE /\ g.inFlight = h[r].inFlight
          /\ g.admitted = h[r].admitted /\ g.answered = h[r].answered
          /\ SameRequest(g, h[r]) /\ SameLedger(g, h[r])
      BY <1>2, TookLarge DEF Places
    <2>2. Becomes(r, g)
      BY <1>6
    <2> HIDE DEF g
    <2>3. Judged(g, View(r)) /\ g.pc # "new"
      BY <1>1, <2>1, ToBody
    <2>4. /\ Moves(h[r].inFlight, g.inFlight, inFlight, inFlight', size.inFlight)
          /\ Moves(h[r].large, g.large, passLarge, passLarge', size.pass)
          /\ Moves(h[r].admitted, g.admitted, running, running', running + 1)
      BY <1>1, <1>2, <1>6, <2>1 DEF Moves
    <2>5. g.surface \notin Completions
      BY <1>1, <2>1 DEF SameRequest, Completions, Routes
    <2>q. QED BY <1>1, <2>1, <2>2, <2>3, <2>4, <2>5, HoldTurn
  <1>q. QED BY <1>3, <1>4, <1>5, <1>6

\* A turn that only goes on to the next place.
LEMMA GoesOn ==
    ASSUME IInv, NEW r \in Requests, h[r].pc # "new", NEW p \in Places, p # "new",
           Becomes(r, [h[r] EXCEPT !.pc = p]), UNCHANGED <<size, docs, Pools>>,
           ASSUME NEW g \in Handler, g.pc = p, g.answered = h[r].answered,
                  SameRequest(g, h[r]), SameHolds(g, h[r]), SameLedger(g, h[r])
           PROVE  Judged(g, View(r))
    PROVE  \E hd : Turn(r, hd)
  <1> DEFINE g == [h[r] EXCEPT !.pc = p]
  <1>1. h[r] \in Handler
    BY Context
  <1>2. /\ g \in Handler /\ g.pc = p /\ g.answered = h[r].answered
        /\ SameRequest(g, h[r]) /\ SameHolds(g, h[r]) /\ SameLedger(g, h[r])
    BY <1>1, Moved
  <1>3. Becomes(r, g)
    OBVIOUS
  <1> HIDE DEF g
  <1>4. Judged(g, View(r))
    BY <1>2
  <1>q. QED BY <1>2, <1>3, <1>4, QuietTurn

LEMMA ReadBodyTurns ==
    ASSUME IInv, NEW r \in Requests, NEW fault, ReadBody(r, fault)
    PROVE  \E hd : Turn(r, hd)
  <1> DEFINE d == View(r)
             bad == BodyChecks(d, h[r].surface, fault)
             p == IF d.axis = "token" THEN "limits" ELSE "shape"
  <1>1. /\ h[r].pc = "body" /\ h[r].pc # "new" /\ UNCHANGED <<size, docs, Pools>>
        /\ h[r].surface \in Completions
    BY DEF ReadBody, Pipelined
  <1>2. h[r] \in Handler /\ d \in Document /\ Working(h[r], d)
    BY <1>1, AtWork
  <1>3. /\ Unsettled(h[r]) /\ Unspent(h[r]) /\ Entered(h[r], d)
        /\ ~h[r].answered /\ ~h[r].streamed
    BY <1>1, <1>2 DEF Working
  <1>4. CASE bad # "none"
    <2>1. Refuse(r, bad)
      BY <1>4 DEF ReadBody, Refuse
    <2> HIDE DEF bad
    <2>q. QED BY <1>1, <1>3, <2>1, Refuses
  <1>5. CASE bad = "none"
    <2>1. Becomes(r, [h[r] EXCEPT !.pc = p])
      BY <1>5 DEF ReadBody
    <2>2. /\ d.allowed /\ (d.axis = "token" => h[r].surface = "chat")
          /\ d.axis = "credit" => d.credential = "held"
      BY <1>2, <1>5, BodyPasses
    <2>3. p \in Places /\ p # "new" /\ p \in {"limits", "shape"}
          /\ (p = "limits" <=> d.axis = "token")
      BY DEF Places
    <2> HIDE DEF p, d
    <2>4. ASSUME NEW g \in Handler, g.pc = p, g.answered = h[r].answered,
                 SameRequest(g, h[r]), SameHolds(g, h[r]), SameLedger(g, h[r])
          PROVE  Judged(g, d)
      <3>1. g.surface = h[r].surface
        BY <2>4 DEF SameRequest
      <3>2. Unsettled(g) /\ Unspent(g) /\ Entered(g, d) /\ ~g.answered /\ ~g.streamed
        BY <1>3, <2>4, <3>1, SameParts DEF Unsettled, Unspent, SameLedger, SameHolds
      <3>3. Granted(g, d)
        BY <2>2, <3>1 DEF Granted
      <3>4. metered(g, d) <=> d.axis = "token"
        BY <2>2, <3>1 DEF metered
      <3>5. p = "shape" => Metered(g, d)
        BY <2>3, <3>2, <3>4 DEF Metered
      <3>6. Working(g, d)
        BY <2>3, <2>4, <3>2, <3>3, <3>4, <3>5 DEF Working
      <3>q. QED BY <2>3, <2>4, <3>6 DEF Judged
    <2>q. QED BY <1>1, <2>1, <2>3, <2>4, GoesOn DEF d
  <1>q. QED BY <1>4, <1>5

LEMMA PassReadBodyTurns ==
    ASSUME IInv, NEW r \in Requests, NEW fault, PassReadBody(r, fault)
    PROVE  \E hd : Turn(r, hd)
  <1> DEFINE d == View(r)
             bad == PassBodyChecks(d, fault)
  <1>1. /\ h[r].pc = "body" /\ h[r].pc # "new" /\ UNCHANGED <<size, docs, Pools>>
        /\ h[r].surface \in Routes
    BY DEF PassReadBody, Passed
  <1>2. h[r] \in Handler /\ d \in Document /\ Working(h[r], d)
    BY <1>1, AtWork
  <1>3. /\ Unsettled(h[r]) /\ Unspent(h[r]) /\ Entered(h[r], d)
        /\ ~h[r].answered /\ ~h[r].streamed
    BY <1>1, <1>2 DEF Working
  <1>4. CASE bad # "none"
    <2>1. Refuse(r, bad)
      BY <1>4 DEF PassReadBody, Refuse
    <2> HIDE DEF bad
    <2>q. QED BY <1>1, <1>3, <2>1, Refuses
  <1>5. CASE bad = "none"
    <2>1. Becomes(r, [h[r] EXCEPT !.pc = "call"])
      BY <1>5 DEF PassReadBody
    <2>2. d.allowed
      BY <1>5, PassBodyPasses
    <2>3. "call" \in Places
      BY DEF Places
    <2> HIDE DEF d
    <2>4. ASSUME NEW g \in Handler, g.pc = "call", g.answered = h[r].answered,
                 SameRequest(g, h[r]), SameHolds(g, h[r]), SameLedger(g, h[r])
          PROVE  Judged(g, d)
      <3>1. g.surface = h[r].surface
        BY <2>4 DEF SameRequest
      <3>2. Unsettled(g) /\ Unspent(g) /\ Entered(g, d) /\ ~g.answered /\ ~g.streamed
        BY <1>3, <2>4, <3>1, SameParts DEF Unsettled, Unspent, SameLedger, SameHolds
      <3>3. Granted(g, d) /\ ~metered(g, d)
        BY <1>1, <2>2, <3>1 DEF Granted, metered, Routes, Completions
      <3>4. Metered(g, d)
        BY <3>2, <3>3 DEF Metered
      <3>5. Working(g, d)
        BY <2>4, <3>2, <3>3, <3>4 DEF Working
      <3>q. QED BY <2>4, <3>5 DEF Judged
    <2>q. QED BY <1>1, <2>1, <2>3, <2>4, GoesOn DEF d
  <1>q. QED BY <1>4, <1>5

LEMMA ShapeTurns ==
    ASSUME IInv, NEW r \in Requests, NEW fits, Shape(r, fits)
    PROVE  \E hd : Turn(r, hd)
  <1> DEFINE d == View(r)
  <1>1. h[r].pc = "shape" /\ h[r].pc # "new" /\ UNCHANGED <<size, docs, Pools>>
    BY DEF Shape
  <1>2. h[r] \in Handler /\ Working(h[r], d)
    BY <1>1, AtWork
  <1>3. /\ Unsettled(h[r]) /\ Entered(h[r], d) /\ Granted(h[r], d) /\ Metered(h[r], d)
        /\ ~h[r].answered /\ ~h[r].streamed
    BY <1>1, <1>2 DEF Working
  <1>4. CASE ~fits
    <2>1. Refuse(r, "too_long")
      BY <1>4 DEF Shape, Refuse
    <2>q. QED BY <1>1, <1>3, <2>1, Refuses
  <1>5. CASE fits
    <2>1. Becomes(r, [h[r] EXCEPT !.pc = "call"])
      BY <1>5 DEF Shape
    <2>2. "call" \in Places
      BY DEF Places
    <2> HIDE DEF d
    <2>3. ASSUME NEW g \in Handler, g.pc = "call", g.answered = h[r].answered,
                 SameRequest(g, h[r]), SameHolds(g, h[r]), SameLedger(g, h[r])
          PROVE  Judged(g, d)
      <3>1. g.surface = h[r].surface
        BY <2>3 DEF SameRequest
      <3>2. Unsettled(g) /\ Entered(g, d) /\ Granted(g, d) /\ ~g.answered /\ ~g.streamed
        BY <1>3, <2>3, <3>1, SameParts DEF Unsettled, SameLedger
      <3>3. Metered(g, d)
        BY <1>3, <2>3, <3>1, SameParts DEF Metered, Unspent, SameLedger, SameHolds
      <3>4. Working(g, d)
        BY <2>3, <3>2, <3>3 DEF Working
      <3>q. QED BY <2>3, <3>4 DEF Judged
    <2>q. QED BY <1>1, <2>1, <2>2, <2>3, GoesOn DEF d
  <1>q. QED BY <1>4, <1>5

LEMMA CallFailsTurns ==
    ASSUME IInv, NEW r \in Requests, NEW code, CallFails(r, code) \/ PassCallFails(r, code)
    PROVE  \E hd : Turn(r, hd)
  <1>1. h[r].pc = "call" /\ UNCHANGED <<size, docs, Pools>> /\ Refuse(r, code)
    BY DEF CallFails, PassCallFails, Refuse
  <1>2. ~h[r].answered
    BY <1>1, AtWork DEF Working
  <1>q. QED BY <1>1, <1>2, Refuses

LEMMA RunningType ==
    ASSUME IInv
    PROVE  running \in Int /\ IsFiniteSet(Admitted)
  <1>1. Admitted \subseteq Requests
    BY DEF Admitted
  <1>2. IsFiniteSet(Admitted)
    BY <1>1, HandlersAssumption, FS_Subset
  <1>q. QED BY <1>2, FS_CardinalityType DEF IInv

LEMMA LimitsTurns ==
    ASSUME IInv, NEW r \in Requests, NEW ok, Limits(r, ok)
    PROVE  \E hd : Turn(r, hd)
  <1> DEFINE d == View(r)
  <1>1. /\ h[r].pc = "limits" /\ h[r].pc # "new" /\ size' = size /\ docs' = docs
        /\ inFlight' = inFlight /\ chatLarge' = chatLarge /\ passLarge' = passLarge
        /\ h[r].surface \in Completions
    BY DEF Limits, Pipelined
  <1>2. h[r] \in Handler /\ d \in Document /\ Working(h[r], d)
    BY <1>1, AtWork
  <1>3. /\ Unsettled(h[r]) /\ Unspent(h[r]) /\ Entered(h[r], d) /\ Granted(h[r], d)
        /\ metered(h[r], d) /\ ~h[r].answered /\ ~h[r].streamed
    BY <1>1, <1>2 DEF Working
  <1>4. CASE ~ok
    <2>1. Refuse(r, "rate_limited") /\ UNCHANGED <<size, docs, Pools>>
      BY <1>1, <1>4 DEF Limits, Pools
    <2>q. QED BY <1>1, <1>3, <2>1, Refuses
  <1>5. CASE ok
    <2> DEFINE hd == [h[r] EXCEPT !.spent = 1, !.admitted = TRUE]
               g == IF d.quota THEN Recorded(hd, "quota_exhausted")
                    ELSE [hd EXCEPT !.pc = "shape"]
    <2>1. h[r].spent = 0
      BY <1>3 DEF Unspent
    <2>2. [h[r] EXCEPT !.spent = @ + 1, !.admitted = TRUE] = hd
      BY <2>1
    <2>3. Becomes(r, g) /\ running' = running + 1
      BY <1>5, <2>2 DEF Limits
    <2>4. /\ hd \in Handler /\ hd.spent = 1 /\ hd.admitted = TRUE
          /\ hd.inFlight = h[r].inFlight /\ hd.large = h[r].large
          /\ hd.capture = h[r].capture /\ hd.charges = h[r].charges
          /\ hd.lookup = h[r].lookup /\ hd.events = h[r].events
          /\ hd.answered = h[r].answered /\ hd.pc = h[r].pc /\ SameRequest(hd, h[r])
          /\ SamePrice(hd, h[r])
      BY <1>2, WasAdmitted
    <2> HIDE DEF hd, d
    <2>5. /\ hd.surface = h[r].surface /\ Unsettled(hd) /\ ~hd.answered
          /\ ~hd.streamed /\ Entered(hd, d) /\ Granted(hd, d) /\ metered(hd, d)
      BY <1>3, <2>4, SameParts DEF SameRequest, SamePrice, Unsettled
    <2>6. /\ g \in Handler /\ g.pc # "new" /\ Judged(g, d)
          /\ SameRequest(g, hd) /\ SameHolds(g, hd)
      <3>1. CASE d.quota
        <4>1. g = Recorded(hd, "quota_exhausted")
          BY <3>1
        <4> HIDE DEF g
        <4>2. Ripe(hd, d, StatusOf("quota_exhausted"))
          BY <2>4, <2>5 DEF Ripe, Unsettled, Booked, Owes
        <4>3. /\ g \in Handler /\ g.pc = "returning" /\ Settled(g, d)
              /\ SameRequest(g, hd) /\ SameHolds(g, hd)
          BY <2>4, <4>1, <4>2, RecordedIs
        <4>q. QED BY <4>3 DEF Judged
      <3>2. CASE ~d.quota
        <4>1. g = [hd EXCEPT !.pc = "shape"]
          BY <3>2
        <4> HIDE DEF g
        <4>2. /\ g \in Handler /\ g.pc = "shape" /\ g.answered = hd.answered
              /\ SameRequest(g, hd) /\ SameHolds(g, hd) /\ SameLedger(g, hd)
          BY <2>4, <4>1, Moved DEF Places
        <4>3. g.surface = hd.surface /\ g.spent = 1
          BY <2>4, <4>2 DEF SameRequest, SameLedger
        <4>4. /\ Unsettled(g) /\ Entered(g, d) /\ Granted(g, d) /\ ~g.answered
              /\ ~g.streamed /\ metered(g, d)
          BY <2>5, <4>2, <4>3, SameParts DEF Unsettled, SameLedger
        <4>5. Metered(g, d)
          BY <3>2, <4>3, <4>4 DEF Metered
        <4>6. Working(g, d)
          BY <4>2, <4>4, <4>5 DEF Working
        <4>q. QED BY <4>2, <4>6 DEF Judged
      <3>q. QED BY <3>1, <3>2
    <2> HIDE DEF g
    <2>7. SameRequest(g, h[r]) /\ g.surface \in Completions
      BY <1>1, <2>4, <2>6 DEF SameRequest
    <2>8. (g.inFlight <=> h[r].inFlight) /\ (g.large <=> h[r].large) /\ g.admitted
      BY <2>4, <2>6 DEF SameHolds
    <2>9. running \in Int
      BY RunningType
    <2>10. /\ Moves(h[r].inFlight, g.inFlight, inFlight, inFlight', size.inFlight)
           /\ Moves(h[r].large, g.large, chatLarge, chatLarge', size.chat)
           /\ Moves(h[r].admitted, g.admitted, running, running', running + 1)
      BY <1>1, <1>3, <2>3, <2>8, <2>9 DEF Moves, Unspent
    <2>q. QED BY <1>1, <2>3, <2>6, <2>7, <2>10, HoldTurn DEF d
  <1>q. QED BY <1>4, <1>5

\* An answer arrives: the handler goes on to relay or to read it.
LEMMA AnsweredGoesOn ==
    ASSUME IInv, NEW r \in Requests, h[r].pc = "call", NEW g \in Handler, g.answered,
           g.pc \in {"relay", "answer"}, g.admitted = h[r].admitted,
           SameRequest(g, h[r]), g.spent = h[r].spent,
           Unsettled(g) <=> Unsettled(h[r]), g.streamed <=> g.pc = "relay",
           g.surface \in Completions => ~g.large,
           g.pc = "relay" => g.surface \in Completions
    PROVE  Judged(g, View(r))
  <1> DEFINE d == View(r)
  <1>1. h[r] \in Handler /\ Working(h[r], d)
    BY AtWork
  <1>2. Unsettled(h[r]) /\ Entered(h[r], d) /\ Granted(h[r], d) /\ Metered(h[r], d)
    BY <1>1 DEF Working
  <1> HIDE DEF d
  <1>3. g.surface = h[r].surface
    BY DEF SameRequest
  <1>4. Unsettled(g) /\ Entered(g, d) /\ Granted(g, d)
    BY <1>2, <1>3, SameParts
  <1>5. Metered(g, d)
    BY <1>2, <1>3, SameParts DEF Metered, Unspent
  <1>6. Working(g, d)
    BY <1>4, <1>5 DEF Working
  <1>q. QED BY <1>6 DEF Judged, d

LEMMA HeadersTurns ==
    ASSUME IInv, NEW r \in Requests, NEW streaming \in BOOLEAN, NEW named \in BOOLEAN,
           Headers(r, streaming, named)
    PROVE  \E hd : Turn(r, hd)
  <1> DEFINE p == IF streaming THEN "relay" ELSE "answer"
             g == [h[r] EXCEPT !.answered = TRUE, !.streamed = streaming,
                               !.named = named, !.large = FALSE, !.pc = p]
  <1>1. /\ h[r].pc = "call" /\ h[r].pc # "new" /\ size' = size /\ docs' = docs
        /\ inFlight' = inFlight /\ passLarge' = passLarge /\ running' = running
        /\ h[r].surface \in Completions /\ Becomes(r, g)
        /\ chatLarge' = IF h[r].large THEN chatLarge - 1 ELSE chatLarge
    BY DEF Headers, Pipelined
  <1>2. p \in Places /\ p \in {"relay", "answer"} /\ p # "new" /\ (streaming <=> p = "relay")
    BY DEF Places
  <1>3. h[r] \in Handler
    BY <1>1, AtWork
  <1> HIDE DEF p
  <1>4. /\ g \in Handler /\ g.answered = TRUE /\ g.streamed = streaming
        /\ g.large = FALSE /\ g.pc = p
        /\ g.inFlight = h[r].inFlight /\ g.admitted = h[r].admitted
        /\ g.spent = h[r].spent /\ (Unsettled(g) <=> Unsettled(h[r]))
        /\ SameRequest(g, h[r])
    <2>1. g \in Handler
      BY <1>2, <1>3 DEF Handler
    <2>2. /\ g.answered = TRUE /\ g.streamed = streaming
          /\ g.large = FALSE /\ g.pc = p
      BY <1>3 DEF Handler
    <2>3. /\ g.inFlight = h[r].inFlight /\ g.admitted = h[r].admitted
          /\ g.spent = h[r].spent
      BY <1>3 DEF Handler
    <2>4. Unsettled(g) <=> Unsettled(h[r])
      BY <1>3 DEF Handler, Unsettled
    <2>5. SameRequest(g, h[r])
      BY <1>3 DEF Handler, SameRequest
    <2>q. QED BY <2>1, <2>2, <2>3, <2>4, <2>5
  <1> HIDE DEF g
  <1>5. g.surface \in Completions
    BY <1>1, <1>4 DEF SameRequest
  <1>6. Judged(g, View(r)) /\ g.pc # "new"
    BY <1>1, <1>2, <1>4, <1>5, AnsweredGoesOn
  <1>7. /\ Moves(h[r].inFlight, g.inFlight, inFlight, inFlight', size.inFlight)
        /\ Moves(h[r].large, g.large, chatLarge, chatLarge', size.chat)
        /\ Moves(h[r].admitted, g.admitted, running, running', running + 1)
    BY <1>1, <1>4 DEF Moves
  <1>q. QED BY <1>1, <1>4, <1>5, <1>6, <1>7, HoldTurn

LEMMA PassHeadersTurns ==
    ASSUME IInv, NEW r \in Requests, NEW named \in BOOLEAN, PassHeaders(r, named)
    PROVE  \E hd : Turn(r, hd)
  <1> DEFINE g == [h[r] EXCEPT !.answered = TRUE, !.named = named, !.pc = "answer"]
  <1>1. /\ h[r].pc = "call" /\ h[r].pc # "new" /\ UNCHANGED <<size, docs, Pools>>
        /\ h[r].surface \in Routes /\ Becomes(r, g)
    BY DEF PassHeaders, Passed
  <1>2. h[r] \in Handler /\ ~h[r].streamed
    BY <1>1, AtWork DEF Working
  <1>3. /\ g \in Handler /\ g.answered = TRUE /\ g.pc = "answer"
        /\ g.streamed = h[r].streamed /\ g.spent = h[r].spent
        /\ (Unsettled(g) <=> Unsettled(h[r]))
        /\ SameRequest(g, h[r]) /\ SameHolds(g, h[r])
    <2>1. g \in Handler
      BY <1>2 DEF Handler, Places
    <2>2. /\ g.answered = TRUE /\ g.pc = "answer"
          /\ g.streamed = h[r].streamed /\ g.spent = h[r].spent
      BY <1>2 DEF Handler
    <2>3. Unsettled(g) <=> Unsettled(h[r])
      BY <1>2 DEF Handler, Unsettled
    <2>4. SameRequest(g, h[r]) /\ SameHolds(g, h[r])
      BY <1>2 DEF Handler, SameRequest, SameHolds
    <2>q. QED BY <2>1, <2>2, <2>3, <2>4
  <1> HIDE DEF g
  <1>4. g.admitted = h[r].admitted /\ g.surface \notin Completions
    BY <1>1, <1>3 DEF SameHolds, SameRequest, Routes, Completions
  <1>5. Judged(g, View(r)) /\ g.pc # "new"
    BY <1>1, <1>2, <1>3, <1>4, AnsweredGoesOn
  <1>q. QED BY <1>1, <1>3, <1>5, QuietTurn

-----------------------------------------------------------------------------
(* The ends of an answered request.                                        *)

\* A handler that reads, relays or writes an answer, by its parts.
LEMMA Answering ==
    ASSUME IInv, NEW r \in Requests, h[r].pc \in {"relay", "answer", "write"}
    PROVE  /\ h[r] \in Handler /\ View(r) \in Document /\ h[r].answered
           /\ Unsettled(h[r]) /\ Entered(h[r], View(r)) /\ Granted(h[r], View(r))
           /\ Metered(h[r], View(r)) /\ (h[r].streamed <=> h[r].pc = "relay")
           /\ (h[r].pc = "answer" /\ h[r].surface \in Completions) => ~h[r].large
  <1>1. h[r] \in Handler /\ View(r) \in Document /\ Working(h[r], View(r))
    BY AtWork
  <1>q. QED BY <1>1 DEF Working

\* Charging it puts the books of a completion in order.
LEMMA ChargedIsBooked ==
    ASSUME IInv, NEW r \in Requests, h[r].pc \in {"relay", "answer", "write"},
           h[r].surface \in Completions, NEW g \in Handler,
           SameRequest(g, h[r]), g.answered = h[r].answered, g.spent = h[r].spent,
           g.charges = Charge(r), g.capture => View(r).record
    PROVE  Booked(g, View(r))
  <1> DEFINE d == View(r)
  <1>1. /\ h[r].answered /\ Unsettled(h[r]) /\ Entered(h[r], d) /\ Granted(h[r], d)
        /\ Metered(h[r], d) /\ d \in Document
    BY Answering
  <1>2. g.surface = h[r].surface
    BY DEF SameRequest
  <1>3. metered(g, d) <=> d.axis = "token"
    <2>1. d.axis \in {"token", "credit"}
      BY <1>1 DEF Document
    <2>q. QED BY <1>1, <1>2, <2>1 DEF metered, Granted
  <1>4. g.charges = IF d.axis = "token" THEN 1 ELSE 0
    BY DEF Charge
  <1> HIDE DEF d
  <1>5. Entered(g, d) /\ Granted(g, d) /\ (metered(g, d) <=> metered(h[r], d))
    BY <1>1, <1>2, SameParts
  <1>6. IF metered(g, d) THEN g.spent = 1 /\ ~d.quota ELSE g.spent = 0
    BY <1>1, <1>5 DEF Metered, Unspent
  <1>q. QED BY <1>1, <1>3, <1>4, <1>5, <1>6 DEF Booked, d

\* An answer that was not streamed owes no price, so charging it makes it ripe.
LEMMA ChargedIsRipe ==
    ASSUME IInv, NEW r \in Requests, h[r].pc \in {"answer", "write"},
           h[r].surface \in Completions, NEW g \in Handler,
           SameRequest(g, h[r]), g.answered = h[r].answered, g.spent = h[r].spent,
           g.charges = Charge(r), g.capture => View(r).record,
           g.events = h[r].events, g.lookup = h[r].lookup, g.filled = h[r].filled,
           g.missed = h[r].missed, g.streamed = h[r].streamed, NEW st
    PROVE  Ripe(g, View(r), st)
  <1>1. Unsettled(h[r]) /\ ~h[r].streamed
    BY Answering
  <1>2. Booked(g, View(r))
    BY ChargedIsBooked
  <1>3. g.surface \notin Routes
    BY DEF SameRequest, Completions, Routes
  <1>4. ~Owes(g, View(r), st)
    BY <1>1, <1>3 DEF Owes, MayLackPrice
  <1>q. QED BY <1>1, <1>2, <1>4 DEF Ripe, Unsettled

\* The charge of an answer is the first.
LEMMA FirstCharge ==
    ASSUME IInv, NEW r \in Requests, h[r].pc \in {"relay", "answer", "write"}
    PROVE  h[r].charges + Charge(r) = Charge(r) /\ Charge(r) \in Nat
  <1>1. h[r].charges = 0
    BY Answering DEF Unsettled
  <1>2. Charge(r) \in {0, 1}
    BY DEF Charge
  <1>q. QED BY <1>1, <1>2

\* A charged answer that is recorded while everything held is kept.
LEMMA ChargedEnds ==
    ASSUME IInv, NEW r \in Requests, h[r].pc \in {"answer", "write"},
           h[r].surface \in Completions, NEW code,
           Becomes(r, Recorded([h[r] EXCEPT !.charges = @ + Charge(r)], code)),
           UNCHANGED <<size, docs, Pools>>
    PROVE  \E hd : Turn(r, hd)
  <1> DEFINE n == Charge(r)
             hd == [h[r] EXCEPT !.charges = n]
             g == Recorded(hd, code)
  <1>1. h[r] \in Handler /\ h[r].pc # "new" /\ ~h[r].capture
    BY Answering DEF Unsettled
  <1>2. h[r].charges + n = n /\ n \in Nat
    BY FirstCharge
  <1>3. [h[r] EXCEPT !.charges = @ + Charge(r)] = hd
    BY <1>2
  <1>4. Becomes(r, g)
    BY <1>3
  <1> HIDE DEF n
  <1>5. /\ hd \in Handler /\ hd.charges = n /\ hd.capture = h[r].capture
        /\ hd.spent = h[r].spent /\ hd.lookup = h[r].lookup /\ hd.events = h[r].events
        /\ hd.answered = h[r].answered /\ SameRequest(hd, h[r]) /\ SameHolds(hd, h[r])
        /\ SamePrice(hd, h[r])
    BY <1>1, <1>2, WasCharged
  <1> HIDE DEF hd
  <1>6. Ripe(hd, View(r), StatusOf(code))
    BY <1>1, <1>5, ChargedIsRipe DEF n, SamePrice
  <1>7. /\ g \in Handler /\ g.pc = "returning" /\ Settled(g, View(r))
        /\ SameRequest(g, hd) /\ SameHolds(g, hd)
    BY <1>5, <1>6, RecordedIs
  <1> HIDE DEF g
  <1>8. SameRequest(g, h[r]) /\ SameHolds(g, h[r]) /\ Judged(g, View(r)) /\ g.pc # "new"
    BY <1>5, <1>7 DEF SameRequest, SameHolds, Judged
  <1>q. QED BY <1>1, <1>4, <1>7, <1>8, QuietTurn

LEMMA AnswerFailsTurns ==
    ASSUME IInv, NEW r \in Requests, NEW code, AnswerFails(r, code)
    PROVE  \E hd : Turn(r, hd)
  <1>1. /\ h[r].pc \in {"answer", "write"} /\ h[r].surface \in Completions
        /\ Becomes(r, Recorded([h[r] EXCEPT !.charges = @ + Charge(r)], code))
        /\ UNCHANGED <<size, docs, Pools>>
    BY DEF AnswerFails, Pipelined
  <1>q. QED BY <1>1, ChargedEnds

\* An answer that is metered and offered for capture.
LEMMA MeteredIs ==
    ASSUME IInv, NEW r \in Requests, h[r].pc \in {"relay", "write"},
           h[r].surface \in Completions, NEW priced \in BOOLEAN
    PROVE  LET hd == [h[r] EXCEPT !.charges = @ + Charge(r), !.capture = Captures(r),
                                  !.cost = priced]
           IN  /\ hd \in Handler /\ Booked(hd, View(r))
               /\ hd.events = 0 /\ hd.lookup = "no" /\ hd.filled = 0 /\ hd.missed = 0
               /\ hd.answered /\ hd.streamed = h[r].streamed
               /\ SameRequest(hd, h[r]) /\ SameHolds(hd, h[r])
  <1> DEFINE n == Charge(r)
             c == Captures(r)
             hd == [h[r] EXCEPT !.charges = n, !.capture = c, !.cost = priced]
  <1>1. /\ h[r] \in Handler /\ Unsettled(h[r]) /\ h[r].answered
        /\ h[r].pc \in {"relay", "answer", "write"}
    BY Answering
  <1>2. h[r].charges + n = n /\ n \in Nat
    BY <1>1, FirstCharge
  <1>3. [h[r] EXCEPT !.charges = @ + Charge(r), !.capture = Captures(r), !.cost = priced] = hd
    BY <1>2
  <1>4. c \in BOOLEAN /\ (c => View(r).record)
    <2>1. View(r).record \in BOOLEAN
      BY <1>1, Answering DEF Document
    <2>q. QED BY <2>1 DEF Captures
  <1> HIDE DEF n, c
  <1>5. /\ hd \in Handler /\ hd.charges = n /\ hd.capture = c
        /\ hd.spent = h[r].spent /\ hd.lookup = h[r].lookup
        /\ hd.events = h[r].events /\ hd.answered = h[r].answered
        /\ hd.filled = h[r].filled /\ hd.missed = h[r].missed
        /\ hd.streamed = h[r].streamed
        /\ SameRequest(hd, h[r]) /\ SameHolds(hd, h[r])
    <2>1. hd \in Handler
      BY <1>1, <1>2, <1>4 DEF Handler
    <2>2. /\ hd.charges = n /\ hd.capture = c
          /\ hd.spent = h[r].spent /\ hd.lookup = h[r].lookup
          /\ hd.events = h[r].events /\ hd.answered = h[r].answered
      BY <1>1 DEF Handler
    <2>3. /\ hd.filled = h[r].filled /\ hd.missed = h[r].missed
          /\ hd.streamed = h[r].streamed
      BY <1>1 DEF Handler
    <2>4. SameRequest(hd, h[r]) /\ SameHolds(hd, h[r])
      BY <1>1 DEF Handler, SameRequest, SameHolds
    <2>q. QED BY <2>1, <2>2, <2>3, <2>4
  <1> HIDE DEF hd
  <1>6. Booked(hd, View(r))
    BY <1>1, <1>4, <1>5, ChargedIsBooked DEF n
  <1>q. QED BY <1>1, <1>3, <1>5, <1>6 DEF Unsettled

LEMMA WriteAnswerTurns ==
    ASSUME IInv, NEW r \in Requests, NEW code, NEW priced \in BOOLEAN,
           WriteAnswer(r, code, priced)
    PROVE  \E hd : Turn(r, hd)
  <1> DEFINE hd == [h[r] EXCEPT !.charges = @ + Charge(r), !.capture = Captures(r),
                                !.cost = priced]
             g == Recorded(hd, code)
  <1>1. /\ h[r].pc = "write" /\ h[r].pc # "new" /\ h[r].surface \in Completions
        /\ Becomes(r, g) /\ UNCHANGED <<size, docs, Pools>>
    BY DEF WriteAnswer, Pipelined
  <1>2. /\ hd \in Handler /\ Booked(hd, View(r))
        /\ hd.events = 0 /\ hd.lookup = "no" /\ hd.filled = 0 /\ hd.missed = 0
        /\ hd.answered /\ hd.streamed = h[r].streamed
        /\ SameRequest(hd, h[r]) /\ SameHolds(hd, h[r])
    BY <1>1, MeteredIs
  <1>3. ~h[r].streamed
    BY <1>1, Answering
  <1> HIDE DEF hd
  <1>4. hd.surface \notin Routes
    BY <1>1, <1>2 DEF SameRequest, Completions, Routes
  <1>5. ~Owes(hd, View(r), StatusOf(code))
    BY <1>2, <1>3, <1>4 DEF Owes, MayLackPrice
  <1>6. Ripe(hd, View(r), StatusOf(code))
    BY <1>2, <1>5 DEF Ripe
  <1>7. /\ g \in Handler /\ g.pc = "returning" /\ Settled(g, View(r))
        /\ SameRequest(g, hd) /\ SameHolds(g, hd)
    BY <1>2, <1>6, RecordedIs
  <1> HIDE DEF g
  <1>8. SameRequest(g, h[r]) /\ SameHolds(g, h[r]) /\ Judged(g, View(r)) /\ g.pc # "new"
    BY <1>2, <1>7 DEF SameRequest, SameHolds, Judged
  <1>q. QED BY <1>1, <1>7, <1>8, QuietTurn

LEMMA RelayEndsTurns ==
    ASSUME IInv, NEW r \in Requests, NEW code, NEW priced \in BOOLEAN, NEW admitted,
           RelayEnds(r, code, priced, admitted)
    PROVE  \E hd : Turn(r, hd)
  <1> DEFINE d == View(r)
             hd == [h[r] EXCEPT !.charges = @ + Charge(r), !.capture = Captures(r),
                                !.cost = priced]
             g == IF d.axis = "credit" THEN withGenerationCost(r, hd, code, admitted)
                  ELSE Recorded(hd, code)
  <1>1. /\ h[r].pc = "relay" /\ h[r].pc # "new" /\ h[r].surface \in Completions
        /\ Becomes(r, g) /\ UNCHANGED <<size, docs, Pools>>
    BY DEF RelayEnds, Pipelined
  <1>2. /\ hd \in Handler /\ Booked(hd, d)
        /\ hd.events = 0 /\ hd.lookup = "no" /\ hd.filled = 0 /\ hd.missed = 0
        /\ hd.answered /\ hd.streamed = h[r].streamed
        /\ SameRequest(hd, h[r]) /\ SameHolds(hd, h[r])
    BY <1>1, MeteredIs
  <1>3. h[r].streamed /\ Granted(h[r], d)
    BY <1>1, Answering
  <1> HIDE DEF hd
  <1>4. /\ g \in Handler /\ g.pc = "returning" /\ Settled(g, d)
        /\ SameRequest(g, hd) /\ SameHolds(g, hd)
    <2>1. CASE d.axis = "credit"
      <3>1. g = withGenerationCost(r, hd, code, admitted)
        BY <2>1
      <3>2. d.credential = "held"
        BY <1>1, <1>3, <2>1 DEF Granted
      <3> HIDE DEF g
      <3>q. QED BY <1>2, <1>3, <2>1, <3>1, <3>2, CostIs
    <2>2. CASE d.axis # "credit"
      <3>1. g = Recorded(hd, code)
        BY <2>2
      <3>2. hd.surface \notin Routes
        BY <1>1, <1>2 DEF SameRequest, Completions, Routes
      <3>3. ~Owes(hd, d, StatusOf(code))
        BY <2>2, <3>2 DEF Owes, MayLackPrice
      <3>4. Ripe(hd, d, StatusOf(code))
        BY <1>2, <3>3 DEF Ripe
      <3> HIDE DEF g
      <3>q. QED BY <1>2, <3>1, <3>4, RecordedIs
    <2>q. QED BY <2>1, <2>2
  <1> HIDE DEF g
  <1>5. SameRequest(g, h[r]) /\ SameHolds(g, h[r]) /\ Judged(g, d) /\ g.pc # "new"
    BY <1>2, <1>4 DEF SameRequest, SameHolds, Judged
  <1>q. QED BY <1>1, <1>4, <1>5, QuietTurn

\* The answer is read and is to be written.
LEMMA ToWrite ==
    ASSUME IInv, NEW r \in Requests, h[r].pc = "answer", NEW g \in Handler,
           g.pc = "write", g.answered = h[r].answered, g.admitted = h[r].admitted,
           SameRequest(g, h[r]), SameLedger(g, h[r])
    PROVE  Judged(g, View(r))
  <1> DEFINE d == View(r)
  <1>1. /\ h[r].answered /\ Unsettled(h[r]) /\ Entered(h[r], d) /\ Granted(h[r], d)
        /\ Metered(h[r], d)
    BY Answering
  <1> HIDE DEF d
  <1>2. g.surface = h[r].surface
    BY DEF SameRequest
  <1>3. Unsettled(g) /\ Entered(g, d) /\ Granted(g, d) /\ g.answered
    BY <1>1, <1>2, SameParts DEF Unsettled, SameLedger
  <1>4. Metered(g, d)
    BY <1>1, <1>2, SameParts DEF Metered, Unspent, SameLedger
  <1>s. ~g.streamed
    BY Answering DEF SameLedger
  <1>5. Working(g, d)
    BY <1>3, <1>4, <1>s DEF Working
  <1>q. QED BY <1>5 DEF Judged, d

LEMMA SmallAnswer ==
    ASSUME IInv, NEW r \in Requests, h[r].pc = "answer",
           Becomes(r, [h[r] EXCEPT !.pc = "write"]), UNCHANGED <<size, docs, Pools>>
    PROVE  \E hd : Turn(r, hd)
  <1>1. ASSUME NEW g \in Handler, g.pc = "write", g.answered = h[r].answered,
               SameRequest(g, h[r]), SameHolds(g, h[r]), SameLedger(g, h[r])
        PROVE  Judged(g, View(r))
    <2>1. g.admitted = h[r].admitted
      BY <1>1 DEF SameHolds
    <2>q. QED BY <1>1, <2>1, ToWrite
  <1>2. "write" \in Places
    BY DEF Places
  <1>q. QED BY <1>1, <1>2, GoesOn

LEMMA ReadAnswerTurns ==
    ASSUME IInv, NEW r \in Requests, NEW length, ReadAnswer(r, length)
    PROVE  \E hd : Turn(r, hd)
  <1>1. /\ h[r].pc = "answer" /\ h[r].pc # "new" /\ size' = size /\ docs' = docs
        /\ inFlight' = inFlight /\ passLarge' = passLarge /\ running' = running
        /\ h[r].surface \in Completions
    BY DEF ReadAnswer, Pipelined
  <1>2. h[r] \in Handler /\ ~h[r].large /\ ~h[r].capture
    BY <1>1, Answering DEF Unsettled
  <1>3. CASE length = "small"
    <2>1. Becomes(r, [h[r] EXCEPT !.pc = "write"]) /\ UNCHANGED <<size, docs, Pools>>
      BY <1>1, <1>3 DEF ReadAnswer, Pools
    <2>q. QED BY <1>1, <2>1, SmallAnswer
  <1>4. CASE length # "small" /\ ~(chatLarge < size.chat)
    <2>1. /\ Becomes(r, Recorded([h[r] EXCEPT !.charges = @ + Charge(r)], "response_too_large"))
          /\ UNCHANGED <<size, docs, Pools>>
      BY <1>1, <1>4 DEF ReadAnswer, Pools
    <2>q. QED BY <1>1, <2>1, ChargedEnds
  <1>5. CASE length # "small" /\ chatLarge < size.chat
    <2> DEFINE hd == [h[r] EXCEPT !.large = TRUE]
               n == Charge(r)
               ch == [hd EXCEPT !.charges = n]
               g == IF length = "large" THEN [hd EXCEPT !.pc = "write"]
                    ELSE Recorded(ch, "response_too_large")
    <2>1. /\ hd \in Handler /\ hd.large = TRUE /\ hd.inFlight = h[r].inFlight
          /\ hd.admitted = h[r].admitted /\ hd.answered = h[r].answered
          /\ SameRequest(hd, h[r]) /\ SameLedger(hd, h[r])
      BY <1>2, HoldsLarge
    <2>2. hd.charges + n = n /\ n \in Nat
      <3>1. hd.charges = h[r].charges
        BY <2>1 DEF SameLedger
      <3>q. QED BY <1>1, <3>1, FirstCharge
    <2>3. [hd EXCEPT !.charges = @ + Charge(r)] = ch
      BY <2>2
    <2>4. Becomes(r, g) /\ chatLarge' = chatLarge + 1
      BY <1>5, <2>3 DEF ReadAnswer
    <2> HIDE DEF hd, n
    <2>5. /\ g \in Handler /\ g.pc # "new" /\ Judged(g, View(r))
          /\ SameRequest(g, h[r]) /\ SameHolds(g, hd)
      <3>1. CASE length = "large"
        <4>1. g = [hd EXCEPT !.pc = "write"]
          BY <3>1
        <4> HIDE DEF g
        <4>2. /\ g \in Handler /\ g.pc = "write" /\ g.answered = hd.answered
              /\ SameRequest(g, hd) /\ SameHolds(g, hd) /\ SameLedger(g, hd)
          BY <2>1, <4>1, Moved DEF Places
        <4>3. /\ g.answered = h[r].answered /\ g.admitted = h[r].admitted
              /\ SameRequest(g, h[r]) /\ SameLedger(g, h[r])
          BY <2>1, <4>2 DEF SameRequest, SameHolds, SameLedger
        <4>q. QED BY <1>1, <4>2, <4>3, ToWrite
      <3>2. CASE length # "large"
        <4>1. g = Recorded(ch, "response_too_large")
          BY <3>2
        <4> HIDE DEF g
        <4>2. /\ ch \in Handler /\ ch.charges = n /\ ch.capture = hd.capture
              /\ ch.spent = hd.spent /\ ch.lookup = hd.lookup /\ ch.events = hd.events
              /\ ch.answered = hd.answered /\ SameRequest(ch, hd) /\ SameHolds(ch, hd)
              /\ SamePrice(ch, hd)
          BY <2>1, <2>2, WasCharged
        <4> HIDE DEF ch
        <4>3. /\ SameRequest(ch, h[r]) /\ ch.answered = h[r].answered
              /\ ch.events = h[r].events /\ ch.lookup = h[r].lookup
              /\ ch.spent = h[r].spent /\ ch.charges = Charge(r) /\ ~ch.capture
              /\ ch.filled = h[r].filled /\ ch.missed = h[r].missed
              /\ ch.streamed = h[r].streamed
          BY <1>2, <2>1, <4>2 DEF SameRequest, SameLedger, SamePrice, n
        <4>4. Ripe(ch, View(r), StatusOf("response_too_large"))
          BY <1>1, <4>2, <4>3, ChargedIsRipe
        <4>5. /\ g \in Handler /\ g.pc = "returning" /\ Settled(g, View(r))
              /\ SameRequest(g, ch) /\ SameHolds(g, ch)
          BY <4>1, <4>2, <4>4, RecordedIs
        <4>q. QED BY <4>2, <4>3, <4>5 DEF SameRequest, SameHolds, Judged
      <3>q. QED BY <3>1, <3>2
    <2> HIDE DEF g
    <2>6. g.large /\ (g.inFlight <=> h[r].inFlight) /\ (g.admitted <=> h[r].admitted)
      BY <2>1, <2>5 DEF SameHolds
    <2>7. /\ Moves(h[r].inFlight, g.inFlight, inFlight, inFlight', size.inFlight)
          /\ Moves(h[r].large, g.large, chatLarge, chatLarge', size.chat)
          /\ Moves(h[r].admitted, g.admitted, running, running', running + 1)
      BY <1>1, <1>2, <1>5, <2>4, <2>6 DEF Moves
    <2>8. g.surface \in Completions
      BY <1>1, <2>5 DEF SameRequest
    <2>q. QED BY <1>1, <2>4, <2>5, <2>7, <2>8, HoldTurn
  <1>q. QED BY <1>3, <1>4, <1>5

\* On a route nothing was metered, so the books of an answer are in order.
LEMMA PassedIsBooked ==
    ASSUME IInv, NEW r \in Requests, h[r].pc \in {"answer", "write"},
           h[r].surface \in Routes, NEW g \in Handler,
           SameRequest(g, h[r]), g.answered = h[r].answered,
           g.charges = h[r].charges, g.spent = h[r].spent, g.capture = h[r].capture
    PROVE  Booked(g, View(r)) /\ View(r).credential = "held"
  <1> DEFINE d == View(r)
  <1>1. /\ h[r].answered /\ Unsettled(h[r]) /\ Entered(h[r], d) /\ Granted(h[r], d)
        /\ Metered(h[r], d)
    BY Answering
  <1> HIDE DEF d
  <1>2. g.surface = h[r].surface
    BY DEF SameRequest
  <1>3. Entered(g, d) /\ Granted(g, d) /\ ~metered(g, d) /\ ~metered(h[r], d)
    BY <1>1, <1>2, SameParts DEF metered, Routes
  <1>4. g.spent = 0 /\ g.charges = 0 /\ ~g.capture
    BY <1>1, <1>3 DEF Metered, Unspent, Unsettled
  <1>5. d.credential = "held"
    BY <1>1 DEF Entered
  <1>q. QED BY <1>1, <1>3, <1>4, <1>5 DEF Booked, d

LEMMA FinishIs ==
    ASSUME NEW r, NEW hd \in Handler, NEW code, NEW admitted,
           hd.surface = h[r].surface, hd.surface \in Routes, Booked(hd, View(r)),
           hd.events = 0, hd.lookup = "no", hd.filled = 0, hd.missed = 0,
           hd.answered, ~hd.streamed, View(r).credential = "held"
    PROVE  LET g == Finish(r, hd, code, admitted)
           IN  /\ g \in Handler /\ g.pc = "returning" /\ Settled(g, View(r))
               /\ SameRequest(g, hd) /\ SameHolds(g, hd)
  <1> DEFINE g == Finish(r, hd, code, admitted)
  <1>1. code # "ok" <=> StatusOf(code) # "ok"
    BY DEF StatusOf
  <1>2. CASE LooksUp(r, code)
    <2>1. g = withGenerationCost(r, hd, code, admitted)
      BY <1>2 DEF Finish
    <2>2. readsBody(hd.surface) /\ (StatusOf(code) # "ok" \/ lookupCost(hd.surface))
      BY <1>1, <1>2 DEF LooksUp
    <2> HIDE DEF g
    <2>3. /\ g \in Handler /\ g.pc = "returning" /\ Settled(g, View(r))
          /\ SameRequest(g, hd) /\ SameHolds(g, hd)
      BY <2>1, <2>2, CostIs
    <2>q. QED BY <2>3 DEF g
  <1>3. CASE ~LooksUp(r, code)
    <2>1. g = Recorded(hd, code)
      BY <1>3 DEF Finish
    <2>2. ~Owes(hd, View(r), StatusOf(code))
      BY <1>1, <1>3 DEF Owes, MayLackPrice, LooksUp
    <2>3. Ripe(hd, View(r), StatusOf(code))
      BY <2>2 DEF Ripe
    <2> HIDE DEF g
    <2>4. /\ g \in Handler /\ g.pc = "returning" /\ Settled(g, View(r))
          /\ SameRequest(g, hd) /\ SameHolds(g, hd)
      BY <2>1, <2>3, RecordedIs
    <2>q. QED BY <2>4 DEF g
  <1>q. QED BY <1>2, <1>3

LEMMA PassedEnds ==
    ASSUME IInv, NEW r \in Requests, h[r].pc \in {"answer", "write"},
           h[r].surface \in Routes, NEW hd \in Handler,
           SameRequest(hd, h[r]), SameHolds(hd, h[r]), hd.answered = h[r].answered,
           hd.charges = h[r].charges, hd.spent = h[r].spent, hd.capture = h[r].capture,
           hd.events = h[r].events, hd.lookup = h[r].lookup, hd.filled = h[r].filled,
           hd.missed = h[r].missed, hd.streamed = h[r].streamed,
           NEW code, NEW admitted, Becomes(r, Finish(r, hd, code, admitted)),
           UNCHANGED <<size, docs, Pools>>
    PROVE  \E x : Turn(r, x)
  <1> DEFINE g == Finish(r, hd, code, admitted)
  <1>1. h[r].pc # "new" /\ Unsettled(h[r]) /\ h[r].answered /\ ~h[r].streamed
    BY Answering
  <1>2. Booked(hd, View(r)) /\ View(r).credential = "held"
    BY PassedIsBooked
  <1>3. hd.surface = h[r].surface
    BY DEF SameRequest
  <1>4. /\ g \in Handler /\ g.pc = "returning" /\ Settled(g, View(r))
        /\ SameRequest(g, hd) /\ SameHolds(g, hd)
    BY <1>1, <1>2, <1>3, FinishIs DEF Unsettled
  <1>5. Becomes(r, g)
    OBVIOUS
  <1> HIDE DEF g
  <1>6. Judged(g, View(r)) /\ g.pc # "new" /\ SameRequest(g, h[r]) /\ SameHolds(g, h[r])
    BY <1>4 DEF Judged, SameRequest, SameHolds
  <1>q. QED BY <1>1, <1>4, <1>5, <1>6, QuietTurn

LEMMA PassedEndsAsIs ==
    ASSUME IInv, NEW r \in Requests, h[r].pc \in {"answer", "write"},
           h[r].surface \in Routes, NEW code, NEW admitted,
           Becomes(r, Finish(r, h[r], code, admitted)), UNCHANGED <<size, docs, Pools>>
    PROVE  \E hd : Turn(r, hd)
  <1>1. h[r] \in Handler /\ SameRequest(h[r], h[r]) /\ SameHolds(h[r], h[r])
    BY Answering DEF SameRequest, SameHolds
  <1>q. QED BY <1>1, PassedEnds

LEMMA PassAnswerFailsTurns ==
    ASSUME IInv, NEW r \in Requests, NEW code, NEW admitted,
           PassAnswerFails(r, code, admitted)
    PROVE  \E hd : Turn(r, hd)
  <1>1. /\ h[r].pc \in {"answer", "write"} /\ h[r].surface \in Routes
        /\ Becomes(r, Finish(r, h[r], code, admitted)) /\ UNCHANGED <<size, docs, Pools>>
    BY DEF PassAnswerFails, Passed
  <1>q. QED BY <1>1, PassedEndsAsIs

LEMMA PassWriteAnswerTurns ==
    ASSUME IInv, NEW r \in Requests, NEW code, NEW priced \in BOOLEAN,
           NEW inBody \in BOOLEAN, NEW admitted,
           PassWriteAnswer(r, code, priced, inBody, admitted)
    PROVE  \E hd : Turn(r, hd)
  <1> DEFINE n == h[r].named \/ inBody
             hd == [h[r] EXCEPT !.cost = priced, !.named = n]
  <1>1. /\ h[r].pc \in {"answer", "write"} /\ h[r].surface \in Routes
        /\ Becomes(r, Finish(r, hd, code, admitted)) /\ UNCHANGED <<size, docs, Pools>>
    BY DEF PassWriteAnswer, Passed
  <1>2. h[r] \in Handler /\ n \in BOOLEAN
    BY <1>1, Answering, HandlerFields
  <1> HIDE DEF n
  <1>3. /\ hd \in Handler
        /\ hd.charges = h[r].charges /\ hd.capture = h[r].capture
        /\ hd.spent = h[r].spent /\ hd.lookup = h[r].lookup
        /\ hd.events = h[r].events /\ hd.answered = h[r].answered
        /\ hd.filled = h[r].filled /\ hd.missed = h[r].missed
        /\ hd.streamed = h[r].streamed
        /\ SameRequest(hd, h[r]) /\ SameHolds(hd, h[r])
    <2>1. hd \in Handler
      BY <1>2 DEF Handler
    <2>2. /\ hd.charges = h[r].charges /\ hd.capture = h[r].capture
          /\ hd.spent = h[r].spent /\ hd.lookup = h[r].lookup
          /\ hd.events = h[r].events /\ hd.answered = h[r].answered
      BY <1>2 DEF Handler
    <2>3. /\ hd.filled = h[r].filled /\ hd.missed = h[r].missed
          /\ hd.streamed = h[r].streamed
      BY <1>2 DEF Handler
    <2>4. SameRequest(hd, h[r]) /\ SameHolds(hd, h[r])
      BY <1>2 DEF Handler, SameRequest, SameHolds
    <2>q. QED BY <2>1, <2>2, <2>3, <2>4
  <1> HIDE DEF hd
  <1>q. QED BY <1>1, <1>3, PassedEnds

LEMMA PassReadAnswerTurns ==
    ASSUME IInv, NEW r \in Requests, NEW length \in {"small", "large", "huge", "declaredHuge"},
           NEW admitted, PassReadAnswer(r, length, admitted)
    PROVE  \E hd : Turn(r, hd)
  <1> DEFINE code == "response_too_large"
             hd == [h[r] EXCEPT !.large = TRUE]
             written == [h[r] EXCEPT !.pc = "write", !.large = TRUE]
             tooLarge == Finish(r, hd, code, admitted)
  <1>1. /\ h[r].pc = "answer" /\ h[r].pc # "new" /\ size' = size /\ docs' = docs
        /\ inFlight' = inFlight /\ chatLarge' = chatLarge /\ running' = running
        /\ h[r].surface \in Routes
    BY DEF PassReadAnswer, Passed
  <1>2. h[r] \in Handler
    BY <1>1, Answering
  <1>3. \/ Becomes(r, [h[r] EXCEPT !.pc = "write"]) /\ passLarge' = passLarge
        \/ Becomes(r, Finish(r, h[r], code, admitted)) /\ passLarge' = passLarge
        \/ CanTake(r) /\ Takes(r, written)
        \/ CanTake(r) /\ Takes(r, tooLarge)
    <2>1. CASE length = "small"
      BY <2>1 DEF PassReadAnswer
    <2>2. CASE length = "declaredHuge" \/ (length # "small" /\ ~CanTake(r))
      BY <2>2 DEF PassReadAnswer
    <2>3. CASE length = "large" /\ CanTake(r)
      BY <2>3 DEF PassReadAnswer
    <2>4. CASE length = "huge" /\ CanTake(r)
      BY <2>4 DEF PassReadAnswer
    <2>q. QED BY <2>1, <2>2, <2>3, <2>4
  <1>4. CASE Becomes(r, [h[r] EXCEPT !.pc = "write"]) /\ passLarge' = passLarge
    <2>1. UNCHANGED <<size, docs, Pools>>
      BY <1>1, <1>4 DEF Pools
    <2>q. QED BY <1>1, <1>4, <2>1, SmallAnswer
  <1>5. CASE Becomes(r, Finish(r, h[r], code, admitted)) /\ passLarge' = passLarge
    <2>1. UNCHANGED <<size, docs, Pools>>
      BY <1>1, <1>5 DEF Pools
    <2>q. QED BY <1>1, <1>5, <2>1, PassedEndsAsIs
  <1>6. ASSUME NEW g \in Handler, CanTake(r), Takes(r, g), g.pc # "new",
               Judged(g, View(r)), SameRequest(g, h[r]), g.large,
               g.inFlight = h[r].inFlight, g.admitted = h[r].admitted
        PROVE  \E x : Turn(r, x)
    <2>1. Becomes(r, g) /\ passLarge' = IF h[r].large THEN passLarge ELSE passLarge + 1
      BY <1>6 DEF Takes
    <2>2. ~h[r].large => passLarge < size.pass
      BY <1>6 DEF CanTake
    <2>3. /\ Moves(h[r].inFlight, g.inFlight, inFlight, inFlight', size.inFlight)
          /\ Moves(h[r].large, g.large, passLarge, passLarge', size.pass)
          /\ Moves(h[r].admitted, g.admitted, running, running', running + 1)
      BY <1>1, <1>6, <2>1, <2>2 DEF Moves
    <2>4. g.surface \notin Completions
      BY <1>1, <1>6 DEF SameRequest, Completions, Routes
    <2>q. QED BY <1>1, <1>6, <2>1, <2>3, <2>4, HoldTurn
  <1>7. CASE CanTake(r) /\ Takes(r, written)
    <2>1. /\ written \in Handler /\ written.pc = "write" /\ written.large = TRUE
          /\ written.inFlight = h[r].inFlight /\ written.admitted = h[r].admitted
          /\ written.answered = h[r].answered
          /\ SameRequest(written, h[r]) /\ SameLedger(written, h[r])
      BY <1>2, TookLarge DEF Places
    <2> HIDE DEF written
    <2>2. Judged(written, View(r))
      BY <1>1, <2>1, ToWrite
    <2>q. QED BY <1>6, <1>7, <2>1, <2>2
  <1>8. CASE CanTake(r) /\ Takes(r, tooLarge)
    <2>1. /\ hd \in Handler /\ hd.large = TRUE /\ hd.inFlight = h[r].inFlight
          /\ hd.admitted = h[r].admitted /\ hd.answered = h[r].answered
          /\ SameRequest(hd, h[r]) /\ SameLedger(hd, h[r])
      BY <1>2, HoldsLarge
    <2> HIDE DEF hd
    <2>2. Booked(hd, View(r)) /\ View(r).credential = "held" /\ hd.surface = h[r].surface
      BY <1>1, <2>1, PassedIsBooked DEF SameRequest, SameLedger
    <2>r. /\ hd.events = 0 /\ hd.lookup = "no" /\ hd.filled = 0 /\ hd.missed = 0
          /\ hd.answered /\ ~hd.streamed /\ hd.surface \in Routes
      BY <1>1, <2>1, <2>2, Answering DEF SameLedger, Unsettled
    <2>3. /\ tooLarge \in Handler /\ tooLarge.pc = "returning" /\ Settled(tooLarge, View(r))
          /\ SameRequest(tooLarge, hd) /\ SameHolds(tooLarge, hd)
      BY <2>1, <2>2, <2>r, FinishIs
    <2> HIDE DEF tooLarge
    <2>4. /\ SameRequest(tooLarge, h[r]) /\ tooLarge.large
          /\ tooLarge.inFlight = h[r].inFlight /\ tooLarge.admitted = h[r].admitted
      BY <2>1, <2>3 DEF SameRequest, SameHolds
    <2>5. Judged(tooLarge, View(r))
      BY <2>3 DEF Judged
    <2>q. QED BY <1>6, <1>8, <2>3, <2>4, <2>5
  <1>q. QED BY <1>3, <1>4, <1>5, <1>7, <1>8

-----------------------------------------------------------------------------
(* What comes after the record.                                            *)

LEMMA ReturnTurns ==
    ASSUME IInv, NEW r \in Requests, Return(r)
    PROVE  \E hd : Turn(r, hd)
  <1> DEFINE d == View(r)
             g == [h[r] EXCEPT !.pc = "done", !.inFlight = FALSE,
                               !.large = FALSE, !.admitted = FALSE]
             chat == h[r].surface \in Completions
  <1>1. /\ h[r].pc = "returning" /\ h[r].pc # "new" /\ size' = size /\ docs' = docs
        /\ Becomes(r, g)
    BY DEF Return
  <1>2. /\ inFlight' = inFlight - IF h[r].inFlight THEN 1 ELSE 0
        /\ chatLarge' = chatLarge - IF chat /\ h[r].large THEN 1 ELSE 0
        /\ passLarge' = passLarge - IF ~chat /\ h[r].large THEN 1 ELSE 0
        /\ running' = running - IF h[r].admitted THEN 1 ELSE 0
    BY DEF Return
  <1>3. h[r] \in Handler /\ Settled(h[r], d)
    BY <1>1, Context DEF Judged
  <1>4. /\ g \in Handler /\ g.pc = "done" /\ g.inFlight = FALSE /\ g.large = FALSE
        /\ g.admitted = FALSE /\ g.answered = h[r].answered
        /\ SameRequest(g, h[r]) /\ SameLedger(g, h[r])
    BY <1>3, HasReturned
  <1> HIDE DEF g, d
  <1>5. g.surface = h[r].surface /\ g.keyID = h[r].keyID
    BY <1>4 DEF SameRequest
  <1>6. Spools(g, g.status) = Spools(h[r], h[r].status)
    BY <1>4, <1>5 DEF Spools, SameLedger
  <1>7. Settled(g, d)
    <2>1. Booked(g, d)
      BY <1>3, <1>4, <1>5, SameBooks DEF Settled, SameLedger
    <2>2. Priced(g, d)
      BY <1>3, <1>4, <1>5 DEF Settled, Priced, Owes, MayLackPrice, SameLedger
    <2>q. QED BY <1>3, <1>4, <1>6, <2>1, <2>2 DEF Settled, SameLedger
  <1>8. Judged(g, d) /\ g.pc # "new"
    BY <1>4, <1>7 DEF Judged
  <1>9. inFlight \in Int /\ chatLarge \in Int /\ passLarge \in Int /\ running \in Int
    BY RunningType DEF IInv, Types
  <1>10. /\ Moves(h[r].inFlight, g.inFlight, inFlight, inFlight', size.inFlight)
         /\ Moves(h[r].admitted, g.admitted, running, running', running + 1)
    BY <1>2, <1>4, <1>9 DEF Moves
  <1>11. IF g.surface \in Completions
         THEN Moves(h[r].large, g.large, chatLarge, chatLarge', size.chat)
              /\ passLarge' = passLarge
         ELSE Moves(h[r].large, g.large, passLarge, passLarge', size.pass)
              /\ chatLarge' = chatLarge
    BY <1>2, <1>4, <1>5, <1>9 DEF Moves
  <1>q. QED BY <1>1, <1>4, <1>8, <1>10, <1>11, HoldTurn DEF d

LEMMA LookupTurns ==
    ASSUME IInv, NEW r \in Requests, NEW found \in BOOLEAN, LookupRecords(r, found)
    PROVE  \E hd : Turn(r, hd)
  <1> DEFINE d == View(r)
             n == Spools(h[r], h[r].status)
             hd == [h[r] EXCEPT !.lookup = "done",
                                !.events = @ + Spools(h[r], h[r].status)]
             g == IF found THEN [hd EXCEPT !.cost = TRUE, !.filled = @ + 1]
                  ELSE [hd EXCEPT !.missed = @ + 1]
  <1>1. h[r].lookup = "pending" /\ UNCHANGED <<size, docs, Pools>>
    BY DEF LookupRecords
  <1>2. h[r].pc # "new"
    BY <1>1 DEF IInv, Fate, Fresh, Unsettled
  <1>3. h[r] \in Handler /\ Judged(h[r], d)
    BY <1>2, Context
  <1>4. h[r].pc \in {"returning", "done"} /\ Settled(h[r], d)
    BY <1>1, <1>3 DEF Judged, Working, Unsettled
  <1>5. /\ h[r].events = 0 /\ n \in Nat /\ Owes(h[r], d, h[r].status)
        /\ h[r].filled = 0 /\ h[r].missed = 0 /\ h[r].cost = FALSE
    <2>1. h[r].events = 0 /\ n \in Nat /\ Priced(h[r], d)
      BY <1>1, <1>4 DEF Settled, Spools
    <2>2. Owes(h[r], d, h[r].status) /\ h[r].filled = 0 /\ h[r].missed = 0
      BY <1>1, <2>1 DEF Priced
    <2>3. h[r].cost = FALSE
      BY <1>3, <2>2, HandlerFields DEF Owes
    <2>q. QED BY <2>1, <2>2, <2>3
  <1>6. Becomes(r, g)
    BY DEF LookupRecords
  <1>7. hd = [h[r] EXCEPT !.lookup = "done", !.events = n]
    <2>1. h[r].events + n = n
      BY <1>5
    <2>q. QED BY <2>1
  <1> HIDE DEF n, d, hd
  <1>h. /\ hd \in Handler /\ hd.lookup = "done" /\ hd.events = n /\ hd.pc = h[r].pc
        /\ hd.cost = FALSE /\ hd.filled = 0 /\ hd.missed = 0
        /\ hd.streamed = h[r].streamed /\ hd.named = h[r].named
        /\ hd.answered = h[r].answered /\ hd.status = h[r].status
        /\ hd.capture = h[r].capture /\ hd.spent = h[r].spent
        /\ hd.charges = h[r].charges /\ SameRequest(hd, h[r]) /\ SameHolds(hd, h[r])
    <2>1. hd \in Handler
      BY <1>3, <1>5, <1>7 DEF Handler
    <2>2. /\ hd.lookup = "done" /\ hd.events = n /\ hd.pc = h[r].pc
          /\ hd.cost = FALSE /\ hd.filled = 0 /\ hd.missed = 0
      BY <1>3, <1>5, <1>7 DEF Handler
    <2>3. /\ hd.streamed = h[r].streamed /\ hd.named = h[r].named
          /\ hd.answered = h[r].answered /\ hd.status = h[r].status
      BY <1>3, <1>7 DEF Handler
    <2>4. /\ hd.capture = h[r].capture /\ hd.spent = h[r].spent
          /\ hd.charges = h[r].charges
      BY <1>3, <1>7 DEF Handler
    <2>5. SameRequest(hd, h[r]) /\ SameHolds(hd, h[r])
      BY <1>3, <1>7 DEF Handler, SameRequest, SameHolds
    <2>q. QED BY <2>1, <2>2, <2>3, <2>4, <2>5
  <1>8. /\ g \in Handler /\ g.lookup = "done" /\ g.events = n /\ g.pc = h[r].pc
        /\ IF g.cost THEN g.filled = 1 /\ g.missed = 0 ELSE g.filled = 0 /\ g.missed = 1
        /\ g.streamed = h[r].streamed /\ g.named = h[r].named
        /\ g.answered = h[r].answered /\ g.status = h[r].status
        /\ g.capture = h[r].capture /\ g.spent = h[r].spent /\ g.charges = h[r].charges
        /\ SameRequest(g, h[r]) /\ SameHolds(g, h[r])
    <2>1. CASE found
      <3>1. g = [hd EXCEPT !.cost = TRUE, !.filled = 1]
        <4>1. hd.filled + 1 = 1
          BY <1>h
        <4>q. QED BY <2>1, <4>1
      <3> HIDE DEF g
      <3>2. g \in Handler
        BY <1>h, <3>1 DEF Handler
      <3>3. /\ g.lookup = "done" /\ g.events = n /\ g.pc = h[r].pc
            /\ g.cost /\ g.filled = 1 /\ g.missed = 0
        BY <1>h, <3>1 DEF Handler
      <3>4. /\ g.streamed = h[r].streamed /\ g.named = h[r].named
            /\ g.answered = h[r].answered /\ g.status = h[r].status
        BY <1>h, <3>1 DEF Handler
      <3>5. /\ g.capture = h[r].capture /\ g.spent = h[r].spent
            /\ g.charges = h[r].charges
        BY <1>h, <3>1 DEF Handler
      <3>6. SameRequest(g, h[r]) /\ SameHolds(g, h[r])
        BY <1>h, <3>1 DEF Handler, SameRequest, SameHolds
      <3>q. QED BY <3>2, <3>3, <3>4, <3>5, <3>6
    <2>2. CASE ~found
      <3>1. g = [hd EXCEPT !.missed = 1]
        <4>1. hd.missed + 1 = 1
          BY <1>h
        <4>q. QED BY <2>2, <4>1
      <3> HIDE DEF g
      <3>2. g \in Handler
        BY <1>h, <3>1 DEF Handler
      <3>3. /\ g.lookup = "done" /\ g.events = n /\ g.pc = h[r].pc
            /\ ~g.cost /\ g.filled = 0 /\ g.missed = 1
        BY <1>h, <3>1 DEF Handler
      <3>4. /\ g.streamed = h[r].streamed /\ g.named = h[r].named
            /\ g.answered = h[r].answered /\ g.status = h[r].status
        BY <1>h, <3>1 DEF Handler
      <3>5. /\ g.capture = h[r].capture /\ g.spent = h[r].spent
            /\ g.charges = h[r].charges
        BY <1>h, <3>1 DEF Handler
      <3>6. SameRequest(g, h[r]) /\ SameHolds(g, h[r])
        BY <1>h, <3>1 DEF Handler, SameRequest, SameHolds
      <3>q. QED BY <3>2, <3>3, <3>4, <3>5, <3>6
    <2>q. QED BY <2>1, <2>2
  <1> HIDE DEF g
  <1>9. g.surface = h[r].surface /\ g.keyID = h[r].keyID
    BY <1>8 DEF SameRequest
  <1>10. Booked(g, d)
    BY <1>4, <1>8, <1>9, SameBooks DEF Settled
  <1>11. Spools(g, g.status) = n
    BY <1>8, <1>9 DEF Spools, n
  <1>12. Priced(g, d)
    BY <1>5, <1>8, <1>9 DEF Priced, Owes, MayLackPrice
  <1>13. Settled(g, d)
    BY <1>8, <1>10, <1>11, <1>12 DEF Settled
  <1>14. Judged(g, d) /\ g.pc # "new"
    BY <1>2, <1>4, <1>8, <1>13 DEF Judged
  <1>q. QED BY <1>1, <1>2, <1>6, <1>8, <1>14, QuietTurn DEF d

-----------------------------------------------------------------------------
(* Every step is a turn of one handler, or a reload.                       *)

LEMMA StepTurns ==
    ASSUME IInv, NEW r \in Requests,
           \/ PipelineStep(r) \/ PassthroughStep(r) \/ Return(r)
           \/ \E b \in BOOLEAN : LookupRecords(r, b)
    PROVE  \E hd : Turn(r, hd)
  <1>1. CASE PipelineStep(r)
    <2>1. CASE \E b \in BOOLEAN : Begin(r, b) \/ Limits(r, b) \/ Shape(r, b)
      BY <2>1, BeginTurns, LimitsTurns, ShapeTurns
    <2>9. CASE \E st, n \in BOOLEAN : Headers(r, st, n)
      BY <2>9, HeadersTurns
    <2>2. CASE Slot(r)
      BY <2>2, SlotTurns DEF Slot
    <2>3. CASE \E n \in {"small", "large", "huge"} : DeclaredLength(r, n) \/ ReadAnswer(r, n)
      BY <2>3, LengthTurns, ReadAnswerTurns
    <2>4. CASE \E f \in BodyFaults : ReadBody(r, f)
      BY <2>4, ReadBodyTurns
    <2>5. CASE \E c : CallFails(r, c)
      BY <2>5, CallFailsTurns
    <2>6. CASE \E c : AnswerFails(r, c)
      BY <2>6, AnswerFailsTurns
    <2>7. CASE \E c : \E p \in BOOLEAN : WriteAnswer(r, c, p)
      BY <2>7, WriteAnswerTurns
    <2>8. CASE \E c, b : \E p \in BOOLEAN : RelayEnds(r, c, p, b)
      BY <2>8, RelayEndsTurns
    <2>q. QED BY <1>1, <2>1, <2>2, <2>3, <2>4, <2>5, <2>6, <2>7, <2>8, <2>9
       DEF PipelineStep
  <1>2. CASE PassthroughStep(r)
    <2>1. CASE \E b \in BOOLEAN : PassBegin(r, b)
      BY <2>1, PassBeginTurns
    <2>2. CASE PassSlot(r)
      <3> DEFINE next == IF readsBody(h[r].surface) THEN "length" ELSE "call"
      <3>1. TakeInFlight(r, next)
        BY <2>2 DEF PassSlot
      <3>2. next = "length" \/ (next = "call" /\ h[r].surface = "imageModels")
        BY DEF readsBody
      <3> HIDE DEF next
      <3>q. QED BY <3>1, <3>2, SlotTurns
    <2>3. CASE \E n \in {"small", "large", "huge"} : PassLength(r, n)
      BY <2>3, PassLengthTurns
    <2>4. CASE \E f \in PassBodyFaults : PassReadBody(r, f)
      BY <2>4, PassReadBodyTurns
    <2>5. CASE \E c : PassCallFails(r, c)
      BY <2>5, CallFailsTurns
    <2>6. CASE \E b \in BOOLEAN : PassHeaders(r, b)
      BY <2>6, PassHeadersTurns
    <2>7. CASE \E n \in {"small", "large", "huge", "declaredHuge"}, b \in BOOLEAN :
                 PassReadAnswer(r, n, b)
      BY <2>7, PassReadAnswerTurns
    <2>8. CASE \E c, b : PassAnswerFails(r, c, b)
      BY <2>8, PassAnswerFailsTurns
    <2>9. CASE \E c, b : \E p, i \in BOOLEAN : PassWriteAnswer(r, c, p, i, b)
      BY <2>9, PassWriteAnswerTurns
    <2>q. QED
      BY <1>2, <2>1, <2>2, <2>3, <2>4, <2>5, <2>6, <2>7, <2>8, <2>9 DEF PassthroughStep
  <1>q. QED BY <1>1, <1>2, ReturnTurns, LookupTurns

LEMMA TurnKeeps ==
    ASSUME IInv, NEW r \in Requests, NEW hd, Turn(r, hd)
    PROVE  IInv'
  <1>1. hd \in Handler /\ Fate(hd, docs) /\ size' = size /\ docs' = docs
        /\ h' = [h EXCEPT ![r] = hd] /\ h \in [Requests -> Handler]
    BY DEF Turn, Becomes, IInv, Types
  <1>2. \A q \in Requests : h'[q] = IF q = r THEN hd ELSE h[q]
    BY <1>1
  <1>3. h' \in [Requests -> Handler]
    BY <1>1
  <1>4. \A q \in Requests : Fate(h'[q], docs')
    BY <1>1, <1>2 DEF IInv
  <1>5. inFlight' \in Int /\ chatLarge' \in Int /\ passLarge' \in Int
    BY DEF Turn, Moves, IInv, Types
  <1>6. Types'
    BY <1>1, <1>3, <1>5 DEF IInv, Types
  <1>7. running' = Cardinality(Admitted')
    <2>1. running = Cardinality(Admitted) /\ IsFiniteSet(Admitted) /\ running \in Int
      BY RunningType DEF IInv
    <2>2. Moves(h[r].admitted, hd.admitted, running, running', running + 1)
      BY DEF Turn
    <2>3. CASE (h[r].admitted <=> hd.admitted) /\ running' = running
      <3>1. Admitted' = Admitted
        BY <1>2, <2>3 DEF Admitted
      <3>q. QED BY <2>1, <2>3, <3>1
    <2>4. CASE ~h[r].admitted /\ hd.admitted /\ running' = running + 1
      <3>1. Admitted' = Admitted \cup {r} /\ r \notin Admitted
        BY <1>2, <2>4 DEF Admitted
      <3>q. QED BY <2>1, <2>4, <3>1, FS_AddElement
    <2>5. CASE h[r].admitted /\ ~hd.admitted /\ running' = running - 1
      <3>1. Admitted' = Admitted \ {r} /\ r \in Admitted
        BY <1>2, <2>5 DEF Admitted
      <3>q. QED BY <2>1, <2>5, <3>1, FS_RemoveElement
    <2>q. QED BY <2>2, <2>3, <2>4, <2>5 DEF Moves
  <1>q. QED BY <1>4, <1>6, <1>7 DEF IInv

LEMMA ReloadKeeps ==
    ASSUME IInv, NEW d \in Documents, Reload(d)
    PROVE  IInv'
  <1>1. /\ docs' = Append(docs, d) /\ size' = size /\ h' = h /\ running' = running
        /\ inFlight' = inFlight /\ chatLarge' = chatLarge /\ passLarge' = passLarge
    BY DEF Reload, Pools
  <1>2. docs \in Seq(Document) /\ d \in Document /\ h \in [Requests -> Handler]
    BY HandlersAssumption DEF IInv, Types
  <1>3. /\ docs' \in Seq(Document) /\ Len(docs') = Len(docs) + 1
        /\ \A v \in 1..Len(docs) : docs'[v] = docs[v] /\ v \in 1..Len(docs')
    BY <1>1, <1>2
  <1>4. Types'
    BY <1>1, <1>3 DEF IInv, Types
  <1>5. \A r \in Requests : Fate(h'[r], docs')
    <2> TAKE r \in Requests
    <2>1. h'[r] = h[r] /\ Fate(h[r], docs)
      BY <1>1 DEF IInv
    <2>q. QED BY <1>3, <2>1 DEF Fate
  <1>6. Admitted' = Admitted
    BY <1>1 DEF Admitted
  <1>q. QED BY <1>1, <1>4, <1>5, <1>6 DEF IInv

LEMMA InitIsSafe == Init => IInv
  <1> SUFFICES ASSUME Init PROVE IInv
    OBVIOUS
  <1>1. \A r \in Requests : \E sf \in Surfaces : h[r] = NewHandler(sf)
    BY DEF Init
  <1>2. ASSUME NEW sf \in Surfaces
        PROVE  NewHandler(sf) \in Handler /\ NewHandler(sf).pc = "new" /\ Fresh(NewHandler(sf))
    <2>1. sf \in Completions \cup Routes
      BY HandlersAssumption
    <2>2. NewHandler(sf) \in Handler
      BY <2>1 DEF NewHandler, Handler, Places
    <2>3. NewHandler(sf).pc = "new" /\ Fresh(NewHandler(sf))
      BY DEF NewHandler, Fresh, Unsettled, Unspent
    <2>q. QED BY <2>2, <2>3
  <1>3. \A r \in Requests : h[r] \in Handler /\ h[r].pc = "new" /\ Fresh(h[r])
    BY <1>1, <1>2
  <1>4. h \in [Requests -> Handler]
    <2>1. h \in [Requests -> {NewHandler(sf) : sf \in Surfaces}]
      BY DEF Init
    <2>q. QED BY <1>3, <2>1
  <1>5. docs \in Seq(Document) /\ Len(docs) > 0
    <2>1. PICK d \in Documents : docs = <<d>>
      BY DEF Init
    <2>2. d \in Document
      BY HandlersAssumption
    <2>q. QED BY <2>1, <2>2
  <1>6. size \in [inFlight: Nat \ {0}, chat: Nat, pass: Nat]
    BY HandlersAssumption DEF Init
  <1>7. Types
    BY <1>4, <1>5, <1>6 DEF Init, Types
  <1>8. \A r \in Requests : Fate(h[r], docs)
    BY <1>3 DEF Fate
  <1>9. Admitted = {}
    BY <1>3 DEF Admitted, Fresh, Unspent
  <1>10. running = Cardinality(Admitted)
    BY <1>9, FS_EmptySet DEF Init
  <1>q. QED BY <1>7, <1>8, <1>10 DEF IInv

\* IInv is an invariant: a handler's books are in order at every place of the
\* pipeline and of the passthrough surface, by the document it first read, and
\* the limiter's count is of the handlers it admitted.
THEOREM Invariance == Spec => []IInv
  <1>1. Init => IInv
    BY InitIsSafe
  <1>2. IInv /\ [Next]_vars => IInv'
    <2> SUFFICES ASSUME IInv, [Next]_vars PROVE IInv'
      OBVIOUS
    <2>1. CASE UNCHANGED vars
      BY <2>1 DEF vars, IInv, Types, Admitted
    <2>2. ASSUME NEW r \in Requests,
                 \/ PipelineStep(r) \/ PassthroughStep(r) \/ Return(r)
                 \/ \E b \in BOOLEAN : LookupRecords(r, b)
          PROVE  IInv'
      BY <2>2, StepTurns, TurnKeeps
    <2>3. ASSUME NEW d \in Documents, Reload(d)
          PROVE  IInv'
      BY <2>3, ReloadKeeps
    <2>q. QED BY <2>1, <2>2, <2>3 DEF Next
  <1>q. QED BY <1>1, <1>2, PTL DEF Spec

-----------------------------------------------------------------------------
\* Every path of the handlers leaves one event and at most one charge, and
\* nothing stays running in the limiter.
THEOREM EveryRequestIsAccounted == Spec => []AccountedOnce
  <1>1. IInv => AccountedOnce
    <2> SUFFICES ASSUME IInv PROVE AccountedOnce
      OBVIOUS
    <2>1. running = Cardinality({r \in Requests : h[r].admitted})
      BY DEF IInv, Admitted
    <2>2. ASSUME NEW r \in Requests, Done(r), h[r].lookup # "pending"
          PROVE  LET d == FirstRead(r)
                     m == h[r].surface = "chat" /\ d.axis = "token"
                 IN  /\ h[r].events = IF h[r].keyID \/ h[r].status # "auth_rejected"
                                      THEN 1 ELSE 0
                     /\ h[r].charges = IF m /\ h[r].answered THEN 1 ELSE 0
                     /\ h[r].spent <= 1
                     /\ h[r].spent = 1 => m /\ d.enabled /\ d.grant /\ d.allowed
      <3> DEFINE d == FirstRead(r)
      <3>1. h[r] \in Handler /\ Settled(h[r], d)
        BY <2>2, Context DEF Done, Judged, FirstRead, View
      <3> HIDE DEF d
      <3>2. h[r].events = IF h[r].keyID \/ h[r].status # "auth_rejected" THEN 1 ELSE 0
        BY <2>2, <3>1 DEF Settled, Spools
      <3>3. h[r].charges = IF h[r].surface = "chat" /\ d.axis = "token" /\ h[r].answered
                           THEN 1 ELSE 0
        BY <3>1 DEF Settled, Booked, metered
      <3>4. h[r].spent <= 1
        BY <3>1 DEF Settled, Booked
      <3>5. h[r].spent = 1 => /\ h[r].surface = "chat" /\ d.axis = "token"
                              /\ d.enabled /\ d.grant /\ d.allowed
        BY <3>1 DEF Settled, Booked, metered, Entered, Granted, readsBody
      <3>q. QED BY <3>2, <3>3, <3>4, <3>5 DEF d
    <2>q. QED BY <2>1, <2>2 DEF AccountedOnce
  <1>q. QED BY <1>1, Invariance, PTL

\* An answer is relayed and captured only as the document the request first
\* read allows, whatever was served in the meantime.
THEOREM OneViewPerRequest == Spec => []OneDocument
  <1>1. IInv => OneDocument
    <2> SUFFICES ASSUME IInv, NEW r \in Requests
                 PROVE  LET d == FirstRead(r)
                        IN  /\ h[r].answered =>
                                 /\ d.enabled /\ d.key = "active" /\ d.grant
                                 /\ readsBody(h[r].surface) => d.allowed
                                 /\ d.axis = "token" /\ h[r].surface \in Completions => ~d.quota
                                 /\ d.axis = "credit" \/ h[r].surface \in Routes
                                      => d.credential = "held"
                            /\ h[r].capture => d.record
      BY DEF OneDocument
    <2> DEFINE d == FirstRead(r)
    <2>1. CASE h[r].pc = "new"
      <3>1. ~h[r].answered /\ ~h[r].capture
        BY <2>1 DEF IInv, Fate, Fresh, Unsettled
      <3>q. QED BY <3>1
    <2>2. CASE h[r].pc # "new"
      <3>1. h[r] \in Handler /\ Judged(h[r], d) /\ d \in Document
        BY <2>2, Context DEF FirstRead, View
      <3> HIDE DEF d
      <3>2. h[r].surface \in Completions \cup Routes /\ d.axis \in {"token", "credit"}
        BY <3>1, HandlerFields DEF Document
      <3>3. h[r].answered => Entered(h[r], d) /\ Granted(h[r], d)
        BY <3>1 DEF Judged, Working, Settled, Booked
      <3>4. h[r].answered /\ metered(h[r], d) => ~d.quota
        BY <3>1 DEF Judged, Working, Settled, Booked, Metered
      <3>5. h[r].capture => d.record
        BY <3>1 DEF Judged, Working, Settled, Booked, Unsettled
      <3>6. h[r].answered /\ h[r].surface \in Completions /\ d.axis = "token"
               => metered(h[r], d)
        BY <3>3 DEF Granted, metered
      <3>q. QED BY <3>2, <3>3, <3>4, <3>5, <3>6 DEF Entered, Granted, d
    <2>q. QED BY <2>1, <2>2
  <1>q. QED BY <1>1, Invariance, PTL

\* An answer the vendor may have billed without a price names its cost in the
\* spool, or its gap was counted, whether its lookup was refused or ended empty.
THEOREM UnpricedAnswersAreCounted == Spec => []BilledIsPriced
  <1>1. IInv => BilledIsPriced
    <2> SUFFICES ASSUME IInv, NEW r \in Requests, Done(r), h[r].lookup # "pending"
                 PROVE  LET lacks == /\ h[r].answered /\ h[r].named
                                     /\ MayLackPrice(h[r], FirstRead(r))
                        IN  /\ h[r].missed = IF lacks /\ ~h[r].cost THEN 1 ELSE 0
                            /\ h[r].filled \in (IF lacks /\ h[r].cost THEN {0, 1} ELSE {0})
      BY DEF BilledIsPriced
    <2> DEFINE d == FirstRead(r)
               owes == h[r].answered /\ h[r].named /\ MayLackPrice(h[r], d)
    <2>1. Priced(h[r], d) /\ h[r] \in Handler
      BY Context DEF Done, Judged, Settled, FirstRead, View
    <2>2. h[r].lookup \in {"no", "done"}
      BY <2>1, HandlerFields
    <2>3. Owes(h[r], d, h[r].status) <=> owes /\ ~h[r].cost
      BY DEF Owes, MayLackPrice
    <2>4. CASE h[r].lookup = "no"
      BY <2>1, <2>3, <2>4 DEF Priced
    <2>5. CASE h[r].lookup = "done"
      BY <2>1, <2>5 DEF Priced
    <2>q. QED BY <2>2, <2>4, <2>5
  <1>q. QED BY <1>1, Invariance, PTL

-----------------------------------------------------------------------------
(* The three pools.                                                        *)

\* A turn moves its own handler in or out of a set, or leaves the set alone.
LEMMA HolderMoves ==
    ASSUME NEW H, NEW S \in SUBSET H, NEW T \in SUBSET H, NEW r \in H,
           NEW used \in Int, NEW now, NEW cap, Moves(r \in S, r \in T, used, now, cap),
           \A q \in H \ {r} : q \in S <=> q \in T
    PROVE  \/ S = T /\ now = used
           \/ r \in H \ S /\ used < cap /\ T = S \cup {r} /\ now = used + 1
           \/ r \in S /\ T = S \ {r} /\ now = used - 1
  BY DEF Moves

LEMMA TurnMoves ==
    ASSUME IInv, NEW r \in Requests, NEW hd, Turn(r, hd)
    PROVE  /\ InFlightPool!Next \/ (HoldInFlight' = HoldInFlight /\ inFlight' = inFlight)
           /\ ChatPool!Next \/ (HoldChat' = HoldChat /\ chatLarge' = chatLarge)
           /\ PassPool!Next \/ (HoldPass' = HoldPass /\ passLarge' = passLarge)
  <1>1. /\ h' = [h EXCEPT ![r] = hd] /\ h \in [Requests -> Handler] /\ size' = size
        /\ hd.surface = h[r].surface /\ hd \in Handler
        /\ inFlight \in Int /\ chatLarge \in Int /\ passLarge \in Int
    BY DEF Turn, Becomes, IInv, Types
  <1>2. \A q \in Requests : h'[q] = IF q = r THEN hd ELSE h[q]
    BY <1>1
  <1>3. h[r].surface \in Routes <=> h[r].surface \notin Completions
    <2>1. h[r].surface \in Completions \cup Routes
      BY <1>1, HandlerFields
    <2>q. QED BY <2>1 DEF Completions, Routes
  <1>4. InFlightPool!Next \/ (HoldInFlight' = HoldInFlight /\ inFlight' = inFlight)
    <2>1. /\ r \in HoldInFlight <=> h[r].inFlight
          /\ r \in HoldInFlight' <=> hd.inFlight
          /\ \A q \in Requests \ {r} : q \in HoldInFlight <=> q \in HoldInFlight'
          /\ HoldInFlight \subseteq Requests /\ HoldInFlight' \subseteq Requests
      BY <1>2 DEF HoldInFlight
    <2>2. Moves(r \in HoldInFlight, r \in HoldInFlight', inFlight, inFlight', size.inFlight)
      BY <2>1 DEF Turn, Moves
    <2>3. \/ HoldInFlight = HoldInFlight' /\ inFlight' = inFlight
          \/ /\ r \in Requests \ HoldInFlight /\ inFlight < size.inFlight
             /\ HoldInFlight' = HoldInFlight \cup {r} /\ inFlight' = inFlight + 1
          \/ r \in HoldInFlight /\ HoldInFlight' = HoldInFlight \ {r} /\ inFlight' = inFlight - 1
      BY <1>1, <2>1, <2>2, HolderMoves
    <2>q. QED BY <1>1, <2>3 DEF InFlightPool!Next, InFlightPool!Take, InFlightPool!Give
  <1>5. ChatPool!Next \/ (HoldChat' = HoldChat /\ chatLarge' = chatLarge)
    <2>1. /\ r \in HoldChat <=> (h[r].large /\ h[r].surface \in Completions)
          /\ r \in HoldChat' <=> (hd.large /\ h[r].surface \in Completions)
          /\ \A q \in Requests \ {r} : q \in HoldChat <=> q \in HoldChat'
          /\ HoldChat \subseteq Requests /\ HoldChat' \subseteq Requests
      BY <1>1, <1>2 DEF HoldChat
    <2>2. Moves(r \in HoldChat, r \in HoldChat', chatLarge, chatLarge', size.chat)
      BY <1>1, <2>1 DEF Turn, Moves
    <2>3. \/ HoldChat = HoldChat' /\ chatLarge' = chatLarge
          \/ /\ r \in Requests \ HoldChat /\ chatLarge < size.chat
             /\ HoldChat' = HoldChat \cup {r} /\ chatLarge' = chatLarge + 1
          \/ r \in HoldChat /\ HoldChat' = HoldChat \ {r} /\ chatLarge' = chatLarge - 1
      BY <1>1, <2>1, <2>2, HolderMoves
    <2>q. QED BY <1>1, <2>3 DEF ChatPool!Next, ChatPool!Take, ChatPool!Give
  <1>6. PassPool!Next \/ (HoldPass' = HoldPass /\ passLarge' = passLarge)
    <2>1. /\ r \in HoldPass <=> (h[r].large /\ h[r].surface \notin Completions)
          /\ r \in HoldPass' <=> (hd.large /\ h[r].surface \notin Completions)
          /\ \A q \in Requests \ {r} : q \in HoldPass <=> q \in HoldPass'
          /\ HoldPass \subseteq Requests /\ HoldPass' \subseteq Requests
      <3>1. r \in HoldPass <=> (h[r].large /\ h[r].surface \notin Completions)
        BY <1>3 DEF HoldPass
      <3>2. h'[r] = hd
        BY <1>2
      <3>3. r \in HoldPass' <=> (hd.large /\ hd.surface \in Routes)
        BY <3>2 DEF HoldPass
      <3>4. \A q \in Requests \ {r} : q \in HoldPass <=> q \in HoldPass'
        BY <1>2 DEF HoldPass
      <3>q. QED BY <1>1, <1>3, <3>1, <3>3, <3>4 DEF HoldPass
    <2>2. Moves(r \in HoldPass, r \in HoldPass', passLarge, passLarge', size.pass)
      <3>1. CASE h[r].surface \in Completions
        <4>1. passLarge' = passLarge
          BY <1>1, <3>1 DEF Turn
        <4>q. QED BY <2>1, <3>1, <4>1 DEF Moves
      <3>2. CASE h[r].surface \notin Completions
        <4>1. Moves(h[r].large, hd.large, passLarge, passLarge', size.pass)
          BY <1>1, <3>2 DEF Turn
        <4>q. QED BY <2>1, <3>2, <4>1 DEF Moves
      <3>q. QED BY <3>1, <3>2
    <2>3. \/ HoldPass = HoldPass' /\ passLarge' = passLarge
          \/ /\ r \in Requests \ HoldPass /\ passLarge < size.pass
             /\ HoldPass' = HoldPass \cup {r} /\ passLarge' = passLarge + 1
          \/ r \in HoldPass /\ HoldPass' = HoldPass \ {r} /\ passLarge' = passLarge - 1
      BY <1>1, <2>1, <2>2, HolderMoves
    <2>q. QED BY <1>1, <2>3 DEF PassPool!Next, PassPool!Take, PassPool!Give
  <1>q. QED BY <1>4, <1>5, <1>6

LEMMA StepMoves ==
    ASSUME IInv, [Next]_vars
    PROVE  /\ [InFlightPool!Next]_<<size.inFlight, HoldInFlight, inFlight>>
           /\ [ChatPool!Next]_<<size.chat, HoldChat, chatLarge>>
           /\ [PassPool!Next]_<<size.pass, HoldPass, passLarge>>
  <1>1. size' = size
    <2>1. CASE UNCHANGED vars
      BY <2>1 DEF vars
    <2>2. ASSUME NEW r \in Requests,
                 \/ PipelineStep(r) \/ PassthroughStep(r) \/ Return(r)
                 \/ \E b \in BOOLEAN : LookupRecords(r, b)
          PROVE  size' = size
      BY <2>2, StepTurns DEF Turn
    <2>3. ASSUME NEW d \in Documents, Reload(d)
          PROVE  size' = size
      BY <2>3 DEF Reload
    <2>q. QED BY <2>1, <2>2, <2>3 DEF Next
  <1>2. ASSUME UNCHANGED <<h, Pools>>
        PROVE  /\ HoldInFlight' = HoldInFlight /\ inFlight' = inFlight
               /\ HoldChat' = HoldChat /\ chatLarge' = chatLarge
               /\ HoldPass' = HoldPass /\ passLarge' = passLarge
    BY <1>2 DEF Pools, HoldInFlight, HoldChat, HoldPass
  <1>3. CASE UNCHANGED vars
    BY <1>1, <1>2, <1>3 DEF vars, Pools
  <1>4. ASSUME NEW d \in Documents, Reload(d)
        PROVE  UNCHANGED <<h, Pools>>
    BY <1>4 DEF Reload
  <1>5. ASSUME NEW r \in Requests,
               \/ PipelineStep(r) \/ PassthroughStep(r) \/ Return(r)
               \/ \E b \in BOOLEAN : LookupRecords(r, b)
        PROVE  /\ InFlightPool!Next \/ (HoldInFlight' = HoldInFlight /\ inFlight' = inFlight)
               /\ ChatPool!Next \/ (HoldChat' = HoldChat /\ chatLarge' = chatLarge)
               /\ PassPool!Next \/ (HoldPass' = HoldPass /\ passLarge' = passLarge)
    BY <1>5, StepTurns, TurnMoves
  <1>q. QED BY <1>1, <1>2, <1>3, <1>4, <1>5 DEF Next

\* The in-flight channel and the two pools of large-body slots are pools with
\* one holder per slot, through every refusal, early and deferred release.
THEOREM PoolsAreKept == Spec => PoolsImplemented
  <1>1. Init => InFlightPool!Init /\ ChatPool!Init /\ PassPool!Init
    <2> SUFFICES ASSUME Init PROVE InFlightPool!Init /\ ChatPool!Init /\ PassPool!Init
      OBVIOUS
    <2>1. IInv
      BY InitIsSafe
    <2>2. size.inFlight \in Nat /\ size.chat \in Nat /\ size.pass \in Nat
      BY <2>1 DEF IInv, Types
    <2>3. \A r \in Requests : ~h[r].inFlight /\ ~h[r].large
      <3>1. \A r \in Requests : \E sf \in Surfaces : h[r] = NewHandler(sf)
        BY DEF Init
      <3>2. \A sf \in Surfaces : ~NewHandler(sf).inFlight /\ ~NewHandler(sf).large
        BY DEF NewHandler
      <3>q. QED BY <3>1, <3>2
    <2>4. HoldInFlight = {} /\ HoldChat = {} /\ HoldPass = {}
      BY <2>3 DEF HoldInFlight, HoldChat, HoldPass
    <2>q. QED
      BY <2>2, <2>4 DEF Init, InFlightPool!Init, ChatPool!Init, PassPool!Init
  <1>2. IInv /\ [Next]_vars => /\ [InFlightPool!Next]_<<size.inFlight, HoldInFlight, inFlight>>
                               /\ [ChatPool!Next]_<<size.chat, HoldChat, chatLarge>>
                               /\ [PassPool!Next]_<<size.pass, HoldPass, passLarge>>
    BY StepMoves
  <1>q. QED
    BY <1>1, <1>2, Invariance, PTL
       DEF Spec, PoolsImplemented, InFlightPool!Spec, ChatPool!Spec, PassPool!Spec
=============================================================================
