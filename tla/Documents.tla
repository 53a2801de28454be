----------------------------- MODULE Documents -----------------------------
(***************************************************************************)
(* The authorization document as the gateway reads it (snapshot.go): model *)
(* names and the patterns of the money lists, the questions a key answers  *)
(* about a model, and build, which turns what was written into what is     *)
(* served.                                                                 *)
(*                                                                         *)
(* A model name is cut where the rules look at it: padding and letter case, *)
(* leading tildes, the vendor before the slash ("" for a bare name), the   *)
(* parts of the model between its separators, the variant after the colon, *)
(* and whether a preset is attached.                                       *)
(***************************************************************************)
EXTENDS Integers, Sequences, SequencesExt

Router   == "openrouter"      \* routerVendorPrefix
Reserved == {"pickle", "pnu"} \* reservedModelPrefixes
BareVendor == [claude |-> "anthropic"]

ToLower(n)  == [n EXCEPT !.upper = FALSE]
TrimSpace(n) == [n EXCEPT !.pad = FALSE]
\* Stripping leading tildes stops at a leading space.
TrimTildes(n) == IF n.pad THEN n ELSE [n EXCEPT !.tildes = 0]
BaseName(n) == [n EXCEPT !.variant = ""]

IsRouterModelName(n) == TrimTildes(TrimSpace(n)).vendor = Router

IsReservedModelName(n) ==
    LET l == TrimTildes(n)
    IN  ~l.pad /\ l.tildes = 0 /\ l.vendor = "" /\ Head(l.parts) \in Reserved

IsPresetModelName(n) == n.preset

isOnlineName(n) == n.variant = "online"

-----------------------------------------------------------------------------
(***************************************************************************)
(* The money lists.  A pattern names its vendor ("*" for any) and a model: *)
(* exactly, all of them, or by how it begins or ends; sep says that the    *)
(* author typed a separator next to the star.  Kind "bad" is what is not a *)
(* pattern: a blank, a bare star, a star in the middle.                    *)
(***************************************************************************)
PatternKinds == {"exact", "all", "begins", "ends", "bad"}

creditModelPattern(p) == p.kind # "bad"

segmentMatches(p, n) ==
    CASE p.kind = "all"   -> TRUE
      [] p.kind = "exact" -> p.parts = n.parts /\ p.variant \in {"", n.variant}
      [] p.kind = "begins" ->
           IF p.sep
           THEN \/ IsStrictPrefix(p.parts, n.parts)
                \/ p.parts = n.parts /\ n.variant = ""
           ELSE IsPrefix(p.parts, n.parts)
      [] p.kind = "ends" ->
           IF p.sep THEN IsStrictSuffix(p.parts, n.parts)
                    ELSE IsSuffix(p.parts, n.parts)

\* A pattern or a name that was not normalized first compares as it is spelled.
MatchesCreditModel(p, n) ==
    /\ creditModelPattern(p)
    /\ ~p.upper /\ ~n.upper
    /\ IF p.vendor = "*"
       THEN n.vendor # ""
       ELSE ~n.pad /\ p.vendor = n.vendor /\ p.tildes = n.tildes
    /\ segmentMatches(p, n)

matchesAnyCreditModel(list, n) ==
    \E i \in DOMAIN list : MatchesCreditModel(list[i], n)

\* A bare name under the vendor it resolves to, too.
vendorQualifiedNames(n) ==
    {n} \cup IF n.vendor = "" /\ n.tildes = 0 /\ Head(n.parts) \in DOMAIN BareVendor
             THEN {[n EXCEPT !.vendor = BareVendor[Head(n.parts)]]}
             ELSE {}

-----------------------------------------------------------------------------
(***************************************************************************)
(* What a key answers about a model.                                       *)
(***************************************************************************)
CredentialFor(key, ref) == ref \in key.credentials

AllowsEndpoint(key, capability) == capability \in key.endpoints

AllowsModel(key, m) ==
    IF key.allowed = {} THEN ~m.restricted ELSE m.name \in key.allowed

\* Mutant of HasCreditFence: the catalogue's allow list counts as a money list.
HasAnyFence(key) == key.allow # <<>> \/ key.deny # <<>> \/ key.allowed # {}

HasCreditFence(key) == key.allow # <<>> \/ key.deny # <<>>

CreditAxis(m) == m.axis = "CREDIT"

AllowsCreditModel(key, m) ==
    LET names == vendorQualifiedNames(ToLower(TrimSpace(m.name))) IN
    \/ ~CreditAxis(m)
    \/ /\ ~(HasCreditFence(key) /\ IsRouterModelName(m.name))
       /\ key.allow = <<>> \/ \E n \in names : matchesAnyCreditModel(key.allow, n)
       /\ ~\E n \in names : \/ matchesAnyCreditModel(key.deny, n)
                            \/ matchesAnyCreditModel(key.deny, TrimTildes(n))

ServesCreditModel(key, m) ==
    /\ ~(CreditAxis(m) /\ IsRouterModelName(m.name))
    /\ AllowsCreditModel(key, m)

-----------------------------------------------------------------------------
(***************************************************************************)
(* build.  An entry the gateway cannot act on is dropped when the document *)
(* comes from the control plane and refuses the document when it comes     *)
(* from a file.                                                            *)
(***************************************************************************)
normalizeEndpoints(tokens) == {t.name : t \in {x \in tokens : x.name # ""}}

\* Mutant of normalizeCreditPatterns: the entry goes, not the key.
normalizeCreditPatternsSkips(list) ==
    [ok   |-> TRUE,
     list |-> [i \in DOMAIN SelectSeq(list, creditModelPattern) |->
                 [SelectSeq(list, creditModelPattern)[i] EXCEPT !.upper = FALSE]]]

normalizeCreditPatterns(list) ==
    [ok   |-> \A i \in DOMAIN list : creditModelPattern(list[i]),
     list |-> [i \in DOMAIN list |-> [list[i] EXCEPT !.upper = FALSE]]]

\* Two refs that collide once lowered leave no credential to choose.
credProblem(k) ==
    \E a, b \in k.credentials : a # b /\ a.ref = b.ref /\ a.set /\ b.set

keyProblem(k) ==
    \/ ~k.named
    \/ ~k.hashed
    \/ k.status \notin {"ACTIVE", "SUSPENDED", "REVOKED"}

Usable(k) ==
    /\ ~credProblem(k)
    /\ normalizeCreditPatterns(k.allow).ok
    /\ normalizeCreditPatterns(k.deny).ok
    /\ ~keyProblem(k)

BuiltKey(k) ==
    [status      |-> k.status,
     expired     |-> k.expired,
     allowed     |-> k.allowed,
     allow       |-> normalizeCreditPatterns(k.allow).list,
     deny        |-> normalizeCreditPatterns(k.deny).list,
     endpoints   |-> normalizeEndpoints(k.endpoints),
     credentials |-> {c.ref : c \in {x \in k.credentials : x.set}}]

\* Two entries with one token hash: the first that is usable is the key.
NoKey == [status |-> "none", expired |-> FALSE, allowed |-> {}, allow |-> <<>>, deny |-> <<>>,
          endpoints |-> {}, credentials |-> {}]
keyOf(keys) ==
    LET usable == SelectSeq(keys, Usable)
    IN  IF usable = <<>> THEN NoKey ELSE BuiltKey(Head(usable))

\* An entry by itself: its three required fields, two known words, and the
\* upstreams it names.
readableModel(m, known) ==
    /\ m.complete
    /\ m.visibility \in {"", "PUBLIC", "RESTRICTED"}
    /\ m.axis \in {"", "TOKEN", "CREDIT"}
    /\ m.ref \in known
    /\ m.fallback \in known \cup {""}

\* A name is taken by the first entry accepted under it.
modelProblem(models, i, known) ==
    \/ ~readableModel(models[i], known)
    \/ \E j \in 1..(i - 1) :
         models[j].name = models[i].name /\ readableModel(models[j], known)

BuiltModel(m) == [name |-> m.name, ref |-> m.ref, axis |-> m.axis,
                  restricted |-> m.visibility = "RESTRICTED"]

Dropped(raw, known) ==
    \/ raw.passthroughRef \notin known \cup {""}
    \/ \E i \in DOMAIN raw.models : modelProblem(raw.models, i, known)
    \/ \E i \in DOMAIN raw.keys : ~Usable(raw.keys[i])
    \/ Len(SelectSeq(raw.keys, Usable)) > 1

\* The members build cannot do without: serviceEnabled, models and keys.
build(raw, known, fromControl) ==
    [ok |-> raw.whole /\ (fromControl \/ ~Dropped(raw, known)),
     serviceEnabled |-> raw.enabled,
     passthroughRef |-> IF raw.passthroughRef \in known
                        THEN raw.passthroughRef ELSE "",
     models |-> {BuiltModel(raw.models[i]) :
                   i \in {j \in DOMAIN raw.models : ~modelProblem(raw.models, j, known)}},
     key |-> keyOf(raw.keys)]
=============================================================================
