------------------------------- MODULE Fences -------------------------------
(***************************************************************************)
(* One request judged against one document: build reads the document, the  *)
(* key is authenticated and asked for the grant of the surface, the model  *)
(* resolved, and the fences of the surface look at every place of the body *)
(* that can name a model the vendor bills or reach a capability            *)
(* (serveProtocol and fence.go).                                           *)
(*                                                                         *)
(* A body has, for every such place, a value: a list of names or of tools, *)
(* or that it is absent, null or not readable.  A tool has a type as       *)
(* spelled, the models it names beside its type and in its parameters, a   *)
(* list of its own, and the name of the client function it declares, ""    *)
(* when it is not the envelope of one.                                     *)
(***************************************************************************)
EXTENDS Documents

CONSTANTS RawDocuments,  \* the documents a writer may have written
          Bodies,        \* the request bodies
          Surfaces,      \* the surfaces asked, of DOMAIN fences
          Known          \* the configured upstreams

VARIABLES raw,         \* the document as written
          control,     \* it came from the control plane, not from a file
          surface,     \* the protocol asked
          body,        \* the request's body
          st,          \* the built document
          left,        \* the fences still to run
          pc,          \* where the handler is
          verdict      \* "", "served" or the stage that refused

vars == <<raw, control, surface, body, st, left, pc, verdict>>
given == <<raw, control, surface, body>>

Present(v) == v.is \notin {"absent", "null"}

-----------------------------------------------------------------------------
(***************************************************************************)
(* Names.                                                                  *)
(***************************************************************************)
Lookup(n) == {m \in st.models : m.name = n}

\* An uncatalogued name, when the document names a passthrough upstream.
passthroughModel(n) ==
    IF \/ st.passthroughRef = ""
       \/ IsReservedModelName(n)
       \/ IsPresetModelName(n)
    THEN {}
    ELSE {[name |-> n, ref |-> st.passthroughRef, axis |-> "CREDIT",
           restricted |-> FALSE]}

\* A catalogued name is its entry, any other is what passthrough makes of it.
Resolved(n) == IF Lookup(n) # {} THEN Lookup(n) ELSE passthroughModel(n)

allowsCandidateModel(n) ==
    /\ ~IsPresetModelName(n)
    /\ ~IsReservedModelName(n)
    /\ \E m \in Resolved(n) :
         CreditAxis(m) /\ AllowsModel(st.key, m) /\ ServesCreditModel(st.key, m)

\* A model value: one name or a list of them.
judgeModelValue(v) ==
    \/ ~Present(v)
    \/ v.is = "list" /\ \A i \in DOMAIN v.names : allowsCandidateModel(v.names[i])

onlineNeedsWebSearch(v) ==
    \/ AllowsEndpoint(st.key, "web_search")
    \/ \A i \in DOMAIN v.names : ~isOnlineName(v.names[i])

namesModel(v) == Present(v) /\ v.names # <<>>

-----------------------------------------------------------------------------
(***************************************************************************)
(* Tools.                                                                  *)
(***************************************************************************)
serverToolFamilies ==
    [web_search       |-> "web_search",   image_generation |-> "image_generation",
     advisor          |-> "advisor",      fusion           |-> "fusion",
     subagent         |-> "subagent",     web_fetch        |-> "web_fetch",
     tool_search      |-> "tool_search",  shell            |-> "shell",
     local_shell      |-> "shell",        code_interpreter |-> "code_interpreter",
     apply_patch      |-> "apply_patch"]

ClientTool  == ""
UnknownTool == "unknown"

\* The known tools that have no other spelling than the vendor's.
knownServerTools == {"datetime", "experimental__search_models"}

\* The vendor tool a type runs, whatever its spelling.  A dated bash is a
\* client tool outside the vendor's namespace; there, a name of no family is
\* kept as written, date and all.
canonicalServerTool(t) ==
    CASE t.base = "bash" /\ (t.vendors \/ ~t.dated) -> "bash"
      [] t.base \in DOMAIN serverToolFamilies -> serverToolFamilies[t.base]
      [] OTHER -> IF ~t.vendors THEN ClientTool
                  ELSE IF t.base \in knownServerTools /\ ~t.dated THEN t.base
                  ELSE UnknownTool

Capability(tool) ==
    CASE tool = "image_generation" -> {"images"}
      [] tool = "web_search" -> {"web_search"}
      [] tool \in {"shell", "bash", "code_interpreter"} -> {"containers"}
      [] OTHER -> {}

toolTypeRefusal(tool) ==
    \/ tool = UnknownTool
    \/ \E c \in Capability(tool) : ~AllowsEndpoint(st.key, c)

toolModelParams == {"model", "analysis_models"}

toolModelsRequiredOnFencedKey(tool) ==
    CASE tool = "advisor" -> {"model"}
      [] tool = "fusion"  -> {"model", "analysis_models"}
      [] OTHER -> {}

maxNestedToolDepth == 3

RECURSIVE fenceToolList(_, _)

fenceNested(l, depth) ==
    ~Present(l) \/ (depth < maxNestedToolDepth /\ fenceToolList(l, depth + 1))

fenceTool(t, depth) ==
    LET tool == canonicalServerTool(t.type) IN
    /\ t.readable
    /\ IF t.type.base = "namespace"
       THEN fenceNested(t.tools, depth)
       ELSE \/ tool = ClientTool
            \/ /\ ~toolTypeRefusal(tool)
               /\ \A place \in {t.top, t.parameters}, f \in toolModelParams :
                    judgeModelValue(place[f]) /\ onlineNeedsWebSearch(place[f])
               /\ HasCreditFence(st.key) =>
                    \A f \in toolModelsRequiredOnFencedKey(tool) :
                      namesModel(t.top[f]) \/ namesModel(t.parameters[f])
               /\ fenceNested(t.tools, depth)

fenceToolList(l, depth) ==
    l.is = "list" /\ \A i \in DOMAIN l.tools : fenceTool(l.tools[i], depth)

fenceTools(l, depth) == ~Present(l) \/ fenceToolList(l, depth)

\* allowed_tools carries a list, another object a type; a mode names no tool.
fenceToolChoice(choice) ==
    CASE choice.is \in {"absent", "null", "mode"} -> TRUE
      [] choice.is = "unreadable" -> FALSE
      [] choice.is = "allowed_tools" -> fenceTools(choice.list, 1)
      [] choice.is = "type" ->
           LET tool == canonicalServerTool(choice.type)
           IN  tool = ClientTool \/ ~toolTypeRefusal(tool)

-----------------------------------------------------------------------------
(***************************************************************************)
(* Plugins and the capabilities a body reaches without a route of its own. *)
(***************************************************************************)
fencePlugin(p) ==
    CASE p.id = "unreadable" -> FALSE
      [] p.id = "router" -> ~HasCreditFence(st.key)
      [] p.id = "fusion" ->
           /\ \A f \in toolModelParams :
                judgeModelValue(p.models[f]) /\ onlineNeedsWebSearch(p.models[f])
           /\ HasCreditFence(st.key) =>
                /\ ~p.preset
                /\ Present(p.models["analysis_models"])
                     => p.models["analysis_models"].names # <<>>
           /\ fenceTools(p.tools, 1)
      [] OTHER -> TRUE

\* What the body asks for by its fields alone.
Asked(n) ==
    (IF isOnlineName(n) \/ \E i \in DOMAIN body.models.names :
                             isOnlineName(body.models.names[i])
       THEN {"web_search"} ELSE {})
    \cup (IF body.webSearchOptions THEN {"web_search"} ELSE {})
    \cup UNION {CASE body.plugins[i].id = "web" -> {"web_search"}
                  [] body.plugins[i].id = "file-parser" /\ body.plugins[i].paidPdf
                       -> {"pdf_ocr"}
                  [] OTHER -> {} : i \in DOMAIN body.plugins}
    \cup {CASE k = "image" -> "images" [] k = "audio" -> "speech"
            : k \in body.modalities \ {"text"}}

fenceChatCapabilities(n) ==
    \A c \in Asked(n) : AllowsEndpoint(st.key, c)

-----------------------------------------------------------------------------
(***************************************************************************)
(* The handler.                                                            *)
(***************************************************************************)
ChatFences == <<"preset", "candidates", "tools", "toolChoice", "plugins", "capabilities">>
fences ==
    [chat        |-> ChatFences,
     completions |-> ChatFences,
     messages    |-> <<"preset", "candidates", "fallbacks", "tools", "deferred",
                       "toolChoice", "plugins", "capabilities">>,
     responses   |-> <<"preset", "candidates", "tools", "deferred", "input",
                       "toolChoice", "plugins", "capabilities">>]

\* The name judged: the first candidate when chat's body names no model.
publicModel ==
    IF body.named THEN body.model ELSE body.models.names[1]

Parsed ==
    \/ body.named
    \/ surface = "chat" /\ body.models.is = "list" /\ body.models.names # <<>>

Passes(f) ==
    CASE f = "preset"       -> ~body.preset
      [] f = "candidates"   -> judgeModelValue(body.models)
      [] f = "fallbacks"    -> /\ judgeModelValue(body.fallbacks)
                               /\ onlineNeedsWebSearch(body.fallbacks)
      [] f = "tools"        -> fenceTools(body.tools, 0)
      [] f = "deferred"     -> fenceTools(body.deferred, 0)
      [] f = "input"        -> fenceTools(body.input, 0)
      [] f = "toolChoice"   -> fenceToolChoice(body.toolChoice)
      [] f = "plugins"      -> \A i \in DOMAIN body.plugins : fencePlugin(body.plugins[i])
      [] f = "capabilities" -> fenceChatCapabilities(publicModel)

\* The fields a self-hosted model may be asked with, and client functions.
TokenFields ==
    /\ ~body.preset /\ ~body.webSearchOptions
    /\ body.models.is = "absent" /\ body.fallbacks.is = "absent"
    /\ body.deferred.is = "absent" /\ body.input.is = "absent"
    /\ body.plugins = <<>> /\ body.modalities = {}

\* Every tool declares a client function, and a choice is a mode the standard
\* has or refers to declared functions only.
fenceTokenTools ==
    LET names  == {body.tools.tools[i].fn : i \in DOMAIN body.tools.tools}
        choice == body.toolChoice
    IN  /\ body.tools.is # "unreadable" /\ "" \notin names
        /\ \/ choice.is \in {"absent", "null"}
           \/ choice.is = "mode" /\ choice.plain
           \/ choice.is = "type" /\ choice.fn \in names
           \/ /\ choice.is = "allowed_tools" /\ choice.plain
              /\ choice.list.is = "list" /\ choice.list.tools # <<>>
              /\ \A i \in DOMAIN choice.list.tools : choice.list.tools[i].fn \in names

Init ==
    /\ raw \in RawDocuments
    /\ control \in BOOLEAN
    /\ surface \in Surfaces
    /\ body \in Bodies
    /\ st = build(raw, Known, control)
    /\ left = fences[surface]
    /\ pc = "load"
    /\ verdict = ""

Answer(why) ==
    /\ pc' = "done"
    /\ verdict' = why
    /\ UNCHANGED <<given, st, left>>

GoOn(where) ==
    /\ pc' = where
    /\ UNCHANGED <<given, st, left, verdict>>

\* The document is published, or refused whole.
Load ==
    /\ pc = "load"
    /\ IF st.ok THEN GoOn("authenticate") ELSE Answer("no_document")

\* The service is open and the token is a key that may be used now.
authenticateToken ==
    /\ pc = "authenticate"
    /\ IF ~st.serviceEnabled THEN Answer("disabled")
       ELSE IF st.key.status = "ACTIVE" /\ ~st.key.expired THEN GoOn("grant")
       ELSE Answer("no_key")

\* The surface's own grant, before the body is read: chat for all four.
JudgeSurface ==
    /\ pc = "grant"
    /\ IF AllowsEndpoint(st.key, "chat") THEN GoOn("resolve") ELSE Answer("no_grant")

\* The axis decides what judges the rest.
Resolve ==
    /\ pc = "resolve"
    /\ IF ~Parsed \/ IsPresetModelName(publicModel) \/ Resolved(publicModel) = {}
       THEN Answer("no_model")
       ELSE \E m \in Resolved(publicModel) :
              IF CreditAxis(m) THEN GoOn("credit")
              ELSE IF surface = "chat" THEN GoOn("token")
              ELSE Answer("credit_only")

JudgeToken ==
    /\ pc = "token"
    /\ \E m \in Resolved(publicModel) :
         IF TokenFields /\ AllowsModel(st.key, m) /\ fenceTokenTools
         THEN Answer("served_token") ELSE Answer("token_fields")

JudgeCredit ==
    /\ pc = "credit"
    /\ \E m \in Resolved(publicModel) :
         IF AllowsModel(st.key, m) /\ ServesCreditModel(st.key, m)
         THEN GoOn("fences") ELSE Answer("model_not_allowed")

JudgeFence ==
    /\ pc = "fences" /\ left # <<>>
    /\ IF Passes(Head(left))
       THEN left' = Tail(left) /\ UNCHANGED <<given, st, pc, verdict>>
       ELSE Answer(Head(left))

JudgeCredential ==
    /\ pc = "fences" /\ left = <<>>
    /\ \E m \in Resolved(publicModel) :
         IF CredentialFor(st.key, m.ref) THEN Answer("served")
                                         ELSE Answer("credit_unavailable")

Next == \/ Load \/ authenticateToken \/ JudgeSurface \/ Resolve \/ JudgeToken \/ JudgeCredit
        \/ JudgeFence \/ JudgeCredential

Spec == Init /\ [][Next]_vars

-----------------------------------------------------------------------------
(***************************************************************************)
(* The models route, asked with the same key.                              *)
(***************************************************************************)
\* Mutant of servableModel: the credential is not asked for.
servableModelAnyKey(n) ==
    {m \in Resolved(n) : AllowsModel(st.key, m) /\ ServesCreditModel(st.key, m)}

servableModel(n) ==
    {m \in (IF Lookup(n) # {} THEN Lookup(n)
            ELSE {p \in passthroughModel(n) : CredentialFor(st.key, p.ref)}) :
       AllowsModel(st.key, m) /\ ServesCreditModel(st.key, m)}

-----------------------------------------------------------------------------
(***************************************************************************)
(* What a body reaches, however deep, and what an entry of the document    *)
(* grants, as it was written.                                              *)
(***************************************************************************)
RECURSIVE ToolsIn(_)
ToolsIn(l) ==
    UNION {LET t == l.tools[i] IN
           IF t.type.base = "namespace" THEN ToolsIn(t.tools)
           ELSE IF canonicalServerTool(t.type) = ClientTool THEN {}
           ELSE {t} \cup ToolsIn(t.tools) : i \in DOMAIN l.tools}

FusionPlugins == {body.plugins[i] : i \in {j \in DOMAIN body.plugins :
                                            body.plugins[j].id = "fusion"}}

Places ==
    {body.tools, body.toolChoice.list} \cup {p.tools : p \in FusionPlugins}
    \cup (IF surface \in {"messages", "responses"} THEN {body.deferred} ELSE {})
    \cup (IF surface = "responses" THEN {body.input} ELSE {})

ReachedTools == UNION {ToolsIn(l) : l \in Places}

ReachedNames ==
    {publicModel}
    \cup UNION {Range(v.names) :
          v \in {body.models}
               \cup (IF surface = "messages" THEN {body.fallbacks} ELSE {})
               \cup {t.top[f] : t \in ReachedTools, f \in toolModelParams}
               \cup {t.parameters[f] : t \in ReachedTools, f \in toolModelParams}
               \cup {p.models[f] : p \in FusionPlugins, f \in toolModelParams}}

ReachedTypes ==
    {canonicalServerTool(t.type) : t \in ReachedTools}
    \cup (IF body.toolChoice.is = "type"
          THEN {canonicalServerTool(body.toolChoice.type)} ELSE {})

ReachedCapabilities ==
    UNION {Capability(t) : t \in ReachedTypes}
    \cup (IF \E n \in ReachedNames : isOnlineName(n) THEN {"web_search"} ELSE {})
    \cup Asked(publicModel)

\* The models a written pattern is about: of a vendor, named by their parts.
\* A bare claude name is its vendor's; behind a tilde it is only itself.  The
\* separator before a trailing star does not take a variant of the stem.
About(p, n) ==
    LET vendors == {n.vendor} \cup IF n.vendor = "" /\ n.tildes = 0 /\ n.parts[1] = "claude"
                                   THEN {"anthropic"} ELSE {}
    IN  /\ \E v \in vendors : p.vendor = v \/ (p.vendor = "*" /\ v # "")
        /\ p.variant # "" => p.variant = n.variant
        /\ CASE p.kind = "all"    -> TRUE
             [] p.kind = "exact"  -> n.parts = p.parts
             [] p.kind = "begins" -> /\ Len(p.parts) <= Len(n.parts)
                                     /\ p.parts = SubSeq(n.parts, 1, Len(p.parts))
                                     /\ p.sep /\ n.parts = p.parts => n.variant = ""
             [] p.kind = "ends"   -> \E i \in DOMAIN n.parts :
                                       /\ p.parts = SubSeq(n.parts, i, Len(n.parts))
                                       /\ p.sep => i > 1
             [] OTHER -> FALSE

\* An allowance is for the tildes it spells, a denial also for floating aliases.
Spends(k, n) ==
    /\ n.vendor # Router
    /\ k.allow # <<>> =>
         \E p \in Range(k.allow) :
            About(p, n) /\ (p.vendor = "*" \/ p.tildes = n.tildes)
    /\ ~\E p \in Range(k.deny) :
            About(p, n) /\ (p.vendor = "*" \/ p.tildes \in {0, n.tildes})
    /\ \/ k.allowed # {} /\ n \in k.allowed
       \/ k.allowed = {} /\ ~\E m \in Lookup(n) : m.restricted

Fenced(k) == k.allow # <<>> \/ k.deny # <<>>

\* The entry that speaks for the token: the first of which every line can be
\* read.
Sound(k) ==
    /\ \A p \in Range(k.allow) \cup Range(k.deny) : p.kind # "bad"
    /\ k.status \in {"ACTIVE", "SUSPENDED", "REVOKED"} /\ k.named /\ k.hashed
    /\ \A a, b \in {c \in k.credentials : c.set} : a.ref = b.ref => a = b
Owners == SelectSeq(raw.keys, Sound)

Granted(k, capability) == \E t \in k.endpoints : t.name = capability

\* The surface is open to the entry, whatever it is asked.
Admits(k) ==
    /\ raw.enabled
    /\ k.status = "ACTIVE" /\ ~k.expired
    /\ Granted(k, "chat")

Grants(k) ==
    /\ \A n \in ReachedNames : Spends(k, n)
    /\ \A n \in ReachedNames : ~n.preset /\ \A m \in Lookup(n) : CreditAxis(m)
    /\ \A n \in ReachedNames \ {publicModel} : ~IsReservedModelName(n)
    /\ UnknownTool \notin ReachedTypes
    /\ \A c \in ReachedCapabilities : Granted(k, c)
    /\ ~body.preset
    /\ Fenced(k) =>
         /\ \A p \in Range(body.plugins) : p.id # "router"
         /\ \A p \in FusionPlugins : ~p.preset
         /\ \A t \in ReachedTools :
              \A f \in toolModelsRequiredOnFencedKey(canonicalServerTool(t.type)) :
                 t.top[f].names \o t.parameters[f].names # <<>>

-----------------------------------------------------------------------------
(***************************************************************************)
(* Properties.                                                             *)
(***************************************************************************)

\* What is sent to the vendor was granted: the surface itself, every model the
\* body names and every capability it reaches, in whatever list, spelling and
\* depth, is granted by the token's entry in the document as its writer wrote
\* it, an entry in force with every line of it readable.
AdmittedIsGranted ==
    verdict = "served" => Owners # <<>> /\ Admits(Owners[1]) /\ Grants(Owners[1])

\* A place of the body the fences cannot read, or that is nested too deep.
RECURSIVE Deeper(_, _)
Deeper(l, depth) ==
    \/ l.is = "unreadable"
    \/ \E i \in DOMAIN l.tools :
         LET t == l.tools[i] IN
         \/ ~t.readable
         \/ \E place \in {t.top, t.parameters}, f \in toolModelParams :
              place[f].is = "unreadable"
         \/ Present(t.tools) /\ (depth = 0 \/ Deeper(t.tools, depth - 1))

Unreadable ==
    \/ \E l \in Places : Deeper(l, IF l \in {body.tools, body.deferred, body.input}
                                    THEN 3 ELSE 2)
    \/ body.models.is = "unreadable" \/ body.fallbacks.is = "unreadable"
    \/ body.toolChoice.is = "unreadable"
    \/ \E p \in Range(body.plugins) :
         \/ p.id = "unreadable"
         \/ \E f \in toolModelParams :
              p.models[f].is = "unreadable"
              \/ (Present(p.models[f]) /\ p.models[f].names = <<>>)

\* Nothing else is refused: a token whose entry is in force and has the grant
\* of the surface gets past authentication, and a readable body that only
\* reaches what that entry grants is not turned away by a fence.
RefusalHasACause ==
    /\ verdict \in {"disabled", "no_key", "no_grant"} =>
         Owners = <<>> \/ ~Admits(Owners[1])
    /\ verdict \in {"model_not_allowed"} \cup Range(fences["messages"])
                   \cup Range(fences["responses"]) =>
         Unreadable \/ Owners = <<>> \/ ~Grants(Owners[1])

\* The models route agrees with chat: what chat serves is a model there, and a
\* model there is served by chat to a body that asks for nothing more.
\* Excepted, the route answering for all three, are a key without the chat
\* grant, which may list the models and call none of them; a name that asks
\* for a web search by its suffix; and a catalogued one whose upstream the key
\* has no credential for.  Limits, quotas and a busy gateway are not judged.
PlainBody ==
    /\ TokenFields /\ body.named
    /\ body.tools.is = "absent" /\ body.toolChoice.is = "absent"
KeyTaken == verdict \notin {"no_document", "disabled", "no_key"}
ModelsRouteAgrees ==
    surface = "chat" /\ pc = "done" /\ KeyTaken /\ Parsed =>
        /\ verdict \in {"served", "served_token"} => servableModel(publicModel) # {}
        /\ PlainBody /\ servableModel(publicModel) # {} =>
             \/ verdict \in {"served", "served_token"}
             \/ verdict = "no_grant" /\ ~Granted(Owners[1], "chat")
             \/ verdict = "capabilities" /\ isOnlineName(publicModel)
             \/ verdict = "credit_unavailable" /\ Lookup(publicModel) # {}
=============================================================================
