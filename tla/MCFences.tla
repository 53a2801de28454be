------------------------------ MODULE MCFences ------------------------------
(* Fences on documents, keys and bodies that differ where the rules look. *)
EXTENDS Fences

Named(vendor, parts) ==
    [pad |-> FALSE, upper |-> FALSE, tildes |-> 0, vendor |-> vendor,
     parts |-> parts, variant |-> "", preset |-> FALSE]

Gpt     == Named("openai", <<"gpt", "5">>)
GptPro  == Named("openai", <<"gpt", "5", "pro">>)
Opus    == Named("anthropic", <<"claude", "opus">>)
General == Named("", <<"pickle", "general">>)
Listed  == Named("openai", <<"listed">>)

\* The ways to spell a model, and names that are not one.
NameSet ==
    {Gpt, GptPro, Opus, General, Listed,
     [Gpt EXCEPT !.pad = TRUE, !.upper = TRUE],
     [Gpt EXCEPT !.variant = "nitro"], [Gpt EXCEPT !.variant = "online"],
     [GptPro EXCEPT !.variant = "nitro"],
     [Opus EXCEPT !.tildes = 1], [Opus EXCEPT !.tildes = 2, !.upper = TRUE],
     [Opus EXCEPT !.vendor = ""], [Opus EXCEPT !.vendor = "", !.tildes = 1], [Opus EXCEPT !.vendor = "", !.variant = "nitro"],
     [General EXCEPT !.tildes = 1], [General EXCEPT !.upper = TRUE],
     [General EXCEPT !.pad = TRUE],
     Named(Router, <<"auto">>), [Named(Router, <<"auto">>) EXCEPT !.tildes = 1],
     [Gpt EXCEPT !.preset = TRUE]}

Few == {Gpt, [Opus EXCEPT !.tildes = 1], [Gpt EXCEPT !.variant = "online"], General}

Pattern(vendor, kind, parts, sep) ==
    [upper |-> FALSE, tildes |-> 0, vendor |-> vendor, kind |-> kind,
     parts |-> parts, sep |-> sep, variant |-> ""]
Bad == Pattern("", "bad", <<>>, FALSE)

Lists ==
    {<<>>, <<Bad>>,
     <<[Pattern("openai", "exact", <<"gpt", "5">>, FALSE) EXCEPT !.upper = TRUE]>>,
     <<Pattern("anthropic", "all", <<>>, FALSE)>>,
     <<Pattern("openai", "begins", <<"gpt", "5">>, TRUE)>>,
     <<Pattern("*", "ends", <<"pro">>, TRUE), Bad>>,
     <<Pattern("*", "ends", <<"pro">>, TRUE),
       [Pattern("anthropic", "all", <<>>, FALSE) EXCEPT !.tildes = 1]>>,
     <<[Pattern("openai", "exact", <<"gpt", "5">>, FALSE) EXCEPT !.variant = "nitro"]>>}

Tokens(names) == {[name |-> n] : n \in names}
Money == {[ref |-> "vendor", set |-> TRUE, spelled |-> 1]}
Key(allow, deny) ==
    [status |-> "ACTIVE", named |-> TRUE, hashed |-> TRUE, expired |-> FALSE,
     allowed |-> {}, allow |-> allow, deny |-> deny,
     endpoints |-> Tokens({"chat", "web_search", ""}), credentials |-> Money]
Rich == [Key(<<>>, <<>>) EXCEPT !.endpoints =
           Tokens({"chat", "web_search", "images", "containers", "pdf_ocr", "speech"})]
Uncallable == [Rich EXCEPT !.endpoints = Tokens({"images", "web_search"})]

Row(name, ref, axis, visibility) ==
    [name |-> name, ref |-> ref, fallback |-> "", complete |-> TRUE, axis |-> axis,
     visibility |-> visibility]
Catalogue == <<Row(General, "own", "TOKEN", ""), Row(Listed, "vendor", "CREDIT", "RESTRICTED")>>

Document(keys) == [whole |-> TRUE, enabled |-> TRUE, passthroughRef |-> "vendor",
                   models |-> Catalogue, keys |-> keys]

KeySets ==
    {<<Key(a, d)>> : a \in Lists, d \in Lists}
    \cup {<<Rich>>, <<[Rich EXCEPT !.endpoints = Tokens({"chat"})]>>,
          <<[Rich EXCEPT !.endpoints = {}]>>, <<Uncallable>>, <<Uncallable, Rich>>,
          <<[Rich EXCEPT !.expired = TRUE]>>, <<[Rich EXCEPT !.expired = TRUE], Rich>>,
          <<[Rich EXCEPT !.named = FALSE], Key(<<>>, <<>>)>>,
          <<[Rich EXCEPT !.credentials = {}]>>,
          <<[Rich EXCEPT !.credentials = @ \cup {[ref |-> "vendor", set |-> TRUE, spelled |-> 2]}]>>,
          <<[Rich EXCEPT !.status = "SUSPENDED"]>>, <<[Rich EXCEPT !.status = "odd"]>>,
          <<[Rich EXCEPT !.allowed = {Listed, Gpt, General}]>>,
          <<[Rich EXCEPT !.allow = <<Bad>>], Key(<<>>, <<Pattern("openai", "all", <<>>, FALSE)>>)>>,
          <<Key(<<>>, <<Pattern("openai", "all", <<>>, FALSE)>>), Rich>>}

SomeDocuments ==
    {Document(ks) : ks \in KeySets}
    \cup {[Document(<<Rich>>) EXCEPT !.passthroughRef = "gone"],
          [Document(<<Rich>>) EXCEPT !.whole = FALSE],
          [Document(<<Rich>>) EXCEPT !.enabled = FALSE],
          [Document(<<Rich>>) EXCEPT !.models =
             Catalogue \o <<Row(General, "vendor", "CREDIT", ""), Row(Gpt, "own", "odd", "")>>],
          [Document(<<Rich>>) EXCEPT !.models =
             <<[Row(Gpt, "own", "TOKEN", "") EXCEPT !.fallback = "gone"],
               [Row(GptPro, "own", "TOKEN", "") EXCEPT !.complete = FALSE],
               [Row(General, "own", "TOKEN", "") EXCEPT !.fallback = "vendor"],
               Row(Gpt, "vendor", "CREDIT", "RESTRICTED")>>]}

-----------------------------------------------------------------------------
Absent == [is |-> "absent", names |-> <<>>, tools |-> <<>>]
Value(names) == [Absent EXCEPT !.is = "list", !.names = names]
Values == {Absent, [Absent EXCEPT !.is = "null"], [Absent EXCEPT !.is = "unreadable"],
           Value(<<>>)} \cup {Value(<<n>>) : n \in Few}

NoModels == [f \in toolModelParams |-> Absent]
Type(base) == [vendors |-> FALSE, base |-> base, dated |-> FALSE]
Tool(base) == [type |-> Type(base), readable |-> TRUE, top |-> NoModels,
               parameters |-> NoModels, tools |-> Absent,
               fn |-> IF base = "function" THEN "draw" ELSE ""]
ToolList(tools) == [Absent EXCEPT !.is = "list", !.tools = tools]

\* The tool at the end of a chain of lists.
Leaves ==
    {Tool(b) : b \in {"function", "web_search", "image_generation", "local_shell",
                      "advisor", "code_interpreter"}}
    \cup {[Tool("bash") EXCEPT !.type.dated = d, !.type.vendors = v] :
            d \in BOOLEAN, v \in BOOLEAN}
    \cup {[Tool("files") EXCEPT !.type.vendors = TRUE],
          [Tool("datetime") EXCEPT !.type.vendors = TRUE, !.top["model"] = Value(<<Gpt>>)],
          [Tool("datetime") EXCEPT !.type.vendors = TRUE, !.type.dated = TRUE],
          [Tool("experimental__search_models") EXCEPT !.type.vendors = TRUE],
          Tool("datetime"),
          [Tool("function") EXCEPT !.readable = FALSE, !.fn = ""],
          [Tool("fusion") EXCEPT !.top["model"] = Value(<<Gpt>>),
                                 !.parameters["analysis_models"] = Value(<<GptPro, Gpt>>)]}
    \cup {[Tool("advisor") EXCEPT !.top["model"] = v] : v \in Values}
    \cup {[Tool("subagent") EXCEPT !.parameters["model"] = Value(<<n>>)] : n \in Few}

Wrap(t, by) == [Tool(by) EXCEPT !.tools = ToolList(<<Tool("function"), t>>)]
Wraps(ts) == {Wrap(t, by) : t \in ts, by \in {"namespace", "subagent"}}
Deep == {Tool("web_search"), Tool("web_fetch"),
         [Tool("advisor") EXCEPT !.top["model"] = Value(<<[Opus EXCEPT !.tildes = 1]>>)]}
Chains == Leaves \cup Wraps(Leaves) \cup Wraps(Wraps(Wraps(Deep)))
            \cup {Wrap(Wrap(t, "subagent"), "namespace") : t \in Wraps(Wraps(Deep))}

ListSet == {ToolList(<<t>>) : t \in Chains} \cup {[Absent EXCEPT !.is = "unreadable"]}
FewLists == {ToolList(<<t>>) : t \in Deep \cup Wraps(Wraps(Wraps(Deep)))}

Choice(is) == [is |-> is, plain |-> TRUE, list |-> Absent, type |-> Type("function"), fn |-> ""]
Refer(names) == ToolList([i \in DOMAIN names |-> [Tool("function") EXCEPT !.fn = names[i]]])
ToolChoices == {Choice("mode"), [Choice("mode") EXCEPT !.plain = FALSE],
            Choice("unreadable"),
            [Choice("type") EXCEPT !.type = Type("web_search")]}
           \cup {[Choice("type") EXCEPT !.fn = fn] : fn \in {"draw", "read", ""}}
           \cup {[Choice("allowed_tools") EXCEPT !.list = l] :
                   l \in FewLists \cup {Refer(<<"draw">>), Refer(<<"draw", "read">>), Refer(<<>>)}}
           \cup {[Choice("allowed_tools") EXCEPT !.plain = FALSE, !.list = Refer(<<"draw">>)]}

Plugin(id) == [id |-> id, models |-> NoModels, preset |-> FALSE, tools |-> Absent,
               paidPdf |-> FALSE]
Plugins ==
    {Plugin(id) : id \in {"unreadable", "router", "fusion", "web", "file-parser", "other"}}
    \cup {[Plugin("fusion") EXCEPT !.models["analysis_models"] = v] : v \in Values}
    \cup {[Plugin("fusion") EXCEPT !.tools = l] : l \in FewLists}
    \cup {[Plugin("fusion") EXCEPT !.preset = TRUE],
          [Plugin("file-parser") EXCEPT !.paidPdf = TRUE]}

Ask(n) ==
    [named |-> TRUE, model |-> n, models |-> Absent, fallbacks |-> Absent,
     preset |-> FALSE, tools |-> Absent, deferred |-> Absent, input |-> Absent,
     toolChoice |-> Choice("absent"), plugins |-> <<>>, webSearchOptions |-> FALSE,
     modalities |-> {}]

SomeBodies ==
    {Ask(n) : n \in NameSet}
    \cup {[Ask(Gpt) EXCEPT !.models = Value(<<Gpt, n>>)] : n \in NameSet}
    \cup {[Ask(Gpt) EXCEPT !.named = FALSE, !.models = v] : v \in Values}
    \cup {[Ask(Gpt) EXCEPT !.fallbacks = v] : v \in Values}
    \cup {[Ask(Gpt) EXCEPT !.tools = l] : l \in ListSet}
    \cup {[Ask(Gpt) EXCEPT !.deferred = l] : l \in FewLists}
    \cup {[Ask(Gpt) EXCEPT !.input = l] : l \in FewLists}
    \cup {[Ask(n) EXCEPT !.toolChoice = c] : n \in {Gpt, General}, c \in ToolChoices}
    \cup {[Ask(General) EXCEPT !.tools = l, !.toolChoice = c] :
            l \in {Refer(<<"draw">>), Refer(<<"draw", "">>)}, c \in ToolChoices}
    \cup {[Ask(Gpt) EXCEPT !.plugins = <<Plugin("other"), p>>] : p \in Plugins}
    \cup {[Ask(Gpt) EXCEPT !.preset = TRUE], [Ask(Gpt) EXCEPT !.webSearchOptions = TRUE]}
    \cup {[Ask(Gpt) EXCEPT !.modalities = {"text", k}] : k \in {"image", "audio", "text"}}

AllSurfaces == DOMAIN fences
=============================================================================
