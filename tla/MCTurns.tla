------------------------------- MODULE MCTurns -------------------------------
EXTENDS Turns

-----------------------------------------------------------------------------
(* Requests: every short text once, and a few texts with everything else. *)

Phrases == {"income", "hundred", "delivery", "fake_case", "contract_risk"}
Markers == {"forbid", "check", "why", "what_risk", "still", "help_me", "violation"}
Marks == {"comma", "full_stop", "but", "open_quote", "close_quote", "space", "zero_width", "newline"}

MCTexts ==
  UNION {[1..n -> Phrases \cup Markers \cup Marks \cup {"word"}] : n \in 0..2}
    \cup {<<a, b, c, d>> : a \in Markers \cup {"open_quote", "word"}, b \in Marks \cup {"word"},
                           c \in {"income", "fake_case", "contract_risk"}, d \in Markers \cup Marks}
    \cup {<<a, "hundred", b, "delivery", c>> : a \in Markers, b \in Marks, c \in {"word", "comma"}}
    \cup {<<a, "open_quote", "fake_case", "close_quote", b, c>> :
            a \in Markers \cup {"word"}, b \in {"word", "full_stop", "comma"}, c \in Markers}
    \cup {<<"open_quote", "word", "close_quote", "fake_case", a, b, "close_quote">> :
            a \in {"word", "full_stop"}, b \in {"check", "help_me", "word"}}
    \cup {<<"quote", "income", "quote", a, b>> : a \in Markers, b \in {"copy", "identify", "write_as"}}

MCTaskTexts ==
  {<<>>, <<"word">>, <<"weekly">>, <<"podcast", "delivery">>, <<"email">>, <<"email", "meeting">>,
   <<"policy", "delivery">>, <<"purchase", "search">>, <<"why", "income">>,
   <<"contract_risk", "delivery">>, <<"fake_case">>}

NoClassifier == [kind |-> "absent", status |-> "SAFE", confidence |-> 0]

MCClassifiers ==
  {NoClassifier, [NoClassifier EXCEPT !.kind = "raises"]}
    \cup {[kind |-> "name", status |-> s, confidence |-> 0] : s \in {"BLOCKED", "bogus"}}
    \cup {[kind |-> "dict", status |-> s, confidence |-> c] :
            s \in {"SAFE", "UNCERTAIN"}, c \in {40, 120}}

File(content, words, category) == [content |-> content, words |-> words, category |-> category]

MCFiles ==
  {<<>>,
   <<File("text", {"delivery"}, {}), File("unreadable", {}, {}), File("text", {"word"}, {"policy"}),
     File("text", {"policy", "delivery"}, {}), File("text", {"delivery", "contract_risk"}, {})>>,
   <<File("no_object", {}, {})>>}

Reply(kind, citations, confidence) ==
  [kind |-> kind, citations |-> citations, confidence |-> confidence]

MCReplies ==
  {Reply("timeout", 0, 0), Reply("missing_answer", 0, 0), Reply("answer", 2, NoConfidence),
   Reply("answer", 0, NoConfidence), Reply("answer", 0, 130)}

Request(entry, input, override, session, classifier, ragConfig, files, reply, customers) ==
  [entry |-> entry, text |-> input, task_override |-> override, session |-> session, classifier |-> classifier,
   rag |-> ragConfig, files |-> files, reply |-> reply, customers |-> customers]

External == [provider |-> "external", fallback_to_local |-> TRUE]

MCRequests ==
  {Request("cli chat", t, None, "agree", NoClassifier, External, <<>>, Reply("timeout", 0, 0), 1) :
     t \in MCTexts}
    \cup {Request(entry, t, None, "agree", c, r, f, e, n) :
            entry \in {"direct", "cli qa"}, t \in MCTaskTexts, c \in MCClassifiers,
            r \in {External, [External EXCEPT !.provider = "local"],
                   [External EXCEPT !.fallback_to_local = FALSE]},
            f \in MCFiles, e \in MCReplies, n \in 0..1}
    \cup {Request(entry, <<"weekly">>, o, s, NoClassifier, External, f, Reply("timeout", 0, 0), 1) :
            entry \in {"chat", "qa", "cli weekly", "direct"}, o \in Tasks \cup {None},
            s \in {"agree", "conflict"}, f \in MCFiles}

-----------------------------------------------------------------------------
(* Agents. *)

Call(id, tool) ==
  [id |-> id, name |-> tool, customer_id |-> "known", customer_name |-> Absent,
   industry |-> Absent, sales_stage |-> Absent, status |-> Absent, aliases |-> Absent, score_type |-> "both",
   extra |-> Absent]

Updating(id) == Call(id, "customer_memory_update")

MCFirst ==
  {Call("t1", "customer_memory_search"), Call("t1", "sales_score_calculator"),
   [Updating("t1") EXCEPT !.customer_name = "n2", !.sales_stage = "quotation"],
   [Updating("t1") EXCEPT !.customer_name = "n2", !.sales_stage = "requirement_confirmation"],
   [Updating("t1") EXCEPT !.sales_stage = "won", !.status = "bogus"],
   [Updating("t1") EXCEPT !.sales_stage = "bogus"],
   [Updating("t1") EXCEPT !.sales_stage = "unhashable"],
   [Updating("t1") EXCEPT !.customer_name = "invalid"],
   [Updating("t1") EXCEPT !.customer_name = "unhashable", !.industry = "trade"],
   [Updating("t1") EXCEPT !.industry = "invalid", !.status = "dormant"],
   [Updating("t1") EXCEPT !.aliases = "invalid"],
   [Updating("t1") EXCEPT !.aliases = "unhashable"]}

MCSecond ==
  {Call("t2", "customer_memory_search"), Call("t2", "unknown tool"),
   [Call("t2", "sales_score_calculator") EXCEPT !.score_type = "health"],
   [Updating("t2") EXCEPT !.status = "dormant", !.aliases = "a2"],
   [Updating("t2") EXCEPT !.industry = "trade"],
   [Updating("t2") EXCEPT !.customer_id = "unknown"],
   [Updating("t2") EXCEPT !.sales_stage = "lead"],
   [Call("t2", "customer_memory_search") EXCEPT !.extra = "name"]}

MCCalls ==
  {<<>>} \cup {<<a>> : a \in MCFirst}
    \cup {<<[Updating("t1") EXCEPT !.customer_name = "n2", !.sales_stage = s], b>> :
            s \in {"requirement_confirmation", "bogus"}, b \in MCSecond}

Facts == [items |-> TRUE, item_budget |-> FALSE, budget |-> TRUE, timeline |-> FALSE,
          cycle |-> TRUE, contacts |-> TRUE, decision_maker |-> FALSE,
          risks |-> <<"low", "high">>, days |-> 5]

MCCustomers ==
  {[name |-> "n1", industry |-> "none", aliases |-> "a1", stage |-> s, status |-> "active", version |-> 1,
    deal |-> NoDeal, health |-> NoHealth, facts |-> Facts] : s \in {"lead", "lost"}}

\* A key for DashScope, and no variable that differs from its default.
Usual ==
  [provider |-> "dashscope", keys |-> {"dashscope"}, default_profile |-> "standard",
   enabled |-> Profiles, thinking |-> {"evaluator"}, runtime_mode |-> "production"]

MCEnvironments ==
  {Usual,
   [Usual EXCEPT !.keys = {}, !.runtime_mode = "demo"],
   [Usual EXCEPT !.keys = {"anthropic"}],
   [Usual EXCEPT !.provider = "anthropic", !.keys = {"anthropic"}],
   [Usual EXCEPT !.provider = "deepseek", !.keys = {"deepseek"}, !.runtime_mode = "demo"],
   [Usual EXCEPT !.provider = "other"],
   [Usual EXCEPT !.thinking = {"standard"}],
   [Usual EXCEPT !.enabled = {"advanced", "evaluator"}],
   [Usual EXCEPT !.default_profile = "advanced"],
   [Usual EXCEPT !.default_profile = "lightweight"]}

\* A DashScope client for a profile that only chats.
MCClients == {[ClientOf(Usual) EXCEPT !.capabilities = {"chat"}, !.runtime_mode = "demo"]}

MCAgentTexts == {<<"purchase">>, <<"meeting">>, <<"email">>, <<"weekly">>}

-----------------------------------------------------------------------------
(* Operations. *)

Production ==
  [runtime |-> "production", enabled |-> TRUE, url |-> TRUE, remote |-> TRUE,
   persistence_mode |-> "postgres", header |-> "required", auto_migrate |-> FALSE,
   echo |-> FALSE, tls |-> "require"]
Demo == [Production EXCEPT !.runtime = "demo", !.remote = FALSE, !.tls = "disable",
                           !.persistence_mode = "unset", !.header = "unset"]

MCConfigs ==
  {Production, [Production EXCEPT !.echo = TRUE], Demo, [Demo EXCEPT !.url = FALSE],
   [Demo EXCEPT !.enabled = FALSE], [Demo EXCEPT !.runtime = "test", !.persistence_mode = "fake"]}

MCCommands ==
  [name : {"audit", "doctor", "integrity"}, apply : {FALSE}, database_confirmed : {FALSE},
   environment_confirmed : {FALSE}, config : MCConfigs]
    \cup [name : {"prune"}, apply : BOOLEAN, database_confirmed : BOOLEAN,
          environment_confirmed : BOOLEAN, config : {Production, Demo, [Demo EXCEPT !.url = FALSE]}]

=============================================================================
