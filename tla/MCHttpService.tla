--------------------------- MODULE MCHttpService ---------------------------
EXTENDS HttpService, TLC

CONSTANTS r1, r2

Settings(runtime, oidc, persistence, header, raw) ==
  [runtime |-> runtime, oidc |-> oidc, persistence |-> persistence,
   header |-> header, raw |-> raw, longKeys |-> raw]

MCConfigs ==
  {Settings("demo", oidc, "null", "optional", FALSE) : oidc \in BOOLEAN}
  \cup {Settings("demo", TRUE, "postgres", "optional", TRUE)}
  \cup {Settings("test", TRUE, "fake", "required", FALSE)}
  \cup {Settings("production", TRUE, "postgres", "required", FALSE)}

\* Two requests of one user for one key, the first with any headers, the second
\* one that is let through.
Plain(token, roles, key) ==
  [operation |-> "v1.chat", token |-> token, user |-> "u", roles |-> roles,
   enabled |-> TRUE, key |-> key]

Various ==
  {Plain(t, {"agent_user"}, k) : t \in {"absent", "accepted"}, k \in {"absent", "malformed", "long", "k"}}
  \cup {Plain("accepted", roles, "absent") : roles \in {{}, {"knowledge_user"}, {"sales_user"}}}
  \cup {Plain("accepted", {"agent_user", "debug_viewer"}, k) : k \in {"absent", "k"}}
  \cup {Plain(t, {}, "absent") : t \in {"malformed", "rejected"}}
  \cup {[Plain("accepted", {"knowledge_user"}, "k") EXCEPT !.operation = "v1.qa"]}
  \cup {[Plain("accepted", {"agent_user"}, "absent") EXCEPT !.enabled = FALSE]}

MCInputs ==
  (r1 :> Various) @@
  (r2 :> {Plain(t, {"agent_user"}, "k") : t \in {"absent", "accepted"}})

=============================================================================
