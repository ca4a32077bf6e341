------------------------------ MODULE LlmClient ------------------------------
(***************************************************************************)
(* LlmClient: one call of a language model, with its attempts, its pauses  *)
(* and its deadline, and what the client makes of the provider's reply.    *)
(*                                                                         *)
(* Time is counted in half seconds from the start of the call.  An attempt *)
(* takes one of Durations: the timeout of httpx bounds each wait of an     *)
(* attempt and not the whole of it.                                        *)
(***************************************************************************)
EXTENDS Integers, Sequences, FiniteSetsExt

CONSTANTS
  Environments,           \* the environment variables a process may start with
  Clients,                \* the clients that may be given to an agent
  Calls,                  \* lists of tool calls the model may ask for
  MaxRetries,
  ReadTimeoutMaxRetries,
  RetryBudget,            \* retry_total_budget_seconds
  Deadline,               \* overall_deadline_seconds
  RetryBaseDelay,         \* retry_base_delay, of AnthropicClient only
  Durations,              \* how long an attempt may take
  Latenesses,             \* how much longer than asked a pause may last
  Jitters,
  RetryAfters             \* what Retry-After headers may ask for

ASSUME RetryAssumption ==
  /\ MaxRetries \in Nat /\ ReadTimeoutMaxRetries \in Nat
  /\ RetryBudget \in Nat /\ Deadline \in Nat \ {0} /\ RetryBaseDelay \in Nat
  /\ Durations \subseteq Nat /\ Latenesses \subseteq Nat /\ Jitters \subseteq Nat /\ RetryAfters \subseteq Nat

\* The provers know nothing of powers.
ASSUME PausesAssumption ==
  /\ 2 ^ 0 = 1
  /\ \A n \in 0..MaxRetries : 2 ^ n \in Nat /\ 2 ^ (n + 1) = 2 * 2 ^ n

VARIABLES
  client,  \* the client of the conversation
  llm      \* the call: its state, attempts, times and response

llmVars == <<client, llm>>

-----------------------------------------------------------------------------
(* Profiles and clients. *)

Providers == {"dashscope", "deepseek", "anthropic"}
Profiles == {"lightweight", "standard", "advanced", "evaluator"}

\* What the environment says of the model.  An unknown provider is "other", and
\* keys holds the providers whose key is set.
Environment ==
  [provider : Providers \cup {"other"}, keys : SUBSET Providers, default_profile : Profiles,
   enabled : SUBSET Profiles, thinking : SUBSET Profiles,
   runtime_mode : {"demo", "test", "production"}]

Profile(provider, selectable, capabilities) ==
  [provider |-> provider, configured |-> provider # "not_configured",
   runtime_selectable |-> selectable, capabilities |-> capabilities,
   enable_thinking |-> "thinking" \in capabilities]

DefaultRegistry ==
  [lightweight |-> Profile("not_configured", FALSE, {}),
   standard |-> Profile("dashscope", TRUE, {"chat", "tool_calling", "structured_output"}),
   advanced |-> Profile("dashscope", FALSE, {"chat", "tool_calling", "structured_output"}),
   evaluator |-> Profile("dashscope", FALSE, {"chat", "structured_output", "thinking"})]

\* _build_model_registry: an unknown provider is taken for DashScope here.
BuiltRegistry(env) ==
  [name \in Profiles |->
     IF name = "lightweight" THEN DefaultRegistry[name]
     ELSE [DefaultRegistry[name] EXCEPT
             !.provider = IF name = "standard" /\ env.provider \in Providers THEN env.provider ELSE @,
             !.configured = name \in env.enabled,
             !.enable_thinking = name \in env.thinking]]

\* ModelProfileConfig refuses anything else.
ValidProfile(p) ==
  /\ p.runtime_selectable => p.configured
  /\ p.configured <=> p.provider # "not_configured"
  /\ p.configured => "chat" \in p.capabilities
  /\ p.enable_thinking => "thinking" \in p.capabilities

\* resolve_runtime: the profile the application may run with.
RunsWith(p) == ValidProfile(p) /\ p.configured /\ p.runtime_selectable

\* A registry the process may start with; LLMConfig refuses an unknown provider.
ValidRegistry(env) ==
  LET registry == BuiltRegistry(env)
  IN /\ env.provider \in Providers
     /\ \A name \in Profiles : ValidProfile(registry[name])
     /\ RunsWith(registry.standard) /\ RunsWith(registry[env.default_profile])

\* create_llm_client takes the standard profile, whichever is the default.
ClientOf(env) ==
  LET standard == BuiltRegistry(env).standard
  IN [provider |-> standard.provider, configured |-> standard.configured,
      runtime_selectable |-> standard.runtime_selectable,
      capabilities |-> standard.capabilities, enable_thinking |-> standard.enable_thinking,
      key |-> standard.provider \in env.keys, runtime_mode |-> env.runtime_mode,
      starts |-> ValidRegistry(env)]

\* DeepSeekClient does not define is_configured: the definition at the end of its
\* file is nested, unreachable, in another function.
IsConfigured(c) ==
  /\ c.provider \in {"dashscope", "anthropic"} /\ c.key
  /\ c.provider = "dashscope" => c.configured

\* create_llm_client: a process that must not run without a model fails instead.
Creates(c) == c.starts /\ RunsWith(c) /\ (c.runtime_mode \in {"test", "production"} => IsConfigured(c))

-----------------------------------------------------------------------------
(* Responses. *)

TerminalClientFailures ==
  {"missing_api_key", "unsupported_capability", "invalid_tool_schema", "invalid_tool_call",
   "http_error", "timeout", "invalid_response"}

Response(finish, text, calls) == [finish |-> finish, text |-> text, calls |-> calls]

\* A failure says so in its text.
Failure(reason) == Response(reason, TRUE, <<>>)

NoResponse == Response("none", FALSE, <<>>)

IsTerminalClientFailure(response) == response.finish \in TerminalClientFailures

\* Bodies of a 2xx reply: one that does not parse, one with a tool call that does
\* not, or text (or none) with tool calls (or none).
ParseResponse(body) ==
  CASE body.kind = "malformed" -> Failure("invalid_response")
    [] body.kind = "malformed call" -> Failure("invalid_tool_call")
    [] body.kind = "message" ->
         Response(IF body.calls # <<>> THEN "tool_calls" ELSE "stop", body.text, body.calls)

Bodies ==
  [kind : {"malformed", "malformed call"}, text : {FALSE}, calls : {<<>>}]
    \cup [kind : {"message"}, text : BOOLEAN, calls : Calls]

-----------------------------------------------------------------------------
(* A call. *)

NoCall ==
  [state |-> "idle", attempt |-> 0, elapsed |-> 0, started |-> 0, slept |-> 0,
   read_timeouts |-> 0, response |-> NoResponse]

Done(response) == [llm EXCEPT !.state = "done", !.response = response]

Refused(reason) == [NoCall EXCEPT !.state = "done", !.response = Failure(reason)]
Posted == [NoCall EXCEPT !.state = "posting"]

\* The agent always passes tools.
StartDashScope ==
  /\ client.provider = "dashscope"
  /\ llm' = IF ~client.key THEN Refused("missing_api_key")
            ELSE IF client.enable_thinking \/ ~({"chat", "tool_calling"} \subseteq client.capabilities)
            THEN Refused("unsupported_capability")
            ELSE Posted

StartAnthropic ==
  /\ client.provider = "anthropic"
  /\ llm' = IF client.key THEN Posted ELSE Refused("missing_api_key")

\* It is never configured, whatever its key.
StartDeepSeek ==
  /\ client.provider = "deepseek"
  /\ llm' = Refused("missing_api_key")

StartCall == StartDashScope \/ StartAnthropic \/ StartDeepSeek

Posting(provider) == llm.state = "posting" /\ client.provider = provider

\* The time when an attempt of this duration is over.
After(duration) == llm.elapsed + duration

\* Mutant: each pause has the whole budget.
RetryOrFailPerPause(reason, delay, after, readTimeouts) ==
  LET tried == [llm EXCEPT !.elapsed = after, !.started = llm.elapsed, !.read_timeouts = readTimeouts]
  IN IF llm.attempt >= MaxRetries \/ delay > RetryBudget \/ delay >= Deadline - after
     THEN llm' = [tried EXCEPT !.state = "done", !.response = Failure(reason)]
     ELSE \E late \in Latenesses :
            llm' = [tried EXCEPT !.attempt = @ + 1, !.elapsed = @ + delay + late, !.slept = @ + delay]

\* Another attempt after a pause, unless it is the last or the pause is too long.
RetryOrFail(reason, delay, after, readTimeouts) ==
  LET tried == [llm EXCEPT !.elapsed = after, !.started = llm.elapsed, !.read_timeouts = readTimeouts]
      givesUp == \/ llm.attempt >= MaxRetries
                 \/ delay > RetryBudget - llm.slept
                 \/ delay >= Deadline - after
  IN \/ /\ givesUp
        /\ llm' = [tried EXCEPT !.state = "done", !.response = Failure(reason)]
     \/ /\ ~givesUp
        /\ \E late \in Latenesses :
             llm' = [tried EXCEPT !.attempt = @ + 1, !.elapsed = @ + delay + late, !.slept = @ + delay]

\* _retry_delay without a Retry-After header.
Backoff == {2 ^ llm.attempt + j : j \in Jitters}

End(response, after) ==
  llm' = [llm EXCEPT !.state = "done", !.elapsed = after, !.started = llm.elapsed,
                     !.response = response]

DeadlineExceeded ==
  /\ Posting("dashscope") /\ llm.elapsed >= Deadline
  /\ llm' = Done(Failure("timeout"))

Attempts == Posting("dashscope") /\ llm.elapsed < Deadline

\* A read timeout may have cost an inference: it is repeated less often.
ReadTimeout ==
  /\ Attempts
  /\ \E d \in Durations, delay \in Backoff :
       LET after == After(d)
           count == llm.read_timeouts + 1
       IN IF count > ReadTimeoutMaxRetries
          THEN llm' = [llm EXCEPT !.state = "done", !.elapsed = after, !.started = llm.elapsed,
                                  !.read_timeouts = count, !.response = Failure("timeout")]
          ELSE RetryOrFail("timeout", delay, after, count)

\* ConnectTimeout or ConnectError.
ConnectFails ==
  /\ Attempts
  /\ \E d \in Durations, delay \in Backoff :
       RetryOrFail("timeout", delay, After(d), llm.read_timeouts)

\* 408, 429 or 5xx, with or without a Retry-After header.
RetryableStatus ==
  /\ Attempts
  /\ \E d \in Durations, delay \in Backoff \cup RetryAfters :
       RetryOrFail("http_error", delay, After(d), llm.read_timeouts)

\* Another timeout, another error, a status that is not retried, any exception.
PostFails ==
  /\ Attempts
  /\ \E d \in Durations, reason \in {"timeout", "http_error"} : End(Failure(reason), After(d))

Replies ==
  /\ Attempts
  /\ \E d \in Durations, body \in Bodies : End(ParseResponse(body), After(d))

\* AnthropicClient has neither budget nor deadline: it pauses whatever it costs.
\* An attempt is one call of its library, with what that repeats by itself; and
\* an error the client gives up on is a text like any other.
AnthropicFails ==
  /\ Posting("anthropic")
  /\ \E d \in Durations, retryable \in BOOLEAN :
       LET repeats == retryable /\ llm.attempt < MaxRetries
           delay == RetryBaseDelay * 2 ^ llm.attempt
       IN \/ /\ repeats
             /\ \E late \in Latenesses :
                  llm' = [llm EXCEPT !.attempt = @ + 1, !.elapsed = After(d) + delay + late,
                                     !.started = llm.elapsed, !.slept = @ + delay]
          \/ ~repeats /\ End(Response("error", TRUE, <<>>), After(d))

\* The agent passes max_tool_rounds = 1: the first round is the last one, and a
\* request for tools is returned as the text beside it.
ToolRoundsPerCall == 1

AnthropicReplies ==
  /\ Posting("anthropic")
  /\ \E d \in Durations, text \in BOOLEAN, calls \in Calls :
       End(IF calls # <<>> /\ 0 < ToolRoundsPerCall - 1
           THEN Response("tool_use", text, calls)
           ELSE Response("end_turn", text, <<>>),
           After(d))

CallStep ==
  /\ \/ DeadlineExceeded \/ ReadTimeout \/ ConnectFails \/ RetryableStatus
     \/ PostFails \/ Replies \/ AnthropicFails \/ AnthropicReplies
  /\ UNCHANGED client

-----------------------------------------------------------------------------

\* A call of DashScope repeats a read timeout at most ReadTimeoutMaxRetries times,
\* pauses no longer in all than the budget, begins no attempt at or after the
\* deadline, and so ends at most one attempt or late pause after it.
StaysInBudget ==
  /\ llm.read_timeouts <= ReadTimeoutMaxRetries + 1
  /\ llm.slept <= RetryBudget
  /\ llm.started < Deadline
  /\ llm.elapsed < Deadline \/ \E d \in Durations \cup Latenesses : llm.elapsed < Deadline + d

\* However attempts fail and whatever the server asks for, a call makes at most
\* MaxRetries + 1 attempts.  Only DashScope has a budget and a deadline, and keeps
\* them; a call of Anthropic has paused for just as long as the attempts it made
\* say, doubling from the base delay, however long that is
\* (llm/dashscope_client.py:117, llm/anthropic_client.py:197-221).
RetriesStayInBudget ==
  /\ llm.attempt <= MaxRetries
  /\ llm.state # "idle" =>
       IF client.provider = "dashscope" THEN StaysInBudget
       ELSE llm.slept = RetryBaseDelay * (2 ^ llm.attempt - 1)

=============================================================================
