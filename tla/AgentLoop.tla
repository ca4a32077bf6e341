------------------------------ MODULE AgentLoop ------------------------------
(***************************************************************************)
(* AgentLoop: one turn of the tool-using agent.  RealAgent calls the model *)
(* and executes the tools it asks for, up to a number of rounds; MockAgent *)
(* runs the tools of the intent.  The tools read and change one customer.  *)
(***************************************************************************)
EXTENDS LlmClient, SalesRules

CONSTANTS
  Customers,      \* the profile the customer may have before the turn
  AgentTexts,     \* the texts an agent may be given
  MaxToolRounds

ASSUME RoundsAssumption == MaxToolRounds \in Nat \ {0}

ASSUME ToolsAssumption == Customers \subseteq CustomerProfiles /\ Calls \subseteq Seq(ToolCalls)

VARIABLES
  text,      \* the user's input
  phase,     \* what the agent does next, or how the turn ended
  round,     \* tool rounds that are over
  messages,  \* the conversation sent to the model
  pending,   \* tool calls of this round still to be executed
  results,   \* ids of this round that have a result
  called,    \* tools_called: which tool, whether it succeeded and found somebody
  profile,   \* the customer on disk
  outcome    \* what is said, the intent and the confidence

agentVars == <<client, llm, text, phase, round, messages, pending, results, called, profile, outcome>>

Message(role, kind, ids) == [role |-> role, kind |-> kind, ids |-> ids]

Outcome(says, intent, confidence) == [says |-> says, intent |-> intent, confidence |-> confidence]
NoOutcome == Outcome("nothing", "query", 0)

AgentInit ==
  /\ client \in Clients \cup {ClientOf(env) : env \in Environments}
  /\ llm = NoCall
  /\ text \in AgentTexts
  /\ phase = "start" /\ round = 0
  /\ messages = <<Message("user", "text", <<>>)>>
  /\ pending = <<>> /\ results = <<>> /\ called = <<>>
  /\ profile \in Customers
  /\ outcome = NoOutcome

-----------------------------------------------------------------------------
(* Which agent. *)

\* The tools of an intent, with no customer among their arguments.
IntentTools(intent) ==
  LET Spec(tool) ==
        [id |-> "", name |-> tool, customer_id |-> Absent, customer_name |-> Absent,
         industry |-> Absent, sales_stage |-> Absent, status |-> Absent, aliases |-> Absent,
         score_type |-> "both", extra |-> Absent]
  IN CASE intent = "customer_intake" ->
            <<Spec("customer_memory_search"), Spec("customer_memory_update"), Spec("sales_score_calculator")>>
       [] intent = "meeting_note" -> <<Spec("customer_memory_update"), Spec("sales_score_calculator")>>
       [] intent \in {"query", "email_draft"} -> <<Spec("customer_memory_search")>>
       [] OTHER -> <<>>

\* Agent(): no model that cannot be created, no real agent without a key.
StartAgent ==
  /\ phase = "start"
  /\ IF ~Creates(client) THEN phase' = "raised" /\ UNCHANGED pending
     ELSE IF IsConfigured(client) THEN phase' = "call" /\ UNCHANGED pending
     ELSE phase' = "mock" /\ pending' = IntentTools(RouteIntent(text).intent)
  /\ UNCHANGED <<client, llm, text, round, messages, results, called, profile, outcome>>

\* RealAgent(llm=...) takes any client there is, also one without a key.
StartRealAgent ==
  /\ phase = "start" /\ client.starts /\ RunsWith(client)
  /\ phase' = "call"
  /\ UNCHANGED <<client, llm, text, round, messages, pending, results, called, profile, outcome>>

MockFinish ==
  /\ phase = "mock" /\ pending = <<>>
  /\ LET routed == RouteIntent(text)
     IN outcome' = Outcome("template", routed.intent, routed.confidence)
  /\ phase' = "done"
  /\ UNCHANGED <<client, llm, text, round, messages, pending, results, called, profile>>

-----------------------------------------------------------------------------
(* The tool loop. *)

CallModel ==
  /\ phase = "call"
  /\ StartCall
  /\ phase' = "waiting"
  /\ UNCHANGED <<client, text, round, messages, pending, results, called, profile, outcome>>

Wait ==
  /\ phase = "waiting" /\ CallStep
  /\ UNCHANGED <<text, phase, round, messages, pending, results, called, profile, outcome>>

\* The agent takes the response, and nothing of the call is left.
Replied == phase = "waiting" /\ llm.state = "done"

\* The intent the tools suggest: all three say intake, two a meeting note.
InferIntent ==
  LET names == {called[i].name : i \in DOMAIN called}
      scored == {"sales_score_calculator", "customer_memory_update"} \subseteq names
      searched == "customer_memory_search" \in names
  IN IF called = <<>> THEN [intent |-> "query", confidence |-> 50]
     ELSE IF scored /\ searched THEN [intent |-> "customer_intake", confidence |-> 85]
     ELSE IF scored THEN [intent |-> "meeting_note", confidence |-> 80]
     ELSE IF searched /\ Len(called) = 1 THEN [intent |-> "query", confidence |-> 80]
     ELSE [intent |-> "query", confidence |-> 60]

ModelFails ==
  /\ Replied /\ IsTerminalClientFailure(llm.response)
  /\ outcome' = Outcome("failure", "query", 10)
  /\ phase' = "done" /\ llm' = NoCall
  /\ UNCHANGED <<client, text, round, messages, pending, results, called, profile>>

\* An empty text is replaced: by a note on the tools, or else by an apology.
ModelAnswers ==
  /\ Replied /\ ~IsTerminalClientFailure(llm.response) /\ llm.response.calls = <<>>
  /\ LET says == IF llm.response.text THEN "answer"
                 ELSE IF called # <<>> THEN "tools ran" ELSE "apology"
     IN outcome' = Outcome(says, InferIntent.intent, InferIntent.confidence)
  /\ phase' = "done" /\ llm' = NoCall
  /\ UNCHANGED <<client, text, round, messages, pending, results, called, profile>>

\* What the agent keeps of a ToolResult.
Called(call, result) == [name |-> call.name, success |-> result.success, found |-> result.found]

Ids(calls) == [i \in DOMAIN calls |-> calls[i].id]

ModelAsks ==
  /\ Replied /\ llm.response.calls # <<>>
  /\ messages' = Append(messages, Message("assistant", "tool_use", Ids(llm.response.calls)))
  /\ pending' = llm.response.calls
  /\ results' = <<>>
  /\ phase' = "tools" /\ llm' = NoCall
  /\ UNCHANGED <<client, text, round, called, profile, outcome>>

\* Mutant: only a tool that succeeds has a result for the model.
ExecuteToolSkippingFailures ==
  /\ phase \in {"tools", "mock"} /\ pending # <<>>
  /\ LET call == Head(pending)
         result == Execute(profile, call)
     IN /\ ~result.raises
        /\ called' = Append(called, Called(call, result))
        /\ results' = IF result.success THEN Append(results, call.id) ELSE results
        /\ pending' = Tail(pending)
        /\ profile' = result.profile
  /\ UNCHANGED <<client, llm, text, phase, round, messages, outcome>>

ExecuteTool ==
  /\ phase \in {"tools", "mock"} /\ pending # <<>>
  /\ LET call == Head(pending)
         result == Execute(profile, call)
     IN \/ /\ result.raises
           /\ phase' = "raised"
           /\ UNCHANGED <<pending, results, called, profile>>
        \/ /\ ~result.raises
           /\ called' = Append(called, Called(call, result))
           /\ results' = Append(results, call.id)
           /\ pending' = Tail(pending)
           /\ profile' = result.profile
           /\ UNCHANGED phase
  /\ UNCHANGED <<client, llm, text, round, messages, outcome>>

\* The results of the last round are never sent: the turn ends with a note.
SendResults ==
  /\ phase = "tools" /\ pending = <<>>
  /\ messages' = Append(messages, Message("user", "tool_result", results))
  /\ round' = round + 1
  /\ IF round' < MaxToolRounds
     THEN phase' = "call" /\ UNCHANGED outcome
     ELSE phase' = "done" /\ outcome' = Outcome("tools ran", "query", 50)
  /\ UNCHANGED <<client, llm, text, pending, results, called, profile>>

AgentNext ==
  \/ StartAgent \/ StartRealAgent \/ MockFinish
  \/ CallModel \/ Wait \/ ModelFails \/ ModelAnswers \/ ModelAsks
  \/ ExecuteTool \/ SendResults

AgentSpec == AgentInit /\ [][AgentNext]_agentVars

-----------------------------------------------------------------------------
(* Properties. *)

\* A text, then pairs: what the assistant asked for, and its results in order.
Answered(conversation) ==
  /\ Len(conversation) % 2 = 1
  /\ \A i \in DOMAIN conversation :
       i % 2 = 0 => /\ conversation[i].kind = "tool_use"
                    /\ conversation[i + 1].kind = "tool_result"
                    /\ conversation[i + 1].ids = conversation[i].ids

\* The model never sees a conversation in which a tool it asked for has no
\* result, or another one's result, however many tools failed; it is called at
\* most MaxToolRounds times; and a turn that gives up on the model after tools
\* ran still ends with every result in place
\* (agent.py:200, agent.py:220, agent.py:263).
ToolCallsAreAnswered ==
  /\ phase \in {"call", "waiting", "done"} => Answered(messages)
  /\ phase \in {"call", "waiting"} => round < MaxToolRounds
  /\ phase = "tools" =>
       LET asked == messages[Len(messages)]
       IN asked.kind = "tool_use" /\ asked.ids = results \o Ids(pending)
  /\ Len(messages) <= 2 * MaxToolRounds + 1

\* A tool call that reports failure leaves the stored customer as it was, whatever
\* it changed in memory first; or, if it fails after the save, it leaves a file
\* that no reader takes for a customer, never one with some of the changes.  The
\* stage of a stored customer moves only where the sale may go, and a customer
\* that cannot be loaded is not overwritten (tools/customer_memory.py:199,
\* memory/customer_store.py:72, memory/customer_store.py:322, sales/models.py:84).
FailedChangesAreNeverRead ==
  [][profile' # profile =>
       /\ called'[Len(called')].success \/ ~Readable(profile')
       /\ profile'.stage = profile.stage \/ CanTransition(profile.stage, profile'.stage)
       /\ profile'.version = profile.version + 1
       /\ Readable(profile)]_agentVars

=============================================================================
