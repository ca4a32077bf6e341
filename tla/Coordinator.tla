----------------------------- MODULE Coordinator -----------------------------
(***************************************************************************)
(* Coordinator: one chat turn, from the policy decision over the routers   *)
(* and the task to the answer, with the trace the caller is shown.         *)
(*                                                                         *)
(* The request holds everything the turn reads: where it comes in, the     *)
(* text, the task its body asks for, what a classifier and the knowledge   *)
(* service reply, the knowledge files, and how many customers the turn     *)
(* selects.                                                                *)
(***************************************************************************)
EXTENDS Policy, Retrieval, SalesRules

CONSTANTS
  Requests,  \* the requests a turn may be given
  None       \* no task, no decision, no route, no result

ASSUME NoneAssumption == None \notin Tasks

VARIABLES
  request,
  at,        \* the next step of the turn, or how it ended
  decision,  \* the PolicyDecision
  route,     \* the TaskRoute
  rag,       \* the RagResult of the turn
  trace,     \* the AgentSteps so far
  answer,    \* final_response and confidence
  queries    \* history: what the knowledge service and the store were asked

turnVars == <<request, at, decision, route, rag, trace, answer, queries>>

Step(name, confidence, warnings) ==
  [step_name |-> name, confidence |-> confidence, warnings |-> warnings]

NoAnswer == [body |-> None, prefixed |-> FALSE, hints |-> <<>>, confidence |-> 0]
Answer(body, hints, confidence) ==
  [body |-> body, prefixed |-> FALSE, hints |-> hints, confidence |-> confidence]

RejectionMessage == "rejection_message"

\* Where a turn comes in: the two routes of the HTTP application, the commands of
\* the command line, or a caller of run.
Entries == {"chat", "qa", "cli chat", "cli qa", "cli weekly", "direct"}

ASSUME RequestsAssumption ==
  \A r \in Requests :
    /\ r.entry \in Entries /\ r.task_override \in Tasks \cup {None}
    /\ r.text \in Seq(STRING)
    /\ r.files \in Seq([content : STRING, words : SUBSET STRING, category : SUBSET STRING])
    /\ r.reply.confidence \in Int

\* The task the caller fixes; the question route overrides the body's.
TaskOverride(r) ==
  CASE r.entry \in {"qa", "cli qa"} -> "qa"
    [] r.entry = "cli weekly" -> "weekly_report"
    [] r.entry = "cli chat" -> None
    [] r.entry \in {"chat", "direct"} -> r.task_override

TurnInit ==
  /\ request \in Requests
  /\ at = "policy"
  /\ decision = None /\ route = None /\ rag = None
  /\ trace = <<>> /\ answer = NoAnswer /\ queries = {}

-----------------------------------------------------------------------------
(* run, up to the task. *)

\* The command line exits when it is given no text and reads none.
LacksInput == request.entry \in {"cli chat", "cli qa"} /\ request.text = <<>>

\* ChatService and the command line pass one session, or none: only another
\* caller of run can pass two.
Conflicts == request.entry = "direct" /\ request.session = "conflict"

\* An exit or an exception leaves the turn without an answer.
FailEarly ==
  /\ at = "policy" /\ (LacksInput \/ Conflicts)
  /\ at' = "failed"
  /\ UNCHANGED <<request, decision, route, rag, trace, answer, queries>>

DecidePolicy ==
  /\ at = "policy" /\ ~LacksInput /\ ~Conflicts
  /\ decision' = Decide(request.text, request.classifier)
  /\ trace' = Append(trace, Step("policy_engine", decision'.confidence, decision'.warnings))
  /\ at' = "decided"
  /\ UNCHANGED <<request, route, rag, answer, queries>>

Refuse ==
  /\ at = "decided" /\ decision.status = "BLOCKED"
  /\ answer' = Answer("refusal", <<>>, decision.confidence)
  /\ at' = "done"
  /\ UNCHANGED <<request, decision, route, rag, trace, queries>>

Routed(text, override) ==
  IF override # None THEN Route(override, 100) ELSE RouteTask(text, RouteIntent(text))

RouteRequest ==
  /\ at = "decided" /\ decision.status # "BLOCKED"
  /\ route' = Routed(request.text, TaskOverride(request))
  /\ trace' = Append(trace, Step("router", route'.confidence,
                                 IF decision.status = "UNCERTAIN" THEN <<RejectionMessage>> ELSE <<>>))
  /\ at' = route'.task
  /\ UNCHANGED <<request, decision, rag, answer, queries>>

-----------------------------------------------------------------------------
(* The tasks. *)

\* Every diagnostic is a step of the trace; a step that failed, or that stands
\* in for one, repeats the warnings.
DiagnosticStep(result, d) ==
  Step(d.step_name, IF d.success THEN result.confidence ELSE 0,
       IF ~d.success \/ d.step_name = "local_rag_fallback" THEN result.warnings ELSE <<>>)

Words(text) ==
  {text[i] : i \in DOMAIN text}
    \ (QuoteMarks \cup {"space", "newline", "zero_width", "comma", "full_stop"})

\* _run_qa, for a question and for a podcast.
Query(next, body) ==
  LET result == RagQuery(request.rag, Words(request.text), request.files, request.reply)
      Steps == [i \in DOMAIN result.diagnostics |-> DiagnosticStep(result, result.diagnostics[i])]
  IN /\ queries' = queries \cup {"knowledge"}
     /\ \/ /\ result.raises
           /\ at' = "failed"
           /\ UNCHANGED <<rag, trace, answer>>
        \/ /\ ~result.raises
           /\ rag' = result
           /\ trace' = trace \o Steps
           /\ answer' = Answer(body, result.warnings, result.confidence)
           /\ at' = next
     /\ UNCHANGED <<request, decision, route>>

RunQa == at = "qa" /\ Query("answered", "qa")

BeginPodcast == at = "podcast_script" /\ Query("script", "podcast_script")

\* The script cites the sources but leaves the warnings of the answer out.
WritePodcast ==
  /\ at = "script"
  /\ answer' = Answer("podcast_script", <<>>, rag.confidence)
  /\ trace' = Append(trace, Step("writer_module.podcast", rag.confidence, <<>>))
  /\ at' = "answered"
  /\ UNCHANGED <<request, decision, route, rag, queries>>

\* A task that reads the customers, or nothing, and writes its text itself.
Write(task, step, confidence, reads) ==
  /\ at = task
  /\ answer' = Answer(task, <<>>, confidence)
  /\ trace' = Append(trace, Step(step, confidence, <<>>))
  /\ queries' = queries \cup reads
  /\ at' = "answered"
  /\ UNCHANGED <<request, decision, route, rag>>

RunSalesAnalysis ==
  Write("sales_analysis", "sales_module", IF request.customers > 0 THEN 72 ELSE 35, {"customers"})

RunWeeklyReport ==
  Write("weekly_report", "writer_module.weekly_report",
        IF request.customers > 0 THEN 75 ELSE 30, {"customers"})

RunEmail == Write("email_draft", "writer_module.email", 68, {})

\* The rejection message goes before an answer to an uncertain request.
Finish ==
  /\ at = "answered"
  /\ answer' = IF decision.status = "UNCERTAIN"
               THEN [answer EXCEPT !.prefixed = TRUE, !.confidence = Min({@, decision.confidence})]
               ELSE answer
  /\ at' = "done"
  /\ UNCHANGED <<request, decision, route, rag, trace, queries>>

TurnNext ==
  \/ FailEarly \/ DecidePolicy \/ Refuse \/ RouteRequest
  \/ RunQa \/ BeginPodcast \/ WritePodcast
  \/ RunSalesAnalysis \/ RunWeeklyReport \/ RunEmail \/ Finish

TurnSpec == TurnInit /\ [][TurnNext]_turnVars

-----------------------------------------------------------------------------
(* Properties. *)

\* Between positions i and j no delimiter ends the clause.
SameClause(text, i, j) ==
  \A k \in DOMAIN text : (i < k /\ k < j) \/ (j < k /\ k < i) => text[k] \notin ClauseDelimiters

\* The words that take a risk phrase back: a prohibition ahead of it, or a word
\* of review or discussion, in the clause it stands in.
TakenBack(text, c) ==
  \E i \in DOMAIN text :
    /\ SameClause(text, i, c.first)
    /\ \/ text[i] = "forbid" /\ i < c.first
       \/ text[i] \in {"check", "identify", "why", "what_risk"}

\* Quotation marks around it, and a word of review outside them with no end of a
\* sentence in between.
StandsInQuotes(text, c) ==
  \E p \in DOMAIN QuotePairs : \E i, j \in DOMAIN text :
    /\ i < c.first /\ c.last < j
    /\ text[i] = QuotePairs[p].open /\ text[j] = QuotePairs[p].close
    /\ \E k \in DOMAIN text :
         /\ text[k] \in ReviewMarkers
         /\ \/ k < i /\ \A e \in k..(i - 1) : text[e] \notin SentenceEnds
            \/ j < k /\ \A e \in (j + 1)..k : text[e] \notin SentenceEnds

\* Ways to go on, or to begin, that have nothing to do with the risk phrase.
OtherClauses ==
  {<<"comma", "check", "word">>, <<"but", "forbid">>, <<"full_stop", "why", "violation">>}

\* A risk phrase passes only if its own clause takes it back or it is quoted for
\* review; a request is refused only over a phrase nothing takes back; another
\* clause excuses nothing; and without a phrase only a classifier objects
\* (policy/engine.py:49, policy/stance.py:30, policy/resolver.py:23).
RisksAreHandled ==
  at = "decided" =>
    LET text == Normalized(request.text)
        found == Candidates(text)
        quoted == \E i \in DOMAIN text : text[i] \in QuoteMarks
    IN /\ decision.status = "SAFE" =>
            \A c \in found : TakenBack(text, c) \/ StandsInQuotes(text, c)
       /\ decision.status = "BLOCKED" /\ found # {} =>
            \E c \in found : c.rule.hint = "BLOCKED" /\ ~TakenBack(text, c)
       /\ decision.status = "BLOCKED" /\ found # {} /\ ~quoted =>
            \A other \in OtherClauses :
              Decide(request.text \o other, request.classifier).status = "BLOCKED"
       /\ decision.classifier_used => found = {}
       /\ found = {} /\ request.classifier.kind = "absent" => decision.status = "SAFE"

\* A caller of the question route need not be allowed to read the customers, and
\* whatever the text asks for none are read.
QuestionsReadNoCustomer ==
  request # None /\ request.entry \in {"qa", "cli qa"} => "customers" \notin queries

\* A refused request has touched neither router nor knowledge nor customers.
RefusalsTouchNothing ==
  at = "done" /\ decision.status = "BLOCKED" =>
    answer.body = "refusal" /\ route = None /\ queries = {} /\ Len(trace) = 1

\* What weakens an answer is in it.  A refused request has touched neither router
\* nor knowledge nor customers.  The answer to an uncertain one begins with the
\* rejection message and is no surer than the policy, and the trace shows whether
\* the classifier failed.  After a failed knowledge service the answer claims at
\* most 55%, and the trace shows the failure and why; without any source of its
\* own the local answer claims at most 15%.  And a question never reads the customers
\* (orchestration/coordinator.py:68, 110, 203; rag/factory.py:42; api/app.py:391).
AnswersCarryTheirDoubts ==
  /\ QuestionsReadNoCustomer /\ RefusalsTouchNothing
  /\ at = "done" =>
      /\ trace[1].warnings = decision.warnings
      /\ decision.status = "UNCERTAIN" =>
           /\ answer.prefixed /\ answer.confidence <= decision.confidence
           /\ trace[2].warnings = <<RejectionMessage>>
      /\ "knowledge" \in queries /\ request.rag.provider = "external" /\ request.reply.kind \in Failures =>
           /\ answer.confidence <= 55
           /\ \E i \in DOMAIN trace :
                i > 2 /\ trace[i].confidence = 0 /\ trace[i].warnings # <<>>
           /\ answer.body = "qa" => answer.hints # <<>>
      /\ "knowledge" \in queries /\ rag.provider # "external" /\ rag.sources = 0 =>
           answer.confidence <= 15

=============================================================================
