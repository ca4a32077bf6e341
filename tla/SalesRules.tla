----------------------------- MODULE SalesRules -----------------------------
(***************************************************************************)
(* SalesRules: the rules of the sales domain.  The intent of a text and    *)
(* the task it leads to, the stages of a sale, the two scores of a         *)
(* customer, and the three tools that read and change a stored profile.    *)
(***************************************************************************)
EXTENDS Integers, Sequences, FiniteSets, SequencesExt, FiniteSetsExt

-----------------------------------------------------------------------------
(* Intents and tasks.  A text is a sequence of tokens, as in Policy. *)

Intents == <<"customer_intake", "meeting_note", "query", "email_draft", "report", "podcast_script">>
IntentNames == {Intents[i] : i \in DOMAIN Intents}
Tasks == {"qa", "sales_analysis", "weekly_report", "podcast_script", "email_draft"}

\* One signal of each weight a table gives, or shares with another token.
Signals(intent) ==
  CASE intent = "customer_intake" -> [purchase |-> 2, delivery |-> 1]
    [] intent = "meeting_note" -> [meeting |-> 2]
    [] intent = "query" -> [search |-> 3]
    [] intent = "email_draft" -> [email |-> 2]
    [] intent = "report" -> [weekly |-> 3]
    [] intent = "podcast_script" -> [podcast |-> 3]

ReportSignals == {"weekly"}
PodcastSignals == {"podcast"}
QaSignals == {"why", "contract_risk", "policy"}

\* The rounded percentage; Python rounds a half to the even side.
Rounded(value, divisor) ==
  LET quotient == value \div divisor
      rest == value % divisor
  IN IF 2 * rest > divisor \/ (2 * rest = divisor /\ quotient % 2 = 1)
     THEN quotient + 1 ELSE quotient

IntentScore(text, intent) ==
  LET Weight(token) ==
        IF token \in DOMAIN Signals(intent) THEN Signals(intent)[token] ELSE 0
  IN MapThenSumSet(Weight, {text[i] : i \in DOMAIN text})

\* The first intent of the table among those that score most.  The share of the
\* winner in all scores is never more than its dominance over the runner-up.
RouteIntent(text) ==
  LET scores == [i \in DOMAIN Intents |-> IntentScore(text, Intents[i])]
      best == Max({scores[i] : i \in DOMAIN scores})
      winner == Min({i \in DOMAIN scores : scores[i] = best})
      Score(i) == scores[i]
      total == MapThenSumSet(Score, DOMAIN scores)
      runnerUp == Max({scores[i] : i \in DOMAIN scores \ {winner}})
  IN IF \A i \in DOMAIN text : text[i] \in {"space", "newline"}
     THEN [intent |-> "query", confidence |-> 10]
     ELSE IF total = 0 THEN [intent |-> Intents[winner], confidence |-> 10]
     ELSE [intent |-> Intents[winner],
           confidence |-> Rounded(100 * best, best + runnerUp)]

Route(task, confidence) == [task |-> task, confidence |-> confidence]

RouteTask(text, intent) ==
  LET Has(signals) == \E i \in DOMAIN text : text[i] \in signals
      sure == Max({70, intent.confidence})
  IN IF Has(ReportSignals) THEN Route("weekly_report", 90)
     ELSE IF Has(PodcastSignals) THEN Route("podcast_script", 90)
     ELSE IF intent.intent = "email_draft" THEN Route("email_draft", sure)
     ELSE IF Has(QaSignals) THEN Route("qa", 75)
     ELSE IF intent.intent \in {"customer_intake", "meeting_note"} THEN Route("sales_analysis", sure)
     ELSE Route("sales_analysis", 65)

-----------------------------------------------------------------------------
(* Stages. *)

StageOrder == <<"lead", "requirement_confirmation", "quotation", "negotiation",
                "procurement_approval", "contract_signing">>
TerminalStages == {"won", "lost"}
Stages == {StageOrder[i] : i \in DOMAIN StageOrder} \cup TerminalStages
CustomerStatuses == {"new", "active", "dormant", "churn_risk", "won", "lost"}

NextStages(stage) ==
  {StageOrder[i + 1] : i \in {j \in 1..(Len(StageOrder) - 1) : StageOrder[j] = stage}}

\* A sale may always be lost, won or qualified again, until it is over.
CanTransition(stage, target) ==
  /\ stage \notin TerminalStages
  /\ target \in {"lead"} \cup TerminalStages \cup NextStages(stage)

-----------------------------------------------------------------------------
(* Scores. *)

Points(condition, points) == IF condition THEN points ELSE 0

DealWeights == [need_clarity |-> 30, budget_fit |-> 25, decision_maker_access |-> 20,
                urgency |-> 15, engagement |-> 10]
RiskPenalty == [low |-> 3, medium |-> 6, high |-> 10, critical |-> 15]

Level(score) ==
  CASE score <= 40 -> "C" [] score \in 41..60 -> "B" [] score \in 61..80 -> "A" [] score > 80 -> "S"

\* profile.facts is what the conversation does not change.
ContactPoints(facts, deciding) ==
  IF deciding THEN 80 ELSE IF facts.contacts THEN 40 ELSE 10

DealDimensions(profile) ==
  LET facts == profile.facts
  IN [need_clarity |-> 10 + Points(facts.items, 40) + Points(facts.budget, 20)
                          + Points(facts.timeline, 20) + Points(facts.cycle, 10),
      budget_fit |-> 10 + Points(facts.budget, 50) + Points(facts.items /\ facts.item_budget, 30),
      decision_maker_access |-> ContactPoints(facts, facts.decision_maker),
      urgency |-> 30 + Points(facts.timeline, 15)
                     + Points(profile.stage \in {"negotiation", "procurement_approval", "contract_signing"}, 40)
                     + Points(profile.stage = "quotation", 25),
      engagement |-> ContactPoints(facts, facts.items)]

\* A dimension that is absent or out of range counts 0.  The score must fit its
\* level; every dimension is filled here, so the confidence is high.
DealScore(dimensions, risks) ==
  LET Filled(d) == IF d \in DOMAIN dimensions /\ dimensions[d] \in 0..100 THEN dimensions[d] ELSE 0
      Weighted(d) == DealWeights[d] * Filled(d)
      Penalty(sum, risk) == sum + RiskPenalty[risk]
      raw == Rounded(MapThenSumSet(Weighted, DOMAIN DealWeights)
                       - 100 * FoldLeft(Penalty, 0, risks), 100)
      score == Max({0, Min({100, raw})})
  IN [score |-> score, level |-> Level(score), need_clarity |-> Filled("need_clarity")]

\* Recent contact counts less the longer it is ago: twice, by its points and by
\* the decay, which is a percentage.
RecentContact(days) ==
  CASE days <= 1 -> 20 [] days \in 2..3 -> 18 [] days \in 4..7 -> 14
    [] days \in 8..14 -> 10 [] days \in 15..30 -> 6 [] days > 30 -> 2
Decay(days) ==
  CASE days <= 1 -> 100 [] days \in 2..3 -> 90 [] days \in 4..7 -> 70
    [] days \in 8..14 -> 50 [] days > 14 -> 30

HealthStatus(score) ==
  CASE score <= 40 -> "cold" [] score \in 41..70 -> "warm" [] score > 70 -> "healthy"

HighRisks(risks) == Cardinality({i \in DOMAIN risks : risks[i] \in {"high", "critical"}})

HealthScore(profile) ==
  LET facts == profile.facts
      score == Rounded(RecentContact(facts.days) * Decay(facts.days), 100)
               + (IF facts.risks = <<>> THEN 15 ELSE Max({2, 20 - 5 * HighRisks(facts.risks)}))
               + (IF facts.decision_maker THEN 20 ELSE 5)
               + (IF profile.deal.score = -1 THEN 10 ELSE profile.deal.need_clarity \div 5)
               + (IF facts.budget /\ facts.timeline THEN 15 ELSE 5)
  IN [score |-> score, status |-> HealthStatus(score)]

-----------------------------------------------------------------------------
(* Profiles and tools. *)

ToolNames == {"customer_memory_search", "customer_memory_update", "sales_score_calculator"}

Absent == "absent"
NoDeal == [score |-> -1, level |-> "C", need_clarity |-> 0]
NoHealth == [score |-> -1, status |-> "cold"]

\* What the rules read of contacts, procurement items, signals and risks.
CustomerFacts ==
  [items : BOOLEAN, item_budget : BOOLEAN, budget : BOOLEAN, timeline : BOOLEAN, cycle : BOOLEAN,
   contacts : BOOLEAN, decision_maker : BOOLEAN, risks : Seq(DOMAIN RiskPenalty), days : Nat]

DealScores == {NoDeal} \cup [score : 0..100, level : {"C", "B", "A", "S"}, need_clarity : 0..100]
HealthScores == {NoHealth} \cup [score : 0..100, status : {"cold", "warm", "healthy"}]

CustomerProfiles ==
  [name : STRING, industry : STRING, aliases : STRING, stage : Stages, status : CustomerStatuses, version : Nat,
   deal : DealScores, health : HealthScores, facts : CustomerFacts]

\* What a model may pass to a tool; extra is an argument that no schema names.
\* "invalid" stands for a value that CustomerProfile refuses, "unhashable" for a
\* list or an object where a string belongs, or for aliases with one of them.
ToolCalls ==
  [id : STRING, name : STRING, customer_id : STRING, customer_name : STRING, industry : STRING,
   sales_stage : STRING, status : STRING, aliases : STRING, score_type : STRING, extra : STRING]

ToolResult(success, profile) ==
  [raises |-> FALSE, success |-> success, found |-> FALSE, profile |-> profile]

\* The profile on disk after a save.  Assignments are not validated: a value that
\* CustomerProfile refuses is written, and load then finds nobody.
Saved(profile) == [profile EXCEPT !.version = @ + 1]

Readable(profile) ==
  {profile.name, profile.industry, profile.aliases} \cap {"invalid", "unhashable"} = {}

\* The alias file is a map from names; the profile was replaced before.
Indexable(profile) == profile.name # "unhashable" /\ profile.aliases # "unhashable"

\* load finds the customer of the call.
Loads(profile, call) == call.customer_id = "known" /\ Readable(profile)

\* The filters are those of the call; a customer that cannot be loaded is passed
\* over, to find nobody is a success, and only a name must have the methods of a
\* string.
SearchCustomers(profile, call) ==
  LET Fits(filter, values) == filter \in values \cup {Absent}
  IN [ToolResult(call.customer_name # "unhashable", profile) EXCEPT
        !.found = /\ Readable(profile)
                  /\ Fits(call.customer_name, {profile.name, profile.aliases})
                  /\ Fits(call.industry, {profile.industry})
                  /\ Fits(call.sales_stage, {profile.stage})
                  /\ Fits(call.status, {profile.status})]

\* Mutant: the name is saved before the stage is looked at.
UpdateCustomerFieldByField(profile, call) ==
  LET named == IF call.customer_name \in {Absent, profile.name} THEN profile
               ELSE Saved([profile EXCEPT !.name = call.customer_name])
      refused == call.sales_stage \in Stages \ {profile.stage}
                 /\ ~CanTransition(profile.stage, call.sales_stage)
  IN IF ~Loads(profile, call) THEN ToolResult(FALSE, profile) ELSE ToolResult(~refused, named)

\* The changes are made in memory, in the order of the fields, and saved once at
\* the end.  A stage that is no stage is ignored, unless it is no string; a name
\* or an alias that cannot be hashed is saved, and fails in the alias file.
UpdateCustomer(profile, call) ==
  LET named == IF call.customer_name \in {Absent, profile.name} THEN profile
               ELSE [profile EXCEPT !.name = call.customer_name]
      placed == IF call.industry = Absent THEN named
                ELSE [named EXCEPT !.industry = call.industry]
      moves == call.sales_stage \in Stages \ {profile.stage}
      staged == IF moves THEN [placed EXCEPT !.stage = call.sales_stage] ELSE placed
      stated == IF call.status = Absent THEN staged ELSE [staged EXCEPT !.status = call.status]
      aliased == IF call.aliases = Absent THEN stated ELSE [stated EXCEPT !.aliases = call.aliases]
      refused == \/ moves /\ ~CanTransition(profile.stage, call.sales_stage)
                 \/ call.sales_stage = "unhashable"
                 \/ call.status \notin CustomerStatuses \cup {Absent}
      changed == aliased # profile \/ call.aliases # Absent
  IN IF ~Loads(profile, call) \/ refused THEN ToolResult(FALSE, profile)
     ELSE IF ~changed THEN ToolResult(TRUE, profile)
     ELSE ToolResult(Indexable(aliased), Saved(aliased))

ScoreCustomer(profile, call) ==
  LET dealt == IF call.score_type \in {"deal", "both"}
               THEN [profile EXCEPT !.deal = DealScore(DealDimensions(profile), profile.facts.risks)]
               ELSE profile
      scored == IF call.score_type \in {"health", "both"}
                THEN [dealt EXCEPT !.health = HealthScore(dealt)]
                ELSE dealt
  IN IF ~Loads(profile, call) THEN ToolResult(FALSE, profile) ELSE ToolResult(TRUE, Saved(scored))

\* An argument named like a parameter of registry.execute or safe_execute raises
\* before the tool is called, where nothing catches it.
ReservedArguments == {"name", "tool", "self"}

Execute(profile, call) ==
  CASE call.extra \in ReservedArguments -> [ToolResult(FALSE, profile) EXCEPT !.raises = TRUE]
    [] call.extra \notin ReservedArguments /\ call.name \notin ToolNames -> ToolResult(FALSE, profile)
    [] call.extra \notin ReservedArguments /\ call.name = "customer_memory_search" ->
         SearchCustomers(profile, call)
    [] call.extra \notin ReservedArguments /\ call.name = "customer_memory_update" ->
         UpdateCustomer(profile, call)
    [] call.extra \notin ReservedArguments /\ call.name = "sales_score_calculator" ->
         ScoreCustomer(profile, call)

=============================================================================
