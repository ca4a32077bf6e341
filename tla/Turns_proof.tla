------------------------------ MODULE Turns_proof ------------------------------
(***************************************************************************)
(* Theorems about Turns: what a turn of the Coordinator touches and what   *)
(* its answer claims, for any request, and what is proved of an agent and  *)
(* of a command holds of the composition.                                  *)
(***************************************************************************)
EXTENDS Turns, Policy_proof, AgentLoop_proof, Operations_proof

-----------------------------------------------------------------------------
(* The turn of the Coordinator. *)

\* A question stays one: it goes from the policy to retrieval and nowhere else.
QuestionInv ==
  request # None /\ request.entry \in {"qa", "cli qa"} =>
    /\ at \in {"policy", "decided", "qa", "answered", "done", "failed"}
    /\ queries \subseteq {"knowledge"}

\* Before the router nothing is touched, and behind it no request is refused.
RefusalInv ==
  /\ at = "policy" => queries = {} /\ route = None /\ trace = <<>>
  /\ at = "decided" => queries = {} /\ route = None /\ Len(trace) = 1
  /\ at \in Tasks \cup {"script", "answered"} => decision.status # "BLOCKED"
  /\ RefusalsTouchNothing

TurnInv ==
  /\ at \in Tasks \cup {"none", "policy", "decided", "script", "answered", "done", "failed"}
  /\ at # "none" => request \in Requests
  /\ QuestionInv /\ RefusalInv

(* A route leads to a task, and that of a question to the question.            *)
LEMMA RouteTypes ==
  ASSUME NEW r \in Requests
  PROVE  /\ TaskOverride(r) \in Tasks \cup {None}
         /\ r.entry \in {"qa", "cli qa"} => TaskOverride(r) = "qa"
         /\ Routed(r.text, TaskOverride(r)).task \in Tasks
         /\ r.entry \in {"qa", "cli qa"} => Routed(r.text, TaskOverride(r)).task = "qa"
<1>1. /\ TaskOverride(r) \in Tasks \cup {None}
      /\ r.entry \in {"qa", "cli qa"} => TaskOverride(r) = "qa"
  BY RequestsAssumption DEF RequestsAssumption, Entries, TaskOverride, Tasks
<1>2. \A input, intent : RouteTask(input, intent).task \in Tasks
  BY DEF RouteTask, Route, Tasks
<1>3. \A override : override # None => Routed(r.text, override).task = override
  BY DEF Routed, Route
<1>4. Routed(r.text, None).task \in Tasks
  BY <1>2 DEF Routed
<1>5. "qa" # None
  BY NoneAssumption DEF NoneAssumption, Tasks
<1>6. CASE TaskOverride(r) = None
  BY <1>1, <1>4, <1>5, <1>6
<1>7. CASE TaskOverride(r) # None
  BY <1>1, <1>3, <1>7
<1> QED
  BY <1>6, <1>7

LEMMA TurnInitially == ASSUME TurnInit PROVE TurnInv
BY DEF TurnInit, TurnInv, QuestionInv, RefusalInv, RefusalsTouchNothing, Tasks

LEMMA OnlyElement == ASSUME NEW S, NEW x \in S PROVE Len(Append(<<>>, x)) = 1
OBVIOUS

(* Every step of the turn preserves where it stands and what it has touched.   *)
LEMMA TurnStepKeeps == ASSUME TurnInv, [TurnNext]_turnVars PROVE TurnInv'
<1> USE DEF TurnInv, QuestionInv, RefusalInv, RefusalsTouchNothing
<1>1. CASE FailEarly
  BY <1>1 DEF FailEarly, Tasks
<1>2. CASE DecidePolicy
  <2>1. at = "policy" /\ at' = "decided" /\ UNCHANGED <<request, queries, route>> /\ trace = <<>>
    BY <1>2 DEF DecidePolicy
  <2>2. \A x : Len(Append(<<>>, x)) = 1
    <3> TAKE x
    <3> QED
      BY OnlyElement, x \in {x}
  <2>3. Len(trace') = 1
    BY ONLY <1>2, <2>1, <2>2 DEF DecidePolicy
  <2> QED
    BY <2>1, <2>3 DEF Tasks
<1>3. CASE Refuse
  BY <1>3 DEF Refuse, Answer, Tasks
<1>4. CASE RouteRequest
  <2>1. /\ at = "decided" /\ decision.status # "BLOCKED" /\ UNCHANGED <<request, decision, queries>>
        /\ at' = Routed(request.text, TaskOverride(request)).task
        /\ request \in Requests /\ queries = {}
    BY <1>4 DEF RouteRequest
  <2>2. at' \in Tasks /\ (request.entry \in {"qa", "cli qa"} => at' = "qa")
    BY <2>1, RouteTypes
  <2> QED
    BY <2>1, <2>2 DEF Tasks
<1>5. CASE RunQa \/ BeginPodcast
  <2>1. /\ at \in {"qa", "podcast_script"} /\ queries' = queries \cup {"knowledge"}
        /\ UNCHANGED <<request, decision, route>>
        /\ at' = "failed" \/ (at = "qa" /\ at' = "answered") \/ (at = "podcast_script" /\ at' = "script")
    BY <1>5 DEF RunQa, BeginPodcast, Query
  <2> QED
    BY <2>1 DEF Tasks
<1>6. CASE WritePodcast
  BY <1>6 DEF WritePodcast, Tasks
<1>7. CASE RunSalesAnalysis \/ RunWeeklyReport \/ RunEmail
  <2>1. /\ at \in {"sales_analysis", "weekly_report", "email_draft"} /\ at' = "answered"
        /\ UNCHANGED <<request, decision, route>>
    BY <1>7 DEF RunSalesAnalysis, RunWeeklyReport, RunEmail, Write
  <2> QED
    BY <2>1 DEF Tasks
<1>8. CASE Finish
  BY <1>8 DEF Finish, Tasks
<1>9. CASE UNCHANGED turnVars
  BY <1>9 DEF turnVars
<1> QED
  BY <1>1, <1>2, <1>3, <1>4, <1>5, <1>6, <1>7, <1>8, <1>9 DEF TurnNext

-----------------------------------------------------------------------------
(* The answers of the knowledge service and of the local files. *)

(* The bounds of confidence and density.                                       *)
LEMMA Extremes ==
  ASSUME NEW a \in Int, NEW b \in Int
  PROVE  /\ Max({a, b}) \in {a, b} /\ Max({a, b}) >= a /\ Max({a, b}) >= b
         /\ Min({a, b}) \in {a, b} /\ Min({a, b}) <= a /\ Min({a, b}) <= b
<1>1. \E x \in {a, b} : \A y \in {a, b} : x >= y
  OBVIOUS
<1>2. \E x \in {a, b} : \A y \in {a, b} : x <= y
  OBVIOUS
<1>3. Max({a, b}) \in {a, b} /\ \A y \in {a, b} : Max({a, b}) >= y
  BY <1>1 DEF Max
<1>4. Min({a, b}) \in {a, b} /\ \A y \in {a, b} : Min({a, b}) <= y
  BY <1>2 DEF Min
<1> QED
  BY <1>3, <1>4

LEMMA ClampOf ==
  ASSUME NEW low \in Int, NEW value \in Int, NEW high \in Int
  PROVE  Clamp(low, value, high) \in Int
<1> DEFINE least == Min({high, value})
<1>1. least \in Int
  BY Extremes
<1> HIDE DEF least
<1>2. Max({low, least}) \in Int
  BY <1>1, Extremes
<1> QED
  BY <1>2 DEF Clamp, least

LEMMA DensityOf ==
  ASSUME NEW question, IsFiniteSet(question), NEW file
  PROVE  Density(question, file) \in Int
<1> DEFINE found == Cardinality(question \cap file.words)
           size == Max({Cardinality(question), 1})
<1>1. found \in Nat /\ Cardinality(question) \in Nat
  <2>1. IsFiniteSet(question \cap file.words)
    BY FS_Intersection
  <2> QED
    BY <2>1, FS_CardinalityType
<1>2. size \in Int /\ size > 0
  <2> DEFINE words == Cardinality(question)
  <2>1. words \in Int /\ 1 \in Int
    BY <1>1
  <2> HIDE DEF words
  <2>2. Max({words, 1}) \in {words, 1} /\ Max({words, 1}) >= 1
    BY <2>1, Extremes
  <2>3. Max({words, 1}) \in Int
    BY <2>1, <2>2
  <2> QED
    BY <2>2, <2>3 DEF words
<1> HIDE DEF found, size
<1>3. (100 * found) \div size \in Int
  BY <1>1, <1>2
<1>4. Clamp(10, (100 * found) \div size, 100) \in Int
  BY <1>3, ClampOf
<1> QED
  BY <1>4 DEF Density, Overlap, found, size

(* A value that every step of a fold keeps is kept by the fold.                 *)
Kept(D, X, pick, h) ==
  /\ IsFiniteSet(D) /\ h[{}] \in X
  /\ \A s \in SUBSET D : s # {} => pick[s] \in s
  /\ \A s \in SUBSET D : s # {} /\ h[s \ {pick[s]}] \in X => h[s] \in X

LEMMA FoldValues ==
  ASSUME NEW D, NEW X, NEW pick, NEW h, Kept(D, X, pick, h)
  PROVE  h[D] \in X
<1> USE DEF Kept
<1> DEFINE Good == {n \in Nat : \A s \in SUBSET D : Cardinality(s) = n => h[s] \in X}
<1>1. \A s \in SUBSET D : IsFiniteSet(s) /\ Cardinality(s) \in Nat
  BY FS_Subset, FS_CardinalityType
<1>2. 0 \in Good
  <2> SUFFICES ASSUME NEW s \in SUBSET D, Cardinality(s) = 0 PROVE h[s] \in X
    OBVIOUS
  <2>1. s = {}
    BY <1>1, FS_EmptySet
  <2> QED
    BY <2>1
<1>3. ASSUME NEW n \in Nat, n \in Good PROVE n + 1 \in Good
  <2> SUFFICES ASSUME NEW s \in SUBSET D, Cardinality(s) = n + 1 PROVE h[s] \in X
    OBVIOUS
  <2>1. s # {} /\ pick[s] \in s
    <3>1. s # {}
      BY <1>1, FS_EmptySet
    <3> QED
      BY <3>1
  <2>2. Cardinality(s \ {pick[s]}) = n
    <3>1. Cardinality(s \ {pick[s]}) = Cardinality(s) - 1
      BY <1>1, <2>1, FS_RemoveElement
    <3> QED
      BY <3>1
  <2>3. s \ {pick[s]} \in SUBSET D
    OBVIOUS
  <2>4. h[s \ {pick[s]}] \in X
    BY <1>3, <2>2, <2>3
  <2> QED
    BY <2>1, <2>4
<1>4. Nat \subseteq Good
  <2> HIDE DEF Good
  <2> QED
    BY <1>2, <1>3, SetInduction
<1> QED
  BY <1>1, <1>4

DensitySum(question, files, D) ==
  LET Confidence(i) == Density(question, files[i]) IN MapThenSumSet(Confidence, D)

(* A sum over a finite set of integers is one.                                 *)
LEMMA SumOf ==
  ASSUME NEW question, IsFiniteSet(question), NEW files, NEW D, IsFiniteSet(D)
  PROVE  DensitySum(question, files, D) \in Int
<1> DEFINE Confidence(i) == Density(question, files[i])
           pick == [s \in SUBSET D |-> CHOOSE x \in s : TRUE]
           step == [xd \in Int \X D |-> Confidence(xd[2]) + xd[1]]
<1>1. \A i : Confidence(i) \in Int
  BY DensityOf
<1> HIDE DEF Confidence
<1>2. Foldable(D, Int, 0, pick, step)
  <2>1. \A s \in SUBSET D : s # {} => pick[s] \in s
    OBVIOUS
  <2>2. \A x \in Int, d \in D : step[<<x, d>>] \in Int
    BY <1>1
  <2> HIDE DEF pick, step
  <2> QED
    BY <2>1, <2>2 DEF Foldable
<1>3. PICK f : IsFold(f, D, Int, 0, pick, step)
  <2> HIDE DEF pick, step
  <2> QED
    BY <1>2, FoldExists
<1>4. \A s \in SUBSET D, x \in Int : s # {} =>
        step[<<x, pick[s]>>] = Confidence(CHOOSE y \in s : TRUE) + x
  <2> SUFFICES ASSUME NEW s \in SUBSET D, NEW x \in Int, s # {}
               PROVE  step[<<x, pick[s]>>] = Confidence(CHOOSE y \in s : TRUE) + x
    OBVIOUS
  <2>1. pick[s] = (CHOOSE y \in s : TRUE) /\ pick[s] \in D
    OBVIOUS
  <2>2. step[<<x, pick[s]>>] = Confidence(pick[s]) + x
    <3> HIDE DEF pick
    <3> QED
      BY <2>1
  <2> QED
    BY <2>1, <2>2
<1>5. f = [s \in SUBSET D |-> IF s = {} THEN 0
             ELSE Confidence(CHOOSE y \in s : TRUE) + f[s \ {CHOOSE y \in s : TRUE}]]
  <2>1. f \in [SUBSET D -> Int]
    BY <1>3 DEF IsFold
  <2>2. ASSUME NEW s \in SUBSET D, s # {}
        PROVE  f[s] = Confidence(CHOOSE y \in s : TRUE) + f[s \ {CHOOSE y \in s : TRUE}]
    <3>1. f[s] = step[<<f[s \ {pick[s]}], pick[s]>>]
      BY <1>3, <2>2 DEF IsFold
    <3>2. pick[s] = CHOOSE y \in s : TRUE
      OBVIOUS
    <3>3. f[s \ {pick[s]}] \in Int
      BY <2>1
    <3> QED
      BY <1>4, <2>2, <3>1, <3>2, <3>3
  <2>3. f[{}] = 0
    BY <1>3 DEF IsFold
  <2> QED
    BY <2>1, <2>2, <2>3
<1> DEFINE iter == CHOOSE h : h = [s \in SUBSET D |-> IF s = {} THEN 0
                     ELSE Confidence(CHOOSE y \in s : TRUE) + h[s \ {CHOOSE y \in s : TRUE}]]
<1>6. iter = [s \in SUBSET D |-> IF s = {} THEN 0
                ELSE Confidence(CHOOSE y \in s : TRUE) + iter[s \ {CHOOSE y \in s : TRUE}]]
  BY <1>5
<1>7. MapThenSumSet(Confidence, D) = iter[D]
  BY DEF MapThenSumSet, MapThenFoldSet
<1> HIDE DEF iter
<1>8. iter[D] \in Int
  <2>1. iter[{}] \in Int
    BY <1>6
  <2>2. \A s \in SUBSET D : s # {} => pick[s] \in s
    OBVIOUS
  <2>3. \A s \in SUBSET D : s # {} /\ iter[s \ {pick[s]}] \in Int => iter[s] \in Int
    <3> SUFFICES ASSUME NEW s \in SUBSET D, s # {}, iter[s \ {pick[s]}] \in Int
                 PROVE  iter[s] \in Int
      OBVIOUS
    <3>1. iter[s] = Confidence(CHOOSE y \in s : TRUE) + iter[s \ {CHOOSE y \in s : TRUE}]
      BY <1>6
    <3>2. pick[s] = CHOOSE y \in s : TRUE
      OBVIOUS
    <3> QED
      BY <1>1, <3>1, <3>2
  <2> HIDE DEF pick
  <2>4. Kept(D, Int, pick, iter)
    BY <2>1, <2>2, <2>3 DEF Kept
  <2> QED
    BY <2>4, FoldValues
<1> QED
  BY <1>7, <1>8 DEF DensitySum, Confidence

\* What a query of the local files gives back, unless it raises.
LocalAnswer(result) ==
  \E sources \in Nat, confidence \in Int, warnings \in {<<>>, <<"no_evidence">>} :
    /\ result = Result("local", sources, confidence, warnings,
                       <<Diagnostic("local_rag_query", TRUE)>>)
    /\ sources = 0 => confidence <= 15

(* Without evidence the local answer claims 15%.                               *)
LEMMA GenerateOf ==
  ASSUME NEW question, IsFiniteSet(question), NEW files, NEW evidence, IsFiniteSet(evidence)
  PROVE  LocalAnswer(GenerateWithCitations(question, files, evidence))
<1> DEFINE sum == DensitySum(question, files, evidence)
           size == Cardinality(evidence)
           average == sum \div size
<1>1. sum \in Int
  BY SumOf
<1>2. size \in Nat /\ (size = 0 <=> evidence = {})
  BY FS_CardinalityType, FS_EmptySet
<1>3. GenerateWithCitations(question, files, evidence) =
        IF evidence = {}
        THEN Result("local", 0, 15, <<"no_evidence">>, <<Diagnostic("local_rag_query", TRUE)>>)
        ELSE Result("local", size, Clamp(20, average, 95), <<>>,
                    <<Diagnostic("local_rag_query", TRUE)>>)
  BY DEF GenerateWithCitations, DensitySum
<1> HIDE DEF sum, size
<1>4. CASE evidence = {}
  BY <1>3, <1>4 DEF LocalAnswer
<1>5. CASE evidence # {}
  <2>1. average \in Int
    BY <1>1, <1>2, <1>5
  <2>2. Clamp(20, average, 95) \in Int
    <3> HIDE DEF average
    <3> QED
      BY <2>1, ClampOf
  <2> HIDE DEF average
  <2> QED
    BY <1>2, <1>3, <1>5, <2>2 DEF LocalAnswer
<1> QED
  BY <1>4, <1>5

LEMMA LocalQueryOf ==
  ASSUME NEW question, IsFiniteSet(question), NEW S, NEW files \in Seq(S)
  PROVE  LocalQuery(question, files) = Raised \/ LocalAnswer(LocalQuery(question, files))
<1> DEFINE evidence == RankAndFilter(question, files, Retrieve(question, files))
<1>1. evidence \subseteq DOMAIN files
  BY DEF RankAndFilter, Retrieve, Foremost, Load
<1>2. IsFiniteSet(evidence)
  <2>1. DOMAIN files = 1..Len(files) /\ Len(files) \in Nat
    OBVIOUS
  <2>2. IsFiniteSet(1..Len(files))
    <3>1. 1 \in Int /\ Len(files) \in Int
      BY <2>1
    <3> QED
      BY <3>1, FS_Interval
  <2> HIDE DEF evidence
  <2> QED
    BY <1>1, <2>1, <2>2, FS_Subset
<1>3. LocalQuery(question, files) =
        IF \E i \in Load(files) : files[i].content = "no_object" THEN Raised
        ELSE GenerateWithCitations(question, files, evidence)
  BY DEF LocalQuery
<1> HIDE DEF evidence
<1> QED
  BY <1>2, <1>3, GenerateOf

Diagnosed(result) ==
  (\E d : result.diagnostics = <<d>>) \/ (\E d, e : result.diagnostics = <<d, e>>)

\* What holds of the result of a turn that did not raise.
Trusted(result, config, reply) ==
  /\ result.confidence \in Int
  /\ Diagnosed(result)
  /\ config.provider = "external" /\ reply.kind \in Failures =>
       /\ result.confidence <= 55 /\ result.warnings # <<>>
       /\ ~result.diagnostics[1].success
  /\ result.provider # "external" /\ result.sources = 0 => result.confidence <= 15

LEMMA LocalTrusted ==
  ASSUME NEW local, LocalAnswer(local)
  PROVE  /\ local.provider = "local" /\ local.confidence \in Int /\ ~local.raises
         /\ local.diagnostics = <<Diagnostic("local_rag_query", TRUE)>>
         /\ local.sources = 0 => local.confidence <= 15
         /\ local.warnings \in {<<>>, <<"no_evidence">>}
<1>1. PICK sources \in Nat, confidence \in Int, warnings \in {<<>>, <<"no_evidence">>} :
        /\ local = Result("local", sources, confidence, warnings,
                          <<Diagnostic("local_rag_query", TRUE)>>)
        /\ sources = 0 => confidence <= 15
  BY DEF LocalAnswer
<1> QED
  BY <1>1 DEF Result

(* Whatever the knowledge service replies, a result that stands in for a       *)
(* failed one shows it, and one without sources claims little.                 *)
LEMMA RagQueryOf ==
  ASSUME NEW question, IsFiniteSet(question), NEW S, NEW files \in Seq(S), NEW config, NEW reply,
         reply.confidence \in Int, ~RagQuery(config, question, files, reply).raises
  PROVE  Trusted(RagQuery(config, question, files, reply), config, reply)
<1> DEFINE local == LocalQuery(question, files)
           result == RagQuery(config, question, files, reply)
           failure == Diagnostic("external_rag_query", FALSE)
<1>1. local = Raised \/ LocalAnswer(local)
  BY LocalQueryOf
<1>2. Raised.raises
  BY DEF Raised, Result
<1>3. CASE config.provider = "local"
  <2>1. result = local
    BY <1>3 DEF RagQuery
  <2>2. LocalAnswer(result)
    BY <1>1, <1>2, <2>1
  <2> HIDE DEF result
  <2>3. Diagnosed(result)
    BY <2>2, LocalTrusted DEF Diagnosed
  <2>4. /\ result.provider = "local" /\ result.confidence \in Int
        /\ result.sources = 0 => result.confidence <= 15
    BY <2>2, LocalTrusted
  <2>5. config.provider # "external"
    BY <1>3
  <2>6. Trusted(result, config, reply)
    BY <2>3, <2>4, <2>5 DEF Trusted
  <2> QED
    BY <2>6 DEF result
<1>4. CASE config.provider # "local" /\ reply.kind \notin Failures
  <2> DEFINE stated == IF reply.confidence = NoConfidence
                       THEN IF reply.citations > 0 THEN 75 ELSE 35
                       ELSE Clamp(0, reply.confidence, 100)
  <2>1. result = Result("external", reply.citations, stated, <<>>,
                        <<Diagnostic("external_rag_query", TRUE)>>)
    BY <1>4 DEF RagQuery, FallbackQuery, ExternalQuery
  <2>2. stated \in Int
    <3> DEFINE value == reply.confidence
    <3>1. 0 \in Int /\ 100 \in Int /\ value \in Int
      OBVIOUS
    <3> HIDE DEF value
    <3>2. Clamp(0, value, 100) \in Int
      BY <3>1, ClampOf
    <3> QED
      BY <3>2 DEF value
  <2> HIDE DEF stated
  <2>3. Diagnosed(result)
    BY <2>1 DEF Diagnosed, Result
  <2> QED
    BY <1>4, <2>1, <2>2, <2>3 DEF Trusted, Result
<1>5. CASE config.provider # "local" /\ reply.kind \in Failures /\ ~config.fallback_to_local
  <2>1. result = Result("none", 0, 15, <<reply.kind>>, <<failure>>)
    BY <1>5 DEF RagQuery, FallbackQuery
  <2>2. Diagnosed(result)
    BY <2>1 DEF Diagnosed, Result
  <2> QED
    BY <2>1, <2>2 DEF Trusted, Result, Diagnostic
<1>6. CASE config.provider # "local" /\ reply.kind \in Failures /\ config.fallback_to_local
  <2> HIDE DEF local
  <2>1. result = IF local.raises THEN Raised
                 ELSE [local EXCEPT !.provider = "fallback",
                                    !.confidence = Min({@, 55}),
                                    !.warnings = <<FallbackWarning>> \o @,
                                    !.diagnostics = <<failure, Diagnostic("local_rag_fallback", TRUE)>>]
    BY <1>6 DEF RagQuery, FallbackQuery, local
  <2>2. LocalAnswer(local)
    BY <1>1, <1>2, <2>1
  <2>3. PICK sources \in Nat, confidence \in Int, warnings \in {<<>>, <<"no_evidence">>} :
          /\ local = Result("local", sources, confidence, warnings,
                            <<Diagnostic("local_rag_query", TRUE)>>)
          /\ sources = 0 => confidence <= 15
    BY <2>2 DEF LocalAnswer
  <2>4. result = [provider |-> "fallback", sources |-> sources, confidence |-> Min({confidence, 55}),
                  warnings |-> <<FallbackWarning>> \o warnings,
                  diagnostics |-> <<failure, Diagnostic("local_rag_fallback", TRUE)>>,
                  raises |-> FALSE]
    BY <2>1, <2>3 DEF Result
  <2> DEFINE least == Min({confidence, 55})
  <2>5. least \in Int /\ least <= 55 /\ least <= confidence
    <3>1. 55 \in Int
      OBVIOUS
    <3>2. least \in {confidence, 55} /\ least <= confidence /\ least <= 55
      BY <3>1, Extremes
    <3> QED
      BY <3>1, <3>2
  <2>6. <<FallbackWarning>> \o warnings # <<>>
    BY DEF FallbackWarning
  <2> HIDE DEF least, result
  <2>7. /\ result.confidence = least /\ result.diagnostics = <<failure, Diagnostic("local_rag_fallback", TRUE)>>
        /\ result.warnings # <<>> /\ result.sources = sources
    BY <2>4, <2>6 DEF least
  <2>8. ~result.diagnostics[1].success
    BY <2>7 DEF Diagnostic
  <2>9. Diagnosed(result)
    BY <2>7 DEF Diagnosed
  <2>10. result.sources = 0 => result.confidence <= 15
    BY <2>3, <2>5, <2>7
  <2>11. Trusted(result, config, reply)
    BY <2>5, <2>7, <2>8, <2>9, <2>10 DEF Trusted
  <2> QED
    BY <2>11 DEF result
<1> QED
  BY <1>3, <1>4, <1>5, <1>6

-----------------------------------------------------------------------------
(* What is retrieved is what ranks highest. *)

StrictOrder(S, R) ==
  /\ \A i \in S : <<i, i>> \notin R
  /\ \A i, j \in S : i = j \/ <<i, j>> \in R \/ <<j, i>> \in R
  /\ \A i, j, k \in S : <<i, j>> \in R /\ <<j, k>> \in R => <<i, k>> \in R

Ahead(S, R, i) == {j \in S : <<j, i>> \in R}
Leading(S, R, limit) == {i \in S : Cardinality(Ahead(S, R, i)) < limit}

(* Who stands behind another has more ahead of it.                              *)
LEMMA AheadGrows ==
  ASSUME NEW S, IsFiniteSet(S), NEW R, StrictOrder(S, R)
  PROVE  /\ \A i \in S : /\ IsFiniteSet(Ahead(S, R, i)) /\ Cardinality(Ahead(S, R, i)) \in Nat
                         /\ Cardinality(Ahead(S, R, i)) <= Cardinality(S)
         /\ \A i, j \in S : <<i, j>> \in R =>
              Cardinality(Ahead(S, R, i)) < Cardinality(Ahead(S, R, j))
<1>1. ASSUME NEW i \in S
      PROVE  /\ IsFiniteSet(Ahead(S, R, i)) /\ Cardinality(Ahead(S, R, i)) \in Nat
             /\ Cardinality(Ahead(S, R, i)) <= Cardinality(S)
  <2>1. Ahead(S, R, i) \in SUBSET S
    BY DEF Ahead
  <2> QED
    BY <2>1, FS_Subset, FS_CardinalityType
<1>2. ASSUME NEW i \in S, NEW j \in S, <<i, j>> \in R
      PROVE  Cardinality(Ahead(S, R, i)) < Cardinality(Ahead(S, R, j))
  <2> DEFINE before == Ahead(S, R, i)
             after == Ahead(S, R, j)
  <2>1. before \subseteq after \ {i} /\ i \in after
    BY <1>2 DEF Ahead, StrictOrder
  <2>2. IsFiniteSet(after) /\ Cardinality(after) \in Nat /\ Cardinality(before) \in Nat
    BY <1>1
  <2> HIDE DEF before, after
  <2>3. IsFiniteSet(after \ {i}) /\ Cardinality(after \ {i}) = Cardinality(after) - 1
    BY <2>1, <2>2, FS_RemoveElement
  <2>4. Cardinality(before) <= Cardinality(after \ {i})
    BY <2>1, <2>3, FS_Subset
  <2> QED
    BY <2>2, <2>3, <2>4 DEF before, after
<1> QED
  BY <1>1, <1>2

(* The leading ones are what a sort and a slice keep: as many as the limit      *)
(* admits, and none of the others stands before one of them.                    *)
LEMMA LeadingOf ==
  ASSUME NEW S, IsFiniteSet(S), NEW R, StrictOrder(S, R), NEW limit \in Nat
  PROVE  /\ Cardinality(Leading(S, R, limit)) <= limit
         /\ \A i \in Leading(S, R, limit), j \in S \ Leading(S, R, limit) : <<i, j>> \in R
         /\ Leading(S, R, limit) = S \/ Cardinality(Leading(S, R, limit)) = limit
<1> DEFINE F == Leading(S, R, limit)
           Place(i) == Cardinality(Ahead(S, R, i))
<1>1. F \in SUBSET S /\ \A i \in S : i \in F <=> Place(i) < limit
  BY DEF Leading
<1>2. /\ \A i \in S : Place(i) \in Nat /\ Place(i) <= Cardinality(S) /\ IsFiniteSet(Ahead(S, R, i))
      /\ \A i, j \in S : <<i, j>> \in R => Place(i) < Place(j)
  BY AheadGrows
<1>3. IsFiniteSet(F) /\ Cardinality(F) \in Nat /\ Cardinality(S) \in Nat
  BY <1>1, FS_Subset, FS_CardinalityType
<1> HIDE DEF F
<1>4. \A i \in F, j \in S \ F : <<i, j>> \in R
  <2> SUFFICES ASSUME NEW i \in F, NEW j \in S \ F PROVE <<i, j>> \in R
    OBVIOUS
  <2>1. i \in S /\ j \in S /\ i # j /\ Place(i) < limit /\ ~(Place(j) < limit)
    BY <1>1
  <2>2. Place(i) \in Nat /\ Place(j) \in Nat /\ (<<j, i>> \in R => Place(j) < Place(i))
    BY <1>2, <2>1
  <2>3. <<j, i>> \notin R
    <3> HIDE DEF Place
    <3> QED
      BY <2>1, <2>2
  <2> QED
    BY <2>1, <2>3 DEF StrictOrder
<1>5. Cardinality(F) <= limit
  <2>1. CASE F = {}
    BY <2>1, FS_EmptySet
  <2>2. CASE F # {}
    <3> DEFINE Places == {Place(i) : i \in F}
    <3>1. Places \in SUBSET Nat /\ Places # {} /\ \A y \in Places : y <= Cardinality(S)
      BY <1>1, <1>2, <2>2
    <3>2. Max(Places) \in Places /\ \A y \in Places : y <= Max(Places)
      <4> HIDE DEF Places
      <4> QED
        BY <1>3, <3>1, GreatestOf
    <3>3. PICK m \in F : \A i \in F : Place(i) <= Place(m)
      BY <3>2
    <3>4. F \ {m} \subseteq Ahead(S, R, m)
      <4> SUFFICES ASSUME NEW i \in F, i # m PROVE i \in Ahead(S, R, m)
        OBVIOUS
      <4>1. i \in S /\ m \in S /\ Place(i) \in Nat /\ Place(m) \in Nat /\ Place(i) <= Place(m)
        BY <1>1, <1>2, <3>3
      <4>2. <<m, i>> \notin R
        <5>1. <<m, i>> \in R => Place(m) < Place(i)
          BY <1>2, <4>1
        <5> HIDE DEF Place
        <5> QED
          BY <4>1, <5>1
      <4> QED
        BY <4>1, <4>2 DEF StrictOrder, Ahead
    <3>5. Cardinality(F \ {m}) = Cardinality(F) - 1
      BY <1>3, FS_RemoveElement
    <3>6. Cardinality(F \ {m}) <= Place(m)
      BY <1>1, <1>2, <3>4, FS_Subset
    <3>7. Place(m) < limit /\ Place(m) \in Nat
      BY <1>1, <1>2
    <3> HIDE DEF Place
    <3> QED
      BY <1>3, <3>5, <3>6, <3>7
  <2> QED
    BY <2>1, <2>2
<1>6. F = S \/ Cardinality(F) = limit
  <2> SUFFICES ASSUME F # S PROVE Cardinality(F) = limit
    OBVIOUS
  <2> DEFINE Places == {Place(i) : i \in S \ F}
  <2>1. Places \in SUBSET Nat
    BY <1>2
  <2>2. Places # {}
    BY <1>1
  <2>3. PICK least \in Places : \A y \in Places : least <= y
    <3> HIDE DEF Places
    <3> QED
      BY <2>1, <2>2, SmallestExists
  <2>4. PICK j \in S \ F : \A i \in S \ F : Place(j) <= Place(i)
    BY <2>3
  <2>5. Ahead(S, R, j) \subseteq F
    <3> SUFFICES ASSUME NEW i \in S, <<i, j>> \in R, i \notin F PROVE FALSE
      BY DEF Ahead
    <3>1. Place(i) < Place(j) /\ Place(j) <= Place(i) /\ Place(i) \in Nat /\ Place(j) \in Nat
      BY <1>2, <2>4
    <3> HIDE DEF Place
    <3> QED
      BY <3>1
  <2>6. Place(j) <= Cardinality(F)
    BY <1>3, <2>5, FS_Subset
  <2>7. ~(Place(j) < limit) /\ Place(j) \in Nat
    BY <1>1, <1>2
  <2> HIDE DEF Place
  <2> QED
    BY <1>3, <1>5, <2>6, <2>7
<1> QED
  BY <1>4, <1>5, <1>6 DEF F

\* What a file counts for at each of the two steps, and path order between equals.
Outscores(question, files, i, j) ==
  \/ Score(question, files[i]) > Score(question, files[j])
  \/ Score(question, files[i]) = Score(question, files[j]) /\ i < j

Outranks(question, files, i, j) ==
  \/ Density(question, files[i]) > Density(question, files[j])
  \/ Density(question, files[i]) = Density(question, files[j]) /\ Outscores(question, files, i, j)

LEMMA ScoreOf == ASSUME NEW question, IsFiniteSet(question), NEW file PROVE Score(question, file) \in Nat
<1>1. IsFiniteSet(question \cap (file.words \cup file.category))
  BY FS_Intersection
<1> QED
  BY <1>1, FS_CardinalityType DEF Score, Overlap

LEMMA RankingsOf ==
  ASSUME NEW question, IsFiniteSet(question), NEW files, NEW S \in SUBSET Nat
  PROVE  /\ StrictOrder(S, {p \in S \X S : Outscores(question, files, p[1], p[2])})
         /\ StrictOrder(S, {p \in S \X S : Outranks(question, files, p[1], p[2])})
<1> DEFINE score == [i \in S |-> Score(question, files[i])]
           density == [i \in S |-> Density(question, files[i])]
<1>1. \A i \in S : i \in Nat /\ score[i] \in Int /\ density[i] \in Int
  BY ScoreOf, DensityOf
<1>2. /\ \A i, j \in S : Outscores(question, files, i, j) <=>
           score[i] > score[j] \/ (score[i] = score[j] /\ i < j)
      /\ \A i, j \in S : Outranks(question, files, i, j) <=>
           \/ density[i] > density[j]
           \/ density[i] = density[j] /\ Outscores(question, files, i, j)
  BY DEF Outscores, Outranks
<1> HIDE DEF score, density
<1>3. /\ \A i \in S : ~Outscores(question, files, i, i)
      /\ \A i, j \in S : i = j \/ Outscores(question, files, i, j) \/ Outscores(question, files, j, i)
      /\ \A i, j, k \in S : Outscores(question, files, i, j) /\ Outscores(question, files, j, k)
           => Outscores(question, files, i, k)
  BY <1>1, <1>2
<1>4. /\ \A i \in S : ~Outranks(question, files, i, i)
      /\ \A i, j \in S : i = j \/ Outranks(question, files, i, j) \/ Outranks(question, files, j, i)
      /\ \A i, j, k \in S : Outranks(question, files, i, j) /\ Outranks(question, files, j, k)
           => Outranks(question, files, i, k)
  BY <1>1, <1>2, <1>3
<1>5. StrictOrder(S, {p \in S \X S : Outscores(question, files, p[1], p[2])})
  BY <1>3 DEF StrictOrder
<1>6. StrictOrder(S, {p \in S \X S : Outranks(question, files, p[1], p[2])})
  BY <1>4 DEF StrictOrder
<1> QED
  BY <1>5, <1>6

LEMMA RetrievedOf ==
  ASSUME NEW question, IsFiniteSet(question), NEW files, NEW n \in Nat, DOMAIN files = 1..n
  PROVE  LET matching == {i \in Load(files) : Score(question, files[i]) > 0}
             found == Retrieve(question, files)
         IN /\ found \subseteq matching /\ IsFiniteSet(found) /\ found \in SUBSET Nat
            /\ Cardinality(found) <= RetrieveLimit
            /\ found = matching \/ Cardinality(found) = RetrieveLimit
            /\ \A i \in found, j \in matching \ found : Outscores(question, files, i, j)
<1> DEFINE S == {i \in Load(files) : Score(question, files[i]) > 0}
           R == {p \in S \X S : Outscores(question, files, p[1], p[2])}
           F == Leading(S, R, RetrieveLimit)
<1>1. S \in SUBSET (1..n) /\ S \in SUBSET Nat
  BY DEF Load
<1>2. IsFiniteSet(S)
  <2>1. 1 \in Int /\ n \in Int
    OBVIOUS
  <2>2. IsFiniteSet(1..n)
    BY <2>1, FS_Interval
  <2> QED
    BY <1>1, <2>2, FS_Subset
<1>3. Retrieve(question, files) = F
  <2>1. \A i \in S : {j \in S : <<j, i>> \in R} = {j \in S : Outscores(question, files, j, i)}
    OBVIOUS
  <2> HIDE DEF R
  <2> QED
    BY <2>1 DEF Retrieve, Foremost, Leading, Ahead, Outscores
<1>4. StrictOrder(S, R) /\ RetrieveLimit \in Nat
  BY <1>1, RankingsOf DEF RetrieveLimit
<1> HIDE DEF R, S
<1>5. /\ Cardinality(F) <= RetrieveLimit /\ F \subseteq S
      /\ \A i \in F, j \in S \ F : <<i, j>> \in R
      /\ F = S \/ Cardinality(F) = RetrieveLimit
  BY <1>2, <1>4, LeadingOf DEF Leading
<1> HIDE DEF F
<1>6. IsFiniteSet(F)
  BY <1>2, <1>5, FS_Subset
<1>7. \A i, j : <<i, j>> \in R => Outscores(question, files, i, j)
  BY DEF R
<1> QED
  BY <1>1, <1>3, <1>5, <1>6, <1>7 DEF S

(* The evidence of a local answer: files that match the question, at most       *)
(* three, and as many as there are up to three; none of the others retrieved    *)
(* outranks one of them, by the share of the question found, then by score,     *)
(* then in path order (rag/module.py:65, 84).                                   *)
THEOREM EvidenceRanksHighest ==
  ASSUME NEW question, IsFiniteSet(question), NEW T, NEW files \in Seq(T)
  PROVE  LET found == Retrieve(question, files)
             evidence == RankAndFilter(question, files, found)
         IN /\ evidence \subseteq found
            /\ \A i \in evidence : files[i].content # "unreadable" /\ Score(question, files[i]) > 0
            /\ Cardinality(evidence) <= TopK
            /\ evidence = found \/ Cardinality(evidence) = TopK
            /\ \A i \in evidence, j \in found \ evidence : Outranks(question, files, i, j)
            /\ \A i \in found, j \in Load(files) \ found :
                 Score(question, files[j]) > 0 => Outscores(question, files, i, j)
<1> DEFINE S == Retrieve(question, files)
           R == {p \in S \X S : Outranks(question, files, p[1], p[2])}
           F == Leading(S, R, TopK)
<1>1. Len(files) \in Nat /\ DOMAIN files = 1..Len(files)
  OBVIOUS
<1>2. LET matching == {i \in Load(files) : Score(question, files[i]) > 0}
      IN /\ S \subseteq matching /\ IsFiniteSet(S) /\ S \in SUBSET Nat
         /\ \A i \in S, j \in matching \ S : Outscores(question, files, i, j)
  BY <1>1, RetrievedOf
<1> HIDE DEF S
<1>3. RankAndFilter(question, files, S) = F
  <2>1. \A i \in S : {j \in S : <<j, i>> \in R} = {j \in S : Outranks(question, files, j, i)}
    OBVIOUS
  <2> HIDE DEF R
  <2> QED
    BY <2>1 DEF RankAndFilter, Foremost, Leading, Ahead, Outranks, Outscores
<1>4. StrictOrder(S, R) /\ TopK \in Nat
  BY <1>2, RankingsOf DEF TopK
<1>5. \A i, j : <<i, j>> \in R => Outranks(question, files, i, j)
  OBVIOUS
<1> HIDE DEF R
<1>6. /\ Cardinality(F) <= TopK /\ F \subseteq S
      /\ \A i \in F, j \in S \ F : <<i, j>> \in R
      /\ F = S \/ Cardinality(F) = TopK
  BY <1>2, <1>4, LeadingOf DEF Leading
<1> HIDE DEF F
<1>7. \A i \in F : files[i].content # "unreadable" /\ Score(question, files[i]) > 0
  BY <1>2, <1>6 DEF Load
<1> QED
  BY <1>2, <1>3, <1>5, <1>6, <1>7 DEF S

-----------------------------------------------------------------------------
(* The doubts of a turn. *)

IsSeq(s) == s \in Seq({s[i] : i \in DOMAIN s})

(* A trace only grows at its end.                                              *)
LEMMA Appended ==
  ASSUME NEW s, IsSeq(s), NEW x
  PROVE  /\ IsSeq(Append(s, x)) /\ Len(s) \in Nat
         /\ Len(Append(s, x)) = Len(s) + 1
         /\ Append(s, x)[Len(s) + 1] = x
         /\ \A i \in 1..Len(s) : Append(s, x)[i] = s[i]
<1> DEFINE S == {s[i] : i \in DOMAIN s}
           X == S \cup {x}
           longer == Append(s, x)
<1>1. s \in Seq(X) /\ x \in X
  BY DEF IsSeq
<1> HIDE DEF X
<1>2. /\ longer \in Seq(X) /\ Len(longer) = Len(s) + 1 /\ longer[Len(s) + 1] = x
      /\ \A i \in 1..Len(s) : longer[i] = s[i]
  BY <1>1, AppendProperties
<1> HIDE DEF longer
<1>3. IsSeq(longer)
  BY <1>2 DEF IsSeq
<1> QED
  BY <1>1, <1>2, <1>3 DEF longer

LEMMA Joined ==
  ASSUME NEW s, IsSeq(s), NEW t, IsSeq(t)
  PROVE  /\ IsSeq(s \o t) /\ Len(s) \in Nat /\ Len(t) \in Nat
         /\ Len(s \o t) = Len(s) + Len(t)
         /\ \A i \in 1..Len(s) : (s \o t)[i] = s[i]
         /\ \A i \in 1..Len(t) : (s \o t)[Len(s) + i] = t[i]
<1> DEFINE X == {s[i] : i \in DOMAIN s} \cup {t[i] : i \in DOMAIN t}
           both == s \o t
<1>1. s \in Seq(X) /\ t \in Seq(X)
  BY DEF IsSeq
<1> HIDE DEF X
<1>2. /\ both \in Seq(X) /\ Len(both) = Len(s) + Len(t)
      /\ \A i \in 1..(Len(s) + Len(t)) : both[i] = IF i <= Len(s) THEN s[i] ELSE t[i - Len(s)]
  BY <1>1, ConcatProperties
<1>3. Len(s) \in Nat /\ Len(t) \in Nat
  BY <1>1
<1> HIDE DEF both
<1>4. IsSeq(both)
  <2>1. \A S : both \in Seq(S) => both \in Seq({both[i] : i \in DOMAIN both})
    OBVIOUS
  <2> QED
    BY <1>2, <2>1 DEF IsSeq
<1>5. \A i \in 1..Len(s) : both[i] = s[i]
  BY <1>2, <1>3
<1>6. \A i \in 1..Len(t) : both[Len(s) + i] = t[i]
  BY <1>2, <1>3
<1> QED
  BY <1>2, <1>3, <1>4, <1>5, <1>6 DEF both

(* A text has finitely many words.                                             *)
LEMMA WordsOf == ASSUME NEW r \in Requests PROVE IsFiniteSet(Words(r.text))
<1> DEFINE raw == r.text
           all == {raw[i] : i \in DOMAIN raw}
<1>1. raw \in Seq(STRING)
  BY RequestsAssumption DEF RequestsAssumption
<1> HIDE DEF raw
<1>2. /\ DOMAIN raw = 1..Len(raw) /\ Len(raw) \in Nat
      /\ raw \in [DOMAIN raw -> all]
  BY <1>1
<1>3. IsFiniteSet(DOMAIN raw)
  <2>1. 1 \in Int /\ Len(raw) \in Int
    BY <1>2
  <2>2. IsFiniteSet(1..Len(raw))
    BY <2>1, FS_Interval
  <2> QED
    BY <1>2, <2>2
<1>4. raw \in Surjection(DOMAIN raw, all)
  BY <1>2 DEF Surjection
<1>5. IsFiniteSet(all)
  <2> HIDE DEF all
  <2> QED
    BY <1>3, <1>4, FS_Surjection
<1>6. Words(raw) \subseteq all
  BY DEF Words
<1> HIDE DEF all
<1> QED
  BY <1>5, <1>6, FS_Subset DEF raw

\* Behind the router, where the task runs and answers.
Running == Tasks \cup {"script", "answered"}

\* The trace grows by one step for the policy, with its warnings, and one for the
\* router, which holds the rejection message of an uncertain request.
TraceInv ==
  /\ IsSeq(trace)
  /\ at = "policy" => trace = <<>>
  /\ at = "decided" => Len(trace) = 1
  /\ at \in Running \cup {"decided", "done"} =>
       Len(trace) >= 1 /\ trace[1].warnings = decision.warnings
  /\ at \in Running \/ (at = "done" /\ decision.status # "BLOCKED") =>
       /\ Len(trace) >= 2
       /\ decision.status = "UNCERTAIN" => trace[2].warnings = <<RejectionMessage>>

DecisionInv ==
  at \in Running \cup {"decided", "done"} =>
    decision = Decide(request.text, request.classifier)

\* What the knowledge service gave back is in the result, its failure in the trace.
Weighed(result, steps) ==
  /\ result.confidence \in Int
  /\ request.rag.provider = "external" /\ request.reply.kind \in Failures =>
       /\ result.confidence <= 55 /\ result.warnings # <<>>
       /\ \E i \in DOMAIN steps :
            i > 2 /\ steps[i].confidence = 0 /\ steps[i].warnings # <<>>
  /\ result.provider # "external" /\ result.sources = 0 => result.confidence <= 15

SourcesInv ==
  /\ at \in Tasks \cup {"policy", "decided"} => "knowledge" \notin queries
  /\ at = "script" => "knowledge" \in queries
  /\ at \in {"script", "answered", "done"} /\ "knowledge" \in queries => Weighed(rag, trace)

\* The answer is no surer than what it rests on.
AnswerInv ==
  /\ at = "answered" => answer = Answer(answer.body, answer.hints, answer.confidence)
  /\ at \in {"answered", "done"} => answer.confidence \in Int
  /\ at \in {"answered", "done"} /\ "knowledge" \in queries =>
       /\ answer.confidence <= rag.confidence
       /\ answer.body = "qa" => answer.hints = rag.warnings
  /\ at = "done" /\ decision.status = "UNCERTAIN" =>
       answer.prefixed /\ answer.confidence <= decision.confidence

DoubtInv == TraceInv /\ DecisionInv /\ SourcesInv /\ AnswerInv

\* The steps of the trace that a task leaves as they are.
Lengthens(steps, longer) ==
  /\ IsSeq(longer) /\ Len(steps) <= Len(longer)
  /\ \A i \in 1..Len(steps) : longer[i] = steps[i]

LEMMA StepAppended ==
  ASSUME NEW s, IsSeq(s), NEW x
  PROVE  Lengthens(s, Append(s, x)) /\ Len(Append(s, x)) = Len(s) + 1
           /\ Append(s, x)[Len(s) + 1] = x
<1> DEFINE longer == Append(s, x)
<1>1. /\ IsSeq(longer) /\ Len(s) \in Nat /\ Len(longer) = Len(s) + 1 /\ longer[Len(s) + 1] = x
      /\ \A i \in 1..Len(s) : longer[i] = s[i]
  BY Appended
<1> HIDE DEF longer
<1> QED
  BY <1>1 DEF longer, Lengthens

LEMMA DoubtsInitially == ASSUME TurnInit PROVE DoubtInv
<1>1. IsSeq(<<>>)
  BY DEF IsSeq
<1> QED
  BY <1>1 DEF TurnInit, DoubtInv, TraceInv, DecisionInv, SourcesInv, AnswerInv, Running, Tasks

\* What a task does to the trace, the decision and the request.
LEMMA TaskSteps ==
  ASSUME TraceInv, at \in Running, at' \in {"script", "answered"}, Lengthens(trace, trace'),
         UNCHANGED decision
  PROVE  TraceInv'
<1>1. Len(trace) \in Nat /\ Len(trace) >= 2
  BY DEF TraceInv, IsSeq
<1>2. Len(trace') \in Nat /\ IsSeq(trace') /\ Len(trace') >= Len(trace)
  BY DEF Lengthens, IsSeq
<1>3. 1 \in 1..Len(trace) /\ 2 \in 1..Len(trace)
  BY <1>1
<1>4. trace'[1] = trace[1] /\ trace'[2] = trace[2]
  BY <1>3 DEF Lengthens
<1>5. Len(trace') >= 2
  BY <1>1, <1>2
<1>6. /\ decision.status = "UNCERTAIN" => trace[2].warnings = <<RejectionMessage>>
      /\ trace[1].warnings = decision.warnings
  BY DEF TraceInv
<1> QED
  BY <1>2, <1>4, <1>5, <1>6 DEF TraceInv, Running

LEMMA DecidedConfidence ==
  ASSUME DecisionInv, at \in Running \cup {"decided", "done"}
  PROVE  decision.confidence \in Int /\ decision.status \in Statuses
<1>1. decision = Decide(request.text, request.classifier)
  BY DEF DecisionInv
<1> QED
  BY <1>1, DecideOf

(* The policy's step, a refusal, the router's step, a text the task writes,    *)
(* the answer.                                                                 *)
LEMMA PolicyDoubts == ASSUME TurnInv, DoubtInv, DecidePolicy PROVE DoubtInv'
<1>1. /\ at = "policy" /\ at' = "decided" /\ trace = <<>> /\ IsSeq(trace) /\ "knowledge" \notin queries
      /\ UNCHANGED <<request, queries>>
      /\ decision' = Decide(request.text, request.classifier)
  BY DEF DecidePolicy, DoubtInv, TraceInv, SourcesInv
<1> DEFINE x == Step("policy_engine", decision'.confidence, decision'.warnings)
<1>2. trace' = Append(trace, x) /\ x.warnings = decision'.warnings
  BY DEF DecidePolicy, Step
<1> HIDE DEF x
<1>3. Len(trace) = 0
  BY <1>1
<1>4. Lengthens(trace, trace') /\ Len(trace') = Len(trace) + 1 /\ trace'[Len(trace) + 1] = x
  BY <1>1, <1>2, StepAppended
<1>5. IsSeq(trace') /\ Len(trace') = 1 /\ trace'[1].warnings = decision'.warnings
  BY <1>2, <1>3, <1>4 DEF Lengthens
<1>6. TraceInv'
  BY <1>1, <1>5 DEF TraceInv, Running, Tasks
<1> QED
  BY <1>1, <1>6 DEF DoubtInv, DecisionInv, SourcesInv, AnswerInv, Running, Tasks

LEMMA RefusalDoubts == ASSUME TurnInv, DoubtInv, Refuse PROVE DoubtInv'
<1>1. /\ at = "decided" /\ at' = "done" /\ decision.status = "BLOCKED" /\ queries = {}
      /\ UNCHANGED <<request, decision, trace, queries>>
      /\ answer' = Answer("refusal", <<>>, decision.confidence)
  BY DEF Refuse, TurnInv, RefusalInv
<1>2. answer'.confidence \in Int
  BY <1>1, DecidedConfidence DEF DoubtInv, Answer
<1>3. TraceInv'
  BY <1>1 DEF DoubtInv, TraceInv, Running, Tasks
<1>4. DecisionInv'
  BY <1>1 DEF DoubtInv, DecisionInv
<1>5. SourcesInv' /\ AnswerInv'
  BY <1>1, <1>2 DEF SourcesInv, AnswerInv, Tasks
<1> QED
  BY <1>3, <1>4, <1>5 DEF DoubtInv

LEMMA RouterDoubts == ASSUME TurnInv, DoubtInv, RouteRequest PROVE DoubtInv'
<1>1. /\ at = "decided" /\ decision.status # "BLOCKED" /\ queries = {} /\ request \in Requests
      /\ at' = Routed(request.text, TaskOverride(request)).task
      /\ UNCHANGED <<request, decision, answer, queries>>
  BY DEF RouteRequest, TurnInv, RefusalInv
<1>2. at' \in Tasks
  BY <1>1, RouteTypes
<1>3. PICK c : trace' = Append(trace, Step("router", c,
                          IF decision.status = "UNCERTAIN" THEN <<RejectionMessage>> ELSE <<>>))
  BY DEF RouteRequest
<1> DEFINE x == Step("router", c, IF decision.status = "UNCERTAIN" THEN <<RejectionMessage>> ELSE <<>>)
<1>4. decision.status = "UNCERTAIN" => x.warnings = <<RejectionMessage>>
  BY DEF Step
<1>5. trace' = Append(trace, x)
  BY <1>3
<1> HIDE DEF x
<1>6. IsSeq(trace) /\ Len(trace) = 1 /\ trace[1].warnings = decision.warnings
  BY <1>1 DEF DoubtInv, TraceInv
<1>7. Lengthens(trace, trace') /\ Len(trace') = Len(trace) + 1 /\ trace'[Len(trace) + 1] = x
  BY <1>5, <1>6, StepAppended
<1>8. IsSeq(trace') /\ Len(trace') = 2 /\ trace'[2] = x /\ trace'[1] = trace[1]
  BY <1>6, <1>7 DEF Lengthens
<1>9. TraceInv'
  BY <1>1, <1>2, <1>4, <1>6, <1>8 DEF TraceInv, Tasks, Running
<1>10. DecisionInv'
  BY <1>1 DEF DoubtInv, DecisionInv
<1>11. SourcesInv' /\ AnswerInv'
  BY <1>1, <1>2 DEF SourcesInv, AnswerInv, Tasks
<1> QED
  BY <1>9, <1>10, <1>11 DEF DoubtInv

LEMMA WriterDoubts ==
  ASSUME DoubtInv, NEW task \in {"sales_analysis", "weekly_report", "email_draft"},
         NEW step, NEW confidence \in Int, NEW reads \in SUBSET {"customers"},
         Write(task, step, confidence, reads)
  PROVE  DoubtInv'
<1>1. /\ at = task /\ at \in Tasks /\ at \in Running /\ at' = "answered" /\ "knowledge" \notin queries'
      /\ UNCHANGED <<request, decision>>
      /\ answer' = Answer(task, <<>>, confidence)
  BY DEF Write, DoubtInv, SourcesInv, Tasks, Running
<1>2. IsSeq(trace)
  BY DEF DoubtInv, TraceInv
<1>3. PICK x : trace' = Append(trace, x)
  BY DEF Write
<1>4. Lengthens(trace, trace')
  BY <1>2, <1>3, StepAppended
<1>5. TraceInv'
  BY <1>1, <1>4, TaskSteps DEF DoubtInv
<1>6. DecisionInv'
  BY <1>1 DEF DoubtInv, DecisionInv
<1>7. SourcesInv' /\ AnswerInv'
  BY <1>1 DEF SourcesInv, AnswerInv, Answer, Tasks
<1> QED
  BY <1>5, <1>6, <1>7 DEF DoubtInv

LEMMA FinalDoubts == ASSUME DoubtInv, Finish PROVE DoubtInv'
<1>1. /\ at = "answered" /\ at' = "done" /\ at \in Running
      /\ UNCHANGED <<request, decision, rag, trace, queries>>
  BY DEF Finish, Running
<1>2. decision.confidence \in Int
  BY <1>1, DecidedConfidence DEF DoubtInv
<1>3. PICK body, hints, confidence : confidence \in Int /\ answer = Answer(body, hints, confidence)
  BY <1>1 DEF DoubtInv, AnswerInv
<1> DEFINE least == Min({confidence, decision.confidence})
<1>4. least \in Int /\ least <= confidence /\ least <= decision.confidence
  <2> DEFINE other == decision.confidence
  <2>1. other \in Int /\ confidence \in Int
    BY <1>2, <1>3
  <2> HIDE DEF other
  <2>2. Min({confidence, other}) \in {confidence, other} /\ Min({confidence, other}) <= confidence
        /\ Min({confidence, other}) <= other
    BY <2>1, Extremes
  <2> QED
    BY <2>1, <2>2 DEF other
<1>5. decision.status = "UNCERTAIN" =>
        answer' = [body |-> body, prefixed |-> TRUE, hints |-> hints, confidence |-> least]
  BY <1>3 DEF Finish, Answer
<1>6. decision.status # "UNCERTAIN" => answer' = answer
  BY DEF Finish
<1> HIDE DEF least
<1>7. /\ answer'.confidence \in Int /\ answer'.confidence <= answer.confidence
      /\ answer'.body = answer.body /\ answer'.hints = answer.hints
      /\ decision.status = "UNCERTAIN" => answer'.prefixed /\ answer'.confidence <= decision.confidence
  BY <1>3, <1>4, <1>5, <1>6 DEF Answer
<1>8. TraceInv'
  BY <1>1 DEF DoubtInv, TraceInv, Running, Tasks
<1>9. DecisionInv'
  BY <1>1 DEF DoubtInv, DecisionInv
<1>10. SourcesInv'
  BY <1>1 DEF DoubtInv, SourcesInv, Weighed, Tasks
<1>11. AnswerInv'
  <2>1. "knowledge" \in queries => rag.confidence \in Int /\ answer.confidence <= rag.confidence
           /\ (answer.body = "qa" => answer.hints = rag.warnings)
    BY <1>1 DEF DoubtInv, SourcesInv, AnswerInv, Weighed
  <2>2. answer.confidence \in Int
    BY <1>1 DEF DoubtInv, AnswerInv
  <2>3. "knowledge" \in queries => answer'.confidence <= rag.confidence
    BY <1>7, <2>1, <2>2
  <2> QED
    BY <1>1, <1>7, <2>1, <2>3 DEF AnswerInv
<1> QED
  BY <1>8, <1>9, <1>10, <1>11 DEF DoubtInv

StepsOf(result) ==
  [i \in DOMAIN result.diagnostics |-> DiagnosticStep(result, result.diagnostics[i])]

(* The first diagnostic becomes the first of the new steps.                    *)
LEMMA DiagnosticSteps ==
  ASSUME NEW result, Diagnosed(result)
  PROVE  /\ IsSeq(StepsOf(result)) /\ 1 \in 1..Len(StepsOf(result))
         /\ StepsOf(result)[1] = DiagnosticStep(result, result.diagnostics[1])
<1> DEFINE shown == result.diagnostics
           steps == StepsOf(result)
<1>1. \E n \in {1, 2} : DOMAIN shown = 1..n
  BY DEF Diagnosed
<1>2. PICK n \in {1, 2} : DOMAIN shown = 1..n
  BY <1>1
<1>3. steps = [i \in 1..n |-> DiagnosticStep(result, shown[i])]
  BY <1>2 DEF StepsOf
<1>4. n \in Nat /\ 1 \in 1..n
  OBVIOUS
<1>5. \A f : f = [i \in 1..n |-> DiagnosticStep(result, shown[i])] =>
        f \in Seq({f[i] : i \in DOMAIN f}) /\ Len(f) = n
  BY <1>4
<1>6. IsSeq(steps) /\ Len(steps) = n
  BY <1>3, <1>5 DEF IsSeq
<1> QED
  BY <1>3, <1>4, <1>6

(* A question to the knowledge service, with the trace it leaves.              *)
LEMMA QueryDoubts ==
  ASSUME TurnInv, DoubtInv, NEW next, NEW body, Query(next, body),
         (at = "qa" /\ next = "answered") \/ (at = "podcast_script" /\ next = "script")
  PROVE  DoubtInv'
<1> DEFINE result == RagQuery(request.rag, Words(request.text), request.files, request.reply)
<1>1. /\ at \in Tasks /\ at \in Running /\ request \in Requests
      /\ queries' = queries \cup {"knowledge"} /\ UNCHANGED <<request, decision, route>>
  BY DEF Query, TurnInv, Tasks, Running
<1>2. IsSeq(trace) /\ Len(trace) \in Nat /\ Len(trace) >= 2
  <2>1. IsSeq(trace) /\ Len(trace) >= 2
    BY <1>1 DEF DoubtInv, TraceInv
  <2> QED
    BY <2>1 DEF IsSeq
<1>3. DecisionInv'
  BY <1>1 DEF DoubtInv, DecisionInv, Query, Running
<1>4. CASE result.raises
  <2>1. at' = "failed" /\ UNCHANGED trace
    BY <1>4 DEF Query
  <2>2. TraceInv'
    BY <1>2, <2>1 DEF TraceInv, Running, Tasks
  <2>3. SourcesInv' /\ AnswerInv'
    BY <2>1 DEF SourcesInv, AnswerInv, Tasks
  <2> QED
    BY <1>3, <2>2, <2>3 DEF DoubtInv
<1>5. CASE ~result.raises
  <2>1. /\ at' = next /\ rag' = result /\ trace' = trace \o StepsOf(result)
        /\ answer' = Answer(body, result.warnings, result.confidence)
    BY <1>5 DEF Query, StepsOf
  <2>2. at' \in {"script", "answered"}
    BY <2>1
  <2>3. Trusted(result, request.rag, request.reply)
    <3>1. /\ request.files \in Seq([content : STRING, words : SUBSET STRING, category : SUBSET STRING])
          /\ request.reply.confidence \in Int
      BY <1>1, RequestsAssumption DEF RequestsAssumption
    <3>2. IsFiniteSet(Words(request.text))
      BY <1>1, WordsOf
    <3> QED
      BY <1>5, <3>1, <3>2, RagQueryOf
  <2> HIDE DEF result
  <2>4. Diagnosed(result) /\ result.confidence \in Int
    BY <2>3 DEF Trusted
  <2> DEFINE steps == StepsOf(result)
             first == Len(trace) + 1
  <2>5. /\ IsSeq(steps) /\ 1 \in 1..Len(steps)
        /\ steps[1] = DiagnosticStep(result, result.diagnostics[1])
    BY <2>4, DiagnosticSteps
  <2> HIDE DEF steps
  <2>6. trace' = trace \o steps
    BY <2>1 DEF steps
  <2>7. /\ IsSeq(trace') /\ Len(trace') = Len(trace) + Len(steps) /\ Len(steps) \in Nat
        /\ \A i \in 1..Len(trace) : trace'[i] = trace[i]
        /\ \A i \in 1..Len(steps) : trace'[Len(trace) + i] = steps[i]
    BY <1>2, <2>5, <2>6, Joined
  <2>8. Lengthens(trace, trace')
    BY <1>2, <2>7 DEF Lengthens
  <2>9. first \in DOMAIN trace' /\ trace'[first] = steps[1] /\ first > 2
    <3>1. DOMAIN trace' = 1..Len(trace')
      BY <2>7 DEF IsSeq
    <3>2. first \in 1..Len(trace')
      BY <1>2, <2>5, <2>7
    <3>3. first > 2
      BY <1>2
    <3> QED
      BY <2>5, <2>7, <3>1, <3>2, <3>3
  <2>10. TraceInv'
    BY <1>1, <2>2, <2>8, TaskSteps DEF DoubtInv
  <2>11. ASSUME request.rag.provider = "external", request.reply.kind \in Failures
         PROVE  /\ result.confidence <= 55 /\ result.warnings # <<>>
                /\ steps[1].confidence = 0 /\ steps[1].warnings = result.warnings
    <3>1. /\ result.confidence <= 55 /\ result.warnings # <<>> /\ ~result.diagnostics[1].success
      BY <2>3, <2>11 DEF Trusted
    <3> QED
      BY <2>5, <3>1 DEF DiagnosticStep, Step
  <2>12. Weighed(result, trace')
    BY <2>3, <2>4, <2>9, <2>11 DEF Weighed, Trusted
  <2>13. SourcesInv'
    <3>1. Weighed(rag, trace)'
      BY <1>1, <2>1, <2>12 DEF Weighed
    <3> QED
      BY <1>1, <2>2, <3>1 DEF SourcesInv, Tasks
  <2>14. AnswerInv'
    BY <2>1, <2>2, <2>4 DEF AnswerInv, Answer
  <2> QED
    BY <1>3, <2>10, <2>13, <2>14 DEF DoubtInv
<1> QED
  BY <1>4, <1>5

(* The script of a podcast claims what its sources do.                         *)
LEMMA ScriptDoubts == ASSUME DoubtInv, WritePodcast PROVE DoubtInv'
<1>1. /\ at = "script" /\ at \in Running /\ at' = "answered" /\ "knowledge" \in queries
      /\ UNCHANGED <<request, decision, rag, queries>>
      /\ answer' = Answer("podcast_script", <<>>, rag.confidence)
  BY DEF WritePodcast, DoubtInv, SourcesInv, Running
<1>2. IsSeq(trace) /\ Len(trace) \in Nat
  <2>1. IsSeq(trace)
    BY DEF DoubtInv, TraceInv
  <2> QED
    BY <2>1 DEF IsSeq
<1>3. PICK x : trace' = Append(trace, x)
  BY DEF WritePodcast
<1>4. Lengthens(trace, trace')
  BY <1>2, <1>3, StepAppended
<1>5. TraceInv'
  BY <1>1, <1>4, TaskSteps DEF DoubtInv
<1>6. DecisionInv'
  BY <1>1 DEF DoubtInv, DecisionInv
<1>7. Weighed(rag, trace)
  BY <1>1 DEF DoubtInv, SourcesInv
<1>8. Weighed(rag, trace')
  <2>1. ASSUME NEW i \in DOMAIN trace PROVE i \in DOMAIN trace' /\ trace'[i] = trace[i]
    <3>1. DOMAIN trace = 1..Len(trace) /\ DOMAIN trace' = 1..Len(trace') /\ Len(trace') \in Nat
      BY <1>2, <1>4 DEF Lengthens, IsSeq
    <3> QED
      BY <1>2, <1>4, <3>1 DEF Lengthens
  <2> QED
    BY <1>7, <2>1 DEF Weighed
<1>9. SourcesInv'
  <2>1. Weighed(rag, trace)'
    BY <1>1, <1>8 DEF Weighed
  <2> QED
    BY <1>1, <2>1 DEF SourcesInv, Tasks
<1>10. AnswerInv'
  <2>1. rag.confidence \in Int
    BY <1>7 DEF Weighed
  <2> QED
    BY <1>1, <2>1 DEF AnswerInv, Answer
<1> QED
  BY <1>5, <1>6, <1>9, <1>10 DEF DoubtInv

LEMMA EarlyDoubts == ASSUME DoubtInv, FailEarly PROVE DoubtInv'
BY DEF FailEarly, DoubtInv, TraceInv, DecisionInv, SourcesInv, AnswerInv, Running, Tasks

LEMMA StutterDoubts == ASSUME DoubtInv, UNCHANGED turnVars PROVE DoubtInv'
BY DEF turnVars, DoubtInv, TraceInv, DecisionInv, SourcesInv, Weighed, AnswerInv

(* Every step of the turn preserves the doubts.                                *)
LEMMA DoubtStepKeeps == ASSUME TurnInv, DoubtInv, [TurnNext]_turnVars PROVE DoubtInv'
<1>1. CASE RunQa \/ BeginPodcast
  BY <1>1, QueryDoubts DEF RunQa, BeginPodcast
<1>2. CASE RunSalesAnalysis \/ RunWeeklyReport \/ RunEmail
  <2>1. /\ 72 \in Int /\ 35 \in Int /\ 75 \in Int /\ 30 \in Int /\ 68 \in Int
        /\ {} \in SUBSET {"customers"} /\ {"customers"} \in SUBSET {"customers"}
    OBVIOUS
  <2>2. PICK task \in {"sales_analysis", "weekly_report", "email_draft"},
             confidence \in Int, reads \in SUBSET {"customers"} :
          \E step : Write(task, step, confidence, reads)
    BY <1>2, <2>1 DEF RunSalesAnalysis, RunWeeklyReport, RunEmail
  <2> QED
    BY <2>2, WriterDoubts
<1> QED
  BY <1>1, <1>2, EarlyDoubts, PolicyDoubts, RefusalDoubts, RouterDoubts, ScriptDoubts, FinalDoubts,
     StutterDoubts DEF TurnNext

LEMMA DecidedRisks == ASSUME TurnInv, DoubtInv PROVE RisksAreHandled
<1> SUFFICES ASSUME at = "decided" PROVE RisksAreHandled
  BY DEF RisksAreHandled
<1>1. request \in Requests /\ decision = Decide(request.text, request.classifier)
  BY DEF TurnInv, DoubtInv, DecisionInv
<1>2. request.text \in Seq(Token)
  <2>1. request.text \in Seq(STRING)
    BY <1>1, RequestsAssumption DEF RequestsAssumption
  <2> QED
    BY <2>1 DEF Token
<1> QED
  BY <1>1, <1>2, DecisionsHandleRisks DEF RisksAreHandled

LEMMA CarriedDoubts == ASSUME TurnInv, DoubtInv PROVE AnswersCarryTheirDoubts
<1>1. QuestionsReadNoCustomer
  BY DEF TurnInv, QuestionInv, QuestionsReadNoCustomer
<1>2. RefusalsTouchNothing
  BY DEF TurnInv, RefusalInv
<1>3. ASSUME at = "done", decision.status = "UNCERTAIN"
      PROVE  /\ answer.prefixed /\ answer.confidence <= decision.confidence
             /\ trace[2].warnings = <<RejectionMessage>>
  BY <1>3 DEF DoubtInv, AnswerInv, TraceInv
<1>4. ASSUME at = "done", "knowledge" \in queries
      PROVE  /\ request.rag.provider = "external" /\ request.reply.kind \in Failures =>
                  /\ answer.confidence <= 55
                  /\ \E i \in DOMAIN trace :
                       i > 2 /\ trace[i].confidence = 0 /\ trace[i].warnings # <<>>
                  /\ answer.body = "qa" => answer.hints # <<>>
             /\ rag.provider # "external" /\ rag.sources = 0 => answer.confidence <= 15
  <2>1. Weighed(rag, trace) /\ answer.confidence \in Int
        /\ answer.confidence <= rag.confidence /\ (answer.body = "qa" => answer.hints = rag.warnings)
    BY <1>4 DEF DoubtInv, SourcesInv, AnswerInv
  <2> QED
    BY <2>1 DEF Weighed
<1>5. at = "done" => trace[1].warnings = decision.warnings
  BY DEF DoubtInv, TraceInv
<1> QED
  BY <1>1, <1>2, <1>3, <1>4, <1>5 DEF AnswersCarryTheirDoubts

-----------------------------------------------------------------------------
(* The scores of a customer. *)

Penalties(risks) ==
  LET Penalty(sum, risk) == sum + RiskPenalty[risk] IN FoldLeft(Penalty, 0, risks)

(* The penalties of any number of risks are a number.                           *)
LEMMA PenaltiesOf == ASSUME NEW risks \in Seq(DOMAIN RiskPenalty) PROVE Penalties(risks) \in Int
<1> DEFINE D == 1..Len(risks)
           Charge(d) == RiskPenalty[risks[d]]
           pick == [s \in SUBSET D |-> Max(s)]
           step == [xd \in Int \X D |-> xd[1] + Charge(xd[2])]
<1>1. Len(risks) \in Nat /\ DOMAIN risks = D /\ IsFiniteSet(D)
  <2>1. Len(risks) \in Nat /\ 1 \in Int /\ Len(risks) \in Int
    OBVIOUS
  <2> QED
    BY <2>1, FS_Interval
<1>2. \A d \in D : Charge(d) \in Int
  BY <1>1 DEF RiskPenalty
<1>3. \A s \in SUBSET D : s # {} => pick[s] \in s /\ pick[s] = Max(s)
  <2> SUFFICES ASSUME NEW s \in SUBSET D, s # {} PROVE Max(s) \in s
    OBVIOUS
  <2>1. s \in SUBSET Nat /\ \A y \in s : y <= Len(risks)
    BY <1>1
  <2> QED
    BY <1>1, <2>1, GreatestOf
<1> HIDE DEF Charge
<1>a. \A s \in SUBSET D : s # {} => pick[s] \in s
  BY <1>3
<1>4. \A x \in Int, d \in D : step[<<x, d>>] = x + Charge(d) /\ step[<<x, d>>] \in Int
  BY <1>2
<1> HIDE DEF pick, step
<1>5. PICK f : IsFold(f, D, Int, 0, pick, step)
  <2>1. Foldable(D, Int, 0, pick, step)
    <3>1. IsFiniteSet(D) /\ \A x \in Int, d \in D : step[<<x, d>>] \in Int
      BY <1>1, <1>4
    <3> HIDE DEF D
    <3> QED
      BY <1>a, <3>1 DEF Foldable
  <2> QED
    BY <2>1, FoldExists
<1>6. f = [s \in SUBSET D |-> IF s = {} THEN 0 ELSE f[s \ {Max(s)}] + Charge(Max(s))]
  <2>1. f \in [SUBSET D -> Int] /\ f[{}] = 0
    BY <1>5 DEF IsFold
  <2>2. ASSUME NEW s \in SUBSET D, s # {} PROVE f[s] = f[s \ {Max(s)}] + Charge(Max(s))
    <3>1. pick[s] = Max(s) /\ pick[s] \in D /\ f[s \ {pick[s]}] \in Int
      BY <1>3, <2>1, <2>2
    <3>2. f[s] = step[<<f[s \ {pick[s]}], pick[s]>>]
      BY <1>5, <2>2 DEF IsFold
    <3> QED
      BY <1>4, <3>1, <3>2
  <2> QED
    BY <2>1, <2>2
<1> DEFINE iter == CHOOSE h : h = [s \in SUBSET D |-> IF s = {} THEN 0
                                     ELSE h[s \ {Max(s)}] + Charge(Max(s))]
<1>7. iter = [s \in SUBSET D |-> IF s = {} THEN 0 ELSE iter[s \ {Max(s)}] + Charge(Max(s))]
  BY <1>6
<1>8. Penalties(risks) = iter[D]
  BY <1>1 DEF Penalties, FoldLeft, MapThenFoldSet, Charge
<1> HIDE DEF iter
<1>9. Kept(D, Int, pick, iter)
  <2>1. iter[{}] = 0
    BY <1>7
  <2>2. ASSUME NEW s \in SUBSET D, s # {}, iter[s \ {pick[s]}] \in Int PROVE iter[s] \in Int
    <3>1. iter[s] = iter[s \ {Max(s)}] + Charge(Max(s))
      BY <1>7, <2>2
    <3>2. pick[s] = Max(s) /\ Max(s) \in D
      BY <1>3, <2>2
    <3> QED
      BY <1>2, <2>2, <3>1, <3>2
  <2> QED
    BY <1>1, <1>a, <2>1, <2>2 DEF Kept
<1> QED
  BY <1>8, <1>9, FoldValues

WeightedSum(dimensions) ==
  LET Filled(d) == IF d \in DOMAIN dimensions /\ dimensions[d] \in 0..100 THEN dimensions[d] ELSE 0
      Weighted(d) == DealWeights[d] * Filled(d)
  IN MapThenSumSet(Weighted, DOMAIN DealWeights)

LEMMA WeightedSumOf == ASSUME NEW dimensions PROVE WeightedSum(dimensions) \in Int
<1> DEFINE D == DOMAIN DealWeights
           Filled(d) == IF d \in DOMAIN dimensions /\ dimensions[d] \in 0..100 THEN dimensions[d] ELSE 0
           Weighted(d) == DealWeights[d] * Filled(d)
           pick == [s \in SUBSET D |-> CHOOSE x \in s : TRUE]
           step == [xd \in Int \X D |-> Weighted(xd[2]) + xd[1]]
<1>1. IsFiniteSet(D)
  <2>1. D = {"need_clarity", "budget_fit", "decision_maker_access", "urgency"} \cup {"engagement"}
    BY DEF DealWeights
  <2>2. IsFiniteSet({"need_clarity"} \cup {"budget_fit"})
    BY FS_Singleton, FS_Union
  <2>3. IsFiniteSet(({"need_clarity"} \cup {"budget_fit"}) \cup {"decision_maker_access"})
    BY <2>2, FS_Singleton, FS_Union
  <2>4. IsFiniteSet((({"need_clarity"} \cup {"budget_fit"}) \cup {"decision_maker_access"}) \cup {"urgency"})
    BY <2>3, FS_Singleton, FS_Union
  <2>5. (({"need_clarity"} \cup {"budget_fit"}) \cup {"decision_maker_access"}) \cup {"urgency"}
          = {"need_clarity", "budget_fit", "decision_maker_access", "urgency"}
    OBVIOUS
  <2>6. IsFiniteSet({"need_clarity", "budget_fit", "decision_maker_access", "urgency"} \cup {"engagement"})
    <3>1. IsFiniteSet({"need_clarity", "budget_fit", "decision_maker_access", "urgency"})
      BY <2>4, <2>5
    <3> QED
      BY <3>1, FS_Singleton, FS_Union
  <2> QED
    BY <2>1, <2>6
<1>2. \A d \in D : Weighted(d) \in Int
  <2> SUFFICES ASSUME NEW d \in D PROVE Weighted(d) \in Int
    OBVIOUS
  <2>1. DealWeights[d] \in Int
    BY DEF DealWeights
  <2>2. Filled(d) \in Int
    OBVIOUS
  <2> QED
    BY <2>1, <2>2
<1> HIDE DEF Weighted, D
<1>3. \A s \in SUBSET D : s # {} => pick[s] \in s /\ pick[s] = CHOOSE x \in s : TRUE
  OBVIOUS
<1>4. \A x \in Int, d \in D : step[<<x, d>>] = Weighted(d) + x /\ step[<<x, d>>] \in Int
  BY <1>2
<1> HIDE DEF pick, step
<1>5. PICK f : IsFold(f, D, Int, 0, pick, step)
  <2>1. Foldable(D, Int, 0, pick, step)
    BY <1>1, <1>3, <1>4 DEF Foldable
  <2> QED
    BY <2>1, FoldExists
<1>6. f = [s \in SUBSET D |-> IF s = {} THEN 0
             ELSE Weighted(CHOOSE x \in s : TRUE) + f[s \ {CHOOSE x \in s : TRUE}]]
  <2>1. f \in [SUBSET D -> Int] /\ f[{}] = 0
    BY <1>5 DEF IsFold
  <2>2. ASSUME NEW s \in SUBSET D, s # {}
        PROVE  f[s] = Weighted(CHOOSE x \in s : TRUE) + f[s \ {CHOOSE x \in s : TRUE}]
    <3>1. pick[s] = (CHOOSE x \in s : TRUE) /\ pick[s] \in D /\ f[s \ {pick[s]}] \in Int
      BY <1>3, <2>1, <2>2
    <3>2. f[s] = step[<<f[s \ {pick[s]}], pick[s]>>]
      BY <1>5, <2>2 DEF IsFold
    <3> QED
      BY <1>4, <3>1, <3>2
  <2> QED
    BY <2>1, <2>2
<1> DEFINE iter == CHOOSE h : h = [s \in SUBSET D |-> IF s = {} THEN 0
                     ELSE Weighted(CHOOSE x \in s : TRUE) + h[s \ {CHOOSE x \in s : TRUE}]]
<1>7. iter = [s \in SUBSET D |-> IF s = {} THEN 0
                ELSE Weighted(CHOOSE x \in s : TRUE) + iter[s \ {CHOOSE x \in s : TRUE}]]
  BY <1>6
<1>8. MapThenSumSet(Weighted, D) = iter[D]
  BY DEF MapThenSumSet, MapThenFoldSet
<1> HIDE DEF iter
<1>9. Kept(D, Int, pick, iter)
  <2>1. iter[{}] = 0
    BY <1>7
  <2>2. ASSUME NEW s \in SUBSET D, s # {}, iter[s \ {pick[s]}] \in Int PROVE iter[s] \in Int
    <3>1. iter[s] = Weighted(CHOOSE x \in s : TRUE) + iter[s \ {CHOOSE x \in s : TRUE}]
      BY <1>7, <2>2
    <3>2. pick[s] = (CHOOSE x \in s : TRUE) /\ pick[s] \in D
      BY <1>3, <2>2
    <3> QED
      BY <1>2, <2>2, <3>1, <3>2
  <2> QED
    BY <1>1, <1>3, <2>1, <2>2 DEF Kept
<1>10. iter[D] \in Int
  BY <1>9, FoldValues
<1> QED
  BY <1>8, <1>10 DEF WeightedSum, Weighted, D

\* A score and its level as the schema admits them.
Rated(deal) == deal.score \in 0..100 /\ deal.level = Level(deal.score)
Assessed(health) == health.score \in 0..100 /\ health.status = HealthStatus(health.score)

LEMMA RoundedOf ==
  ASSUME NEW value \in Int
  PROVE  /\ Rounded(value, 100) \in Int
         /\ value \in 0..2000 => Rounded(value, 100) \in 0..20
<1> DEFINE quotient == value \div 100
           rest == value % 100
<1>1. quotient \in Int /\ rest \in 0..99 /\ value = 100 * quotient + rest
  OBVIOUS
<1>2. Rounded(value, 100) \in {quotient, quotient + 1}
      /\ (2 * rest < 100 => Rounded(value, 100) = quotient)
  BY <1>1 DEF Rounded
<1> DEFINE rounded == Rounded(value, 100)
<1> HIDE DEF quotient, rest, rounded
<1>3. rounded \in {quotient, quotient + 1} /\ (2 * rest < 100 => rounded = quotient)
  BY <1>2 DEF rounded
<1>4. rounded \in Int
  BY <1>1, <1>3
<1>5. ASSUME value \in 0..2000 PROVE rounded \in 0..20
  <2>1. quotient >= 0 /\ quotient <= 20 /\ (quotient = 20 => rest = 0)
    BY <1>1, <1>5
  <2> QED
    BY <1>1, <1>3, <2>1
<1> QED
  BY <1>4, <1>5 DEF rounded

(* A deal's score is admissible, whatever the dimensions and the risks.         *)
LEMMA DealOf ==
  ASSUME NEW dimensions, NEW risks \in Seq(DOMAIN RiskPenalty)
  PROVE  DealScore(dimensions, risks) \in DealScores /\ Rated(DealScore(dimensions, risks))
<1> DEFINE Filled(d) == IF d \in DOMAIN dimensions /\ dimensions[d] \in 0..100 THEN dimensions[d] ELSE 0
           sum == WeightedSum(dimensions)
           penalties == Penalties(risks)
           raw == Rounded(sum - 100 * penalties, 100)
           score == Max({0, Min({100, raw})})
<1>1. DealScore(dimensions, risks) =
        [score |-> score, level |-> Level(score), need_clarity |-> Filled("need_clarity")]
  BY DEF DealScore, WeightedSum, Penalties
<1>2. sum \in Int /\ penalties \in Int
  BY WeightedSumOf, PenaltiesOf
<1> HIDE DEF sum, penalties
<1>3. raw \in Int
  <2>1. sum - 100 * penalties \in Int
    BY <1>2
  <2> QED
    BY <2>1, RoundedOf
<1> HIDE DEF raw
<1>4. score \in 0..100
  <2> DEFINE least == Min({100, raw})
  <2>0. 0 \in Int /\ 100 \in Int
    OBVIOUS
  <2>1. least \in {100, raw} /\ least <= 100
    BY <1>3, <2>0, Extremes
  <2> HIDE DEF least
  <2>2. least \in Int
    BY <1>3, <2>0, <2>1
  <2>3. Max({0, least}) \in {0, least} /\ Max({0, least}) >= 0
    BY <2>0, <2>2, Extremes
  <2> DEFINE most == Max({0, least})
  <2> HIDE DEF most
  <2>4. most \in {0, least} /\ most >= 0
    BY <2>3 DEF most
  <2>5. most \in 0..100
    BY <2>1, <2>2, <2>4
  <2> QED
    BY <2>5 DEF least, most
<1>5. Filled("need_clarity") \in 0..100
  OBVIOUS
<1> HIDE DEF score, Filled
<1>6. Level(score) \in {"C", "B", "A", "S"}
  <2>1. score <= 40 \/ score \in 41..60 \/ score \in 61..80 \/ score > 80
    BY <1>4
  <2> QED
    BY <1>4, <2>1, Zenon DEF Level
<1> QED
  BY <1>1, <1>4, <1>5, <1>6 DEF DealScores, Rated

LEMMA RisksOf ==
  ASSUME NEW risks \in Seq(DOMAIN RiskPenalty)
  PROVE  Max({2, 20 - 5 * HighRisks(risks)}) \in 2..20
<1> DEFINE high == HighRisks(risks)
<1>1. high \in Nat
  <2>1. Len(risks) \in Int /\ 1 \in Int /\ DOMAIN risks = 1..Len(risks)
    OBVIOUS
  <2>2. IsFiniteSet(DOMAIN risks)
    BY <2>1, FS_Interval
  <2>3. IsFiniteSet({i \in DOMAIN risks : risks[i] \in {"high", "critical"}})
    BY <2>2, FS_Subset
  <2> QED
    BY <2>3, FS_CardinalityType DEF HighRisks
<1> HIDE DEF high
<1> DEFINE points == 20 - 5 * high
<1>2. points \in Int /\ points <= 20
  BY <1>1
<1> HIDE DEF points
<1> DEFINE most == Max({2, points})
<1>3. most \in {2, points} /\ most >= 2
  <2>1. 2 \in Int
    OBVIOUS
  <2> QED
    BY <1>2, <2>1, Extremes
<1> HIDE DEF most
<1>4. most \in 2..20
  BY <1>2, <1>3
<1> QED
  BY <1>4 DEF most, points, high

(* So is the health of a customer, and each of its five parts within 20.        *)
LEMMA HealthOf ==
  ASSUME NEW customer \in CustomerProfiles
  PROVE  HealthScore(customer) \in HealthScores /\ Assessed(HealthScore(customer))
<1> DEFINE facts == customer.facts
           contact == Rounded(RecentContact(facts.days) * Decay(facts.days), 100)
           risk == IF facts.risks = <<>> THEN 15 ELSE Max({2, 20 - 5 * HighRisks(facts.risks)})
           decider == IF facts.decision_maker THEN 20 ELSE 5
           need == IF customer.deal.score = -1 THEN 10 ELSE customer.deal.need_clarity \div 5
           timeline == IF facts.budget /\ facts.timeline THEN 15 ELSE 5
           score == contact + risk + decider + need + timeline
<1>1. HealthScore(customer) = [score |-> score, status |-> HealthStatus(score)]
  BY DEF HealthScore
<1>2. facts.days \in Nat /\ facts.risks \in Seq(DOMAIN RiskPenalty) /\ customer.deal \in DealScores
  BY DEF CustomerProfiles, CustomerFacts
<1>3. contact \in 0..20
  <2> DEFINE days == facts.days
             product == RecentContact(days) * Decay(days)
  <2>1. days \in Nat
    BY <1>2
  <2> HIDE DEF days
  <2>2. product \in 0..2000
    <3>1. RecentContact(days) \in 0..20
      BY <2>1 DEF RecentContact
    <3>2. Decay(days) \in {30, 50, 70, 90, 100}
      BY <2>1 DEF Decay
    <3> DEFINE points == RecentContact(days)
               decay == Decay(days)
    <3> HIDE DEF points, decay
    <3>3. points * decay \in 0..2000
      BY <3>1, <3>2 DEF points, decay
    <3> QED
      BY <3>3 DEF points, decay
  <2> HIDE DEF product
  <2>3. Rounded(product, 100) \in 0..20
    BY <2>2, RoundedOf
  <2> QED
    BY <2>3 DEF product, days
<1>4. risk \in 0..20
  <2>1. Max({2, 20 - 5 * HighRisks(facts.risks)}) \in 2..20
    BY <1>2, RisksOf
  <2> DEFINE most == Max({2, 20 - 5 * HighRisks(facts.risks)})
  <2> HIDE DEF most
  <2>2. most \in 0..20
    BY <2>1 DEF most
  <2> QED
    BY <2>2 DEF most
<1>5. need \in 0..20
  <2> DEFINE deal == customer.deal
  <2>1. deal \in DealScores
    BY <1>2
  <2> HIDE DEF deal
  <2>2. deal.need_clarity \in 0..100
    BY <2>1 DEF DealScores, NoDeal
  <2>3. deal.need_clarity \div 5 \in 0..20
    BY <2>2
  <2> QED
    BY <2>3 DEF deal
<1>6. decider \in 0..20 /\ timeline \in 0..15
  OBVIOUS
<1> HIDE DEF contact, risk, decider, need, timeline, facts
<1>7. score \in 0..100
  BY <1>3, <1>4, <1>5, <1>6
<1> HIDE DEF score
<1>8. HealthStatus(score) \in {"cold", "warm", "healthy"}
  BY <1>7 DEF HealthStatus
<1> QED
  BY <1>1, <1>7, <1>8 DEF HealthScores, Assessed

\* What a tool call may assign: strings, or nothing.
Assignable(call) ==
  /\ call.customer_name = Absent \/ call.customer_name \in STRING
  /\ call.industry = Absent \/ call.industry \in STRING
  /\ call.aliases = Absent \/ call.aliases \in STRING

\* One record for each of the two scores, and the rest of the profile as it is.
StillRated(customer, kept) ==
  /\ kept \in CustomerProfiles
  /\ kept.deal # customer.deal => Rated(kept.deal)
  /\ kept.health # customer.health => Assessed(kept.health)

LEMMA SavedOf ==
  ASSUME NEW customer, NEW changed, StillRated(customer, changed)
  PROVE  StillRated(customer, Saved(changed))
<1>1. changed \in CustomerProfiles
  BY DEF StillRated
<1>2. Saved(changed) \in CustomerProfiles
      /\ Saved(changed).deal = changed.deal /\ Saved(changed).health = changed.health
  BY <1>1 DEF Saved, CustomerProfiles
<1> QED
  BY <1>2 DEF StillRated

LEMMA UpdateKeeps ==
  ASSUME NEW customer \in CustomerProfiles, NEW call, Assignable(call)
  PROVE  StillRated(customer, UpdateCustomer(customer, call).profile)
<1> DEFINE named == IF call.customer_name \in {Absent, customer.name} THEN customer
                    ELSE [customer EXCEPT !.name = call.customer_name]
           moves == call.sales_stage \in Stages \ {customer.stage}
           placed == IF call.industry = Absent THEN named
                     ELSE [named EXCEPT !.industry = call.industry]
           staged == IF moves THEN [placed EXCEPT !.stage = call.sales_stage] ELSE placed
           stated == IF call.status = Absent THEN staged ELSE [staged EXCEPT !.status = call.status]
           aliased == IF call.aliases = Absent THEN stated ELSE [stated EXCEPT !.aliases = call.aliases]
           refused == \/ moves /\ ~CanTransition(customer.stage, call.sales_stage)
                      \/ call.sales_stage = "unhashable"
                      \/ call.status \notin CustomerStatuses \cup {Absent}
           changed == aliased # customer \/ call.aliases # Absent
           same(next) == next.deal = customer.deal /\ next.health = customer.health
<1>1. UpdateCustomer(customer, call) =
        IF ~Loads(customer, call) \/ refused THEN ToolResult(FALSE, customer)
        ELSE IF ~changed THEN ToolResult(TRUE, customer)
        ELSE ToolResult(Indexable(aliased), Saved(aliased))
  BY DEF UpdateCustomer
<1>2. \A success, next : ToolResult(success, next).profile = next
  BY DEF ToolResult
<1>3. StillRated(customer, customer)
  BY DEF StillRated
<1>4. CASE ~refused
  <2>1. named \in CustomerProfiles /\ same(named)
    BY DEF Assignable, CustomerProfiles
  <2>2. moves => call.sales_stage \in Stages
    OBVIOUS
  <2>3. call.status = Absent \/ call.status \in CustomerStatuses
    BY <1>4
  <2> HIDE DEF named, moves
  <2>a. placed \in CustomerProfiles /\ same(placed)
    BY <2>1 DEF CustomerProfiles, Assignable
  <2> HIDE DEF placed
  <2>4. staged \in CustomerProfiles /\ same(staged)
    BY <2>a, <2>2 DEF CustomerProfiles
  <2> HIDE DEF staged
  <2>5. stated \in CustomerProfiles /\ same(stated)
    BY <2>3, <2>4 DEF CustomerProfiles
  <2> HIDE DEF stated
  <2>6. aliased \in CustomerProfiles /\ same(aliased)
    BY <2>5 DEF CustomerProfiles, Assignable
  <2> HIDE DEF aliased
  <2>7. StillRated(customer, aliased)
    BY <2>6 DEF StillRated
  <2>8. StillRated(customer, Saved(aliased))
    BY <2>7, SavedOf
  <2> HIDE DEF changed
  <2> QED
    BY <1>1, <1>2, <1>3, <1>4, <2>8
<1>5. CASE refused
  <2> HIDE DEF refused, aliased, changed
  <2> QED
    BY <1>1, <1>2, <1>3, <1>5
<1> QED
  BY <1>4, <1>5

LEMMA ScoreKeeps ==
  ASSUME NEW customer \in CustomerProfiles, NEW call
  PROVE  StillRated(customer, ScoreCustomer(customer, call).profile)
<1> DEFINE deal == DealScore(DealDimensions(customer), customer.facts.risks)
           dealt == IF call.score_type \in {"deal", "both"}
                    THEN [customer EXCEPT !.deal = deal] ELSE customer
           scored == IF call.score_type \in {"health", "both"}
                     THEN [dealt EXCEPT !.health = HealthScore(dealt)] ELSE dealt
<1>1. ScoreCustomer(customer, call) =
        IF ~Loads(customer, call) THEN ToolResult(FALSE, customer) ELSE ToolResult(TRUE, Saved(scored))
  BY DEF ScoreCustomer
<1>2. \A success, next : ToolResult(success, next).profile = next
  BY DEF ToolResult
<1>3. StillRated(customer, customer)
  BY DEF StillRated
<1>4. deal \in DealScores /\ Rated(deal)
  <2>1. customer.facts.risks \in Seq(DOMAIN RiskPenalty)
    BY DEF CustomerProfiles, CustomerFacts
  <2> QED
    BY <2>1, DealOf
<1> HIDE DEF deal
<1>5. /\ dealt \in CustomerProfiles /\ dealt.health = customer.health
      /\ dealt.deal # customer.deal => Rated(dealt.deal)
  <2>1. CASE call.score_type \in {"deal", "both"}
    <3>1. dealt = [customer EXCEPT !.deal = deal]
      BY <2>1
    <3> HIDE DEF dealt
    <3>2. dealt \in CustomerProfiles /\ dealt.health = customer.health /\ dealt.deal = deal
      BY <1>4, <3>1 DEF CustomerProfiles
    <3> QED
      BY <1>4, <3>2
  <2> QED
    BY <2>1
<1> HIDE DEF dealt
<1>6. HealthScore(dealt) \in HealthScores /\ Assessed(HealthScore(dealt))
  BY <1>5, HealthOf
<1>7. StillRated(customer, scored)
  <2> DEFINE health == HealthScore(dealt)
  <2> HIDE DEF health
  <2>1. CASE call.score_type \in {"health", "both"}
    <3>1. scored = [dealt EXCEPT !.health = health]
      BY <2>1 DEF health
    <3> HIDE DEF scored
    <3>2. health \in HealthScores /\ Assessed(health)
      BY <1>6 DEF health
    <3>3. scored \in CustomerProfiles /\ scored.health = health /\ scored.deal = dealt.deal
      BY <1>5, <3>1, <3>2 DEF CustomerProfiles
    <3> QED
      BY <1>5, <3>2, <3>3 DEF StillRated
  <2>2. CASE call.score_type \notin {"health", "both"}
    BY <1>5, <2>2 DEF StillRated
  <2> QED
    BY <2>1, <2>2
<1>8. StillRated(customer, Saved(scored))
  BY <1>7, SavedOf
<1> HIDE DEF scored
<1> QED
  BY <1>1, <1>2, <1>3, <1>8

LEMMA ToolsKeepProfiles ==
  ASSUME NEW customer \in CustomerProfiles, NEW call, Assignable(call)
  PROVE  StillRated(customer, Execute(customer, call).profile)
<1> DEFINE kept == Execute(customer, call).profile
<1>1. \A success, next : ToolResult(success, next).profile = next
  BY DEF ToolResult
<1>2. StillRated(customer, customer)
  BY DEF StillRated
<1>3. CASE call.extra \in ReservedArguments
  <2>1. Execute(customer, call) = [ToolResult(FALSE, customer) EXCEPT !.raises = TRUE]
    BY <1>3 DEF Execute
  <2>2. Execute(customer, call).profile = customer
    BY <2>1 DEF ToolResult
  <2> QED
    BY <1>2, <2>2
<1>4. CASE call.extra \notin ReservedArguments /\ call.name \notin ToolNames
  <2>1. Execute(customer, call) = ToolResult(FALSE, customer)
    BY <1>4 DEF Execute, ToolNames
  <2> QED
    BY <1>1, <1>2, <2>1
<1>5. CASE call.extra \notin ReservedArguments /\ call.name = "customer_memory_search"
  <2>1. Execute(customer, call) = SearchCustomers(customer, call)
    BY <1>5 DEF Execute, ToolNames
  <2>2. SearchCustomers(customer, call).profile = customer
    BY DEF SearchCustomers, ToolResult
  <2> QED
    BY <1>2, <2>1, <2>2
<1>6. CASE call.extra \notin ReservedArguments /\ call.name = "customer_memory_update"
  <2>1. Execute(customer, call) = UpdateCustomer(customer, call)
    BY <1>6 DEF Execute, ToolNames
  <2> QED
    BY <2>1, UpdateKeeps
<1>7. CASE call.extra \notin ReservedArguments /\ call.name = "sales_score_calculator"
  <2>1. Execute(customer, call) = ScoreCustomer(customer, call)
    BY <1>7 DEF Execute, ToolNames
  <2> QED
    BY <2>1, ScoreKeeps
<1> QED
  BY <1>3, <1>4, <1>5, <1>6, <1>7 DEF ToolNames

Blank == ""

\* The calls of an agent without a model name no customer and assign nothing.
IntentCalls ==
  {[id |-> Blank, name |-> tool, customer_id |-> Absent, customer_name |-> Absent,
    industry |-> Absent, sales_stage |-> Absent, status |-> Absent, aliases |-> Absent,
    score_type |-> "both", extra |-> Absent] : tool \in ToolNames}

LEMMA IntentToolsOf == ASSUME NEW intent PROVE IntentTools(intent) \in Seq(IntentCalls)
<1> DEFINE Tool(tool) == [id |-> Blank, name |-> tool, customer_id |-> Absent, customer_name |-> Absent, industry |-> Absent,
                          sales_stage |-> Absent, status |-> Absent, aliases |-> Absent,
                          score_type |-> "both", extra |-> Absent]
<1>1. \A tool \in ToolNames : Tool(tool) \in IntentCalls
  BY DEF IntentCalls
<1>2. IntentTools(intent) =
        CASE intent = "customer_intake" ->
               <<Tool("customer_memory_search"), Tool("customer_memory_update"), Tool("sales_score_calculator")>>
          [] intent = "meeting_note" -> <<Tool("customer_memory_update"), Tool("sales_score_calculator")>>
          [] intent \in {"query", "email_draft"} -> <<Tool("customer_memory_search")>>
          [] OTHER -> <<>>
  BY DEF IntentTools, Blank
<1> HIDE DEF Tool
<1>3. /\ Tool("customer_memory_search") \in IntentCalls
      /\ Tool("customer_memory_update") \in IntentCalls
      /\ Tool("sales_score_calculator") \in IntentCalls
  BY <1>1 DEF ToolNames
<1> QED
  BY <1>2, <1>3

CustomerInv ==
  /\ phase # "none" => profile \in CustomerProfiles
  /\ phase = "mock" => pending \in Seq(IntentCalls)

LEMMA AgentCustomers == AgentInit => CustomerInv
<1> SUFFICES ASSUME AgentInit PROVE CustomerInv
  OBVIOUS
<1>1. profile \in CustomerProfiles /\ phase = "start"
  BY ToolsAssumption DEF AgentInit, ToolsAssumption
<1> QED
  BY <1>1 DEF CustomerInv

LEMMA NextCall ==
  ASSUME CustomerInv, ConversationInv, ExecuteTool
  PROVE  /\ profile \in CustomerProfiles /\ Assignable(Head(pending))
         /\ phase = "mock" => Tail(pending) \in Seq(IntentCalls)
<1>1. phase \in {"tools", "mock"} /\ pending # <<>>
  BY DEF ExecuteTool
<1>2. profile \in CustomerProfiles
  BY <1>1 DEF CustomerInv
<1>3. CASE phase = "tools"
  <2>1. pending \in Seq(ToolCalls)
    BY <1>3 DEF ConversationInv, Asked
  <2>2. Head(pending) \in ToolCalls
    BY <1>1, <2>1
  <2>3. Assignable(Head(pending))
    BY <2>2 DEF ToolCalls, Assignable
  <2> QED
    BY <1>2, <1>3, <2>3
<1>4. CASE phase = "mock"
  <2>1. pending \in Seq(IntentCalls)
    BY <1>4 DEF CustomerInv
  <2>2. Head(pending) \in IntentCalls /\ Tail(pending) \in Seq(IntentCalls)
    BY <1>1, <2>1
  <2>3. Assignable(Head(pending))
    <3>1. \A call \in IntentCalls : call.customer_name = Absent /\ call.industry = Absent /\ call.aliases = Absent
      BY DEF IntentCalls
    <3> QED
      BY <2>2, <3>1 DEF Assignable
  <2> QED
    BY <1>2, <2>2, <2>3
<1> QED
  BY <1>1, <1>3, <1>4

LEMMA CustomersKept ==
  ASSUME CustomerInv, ConversationInv, [AgentNext]_agentVars
  PROVE  CustomerInv' /\ (profile' # profile => StillRated(profile, profile'))
<1>1. CASE ExecuteTool
  <2>1. /\ profile \in CustomerProfiles /\ Assignable(Head(pending))
        /\ phase = "mock" => Tail(pending) \in Seq(IntentCalls)
    BY <1>1, NextCall
  <2> DEFINE result == Execute(profile, Head(pending))
  <2>2. StillRated(profile, result.profile)
    BY <2>1, ToolsKeepProfiles
  <2>3. \/ phase' = "raised" /\ UNCHANGED profile
        \/ phase' = phase /\ profile' = result.profile /\ pending' = Tail(pending)
    BY <1>1 DEF ExecuteTool
  <2> HIDE DEF result
  <2>4. profile' \in CustomerProfiles /\ (profile' # profile => StillRated(profile, profile'))
    BY <2>1, <2>2, <2>3 DEF StillRated
  <2>5. phase' = "mock" => pending' \in Seq(IntentCalls)
    BY <2>1, <2>3
  <2> QED
    BY <2>4, <2>5 DEF CustomerInv
<1>2. CASE StartAgent
  <2>1. UNCHANGED profile /\ phase = "start"
    BY <1>2 DEF StartAgent
  <2>2. phase' = "mock" => pending' = IntentTools(RouteIntent(text).intent)
    BY <1>2 DEF StartAgent
  <2>3. phase' = "mock" => pending' \in Seq(IntentCalls)
    BY <2>2, IntentToolsOf
  <2> QED
    BY <2>1, <2>3 DEF CustomerInv
<1>3. CASE StartRealAgent \/ MockFinish \/ CallModel \/ ModelFails \/ ModelAnswers \/ ModelAsks \/ SendResults
  <2>1. UNCHANGED profile /\ phase # "none" /\ phase' # "mock"
    BY <1>3 DEF StartRealAgent, MockFinish, CallModel, ModelFails, ModelAnswers, ModelAsks,
                SendResults, Replied
  <2> QED
    BY <2>1 DEF CustomerInv
<1>4. CASE Wait \/ UNCHANGED agentVars
  <2>1. UNCHANGED <<profile, phase, pending>>
    BY <1>4 DEF Wait, agentVars
  <2> QED
    BY <2>1 DEF CustomerInv
<1> QED
  BY <1>1, <1>2, <1>3, <1>4 DEF AgentNext

-----------------------------------------------------------------------------
(* The composition. *)

Inv == TurnInv /\ DoubtInv /\ CustomerInv /\ AgentInv /\ ProfileInv /\ OpsInv

LEMMA NoTurnKeeps == ASSUME NoTurn PROVE TurnInv
BY DEF NoTurn, TurnInv, QuestionInv, RefusalInv, RefusalsTouchNothing, Tasks

LEMMA NoDoubts == ASSUME NoTurn PROVE DoubtInv
<1>1. IsSeq(<<>>)
  BY DEF IsSeq
<1> QED
  BY <1>1 DEF NoTurn, DoubtInv, TraceInv, DecisionInv, SourcesInv, AnswerInv, Running, Tasks

LEMMA NoAgentKeeps == ASSUME NoAgent PROVE AgentInv /\ ProfileInv /\ CustomerInv
<1>1. CallInv
  BY NoCallHolds DEF NoAgent
<1>2. messages = <<>> /\ called = <<>> /\ phase = "none" /\ round = 0
  BY DEF NoAgent
<1>3. ConversationInv
  BY <1>2, RoundsAssumption DEF ConversationInv, Paired, RoundsAssumption
<1>4. ProfileInv
  BY <1>2 DEF ProfileInv
<1> QED
  BY <1>1, <1>2, <1>3, <1>4 DEF AgentInv, CustomerInv

LEMMA NoCommandKeeps == ASSUME NoCommand PROVE OpsInv
BY DEF NoCommand, NoVerdict, OpsInv, OpsTypes, Begun, Earned

LEMMA Initially == ASSUME Init PROVE Inv
<1>1. AgentInit => ProfileInv
  BY AgentProfiles
<1> QED
  BY <1>1, AgentCustomers, TurnInitially, DoubtsInitially, NoTurnKeeps, NoDoubts, AgentInitially, NoAgentKeeps, OpsInitially, NoCommandKeeps
     DEF Init, Inv

LEMMA StepKeeps == ASSUME Inv, [Next]_vars PROVE Inv'
<1>1. [TurnNext]_turnVars /\ [AgentNext]_agentVars /\ [OpsNext]_opsVars
  BY DEF Next, Ended, vars
<1> QED
  BY <1>1, TurnStepKeeps, DoubtStepKeeps, CustomersKept, AgentStepKeeps, CustomerSteps, OpsStepKeeps DEF Inv, AgentInv

LEMMA Always == Spec => []Inv
BY Initially, StepKeeps, PTL DEF Spec

(* Whatever a question says, and whichever route, command or classifier it has, *)
(* it reads no customer (api/app.py:391).                                       *)
THEOREM QuestionsNeedNoCustomer == Spec => []QuestionsReadNoCustomer
<1>1. Inv => QuestionsReadNoCustomer
  BY DEF Inv, TurnInv, QuestionInv, QuestionsReadNoCustomer
<1> QED
  BY <1>1, Always, PTL

(* A refused request has reached neither router nor knowledge nor customers,    *)
(* for any text and classifier (orchestration/coordinator.py:68).               *)
THEOREM RefusedTurnsTouchNothing == Spec => []RefusalsTouchNothing
<1>1. Inv => RefusalsTouchNothing
  BY DEF Inv, TurnInv, RefusalInv
<1> QED
  BY <1>1, Always, PTL

(* Whatever the text says and the classifier replies: a risk phrase passes only *)
(* if its own clause takes it back or it is quoted for review, and no other     *)
(* clause excuses a refused one (policy/engine.py:49, policy/stance.py:30).     *)
THEOREM RisksAlwaysHandled == Spec => []RisksAreHandled
<1>1. Inv => RisksAreHandled
  BY DecidedRisks DEF Inv
<1> QED
  BY <1>1, Always, PTL

(* Whatever the knowledge service, the files and the policy say, what weakens   *)
(* an answer is in it and in its trace (orchestration/coordinator.py:68, 110,   *)
(* 203; rag/factory.py:42).                                                     *)
THEOREM DoubtsAlwaysCarried == Spec => []AnswersCarryTheirDoubts
<1>1. Inv => AnswersCarryTheirDoubts
  BY CarriedDoubts DEF Inv
<1> QED
  BY <1>1, Always, PTL

(* What is proved of the parts holds of the turns the application takes: calls *)
(* make the attempts and pauses their client admits, tool calls are answered   *)
(* and verdicts are earned (llm/dashscope_client.py:117,                       *)
(* llm/anthropic_client.py:197, agent.py:200, operations/persistence.py:526).  *)
THEOREM PartsComposed ==
  Spec => [](RetriesStayInBudget /\ ToolCallsAreAnswered /\ VerdictsAreEarned)
<1>1. Inv => RetriesStayInBudget /\ ToolCallsAreAnswered /\ VerdictsAreEarned
  BY ConversationsAnswered, OpsInvEarns DEF Inv, AgentInv, CallInv
<1> QED
  BY <1>1, Always, PTL

(* A tool that reports failure leaves the stored customer as it was, or leaves  *)
(* a file that no reader takes for a customer, and a stored customer moves only *)
(* where its sale may go (tools/customer_memory.py:199,                         *)
(* memory/customer_store.py:322, sales/models.py:84).                           *)
THEOREM FailuresLeaveTheCustomerInTurns == Spec => FailedChangesAreNeverRead
<1>1. [Next]_vars => [AgentNext]_agentVars
  BY DEF Next, Ended, vars
<1> QED
  BY <1>1, Always, CustomerSteps, PTL DEF Spec, Inv, FailedChangesAreNeverRead

(* Whatever the model passes to the tools, a stored customer keeps a stage and  *)
(* a status there are, and a score that is written is one its schema admits,    *)
(* with the level or status it stands for: no tool fails on its own scores.     *)
(* It says nothing of the name, the industry and the aliases, which tools       *)
(* assign without a check and a save may leave unfit to be loaded               *)
(* (sales/models.py:264, sales/models.py:344, sales/scorer.py:96,               *)
(* tools/customer_memory.py:199).                                               *)
THEOREM StagesAndScoresStayValid ==
  Spec => /\ [](phase # "none" => /\ profile.stage \in Stages
                                  /\ profile.status \in CustomerStatuses
                                  /\ profile.deal \in DealScores
                                  /\ profile.health \in HealthScores)
          /\ [][/\ profile'.deal # profile.deal => Rated(profile'.deal)
                /\ profile'.health # profile.health => Assessed(profile'.health)]_profile
<1>1. Inv => (phase # "none" => /\ profile.stage \in Stages
                                /\ profile.status \in CustomerStatuses
                                /\ profile.deal \in DealScores
                                /\ profile.health \in HealthScores)
  BY DEF Inv, CustomerInv, CustomerProfiles
<1>2. ASSUME Inv, [Next]_vars
      PROVE  [/\ profile'.deal # profile.deal => Rated(profile'.deal)
              /\ profile'.health # profile.health => Assessed(profile'.health)]_profile
  <2>1. [AgentNext]_agentVars
    BY <1>2 DEF Next, Ended, vars
  <2>2. profile' # profile => StillRated(profile, profile')
    BY <1>2, <2>1, CustomersKept DEF Inv, AgentInv
  <2> QED
    BY <2>2 DEF StillRated
<1> QED
  BY <1>1, <1>2, Always, PTL DEF Spec

=============================================================================
