------------------------------ MODULE Retrieval ------------------------------
(***************************************************************************)
(* Retrieval: an answer with its sources, from the knowledge service or    *)
(* from local files when the service fails.                                *)
(*                                                                         *)
(* A question is a set of words.  The knowledge directory is a sequence of *)
(* files in path order, each with the words of its title, text and tags    *)
(* and the words of its category.                                          *)
(***************************************************************************)
EXTENDS Integers, Sequences, SequencesExt, FiniteSetsExt

Clamp(low, value, high) == Max({low, Min({high, value})})

FallbackWarning == "fallback_used"

Diagnostic(step, success) == [step_name |-> step, success |-> success]

Result(provider, sources, confidence, warnings, diagnostics) ==
  [provider |-> provider, sources |-> sources, confidence |-> confidence,
   warnings |-> warnings, diagnostics |-> diagnostics, raises |-> FALSE]

\* An exception that no client catches; there is no result.
Raised == [Result("none", 0, 0, <<>>, <<>>) EXCEPT !.raises = TRUE]

-----------------------------------------------------------------------------
(* Local files. *)

RetrieveLimit == 20
TopK == 3

\* A file that cannot be read or parsed is skipped; JSON that is no object is not.
Load(files) == {i \in DOMAIN files : files[i].content # "unreadable"}

Overlap(question, words) == Cardinality(question \cap words)

\* What stands before limit others has its place when S is sorted.
Foremost(limit, S, Before(_, _)) ==
  {i \in S : Cardinality({j \in S : Before(j, i)}) < limit}

Score(question, file) == Overlap(question, file.words \cup file.category)

\* Equal scores stay in path order.
Retrieve(question, files) ==
  LET found == {i \in Load(files) : Score(question, files[i]) > 0}
      Before(i, j) ==
        \/ Score(question, files[i]) > Score(question, files[j])
        \/ Score(question, files[i]) = Score(question, files[j]) /\ i < j
  IN Foremost(RetrieveLimit, found, Before)

\* The share of the question found in title, text and tags: not in the category.
Density(question, file) ==
  Clamp(10, (100 * Overlap(question, file.words)) \div Max({Cardinality(question), 1}), 100)

RankAndFilter(question, files, candidates) ==
  LET Before(i, j) ==
        \/ Density(question, files[i]) > Density(question, files[j])
        \/ /\ Density(question, files[i]) = Density(question, files[j])
           /\ \/ Score(question, files[i]) > Score(question, files[j])
              \/ Score(question, files[i]) = Score(question, files[j]) /\ i < j
  IN Foremost(TopK, candidates, Before)

GenerateWithCitations(question, files, evidence) ==
  LET Confidence(i) == Density(question, files[i])
      average == MapThenSumSet(Confidence, evidence) \div Cardinality(evidence)
  IN IF evidence = {}
     THEN Result("local", 0, 15, <<"no_evidence">>, <<Diagnostic("local_rag_query", TRUE)>>)
     ELSE Result("local", Cardinality(evidence), Clamp(20, average, 95), <<>>,
                 <<Diagnostic("local_rag_query", TRUE)>>)

\* Nothing is found for a question without words: every record scores 0.
LocalQuery(question, files) ==
  IF \E i \in Load(files) : files[i].content = "no_object" THEN Raised
  ELSE GenerateWithCitations(question, files,
                             RankAndFilter(question, files, Retrieve(question, files)))

-----------------------------------------------------------------------------
(* The knowledge service and the fallback. *)

\* What httpx gives back, or raises, for POST /query; the last two are replies
\* that raise_for_status passes and _to_rag_result refuses.
Failures == {"timeout", "connection_error", "http_error", "invalid_json",
             "schema_error", "missing_answer"}

NoConfidence == -1  \* the reply has no numeric confidence

ExternalQuery(reply) ==
  LET stated == IF reply.confidence = NoConfidence
                THEN IF reply.citations > 0 THEN 75 ELSE 35
                ELSE Clamp(0, reply.confidence, 100)
  IN Result("external", reply.citations, stated, <<>>, <<Diagnostic("external_rag_query", TRUE)>>)

\* Mutant: the local answer keeps its confidence and hides the failure.
FallbackQueryUnmarked(question, files, reply, fallbackEnabled) ==
  IF reply.kind \notin Failures THEN ExternalQuery(reply) ELSE LocalQuery(question, files)

FallbackQuery(question, files, reply, fallbackEnabled) ==
  LET failure == Diagnostic("external_rag_query", FALSE)
      local == LocalQuery(question, files)
  IN IF reply.kind \notin Failures THEN ExternalQuery(reply)
     ELSE IF ~fallbackEnabled
     THEN Result("none", 0, 15, <<reply.kind>>, <<failure>>)
     ELSE IF local.raises THEN Raised
     ELSE [local EXCEPT !.provider = "fallback",
                        !.confidence = Min({@, 55}),
                        !.warnings = <<FallbackWarning>> \o @,
                        !.diagnostics = <<failure, Diagnostic("local_rag_fallback", TRUE)>>]

\* create_rag_client: "local" needs no service and takes no fallback.
RagQuery(rag, question, files, reply) ==
  IF rag.provider = "local" THEN LocalQuery(question, files)
  ELSE FallbackQuery(question, files, reply, rag.fallback_to_local)

=============================================================================
