------------------------------- MODULE Policy -------------------------------
(***************************************************************************)
(* Policy: what the rule-based safety firewall decides about a text.       *)
(*                                                                         *)
(* A text is a sequence of tokens: a risk phrase of the catalog, or one    *)
(* half of the phrase that is also found when spaces split it; a marker of *)
(* the stance catalog; punctuation; or "word" for everything else.  A      *)
(* catalog entry stands for those that differ from it in wording alone.    *)
(***************************************************************************)
EXTENDS Integers, Sequences, SequencesExt, FiniteSetsExt

Statuses == {"SAFE", "UNCERTAIN", "BLOCKED"}

\* Confidences are percentages.
Percent == 0..100

-----------------------------------------------------------------------------
(* The catalogs. *)

\* "income" is a phrase of two rules.
Rules ==
  {[id |-> "privacy", phrase |-> <<"income">>, severity |-> "CRITICAL",
    hint |-> "BLOCKED", priority |-> 100, compact |-> FALSE],
   [id |-> "sensitive", phrase |-> <<"income">>, severity |-> "CRITICAL",
    hint |-> "BLOCKED", priority |-> 98, compact |-> FALSE],
   [id |-> "delivery", phrase |-> <<"hundred", "delivery">>, severity |-> "HIGH",
    hint |-> "BLOCKED", priority |-> 94, compact |-> TRUE],
   [id |-> "case", phrase |-> <<"fake_case">>, severity |-> "HIGH",
    hint |-> "BLOCKED", priority |-> 92, compact |-> FALSE],
   [id |-> "uncertain", phrase |-> <<"contract_risk">>, severity |-> "MEDIUM",
    hint |-> "UNCERTAIN", priority |-> 60, compact |-> FALSE]}

Pattern(marker, stance, confidence, priority) ==
  [marker |-> marker, stance |-> stance, confidence |-> confidence, priority |-> priority]

Patterns ==
  {Pattern("forbid", "PROHIBIT", 100, 100), Pattern("check", "AUDIT", 98, 90),
   Pattern("identify", "AUDIT", 96, 88), Pattern("why", "DISCUSS", 96, 80),
   Pattern("what_risk", "DISCUSS", 94, 78), Pattern("still", "REQUEST", 96, 72),
   Pattern("help_me", "REQUEST", 98, 70), Pattern("write_as", "REQUEST", 94, 68)}

SentenceEnds == {"full_stop"}
ClauseDelimiters == SentenceEnds \cup {"comma", "but"}
QuotePairs == <<[open |-> "open_quote", close |-> "close_quote"],
                [open |-> "quote", close |-> "quote"]>>
QuoteMarks == {"open_quote", "close_quote", "quote"}
ReviewMarkers == {"check", "why", "violation"}
WriteMarkers == {"help_me", "copy", "still"}

DiscussSafeMinConfidence == 90
QuoteSafeMinConfidence == 90

-----------------------------------------------------------------------------
(* Normalization, detection and stance. *)

MaxLength == 20000

\* Zero-width characters go; control characters are spaces; spaces collapse.
Spaced(out, token) ==
  CASE token = "zero_width" -> out
    [] token \notin {"zero_width", "space", "newline"} -> Append(out, token)
    [] token \in {"space", "newline"} ->
         IF out # <<>> /\ Last(out) # "space" THEN Append(out, "space") ELSE out

Normalized(raw) ==
  LET cut == SubSeq(raw, 1, IF Len(raw) > MaxLength THEN MaxLength ELSE Len(raw))
      spaced == FoldLeft(Spaced, <<>>, cut)
  IN IF spaced # <<>> /\ Last(spaced) = "space" THEN Front(spaced) ELSE spaced

Tokens(text, first, last) == {text[i] : i \in first..last}

\* The phrase as it stands in text, for a compact rule with spaces inside it.
Spells(text, first, last, rule) ==
  LET span == {i \in first..last : rule.compact => text[i] # "space"}
      Nth(i) == Cardinality({j \in span : j <= i})
  IN /\ {first, last} \subseteq span
     /\ Cardinality(span) = Len(rule.phrase)
     /\ \A i \in span : text[i] = rule.phrase[Nth(i)]

Candidates(text) ==
  {c \in [rule : Rules, first : DOMAIN text, last : DOMAIN text] :
     c.first <= c.last /\ Spells(text, c.first, c.last, c.rule)}

\* Mutant: what the text says before the clause counts for it too.
ClauseStartOfText(text, c) == 1

\* The clause is the widest stretch around the span without a delimiter.
ClauseStart(text, c) ==
  Max({0} \cup {i \in 1..(c.first - 1) : text[i] \in ClauseDelimiters}) + 1
ClauseEnd(text, c) ==
  Min({Len(text) + 1} \cup {i \in (c.last + 1)..Len(text) : text[i] \in ClauseDelimiters}) - 1

\* The nearest opening before the span and the nearest closing after it, though
\* the opening may have been closed before; the first pair that has both counts.
Openings(text, c, pair) == {i \in 1..(c.first - 1) : text[i] = pair.open}
Closings(text, c, pair) == {i \in (c.last + 1)..Len(text) : text[i] = pair.close}
Quotes(text, c) ==
  {p \in DOMAIN QuotePairs :
     Openings(text, c, QuotePairs[p]) # {} /\ Closings(text, c, QuotePairs[p]) # {}}

\* What the sentence says outside the quotation marks.
QuoteContext(text, c) ==
  LET pair == QuotePairs[Min(Quotes(text, c))]
      open == Max(Openings(text, c, pair))
      close == Min(Closings(text, c, pair))
      start == Max({0} \cup {i \in 1..(open - 1) : text[i] \in SentenceEnds}) + 1
      end == Min({Len(text) + 1} \cup {i \in (close + 1)..Len(text) : text[i] \in SentenceEnds}) - 1
  IN Tokens(text, start, open - 1) \cup Tokens(text, close + 1, end)

QuotedForReview(text, c) ==
  /\ Quotes(text, c) # {}
  /\ QuoteContext(text, c) \cap ReviewMarkers # {}
  /\ QuoteContext(text, c) \cap WriteMarkers = {}

\* A prohibition counts only ahead of the phrase, the others anywhere in its clause.
Matches(text, c) ==
  {p \in Patterns :
     p.marker \in Tokens(text, ClauseStart(text, c),
                         IF p.stance = "PROHIBIT" THEN c.first - 1 ELSE ClauseEnd(text, c))}

Winner(matches) ==
  CHOOSE p \in matches : \A q \in matches : q.priority <= p.priority

EndsItsClause(text, c) ==
  LET end == ClauseEnd(text, c)
      stripped == IF text[end] = "space" THEN end - 1 ELSE end
      length == c.last - c.first
  IN stripped - length >= ClauseStart(text, c)
     /\ SubSeq(text, stripped - length, stripped) = SubSeq(text, c.first, c.last)

Stance(stance, confidence) == [stance |-> stance, confidence |-> confidence]

ResolveOne(text, c) ==
  CASE QuotedForReview(text, c) -> Stance("QUOTE", 98)
    [] ~QuotedForReview(text, c) /\ Matches(text, c) # {} ->
         Stance(Winner(Matches(text, c)).stance, Winner(Matches(text, c)).confidence)
    [] ~QuotedForReview(text, c) /\ Matches(text, c) = {} ->
         IF c.rule.hint = "UNCERTAIN" THEN Stance("REQUEST", 92)
         ELSE IF EndsItsClause(text, c) THEN Stance("REQUEST", 90)
         ELSE Stance("UNKNOWN", 100)

-----------------------------------------------------------------------------
(* The decision. *)

Decision(status, confidence, classifier) ==
  [status |-> status, confidence |-> confidence, classifier_used |-> classifier,
   warnings |-> <<>>]

Requested(text, c) == ResolveOne(text, c).stance = "REQUEST"

Resolve(text, candidates) ==
  LET stances == {ResolveOne(text, c) : c \in candidates}
      Doubtful(s) ==
        \/ s.stance = "DISCUSS" /\ s.confidence < DiscussSafeMinConfidence
        \/ s.stance = "QUOTE" /\ s.confidence < QuoteSafeMinConfidence
  IN IF \E c \in candidates : c.rule.severity \in {"HIGH", "CRITICAL"} /\ Requested(text, c)
     THEN Decision("BLOCKED", 99, FALSE)
     ELSE IF \E c \in candidates : c.rule.id = "uncertain" /\ Requested(text, c)
     THEN Decision("UNCERTAIN", 85, FALSE)
     ELSE IF \E s \in stances : s.stance = "UNKNOWN" \/ Doubtful(s)
     THEN Decision("UNCERTAIN", 50, FALSE)
     ELSE Decision("SAFE", Min({s.confidence : s \in stances}), FALSE)

\* What a configured classifier may give back: nothing usable, the name of a
\* status, or a status with a confidence, which need not be a valid one.  The
\* warnings it may add are left out.
ClassifierError == [Decision("UNCERTAIN", 0, TRUE) EXCEPT !.warnings = <<"classifier_error">>]

CoerceClassifierResult(reply) ==
  CASE reply.kind = "name" /\ reply.status \in Statuses -> Decision(reply.status, 65, TRUE)
    [] reply.kind = "dict" /\ reply.status \in Statuses /\ reply.confidence \in Percent ->
         Decision(reply.status, reply.confidence, TRUE)
    [] OTHER -> ClassifierError

Decide(raw, reply) ==
  LET text == Normalized(raw)
  IN IF text = <<>> THEN Decision("SAFE", 50, FALSE)
     ELSE IF Candidates(text) # {} THEN Resolve(text, Candidates(text))
     ELSE IF reply.kind = "absent" THEN Decision("SAFE", 72, FALSE)
     ELSE CoerceClassifierResult(reply)

=============================================================================
