--------------------------- MODULE AgentLoop_proof ---------------------------
(***************************************************************************)
(* Theorems about AgentLoop and LlmClient, for any clients, environments,  *)
(* tool calls, customers, round limits, budgets and deadlines.             *)
(***************************************************************************)
EXTENDS AgentLoop, SequenceTheorems, TLAPS

-----------------------------------------------------------------------------
(* A call of the model. *)

Finishes ==
  TerminalClientFailures \cup {"none", "stop", "tool_calls", "error", "tool_use", "end_turn"}

Responses == [finish : Finishes, text : BOOLEAN, calls : Calls \cup {<<>>}]

CallTypes ==
  llm \in [state : {"idle", "posting", "done"}, attempt : Nat, elapsed : Nat, started : Nat,
           slept : Nat, read_timeouts : Nat, response : Responses]

\* An attempt is still made only if a read timeout may be repeated.
Patient == llm.state = "posting" => llm.read_timeouts <= ReadTimeoutMaxRetries

CallInv == CallTypes /\ RetriesStayInBudget /\ Patient

(* No pause is due before the first attempt, and each doubles the one before.   *)
LEMMA NoPause == 0 = RetryBaseDelay * (2 ^ 0 - 1)
<1>1. RetryBaseDelay \in Nat
  BY RetryAssumption DEF RetryAssumption
<1>2. 2 ^ 0 - 1 = 0
  BY PausesAssumption DEF PausesAssumption
<1> QED
  BY ONLY <1>1, <1>2

LEMMA PausesDouble ==
  ASSUME NEW n \in 0..MaxRetries
  PROVE  /\ RetryBaseDelay * 2 ^ n \in Nat
         /\ RetryBaseDelay * (2 ^ n - 1) + RetryBaseDelay * 2 ^ n
              = RetryBaseDelay * (2 ^ (n + 1) - 1)
<1>1. RetryBaseDelay \in Nat /\ 2 ^ n \in Nat /\ 2 ^ (n + 1) = 2 * 2 ^ n
  BY RetryAssumption, PausesAssumption DEF RetryAssumption, PausesAssumption
<1>2. \A b, p \in Nat : b * p \in Nat /\ b * (p - 1) + b * p = b * (2 * p - 1)
  OBVIOUS
<1> QED
  BY ONLY <1>1, <1>2

(* The bounds hold of a call that has not begun, or is refused.                 *)
LEMMA FreshCall ==
  ASSUME NEW state \in {"idle", "posting", "done"}, NEW response \in Responses,
         llm' = [state |-> state, attempt |-> 0, elapsed |-> 0, started |-> 0, slept |-> 0,
                 read_timeouts |-> 0, response |-> response]
  PROVE  CallInv'
<1>1. CallTypes'
  BY DEF CallTypes
<1>2. /\ llm'.attempt = 0 /\ llm'.elapsed = 0 /\ llm'.started = 0 /\ llm'.slept = 0
      /\ llm'.read_timeouts = 0
  OBVIOUS
<1>3. StaysInBudget' /\ Patient' /\ llm'.attempt <= MaxRetries
  BY ONLY <1>2, RetryAssumption DEF StaysInBudget, Patient, RetryAssumption
<1>4. llm'.slept = RetryBaseDelay * (2 ^ llm'.attempt - 1)
  BY <1>2, NoPause
<1>5. RetriesStayInBudget'
  BY <1>3, <1>4 DEF RetriesStayInBudget
<1> QED
  BY <1>1, <1>3, <1>5 DEF CallInv

LEMMA ResponseTypes ==
  /\ NoResponse \in Responses
  /\ \A reason \in TerminalClientFailures : Failure(reason) \in Responses
  /\ \A finish \in Finishes, said \in BOOLEAN, calls \in Calls \cup {<<>>} :
       Response(finish, said, calls) \in Responses
  /\ \A body \in Bodies : ParseResponse(body) \in Responses
<1>1. /\ NoResponse \in Responses
      /\ \A reason \in TerminalClientFailures : Failure(reason) \in Responses
      /\ \A finish \in Finishes, said \in BOOLEAN, calls \in Calls \cup {<<>>} :
           Response(finish, said, calls) \in Responses
  BY DEF NoResponse, Failure, Response, Responses, Finishes
<1>2. ASSUME NEW body \in Bodies PROVE ParseResponse(body) \in Responses
  <2>1. CASE body.kind = "malformed"
    BY <1>1, <2>1 DEF ParseResponse, TerminalClientFailures
  <2>2. CASE body.kind = "malformed call"
    BY <1>1, <2>2 DEF ParseResponse, TerminalClientFailures
  <2>3. CASE body.kind = "message"
    <3>1. body.text \in BOOLEAN /\ body.calls \in Calls \cup {<<>>}
      BY <2>3 DEF Bodies
    <3>2. ParseResponse(body) =
            Response(IF body.calls # <<>> THEN "tool_calls" ELSE "stop", body.text, body.calls)
      BY <2>3 DEF ParseResponse
    <3> QED
      BY <1>1, <3>1, <3>2 DEF Finishes
  <2> QED
    BY <2>1, <2>2, <2>3 DEF Bodies
<1> QED
  BY <1>1, <1>2

LEMMA StartCallKeeps == ASSUME StartCall PROVE CallInv'
<1>1. CASE llm' = Posted
  BY <1>1, FreshCall, ResponseTypes DEF Posted, NoCall
<1>2. ASSUME NEW reason \in TerminalClientFailures, llm' = Refused(reason) PROVE CallInv'
  BY <1>2, FreshCall, ResponseTypes DEF Refused, NoCall
<1> QED
  BY <1>1, <1>2 DEF StartCall, StartDashScope, StartAnthropic, StartDeepSeek, TerminalClientFailures

(* The numbers of a call are naturals.                                          *)
LEMMA CallNumbers ==
  ASSUME CallTypes
  PROVE  /\ llm.attempt \in Nat /\ llm.elapsed \in Nat /\ llm.started \in Nat
         /\ llm.slept \in Nat /\ llm.read_timeouts \in Nat /\ llm.response \in Responses
BY DEF CallTypes

(* Only DashScope's attempts are budgeted.                                      *)
LEMMA AttemptsInBudget == ASSUME CallInv, Attempts PROVE StaysInBudget
  BY DEF CallInv, RetriesStayInBudget, Attempts, Posting

LEMMA BudgetSuffices ==
  ASSUME UNCHANGED client, Attempts, StaysInBudget', llm'.attempt <= MaxRetries
  PROVE  RetriesStayInBudget'
  BY DEF RetriesStayInBudget, Attempts, Posting

(* An attempt that ends the call ends it at most one duration late.             *)
LEMMA EndKeeps ==
  ASSUME CallInv, Attempts, UNCHANGED client, NEW response \in Responses, NEW d \in Durations,
         NEW timeouts \in 0..(ReadTimeoutMaxRetries + 1),
         llm' = [llm EXCEPT !.state = "done", !.elapsed = After(d), !.started = llm.elapsed,
                            !.read_timeouts = timeouts, !.response = response]
  PROVE  CallInv'
<1> USE RetryAssumption DEF RetryAssumption
<1>1. CallTypes /\ llm.elapsed < Deadline /\ StaysInBudget /\ llm.attempt <= MaxRetries
  BY AttemptsInBudget DEF CallInv, Attempts, RetriesStayInBudget
<1>2. d \in Nat /\ After(d) \in Nat /\ After(d) = llm.elapsed + d /\ timeouts \in Nat
  BY <1>1, CallNumbers DEF After
<1>4. /\ CallTypes' /\ llm'.state = "done"
      /\ llm'.attempt = llm.attempt /\ llm'.elapsed = After(d) /\ llm'.started = llm.elapsed
      /\ llm'.slept = llm.slept /\ llm'.read_timeouts = timeouts
  BY <1>1, <1>2, CallNumbers DEF CallTypes
<1>5. RetriesStayInBudget'
  <2>1. llm'.elapsed < Deadline + d
    BY ONLY <1>1, <1>2, <1>4, CallNumbers, RetryAssumption DEF RetryAssumption
  <2>2. StaysInBudget' /\ llm'.attempt <= MaxRetries
    BY ONLY <1>1, <1>4, <2>1, timeouts \in 0..(ReadTimeoutMaxRetries + 1), d \in Durations
       DEF StaysInBudget
  <2> QED
    BY <2>2, BudgetSuffices
<1> QED
  BY <1>4, <1>5 DEF CallInv, Patient

(* A pause that is begun fits the budget and the deadline.                      *)
LEMMA PauseKeeps ==
  ASSUME CallInv, Attempts, UNCHANGED client, NEW delay \in Nat, NEW d \in Durations,
         NEW late \in Latenesses,
         NEW timeouts \in 0..ReadTimeoutMaxRetries,
         llm.attempt < MaxRetries, delay <= RetryBudget - llm.slept, delay < Deadline - After(d),
         llm' = [llm EXCEPT !.elapsed = After(d) + delay + late, !.started = llm.elapsed,
                            !.read_timeouts = timeouts, !.attempt = llm.attempt + 1,
                            !.slept = llm.slept + delay]
  PROVE  CallInv'
<1> USE RetryAssumption DEF RetryAssumption
<1>1. CallTypes /\ llm.elapsed < Deadline /\ StaysInBudget /\ llm.attempt <= MaxRetries
  BY AttemptsInBudget DEF CallInv, Attempts, RetriesStayInBudget
<1>2. d \in Nat /\ late \in Nat /\ After(d) \in Nat /\ timeouts \in Nat
  BY <1>1, CallNumbers DEF After
<1>3. /\ CallTypes'
      /\ llm'.attempt = llm.attempt + 1 /\ llm'.elapsed = After(d) + delay + late
      /\ llm'.started = llm.elapsed /\ llm'.slept = llm.slept + delay
      /\ llm'.read_timeouts = timeouts
  <2> DEFINE elapsed == After(d) + delay + late
             attempt == llm.attempt + 1
             slept == llm.slept + delay
  <2>1. elapsed \in Nat /\ attempt \in Nat /\ slept \in Nat /\ llm.elapsed \in Nat
    BY <1>1, <1>2, CallNumbers
  <2>2. llm' = [llm EXCEPT !.elapsed = elapsed, !.started = llm.elapsed,
                           !.read_timeouts = timeouts, !.attempt = attempt, !.slept = slept]
    OBVIOUS
  <2> HIDE DEF elapsed, attempt, slept
  <2>3. /\ CallTypes'
        /\ llm'.attempt = attempt /\ llm'.elapsed = elapsed /\ llm'.started = llm.elapsed
        /\ llm'.slept = slept /\ llm'.read_timeouts = timeouts
    BY ONLY <1>1, <1>2, <2>1, <2>2 DEF CallTypes
  <2> QED
    BY <2>3 DEF elapsed, attempt, slept
<1>4. /\ llm.attempt \in Nat /\ llm.slept \in Nat /\ llm.elapsed \in Nat
  BY <1>1, CallNumbers
<1>5. /\ llm'.attempt <= MaxRetries /\ llm'.slept <= RetryBudget
      /\ llm'.elapsed < Deadline + late
  BY ONLY <1>2, <1>3, <1>4, RetryAssumption, delay \in Nat, llm.attempt < MaxRetries,
          delay <= RetryBudget - llm.slept, delay < Deadline - After(d) DEF RetryAssumption
<1>6. llm'.read_timeouts <= ReadTimeoutMaxRetries /\ llm'.read_timeouts <= ReadTimeoutMaxRetries + 1
  BY ONLY <1>3, timeouts \in 0..ReadTimeoutMaxRetries, RetryAssumption DEF RetryAssumption
<1>7. StaysInBudget' /\ Patient'
  BY ONLY <1>1, <1>3, <1>5, <1>6, late \in Latenesses DEF StaysInBudget, Patient
<1>8. RetriesStayInBudget'
  BY <1>5, <1>7, BudgetSuffices
<1> QED
  BY <1>3, <1>7, <1>8 DEF CallInv

LEMMA RetryKeeps ==
  ASSUME CallInv, Attempts, UNCHANGED client, NEW reason \in TerminalClientFailures, NEW delay \in Nat,
         NEW d \in Durations, NEW timeouts \in 0..ReadTimeoutMaxRetries,
         RetryOrFail(reason, delay, After(d), timeouts)
  PROVE  CallInv'
<1>1. /\ llm.attempt \in Nat /\ llm.slept \in Nat /\ After(d) \in Nat
      /\ MaxRetries \in Nat /\ RetryBudget \in Nat /\ Deadline \in Nat
  BY CallNumbers, RetryAssumption DEF CallInv, RetryAssumption, After
<1>2. \/ llm' = [[llm EXCEPT !.elapsed = After(d), !.started = llm.elapsed,
                             !.read_timeouts = timeouts]
                   EXCEPT !.state = "done", !.response = Failure(reason)]
      \/ /\ ~(llm.attempt >= MaxRetries) /\ ~(delay > RetryBudget - llm.slept)
         /\ ~(delay >= Deadline - After(d))
         /\ \E late \in Latenesses :
              llm' = [[llm EXCEPT !.elapsed = After(d), !.started = llm.elapsed,
                                  !.read_timeouts = timeouts]
                        EXCEPT !.attempt = @ + 1, !.elapsed = @ + delay + late,
                               !.slept = @ + delay]
  BY ONLY RetryOrFail(reason, delay, After(d), timeouts) DEF RetryOrFail
<1>3. CASE llm' = [[llm EXCEPT !.elapsed = After(d), !.started = llm.elapsed,
                               !.read_timeouts = timeouts]
                    EXCEPT !.state = "done", !.response = Failure(reason)]
  <2>1. llm' = [llm EXCEPT !.state = "done", !.elapsed = After(d), !.started = llm.elapsed,
                           !.read_timeouts = timeouts, !.response = Failure(reason)]
    BY <1>3 DEF CallInv, CallTypes
  <2>2. timeouts \in 0..(ReadTimeoutMaxRetries + 1)
    BY RetryAssumption DEF RetryAssumption
  <2>3. Failure(reason) \in Responses
    BY ResponseTypes
  <2> QED
    BY <2>1, <2>2, <2>3, EndKeeps
<1>4. ASSUME ~(llm.attempt >= MaxRetries), ~(delay > RetryBudget - llm.slept),
             ~(delay >= Deadline - After(d)), NEW late \in Latenesses,
             llm' = [[llm EXCEPT !.elapsed = After(d), !.started = llm.elapsed,
                                 !.read_timeouts = timeouts]
                      EXCEPT !.attempt = @ + 1, !.elapsed = @ + delay + late,
                             !.slept = @ + delay]
      PROVE  CallInv'
  <2>1. llm.attempt < MaxRetries /\ delay <= RetryBudget - llm.slept /\ delay < Deadline - After(d)
    BY ONLY <1>1, <1>4, delay \in Nat
  <2>2. llm' = [llm EXCEPT !.elapsed = After(d) + delay + late, !.started = llm.elapsed,
                           !.read_timeouts = timeouts, !.attempt = llm.attempt + 1,
                           !.slept = llm.slept + delay]
    BY <1>4 DEF CallInv, CallTypes
  <2> QED
    BY <2>1, <2>2, PauseKeeps
<1> QED
  BY <1>2, <1>3, <1>4

LEMMA PausesAreNatural == ASSUME CallInv PROVE Backoff \subseteq Nat
<1>1. llm.attempt \in 0..MaxRetries
  BY CallNumbers, RetryAssumption DEF CallInv, RetriesStayInBudget, RetryAssumption
<1>2. 2 ^ llm.attempt \in Nat
  BY <1>1, PausesAssumption DEF PausesAssumption
<1> QED
  BY <1>2, RetryAssumption DEF Backoff, RetryAssumption

(* An attempt of Anthropic that ends the call adds no pause.                    *)
LEMMA AnthropicEnds ==
  ASSUME CallInv, Posting("anthropic"), UNCHANGED client, NEW response \in Responses,
         NEW d \in Durations, End(response, After(d))
  PROVE  CallInv'
<1>1. CallTypes /\ d \in Nat /\ After(d) \in Nat
  BY CallNumbers, RetryAssumption DEF CallInv, RetryAssumption, After
<1>2. /\ CallTypes' /\ llm'.state = "done"
      /\ llm'.attempt = llm.attempt /\ llm'.slept = llm.slept
  BY <1>1, CallNumbers DEF End, CallTypes
<1>3. /\ llm.attempt <= MaxRetries
      /\ llm.slept = RetryBaseDelay * (2 ^ llm.attempt - 1)
  BY DEF CallInv, RetriesStayInBudget, Posting
<1>4. RetriesStayInBudget'
  BY <1>2, <1>3 DEF RetriesStayInBudget, Posting
<1> QED
  BY <1>2, <1>4 DEF CallInv, Patient

(* One that is repeated adds the next pause.                                    *)
LEMMA AnthropicPauses ==
  ASSUME CallInv, Posting("anthropic"), UNCHANGED client, llm.attempt < MaxRetries,
         NEW d \in Durations, NEW late \in Latenesses, NEW delay,
         delay = RetryBaseDelay * 2 ^ llm.attempt,
         llm' = [llm EXCEPT !.attempt = @ + 1, !.elapsed = After(d) + delay + late,
                            !.started = llm.elapsed, !.slept = @ + delay]
  PROVE  CallInv'
<1>1. /\ CallTypes /\ d \in Nat /\ late \in Nat /\ After(d) \in Nat
      /\ MaxRetries \in Nat /\ llm.attempt \in 0..MaxRetries
  BY CallNumbers, RetryAssumption DEF CallInv, RetryAssumption, After
<1>2. /\ delay \in Nat
      /\ RetryBaseDelay * (2 ^ llm.attempt - 1) + delay
           = RetryBaseDelay * (2 ^ (llm.attempt + 1) - 1)
  BY <1>1, PausesDouble
<1>3. llm.slept = RetryBaseDelay * (2 ^ llm.attempt - 1)
  BY DEF CallInv, RetriesStayInBudget, Posting
<1> DEFINE elapsed == After(d) + delay + late
           attempt == llm.attempt + 1
           slept == llm.slept + delay
<1>4. /\ elapsed \in Nat /\ attempt \in Nat /\ slept \in Nat /\ attempt <= MaxRetries
      /\ llm.elapsed \in Nat
  BY ONLY <1>1, <1>2, CallNumbers, llm.attempt < MaxRetries
<1>5. slept = RetryBaseDelay * (2 ^ attempt - 1)
  BY ONLY <1>2, <1>3
<1>6. llm' = [llm EXCEPT !.attempt = attempt, !.elapsed = elapsed, !.started = llm.elapsed,
                         !.slept = slept]
  BY <1>1 DEF CallTypes
<1> HIDE DEF elapsed, attempt, slept
<1>7. /\ CallTypes' /\ llm'.state = llm.state /\ llm'.read_timeouts = llm.read_timeouts
      /\ llm'.attempt = attempt /\ llm'.slept = slept
  BY ONLY <1>1, <1>4, <1>6 DEF CallTypes
<1>8. RetriesStayInBudget'
  BY <1>4, <1>5, <1>7 DEF RetriesStayInBudget, Posting
<1>9. Patient'
  BY <1>7 DEF CallInv, Patient
<1> QED
  BY <1>7, <1>8, <1>9 DEF CallInv

LEMMA CallStepKeeps == ASSUME CallInv, CallStep PROVE CallInv'
<1> USE RetryAssumption DEF RetryAssumption
<1>0. CallTypes /\ RetriesStayInBudget /\ UNCHANGED client
  BY DEF CallInv, CallStep
<1>b. Attempts => /\ llm.read_timeouts \in 0..ReadTimeoutMaxRetries
                  /\ llm.read_timeouts \in 0..(ReadTimeoutMaxRetries + 1)
  BY <1>0, CallNumbers DEF CallInv, Patient, Attempts, Posting
<1>1. CASE DeadlineExceeded
  <2>1. llm' = Done(Failure("timeout")) /\ Failure("timeout") \in Responses
    BY <1>1, ResponseTypes DEF DeadlineExceeded, TerminalClientFailures
  <2>2. /\ CallTypes' /\ llm'.attempt = llm.attempt /\ llm'.elapsed = llm.elapsed
        /\ llm'.slept = llm.slept /\ llm'.started = llm.started
        /\ llm'.read_timeouts = llm.read_timeouts /\ llm'.state = "done"
    BY <1>0, <2>1 DEF Done, CallTypes
  <2>3. RetriesStayInBudget' /\ Patient'
    BY <1>0, <1>1, <2>2
       DEF RetriesStayInBudget, StaysInBudget, Patient, DeadlineExceeded, Posting
  <2> QED
    BY <2>2, <2>3 DEF CallInv
<1>2. CASE ReadTimeout
  <2>1. PICK d \in Durations, delay \in Backoff :
          IF llm.read_timeouts + 1 > ReadTimeoutMaxRetries
          THEN llm' = [llm EXCEPT !.state = "done", !.elapsed = After(d), !.started = llm.elapsed,
                                  !.read_timeouts = llm.read_timeouts + 1,
                                  !.response = Failure("timeout")]
          ELSE RetryOrFail("timeout", delay, After(d), llm.read_timeouts + 1)
    BY <1>2 DEF ReadTimeout
  <2>2. /\ llm.read_timeouts + 1 \in 0..(ReadTimeoutMaxRetries + 1)
        /\ ~(llm.read_timeouts + 1 > ReadTimeoutMaxRetries) =>
             llm.read_timeouts + 1 \in 0..ReadTimeoutMaxRetries
    BY <1>b, <1>2 DEF ReadTimeout
  <2> QED
    BY <1>0, <1>2, <2>1, <2>2, RetryKeeps, EndKeeps, ResponseTypes, PausesAreNatural
       DEF ReadTimeout, TerminalClientFailures
<1>3. CASE ConnectFails \/ RetryableStatus
  <2>1. PICK d \in Durations, delay \in Backoff \cup RetryAfters, reason \in {"timeout", "http_error"} :
          RetryOrFail(reason, delay, After(d), llm.read_timeouts)
    BY <1>3 DEF ConnectFails, RetryableStatus
  <2>2. delay \in Nat
    BY PausesAreNatural
  <2> QED
    BY <1>0, <1>b, <1>3, <2>1, <2>2, RetryKeeps DEF ConnectFails, RetryableStatus, TerminalClientFailures
<1>4. CASE PostFails \/ Replies
  <2>1. PICK d \in Durations, response \in Responses : End(response, After(d)) /\ Attempts
    BY <1>4, ResponseTypes DEF PostFails, Replies, TerminalClientFailures
  <2>2. llm' = [llm EXCEPT !.state = "done", !.elapsed = After(d), !.started = llm.elapsed,
                           !.read_timeouts = llm.read_timeouts, !.response = response]
    BY <1>0, <2>1 DEF End, CallTypes
  <2> QED
    BY <1>0, <1>b, <2>1, <2>2, EndKeeps
<1>5. CASE AnthropicFails
  <2>1. Response("error", TRUE, <<>>) \in Responses /\ Posting("anthropic")
    BY <1>5, ResponseTypes DEF Finishes, AnthropicFails
  <2>2. PICK d \in Durations :
          \/ /\ llm.attempt < MaxRetries
             /\ \E late \in Latenesses :
                  LET delay == RetryBaseDelay * 2 ^ llm.attempt
                  IN llm' = [llm EXCEPT !.attempt = @ + 1, !.elapsed = After(d) + delay + late,
                                        !.started = llm.elapsed, !.slept = @ + delay]
          \/ End(Response("error", TRUE, <<>>), After(d))
    BY <1>5 DEF AnthropicFails
  <2> QED
    BY <1>0, <2>1, <2>2, AnthropicEnds, AnthropicPauses
<1>6. CASE AnthropicReplies
  <2>1. PICK d \in Durations, response \in Responses : End(response, After(d))
    BY <1>6, ResponseTypes DEF AnthropicReplies, Finishes
  <2> QED
    BY <1>0, <1>6, <2>1, AnthropicEnds DEF AnthropicReplies
<1> QED
  BY <1>1, <1>2, <1>3, <1>4, <1>5, <1>6 DEF CallStep

-----------------------------------------------------------------------------
(* The conversation with the model. *)

IdSet == {call.id : call \in ToolCalls}

MessageType ==
  [role : {"user", "assistant"}, kind : {"text", "tool_use", "tool_result"}, ids : Seq(IdSet)]

\* Every request but the last one has its results behind it.
Paired(conversation) ==
  \A i \in 1..Len(conversation) :
    i % 2 = 0 =>
      /\ conversation[i].kind = "tool_use"
      /\ i < Len(conversation) =>
           /\ conversation[i + 1].kind = "tool_result"
           /\ conversation[i + 1].ids = conversation[i].ids

\* While tools run the last message asks for what has a result and what is pending.
Asked ==
  /\ pending \in Seq(ToolCalls) /\ results \in Seq(IdSet)
  /\ messages[Len(messages)].ids = results \o Ids(pending)

ConversationInv ==
  /\ round \in Nat /\ messages \in Seq(MessageType) /\ Paired(messages)
  /\ Len(messages) <= 2 * MaxToolRounds + 1
  /\ phase \in {"start", "mock", "call", "waiting"} =>
       round < MaxToolRounds /\ Len(messages) = 2 * round + 1
  /\ phase = "tools" => round < MaxToolRounds /\ Len(messages) = 2 * round + 2 /\ Asked
  /\ phase = "done" => Len(messages) = 2 * round + 1

AgentInv == CallInv /\ ConversationInv

LEMMA Lesser == \A i, n \in Nat : i <= n /\ i # n => i < n
OBVIOUS

LEMMA ConversationsAnswered ==
  ASSUME ConversationInv
  PROVE  ToolCallsAreAnswered
<1>1. ASSUME Len(messages) = 2 * round + 1
      PROVE  Answered(messages)
  <2>1. /\ Len(messages) \in Nat /\ Len(messages) % 2 = 1
        /\ DOMAIN messages = 1..Len(messages)
    BY <1>1 DEF ConversationInv
  <2>2. ASSUME NEW i \in 1..Len(messages), i % 2 = 0
        PROVE  i < Len(messages)
    <3>1. ASSUME i = Len(messages) PROVE FALSE
      <4>1. i % 2 = Len(messages) % 2
        BY ONLY <3>1
      <4> QED
        BY ONLY <2>1, <2>2, <4>1
    <3>2. i <= Len(messages) /\ i \in Nat
      BY ONLY <2>1, i \in 1..Len(messages)
    <3>3. i # Len(messages)
      BY <3>1
    <3> QED
      BY ONLY <3>2, <3>3, Len(messages) \in Nat, <2>1, Lesser
  <2> QED
    BY <2>1, <2>2 DEF ConversationInv, Answered, Paired
<1>2. ASSUME phase = "tools"
      PROVE  /\ messages[Len(messages)].kind = "tool_use"
             /\ messages[Len(messages)].ids = results \o Ids(pending)
  <2>1. Len(messages) = 2 * round + 2 /\ round \in Nat /\ Asked
    BY <1>2 DEF ConversationInv
  <2>2. Len(messages) \in 1..Len(messages) /\ Len(messages) % 2 = 0
    BY <2>1
  <2> QED
    BY <2>1, <2>2 DEF ConversationInv, Paired, Asked
<1> QED
  BY <1>1, <1>2 DEF ConversationInv, ToolCallsAreAnswered

\* A message that asks, after results or a text, or that answers what was asked.
LEMMA PairingGrows ==
  ASSUME NEW conversation \in Seq(MessageType), Paired(conversation), NEW message \in MessageType,
         Len(conversation) % 2 = 1 => message.kind = "tool_use",
         Len(conversation) % 2 = 0 /\ conversation # <<>> =>
           /\ message.kind = "tool_result"
           /\ message.ids = conversation[Len(conversation)].ids
  PROVE  Paired(Append(conversation, message))
<1> DEFINE n == Len(conversation)
           longer == Append(conversation, message)
<1>1. /\ n \in Nat /\ Len(longer) = n + 1 /\ longer[n + 1] = message
      /\ \A i \in 1..n : longer[i] = conversation[i]
  OBVIOUS
<1>2. n > 0 => conversation # <<>>
  OBVIOUS
<1> SUFFICES ASSUME NEW i \in 1..(n + 1), i % 2 = 0
             PROVE  /\ longer[i].kind = "tool_use"
                    /\ i < n + 1 => /\ longer[i + 1].kind = "tool_result"
                                    /\ longer[i + 1].ids = longer[i].ids
  BY <1>1 DEF Paired
<1>3. CASE i = n + 1
  <2>1. n % 2 = 1
    BY <1>1, <1>3
  <2> QED
    BY <1>1, <1>3, <2>1
<1>4. CASE i = n
  BY <1>1, <1>2, <1>4 DEF Paired
<1>5. CASE i < n
  BY <1>1, <1>5 DEF Paired
<1> QED
  BY <1>1, <1>3, <1>4, <1>5

LEMMA IdsOfCalls ==
  ASSUME NEW calls \in Seq(ToolCalls)
  PROVE  Ids(calls) \in Seq(IdSet) /\ Len(Ids(calls)) = Len(calls)
<1>1. \A i \in 1..Len(calls) : calls[i].id \in IdSet
  BY DEF IdSet
<1> QED
  BY <1>1 DEF Ids

LEMMA ElementMoves ==
  ASSUME NEW S, NEW s \in Seq(S), NEW x \in S, NEW t \in Seq(S), NEW u \in Seq(S),
         Len(u) = Len(t) + 1, u[1] = x, \A i \in 1..Len(t) : u[i + 1] = t[i]
  PROVE  Append(s, x) \o t = s \o u
<1>1. /\ Append(s, x) \in Seq(S) /\ Len(Append(s, x)) = Len(s) + 1
      /\ Append(s, x)[Len(s) + 1] = x /\ Len(s) \in Nat /\ Len(t) \in Nat
      /\ \A i \in 1..Len(s) : Append(s, x)[i] = s[i]
  OBVIOUS
<1>2. /\ Append(s, x) \o t \in Seq(S) /\ Len(Append(s, x) \o t) = Len(s) + 1 + Len(t)
      /\ \A i \in 1..(Len(s) + 1 + Len(t)) :
           (Append(s, x) \o t)[i] =
             IF i <= Len(s) + 1 THEN Append(s, x)[i] ELSE t[i - (Len(s) + 1)]
  BY <1>1, ConcatProperties
<1>3. /\ s \o u \in Seq(S) /\ Len(s \o u) = Len(s) + 1 + Len(t)
      /\ \A i \in 1..(Len(s) + 1 + Len(t)) :
           (s \o u)[i] = IF i <= Len(s) THEN s[i] ELSE u[i - Len(s)]
  <2>1. Len(s) + Len(u) = Len(s) + 1 + Len(t)
    BY <1>1
  <2>2. /\ s \o u \in Seq(S) /\ Len(s \o u) = Len(s) + Len(u)
        /\ \A i \in 1..(Len(s) + Len(u)) :
             (s \o u)[i] = IF i <= Len(s) THEN s[i] ELSE u[i - Len(s)]
    BY ConcatProperties
  <2> QED
    BY ONLY <2>1, <2>2
<1>4. ASSUME NEW i \in 1..(Len(s) + 1 + Len(t)) PROVE (Append(s, x) \o t)[i] = (s \o u)[i]
  <2>1. CASE i <= Len(s)
    BY <1>1, <1>2, <1>3, <2>1
  <2>2. CASE i = Len(s) + 1
    <3>1. i - Len(s) = 1 /\ ~(i <= Len(s)) /\ i <= Len(s) + 1
      BY <1>1, <2>2
    <3> QED
      BY <1>1, <1>2, <1>3, <2>2, <3>1
  <2>3. CASE i > Len(s) + 1
    <3>1. /\ i - (Len(s) + 1) \in 1..Len(t) /\ i - (Len(s) + 1) + 1 = i - Len(s)
          /\ ~(i <= Len(s)) /\ ~(i <= Len(s) + 1)
      BY <1>1, <2>3
    <3>2. u[i - (Len(s) + 1) + 1] = t[i - (Len(s) + 1)]
      BY <3>1
    <3>3. (s \o u)[i] = u[i - Len(s)] /\ (Append(s, x) \o t)[i] = t[i - (Len(s) + 1)]
      BY <1>2, <1>3, <3>1
    <3> QED
      BY <3>1, <3>2, <3>3
  <2> QED
    BY <1>1, <2>1, <2>2, <2>3
<1> QED
  BY <1>2, <1>3, <1>4, SeqEqual

(* What has a result and what is pending are the same calls, one moved over.    *)
LEMMA ResultMoves ==
  ASSUME NEW calls \in Seq(ToolCalls), calls # <<>>, NEW done \in Seq(IdSet)
  PROVE  /\ Tail(calls) \in Seq(ToolCalls) /\ Append(done, Head(calls).id) \in Seq(IdSet)
         /\ Append(done, Head(calls).id) \o Ids(Tail(calls)) = done \o Ids(calls)
<1>1. /\ Tail(calls) \in Seq(ToolCalls) /\ Len(Tail(calls)) = Len(calls) - 1
      /\ Head(calls) = calls[1] /\ Len(calls) \in Nat /\ Len(calls) > 0
      /\ \A i \in 1..Len(Tail(calls)) : Tail(calls)[i] = calls[i + 1]
  OBVIOUS
<1>2. Head(calls).id \in IdSet
  BY <1>1 DEF IdSet
<1>3. \A i \in 1..Len(calls) : Ids(calls)[i] = calls[i].id
  BY DEF Ids
<1>4. \A i \in 1..Len(Tail(calls)) : Ids(Tail(calls))[i] = Tail(calls)[i].id
  BY <1>1 DEF Ids
<1>5. /\ Ids(calls) \in Seq(IdSet) /\ Len(Ids(calls)) = Len(calls)
      /\ Ids(Tail(calls)) \in Seq(IdSet) /\ Len(Ids(Tail(calls))) = Len(Tail(calls))
  BY ONLY <1>1, IdsOfCalls, calls \in Seq(ToolCalls)
<1>6. \A i \in 1..Len(Tail(calls)) : i + 1 \in 1..Len(calls)
  BY <1>1
<1>7. /\ Len(Ids(calls)) = Len(Ids(Tail(calls))) + 1 /\ Ids(calls)[1] = Head(calls).id
      /\ \A i \in 1..Len(Ids(Tail(calls))) : Ids(calls)[i + 1] = Ids(Tail(calls))[i]
  <2>1. Len(Ids(calls)) = Len(Ids(Tail(calls))) + 1
    <3>1. \A n \in Nat : n = (n - 1) + 1
      OBVIOUS
    <3>2. Len(calls) = (Len(calls) - 1) + 1
      BY <1>1, <3>1
    <3> QED
      BY ONLY <1>1, <1>5, <3>2
  <2>2. 1 \in 1..Len(calls)
    BY <1>1
  <2>3. ASSUME NEW i \in 1..Len(Tail(calls)) PROVE Ids(calls)[i + 1] = Ids(Tail(calls))[i]
    <3>1. Ids(calls)[i + 1] = calls[i + 1].id
      BY <1>3, <1>6
    <3>2. Ids(Tail(calls))[i] = calls[i + 1].id
      BY <1>1, <1>4
    <3> QED
      BY ONLY <3>1, <3>2
  <2> QED
    BY <1>1, <1>3, <1>5, <2>1, <2>2, <2>3
<1>8. Append(done, Head(calls).id) \o Ids(Tail(calls)) = done \o Ids(calls)
  BY <1>2, <1>5, <1>7, ElementMoves
<1> QED
  BY <1>1, <1>2, <1>8

LEMMA NoCallHolds == ASSUME llm = NoCall PROVE CallInv
<1>1. CallTypes /\ llm.attempt = 0 /\ llm.elapsed = 0 /\ llm.started = 0 /\ llm.slept = 0
      /\ llm.read_timeouts = 0
  BY ResponseTypes DEF NoCall, CallTypes
<1>2. Patient /\ llm.attempt <= MaxRetries /\ llm.state = "idle"
  BY <1>1, RetryAssumption DEF Patient, RetryAssumption, NoCall
<1>3. RetriesStayInBudget
  BY <1>2 DEF RetriesStayInBudget
<1> QED
  BY <1>1, <1>2, <1>3 DEF CallInv

LEMMA AgentInitially == ASSUME AgentInit PROVE AgentInv
<1>1. CallInv
  BY NoCallHolds DEF AgentInit
<1>3. Message("user", "text", <<>>) \in MessageType
  BY DEF Message, MessageType
<1>4. messages \in Seq(MessageType) /\ Len(messages) = 1 /\ round = 0 /\ phase = "start"
  BY <1>3 DEF AgentInit
<1>5. Paired(messages)
  BY <1>4 DEF Paired
<1>6. ConversationInv
  BY <1>4, <1>5, RoundsAssumption DEF ConversationInv, RoundsAssumption
<1> QED
  BY <1>1, <1>6 DEF AgentInv

\* A step that leaves the conversation alone and ends no round.
LEMMA ConversationRests ==
  ASSUME ConversationInv, UNCHANGED <<round, messages>>,
         \/ UNCHANGED <<phase, pending, results>>
         \/ phase' \in {"start", "mock", "call", "waiting", "done"}
              /\ phase \in {"start", "mock", "call", "waiting"}
         \/ phase' = "raised"
         \/ phase' = "mock" /\ phase = "mock"
  PROVE  ConversationInv'
BY DEF ConversationInv, Paired, Asked, Ids

LEMMA NoCallKeeps == ASSUME llm' = NoCall PROVE CallInv'
BY FreshCall, ResponseTypes DEF NoCall

LEMMA AgentStepKeeps == ASSUME AgentInv, [AgentNext]_agentVars PROVE AgentInv'
<1> USE DEF AgentInv
<1>a. ASSUME UNCHANGED <<client, llm>> PROVE CallInv'
  BY <1>a DEF CallInv, CallTypes, RetriesStayInBudget, StaysInBudget, Patient
<1>1. CASE StartAgent
  BY <1>1, <1>a, ConversationRests DEF StartAgent
<1>2. CASE StartRealAgent
  BY <1>2, <1>a, ConversationRests DEF StartRealAgent
<1>3. CASE MockFinish
  BY <1>3, <1>a, ConversationRests DEF MockFinish
<1>4. CASE CallModel
  BY <1>4, StartCallKeeps, ConversationRests DEF CallModel
<1>5. CASE Wait
  BY <1>5, CallStepKeeps, ConversationRests DEF Wait
<1>6. CASE ModelFails
  BY <1>6, NoCallKeeps, ConversationRests DEF ModelFails, Replied
<1>7. CASE ModelAnswers
  BY <1>7, NoCallKeeps, ConversationRests DEF ModelAnswers, Replied
<1>8. CASE ModelAsks
  <2> DEFINE asked == Message("assistant", "tool_use", Ids(llm.response.calls))
  <2>1. llm.response.calls \in Seq(ToolCalls)
    BY <1>8, CallNumbers, ToolsAssumption DEF ModelAsks, CallInv, Responses, ToolsAssumption
  <2>2. Ids(llm.response.calls) \in Seq(IdSet)
    BY <2>1, IdsOfCalls
  <2>3. asked \in MessageType /\ asked.kind = "tool_use" /\ asked.ids = Ids(llm.response.calls)
    BY <2>2 DEF Message, MessageType
  <2>4. /\ round \in Nat /\ round < MaxToolRounds /\ messages \in Seq(MessageType)
        /\ Len(messages) = 2 * round + 1 /\ Len(messages) \in Nat /\ Paired(messages)
    BY <1>8 DEF ModelAsks, Replied, ConversationInv
  <2>5. /\ messages' = Append(messages, asked) /\ round' = round /\ phase' = "tools"
        /\ pending' = llm.response.calls /\ results' = <<>>
    BY <1>8 DEF ModelAsks
  <2> HIDE DEF asked
  <2>6. Len(messages) % 2 = 1
    BY <2>4
  <2>7. Paired(messages)'
    <3>0. /\ messages \in Seq(MessageType) /\ Paired(messages) /\ asked \in MessageType
          /\ ~(Len(messages) % 2 = 0) /\ asked.kind = "tool_use"
      BY <2>3, <2>4, <2>6
    <3>1. Paired(Append(messages, asked))
      BY ONLY <3>0, PairingGrows
    <3> QED
      BY <2>5, <3>1 DEF Paired
  <2>8. /\ messages' \in Seq(MessageType) /\ Len(messages') = 2 * round + 2
        /\ messages'[Len(messages')] = asked
    BY <2>3, <2>4, <2>5
  <2>9. Asked'
    <3>1. results' \in Seq(IdSet) /\ results' \o Ids(pending') = Ids(pending')
      BY <2>2, <2>5
    <3> QED
      BY <2>1, <2>3, <2>5, <2>8, <3>1 DEF Asked, Ids
  <2>10. Len(messages') <= 2 * MaxToolRounds + 1
    BY <2>4, <2>8, RoundsAssumption DEF RoundsAssumption
  <2>11. ConversationInv'
    BY <2>4, <2>5, <2>7, <2>8, <2>9, <2>10 DEF ConversationInv
  <2> QED
    BY <1>8, <2>11, NoCallKeeps DEF ModelAsks
<1>9. CASE ExecuteTool
  <2>1. CASE phase = "mock" \/ phase' = "raised"
    BY <1>9, <1>a, <2>1, ConversationRests DEF ExecuteTool
  <2>2. CASE phase = "tools" /\ phase' # "raised"
    <3>1. /\ Asked /\ pending # <<>> /\ phase' = "tools" /\ UNCHANGED <<round, messages>>
          /\ pending' = Tail(pending) /\ results' = Append(results, Head(pending).id)
      BY <1>9, <2>2 DEF ExecuteTool, ConversationInv
    <3>2. /\ pending' \in Seq(ToolCalls) /\ results' \in Seq(IdSet)
          /\ results' \o Ids(pending') = results \o Ids(pending)
      BY <3>1, ResultMoves DEF Asked
    <3>3. Asked'
      BY <3>1, <3>2 DEF Asked, Ids
    <3> QED
      BY <1>9, <1>a, <2>2, <3>1, <3>3 DEF ExecuteTool, ConversationInv, Paired
  <2> QED
    BY <1>9, <2>1, <2>2 DEF ExecuteTool
<1>10. CASE SendResults
  <2> DEFINE answer == Message("user", "tool_result", results)
  <2>1. /\ round \in Nat /\ round < MaxToolRounds /\ messages \in Seq(MessageType)
        /\ Len(messages) = 2 * round + 2 /\ Len(messages) \in Nat /\ Paired(messages) /\ Asked
    <3>1. phase = "tools"
      BY <1>10 DEF SendResults
    <3> QED
      BY <3>1 DEF ConversationInv
  <2>2. Ids(pending) = <<>>
    <3>1. pending = <<>> /\ pending \in Seq(ToolCalls) /\ Len(pending) = 0
      BY <1>10, <2>1 DEF SendResults, Asked
    <3>2. Ids(pending) \in Seq(IdSet) /\ Len(Ids(pending)) = 0
      BY <3>1, IdsOfCalls
    <3> QED
      BY <3>2
  <2>3. messages[Len(messages)].ids = results /\ results \in Seq(IdSet)
    BY <2>1, <2>2 DEF Asked
  <2>4. answer \in MessageType /\ answer.kind = "tool_result" /\ answer.ids = results
    BY <2>3 DEF Message, MessageType
  <2>5. /\ messages' = Append(messages, answer) /\ round' = round + 1
        /\ phase' = IF round + 1 < MaxToolRounds THEN "call" ELSE "done"
    BY <1>10 DEF SendResults
  <2> HIDE DEF answer
  <2>6. Len(messages) % 2 = 0
    BY <2>1
  <2>7. Paired(messages)'
    <3>0. /\ messages \in Seq(MessageType) /\ Paired(messages) /\ answer \in MessageType
          /\ ~(Len(messages) % 2 = 1) /\ answer.kind = "tool_result"
          /\ answer.ids = messages[Len(messages)].ids
      BY <2>1, <2>3, <2>4, <2>6
    <3>1. Paired(Append(messages, answer))
      BY ONLY <3>0, PairingGrows
    <3> QED
      BY <2>5, <3>1 DEF Paired
  <2>8. messages' \in Seq(MessageType) /\ Len(messages') = 2 * (round + 1) + 1
    BY <2>1, <2>4, <2>5
  <2>9. Len(messages') <= 2 * MaxToolRounds + 1
    BY <2>1, <2>8, RoundsAssumption DEF RoundsAssumption
  <2>10. ConversationInv'
    BY <2>1, <2>5, <2>7, <2>8, <2>9 DEF ConversationInv
  <2> QED
    BY <1>10, <1>a, <2>10 DEF SendResults
<1>11. CASE UNCHANGED agentVars
  BY <1>11, <1>a, ConversationRests DEF agentVars
<1> QED
  BY <1>1, <1>2, <1>3, <1>4, <1>5, <1>6, <1>7, <1>8, <1>9, <1>10, <1>11 DEF AgentNext

LEMMA AgentAlways == AgentSpec => []AgentInv
BY AgentInitially, AgentStepKeeps, PTL DEF AgentSpec

(* However attempts fail and whatever the server asks for, a call makes no     *)
(* more attempts than its setting says. A call of DashScope keeps its bounds   *)
(* on pauses and time, for any budget, deadline, jitter and lateness; one of   *)
(* Anthropic has neither, and pauses by its doubling schedule, exactly         *)
(* (llm/dashscope_client.py:117, llm/anthropic_client.py:197).                 *)
THEOREM CallsStayInBudget == AgentSpec => []RetriesStayInBudget
<1>1. AgentInv => RetriesStayInBudget
  BY DEF AgentInv, CallInv
<1> QED
  BY <1>1, AgentAlways, PTL

(* The model never sees a request for tools without the results, in order, of   *)
(* all tools it asked for, whichever of them failed, for any number of rounds   *)
(* and of tools in a round (agent.py:200).                                      *)
THEOREM EveryToolCallIsAnswered == AgentSpec => []ToolCallsAreAnswered
<1>1. AgentInv => ToolCallsAreAnswered
  BY ConversationsAnswered DEF AgentInv
<1> QED
  BY <1>1, AgentAlways, PTL

-----------------------------------------------------------------------------
(* The customer on disk. *)

Fields == {"name", "industry", "aliases", "stage", "status", "version", "deal", "health", "facts"}

\* The profile of a turn has its fields, and the list of calls is a list.
ProfileInv ==
  /\ phase # "none" => DOMAIN profile = Fields
  /\ called \in Seq({called[i] : i \in DOMAIN called})

LEMMA AppendLast ==
  ASSUME NEW s, s \in Seq({s[i] : i \in DOMAIN s}), NEW x
  PROVE  LET longer == Append(s, x)
         IN longer \in Seq({longer[i] : i \in DOMAIN longer}) /\ longer[Len(longer)] = x
<1> DEFINE T == {s[i] : i \in DOMAIN s} \cup {x}
           longer == Append(s, x)
<1>1. s \in Seq(T) /\ x \in T
  OBVIOUS
<1> HIDE DEF T
<1>2. longer \in Seq(T) /\ longer[Len(longer)] = x
  BY <1>1
<1> HIDE DEF longer
<1>3. longer \in [1..Len(longer) -> T] /\ Len(longer) \in Nat /\ DOMAIN longer = 1..Len(longer)
  BY ONLY <1>2
<1>4. longer \in Seq({longer[i] : i \in DOMAIN longer})
  BY ONLY <1>3
<1> QED
  BY <1>2, <1>4 DEF longer

(* What a tool leaves of a stored customer.                                     *)
LEMMA ToolsKeepTheCustomer ==
  ASSUME NEW before, DOMAIN before = Fields, NEW call,
         NEW result, result = Execute(before, call)
  PROVE  /\ DOMAIN result.profile = Fields
         /\ result.profile # before =>
              /\ result.success \/ ~Readable(result.profile)
              /\ \/ result.profile.stage = before.stage
                 \/ CanTransition(before.stage, result.profile.stage)
              /\ result.profile.version = before.version + 1
              /\ Readable(before)
<1> DEFINE Kept(r) ==
             /\ DOMAIN r.profile = Fields
             /\ r.profile # before =>
                  /\ r.success \/ ~Readable(r.profile)
                  /\ \/ r.profile.stage = before.stage
                     \/ CanTransition(before.stage, r.profile.stage)
                  /\ r.profile.version = before.version + 1
                  /\ Readable(before)
<1>1. ASSUME NEW success PROVE Kept(ToolResult(success, before))
  BY DEF ToolResult
<1>2. Kept([ToolResult(FALSE, before) EXCEPT !.raises = TRUE])
  BY DEF ToolResult
<1>3. Kept(SearchCustomers(before, call))
  BY DEF SearchCustomers, ToolResult
<1>4. Kept(UpdateCustomer(before, call))
  <2> DEFINE named == IF call.customer_name \in {Absent, before.name} THEN before
                      ELSE [before EXCEPT !.name = call.customer_name]
             moves == call.sales_stage \in Stages \ {before.stage}
             placed == IF call.industry = Absent THEN named
                       ELSE [named EXCEPT !.industry = call.industry]
             staged == IF moves THEN [placed EXCEPT !.stage = call.sales_stage] ELSE placed
             stated == IF call.status = Absent THEN staged ELSE [staged EXCEPT !.status = call.status]
             aliased == IF call.aliases = Absent THEN stated
                        ELSE [stated EXCEPT !.aliases = call.aliases]
  <2>1. /\ DOMAIN placed = Fields /\ placed.stage = before.stage
        /\ placed.version = before.version
    <3>1. /\ DOMAIN named = Fields /\ named.stage = before.stage
          /\ named.version = before.version
      BY DEF Fields
    <3> QED
      BY <3>1 DEF Fields
  <2>2. /\ DOMAIN staged = Fields /\ staged.version = before.version
        /\ staged.stage = IF moves THEN call.sales_stage ELSE before.stage
    BY <2>1 DEF Fields
  <2>3. /\ DOMAIN stated = Fields /\ stated.version = before.version
        /\ stated.stage = staged.stage
    BY <2>2 DEF Fields
  <2>4. /\ DOMAIN aliased = Fields /\ aliased.version = before.version
        /\ aliased.stage = staged.stage
    BY <2>3 DEF Fields
  <2>5. /\ DOMAIN Saved(aliased) = Fields /\ Saved(aliased).version = before.version + 1
        /\ Saved(aliased).stage = IF moves THEN call.sales_stage ELSE before.stage
    BY <2>2, <2>4 DEF Fields, Saved
  <2>a. Saved(aliased).name = aliased.name /\ Saved(aliased).aliases = aliased.aliases
    BY <2>4 DEF Fields, Saved
  <2>6. \/ UpdateCustomer(before, call) = ToolResult(FALSE, before)
        \/ UpdateCustomer(before, call) = ToolResult(TRUE, before)
        \/ /\ UpdateCustomer(before, call) = ToolResult(Indexable(aliased), Saved(aliased))
           /\ Loads(before, call) /\ (moves => CanTransition(before.stage, call.sales_stage))
    BY DEF UpdateCustomer
  <2>7. ASSUME Loads(before, call), moves => CanTransition(before.stage, call.sales_stage)
        PROVE  Kept(ToolResult(Indexable(aliased), Saved(aliased)))
    <3> HIDE DEF aliased, moves
    <3>1. Indexable(aliased) \/ ~Readable(Saved(aliased))
      BY <2>a DEF Indexable, Readable
    <3> QED
      BY <2>5, <2>7, <3>1 DEF ToolResult, Loads
  <2> HIDE DEF aliased, moves
  <2> QED
    BY <1>1, <2>6, <2>7
<1>5. Kept(ScoreCustomer(before, call))
  <2> DEFINE dealt ==
        IF call.score_type \in {"deal", "both"}
        THEN [before EXCEPT !.deal = DealScore(DealDimensions(before), before.facts.risks)]
        ELSE before
             scored ==
        IF call.score_type \in {"health", "both"}
        THEN [dealt EXCEPT !.health = HealthScore(dealt)] ELSE dealt
  <2>1. DOMAIN dealt = Fields /\ dealt.stage = before.stage /\ dealt.version = before.version
    BY DEF Fields
  <2>2. DOMAIN scored = Fields /\ scored.stage = before.stage /\ scored.version = before.version
    BY <2>1 DEF Fields
  <2>3. /\ DOMAIN Saved(scored) = Fields /\ Saved(scored).stage = before.stage
        /\ Saved(scored).version = before.version + 1
    BY <2>2 DEF Fields, Saved
  <2>4. \/ ScoreCustomer(before, call) = ToolResult(FALSE, before)
        \/ /\ ScoreCustomer(before, call) = ToolResult(TRUE, Saved(scored))
           /\ Loads(before, call)
    BY DEF ScoreCustomer
  <2>5. Loads(before, call) => Kept(ToolResult(TRUE, Saved(scored)))
    BY <2>3 DEF ToolResult, Loads
  <2> QED
    BY <1>1, <2>4, <2>5
<1>6. Kept(Execute(before, call))
  BY <1>1, <1>2, <1>3, <1>4, <1>5 DEF Execute, ToolNames
<1> QED
  BY <1>6

(* A step is one of the customer's only if a tool ran.                          *)
LEMMA CustomerSteps ==
  ASSUME ProfileInv, [AgentNext]_agentVars
  PROVE  /\ ProfileInv'
         /\ profile' # profile =>
              /\ called'[Len(called')].success \/ ~Readable(profile')
              /\ profile'.stage = profile.stage \/ CanTransition(profile.stage, profile'.stage)
              /\ profile'.version = profile.version + 1
              /\ Readable(profile)
<1>a. phase = "none" => phase' = "none"
  BY DEF AgentNext, StartAgent, StartRealAgent, MockFinish, CallModel, Wait, ModelFails,
         ModelAnswers, ModelAsks, ExecuteTool, SendResults, Replied, agentVars
<1>1. CASE UNCHANGED <<profile, called>>
  BY <1>1, <1>a DEF ProfileInv
<1>2. CASE ExecuteTool /\ ~UNCHANGED <<profile, called>>
  <2> DEFINE call == Head(pending)
             result == Execute(profile, call)
  <2>1. /\ called' = Append(called, Called(call, result))
        /\ profile' = result.profile
    BY <1>2 DEF ExecuteTool
  <2>0. DOMAIN profile = Fields
    BY <1>2 DEF ExecuteTool, ProfileInv
  <2>2. /\ DOMAIN result.profile = Fields
        /\ result.profile # profile =>
             /\ result.success \/ ~Readable(result.profile)
             /\ \/ result.profile.stage = profile.stage
                \/ CanTransition(profile.stage, result.profile.stage)
             /\ result.profile.version = profile.version + 1
             /\ Readable(profile)
    BY <2>0, ToolsKeepTheCustomer
  <2>3. Called(call, result).success = result.success
    BY DEF Called
  <2> DEFINE entry == Called(call, result)
  <2> HIDE DEF result, entry
  <2>4. /\ Append(called, entry) \in
             Seq({Append(called, entry)[i] : i \in DOMAIN Append(called, entry)})
        /\ Append(called, entry)[Len(Append(called, entry))] = entry
    BY AppendLast DEF ProfileInv
  <2>5. called' = Append(called, entry) /\ entry.success = result.success
    BY <2>1, <2>3 DEF entry
  <2>6. ProfileInv'
    BY ONLY <2>1, <2>2, <2>4, <2>5 DEF ProfileInv
  <2>7. called'[Len(called')].success = result.success
    BY ONLY <2>4, <2>5
  <2> QED
    BY <2>1, <2>2, <2>6, <2>7
<1> QED
  BY <1>1, <1>2
     DEF AgentNext, StartAgent, StartRealAgent, MockFinish, CallModel, Wait, ModelFails,
         ModelAnswers, ModelAsks, SendResults, agentVars

LEMMA AgentProfiles == AgentInit => ProfileInv
<1>1. ASSUME AgentInit PROVE DOMAIN profile = Fields
  BY <1>1, ToolsAssumption DEF AgentInit, ToolsAssumption, CustomerProfiles, Fields
<1>2. ASSUME AgentInit PROVE called \in Seq({called[i] : i \in DOMAIN called})
  BY <1>2 DEF AgentInit
<1> QED
  BY <1>1, <1>2 DEF ProfileInv

(* A tool that reports failure leaves the stored customer alone, or leaves a    *)
(* file that no reader takes for a customer; and a change of the customer is    *)
(* one version and at most one step of the sale, for every profile and every    *)
(* argument of the model (tools/customer_memory.py:199,                         *)
(* memory/customer_store.py:322).                                               *)
THEOREM FailuresLeaveTheCustomer == AgentSpec => FailedChangesAreNeverRead
<1> QED
  BY AgentProfiles, CustomerSteps, PTL DEF AgentSpec, FailedChangesAreNeverRead

=============================================================================
