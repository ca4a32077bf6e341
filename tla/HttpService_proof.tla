------------------------- MODULE HttpService_proof -------------------------
(***************************************************************************)
(* Theorems about HttpService, for any requests, users, keys, headers and  *)
(* configurations.                                                         *)
(***************************************************************************)
EXTENDS HttpService, SequenceTheorems, Integers, TLAPS

-----------------------------------------------------------------------------
(* The lifespan: what each of its steps preserves. *)

(* The stack holds exactly what is open: the client as soon as it is made, on   *)
(* top of it the engine as soon as it is started.  Between the two awaits of    *)
(* stop() the engine is off the stack and its pool still open.                  *)
StackIsWhatIsOpen ==
  /\ phase = "created" => stack = <<>>
  /\ stack \in {<<"client">>, <<"engine", "client">>} <=> client = "open"
  /\ stack \in {<<"engine">>, <<"engine", "client">>} <=> engine = "started"
  /\ engine = "started" => pool = "open"
  /\ pool = "open" => engine = "started" \/ phase = "disposing"

(* How far a startup has come says what it has started.                         *)
StartupProgress ==
  /\ phase \in {"created", "identity"} => client = "none"
  /\ phase \in {"created", "identity", "engine"} => engine = "none"
  /\ phase \in {"engine", "connectivity", "revision", "composition", "serving"} =>
       (config.oidc => verifier /\ client = "open")
  /\ phase \in {"connectivity", "revision"} => Postgres
  /\ phase \in {"connectivity", "revision", "composition", "serving"} =>
       (Postgres => engine = "started")
  /\ phase = "serving" => dependencies
  /\ phase = "disposing" => engine = "stopped"
  /\ phase = "ended" => stack = <<>>
  /\ readiness => phase \in {"created", "serving"}
  /\ readiness /\ phase = "created" => dependencies /\ ~Postgres

LifecycleInv == LifecycleTypeOK /\ StackIsWhatIsOpen /\ StartupProgress

(* The four stacks there are, and what the operations on them make of each.     *)
LEMMA StackedOnEmpty ==
  /\ <<"client">> \o <<>> = <<"client">>
  /\ <<"engine">> \o <<>> = <<"engine">>
BY ConcatEmptySeq

LEMMA StackedOnClient == <<"engine">> \o <<"client">> = <<"engine", "client">>
<1> DEFINE s == <<"engine">>  t == <<"client">>  u == <<"engine", "client">>
<1>1. s \in Seq({"engine", "client"}) /\ t \in Seq({"engine", "client"})
  OBVIOUS
<1>2. Len(s \o t) = 2 /\ (s \o t)[1] = "engine" /\ (s \o t)[2] = "client"
  BY <1>1, ConcatProperties
<1>3. u \in Seq({"engine", "client"}) /\ Len(u) = 2 /\ u[1] = "engine" /\ u[2] = "client"
  OBVIOUS
<1>4. s \o t \in Seq({"engine", "client"})
  BY <1>1, ConcatProperties
<1>5. \A i \in 1 .. 2 : (s \o t)[i] = u[i]
  BY <1>2, <1>3
<1> HIDE DEF s, t, u
<1>6. s \o t = u
  BY <1>2, <1>3, <1>4, <1>5, SeqEqual
<1> QED
  BY <1>6 DEF s, t, u

LEMMA Tops ==
  /\ Head(<<"client">>) = "client" /\ Tail(<<"client">>) = <<>>
  /\ Head(<<"engine">>) = "engine" /\ Tail(<<"engine">>) = <<>>
  /\ Head(<<"engine", "client">>) = "engine"
  /\ Tail(<<"engine", "client">>) = <<"client">>
OBVIOUS

LEMMA StacksDiffer ==
  /\ <<>> # <<"client">> /\ <<>> # <<"engine">> /\ <<>> # <<"engine", "client">>
  /\ <<"client">> # <<"engine">>
  /\ <<"client">> # <<"engine", "client">> /\ <<"engine">> # <<"engine", "client">>
<1>1. Len(<<>>) = 0 /\ Len(<<"client">>) = 1 /\ Len(<<"engine">>) = 1
  OBVIOUS
<1>2. Len(<<"engine", "client">>) = 2
  OBVIOUS
<1>3. <<"client">> # <<"engine">>
  OBVIOUS
<1> QED
  BY <1>1, <1>2, <1>3

(* The application starts with an empty stack and nothing open.                 *)
LEMMA LifecycleInitial == LifecycleInit => LifecycleInv
BY StacksDiffer DEF LifecycleInit, LifecycleInv, LifecycleTypeOK, Phases, Starting,
       StackIsWhatIsOpen, StartupProgress, Postgres

(* Nothing changes the configuration.                                           *)
LEMMA ConfigStays == LifecycleNext => config' = config
BY DEF LifecycleNext, Enter, Start, StartIdentity, StartEngine, CheckConnectivity,
       CheckRevision, Compose, StartupFails, Shutdown, Release, CloseClient,
       StopEngine, Dispose, End

(* Each action of the startup starts the next thing and stacks it.              *)
LEMMA StartPreserves == LifecycleInv /\ (Enter \/ Start) => LifecycleInv'
<1> SUFFICES ASSUME LifecycleInv, Enter \/ Start PROVE LifecycleInv'
  OBVIOUS
<1> USE DEF LifecycleInv, LifecycleTypeOK, Phases, Starting, StackIsWhatIsOpen,
            StartupProgress, Postgres
<1>1. CASE Enter
  BY <1>1 DEF Enter
<1>2. CASE StartIdentity
  BY <1>2, StackedOnEmpty, StacksDiffer DEF StartIdentity, Stacked
<1>3. CASE StartEngine
  BY <1>3, StackedOnEmpty, StackedOnClient, StacksDiffer DEF StartEngine, Stacked
<1>4. CASE CheckConnectivity \/ CheckRevision
  BY <1>4 DEF CheckConnectivity, CheckRevision
<1>5. CASE Compose
  BY <1>5 DEF Compose
<1>6. CASE StartupFails
  BY <1>6 DEF StartupFails, ReadinessAfter
<1>7. QED
  BY <1>1, <1>2, <1>3, <1>4, <1>5, <1>6 DEF Start

(* Each action of the release takes the top of the stack and closes it.         *)
LEMMA ReleasePreserves == LifecycleInv /\ (Shutdown \/ Release) => LifecycleInv'
<1> SUFFICES ASSUME LifecycleInv, Shutdown \/ Release PROVE LifecycleInv'
  OBVIOUS
<1> USE DEF LifecycleInv, LifecycleTypeOK, Phases, Starting, StackIsWhatIsOpen,
            StartupProgress, Postgres
<1>1. CASE Shutdown
  BY <1>1 DEF Shutdown, ReadinessAfter
<1>2. CASE CloseClient
  BY <1>2, Tops, StacksDiffer DEF CloseClient
<1>3. CASE StopEngine
  BY <1>3, Tops, StacksDiffer DEF StopEngine
<1>4. CASE Dispose
  BY <1>4 DEF Dispose
<1>5. CASE End
  BY <1>5 DEF End
<1>6. QED
  BY <1>1, <1>2, <1>3, <1>4, <1>5 DEF Release

(* The invariant is inductive.                                                  *)
LEMMA LifecycleStep == LifecycleInv /\ [LifecycleNext]_lifecycleVars => LifecycleInv'
<1> SUFFICES ASSUME LifecycleInv, [LifecycleNext]_lifecycleVars PROVE LifecycleInv'
  OBVIOUS
<1>1. CASE LifecycleNext
  BY <1>1, StartPreserves, ReleasePreserves DEF LifecycleNext
<1>2. CASE UNCHANGED lifecycleVars
  BY <1>2 DEF LifecycleInv, LifecycleTypeOK, StackIsWhatIsOpen, StartupProgress,
              Postgres, lifecycleVars
<1>3. QED
  BY <1>1, <1>2

(* When the lifespan is over the stack is empty, so nothing is open.            *)
LEMMA InvNothingLeftOpen == LifecycleInv => NothingLeftOpen
BY DEF LifecycleInv, StackIsWhatIsOpen, StartupProgress, NothingLeftOpen

LEMMA InvReadyMeansUsable == LifecycleInv => ReadyMeansUsable
BY DEF LifecycleInv, StackIsWhatIsOpen, StartupProgress, ReadyMeansUsable, Postgres

-----------------------------------------------------------------------------
(* Types. *)

RowType ==
  [status : {"absent", "in_progress"} \cup Durable!Terminal,
   run : {"none"} \cup Durable!Results,
   events : SUBSET {"request_accepted", "request_completed", "policy_blocked",
                    "request_failed"}]

(* What a transaction makes of a row is a row.                                  *)
LEMMA RowTypes ==
  /\ Durable!AbsentRow \in RowType
  /\ Durable!AcceptedRow \in RowType
  /\ ReplayedRow \in RowType
  /\ \A row \in RowType, what \in Durable!Results :
       /\ Durable!FinalizedRow(row, what) \in RowType
       /\ Durable!FinalizedRow(row, what).status = Durable!FinalStatus(what)
BY DEF RowType, Durable!AbsentRow, Durable!AcceptedRow, ReplayedRow,
       Durable!FinalizedRow, Durable!FinalStatus, Durable!EventOf,
       Durable!Results, Durable!Terminal

(* Every handler's answer is a code.                                            *)
LEMMA HandlerType == \A what \in Exceptions : Handler(what) \in Codes
BY DEF Handler, Exceptions, Codes

(* The variables of the requests.                                               *)
RequestTypes ==
  /\ rows \in [Requests -> RowType]
  /\ call \in [Requests -> {"idle", "accepting", "running", "finalizing", "over"}]
  /\ result \in [Requests -> {"none"} \cup Durable!Results]
  /\ raised \in [Requests ->
       {"none", "ApplicationResult", "REPLAYED", "CancelledError"} \cup Exceptions]
  /\ threads \subseteq started
  /\ started \subseteq Requests
  /\ input \in [Requests -> Input]
  /\ stage \in [Requests -> {"idle", "securing", "verifying", "authorizing",
                              "dispatching", "executing", "ended"}]
  /\ path \in [Requests -> {"none", "direct", "durable", "keyed"}]
  /\ answer \in [Requests -> {"none"} \cup Codes]
  /\ holder \in [KeyScopes -> Requests \cup {None}]
  /\ source \in [Requests -> Requests \cup {None}]

LEMMA TypesSplit == TypeOK <=> LifecycleTypeOK /\ RequestTypes
BY DEF TypeOK, RequestTypes, RowType

-----------------------------------------------------------------------------
(* The inductive invariant, one request at a time. *)

Identified(r) ==
  \/ input[r].token = "accepted"
  \/ input[r].token = "absent" /\ config.runtime = "demo"

Admissible(r) ==
  /\ input[r].key \notin {"malformed", "long"}
  /\ config.header = "required" => Keyed(r)
  /\ Keyed(r) => ~RawRequested(r) /\ Stored

(* What a request has passed by the time it is where it is.                     *)
Passed(r) ==
  /\ stage[r] \in {"authorizing", "dispatching", "executing"} \/ r \in started =>
       Identified(r)
  /\ stage[r] \in {"dispatching", "executing"} \/ r \in started => Authorized(r)
  /\ stage[r] = "executing" \/ call[r] # "idle" \/ r \in started =>
       Admissible(r) /\ path[r] = Path(r)

(* A request that is not being executed has touched nothing, and only one that  *)
(* ended has an answer.                                                         *)
Untouched(r) == r \notin started /\ rows[r].status = "absent" /\ source[r] = None

Positioned(r) ==
  /\ stage[r] \notin {"executing", "ended"} => call[r] = "idle"
  /\ stage[r] = "executing" => call[r] # "idle" /\ raised[r] # "CancelledError"
  /\ call[r] # "over" => raised[r] = "none"
  /\ call[r] \in {"idle", "accepting"} => Untouched(r)
  /\ call[r] \in {"running", "finalizing"} =>
       /\ r \in started
       /\ source[r] = None
       /\ path[r] = "direct" => rows[r].status = "absent"
       /\ path[r] = "durable" => rows[r].status = "in_progress"
       /\ path[r] = "keyed" => rows[r].status \in {"in_progress", "failed"}
  /\ call[r] = "finalizing" => result[r] \in Durable!Results
  /\ answer[r] = "none" <=> stage[r] # "ended"

(* What a call that is over returned or raised says what it left behind.        *)
RaisedAgrees(r) ==
  call[r] = "over" =>
    /\ raised[r] # "none"
    /\ raised[r] = "ApplicationResult" => r \in started /\ (Stored => Completed(r))
    /\ raised[r] = "REPLAYED" =>
         r \notin started /\ Stored /\ Completed(r) /\ source[r] # None
    /\ raised[r] = "ApplicationExecutionError" => r \in started /\ ~Stored
    /\ raised[r] = "DurableApplicationExecutionError" =>
         r \in started /\ rows[r].status = "failed"
    /\ raised[r] \in {"FingerprintVersionError", "InvalidIdempotencyStateError",
                      "UnsupportedReplaySnapshotVersionError", "IN_PROGRESS",
                      "CONFLICT", "PREVIOUS_FAILURE"} => Untouched(r)

RunRecorded(r) == r \in started /\ Stored => rows[r].status # "absent"

Local(r) ==
  /\ Passed(r)
  /\ Positioned(r)
  /\ RaisedAgrees(r)
  /\ RunRecorded(r)
  /\ AnswerAgrees(r)

(* A key is held by a request that was executed under it, and a replay's source *)
(* is completed.                                                                *)
HoldersHaveRows ==
  \A s \in KeyScopes : holder[s] # None =>
    path[holder[s]] = "keyed" /\ rows[holder[s]].status # "absent"

SourcesAreCompleted == \A r \in Requests : source[r] # None => Completed(source[r])

Inv ==
  /\ LifecycleInv
  /\ RequestTypes
  /\ HoldersHaveRows
  /\ SourcesAreCompleted
  /\ \A r \in Requests : Local(r)

-----------------------------------------------------------------------------

(* Nothing has happened at first.                                               *)
LEMMA InitInv == Init => Inv
<1> SUFFICES ASSUME Init PROVE Inv
  OBVIOUS
<1>1. LifecycleInv
  BY LifecycleInitial DEF Init
<1>2. RequestTypes
  <2>1. input \in [Requests -> Input]
    BY InputsAssumption DEF Init
  <2> QED
    BY <2>1, RowTypes DEF Init, RequestTypes, Durable!DurableInit
<1>3. HoldersHaveRows /\ SourcesAreCompleted
  BY DEF Init, HoldersHaveRows, SourcesAreCompleted
<1>4. \A r \in Requests : Local(r)
  BY DEF Init, Durable!DurableInit, Durable!AbsentRow, Local, Passed, Positioned,
         Untouched, RaisedAgrees, RunRecorded, AnswerAgrees
<1> QED
  BY <1>1, <1>2, <1>3, <1>4 DEF Inv

-----------------------------------------------------------------------------
(* What a step leaves alone. *)

(* What a request carries and what the configuration says do not change.        *)
Fixed == input' = input /\ config' = config

LEMMA FixedFacts ==
  ASSUME Fixed
  PROVE  /\ Stored' = Stored
         /\ \A r \in Requests :
              /\ Identified(r)' = Identified(r)
              /\ Authorized(r)' = Authorized(r)
              /\ Keyed(r)' = Keyed(r)
              /\ Admissible(r)' = Admissible(r)
              /\ Path(r)' = Path(r)
              /\ KeyScope(r)' = KeyScope(r)
BY DEF Fixed, Stored, Identified, Authorized, Principal, Permissions, Keyed, Admissible,
       RawRequested, Path, KeyScope

(* A step of one request leaves the others where they are, except that it may   *)
(* close the row of one whose key it takes over; it never changes a completed   *)
(* row.                                                                         *)
Unmoved(q) ==
  /\ stage'[q] = stage[q] /\ call'[q] = call[q] /\ path'[q] = path[q]
  /\ answer'[q] = answer[q] /\ raised'[q] = raised[q] /\ result'[q] = result[q]
  /\ source'[q] = source[q] /\ (q \in started' <=> q \in started)
  /\ \/ rows'[q] = rows[q]
     \/ /\ path[q] = "keyed"
        /\ rows[q].status = "in_progress"
        /\ rows'[q].status = "failed"

CompletedStays ==
  \A q \in Requests : rows[q].status = "completed" => rows'[q].status = "completed"

LEMMA UnmovedKeepsLocal ==
  ASSUME Fixed, CompletedStays, RequestTypes, NEW q \in Requests, Unmoved(q), Local(q)
  PROVE  Local(q)'
<1>1. Passed(q)'
  BY FixedFacts DEF Unmoved, Local, Passed
<1>2. Positioned(q)'
  BY DEF Unmoved, Local, Positioned, Untouched
<1>3. RaisedAgrees(q)'
  BY FixedFacts DEF Unmoved, Local, RaisedAgrees, Untouched, Completed
<1>4. RunRecorded(q)'
  BY FixedFacts DEF Unmoved, Local, RunRecorded
<1>5. AnswerAgrees(q)'
  <2>1. source[q] # None /\ rows[source[q]].status = "completed"
          => rows'[source[q]].status = "completed"
    BY DEF RequestTypes, CompletedStays
  <2>2. rows[q].status = "completed" => rows'[q].status = "completed"
    BY DEF CompletedStays
  <2> QED
    BY <2>1, <2>2, FixedFacts DEF Unmoved, Local, AnswerAgrees, Completed
<1> QED
  BY <1>1, <1>2, <1>3, <1>4, <1>5 DEF Local

(* It is enough to show what a step does to the request that takes it.          *)
LEMMA StepOfOne ==
  ASSUME Inv, Fixed, LifecycleInv', RequestTypes', HoldersHaveRows',
         NEW r \in Requests, Local(r)', CompletedStays,
         source'[r] # None =>
           source'[r] = source[r] \/ rows'[source'[r]].status = "completed",
         \A q \in Requests \ {r} : Unmoved(q)
  PROVE  Inv'
<1>1. \A q \in Requests : Local(q)'
  <2>1. ASSUME NEW q \in Requests, q # r PROVE Local(q)'
    BY <2>1, UnmovedKeepsLocal DEF Inv
  <2> QED
    BY <2>1
<1>2. SourcesAreCompleted'
  <2>1. ASSUME NEW q \in Requests, source'[q] # None
        PROVE  rows'[source'[q]].status = "completed"
    <3>1. CASE source'[q] = source[q]
      BY <2>1, <3>1 DEF Inv, RequestTypes, SourcesAreCompleted, CompletedStays, Completed
    <3>2. CASE source'[q] # source[q]
      BY <2>1, <3>2 DEF Unmoved
    <3> QED
      BY <3>1, <3>2
  <2> QED
    BY <2>1 DEF SourcesAreCompleted, Completed
<1> QED
  BY <1>1, <1>2 DEF Inv

-----------------------------------------------------------------------------
(* Before the execution. *)

(* Two types that every step uses.                                              *)
LEMMA Typed ==
  ASSUME Inv, NEW r \in Requests
  PROVE  /\ rows[r] \in RowType /\ rows[r].status \in {"absent", "in_progress"} \cup Durable!Terminal
         /\ source[r] \in Requests \cup {None}
BY DEF Inv, RequestTypes, RowType

(* A refusal of a request that has not been executed is right to say so.        *)
LEMMA RefuseStep ==
  ASSUME Inv, NEW r \in Requests, stage[r] \notin {"executing", "ended"},
         NEW what \in Codes, Refuse(r, what),
         what \notin {"answered", "executed", "replayed", "response_projection_failed",
                      "application_execution_error"}
  PROVE  Inv'
<1>1. Fixed /\ LifecycleInv'
  BY LifecycleStep DEF Inv, Fixed, Refuse, lifecycleVars
<1>2. RequestTypes' /\ HoldersHaveRows'
  BY DEF Inv, RequestTypes, HoldersHaveRows, Refuse, Answer, durableVars,
         ledgerVars
<1>3. Local(r)'
  BY <1>1, FixedFacts DEF Inv, RequestTypes, Refuse, Answer, durableVars, ledgerVars, Local, Passed,
     Positioned, Untouched, RaisedAgrees, RunRecorded, AnswerAgrees, Codes, Completed
<1>4. CompletedStays /\ \A q \in Requests \ {r} : Unmoved(q)
  BY DEF Inv, RequestTypes, Refuse, Answer, durableVars, ledgerVars, CompletedStays, Unmoved
<1> QED
  BY <1>1, <1>2, <1>3, <1>4, StepOfOne DEF Refuse, ledgerVars

(* A request goes one stage further when it has passed what that stage asks.    *)
LEMMA AdvanceStep ==
  ASSUME Inv, NEW r \in Requests, stage[r] \notin {"executing", "ended"},
         NEW next \in {"securing", "verifying", "authorizing", "dispatching"},
         Advance(r, next),
         next \in {"authorizing", "dispatching"} => Identified(r),
         next = "dispatching" => Authorized(r)
  PROVE  Inv'
<1>1. Fixed /\ LifecycleInv'
  BY LifecycleStep DEF Inv, Fixed, Advance, lifecycleVars
<1>2. RequestTypes' /\ HoldersHaveRows'
  BY DEF Inv, RequestTypes, HoldersHaveRows, Advance, durableVars, ledgerVars
<1>3. Local(r)'
  BY <1>1, FixedFacts DEF Inv, RequestTypes, Advance, durableVars, ledgerVars, Local,
     Passed, Positioned, Untouched, RaisedAgrees, RunRecorded, AnswerAgrees, Completed
<1>4. CompletedStays /\ \A q \in Requests \ {r} : Unmoved(q)
  BY DEF Inv, RequestTypes, Advance, durableVars, ledgerVars, CompletedStays, Unmoved
<1> QED
  BY <1>1, <1>2, <1>3, <1>4, StepOfOne DEF Advance, ledgerVars

LEMMA ArriveStep == \A r \in Requests : Inv /\ Arrive(r) => Inv'
<1> SUFFICES ASSUME NEW r \in Requests, Inv, Arrive(r) PROVE Inv'
  OBVIOUS
<1> QED
  BY RefuseStep, AdvanceStep DEF Arrive, Codes

LEMMA SecureStep == \A r \in Requests : Inv /\ Secure(r) => Inv'
<1> SUFFICES ASSUME NEW r \in Requests, Inv, Secure(r) PROVE Inv'
  OBVIOUS
<1>1. \/ \E what \in {"invalid_request", "authentication_required",
                      "authentication_service_unavailable"} : Refuse(r, what)
      \/ Advance(r, "authorizing") /\ Identified(r)
      \/ Advance(r, "verifying")
  BY DEF Secure, Identified
<1> QED
  BY <1>1, RefuseStep, AdvanceStep DEF Secure, Codes

LEMMA VerifyStep == \A r \in Requests : Inv /\ Verify(r) => Inv'
<1> SUFFICES ASSUME NEW r \in Requests, Inv, Verify(r) PROVE Inv'
  OBVIOUS
<1>1. \/ \E what \in {"invalid_access_token",
                      "authentication_service_unavailable"} : Refuse(r, what)
      \/ Advance(r, "authorizing") /\ Identified(r)
  BY DEF Verify, Identified
<1> QED
  BY <1>1, RefuseStep, AdvanceStep DEF Verify, Codes

LEMMA AuthorizeStep == \A r \in Requests : Inv /\ Authorize(r) => Inv'
<1> SUFFICES ASSUME NEW r \in Requests, Inv, Authorize(r) PROVE Inv'
  OBVIOUS
<1>1. \/ \E what \in {"authorization_denied", "request_validation_error"} : Refuse(r, what)
      \/ Advance(r, "dispatching") /\ Identified(r) /\ Authorized(r)
  BY DEF Authorize, Inv, Local, Passed
<1> QED
  BY <1>1, RefuseStep, AdvanceStep DEF Authorize, Codes

LEMMA CancelEarlyStep == \A r \in Requests : Inv /\ CancelEarly(r) => Inv'
BY RefuseStep DEF CancelEarly, Codes

(* The gateway takes a request only where its path is permitted.                *)
LEMMA DispatchStep == \A r \in Requests : Inv /\ Dispatch(r) => Inv'
<1> SUFFICES ASSUME NEW r \in Requests, Inv, Dispatch(r) PROVE Inv'
  OBVIOUS
<1>1. CASE Refusal(r) # "none"
  <2>1. /\ Refusal(r) \in Codes
        /\ Refusal(r) \notin {"answered", "executed", "replayed",
                              "response_projection_failed", "application_execution_error"}
    BY <1>1 DEF Refusal, Codes
  <2> QED
    BY <1>1, <2>1, RefuseStep DEF Dispatch
<1>2. CASE Refusal(r) = "none"
  <2>1. Fixed /\ LifecycleInv'
    BY <1>2, LifecycleStep DEF Inv, Fixed, Dispatch, lifecycleVars
  <2>2. Path(r) \in {"direct", "durable", "keyed"}
    BY DEF Path
  <2>3. RequestTypes'
    BY <1>2, <2>2 DEF Inv, RequestTypes, Dispatch, Durable!Begin, ledgerVars
  <2>7. HoldersHaveRows'
    <3>1. rows[r].status = "absent"
      BY <1>2 DEF Inv, Local, Positioned, Untouched, Dispatch, Durable!Begin
    <3> QED
      BY <1>2, <3>1 DEF Inv, RequestTypes, HoldersHaveRows, Dispatch, Durable!Begin,
         ledgerVars
  <2>4. Admissible(r)
    BY <1>2 DEF Refusal, Admissible, Stored
  <2>5. Local(r)'
    BY <1>2, <2>1, <2>4, FixedFacts DEF Inv, RequestTypes, Dispatch, Durable!Begin,
       ledgerVars, Local, Passed, Positioned, Untouched, RaisedAgrees, RunRecorded,
       AnswerAgrees, Completed
  <2>6. CompletedStays /\ \A q \in Requests \ {r} : Unmoved(q)
    BY <1>2 DEF Inv, RequestTypes, Dispatch, Durable!Begin, ledgerVars, CompletedStays,
       Unmoved
  <2> QED
    BY <1>2, <2>1, <2>3, <2>5, <2>6, <2>7, StepOfOne DEF Dispatch, ledgerVars
<1> QED
  BY <1>1, <1>2

-----------------------------------------------------------------------------
(* Execution. *)

(* What is left to show of a step of the execution.                             *)
LEMMA ExecutionStep ==
  ASSUME Inv, NEW r \in Requests, stage[r] = "executing",
         UNCHANGED <<lifecycleVars, input, path>>,
         RequestTypes', HoldersHaveRows', CompletedStays,
         source'[r] # None =>
           source'[r] = source[r] \/ rows'[source'[r]].status = "completed",
         \A q \in Requests \ {r} : Unmoved(q),
         started \subseteq started',
         answer'[r] \in {"none", "cancelled"},
         Positioned(r)', RaisedAgrees(r)', RunRecorded(r)'
  PROVE  Inv'
<1>1. Fixed /\ LifecycleInv'
  BY LifecycleStep DEF Inv, Fixed, lifecycleVars
<1>2. Passed(r)'
  BY <1>1, FixedFacts DEF Inv, Local, Passed
<1>3. AnswerAgrees(r)'
  BY DEF AnswerAgrees
<1> QED
  BY <1>1, <1>2, <1>3, StepOfOne DEF Local

LEMMA HoldersStay ==
  ASSUME Inv, UNCHANGED <<path, holder>>,
         \A q \in Requests : rows[q].status # "absent" => rows'[q].status # "absent"
  PROVE  HoldersHaveRows'
BY DEF Inv, RequestTypes, HoldersHaveRows

(* The common case: one row, and no key.                                        *)
LEMMA RowStep ==
  ASSUME Inv, NEW r \in Requests, stage[r] = "executing",
         UNCHANGED <<lifecycleVars, input, path, ledgerVars>>,
         RequestTypes',
         \A q \in Requests \ {r} :
           /\ rows'[q] = rows[q] /\ stage'[q] = stage[q] /\ answer'[q] = answer[q]
           /\ call'[q] = call[q] /\ raised'[q] = raised[q] /\ result'[q] = result[q],
         rows[r].status # "absent" => rows'[r].status # "absent",
         rows[r].status = "completed" => rows'[r].status = "completed",
         started' \in {started, started \cup {r}},
         answer'[r] \in {"none", "cancelled"},
         Positioned(r)', RaisedAgrees(r)', RunRecorded(r)'
  PROVE  Inv'
<1>1. HoldersHaveRows'
  BY HoldersStay DEF ledgerVars
<1>2. CompletedStays
  BY DEF CompletedStays
<1>3. \A q \in Requests \ {r} : Unmoved(q)
  BY DEF Unmoved, ledgerVars
<1> QED
  BY <1>1, <1>2, <1>3, ExecutionStep DEF ledgerVars

(* Facts about a request whose coordinator has returned.                        *)
LEMMA FinalizedFacts ==
  ASSUME Inv, NEW r \in Requests, call[r] = "finalizing"
  PROVE  /\ result[r] \in Durable!Results
         /\ Durable!FinalizedRow(rows[r], result[r]) \in RowType
         /\ Durable!FinalizedRow(rows[r], result[r]).status =
              (IF result[r] = "failed" THEN "failed" ELSE "completed")
BY Typed, RowTypes DEF Inv, Local, Positioned, Durable!FinalStatus

(* The coordinator of a request that waits for it returns.                      *)
LEMMA ThreadReturnsStep ==
  ASSUME Inv, NEW r \in Requests, stage[r] = "executing", Durable!ThreadReturns(r),
         UNCHANGED <<lifecycleVars, httpVars, ledgerVars>>
  PROVE  Inv'
<1>1. RequestTypes'
  BY DEF Inv, RequestTypes, Durable!ThreadReturns, httpVars, ledgerVars
<1>2. Positioned(r)' /\ RaisedAgrees(r)' /\ RunRecorded(r)' /\ answer'[r] = "none"
  BY DEF Inv, RequestTypes, Local, Positioned, RaisedAgrees, RunRecorded, Untouched,
     Durable!ThreadReturns, httpVars, ledgerVars, lifecycleVars, Stored
<1> QED
  BY <1>1, <1>2, RowStep DEF Inv, RequestTypes, Durable!ThreadReturns, httpVars, ledgerVars

(* Execution without storage.                                                   *)
LEMMA DirectStep ==
  ASSUME Inv, NEW r \in Requests, stage[r] = "executing", Direct(r),
         UNCHANGED <<lifecycleVars, httpVars, ledgerVars>>
  PROVE  Inv'
<1>0. ~Stored
  BY DEF Inv, Local, Passed, Direct, Path, Stored
<1>1. CASE call[r] = "accepting" /\ Durable!StartThread(r)
           /\ UNCHANGED <<rows, result, raised>>
  <2>1. RequestTypes'
    BY <1>1 DEF Inv, RequestTypes, Durable!StartThread, httpVars, ledgerVars
  <2>2. Positioned(r)' /\ RaisedAgrees(r)' /\ RunRecorded(r)' /\ answer'[r] = "none"
    BY <1>0, <1>1 DEF Inv, RequestTypes, Local, Positioned, RaisedAgrees, RunRecorded,
       Untouched, Direct, Durable!StartThread, httpVars, ledgerVars, lifecycleVars, Stored
  <2> QED
    BY <1>1, <2>1, <2>2, RowStep DEF Inv, RequestTypes, Durable!StartThread, httpVars,
       ledgerVars
<1>2. CASE Durable!ThreadReturns(r)
  BY <1>2, ThreadReturnsStep
<1>3. CASE /\ call[r] = "finalizing"
           /\ Durable!Return(r, IF result[r] = "failed" THEN "ApplicationExecutionError"
                                                         ELSE "ApplicationResult")
           /\ UNCHANGED <<rows, result, threads, started>>
  <2>1. RequestTypes'
    BY <1>3 DEF Inv, RequestTypes, Exceptions, Durable!Return, httpVars, ledgerVars
  <2>2. Positioned(r)' /\ RaisedAgrees(r)' /\ RunRecorded(r)' /\ answer'[r] = "none"
    BY <1>0, <1>3 DEF Inv, RequestTypes, Local, Positioned, RaisedAgrees, RunRecorded,
       Untouched, Direct, Durable!Return, httpVars, ledgerVars, lifecycleVars, Stored
  <2> QED
    BY <1>3, <2>1, <2>2, RowStep DEF Inv, RequestTypes, Durable!Return, httpVars, ledgerVars
<1> QED
  BY <1>1, <1>2, <1>3 DEF Direct

(* What a call ends as, if not as a replay.                                     *)
Endings == {"ApplicationResult", "CancelledError"} \cup Exceptions

LEMMA EndingFacts ==
  /\ "ApplicationResult" \in Endings /\ "CancelledError" \in Endings
  /\ "RequestInitializationError" \in Endings /\ "PersistenceFinalizationError" \in Endings
  /\ "DurableApplicationExecutionError" \in Endings
BY DEF Endings, Exceptions

(* A call that returns or raises, on any path.                                  *)
LEMMA ReturnStep ==
  ASSUME Inv, NEW r \in Requests, stage[r] = "executing",
         UNCHANGED <<lifecycleVars, input, path, ledgerVars>>,
         UNCHANGED <<result, threads, started>>,
         NEW what \in Endings,
         Durable!Return(r, what),
         NEW row \in RowType, rows' = [rows EXCEPT ![r] = row],
         rows[r].status # "absent" => row.status # "absent",
         rows[r].status = "completed" => row.status = "completed",
         what = "CancelledError" => Answer(r, "cancelled"),
         what # "CancelledError" => UNCHANGED <<stage, answer>>,
         what = "ApplicationResult" => r \in started /\ (Stored => row.status = "completed"),
         what = "ApplicationExecutionError" => r \in started /\ ~Stored,
         what = "DurableApplicationExecutionError" => r \in started /\ row.status = "failed",
         what \in {"FingerprintVersionError", "InvalidIdempotencyStateError",
                   "UnsupportedReplaySnapshotVersionError", "IN_PROGRESS",
                   "CONFLICT", "PREVIOUS_FAILURE"} =>
           r \notin started /\ row.status = "absent" /\ source[r] = None
  PROVE  Inv'
<1>1. RequestTypes'
  BY DEF Inv, RequestTypes, Durable!Return, Answer, ledgerVars, Codes, Endings
<1>2. answer[r] = "none" /\ (r \in started /\ Stored => rows[r].status # "absent")
  BY DEF Inv, Local, Positioned, RunRecorded
<1>3. /\ call'[r] = "over" /\ raised'[r] = what /\ rows'[r] = row /\ source'[r] = source[r]
      /\ stage'[r] = (IF what = "CancelledError" THEN "ended" ELSE "executing")
      /\ answer'[r] = (IF what = "CancelledError" THEN "cancelled" ELSE "none")
  BY <1>2 DEF Inv, RequestTypes, Durable!Return, Answer, ledgerVars
<1>4. Stored' = Stored
  BY DEF Stored, lifecycleVars
<1>5. Positioned(r)'
  BY <1>3 DEF Positioned
<1>6. RaisedAgrees(r)'
  BY <1>3, <1>4 DEF RaisedAgrees, Untouched, Completed, Endings, Exceptions
<1>7. RunRecorded(r)'
  BY <1>2, <1>3, <1>4 DEF RunRecorded
<1>8. \A q \in Requests \ {r} :
        /\ rows'[q] = rows[q] /\ stage'[q] = stage[q] /\ answer'[q] = answer[q]
        /\ call'[q] = call[q] /\ raised'[q] = raised[q] /\ result'[q] = result[q]
  BY DEF Inv, RequestTypes, Durable!Return, Answer
<1> QED
  BY <1>1, <1>3, <1>5, <1>6, <1>7, <1>8, RowStep

(* With storage and no key.                                                     *)
LEMMA DurablyStep ==
  ASSUME Inv, NEW r \in Requests, stage[r] = "executing", Durably(r),
         UNCHANGED <<lifecycleVars, httpVars, ledgerVars>>
  PROVE  Inv'
<1>0. rows[r] \in RowType /\ rows = [rows EXCEPT ![r] = rows[r]]
  BY DEF Inv, RequestTypes
<1>1. CASE Durable!AcceptRequest(r)
  <2>1. Untouched(r)
    BY <1>1 DEF Inv, Local, Positioned, Durable!AcceptRequest
  <2>2. RequestTypes'
    BY <1>1, RowTypes DEF Inv, RequestTypes, Durable!AcceptRequest, Durable!StartThread,
       httpVars, ledgerVars
  <2>3. rows'[r].status = "in_progress"
    BY <1>1 DEF Inv, RequestTypes, Durable!AcceptRequest, Durable!AcceptedRow
  <2>4. Positioned(r)' /\ RaisedAgrees(r)' /\ RunRecorded(r)' /\ answer'[r] = "none"
    BY <1>1, <2>1, <2>3 DEF Inv, RequestTypes, Local, Positioned, RaisedAgrees,
       RunRecorded, Untouched, Durably, Durable!AcceptRequest, Durable!StartThread,
       httpVars, ledgerVars, lifecycleVars, Stored
  <2> QED
    BY <1>1, <2>1, <2>2, <2>3, <2>4, RowStep DEF Inv, RequestTypes, Untouched,
       Durable!AcceptRequest, Durable!StartThread, httpVars, ledgerVars
<1>2. CASE Durable!AcceptRequestFails(r)
  <2>1. Untouched(r)
    BY <1>2 DEF Inv, Local, Positioned, Durable!AcceptRequestFails
  <2>2. PICK row \in {rows[r], Durable!AcceptedRow} : rows' = [rows EXCEPT ![r] = row]
    BY <1>0, <1>2 DEF Durable!AcceptRequestFails
  <2>3. row \in RowType /\ rows[r].status = "absent"
    BY <1>0, <2>1, <2>2, RowTypes DEF Untouched
  <2>4. /\ Durable!Return(r, "RequestInitializationError")
        /\ UNCHANGED <<result, threads, started>> /\ UNCHANGED <<input, path, stage, answer>>
    BY <1>2 DEF Durable!AcceptRequestFails, httpVars
  <2> QED
    BY <2>2, <2>3, <2>4, EndingFacts, ReturnStep
<1>3. CASE Durable!ThreadReturns(r)
  BY <1>3, ThreadReturnsStep
<1>4. CASE Durable!Finalize(r)
  <2>1. r \in started /\ rows[r].status = "in_progress"
    BY <1>4 DEF Inv, Local, Positioned, Durably, Durable!Finalize
  <2>2. Durable!Outcome(result[r]) = IF result[r] = "failed"
          THEN "DurableApplicationExecutionError" ELSE "ApplicationResult"
    BY DEF Durable!Outcome
  <2>3. call[r] = "finalizing"
    BY <1>4 DEF Durable!Finalize
  <2> QED
    BY <1>4, <2>1, <2>2, <2>3, FinalizedFacts, EndingFacts, ReturnStep
       DEF Durable!Finalize, httpVars
<1>5. CASE Durable!FinalizeFails(r)
  <2>1. rows[r].status = "in_progress" /\ call[r] = "finalizing"
    BY <1>5 DEF Inv, Local, Positioned, Durably, Durable!FinalizeFails
  <2>2. PICK row \in {rows[r], Durable!FinalizedRow(rows[r], result[r])} :
               rows' = [rows EXCEPT ![r] = row]
    BY <1>0, <1>5 DEF Durable!FinalizeFails
  <2>3. row \in RowType /\ row.status # "absent"
    BY <1>0, <2>1, <2>2, FinalizedFacts
  <2>4. /\ Durable!Return(r, "PersistenceFinalizationError")
        /\ UNCHANGED <<result, threads, started>> /\ UNCHANGED <<input, path, stage, answer>>
    BY <1>5 DEF Durable!FinalizeFails, httpVars
  <2> QED
    BY <2>1, <2>2, <2>3, <2>4, EndingFacts, ReturnStep
<1> QED
  BY <1>1, <1>2, <1>3, <1>4, <1>5 DEF Durably

-----------------------------------------------------------------------------
(* Execution under a key. *)

Accepting(r) == stage[r] = "executing" /\ path[r] = "keyed" /\ call[r] = "accepting"

LEMMA AcceptingFacts ==
  ASSUME Inv, NEW r \in Requests, Accepting(r)
  PROVE  /\ Untouched(r) /\ Stored /\ answer[r] = "none"
         /\ KeyScope(r) \in KeyScopes
         /\ Holder(r) \in Requests \cup {None}
         /\ Holder(r) # None => path[Holder(r)] = "keyed" /\ rows[Holder(r)].status # "absent"
<1>1. Untouched(r) /\ answer[r] = "none"
  BY DEF Inv, Local, Positioned, Accepting
<1>2. Keyed(r) /\ Stored /\ input[r].key \notin {"malformed", "long"}
  BY DEF Inv, Local, Passed, Admissible, Path, Accepting
<1>3. input[r] \in Input
  BY DEF Inv, RequestTypes
<1>4. input[r].key \in Keys
  BY <1>2, <1>3 DEF Input, Keyed
<1>5. input[r].user \in Users /\ input[r].operation \in Operations
  BY <1>3 DEF Input
<1>6. Principal(r).user \in Users \cup {"local_api_user"}
  BY <1>5 DEF Principal, DemoPrincipal
<1>7. KeyScope(r) \in KeyScopes
  BY <1>4, <1>5, <1>6 DEF KeyScope, KeyScopes
<1>8. Holder(r) \in Requests \cup {None}
  BY <1>7 DEF Inv, RequestTypes, Holder
<1> QED
  BY <1>1, <1>2, <1>7, <1>8 DEF Inv, HoldersHaveRows, Holder

(* What a claim does to the tables.                                             *)
LEMMA ClaimedFacts ==
  ASSUME Inv, NEW r \in Requests, Accepting(r), Claimed(r), UNCHANGED path
  PROVE  /\ rows' \in [Requests -> RowType]
         /\ holder' \in [KeyScopes -> Requests \cup {None}]
         /\ rows'[r].status = "in_progress"
         /\ \A q \in Requests \ {r} :
              rows'[q] = rows[q] \/ ( /\ path[q] = "keyed"
                                      /\ rows[q].status = "in_progress"
                                      /\ rows'[q].status = "failed" )
         /\ CompletedStays
         /\ HoldersHaveRows'
<1>1. ASSUME NEW q \in Requests
      PROVE  /\ Durable!FinalizedRow(rows[q], "failed") \in RowType
             /\ Durable!FinalizedRow(rows[q], "failed").status = "failed"
  BY Typed, RowTypes DEF Durable!FinalStatus, Durable!Results
<1>2. rows' \in [Requests -> RowType]
  BY <1>1, Typed, RowTypes DEF Claimed
<1>3. holder' \in [KeyScopes -> Requests \cup {None}]
  BY DEF Inv, RequestTypes, Claimed
<1>4. rows'[r].status = "in_progress"
  BY DEF Claimed, Durable!AcceptedRow
<1>5. ASSUME NEW q \in Requests, q # r
      PROVE  rows'[q] = rows[q] \/ ( /\ path[q] = "keyed"
                                     /\ rows[q].status = "in_progress"
                                     /\ rows'[q].status = "failed" )
  BY <1>1, <1>5, AcceptingFacts, InputsAssumption DEF Claimed
<1>6. CompletedStays
  <2>1. rows[r].status = "absent"
    BY AcceptingFacts DEF Untouched
  <2> QED
    BY <2>1, <1>5 DEF CompletedStays
<1>7. HoldersHaveRows'
  <2>1. ASSUME NEW s \in KeyScopes, holder'[s] # None
        PROVE  path'[holder'[s]] = "keyed" /\ rows'[holder'[s]].status # "absent"
    <3>1. CASE holder'[s] = r
      BY <3>1, <1>4 DEF Accepting
    <3>2. CASE holder'[s] # r
      <4>1. holder'[s] = holder[s] /\ holder[s] \in Requests
        BY <2>1, <3>2 DEF Inv, RequestTypes, Claimed
      <4>2. path[holder[s]] = "keyed" /\ rows[holder[s]].status # "absent"
        BY <2>1, <4>1 DEF Inv, HoldersHaveRows
      <4> QED
        BY <3>2, <4>1, <4>2, <1>5
    <3> QED
      BY <3>1, <3>2
  <2> QED
    BY <2>1 DEF HoldersHaveRows
<1> QED
  BY <1>2, <1>3, <1>4, <1>5, <1>6, <1>7

(* What a replay does to them.                                                  *)
LEMMA ReplayedFacts ==
  ASSUME Inv, NEW r \in Requests, Accepting(r), Replayed(r), UNCHANGED path
  PROVE  /\ rows' \in [Requests -> RowType]
         /\ holder' = holder
         /\ source' \in [Requests -> Requests \cup {None}]
         /\ rows'[r].status = "completed"
         /\ source'[r] # None
         /\ rows'[source'[r]].status = "completed"
         /\ \A q \in Requests \ {r} : rows'[q] = rows[q] /\ source'[q] = source[q]
         /\ CompletedStays
         /\ HoldersHaveRows'
<1>1. Holder(r) \in Requests /\ rows[Holder(r)].status = "completed" /\ Holder(r) # None
  BY AcceptingFacts DEF Replayed
<1>2. rows' \in [Requests -> RowType]
  BY RowTypes DEF Inv, RequestTypes, Replayed
<1>3. /\ source' \in [Requests -> Requests \cup {None}]
      /\ source'[r] = Holder(r)
  BY <1>1 DEF Inv, RequestTypes, Replayed
<1>4. rows'[r].status = "completed"
  BY DEF Inv, RequestTypes, Replayed, ReplayedRow
<1>5. \A q \in Requests \ {r} : rows'[q] = rows[q] /\ source'[q] = source[q]
  BY DEF Inv, RequestTypes, Replayed
<1>6. CompletedStays
  BY <1>4, <1>5 DEF CompletedStays
<1>7. rows'[source'[r]].status = "completed"
  BY <1>1, <1>3, <1>4, <1>5
<1>8. HoldersHaveRows'
  BY <1>4, <1>5, HoldersStay DEF Replayed
<1> QED
  BY <1>1, <1>2, <1>3, <1>4, <1>5, <1>6, <1>7, <1>8 DEF Replayed

(* Tx A has committed, and the call ends all the same.                          *)
LEMMA KeyedReturn ==
  ASSUME Inv, NEW r \in Requests, Accepting(r),
         UNCHANGED <<lifecycleVars, input, path>>,
         UNCHANGED <<result, threads, started>>,
         \/ Claimed(r) /\ UNCHANGED source
         \/ Replayed(r),
         NEW what \in {"RequestInitializationError", "CancelledError", "REPLAYED"},
         Durable!Return(r, what),
         what = "REPLAYED" => Replayed(r),
         what = "CancelledError" => Answer(r, "cancelled"),
         what # "CancelledError" => UNCHANGED <<stage, answer>>
  PROVE  Inv'
<1>1. /\ rows' \in [Requests -> RowType]
      /\ holder' \in [KeyScopes -> Requests \cup {None}]
      /\ source' \in [Requests -> Requests \cup {None}]
      /\ CompletedStays /\ HoldersHaveRows'
  BY ClaimedFacts, ReplayedFacts DEF Inv, RequestTypes
<1>2. RequestTypes'
  BY <1>1 DEF Inv, RequestTypes, Durable!Return, Answer, Codes, Exceptions
<1>3. r \notin started /\ Stored /\ answer[r] = "none"
  BY AcceptingFacts DEF Untouched
<1>4. /\ call'[r] = "over" /\ raised'[r] = what
      /\ stage'[r] = (IF what = "CancelledError" THEN "ended" ELSE "executing")
      /\ answer'[r] = (IF what = "CancelledError" THEN "cancelled" ELSE "none")
  BY <1>3 DEF Inv, RequestTypes, Durable!Return, Answer, Accepting
<1>5. what = "REPLAYED" => rows'[r].status = "completed" /\ source'[r] # None
  BY ReplayedFacts
<1>6. source'[r] # None =>
        source'[r] = source[r] \/ rows'[source'[r]].status = "completed"
  BY ReplayedFacts
<1>7. Stored'
  BY <1>3 DEF Stored, lifecycleVars
<1>8. Positioned(r)' /\ RaisedAgrees(r)' /\ RunRecorded(r)'
  BY <1>3, <1>4, <1>5, <1>7 DEF Positioned, RaisedAgrees, RunRecorded, Completed
<1>9. ASSUME NEW q \in Requests \ {r} PROVE Unmoved(q)
  <2>1. /\ stage'[q] = stage[q] /\ answer'[q] = answer[q] /\ call'[q] = call[q]
        /\ raised'[q] = raised[q]
    BY DEF Inv, RequestTypes, Durable!Return, Answer
  <2>2. source'[q] = source[q]
    BY ReplayedFacts
  <2>3. rows'[q] = rows[q] \/ ( /\ path[q] = "keyed"
                                /\ rows[q].status = "in_progress"
                                /\ rows'[q].status = "failed" )
    BY ClaimedFacts, ReplayedFacts
  <2> QED
    BY <2>1, <2>2, <2>3 DEF Unmoved
<1> QED
  BY <1>1, <1>2, <1>4, <1>6, <1>8, <1>9, ExecutionStep DEF Accepting

(* The key is claimed and the coordinator starts.                               *)
LEMMA ClaimStep ==
  ASSUME Inv, NEW r \in Requests, Accepting(r), Claim(r),
         UNCHANGED <<lifecycleVars, httpVars>>
  PROVE  Inv'
<1>1. /\ rows' \in [Requests -> RowType]
      /\ holder' \in [KeyScopes -> Requests \cup {None}]
      /\ rows'[r].status = "in_progress"
      /\ CompletedStays /\ HoldersHaveRows'
  BY ClaimedFacts DEF Claim, httpVars
<1>2. RequestTypes'
  BY <1>1 DEF Inv, RequestTypes, Claim, Durable!StartThread, httpVars
<1>3. Untouched(r) /\ Stored /\ answer[r] = "none"
  BY AcceptingFacts
<1>4. call'[r] = "running" /\ r \in started' /\ raised'[r] = raised[r] /\ result'[r] = result[r]
  BY DEF Inv, RequestTypes, Claim, Durable!StartThread
<1>5. raised[r] = "none" /\ source'[r] = None /\ path'[r] = "keyed" /\ stage'[r] = "executing"
      /\ answer'[r] = "none"
  BY <1>3 DEF Inv, Local, Positioned, Untouched, Accepting, Claim, httpVars
<1>6. Positioned(r)' /\ RaisedAgrees(r)' /\ RunRecorded(r)'
  BY <1>1, <1>4, <1>5 DEF Positioned, RaisedAgrees, RunRecorded
<1>7. ASSUME NEW q \in Requests \ {r} PROVE Unmoved(q)
  <2>1. call'[q] = call[q] /\ (q \in started' <=> q \in started)
    BY DEF Inv, RequestTypes, Claim, Durable!StartThread
  <2>2. rows'[q] = rows[q] \/ ( /\ path[q] = "keyed"
                                /\ rows[q].status = "in_progress"
                                /\ rows'[q].status = "failed" )
    BY ClaimedFacts DEF Claim, httpVars
  <2> QED
    BY <2>1, <2>2 DEF Unmoved, Claim, httpVars
<1>8. started \subseteq started'
  BY DEF Claim, Durable!StartThread
<1> QED
  BY <1>1, <1>2, <1>5, <1>6, <1>7, <1>8, ExecutionStep DEF Accepting, Claim, httpVars

LEMMA DecisionEndings ==
  ASSUME NEW r \in Requests, NEW what \in Decisions(r)
  PROVE  /\ what \in Endings
         /\ what \in {"FingerprintVersionError", "InvalidIdempotencyStateError",
                      "UnsupportedReplaySnapshotVersionError", "IN_PROGRESS",
                      "CONFLICT", "PREVIOUS_FAILURE"}
BY DEF Decisions, Endings, Exceptions

LEMMA DecideStep ==
  ASSUME Inv, NEW r \in Requests, Accepting(r), DecideOtherwise(r),
         UNCHANGED <<lifecycleVars, httpVars>>
  PROVE  Inv'
<1>1. rows[r] \in RowType /\ rows = [rows EXCEPT ![r] = rows[r]]
  BY DEF Inv, RequestTypes
<1>2. r \notin started /\ rows[r].status = "absent" /\ source[r] = None
  BY AcceptingFacts DEF Untouched
<1>3. PICK what \in Decisions(r) : Durable!Return(r, what)
  BY DEF DecideOtherwise
<1>4. /\ what \in Endings
      /\ what \in {"FingerprintVersionError", "InvalidIdempotencyStateError",
                   "UnsupportedReplaySnapshotVersionError", "IN_PROGRESS",
                   "CONFLICT", "PREVIOUS_FAILURE"}
  BY <1>3, DecisionEndings
<1>5. rows' = [rows EXCEPT ![r] = rows[r]] /\ UNCHANGED <<result, threads, started, ledgerVars>>
  BY <1>1 DEF DecideOtherwise
<1> QED
  BY <1>1, <1>2, <1>3, <1>4, <1>5, ReturnStep DEF Accepting, httpVars

(* An owner that still holds its key closes its row.                            *)
LEMMA CloseEntryFacts ==
  ASSUME Inv, NEW r \in Requests, stage[r] = "executing", path[r] = "keyed",
         call[r] = "finalizing", CloseEntry(r) \/ UNCHANGED rows
  PROVE  \E row \in RowType :
           /\ rows' = [rows EXCEPT ![r] = row]
           /\ rows[r].status # "completed"
           /\ row.status # "absent"
           /\ CloseEntry(r) =>
                row.status = IF result[r] = "failed" THEN "failed" ELSE "completed"
<1>1. rows[r] \in RowType /\ rows[r].status \in {"in_progress", "failed"}
  BY Typed DEF Inv, Local, Positioned
<1>2. CASE CloseEntry(r)
  BY <1>1, <1>2, FinalizedFacts DEF CloseEntry
<1>3. CASE ~CloseEntry(r)
  <2>1. rows' = [rows EXCEPT ![r] = rows[r]]
    BY <1>3 DEF Inv, RequestTypes
  <2> QED
    BY <1>1, <1>3, <2>1
<1> QED
  BY <1>2, <1>3

LEMMA FinalizeKeyedStep ==
  ASSUME Inv, NEW r \in Requests, stage[r] = "executing", path[r] = "keyed",
         FinalizeKeyed(r), UNCHANGED <<lifecycleVars, httpVars>>
  PROVE  Inv'
<1>1. call[r] = "finalizing" /\ (CloseEntry(r) \/ UNCHANGED rows)
      /\ UNCHANGED <<result, threads, started>> /\ UNCHANGED <<input, path, stage, answer>>
      /\ UNCHANGED ledgerVars
  BY DEF FinalizeKeyed, httpVars
<1>2. PICK row \in RowType :
        /\ rows' = [rows EXCEPT ![r] = row]
        /\ rows[r].status # "completed"
        /\ row.status # "absent"
        /\ CloseEntry(r) => row.status = IF result[r] = "failed" THEN "failed" ELSE "completed"
  BY <1>1, CloseEntryFacts
<1>3. r \in started
  BY <1>1 DEF Inv, Local, Positioned
<1>4. CASE CloseEntry(r) /\ Durable!Return(r, Durable!Outcome(result[r]))
  <2>1. Durable!Outcome(result[r]) = IF result[r] = "failed"
          THEN "DurableApplicationExecutionError" ELSE "ApplicationResult"
    BY DEF Durable!Outcome
  <2> QED
    BY <1>1, <1>2, <1>3, <1>4, <2>1, EndingFacts, ReturnStep
<1>5. CASE Durable!Return(r, "PersistenceFinalizationError")
  BY <1>1, <1>2, <1>3, <1>5, EndingFacts, ReturnStep
<1> QED
  BY <1>4, <1>5 DEF FinalizeKeyed

LEMMA UnderKeyStep ==
  ASSUME Inv, NEW r \in Requests, stage[r] = "executing", UnderKey(r),
         UNCHANGED <<lifecycleVars, httpVars>>
  PROVE  Inv'
<1>0. path[r] = "keyed" /\ (call[r] = "accepting" => Accepting(r))
  BY DEF UnderKey, Accepting
<1>1. CASE Claim(r)
  BY <1>0, <1>1, ClaimStep DEF Claim
<1>2. CASE Replay(r)
  BY <1>0, <1>2, KeyedReturn DEF Replay, httpVars
<1>3. CASE DecideOtherwise(r)
  BY <1>0, <1>3, DecideStep DEF DecideOtherwise
<1>4. CASE ClaimFails(r)
  <2>1. Accepting(r) /\ Durable!Return(r, "RequestInitializationError")
        /\ UNCHANGED <<result, threads, started>> /\ UNCHANGED <<input, path, stage, answer>>
    BY <1>0, <1>4 DEF ClaimFails, httpVars
  <2>2. CASE UNCHANGED <<rows, ledgerVars>>
    <3>1. rows[r] \in RowType /\ rows' = [rows EXCEPT ![r] = rows[r]]
      BY <2>2 DEF Inv, RequestTypes
    <3>2. UNCHANGED ledgerVars
      BY <2>2
    <3>3. UNCHANGED <<lifecycleVars, input, path, ledgerVars>>
      BY <2>1, <3>2
    <3> QED
      BY <2>1, <3>1, <3>2, <3>3, EndingFacts, ReturnStep
  <2>3. CASE (Claimed(r) /\ UNCHANGED source) \/ Replayed(r)
    BY <2>1, <2>3, KeyedReturn
  <2> QED
    BY <1>4, <2>2, <2>3 DEF ClaimFails
<1>5. CASE Durable!ThreadReturns(r) /\ UNCHANGED ledgerVars
  BY <1>5, ThreadReturnsStep
<1>6. CASE FinalizeKeyed(r)
  BY <1>0, <1>6, FinalizeKeyedStep
<1> QED
  BY <1>1, <1>2, <1>3, <1>4, <1>5, <1>6 DEF UnderKey

LEMMA ExecuteStep == \A r \in Requests : Inv /\ Execute(r) => Inv'
BY DirectStep, DurablyStep, UnderKeyStep DEF Execute

(* The client goes away: whatever was being committed may have been.            *)
LEMMA CancelStep == \A r \in Requests : Inv /\ CancelExecution(r) => Inv'
<1> SUFFICES ASSUME NEW r \in Requests, Inv, CancelExecution(r) PROVE Inv'
  OBVIOUS
<1>1. /\ stage[r] = "executing" /\ Answer(r, "cancelled")
      /\ UNCHANGED <<lifecycleVars, input, path>>
  BY DEF CancelExecution
<1>2. rows[r] \in RowType /\ rows = [rows EXCEPT ![r] = rows[r]]
  BY DEF Inv, RequestTypes
<1>3. CASE path[r] = "durable" /\ Durable!Cancel(r) /\ UNCHANGED ledgerVars
  <2>1. Durable!Return(r, "CancelledError") /\ UNCHANGED <<result, threads, started>>
    BY <1>3 DEF Durable!Cancel
  <2>2. \E row \in RowType :
          /\ rows' = [rows EXCEPT ![r] = row]
          /\ rows[r].status # "absent" => row.status # "absent"
          /\ rows[r].status = "completed" => row.status = "completed"
    <3>1. CASE call[r] = "accepting"
      <4>1. rows[r].status = "absent"
        BY <3>1 DEF Inv, Local, Positioned, Untouched
      <4>2. rows' \in {rows, [rows EXCEPT ![r] = Durable!AcceptedRow]}
        BY <1>3, <3>1 DEF Durable!Cancel
      <4> QED
        BY <1>2, <4>1, <4>2, RowTypes
    <3>2. CASE call[r] = "running"
      BY <1>2, <1>3, <3>2 DEF Durable!Cancel
    <3>3. CASE call[r] = "finalizing"
      <4>1. rows[r].status = "in_progress"
        BY <1>3, <3>3 DEF Inv, Local, Positioned
      <4>2. rows' \in {rows, [rows EXCEPT ![r] = Durable!FinalizedRow(rows[r], result[r])]}
        BY <1>3, <3>3 DEF Durable!Cancel
      <4> QED
        BY <1>2, <3>3, <4>1, <4>2, FinalizedFacts
    <3> QED
      BY <1>3, <3>1, <3>2, <3>3 DEF Durable!Cancel
  <2>3. PICK row \in RowType :
          /\ rows' = [rows EXCEPT ![r] = row]
          /\ rows[r].status # "absent" => row.status # "absent"
          /\ rows[r].status = "completed" => row.status = "completed"
    BY <2>2
  <2> QED
    BY <1>1, <1>3, <2>1, <2>3, EndingFacts, ReturnStep
<1>4. CASE /\ Durable!Return(r, "CancelledError")
           /\ UNCHANGED <<rows, result, threads, started, ledgerVars>>
  <2>1. rows' = [rows EXCEPT ![r] = rows[r]]
    BY <1>2, <1>4
  <2> QED
    BY <1>1, <1>2, <1>4, <2>1, EndingFacts, ReturnStep
<1>5. CASE /\ path[r] = "keyed"
           /\ \/ call[r] = "accepting" /\ Claimed(r) /\ UNCHANGED source
              \/ call[r] = "accepting" /\ Replayed(r)
              \/ call[r] = "finalizing" /\ CloseEntry(r) /\ UNCHANGED ledgerVars
              \/ call[r] \in {"accepting", "finalizing"} /\ UNCHANGED <<rows, ledgerVars>>
           /\ Durable!Return(r, "CancelledError")
           /\ UNCHANGED <<result, threads, started>>
  <2>1. CASE call[r] = "accepting" /\ ((Claimed(r) /\ UNCHANGED source) \/ Replayed(r))
    BY <1>1, <1>5, <2>1, KeyedReturn DEF Accepting
  <2>2. CASE call[r] = "finalizing" /\ CloseEntry(r) /\ UNCHANGED ledgerVars
    <3>1. PICK row \in RowType :
            /\ rows' = [rows EXCEPT ![r] = row]
            /\ rows[r].status # "completed"
            /\ row.status # "absent"
      BY <1>1, <1>5, <2>2, CloseEntryFacts
    <3>2. Durable!Return(r, "CancelledError") /\ UNCHANGED <<result, threads, started>>
          /\ UNCHANGED ledgerVars
      BY <1>5, <2>2
    <3> QED
      BY <1>1, <3>1, <3>2, EndingFacts, ReturnStep
  <2>3. CASE UNCHANGED <<rows, ledgerVars>>
    BY <1>4, <1>5, <2>3
  <2> QED
    BY <1>5, <2>1, <2>2, <2>3
<1> QED
  BY <1>3, <1>4, <1>5 DEF CancelExecution

(* The answer to what a call returned or raised.                                *)
LEMMA RespondStep == \A r \in Requests : Inv /\ Respond(r) => Inv'
<1> SUFFICES ASSUME NEW r \in Requests, Inv, Respond(r) PROVE Inv'
  OBVIOUS
<1>1. Fixed /\ LifecycleInv'
  BY LifecycleStep DEF Inv, Fixed, Respond, lifecycleVars
<1>2. PICK what \in Codes : Answer(r, what) /\ what \in (
        IF raised[r] \in {"ApplicationResult", "REPLAYED"}
        THEN {Status(r), "response_projection_failed"} ELSE {Handler(raised[r])} )
  <2>1. CASE raised[r] \in {"ApplicationResult", "REPLAYED"}
    BY <2>1 DEF Respond, Status, Codes
  <2>2. CASE raised[r] \notin {"ApplicationResult", "REPLAYED"}
    <3>1. raised[r] \in Exceptions
      BY <2>2 DEF Inv, RequestTypes, Local, Positioned, RaisedAgrees, Respond
    <3> QED
      BY <2>2, <3>1, HandlerType DEF Respond
  <2> QED
    BY <2>1, <2>2
<1>3. RequestTypes' /\ HoldersHaveRows'
  BY <1>2 DEF Inv, RequestTypes, HoldersHaveRows, Respond, Answer, durableVars, ledgerVars
<1>4. /\ stage'[r] = "ended" /\ answer'[r] = what
      /\ UNCHANGED <<rows, call, raised, result, started, threads, path, source>>
  BY <1>2 DEF Inv, RequestTypes, Respond, Answer, durableVars, ledgerVars
<1>5. Passed(r)'
  BY <1>1, <1>4, FixedFacts DEF Inv, Local, Passed, Respond
<1>6. Positioned(r)'
  BY <1>2, <1>4 DEF Inv, Local, Positioned, Untouched, Respond, Codes
<1>7. RaisedAgrees(r)' /\ RunRecorded(r)'
  BY <1>1, <1>4, FixedFacts DEF Inv, Local, RaisedAgrees, RunRecorded, Untouched, Completed
<1>8. AnswerAgrees(r)'
  <2>1. Stored' = Stored /\ Keyed(r)' = Keyed(r)
    BY <1>1, FixedFacts
  <2>5. Admissible(r) /\ path[r] = Path(r)
    BY DEF Inv, Local, Passed, Respond
  <2>6. (Keyed(r) => Stored) /\ (path[r] = "keyed" <=> Keyed(r))
    BY <2>5 DEF Admissible, Path, Keyed, Stored
  <2>2. RaisedAgrees(r) /\ call[r] = "over"
    BY DEF Inv, Local, Respond
  <2>3. CASE raised[r] \in {"ApplicationResult", "REPLAYED"}
    <3>1. raised[r] = "REPLAYED" => rows[source[r]].status = "completed"
      BY <2>2 DEF Inv, SourcesAreCompleted, Completed, RaisedAgrees
    <3>2. what \in {Status(r), "response_projection_failed"}
      BY <1>2, <2>3
    <3>3. raised[r] = "ApplicationResult" => r \in started /\ (Stored => rows[r].status = "completed")
      BY <2>2 DEF RaisedAgrees, Completed
    <3>4. raised[r] = "REPLAYED" =>
            r \notin started /\ Stored /\ rows[r].status = "completed" /\ source[r] # None
      BY <2>2 DEF RaisedAgrees, Completed
    <3>5. CASE what = "response_projection_failed"
      BY <1>4, <2>1, <2>3, <3>3, <3>4, <3>5 DEF AnswerAgrees, Completed
    <3>6. CASE what = "replayed"
      BY <1>4, <2>3, <3>1, <3>2, <3>4, <3>6 DEF AnswerAgrees, Completed, Status
    <3>7. CASE what = "executed"
      <4>1. raised[r] = "ApplicationResult" /\ path[r] = "keyed"
        BY <2>3, <3>2, <3>7 DEF Status
      <4>2. Keyed(r) /\ Keyed(r)'
        BY <1>1, <2>6, <4>1 DEF Keyed, Fixed
      <4> QED
        BY <1>4, <2>6, <3>3, <3>7, <4>1, <4>2 DEF AnswerAgrees, Completed
    <3>8. CASE what = "answered"
      BY <1>4, <2>1, <2>3, <2>6, <3>2, <3>3, <3>8 DEF AnswerAgrees, Completed, Status
    <3> QED
      BY <3>2, <3>5, <3>6, <3>7, <3>8 DEF Status
  <2>4. CASE raised[r] \notin {"ApplicationResult", "REPLAYED"}
    <3>1. raised[r] \in Exceptions /\ what = Handler(raised[r])
      BY <1>2, <2>2, <2>4 DEF Inv, RequestTypes, RaisedAgrees, Respond
    <3>2. what \in {"persistence_unavailable", "application_execution_error"} \/ Untouched(r)
      BY <2>2, <3>1 DEF RaisedAgrees, Handler, Exceptions
    <3>3. what = "application_execution_error" =>
            r \in started /\ (Stored => rows[r].status = "failed")
      BY <2>2, <3>1 DEF RaisedAgrees, Handler, Exceptions
    <3>4. what \notin {"none", "answered", "executed", "replayed", "cancelled",
                       "response_projection_failed"}
      BY <3>1 DEF Handler, Exceptions
    <3> QED
      BY <1>4, <2>1, <3>2, <3>3, <3>4 DEF AnswerAgrees, Untouched
  <2> QED
    BY <2>3, <2>4
<1>9. CompletedStays /\ \A q \in Requests \ {r} : Unmoved(q)
  BY <1>2, <1>4 DEF Inv, RequestTypes, Respond, Answer, CompletedStays, Unmoved
<1> QED
  BY <1>1, <1>3, <1>4, <1>5, <1>6, <1>7, <1>8, <1>9, StepOfOne DEF Local

-----------------------------------------------------------------------------
(* The steps of nobody in particular. *)

LEMMA AbandonedThreadStep == \A r \in Requests : Inv /\ AbandonedThread(r) => Inv'
<1> SUFFICES ASSUME NEW r \in Requests, Inv, AbandonedThread(r) PROVE Inv'
  OBVIOUS
<1>1. Fixed /\ LifecycleInv'
  BY LifecycleStep DEF Inv, Fixed, AbandonedThread, lifecycleVars, httpVars
<1>2. /\ UNCHANGED <<rows, call, result, raised, started>>
      /\ UNCHANGED <<input, stage, path, answer, holder, source>>
      /\ threads' \subseteq threads
  BY DEF AbandonedThread, Durable!AbandonedThreadReturns, httpVars, ledgerVars
<1>3. RequestTypes' /\ HoldersHaveRows' /\ SourcesAreCompleted'
  BY <1>2 DEF Inv, RequestTypes, HoldersHaveRows, SourcesAreCompleted, Completed
<1>4. CompletedStays /\ \A q \in Requests : Unmoved(q)
  BY <1>2 DEF CompletedStays, Unmoved
<1>5. \A q \in Requests : Local(q)'
  BY <1>1, <1>4, UnmovedKeepsLocal DEF Inv
<1> QED
  BY <1>1, <1>3, <1>5 DEF Inv

(* Requests are left where they are, except for what the ledger remembers.      *)
LEMMA RestStep ==
  ASSUME Inv, Fixed, LifecycleInv', UNCHANGED <<durableVars, httpVars, source>>,
         holder' \in [KeyScopes -> Requests \cup {None}],
         \A s \in KeyScopes : holder'[s] \in {holder[s], None}
  PROVE  Inv'
<1>1. RequestTypes' /\ HoldersHaveRows' /\ SourcesAreCompleted'
  BY DEF Inv, RequestTypes, HoldersHaveRows, SourcesAreCompleted, Completed, durableVars,
     httpVars
<1>2. CompletedStays /\ \A q \in Requests : Unmoved(q)
  BY DEF CompletedStays, Unmoved, durableVars, httpVars
<1>3. \A q \in Requests : Local(q)'
  BY <1>2, UnmovedKeepsLocal DEF Inv
<1> QED
  BY <1>1, <1>3 DEF Inv

LEMMA ForgetStep == \A s \in KeyScopes : Inv /\ Forget(s) => Inv'
<1> SUFFICES ASSUME NEW s \in KeyScopes, Inv, Forget(s) PROVE Inv'
  OBVIOUS
<1>1. Fixed /\ LifecycleInv'
  BY LifecycleStep DEF Inv, Fixed, Forget, lifecycleVars, httpVars
<1>2. /\ holder' \in [KeyScopes -> Requests \cup {None}]
      /\ \A t \in KeyScopes : holder'[t] \in {holder[t], None}
  BY DEF Inv, RequestTypes, Forget
<1> QED
  BY <1>1, <1>2, RestStep DEF Forget

LEMMA LifespanStep == Inv /\ Lifespan => Inv'
<1> SUFFICES ASSUME Inv, Lifespan PROVE Inv'
  OBVIOUS
<1>1. Fixed /\ LifecycleInv'
  BY LifecycleStep, ConfigStays DEF Inv, Fixed, Lifespan, httpVars
<1>2. /\ holder' \in [KeyScopes -> Requests \cup {None}]
      /\ \A t \in KeyScopes : holder'[t] \in {holder[t], None}
  BY DEF Inv, RequestTypes, Lifespan, ledgerVars
<1> QED
  BY <1>1, <1>2, RestStep DEF Lifespan, ledgerVars

LEMMA NextStep == Inv /\ [Next]_vars => Inv'
<1> SUFFICES ASSUME Inv, [Next]_vars PROVE Inv'
  OBVIOUS
<1>1. CASE Next
  BY <1>1, LifespanStep, ArriveStep, SecureStep, VerifyStep, AuthorizeStep, DispatchStep,
     ExecuteStep, RespondStep, CancelStep, CancelEarlyStep, AbandonedThreadStep, ForgetStep
  DEF Next, Handle
<1>2. CASE UNCHANGED vars
  <2>1. Fixed /\ LifecycleInv'
    BY <1>2, LifecycleStep DEF Inv, Fixed, vars, lifecycleVars, httpVars
  <2>2. /\ holder' \in [KeyScopes -> Requests \cup {None}]
        /\ \A t \in KeyScopes : holder'[t] \in {holder[t], None}
    BY <1>2 DEF Inv, RequestTypes, vars, ledgerVars
  <2> QED
    BY <1>2, <2>1, <2>2, RestStep DEF vars, ledgerVars
<1> QED
  BY <1>1, <1>2

-----------------------------------------------------------------------------
(* The theorems. *)

(* The invariant holds of every run of the service.                             *)
THEOREM InvAlways == Spec => []Inv
BY InitInv, NextStep, PTL DEF Spec

(* Every variable has its type, for any configurations and requests.            *)
THEOREM TypesAlways == Spec => []TypeOK
<1>1. Inv => TypeOK
  BY TypesSplit DEF Inv, LifecycleInv
<1> QED
  BY <1>1, InvAlways, PTL

(* However the lifespan ends, nothing it has started is left open.              *)
THEOREM LifespanReleases == Spec => []NothingLeftOpen
<1>1. Inv => NothingLeftOpen
  BY InvNothingLeftOpen DEF Inv
<1> QED
  BY <1>1, InvAlways, PTL

(* Readiness is never announced without what it announces.                      *)
THEOREM ReadinessIsSound == Spec => []ReadyMeansUsable
<1>1. Inv => ReadyMeansUsable
  BY InvReadyMeansUsable DEF Inv
<1> QED
  BY <1>1, InvAlways, PTL

(* No coordinator runs for a principal that was not identified and permitted.   *)
THEOREM OnlyAdmittedRun == Spec => []RunsAreAdmitted
<1>1. Inv => RunsAreAdmitted
  BY DEF Inv, RequestTypes, Local, Passed, Identified, Authorized, RunsAreAdmitted
<1> QED
  BY <1>1, InvAlways, PTL

(* No coordinator runs unrecorded or past the key that was sent.                *)
THEOREM EveryRunIsRecorded == Spec => []RunsAreRecorded
<1>1. Inv => RunsAreRecorded
  BY DEF Inv, RequestTypes, Local, Passed, Admissible, Path, RunRecorded, Stored,
     RunsAreRecorded
<1> QED
  BY <1>1, InvAlways, PTL

(* An answer says what the tables say.                                          *)
THEOREM AnswersAreTrue == Spec => []AnswersAgreeWithRows
<1>1. Inv => AnswersAgreeWithRows
  BY DEF Inv, Local, AnswersAgreeWithRows
<1> QED
  BY <1>1, InvAlways, PTL

-----------------------------------------------------------------------------
(* The rows implement the ledger. *)

(* A record of a key is held by a request that was executed, not by a replay:   *)
(* the invariant leaves this out, and without it a replay might be taken over.  *)
HoldersAreOriginals == \A s \in KeyScopes : holder[s] # None => source[holder[s]] = None

(* The transactions that write a row, with or without a key.                    *)
Recorded(r) ==
  /\ stage[r] = "executing" /\ path[r] = "durable" /\ call[r] = "accepting"
  /\ rows' = [rows EXCEPT ![r] = Durable!AcceptedRow]
  /\ UNCHANGED <<input, ledgerVars>>

Settled(r) ==
  /\ stage[r] = "executing" /\ path[r] = "durable" /\ call[r] = "finalizing"
  /\ rows' = [rows EXCEPT ![r] = Durable!FinalizedRow(rows[r], result[r])]
  /\ UNCHANGED <<input, ledgerVars>>

Taken(r) == Accepting(r) /\ Claimed(r) /\ UNCHANGED <<input, source>>

Copied(r) == Accepting(r) /\ Replayed(r) /\ UNCHANGED input

Finished(r) ==
  /\ stage[r] = "executing" /\ path[r] = "keyed" /\ call[r] = "finalizing"
  /\ CloseEntry(r)
  /\ UNCHANGED <<input, ledgerVars>>

Unwritten == UNCHANGED <<rows, input, ledgerVars>>

Written(r) == Recorded(r) \/ Settled(r) \/ Taken(r) \/ Copied(r) \/ Finished(r)

(* Whatever a step does, it writes in one of these ways or not at all: a call   *)
(* that fails or is cancelled in a transaction has made its write or none.      *)
LEMMA DurablyWrites ==
  ASSUME NEW r \in Requests, stage[r] = "executing", Durably(r),
         UNCHANGED <<input, ledgerVars>>
  PROVE  Unwritten \/ Recorded(r) \/ Settled(r)
BY DEF Durably, Durable!AcceptRequest, Durable!AcceptRequestFails, Durable!ThreadReturns,
       Durable!Finalize, Durable!FinalizeFails, Unwritten, Recorded, Settled

LEMMA UnderKeyWrites ==
  ASSUME NEW r \in Requests, stage[r] = "executing", UnderKey(r), UNCHANGED input
  PROVE  Unwritten \/ Taken(r) \/ Copied(r) \/ Finished(r)
<1>0. path[r] = "keyed" /\ (call[r] = "accepting" => Accepting(r))
  BY DEF UnderKey, Accepting
<1>1. CASE Claim(r)
  BY <1>0, <1>1 DEF Claim, Taken
<1>2. CASE Replay(r)
  BY <1>0, <1>2 DEF Replay, Copied
<1>3. CASE DecideOtherwise(r)
  BY <1>3 DEF DecideOtherwise, Unwritten
<1>4. CASE ClaimFails(r)
  BY <1>0, <1>4 DEF ClaimFails, Taken, Copied, Unwritten
<1>5. CASE Durable!ThreadReturns(r) /\ UNCHANGED ledgerVars
  BY <1>5 DEF Durable!ThreadReturns, Unwritten
<1>6. CASE FinalizeKeyed(r)
  BY <1>0, <1>6 DEF FinalizeKeyed, Finished, Unwritten
<1> QED
  BY <1>1, <1>2, <1>3, <1>4, <1>5, <1>6 DEF UnderKey

LEMMA ExecuteWrites ==
  ASSUME NEW r \in Requests, Execute(r)
  PROVE  Unwritten \/ Written(r)
<1>1. stage[r] = "executing" /\ UNCHANGED input
  BY DEF Execute, httpVars
<1>2. CASE Direct(r) /\ UNCHANGED ledgerVars
  BY <1>1, <1>2 DEF Direct, Durable!ThreadReturns, Unwritten
<1>3. CASE Durably(r) /\ UNCHANGED ledgerVars
  BY <1>1, <1>3, DurablyWrites DEF Written
<1>4. CASE UnderKey(r)
  BY <1>1, <1>4, UnderKeyWrites DEF Written
<1> QED
  BY <1>2, <1>3, <1>4 DEF Execute

LEMMA CancelWrites ==
  ASSUME NEW r \in Requests, CancelExecution(r)
  PROVE  Unwritten \/ Written(r)
<1>1. stage[r] = "executing" /\ UNCHANGED input
  BY DEF CancelExecution
<1>2. CASE path[r] = "durable" /\ Durable!Cancel(r) /\ UNCHANGED ledgerVars
  BY <1>1, <1>2 DEF Durable!Cancel, Unwritten, Written, Recorded, Settled
<1>3. CASE UNCHANGED <<rows, result, threads, started, ledgerVars>>
  BY <1>1, <1>3 DEF Unwritten
<1>4. CASE /\ path[r] = "keyed"
           /\ \/ call[r] = "accepting" /\ Claimed(r) /\ UNCHANGED source
              \/ call[r] = "accepting" /\ Replayed(r)
              \/ call[r] = "finalizing" /\ CloseEntry(r) /\ UNCHANGED ledgerVars
              \/ call[r] \in {"accepting", "finalizing"} /\ UNCHANGED <<rows, ledgerVars>>
  BY <1>1, <1>4 DEF Unwritten, Written, Accepting, Taken, Copied, Finished
<1> QED
  BY <1>2, <1>3, <1>4 DEF CancelExecution

LEMMA NextWrites ==
  ASSUME [Next]_vars
  PROVE  \/ Unwritten
         \/ \E r \in Requests : Written(r)
         \/ \E s \in KeyScopes : Forget(s)
<1>1. ASSUME NEW r \in Requests, Arrive(r) \/ CancelEarly(r) \/ Respond(r) PROVE Unwritten
  BY <1>1 DEF Arrive, Advance, CancelEarly, Refuse, Respond, Unwritten, durableVars
<1>2. ASSUME NEW r \in Requests, Secure(r) PROVE Unwritten
  BY <1>2 DEF Secure, Advance, Refuse, Unwritten, durableVars
<1>3. ASSUME NEW r \in Requests, Verify(r) \/ Authorize(r) PROVE Unwritten
  BY <1>3 DEF Verify, Authorize, Advance, Refuse, Unwritten, durableVars
<1>4. ASSUME NEW r \in Requests, Dispatch(r) PROVE Unwritten
  BY <1>4 DEF Dispatch, Refuse, Durable!Begin, Unwritten, durableVars
<1>5. ASSUME NEW r \in Requests, AbandonedThread(r) PROVE Unwritten
  BY <1>5 DEF AbandonedThread, Durable!AbandonedThreadReturns, Unwritten, httpVars
<1>6. ASSUME Lifespan \/ UNCHANGED vars PROVE Unwritten
  BY <1>6 DEF Lifespan, vars, durableVars, httpVars, Unwritten
<1>7. ASSUME NEW r \in Requests, Execute(r) \/ CancelExecution(r)
      PROVE  Unwritten \/ Written(r)
  BY <1>7, ExecuteWrites, CancelWrites
<1> QED
  BY <1>1, <1>2, <1>3, <1>4, <1>5, <1>6, <1>7 DEF Next, Handle

(* What the invariant says of the request that writes.                          *)
LEMMA ScopesOfPaths ==
  ASSUME Inv, NEW r \in Requests, stage[r] = "executing"
  PROVE  /\ path[r] = "keyed" => input[r].key \in Keys /\ KeyScope(r) \in KeyScopes
         /\ path[r] = "durable" => input[r].key \notin Keys
<1>1. /\ path[r] = "keyed" => Keyed(r)
      /\ path[r] = "durable" => ~Keyed(r)
      /\ input[r].key \notin {"malformed", "long"}
  BY DEF Inv, Local, Passed, Admissible, Path
<1>2. /\ input[r].key \in Keys \cup {"absent", "malformed", "long"}
      /\ input[r].user \in Users
      /\ input[r].operation \in Operations
  BY DEF Inv, RequestTypes, Input
<1>3. Principal(r).user \in Users \cup {"local_api_user"}
  BY <1>2 DEF Principal, DemoPrincipal
<1> QED
  BY <1>1, <1>2, <1>3, InputsAssumption DEF Keyed, KeyScope, KeyScopes

LEMMA OriginalsStep ==
  ASSUME Inv, HoldersAreOriginals, [Next]_vars
  PROVE  HoldersAreOriginals'
<1> SUFFICES ASSUME NEW s \in KeyScopes, holder'[s] # None
             PROVE  source'[holder'[s]] = None
  BY DEF HoldersAreOriginals
<1>1. ASSUME NEW r \in Requests, Taken(r) PROVE source'[holder'[s]] = None
  <2>1. source[r] = None
    BY <1>1, AcceptingFacts DEF Taken, Untouched
  <2>2. holder'[s] \in {holder[s], r}
    BY <1>1 DEF Inv, RequestTypes, Taken, Claimed
  <2> QED
    BY <1>1, <2>1, <2>2 DEF HoldersAreOriginals, Taken
<1>2. ASSUME NEW r \in Requests, Copied(r) PROVE source'[holder'[s]] = None
  <2>1. rows[r].status = "absent"
    BY <1>2, AcceptingFacts DEF Copied, Untouched
  <2>2. holder'[s] = holder[s] /\ holder[s] # r /\ holder[s] \in Requests
    BY <1>2, <2>1 DEF Inv, RequestTypes, HoldersHaveRows, Copied, Replayed
  <2> QED
    BY <1>2, <2>2 DEF HoldersAreOriginals, Inv, RequestTypes, Copied, Replayed
<1>3. ASSUME NEW t \in KeyScopes, Forget(t) PROVE source'[holder'[s]] = None
  BY <1>3 DEF Inv, RequestTypes, Forget, HoldersAreOriginals
<1>4. ASSUME UNCHANGED ledgerVars PROVE source'[holder'[s]] = None
  BY <1>4 DEF ledgerVars, HoldersAreOriginals
<1> QED
  BY <1>1, <1>2, <1>3, <1>4, NextWrites DEF Written, Unwritten, Recorded, Settled, Finished

(* The scopes of the ledger.                                                    *)
LEMMA OwnScopes ==
  ASSUME NEW r \in Requests
  PROVE  /\ <<r>> \in LedgerScopes /\ <<r>> \notin KeyScopes
         /\ (CHOOSE q \in Requests : <<r>> = <<q>>) = r
         /\ \A q \in Requests : <<q>> = <<r>> => q = r
<1>1. ASSUME <<r>> \in KeyScopes PROVE FALSE
  <2>1. PICK a, b, c : <<r>> = <<a, b, c>>
    BY <1>1 DEF KeyScopes
  <2>2. Len(<<r>>) = 1 /\ Len(<<a, b, c>>) = 3
    OBVIOUS
  <2> QED
    BY <2>1, <2>2
<1>2. \A q \in Requests : <<q>> = <<r>> => q = r
  OBVIOUS
<1> QED
  BY <1>1, <1>2 DEF LedgerScopes

LEMMA LedgerHolders ==
  /\ \A s \in KeyScopes : LedgerHolder(s) = holder[s]
  /\ \A r \in Requests :
       LedgerHolder(<<r>>) =
         IF input[r].key \notin Keys /\ rows[r].status # "absent" THEN r ELSE None
BY OwnScopes DEF LedgerHolder

LEMMA LedgerHoldersNext ==
  /\ \A s \in KeyScopes : LedgerHolder(s)' = holder'[s]
  /\ \A r \in Requests :
       LedgerHolder(<<r>>)' =
         IF input'[r].key \notin Keys /\ rows'[r].status # "absent" THEN r ELSE None
BY OwnScopes DEF LedgerHolder, KeyScopes

(* What is left alone does not move.                                            *)
LEMMA ScopesStay ==
  ASSUME UNCHANGED input
  PROVE  UNCHANGED [r \in Requests |-> LedgerScope(r)]
BY DEF LedgerScope, KeyScope, Principal

LEMMA HoldersStand ==
  ASSUME UNCHANGED <<input, holder>>,
         \A r \in Requests :
           input[r].key \notin Keys => (rows'[r].status = "absent" <=> rows[r].status = "absent")
  PROVE  UNCHANGED [s \in LedgerScopes |-> LedgerHolder(s)]
<1>1. \A s \in LedgerScopes : LedgerHolder(s)' = LedgerHolder(s)
  <2>1. ASSUME NEW r \in Requests PROVE LedgerHolder(<<r>>)' = LedgerHolder(<<r>>)
    BY LedgerHolders, LedgerHoldersNext
  <2> QED
    BY <2>1, LedgerHolders, LedgerHoldersNext DEF LedgerScopes
<1> QED
  BY <1>1 DEF LedgerScopes, KeyScopes

LEMMA ScopeTypes == \A r \in Requests : Inv /\ stage[r] = "executing"
                                          /\ path[r] \in {"keyed", "durable"} =>
                      LedgerScope(r) \in LedgerScopes
BY ScopesOfPaths, OwnScopes DEF LedgerScope, LedgerScopes

(* A claim opens an entry, and closes the one it takes over.                    *)
LEMMA TakenOpens ==
  ASSUME Inv, HoldersAreOriginals, NEW r \in Requests, Taken(r)
  PROVE  Ledger!Open(r)
<1>0. Accepting(r) /\ Claimed(r) /\ UNCHANGED <<input, source>>
  BY DEF Taken
<1>1. /\ LedgerScope(r) = KeyScope(r) /\ KeyScope(r) \in KeyScopes
      /\ LedgerScope(r) \in LedgerScopes
  BY <1>0, ScopesOfPaths DEF Accepting, LedgerScope, LedgerScopes
<1>2. LedgerHolder(LedgerScope(r)) = Holder(r)
  BY <1>1, LedgerHolders DEF Holder
<1>3. LedgerState(r) = "absent" /\ source[r] = None /\ rows[r].status = "absent"
  BY <1>0, AcceptingFacts, Typed DEF Untouched, LedgerState
<1>4. LedgerState(r)' = "open"
  BY <1>0, <1>3 DEF LedgerState, Claimed, Durable!AcceptedRow
<1>5. ASSUME NEW d \in Requests, d # r
      PROVE  LedgerState(d)' = IF d = Holder(r) /\ LedgerState(d) = "open"
                               THEN "failed" ELSE LedgerState(d)
  <2>1. rows'[d] = IF d = Holder(r) /\ rows[d].status = "in_progress"
                   THEN Durable!FinalizedRow(rows[d], "failed") ELSE rows[d]
    BY <1>0, <1>5 DEF Claimed
  <2>2. Durable!FinalizedRow(rows[d], "failed").status = "failed"
    BY DEF Durable!FinalizedRow, Durable!FinalStatus
  <2>3. d = Holder(r) => source[d] = None
    BY <1>1, InputsAssumption DEF HoldersAreOriginals, Holder
  <2>4. source'[d] = source[d] /\ rows[d].status \in {"absent", "in_progress", "completed", "failed"}
    BY <1>0, Typed DEF Durable!Terminal
  <2>5. CASE d = Holder(r) /\ rows[d].status = "in_progress"
    BY <2>1, <2>2, <2>3, <2>4, <2>5 DEF LedgerState
  <2>6. CASE ~(d = Holder(r) /\ rows[d].status = "in_progress")
    BY <2>1, <2>4, <2>6 DEF LedgerState
  <2> QED
    BY <2>5, <2>6
<1>6. [s \in LedgerScopes |-> LedgerHolder(s)]'
        = [[s \in LedgerScopes |-> LedgerHolder(s)] EXCEPT ![LedgerScope(r)] = r]
  <2>1. ASSUME NEW s \in KeyScopes
        PROVE  LedgerHolder(s)' = IF s = LedgerScope(r) THEN r ELSE LedgerHolder(s)
    BY <1>0, <1>1, LedgerHolders, LedgerHoldersNext DEF Claimed, Inv, RequestTypes
  <2>2. ASSUME NEW q \in Requests
        PROVE  <<q>> # LedgerScope(r) /\ LedgerHolder(<<q>>)' = LedgerHolder(<<q>>)
    <3>1. <<q>> # LedgerScope(r)
      BY <1>1, OwnScopes
    <3>2. input[q].key \notin Keys => (rows'[q].status = "absent" <=> rows[q].status = "absent")
      <4>1. CASE q = r
        BY <1>0, <4>1, ScopesOfPaths DEF Accepting
      <4>2. CASE q # r
        BY <1>0, <4>2 DEF Claimed, Durable!FinalizedRow, Durable!FinalStatus
      <4> QED
        BY <4>1, <4>2
    <3> QED
      BY <1>0, <3>1, <3>2, LedgerHolders, LedgerHoldersNext
  <2>3. \A s \in LedgerScopes :
          LedgerHolder(s)' = IF s = LedgerScope(r) THEN r ELSE LedgerHolder(s)
    BY <2>1, <2>2 DEF LedgerScopes
  <2>4. LedgerScopes' = LedgerScopes
    BY DEF LedgerScopes, KeyScopes
  <2> QED
    BY <1>1, <2>3, <2>4
<1>7. UNCHANGED [q \in Requests |-> LedgerScope(q)]
  BY <1>0, ScopesStay
<1> QED
  BY <1>0, <1>1, <1>2, <1>3, <1>4, <1>5, <1>6, <1>7 DEF Ledger!Open

(* A request without a key opens an entry that is its own.                      *)
LEMMA RecordedOpens ==
  ASSUME Inv, NEW r \in Requests, Recorded(r)
  PROVE  Ledger!Open(r)
<1>0. /\ rows' = [rows EXCEPT ![r] = Durable!AcceptedRow]
      /\ UNCHANGED <<input, holder, source>>
  BY DEF Recorded, ledgerVars
<1>1. input[r].key \notin Keys /\ LedgerScope(r) = <<r>> /\ <<r>> \in LedgerScopes
  BY ScopesOfPaths, OwnScopes DEF Recorded, LedgerScope
<1>2. source[r] = None /\ rows[r].status = "absent" /\ LedgerState(r) = "absent"
  BY DEF Recorded, Inv, Local, Positioned, Untouched, LedgerState
<1>3. LedgerHolder(<<r>>) = None
  BY <1>2, LedgerHolders
<1>4. LedgerState(r)' = "open" /\ rows'[r].status = "in_progress"
  BY <1>0, <1>2 DEF Inv, RequestTypes, LedgerState, Durable!AcceptedRow
<1>5. \A d \in Requests \ {r} : rows'[d] = rows[d] /\ LedgerState(d)' = LedgerState(d)
  BY <1>0 DEF Inv, RequestTypes, LedgerState
<1>6. [s \in LedgerScopes |-> LedgerHolder(s)]'
        = [[s \in LedgerScopes |-> LedgerHolder(s)] EXCEPT ![<<r>>] = r]
  <2>1. \A s \in KeyScopes : s # <<r>> /\ LedgerHolder(s)' = LedgerHolder(s)
    BY <1>0, OwnScopes, LedgerHolders, LedgerHoldersNext
  <2>2. LedgerHolder(<<r>>)' = r
    BY <1>0, <1>1, <1>4, LedgerHoldersNext
  <2>3. ASSUME NEW q \in Requests, q # r
        PROVE  <<q>> # <<r>> /\ LedgerHolder(<<q>>)' = LedgerHolder(<<q>>)
    BY <1>0, <1>5, <2>3, OwnScopes, LedgerHolders, LedgerHoldersNext
  <2>4. \A s \in LedgerScopes :
          LedgerHolder(s)' = IF s = <<r>> THEN r ELSE LedgerHolder(s)
    BY <2>1, <2>2, <2>3 DEF LedgerScopes
  <2>5. LedgerScopes' = LedgerScopes
    BY DEF LedgerScopes, KeyScopes
  <2> QED
    BY <1>1, <2>4, <2>5
<1>7. UNCHANGED [q \in Requests |-> LedgerScope(q)]
  BY <1>0, ScopesStay
<1>8. \A d \in Requests : LedgerState(d)' = IF d = r THEN "open"
                           ELSE IF d = LedgerHolder(<<r>>) /\ LedgerState(d) = "open"
                           THEN "failed" ELSE LedgerState(d)
  BY <1>3, <1>4, <1>5, InputsAssumption
<1> QED
  BY <1>0, <1>1, <1>2, <1>6, <1>7, <1>8 DEF Ledger!Open

(* Whoever finishes closes the entry that it holds.                             *)
LEMMA EntryCloses ==
  ASSUME Inv, NEW r \in Requests,
         LedgerScope(r) \in LedgerScopes, LedgerHolder(LedgerScope(r)) = r,
         source[r] = None, rows[r].status = "in_progress", call[r] = "finalizing",
         rows' = [rows EXCEPT ![r] = Durable!FinalizedRow(rows[r], result[r])],
         UNCHANGED <<input, ledgerVars>>
  PROVE  Ledger!Close(r)
<1>1. rows'[r].status \in {"completed", "failed"} /\ \A d \in Requests \ {r} : rows'[d] = rows[d]
  BY FinalizedFacts DEF Inv, RequestTypes
<1>2. LedgerState(r) = "open" /\ LedgerState(r)' \in {"completed", "failed"}
  BY <1>1 DEF LedgerState, ledgerVars
<1>3. \A d \in Requests \ {r} : LedgerState(d)' = LedgerState(d)
  BY <1>1 DEF LedgerState, ledgerVars
<1>4. [d \in Requests |-> LedgerState(d)]'
        \in {[[d \in Requests |-> LedgerState(d)] EXCEPT ![r] = "completed"],
             [[d \in Requests |-> LedgerState(d)] EXCEPT ![r] = "failed"]}
  BY <1>2, <1>3
<1>5. UNCHANGED [q \in Requests |-> LedgerScope(q)]
  BY ScopesStay
<1>6. UNCHANGED [s \in LedgerScopes |-> LedgerHolder(s)]
  <2>1. \A d \in Requests : rows'[d].status = "absent" <=> rows[d].status = "absent"
    BY <1>1
  <2> QED
    BY <2>1, HoldersStand DEF ledgerVars
<1>7. UNCHANGED source
  BY DEF ledgerVars
<1> QED
  BY <1>2, <1>4, <1>5, <1>6, <1>7 DEF Ledger!Close

LEMMA FinishedCloses ==
  ASSUME Inv, NEW r \in Requests, Finished(r) \/ Settled(r)
  PROVE  Ledger!Close(r)
<1>1. CASE Finished(r)
  <2>1. input[r].key \in Keys /\ KeyScope(r) \in KeyScopes
    BY <1>1, ScopesOfPaths DEF Finished
  <2>2. Holder(r) = r /\ rows[r].status = "in_progress" /\ source[r] = None
    BY <1>1 DEF Finished, CloseEntry, Fenced, Holds, Inv, Local, Positioned
  <2>3. LedgerScope(r) \in LedgerScopes /\ LedgerHolder(LedgerScope(r)) = r
    BY <2>1, <2>2, LedgerHolders DEF LedgerScope, LedgerScopes, Holder
  <2> QED
    BY <1>1, <2>2, <2>3, EntryCloses DEF Finished, CloseEntry
<1>2. CASE Settled(r)
  <2>1. input[r].key \notin Keys /\ rows[r].status = "in_progress" /\ source[r] = None
    BY <1>2, ScopesOfPaths DEF Settled, Inv, Local, Positioned
  <2>2. LedgerScope(r) \in LedgerScopes /\ LedgerHolder(LedgerScope(r)) = r
    BY <2>1, OwnScopes, LedgerHolders DEF LedgerScope
  <2> QED
    BY <1>2, <2>1, <2>2, EntryCloses DEF Settled
<1> QED
  BY <1>1, <1>2

(* A replay copies the entry of the key's holder, which is no replay.           *)
LEMMA CopiedReplays ==
  ASSUME Inv, HoldersAreOriginals, NEW r \in Requests, Copied(r)
  PROVE  Ledger!Replay(r)
<1>0. Accepting(r) /\ Replayed(r) /\ UNCHANGED <<input, holder>>
  BY DEF Copied, Replayed
<1>1. /\ input[r].key \in Keys /\ KeyScope(r) \in KeyScopes
      /\ LedgerScope(r) = KeyScope(r) /\ LedgerScope(r) \in LedgerScopes
  BY <1>0, ScopesOfPaths DEF Accepting, LedgerScope, LedgerScopes
<1>2. LedgerHolder(LedgerScope(r)) = Holder(r)
  BY <1>1, LedgerHolders DEF Holder
<1>3. /\ Holder(r) \in Requests /\ Holder(r) # None
      /\ rows[Holder(r)].status = "completed" /\ source[Holder(r)] = None
  BY <1>0, <1>1, AcceptingFacts DEF Replayed, HoldersAreOriginals, Holder
<1>4. LedgerState(Holder(r)) = "completed"
  BY <1>3 DEF LedgerState
<1>5. rows[r].status = "absent" /\ LedgerState(r) = "absent"
  BY <1>0, AcceptingFacts DEF Untouched, LedgerState
<1>6. source' = [source EXCEPT ![r] = Holder(r)] /\ rows' = [rows EXCEPT ![r] = ReplayedRow]
  BY <1>0 DEF Replayed
<1>7. LedgerState(r)' = "replayed"
  BY <1>3, <1>6 DEF Inv, RequestTypes, LedgerState
<1>8. \A d \in Requests \ {r} : LedgerState(d)' = LedgerState(d) /\ rows'[d] = rows[d]
  BY <1>6 DEF Inv, RequestTypes, LedgerState
<1>9. UNCHANGED [q \in Requests |-> LedgerScope(q)]
  BY <1>0, ScopesStay
<1>10. UNCHANGED [s \in LedgerScopes |-> LedgerHolder(s)]
  BY <1>0, <1>1, <1>8, HoldersStand
<1> QED
  BY <1>1, <1>2, <1>3, <1>4, <1>5, <1>6, <1>7, <1>8, <1>9, <1>10
     DEF Ledger!Replay, Ledger!Held

(* The pruner forgets an entry that is closed.                                  *)
LEMMA ForgetForgets ==
  ASSUME Inv, HoldersAreOriginals, NEW s \in KeyScopes, Forget(s)
  PROVE  Ledger!Forget(s)
<1>1. /\ holder[s] \in Requests /\ holder[s] # None
      /\ rows[holder[s]].status \in {"completed", "failed"} /\ source[holder[s]] = None
      /\ holder' = [holder EXCEPT ![s] = None]
      /\ UNCHANGED <<input, rows, source>>
  BY DEF Forget, Inv, RequestTypes, HoldersAreOriginals, Durable!Terminal, durableVars, httpVars
<1>2. LedgerState(holder[s]) \in {"completed", "failed"}
  BY <1>1 DEF LedgerState
<1>3. LedgerHolder(s) = holder[s] /\ s \in LedgerScopes
  BY LedgerHolders DEF LedgerScopes
<1>4. [t \in LedgerScopes |-> LedgerHolder(t)]'
        = [[t \in LedgerScopes |-> LedgerHolder(t)] EXCEPT ![s] = None]
  <2>1. ASSUME NEW t \in KeyScopes
        PROVE  LedgerHolder(t)' = IF t = s THEN None ELSE LedgerHolder(t)
    BY <1>1, LedgerHolders, LedgerHoldersNext DEF Inv, RequestTypes
  <2>2. ASSUME NEW q \in Requests
        PROVE  <<q>> # s /\ LedgerHolder(<<q>>)' = LedgerHolder(<<q>>)
    <3>1. <<q>> # s
      BY OwnScopes
    <3> QED
      BY <1>1, <3>1, LedgerHolders, LedgerHoldersNext
  <2>3. \A t \in LedgerScopes : LedgerHolder(t)' = IF t = s THEN None ELSE LedgerHolder(t)
    BY <2>1, <2>2 DEF LedgerScopes
  <2>4. LedgerScopes' = LedgerScopes
    BY DEF LedgerScopes, KeyScopes
  <2> QED
    BY <1>3, <2>3, <2>4
<1>5. UNCHANGED [d \in Requests |-> LedgerState(d)]
  BY <1>1 DEF LedgerState
<1>6. UNCHANGED [q \in Requests |-> LedgerScope(q)]
  BY <1>1, ScopesStay
<1> QED
  BY <1>1, <1>2, <1>3, <1>4, <1>5, <1>6 DEF Ledger!Forget, Ledger!Held

LEMMA UnwrittenStutters ==
  ASSUME Unwritten
  PROVE  UNCHANGED Ledger!vars
<1>1. UNCHANGED <<rows, input, holder, source>>
  BY DEF Unwritten, ledgerVars
<1>2. UNCHANGED [q \in Requests |-> LedgerScope(q)]
  BY <1>1, ScopesStay
<1>3. UNCHANGED [s \in LedgerScopes |-> LedgerHolder(s)]
  BY <1>1, HoldersStand
<1>4. UNCHANGED [d \in Requests |-> LedgerState(d)]
  BY <1>1 DEF LedgerState
<1> QED
  BY <1>1, <1>2, <1>3, <1>4 DEF Ledger!vars

(* With and without keys, storage, failures and cancellations, the rows are a   *)
(* ledger: a key has one holder at a time, who alone closes its entry, once; a  *)
(* takeover closes what it takes over; and only a completed original is copied  *)
(* (application/execution_gateway.py, application/idempotent_durable_service.py).*)
THEOREM RowsAreALedger == Spec => ImplementsLedger
<1>1. Init => HoldersAreOriginals /\ Ledger!Init
  <2> SUFFICES ASSUME Init PROVE HoldersAreOriginals /\ Ledger!Init
    OBVIOUS
  <2>1. \A r \in Requests : LedgerScope(r) \in LedgerScopes
    <3>1. ASSUME NEW r \in Requests, input[r].key \in Keys PROVE KeyScope(r) \in KeyScopes
      <4>1. input[r] \in Input
        BY InitInv DEF Inv, RequestTypes
      <4>2. Principal(r).user \in Users \cup {"local_api_user"} /\ input[r].operation \in Operations
        BY <4>1 DEF Input, Principal, DemoPrincipal
      <4> QED
        BY <3>1, <4>2 DEF KeyScope, KeyScopes
    <3> QED
      BY <3>1, OwnScopes DEF LedgerScope, LedgerScopes
  <2>2. \A r \in Requests : LedgerState(r) = "absent" /\ rows[r].status = "absent"
    BY DEF Init, Durable!DurableInit, Durable!AbsentRow, LedgerState
  <2>3. \A s \in LedgerScopes : LedgerHolder(s) = None
    BY <2>2, LedgerHolders DEF Init, LedgerScopes
  <2> QED
    BY <2>1, <2>2, <2>3 DEF Init, HoldersAreOriginals, Ledger!Init
<1>2. Inv /\ HoldersAreOriginals /\ [Next]_vars => HoldersAreOriginals'
  BY OriginalsStep
<1>3. Inv /\ HoldersAreOriginals /\ [Next]_vars => [Ledger!Next]_(Ledger!vars)
  <2> SUFFICES ASSUME Inv, HoldersAreOriginals, [Next]_vars
               PROVE  [Ledger!Next]_(Ledger!vars)
    OBVIOUS
  <2>1. ASSUME NEW r \in Requests, Written(r) PROVE Ledger!Next
    BY <2>1, TakenOpens, RecordedOpens, FinishedCloses, CopiedReplays
       DEF Written, Ledger!Next
  <2>2. ASSUME NEW s \in KeyScopes, Forget(s) PROVE Ledger!Next
    BY <2>2, ForgetForgets DEF Ledger!Next, LedgerScopes
  <2>3. ASSUME Unwritten PROVE UNCHANGED Ledger!vars
    BY <2>3, UnwrittenStutters
  <2> QED
    BY <2>1, <2>2, <2>3, NextWrites
<1> QED
  BY <1>1, <1>2, <1>3, InvAlways, PTL DEF Spec, ImplementsLedger, Ledger!Spec

=============================================================================
