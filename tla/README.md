# Formal models of safety-grounded-agent

TLA+ models of the service under `src/src/conversation_agent/`, checked with TLC
and proved with TLAPS. Paths below are relative to that directory unless they
begin with `docs/`.

## The system

A FastAPI service answers chat requests. A request is authenticated (OIDC JWT
against a JWKS), authorized for an operation, given a context, and handed to the
execution gateway. The gateway runs the synchronous coordinator (policy, task
routing, retrieval, agent) on a worker thread, either with no persistence, or
durably without an idempotency key, or durably with one. The durable paths write
four PostgreSQL tables in short transactions before and after the coordinator.
Around it: an agent that a caller may use instead of the coordinator lets a model ask for tools; the
tools keep customer profiles and interactions in JSON files; operators run an integrity
checker, a doctor and a pruner.

| Component | State | Operations | Interacts with | Hard | Correct when |
|---|---|---|---|---|---|
| Idempotent execution (`application/idempotent_durable_service.py`, `database/`) | rows of `idempotency_records`, `agent_requests`, `agent_runs`, `audit_events`; per call: token, clock readings, result | claim, reclaim, reacquire, replay, refuse, run, finalize | coordinator thread, pruner, other instances through row locks | leases, fencing, ambiguous commits, cancellation, clocks | one live owner per key, nothing orphaned, history final, replays only of committed results |
| Pruner (`operations/persistence.py`) | none of its own | delete expired terminal records | claims | racing a claim | never an active record, never inside a replay window |
| Doctor, integrity checker, audit (`operations/persistence.py`, `cli/main.py`) | an engine of their own, a report | check, prune, exit | the database others use | deadlines, checks that do not finish, a disposal that raises | exit code 0 is earned |
| Durable execution without a key (`application/durable_service.py`) | the same rows but the claim | accept, run, finalize | coordinator thread | crash and cancellation between its transactions | a terminal request has one run and one terminal event |
| Execution gateway (`application/execution_gateway.py`) | none | dispatch on key, header and persistence mode | both services | error mapping | a request is executed on exactly one path |
| JWKS provider (`identity/jwks.py`) | key cache and its expiry, generation, negative cache, refresh lock | look up a key, refresh | HTTP endpoint, concurrent requests | state read before the lock and used after it | no key served past its lifetime, one refresh for a miss, a failed refresh changes nothing |
| Authentication, authorization (`identity/`, `authorization/`) | none | verify a token, decide an operation | JWKS provider | order of checks | deny unless every check passes |
| Engine and lifespan (`database/engine.py`, `api/app.py`) | engine, session factory, readiness | start, stop, connectivity, revision | requests | partial start, stop while in use | ready only when usable, disposed once |
| Orchestration (`orchestration/`) | trace of a run | policy, route, retrieve, write | policy, RAG, customer store | early exits, five entries | a blocked request reaches no later stage, doubts stay in the answer |
| Policy (`policy/`) | none | normalize, match, take a stance, resolve | coordinator, an optional classifier | clauses, quotations, overlapping rules | a risk is excused only by its own clause or quotation |
| Retrieval (`rag/`) | none | query, fall back | external service, knowledge files | failure and low confidence | fallback is marked and capped |
| Agents, tools and LLM clients (`agent.py`, `tools/`, `llm/`) | message list, tool calls, one customer | tool rounds, retries | LLM API, stores | round limit, failing tools, deadlines | every tool call is answered, retries stay within what their client sets, no reader meets a half-done change |
| Customer store (`memory/customer_store.py`) | profile files, backups, alias file | save, load, delete, restore, find | agents' threads | several files per operation, shared temp names, crashes | a customer is never lost to one fault, names find their customer |
| Interaction store (`memory/interaction_store.py`) | interaction files and index | save, delete, list | agents' threads | index against files | the index is a summary of the files |
| Sales domain (`sales/`) | none | score, health, intent | tools | boundaries | totals in range, first match wins |
| In-memory fakes (`database/fake_execution.py`, `database/null_persistence.py`) | staged and committed rows | the repositories' operations | tests | staging | same contract as PostgreSQL |

The hazards behind the last two columns are listed, at their lines, in
`PROJECT.json`.

## Modules

### IdempotentExecution

The keyed path. A *call* is one HTTP request with an `Idempotency-Key`;
`request_id`, owner, row id and run id are the call itself, since each call
inserts at most one row of each table.

| Model | Code |
|---|---|
| `records`, `requests`, `runs`, `audits` | the four tables of `database/models.py`, the columns a decision reads |
| `now` | `clock_timestamp()`; `AppNow(c)` is `_now()` on the instance that serves `c`, ahead of it by a constant `skew` |
| `pc`, `accepted_at`, `claim_now`, `token`, `result`, `completed_at` | where `execute()` is, and its locals |
| `threads` | coordinator threads, which outlive a cancelled call (`abandon_on_cancel=True`) |
| `answer`, `served` | what the caller is told, and whose result it is given |
| `replay_until` | history only: the `expires_at` a completed claim was given |
| `Accept`, `ReadDatabaseNow`, `InsertConflicts` | `execute` up to Tx A, then `claim` up to its row lock |
| `Acquire`, `Reacquire`, `Reclaim`, `Replay`, `Refuse...` | the decisions of `claim`, with everything `_claim_and_accept` writes for each |
| `StartCoordinator`, `CoordinatorReturns` | `anyio.to_thread.run_sync`; the result is completed, blocked, too large for a snapshot, or an exception |
| `FinalizeResult`, `FinalizeFailed`, `FinalizationFails` | Tx B |
| `Abandon`, `AbandonedThreadEnds` | cancellation, or a crash of the process, at any step |
| `Prune` | `IdempotencyPruner`, a row at a time |

Choices, and why they are sound:

- *What a transaction does while it holds the row lock of its record is one
  step.* Every other transaction that reads that record waits for the lock, and
  the rows of other tables it touches are reached through it. What happens before
  the lock is not folded in: the clock is read first (`claim_now` may be stale),
  and the conflicting INSERT and the SELECT are two steps, between which the
  pruner or another call may run.
- *Locks and statements that time out* are a failed statement: the transaction
  rolls back (`InitializationFails`, `FinalizationFails`).
- *A COMMIT that raises* may have been applied: `Granted`, `Replay` and
  `Finalized` each have that outcome for a faulty call. A COMMIT that raises and
  was not applied is a failed statement. `token` keeps what was written even if the
  caller never saw it, for the properties to refer to.
- *Clocks.* The database clock never goes back. An instance's clock differs from
  it by a constant; `Skews = {0}` in every run but `clock_skew`. Equal clocks
  are what lets `completed_at >= created_at` hold in Tx B, too.
- Authorization is checked before the first step and is not modelled; a
  fingerprint and a snapshot are values without structure, `oversized` standing
  for a result whose snapshot exceeds the bound.

### RequestLedger

What the keyed path promises, with no lease, clock, token or transaction: one
holder per scope; opening a scope closes whoever held it open, in the same step;
only the holder closes its own entry, once; a replay copies a completed holder.
`IdempotentExecution` implements it under the mapping in `Ledger`.

### JwksProvider

The signing keys of an issuer in one process. A *lookup* is one call of
`get_signing_key`. Coroutines interleave only where they await, so what happens
between two awaits is one step.

| Model | Code (`identity/jwks.py`) |
|---|---|
| `keys`, `expires_at`, `negative`, `generation` | `_positive_keys`, `_positive_cache_expires_at`, `_negative_kids`, `_generation` |
| `holder`, `ahead` | `_refresh_lock`: who has it, and whom each waiter found queued before it |
| `phase`, `kid`, `observed`, `response` | where a lookup is, its argument, its `observed_generation`, the document it is receiving |
| `published`, `withdrawn_at` | the issuer, external: the key ids it publishes |
| `ServeAtOnce`, `RefuseAtOnce`, `FetchAtOnce`, `Queue` | `get_signing_key` up to the lock |
| `ServeAfterWait`, `RefuseAfterWait`, `FetchAfterWait`, `DecideOnNewDocument` | the second look under the lock, and the comparison of generations |
| `IssuerResponds`, `Refresh`, `FetchFails`, `Cancel` | `_fetch_and_validate` and `_refresh`, their errors, and cancellation at either await |
| `cached`, `began`, `seen` | history only |

- The document is what the issuer published when it responded; it enters the
  cache later, so a rotation may come between the two.
- A document is its key ids. Whether one is valid (algorithms, duplicate ids,
  key material, sizes) is the choice between `Refresh` and `FetchFails`.
- `asyncio.Lock` serves waiters in order and lets a newcomer take a lock that
  is released but not yet taken by a waiter only when nobody waits; that is what
  `LockFree` and `Turn` say.
- `Prompt` says that a woken coroutine runs before a whole tick has passed. Only
  `RefusalsAreRecent` assumes it: an event loop that stalls for a lifetime between
  releasing the lock and running the next waiter can make any refusal old.

### CustomerStore, InteractionStore, SalesMemory

The JSON files of `memory/`. `CustomerStore` has a step for each change of a file
and `InteractionStore` its own; `SalesMemory` is the process that uses both, with
the callers that write: `cli/seed.py`, `tools/customer_update.py`,
`tools/sales_score.py`.

| Model | Code |
|---|---|
| `profile`, `backup`, `trash`, `aliases` | `customers/<id>.json`, `<id>.bak`, `<id>.deleted.bak`, `aliases.json` |
| `op` | the operation in progress, the customer it is about, the profile it has in memory |
| `BeginSave` ... `SyncAliases` | `CustomerStore.save`: backup, rename, alias file |
| `BeginDelete` ... `RemoveAliases` | `delete`: trash file, unlink, alias file |
| `BeginRestore`, `FinishRestore` | `restore` |
| `Interrupted`, `BackupFails`, `IndexInterrupted` | a killed process or an `OSError`, as the code handles it |
| `SyncUnread`, `RemoveUnread` | the same, where `_load_aliases` could not read the file and takes it for an empty one |
| `Found`, `ListAll` | `find_by_name`, `list_all`, and the exception that leaves both |
| `dates`, `index`, `indexing`, `Listed`, `LastInteractionDate` | the interaction files, `_index.json`, `list_for_customer`, `last_interaction_date` |
| `Seed`, `Update`, `Score` | the three callers, which read a profile and save what they made of it |
| `faults`, `claims`, `lagging` | history only |

- *One writer.* `docs/project-design.md:296` grants the stores no concurrent
  writers, and the command line runs one agent in one process. What is hard
  here is stopping halfway, not interleaving.
- *A rename is one step; `copy2` and `write_text` onto an existing file are two,*
  with the file torn between them. A temporary file is truncated before each use
  and never read, so its writing is no step; the alias file is only ever renamed, and so never torn.
- *A torn profile is one of two kinds.* `load` takes a file that does not parse, or cannot be read, for
  an absent one, and searches skip it. A `restore` cut inside a multibyte character leaves one that
  cannot be decoded (`Garbled`): the `UnicodeDecodeError` leaves `list_all` and the search of
  `find_by_name`, so that no customer is found but by the alias file.
- *An alias file that cannot be read* counts as a fault: the next save or delete writes it anew with
  no other customer's entries (`SyncUnread`, `RemoveUnread`).
- A killed process and an `OSError` are modelled; a loss of power is not: the code
  never calls `fsync`, and nothing could be promised.
- Backups are enabled, as by default. There is one `.bak` per customer, so rotation
  never removes anything. Searches and statistics are filters over the same files
  and are left out.

### ApplicationLifecycle, DurableExecution, HttpService

One worker of the HTTP application. `ApplicationLifecycle` is `create_app` with its
lifespan and the `DatabaseEngine`; `DurableExecution` is `DurableApplicationService`;
`HttpService` extends the one, instantiates the other, and adds what happens to a request
between its headers and its answer.

| Model | Code |
|---|---|
| `config` | the modes of `config.py` that decide anything; `Valid` is `AppConfig`'s validator |
| `phase`, `stack` | where `lifespan` (`api/app.py`) is, and its `AsyncExitStack` |
| `readiness`, `dependencies`, `verifier` | `app.state`: `readiness`, `dependencies` is not `None`, `security_service` has a verifier |
| `client`, `engine`, `pool` | the HTTP client, `DatabaseEngine`, the connections behind it |
| `Enter` ... `Compose`, `StartupFails`, `Shutdown`, `CloseClient` ... `End` | the statements of `lifespan`, `engine.start` and `engine.stop` |
| `rows` | `agent_requests` with its `agent_runs` and `audit_events` |
| `call`, `result`, `raised`, `threads` | where the service's `execute` is, what its coordinator made, what it returned or raised, the worker threads |
| `input` | headers and token of a request; `stage`, `path`, `answer`: how far it came, how it is executed, the code of its response |
| `Secure`, `Verify`, `Authorize` | `RequestSecurityService.secure`, up to and after its one await, and `AuthorizationService` |
| `Refusal`, `Path`, `Dispatch` | `execute` of `api/app.py` and `RequestExecutionGateway.execute` |
| `Direct`, `Durably`, `UnderKey` | the three ways to execute |
| `Claim`, `Replay`, `DecideOtherwise`, `ClaimFails`, `FinalizeKeyed`, `Forget` | the keyed service and the pruner, at the grain of the ledger |
| `Handler`, `Status`, `Respond` | exception handlers, gateway errors, the `Idempotency-Status`, the projection |
| `CancelExecution`, `CancelEarly`, `AbandonedThread` | the server cancelling a request; the thread it leaves |
| `holder`, `source`, `started` | history: who claimed a key last, what a replay copied, whose coordinator ran |

- *Under a key*, a claim decides on who holds the key and whether it finished; leases and
  clocks are `IdempotentExecution`'s, so here an owner may be taken over at any time. That
  only adds behaviours. `ImplementsLedger` says that both modules implement the same
  `RequestLedger`, here with a scope of its own for each request without a key.
- *A transaction is one step,* and one that raises may have been applied. Cancellation
  during a commit likewise. `CancelledError` is no `Exception`, so no handler of the services
  runs.
- *The server* sends a request only after startup, or without any lifespan, and ends
  the lifespan when every request was answered or cancelled. A crash leaves the same rows as
  cancelling every request at once, and is not a step of its own.
- *Bodies* are what FastAPI refuses or lets through: malformed JSON before anything else, so that it is
  answered 422 without a token, and a body that does not validate later; a malformed key stands for every refusal
  of the header parser but the length. A token is accepted, rejected, or cannot be verified.
- `/readyz` reads `readiness` and asks the database again; it changes nothing and is left out.
- In fake mode the lifespan builds a second store; nothing arrives before it, so this is one.

In fake mode `FakeIdempotentUnitOfWork` stands for the database: none of its methods
suspends, so its transactions are steps here, too, and its `claim` decides like the real one.

Two things met on the way, neither contradicted by a promise: a key of more than 255 bytes
that `max_idempotency_key_bytes` admits ends as `internal_server_error`, since
`RequestContext` does not hold it; and the handler that answers 409
`idempotency_ownership_lost` is never reached, as the services wrap that exception.

### Policy, Retrieval, SalesRules, Coordinator

What a chat request is answered. `Policy`, `Retrieval` and `SalesRules` have no variables:
they are the algorithms of `policy/`, `rag/` and `sales/` as operators, which `Coordinator`
(`orchestration/coordinator.py`) calls in the order of `run`.

| Model | Code |
|---|---|
| `Normalized`, `Candidates`, `ClauseStart`, `Stance`..., `Resolve`, `Decide` | `policy/normalization.py`, `candidates.py`, `stance.py`, `resolver.py`, `engine.py` |
| `Rules`, `Patterns`, `QuotePairs` | the catalogues: one phrase of each kind that the code treats alike |
| `Retrieve`, `RankAndFilter` (with `Foremost`), `LocalQuery`, `ExternalQuery`, `FallbackQuery` | `rag/module.py`, `local_client.py`, `external_client.py`, `factory.py` |
| `RouteIntent`, `RouteTask`, `CanTransition`, `DealScore`, `HealthScore` | `sales/`, `orchestration/task_router.py` |
| `request` | the text, and everything the turn reads: entry, override, session, classifier, files, reply, customers |
| `at`, `decision`, `route`, `rag`, `trace`, `answer` | where `run` is, and its locals |
| `DecidePolicy`, `Refuse`, `RouteRequest`, `RunQa` ... `RunEmail`, `Finish` | the stages of `run` and the five tasks |
| `FailEarly` | the exits before the policy: no input on the command line, two sessions that differ |
| `queries` | history: whether knowledge or customers were read |

- *A text is a sequence of tokens*: a risk phrase, half of the one phrase that is also
  matched across spaces, a marker, a delimiter, or `word`. What the code does with positions
  (clauses, sentences, quotations, overlaps) is kept; spelling is not.
- `Normalized` is what the code does, newlines included: they become spaces before the clauses are
  cut, although `"\n"` is among the delimiters of `stance.py:13`.
- Confidences are percentages; Python's rounding of halves to even is modelled.
- The intent router's second quotient, the winner's share of all scores, is never the larger one.

### LlmClient, AgentLoop

`LlmClient` is one call of a model: the registry and the factory (`config.py`,
`llm/factory.py`), and the attempts of the three
clients. `AgentLoop` is `agent.py`: which agent,
the loop of calls and tools, and `Execute` of `SalesRules` for the tools.

| Model | Code |
|---|---|
| `ValidRegistry`, `ClientOf`, `IsConfigured`, `Creates` | `_build_model_registry`, `resolve_runtime`, `create_llm_client`, `Agent()` |
| `llm` | a call: attempts, time since it began, pauses so far, read timeouts, response |
| `ReadTimeout`, `ConnectFails`, `RetryableStatus`, `PostFails`, `Replies`, `DeadlineExceeded` | the branches of `DashScopeClient.chat` |
| `AnthropicFails`, `AnthropicReplies` | `AnthropicClient`, which has neither budget nor deadline |
| `phase`, `round`, `messages`, `pending`, `results`, `called` | `RealAgent.process`, and `MockAgent` |
| `profile`, `ExecuteTool` | the stored customer; `registry.execute` with all a tool does |

- Time is counted in half seconds from the start of the call. An attempt takes any of
  `Durations`, a pause may last longer than asked by any of `Latenesses`.
- An attempt of `AnthropicClient` is one call of its library, with whatever that repeats by itself; the
  client's own pauses double from `RetryBaseDelay`. `MaxRetries` stands for the setting of either client.
- Tool calls are whatever a model may send: unknown tools, stages and statuses, aliases that are no
  strings, names and industries of the wrong kind, which no assignment checks, arguments that collide
  with a parameter. A name or alias is fit, `"invalid"` (hashable, but refused when the file is loaded) or
  `"unhashable"` (the alias file, written after the profile, raises `TypeError`).

### Operations

One operations command: audit, doctor, integrity or prune, from the start of its engine to
its exit code, usage errors included, while other transactions claim, expire and lock the same records. `failed`,
`integrity` and `verdict` are the report; `pool` is the engine, whose disposal may time out.
Whether the checks find something is free; the order in which findings decide the code is not.

### Turns

`Turns` composes the Coordinator, the agent and the commands. They share no variable, in the
model as in the code (the coordinator does not call the agent), so a behaviour is one turn of either or
one command.

### MC*, *_proof

The instances for TLC, and the theorems.

## Runs

| Run | Instance | Shows |
|---|---|---|
| `safety` | 3 calls, 1 of them faulty, 1 key, 1 fingerprint, time 0..3 | what tables, leases and answers satisfy; generations, replay windows and history |
| `progress` | 2 calls, 1 faulty, 3 fingerprints of 2 versions, time 0..2, fairness | refusals have a cause, the ledger is implemented, calls end, stale claims and lost answers are recovered |
| `prune_race` | 2 calls, time 0..3 | a finding: a claim fails when a prune comes between its INSERT and SELECT |
| `clock_skew` | 2 calls, clocks 0 or 2 ahead | a finding: a host clock decides that a reclaim is refused |
| `jwks_lookups` | 3 lookups, 2 kids, lifetimes 2 and 1, time 0..2, prompt, fairness | keys served were current, the negative cache shadows no key, a refresh is shared by who waited for it, refusals rest on recent documents; every lookup ends, through failures and cancellations |
| `jwks_single_flight` | 3 lookups of one kid, fairness | a finding: the lookups queued behind a fetch that fails fetch one after the other |
| `http_requests` | 2 requests for one key, the first with any of 17 headers, 5 configurations, fairness | who may run, that runs are recorded, what each answer means, what is left open, the ledger; requests are answered and the lifespan ends |
| `memory_files` | 2 customers, 2 names, 3 interactions on 2 dates, an index of 2, 4 operations | one fault loses no customer; aliases, names, backups, trash and index |
| `memory_names` | the same | a finding: a shared name finds nobody, or a customer that gave it up |
| `memory_recent` | the same | a finding: the last interaction is the one with the last id |
| `memory_listing` | the same | a finding: a profile that cannot be decoded hides every customer |
| `turns` | 5,000 requests; 2 rounds, 2 calls per round; 2 retries; 3 records in batches of 2 | risks, doubts, tool calls, retries, the customer behind a failed tool, exit codes |

*Bounds of the keyed path.* All durations are one tick, so within three ticks a lease ends, a
replay window ends and a margin passes before a prune. Three calls are an owner, one
that takes over and one that meets what either left; scopes do not interact, so
one is enough. Only `c1` is faulty: a second faulty call adds no new kind of
state, since each failure leaves the tables as some step of a reliable call would
or as they were. Faulty and reliable calls are interchangeable among themselves
(`Symmetry`); the fair run uses none. Deadlock is not checked: when every call has
ended and time has reached `MaxTime`, the instance stops.

*Bounds of the JWKS provider.* Three lookups are one that fetches and two in the queue,
of which the second sees what the first did with its turn. Two kids are one in the
document and one not. In two ticks a document is cached, a negative entry and then the
document expire, and another document, after a rotation or not, takes its place. An event loop
that is not prompt and longer times are left to the proofs, which take any (the safety
properties were model-checked without promptness up to time 4, too). A lookup runs once, so
an instance stops when all have ended and time is up.

*Bounds of the HTTP service.* Two requests are an owner of a key and one that meets it, takes
it over or replays it; requests interact in no other way. The configurations are the demo with
and without OIDC, a test with fake storage and required keys, production, and a demo with
PostgreSQL, raw responses and long keys: each value of each setting, and each refusal of the
gateway. The headers are each way to fail at each stage, and the roles that grant an operation,
grant less, or add raw responses. The instance stops when both requests and the lifespan ended.

*Bounds of the turns.* The texts are all of up to two tokens, and chosen shapes of up to seven in which
phrases, markers and delimiters take every order that a clause, a sentence or a quotation can
make of them; the other requests vary entry, override, session, classifier, files, reply and
customers around eleven texts that reach each intent and task. Two rounds of two calls are a round
that is followed and one that is the last, each with a call before and after a failing one. Two
retries with pauses of 1 to 5 exhaust a budget of 5 and a deadline of 9 at each attempt; with a base
delay of 2 Anthropic's pauses are 2 and 4, beyond that budget, as its code lets them be.
Three records in batches of two are a full batch and one that is not; two batches are the limit.
A turn ends, and stays ended (`Ended`), so deadlock is checked.

*Bounds of the stores.* Four operations are a seed, a change, a restore or delete, and one
more save on what that left; each may be cut short at any of its steps, so up to four
faults occur. Two names let customers share, exchange and give up a name. Three
interactions exceed an index of two. No operator chooses among customers or names,
so both are symmetric. The process is idle at the end.

*Fairness.* A call that can take its next step takes it: the event loop runs
every ready coroutine, the database answers or fails every statement within
`statement_timeout` and `lock_timeout`, and the coordinator is a bounded
computation. Nothing is assumed of arrivals, failures, the pruner or time. Likewise for a
lookup: the lock is released by every path and its queue is in order, and
`jwks_timeout_seconds` bounds each fetch. A request's handler is a coroutine, too
(`Handle`), and so is the end of the lifespan (`Release`): a disposal has a timeout. Nothing is
assumed of shutdown, which may never come. The stores have no liveness to speak of:
each operation is a bounded sequence of steps.

*Findings.* Six runs end in a counterexample, each against a sentence of the
repository that `PROJECT.json` quotes: `prune_race` and `clock_skew`
(`docs/project-walkthrough.md`, 1295 and 897), `jwks_single_flight`
(`docs/phases/m1_3_oidc_jwt_authorization_closeout.md`, 49), and `memory_names`,
`memory_listing` and `memory_recent` (comments in `memory/`: 189 and 142 of the one
file, 168 of the other). Two are errors of the code. In `memory_recent` the health score rests on the wrong contact. In
`memory_listing` one profile that a restore left cut inside a character makes `list_all` raise instead of
skipping it.

## Proofs

`IdempotentExecution_proof` proves, for any number of calls, scopes and
fingerprints, any durations and any skews, from the `ASSUME`s of
`IdempotentExecution` alone:

- `TypeCorrect`, then the inductive invariant `IInv` (`IInvInvariant`);
- from it the invariants `OpenRequestHoldsClaim`, `TerminalClaimResolves` and
  `LiveLeaseIsExclusive`, the action properties `GenerationsAdvance` and
  `HistoryIsFinal`, and that the tables implement `RequestLedger`;
- from the stronger `StoryInv`, the invariants `TablesAgree` and `AnswersAreDurable` and
  the action properties `NoClaimInReplayWindow` and `RefusalsHaveACause`.

None of these invariants is inductive alone. That a request in progress owns its
claim (`OpenInv`) survives a new claim only because a record's owner is as open or
closed as the record (`RecordInv`), which survives because a call that has not
claimed has written nothing (`FreshInv`). That a live lease excludes others
(`LeaseInv`) survives a reclaim only because the time a claim is decided on is past
(`ClockInv`) and the lease in the token is the one in the row. Steps that write no
table are handled once (`QuietStep`), the three ways to claim once (`ClaimStep`),
and so are the two ways to finalize (`FinalizeStep`). `IInv` was checked by TLC on
the `safety` instance before it was proved.

`StoryInv` adds four parts. `RowsInv` says that the rows of a call are in one of five states
(unwritten, opened, executed, failed, replayed), each with all of its request, run and audit
trail; the checker's issues and the disagreements it does not look for are combinations that none of
the five has. `OwnerInv` ties a record to its owner's fingerprint, version and lease, which is what
a refused call compared itself with. `AnswerInv` says what a call was told by where it is, and
`WindowInv` that the row of a completed execution is still its own until its replay window is over,
so that the pruner and a reacquisition, which look at the row alone, honour the window.

`JwksProvider_proof` proves, for any lookups, kids and lifetimes, every safety property
of `JwksProvider` that the passing runs check. `NegativeEntriesAreCurrent` and
`ServedKeysWereCurrent` follow from what the cache holds (`IInv` relates `cached`,
`expires_at` and `withdrawn_at`). `RefusalsAreRecent` needs the queue: as the lock is
fair, whoever queued later observed a generation at least as new, so a document newer
than the one observed was cached after the lookup began, and a lookup whose turn comes
finds either that or one it must refresh.

`HttpService_proof` proves, for any requests, users, keys, headers
and configurations, every safety property that `http_requests` checks; its first part is the lifespan alone. A request's part of the
invariant (`Local`) says what it has passed to be at its stage (`Passed`), what its row may be
where its call is (`Positioned`), and what an exception or result that has not been answered
yet left behind (`RaisedAgrees`). A step of one request disturbs another only by taking
over its key, which closes a row that is in progress (`UnmovedKeepsLocal`), so it is enough to
look at the request that moves (`StepOfOne`). A replay's answer rests on its source staying
completed (`SourcesAreCompleted`), which holds as no step changes a completed row.
That the rows implement `RequestLedger` (`RowsAreALedger`) needs one more invariant, that who holds
a key is no replay (`HoldersAreOriginals`): each step then opens, ends, hands over or replays one
request of the ledger, or writes no row (`ExecuteWrites` and the lemmas beside it).

`SalesMemory_proof` proves, for any customers, names, ids and any number of operations,
every property that `memory_files` checks. The invariant says what each step of an
operation may count on: a save about to replace the only readable copy of a customer has
its successor in memory or a whole backup beside it; a profile is torn only by a restore,
and stays torn only after a fault; a name that any file could bring back has been
claimed; the index lags only where the last operation was interrupted. `SoleNamesLead` is
as strong as the code: a name that one customer alone ever had finds that customer by the alias file, or
by the search unless some profile cannot be decoded, although alias files may be lost on the way.

`AgentLoop_proof`, `Operations_proof`, `Policy_proof` and `Turns_proof` prove every property that
`turns` checks, for any clients, requests, tool calls, profiles, budgets, durations, rounds, records
and batches. A text, a directory of files and a conversation may have any length:

- `CallsStayInBudget`: attempts for every client; budget, read timeouts and deadline for DashScope; for
  Anthropic, which has none of the three, exactly the pauses of its doubling schedule. `CallInv` adds
  what an attempt needs: that a call that is still posting has read timeouts left (`Patient`).
  `PausesAssumption`, that 2^0 is 1 and each further power a natural number twice the one before,
  stands for arithmetic the provers lack.
- `EveryToolCallIsAnswered`. `ConversationInv` ties the length of the conversation to the round, and
  says of a round in progress that what has a result and what is pending are together what was
  asked, in order (`ResultMoves`).
- `FailuresLeaveTheCustomer`, from `ToolsKeepTheCustomer`: what each tool leaves of any profile. After a
  reported failure the stored customer is as it was, or a file that no reader loads; the
  code keeps no more than that, as its last step, the alias file, comes after the save.
- `CommandsEarnTheirVerdicts`. `OpsInv` says where each report may come from, and that
  the pruner deleted at most a batch for each round (`NextBatch`).
- `DecisionsHandleRisks`: what `RisksAreHandled` says of a decision, for every text. A phrase is
  excused by a word of its clause (`ExcusedIsTakenBack`), no such word loses to a word that asks
  (`TakenBackIsNotRequested`), and another clause behind a text neither moves a phrase or its clause,
  but for a space, nor changes its stance (`NormalizedLonger`, `StillSpelt`, `SameEnd`, `SameStance`),
  the cut after 20,000 characters included.
- `RisksAlwaysHandled` and `DoubtsAlwaysCarried` of every turn. `DoubtInv` says what the trace holds at
  each stage (`TraceInv`), that the decision stays the one for the request (`DecisionInv`), what the result of a
  retrieval admits (`SourcesInv`, from `RagQueryOf`), and that no later stage claims more
  (`AnswerInv`).
- `EvidenceRanksHighest`: what a sort and a slice promise of `Retrieve` and `RankAndFilter`. Density,
  score and path are strict orders (`RankingsOf`), and of a finite set under one those with fewer than
  a limit ahead are as many as the limit admits and stand before the others (`LeadingOf`).
- `StagesAndScoresStayValid`: assignments by tools are not validated in the code, and yet every stage,
  status and score stays one that the schema admits, levels included. It says nothing of the name, the
  industry and the aliases, which tools do leave unfit to be loaded. Scores are sums of any number of
  penalties and of weights of any dimensions (`PenaltiesOf`, `WeightedSumOf`), clamped (`DealOf`); the
  health score needs no clamp, as each part is within 20 (`HealthOf`).
- of `Turns`: `QuestionsNeedNoCustomer` and `RefusedTurnsTouchNothing`, which callers rely on by
  themselves, and with `PartsComposed` and `FailuresLeaveTheCustomerInTurns` all of the above for
  the composition.

Normalization is a fold over the text and the confidence of a local answer a sum over a set, which
the community modules define by recursive functions. `FoldExists` says that such a function exists;
it and what a fold preserves (`FoldValues`) rest on `SetInduction`: a set that has 0 and with each
natural its successor has all of them, as a nonempty set of naturals has a smallest element. So no
library theorem with an operator for a parameter is needed. The models avoid what has no such handle:
`Retrieve` and `RankAndFilter` give the set of files that a sort and a slice would keep
(`Foremost`) instead of sorting.

`RequestsAssumption` says that a request's text is a sequence of strings, its files a sequence of
records and the confidence in a reply an integer. `Token`, in the proofs, is `STRING` with a few
literals listed, because that a literal is a string is not known to the provers.

Each inductive invariant was checked by TLC before it was proved.

Only model-checked: the liveness properties (`EveryCallEnds`, `StaleClaimIsRecovered`,
`CommittedResultIsReplayed`, `EveryLookupEnds`, `EveryRequestIsAnswered`, `LifespanEnds`), which need
fairness and ENABLED and so are out of the prover's reach. The runs that expect a violation refute their
properties.

## What the models met on the way

No document contradicts these, or no run is spent on them; each is what the code does, and so what
the modules do.

- `RealAgent` passes `max_tool_rounds=1` (`agent.py:206`), so `AnthropicClient` (`llm/anthropic_client.py:141`)
  drops every request for a tool; a call it gives up on is no terminal failure, and
  its text counts as an answer.
- `DeepSeekClient` has no `is_configured`: the definition at `llm/deepseek_client.py:310` is nested in
  another function, behind its return.
- A tool argument called `name`, `tool` or `self` raises `TypeError` outside
  `safe_execute` (`agent.py:236`, `tools/registry.py:47`) and ends the turn.
- `customer_memory_update` does not validate on assignment: a name, industry or alias of the wrong
  kind is saved, reported as success, and the customer can no longer be loaded. A name or
  alias that cannot be hashed is saved first and reported as a failure after; that file is not loaded
  again, either (`FailedChangesAreNeverRead`).
- A knowledge file whose JSON is no object fails every local and fallback query (`rag/module.py:41`).
- The health score's lowest decay, 0.1, is never applied; the configured score levels are not read.
- `docs/project-walkthrough.md:717` says that a classifier that raises leaves a request safe; the
  code always makes it uncertain, the stricter of the two.
- httpx timeouts bound each wait of an attempt, so a call may outlast its deadline by an attempt.
- `create_llm_client` takes the standard profile whatever `default_profile` says.
- `docs/operations/persistence_doctor.md:13` lists an exit code 6 that nothing produces, and its line 3
  calls any timeout incomplete; a statement timeout or a missing permission among the first checks of
  the doctor ends them as 3, with `complete` true and no integrity scan. Without a URL the engine fails
  first, so the doctor says 2 only of another persistence mode, while a prune is a usage error, 2. A
  prune that stops at its batch limit ends with 0 and `complete` false. A disposal that times out
  replaces the report of a prune that deleted rows by a 3. `complete` says nothing of rows that others
  had locked.
- The type invariant of `SalesMemory` (`TypeOK`) is proved and is not among the runs' properties.

## Plan

1. Seeding with `--clear` and the interactions it leaves behind, which needs a customer's
   generation in `SalesMemory`.

## Not modelled, and why

- Redaction and logging (`observability/`), the configuration's parsing, the runtime
  builder's wiring: no state, or text only. The bounds that configuration enforces are
  `ASSUME`s.
- `evaluation/` and the release evidence: offline tools over recorded data.
- The prompts, the wording of answers, templates and the LLM's text: data no property tells apart.
- The commands that list customers and run evaluations: they read and print.
- PostgreSQL, the HTTP endpoint of the issuer and the file system are external: their rows,
  locks, responses and renames appear as the code uses them.
- The injected failures of the fakes and the null repository: for the repository's tests.
- The backup and restore drill and the other programs of `scripts/`: they drive external tools.
