------------------------ MODULE ApplicationLifecycle ------------------------
(***************************************************************************)
(* What create_app and its lifespan start and stop in one worker: the HTTP *)
(* client of the identity provider, the database engine with its pool, the *)
(* dependencies of the routes, and readiness.  The lifespan owns what it   *)
(* has started through a stack of callbacks, and runs them in reverse when *)
(* the startup fails half way and when the server stops.                   *)
(***************************************************************************)
EXTENDS Sequences

CONSTANT Configs  \* the configurations the application may be given

Persistence == {"null", "fake", "postgres"}

Config ==
  [runtime : {"demo", "test", "production"}, oidc : BOOLEAN,
   persistence : Persistence, header : {"optional", "required"}, raw : BOOLEAN,
   longKeys : BOOLEAN]  \* max_idempotency_key_bytes > 255

\* AppConfig refuses the others.
Valid(c) ==
  /\ c.persistence = "null" => c.header = "optional"
  /\ c.persistence = "fake" => c.runtime = "test"
  /\ c.runtime = "production" => c.oidc /\ c.persistence = "postgres"

ASSUME ConfigsAssumption == Configs \subseteq {c \in Config : Valid(c)}

VARIABLES
  config,        \* the configuration of this application
  phase,         \* where the lifespan is
  stack,         \* what it has to release, the last one started first
  readiness,     \* app.state.readiness
  dependencies,  \* app.state.dependencies are built
  verifier,      \* app.state.security_service can verify a token
  client,        \* the HTTP client
  engine,        \* the DatabaseEngine
  pool           \* the connections of the engine it has created

lifecycleVars ==
  <<config, phase, stack, readiness, dependencies, verifier, client, engine, pool>>

Postgres == config.persistence = "postgres"
Starting == {"identity", "engine", "connectivity", "revision", "composition"}
Phases == {"created", "serving", "releasing", "disposing", "ended"} \cup Starting

\* create_app builds the dependencies that need no database.
LifecycleInit ==
  /\ config \in Configs
  /\ phase = "created"
  /\ stack = <<>>
  /\ dependencies = ~Postgres
  /\ readiness = ~Postgres
  /\ verifier = FALSE
  /\ client = "none"
  /\ engine = "none"
  /\ pool = "none"

Enter ==
  /\ phase = "created"
  /\ phase' = "identity"
  /\ readiness' = FALSE
  /\ UNCHANGED <<config, stack, dependencies, verifier, client, engine, pool>>

\* Mutant: what was started is not remembered.
StackedNever(what) == stack

Stacked(what) == <<what>> \o stack

StartIdentity ==
  /\ phase = "identity"
  /\ phase' = "engine"
  /\ IF config.oidc
     THEN /\ client' = "open"
          /\ stack' = Stacked("client")
          /\ verifier' = TRUE
     ELSE UNCHANGED <<client, stack, verifier>>
  /\ UNCHANGED <<config, readiness, dependencies, engine, pool>>

\* DatabaseEngine.start creates the engine; it opens no connection yet.
StartEngine ==
  /\ phase = "engine"
  /\ IF Postgres
     THEN /\ engine' = "started"
          /\ pool' = "open"
          /\ stack' = Stacked("engine")
          /\ phase' = "connectivity"
     ELSE /\ phase' = "composition"
          /\ UNCHANGED <<engine, pool, stack>>
  /\ UNCHANGED <<config, readiness, dependencies, verifier, client>>

CheckConnectivity ==
  /\ phase = "connectivity"
  /\ phase' = "revision"
  /\ UNCHANGED <<config, stack, readiness, dependencies, verifier, client, engine, pool>>

CheckRevision ==
  /\ phase = "revision"
  /\ phase' = "composition"
  /\ UNCHANGED <<config, stack, readiness, dependencies, verifier, client, engine, pool>>

Compose ==
  /\ phase = "composition"
  /\ phase' = "serving"
  /\ dependencies' = TRUE
  /\ readiness' = TRUE
  /\ UNCHANGED <<config, stack, verifier, client, engine, pool>>

\* Mutant: readiness survives the lifespan.
ReadinessAfterKept == readiness

\* The first statement of the finally clause.
ReadinessAfter == FALSE

\* The HTTP client cannot be made, the TLS settings are invalid, the database is
\* not reached or its revision is another.
StartupFails ==
  /\ \/ phase = "identity" /\ config.oidc
     \/ phase \in {"engine", "connectivity", "revision"} /\ Postgres
  /\ phase' = "releasing"
  /\ readiness' = ReadinessAfter
  /\ UNCHANGED <<config, stack, dependencies, verifier, client, engine, pool>>

Shutdown ==
  /\ phase = "serving"
  /\ phase' = "releasing"
  /\ readiness' = ReadinessAfter
  /\ UNCHANGED <<config, stack, dependencies, verifier, client, engine, pool>>

\* Mutant: a callback that was run is not forgotten.
CloseClientKept ==
  /\ phase = "releasing"
  /\ stack # <<>>
  /\ Head(stack) = "client"
  /\ client' = "closed"
  /\ UNCHANGED <<config, phase, stack, readiness, dependencies, verifier, engine, pool>>

CloseClient ==
  /\ phase = "releasing"
  /\ stack # <<>>
  /\ Head(stack) = "client"
  /\ stack' = Tail(stack)
  /\ client' = "closed"
  /\ UNCHANGED <<config, phase, readiness, dependencies, verifier, engine, pool>>

\* DatabaseEngine.stop forgets the engine before it waits for the disposal.
StopEngine ==
  /\ phase = "releasing"
  /\ stack # <<>>
  /\ Head(stack) = "engine"
  /\ stack' = Tail(stack)
  /\ engine' = "stopped"
  /\ phase' = "disposing"
  /\ UNCHANGED <<config, readiness, dependencies, verifier, client, pool>>

\* A disposal that takes too long is abandoned and raises; the callbacks that
\* remain are run all the same.
Dispose ==
  /\ phase = "disposing"
  /\ phase' = "releasing"
  /\ pool' \in {"closed", "abandoned"}
  /\ UNCHANGED <<config, stack, readiness, dependencies, verifier, client, engine>>

End ==
  /\ phase = "releasing"
  /\ stack = <<>>
  /\ phase' = "ended"
  /\ UNCHANGED <<config, stack, readiness, dependencies, verifier, client, engine, pool>>

Start ==
  \/ StartIdentity \/ StartEngine \/ CheckConnectivity \/ CheckRevision \/ Compose
  \/ StartupFails

Release == CloseClient \/ StopEngine \/ Dispose \/ End

LifecycleNext == Enter \/ Start \/ Shutdown \/ Release

-----------------------------------------------------------------------------

LifecycleTypeOK ==
  /\ config \in Configs
  /\ phase \in Phases
  /\ stack \in {<<>>, <<"client">>, <<"engine">>, <<"engine", "client">>}
  /\ readiness \in BOOLEAN
  /\ dependencies \in BOOLEAN
  /\ verifier \in BOOLEAN
  /\ client \in {"none", "open", "closed"}
  /\ engine \in {"none", "started", "stopped"}
  /\ pool \in {"none", "open", "closed", "abandoned"}

(* Whatever way the lifespan ended, at whatever point its startup failed and    *)
(* whether or not a disposal timed out, the HTTP client is closed, the engine   *)
(* is stopped and its pool was disposed of (api/app.py: AsyncExitStack).        *)
NothingLeftOpen ==
  phase = "ended" => client # "open" /\ engine # "started" /\ pool # "open"

(* While the application says it is ready, the routes have their dependencies,  *)
(* a token can be verified where the configuration asks for it once the         *)
(* lifespan has begun, and with PostgreSQL the engine is started and passed     *)
(* both checks.                                                                 *)
ReadyMeansUsable ==
  readiness =>
    /\ dependencies
    /\ phase \in {"created", "serving"}
    /\ phase = "serving" => (config.oidc => verifier /\ client = "open")
    /\ Postgres => phase = "serving" /\ engine = "started" /\ pool = "open"

(* A lifespan that has begun to stop ends, whatever fails on the way.           *)
LifespanEnds == phase = "releasing" ~> phase = "ended"

=============================================================================
