---------------------------- MODULE JwksProvider ----------------------------
(***************************************************************************)
(* RemoteJwksProvider: the signing keys of an issuer, cached in one        *)
(* process and refreshed under an asyncio.Lock.  A lookup is one call of   *)
(* get_signing_key by a request's coroutine.  Coroutines interleave only   *)
(* where they await: for the lock, and while the document is fetched.      *)
(* Everything between two awaits is one step.                              *)
(*                                                                         *)
(* The issuer publishes a set of key ids and may replace it at any time.   *)
(* A fetch takes time: the document is what the issuer published when it   *)
(* responded, and it enters the cache when all of it has been received and *)
(* validated.                                                              *)
(***************************************************************************)
EXTENDS Naturals

CONSTANTS
  Lookups,      \* calls of get_signing_key
  Kids,         \* key ids
  None,         \* no lookup, no kid
  Ttl,          \* jwks_cache_ttl_seconds
  NegativeTtl,  \* negative_kid_ttl_seconds
  Prompt,       \* whether a lookup whose turn it is runs before the next tick
  MaxTime       \* bound on the clock

ASSUME NamesAssumption == None \notin Lookups /\ None \notin Kids
\* OIDCConfig requires both lifetimes to be positive.
ASSUME LifetimesAssumption ==
  /\ Ttl \in Nat \ {0} /\ NegativeTtl \in Nat \ {0}
  /\ Prompt \in BOOLEAN /\ MaxTime \in Nat

VARIABLES
  now,           \* the monotonic clock
  published,     \* the issuer's key ids
  withdrawn_at,  \* history: when the issuer withdrew each kid it does not publish
  keys,          \* _positive_keys
  expires_at,    \* _positive_cache_expires_at
  negative,      \* _negative_kids, by kid
  generation,    \* _generation
  holder,        \* who holds _refresh_lock
  phase,         \* where each lookup is
  kid,           \* what each lookup asks for
  observed,      \* its observed_generation
  ahead,         \* who was queued for the lock when it queued
  response,      \* the document the holder is receiving
  outcome,       \* what each lookup was told
  cached,        \* history: when keys were published, and when they were cached
  began,         \* history: when each lookup began
  seen           \* history: the fetches, by kid and result, it waited through

cache == <<keys, expires_at, negative, generation, cached>>
issuer == <<published, withdrawn_at>>
lookups == <<holder, phase, kid, observed, ahead, response, outcome, began, seen>>
vars == <<now, published, withdrawn_at, keys, expires_at, negative, generation, holder,
          phase, kid, observed, ahead, response, outcome, cached, began, seen>>

-----------------------------------------------------------------------------
(* The cache. *)

\* No entry: it expired before the clock began.
NoEntry == [generation |-> 0, expires_at |-> 0]
NoResponse == [keys |-> {}, at |-> 0]

Live == now < expires_at

\* _negative_hit.
NegativeHit(k) ==
  /\ negative[k].generation = generation
  /\ negative[k].expires_at > now

Served(k) == Live /\ k \in keys
Refused(k) == Live /\ k \notin keys /\ NegativeHit(k)
Missed(k) == ~Served(k) /\ ~Refused(k)

\* Mutant: an entry is remembered for as long as the document.
EntryAtLong(gen) == [generation |-> gen, expires_at |-> now + Ttl]

\* The negative entry of a lookup that found no key in generation gen.
EntryAt(gen) == [generation |-> gen, expires_at |-> now + NegativeTtl]

-----------------------------------------------------------------------------
(* The lock.  asyncio.Lock is fair: who finds it held, or finds others     *)
(* queued, queues behind them; a cancelled waiter leaves the queue.        *)

Waiting == {l \in Lookups : phase[l] = "waiting"}
LockFree == holder = None /\ Waiting = {}
Turn(l) == phase[l] = "waiting" /\ holder = None /\ ahead[l] \cap Waiting = {}

\* Every lookup still queued has now waited through a fetch for kid k.
Witnessed(k, result) ==
  [m \in Lookups |-> IF phase[m] = "waiting" THEN seen[m] \cup {<<k, result>>} ELSE {}]

End(l, what) ==
  /\ phase' = [phase EXCEPT ![l] = "ended"]
  /\ outcome' = [outcome EXCEPT ![l] = what]

\* The locals of a lookup end with it.
Forget(l) ==
  /\ observed' = [observed EXCEPT ![l] = 0]
  /\ ahead' = [ahead EXCEPT ![l] = {}]
  /\ began' = [began EXCEPT ![l] = 0]

-----------------------------------------------------------------------------
(* get_signing_key up to the lock: one step, since nothing is awaited.     *)

Begin(l, k) ==
  /\ phase[l] = "idle"
  /\ kid' = [kid EXCEPT ![l] = k]
  /\ UNCHANGED <<now, issuer, cache, response, seen>>

ServeAtOnce(l, k) ==
  /\ Begin(l, k)
  /\ Served(k)
  /\ End(l, "key")
  /\ UNCHANGED <<holder, observed, ahead, began>>

RefuseAtOnce(l, k) ==
  /\ Begin(l, k)
  /\ Refused(k)
  /\ End(l, "unknown")
  /\ UNCHANGED <<holder, observed, ahead, began>>

\* A free lock is taken without awaiting, and the second look at the cache
\* sees what the first saw: the lookup goes on to the fetch in the same step.
FetchAtOnce(l, k) ==
  /\ Begin(l, k)
  /\ Missed(k)
  /\ LockFree
  /\ holder' = l
  /\ phase' = [phase EXCEPT ![l] = "fetching"]
  /\ observed' = [observed EXCEPT ![l] = generation]
  /\ began' = [began EXCEPT ![l] = now]
  /\ UNCHANGED <<ahead, outcome>>

Queue(l, k) ==
  /\ Begin(l, k)
  /\ Missed(k)
  /\ ~LockFree
  /\ phase' = [phase EXCEPT ![l] = "waiting"]
  /\ observed' = [observed EXCEPT ![l] = generation]
  /\ ahead' = [ahead EXCEPT ![l] = Waiting]
  /\ began' = [began EXCEPT ![l] = now]
  /\ UNCHANGED <<holder, outcome>>

-----------------------------------------------------------------------------
(* get_signing_key once it has the lock: a second look at the cache, and a *)
(* refresh unless another lookup's refresh came while this one waited.     *)

\* Mutant: whoever missed refreshes, whatever happened while it waited.
RefreshNeededAlways(l) == TRUE

\* Mutant: a document that expired during the wait is not refreshed.
RefreshNeededByGeneration(l) == generation = observed[l]

RefreshNeeded(l) == ~Live \/ generation = observed[l]

ServeAfterWait(l) ==
  /\ Turn(l)
  /\ Served(kid[l])
  /\ End(l, "key")
  /\ Forget(l)
  /\ seen' = [seen EXCEPT ![l] = {}]
  /\ UNCHANGED <<now, issuer, cache, holder, kid, response>>

RefuseAfterWait(l) ==
  /\ Turn(l)
  /\ Refused(kid[l])
  /\ End(l, "unknown")
  /\ Forget(l)
  /\ seen' = [seen EXCEPT ![l] = {}]
  /\ UNCHANGED <<now, issuer, cache, holder, kid, response>>

FetchAfterWait(l) ==
  /\ Turn(l)
  /\ Missed(kid[l])
  /\ RefreshNeeded(l)
  /\ holder' = l
  /\ phase' = [phase EXCEPT ![l] = "fetching"]
  /\ UNCHANGED <<now, issuer, cache, kid, observed, ahead, response, outcome, began, seen>>

\* Another lookup refreshed; what it cached decides.
DecideOnNewDocument(l) ==
  /\ Turn(l)
  /\ Missed(kid[l])
  /\ ~RefreshNeeded(l)
  /\ IF kid[l] \in keys
       THEN End(l, "key") /\ UNCHANGED negative
       ELSE End(l, "unknown") /\ negative' = [negative EXCEPT ![kid[l]] = EntryAt(generation)]
  /\ Forget(l)
  /\ seen' = [seen EXCEPT ![l] = {}]
  /\ UNCHANGED <<now, issuer, keys, expires_at, generation, cached, holder, kid, response>>

-----------------------------------------------------------------------------
(* _fetch_and_validate and _refresh, under the lock. *)

IssuerResponds(l) ==
  /\ phase[l] = "fetching"
  /\ phase' = [phase EXCEPT ![l] = "receiving"]
  /\ response' = [keys |-> published, at |-> now]
  /\ UNCHANGED <<now, issuer, cache, holder, kid, observed, ahead, outcome, began, seen>>

\* Mutant: the new keys are added to those in use.
NewKeysMerged == keys \cup response.keys

NewKeys == response.keys

\* Mutant: the negative entries outlive the refresh.
NegativesAfterKept == negative

\* _negative_kids.clear().
NegativesAfter == [k \in Kids |-> NoEntry]

\* A document without keys is invalid.  After the refresh the lookup is
\* decided on it, in the same step.
Refresh(l) ==
  /\ phase[l] = "receiving"
  /\ response.keys # {}
  /\ keys' = NewKeys
  /\ expires_at' = now + Ttl
  /\ generation' = generation + 1
  /\ cached' = [published |-> response.at, at |-> now]
  /\ IF kid[l] \in NewKeys
       THEN End(l, "key") /\ negative' = NegativesAfter
       ELSE /\ End(l, "unknown")
            /\ negative' = [NegativesAfter EXCEPT ![kid[l]] = EntryAt(generation + 1)]
  /\ seen' = Witnessed(kid[l], "refreshed")
  /\ holder' = None
  /\ response' = NoResponse
  /\ Forget(l)
  /\ UNCHANGED <<now, issuer, kid>>

\* Mutant: a failed refresh leaves the lock held.
ReleasedNever(l) == holder

Released(l) == IF holder = l THEN None ELSE holder

\* JwksUnavailable: a transport error, a timeout, a redirect, a response that
\* is too large, or a document that is not valid.
FetchFails(l) ==
  /\ phase[l] \in {"fetching", "receiving"}
  /\ End(l, "unavailable")
  /\ seen' = Witnessed(kid[l], "failed")
  /\ holder' = Released(l)
  /\ response' = NoResponse
  /\ Forget(l)
  /\ UNCHANGED <<now, issuer, cache, kid>>

\* The request is cancelled where it awaits.
Cancel(l) ==
  /\ phase[l] \in {"waiting", "fetching", "receiving"}
  /\ End(l, "cancelled")
  /\ holder' = Released(l)
  /\ response' = IF holder = l THEN NoResponse ELSE response
  /\ Forget(l)
  /\ seen' = [seen EXCEPT ![l] = {}]
  /\ UNCHANGED <<now, issuer, cache, kid>>

-----------------------------------------------------------------------------
(* The issuer and the clock. *)

Publish(new) ==
  /\ new # published
  /\ published' = new
  /\ withdrawn_at' = [k \in Kids |-> CASE k \in new -> 0
                                       [] k \in published \ new -> now
                                       [] OTHER -> withdrawn_at[k]]
  /\ UNCHANGED <<now, cache, lookups>>

\* If Prompt, a free lock is taken by who waits for it before the next tick: the
\* event loop runs the coroutines that are ready, and ticks are whole lifetimes.
Tick ==
  /\ now < MaxTime
  /\ Prompt => holder # None \/ Waiting = {}
  /\ now' = now + 1
  /\ UNCHANGED <<issuer, cache, lookups>>

-----------------------------------------------------------------------------
Init ==
  /\ now = 0
  /\ published \in SUBSET Kids
  /\ withdrawn_at = [k \in Kids |-> 0]
  /\ keys = {}
  /\ expires_at = 0
  /\ negative = [k \in Kids |-> NoEntry]
  /\ generation = 0
  /\ holder = None
  /\ phase = [l \in Lookups |-> "idle"]
  /\ kid = [l \in Lookups |-> None]
  /\ observed = [l \in Lookups |-> 0]
  /\ ahead = [l \in Lookups |-> {}]
  /\ response = NoResponse
  /\ outcome = [l \in Lookups |-> "pending"]
  /\ cached = [published |-> 0, at |-> 0]
  /\ began = [l \in Lookups |-> 0]
  /\ seen = [l \in Lookups |-> {}]

\* The steps a lookup takes without waiting for anyone, or for the issuer,
\* whose answer jwks_timeout_seconds bounds.
Proceeds(l) ==
  \/ ServeAfterWait(l) \/ RefuseAfterWait(l) \/ FetchAfterWait(l) \/ DecideOnNewDocument(l)
  \/ IssuerResponds(l) \/ Refresh(l) \/ FetchFails(l)

Next ==
  \/ \E l \in Lookups, k \in Kids :
       ServeAtOnce(l, k) \/ RefuseAtOnce(l, k) \/ FetchAtOnce(l, k) \/ Queue(l, k)
  \/ \E l \in Lookups : Proceeds(l) \/ Cancel(l)
  \/ \E new \in SUBSET Kids : Publish(new)
  \/ Tick

Spec == Init /\ [][Next]_vars
Fairness == \A l \in Lookups : WF_vars(Proceeds(l))
FairSpec == Spec /\ Fairness

-----------------------------------------------------------------------------
Phases == {"idle", "waiting", "fetching", "receiving", "ended"}
Outcomes == {"pending", "key", "unknown", "unavailable", "cancelled"}

\* Every variable has its type, and the lock is held by the one lookup that
\* fetches.
TypeOK ==
  /\ now \in Nat /\ expires_at \in Nat /\ generation \in Nat
  /\ published \subseteq Kids /\ keys \subseteq Kids
  /\ withdrawn_at \in [Kids -> Nat]
  /\ negative \in [Kids -> [generation : Nat, expires_at : Nat]]
  /\ holder \in Lookups \cup {None}
  /\ phase \in [Lookups -> Phases]
  /\ \A l \in Lookups : phase[l] \in {"fetching", "receiving"} <=> holder = l
  /\ kid \in [Lookups -> Kids \cup {None}]
  /\ \A l \in Lookups : phase[l] # "idle" => kid[l] \in Kids
  /\ observed \in [Lookups -> Nat]
  /\ ahead \in [Lookups -> SUBSET Lookups]
  /\ response \in [keys : SUBSET Kids, at : Nat]
  /\ outcome \in [Lookups -> Outcomes]
  /\ cached \in [published : Nat, at : Nat]
  /\ began \in [Lookups -> Nat]
  /\ seen \in [Lookups -> SUBSET (Kids \X {"refreshed", "failed"})]

\* An entry of the negative cache belongs to the document in use and names a
\* key the document lacks, so no lookup is refused a key that is cached:
\* _refresh replaces keys, generation and entries together, and every other
\* entry is written under the lock.
NegativeEntriesAreCurrent ==
  \A k \in Kids : negative[k] # NoEntry =>
    negative[k].generation = generation /\ k \notin keys

Ends(l, what) == outcome[l] = "pending" /\ outcome'[l] = what

\* A key is only served within Ttl of the moment its document was cached, and
\* only if the issuer still published it when it produced that document:
\* expired documents are not used, and a refresh leaves no key of the old one.
ServedKeysWereCurrent ==
  [][\A l \in Lookups : Ends(l, "key") =>
       /\ now < cached'.at + Ttl
       /\ \/ kid'[l] \in published
          \/ withdrawn_at[kid'[l]] >= cached'.published]_vars

\* A lookup that ends at its first step began at it.
Began(l) == IF phase[l] = "idle" THEN now ELSE began[l]

\* If woken lookups are Prompt, a lookup is only refused on a document that was
\* cached since the lookup began, or less than NegativeTtl ago: neither the queue
\* for the lock, nor the comparison of generations after it, nor the negative
\* cache makes a lookup rely on an older one.
RefusalsAreRecent ==
  [][\A l \in Lookups : Prompt /\ Ends(l, "unknown") =>
       /\ now < cached'.at + Ttl
       /\ \/ cached'.at >= Began(l)
          \/ now < cached'.at + NegativeTtl]_vars

StartsFetch(l) == phase[l] = "waiting" /\ phase'[l] = "fetching"

\* A lookup that waited through a successful refresh does not fetch again
\* while that document lives.
RefreshIsShared ==
  [][\A l \in Lookups : StartsFetch(l) /\ Live =>
       \A k \in Kids : <<k, "refreshed">> \notin seen[l]]_vars

\* Every lookup that begins is answered, refused, told that keys are unavailable
\* or cancelled: nothing leaves the lock held or a waiter behind.
EveryLookupEnds == <>[](\A l \in Lookups : phase[l] \in {"idle", "ended"})

\* Of concurrent lookups of one kid, one fetches, as
\* docs/phases/m1_3_oidc_jwt_authorization_closeout.md:49 says.
OneFetchPerKid ==
  [][\A l \in Lookups : StartsFetch(l) =>
       \A result \in {"refreshed", "failed"} : <<kid[l], result>> \notin seen[l]]_vars
=============================================================================
