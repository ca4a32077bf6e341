------------------------- MODULE JwksProvider_proof -------------------------
(* Theorems about JwksProvider, for every value of its constants. *)
EXTENDS JwksProvider, TLAPS

-----------------------------------------------------------------------------
(* The inductive invariant. *)

\* The lifetimes and times of the cache and of the document under way.
LifetimeInv ==
  /\ cached.at <= now
  /\ cached.published <= now
  /\ response.at <= now
  /\ \/ generation = 0 /\ expires_at = 0
     \/ expires_at = cached.at + Ttl

\* The issuer published k at time t or later.
PublishedSince(k, t) == k \in published \/ withdrawn_at[k] >= t

\* What is cached was published when it was fetched, and so is what is under way.
ProvenanceInv ==
  /\ \A k \in keys : PublishedSince(k, cached.published)
  /\ \A k \in response.keys : PublishedSince(k, response.at)

\* What a queued lookup knows: it saw no later generation than the cache's, an
\* earlier one if it waited through a refresh, and then it began before that.
QueuedInv ==
  /\ \A l \in Lookups : phase[l] = "idle" => seen[l] = {}
  /\ \A l \in Waiting :
       /\ observed[l] <= generation
       /\ began[l] <= now
       /\ observed[l] # generation => began[l] <= cached.at
       /\ \A k \in Kids : <<k, "refreshed">> \in seen[l] => observed[l] # generation

\* The queue is an order of lookups that began, and generations rise along it.
OrderInv ==
  /\ \A l, m \in Lookups : phase[l] = "idle" => l \notin ahead[m]
  /\ \A l, m \in Waiting : l # m =>
       /\ l \in ahead[m] \/ m \in ahead[l]
       /\ l \in ahead[m] => observed[l] <= observed[m]

\* If lookups are prompt, whoever queues behind a fetch saw the generation the
\* fetch will replace, and a lookup that saw an earlier one is still in the
\* moment of the refresh.
HandoverInv ==
  Prompt => \A l \in Waiting : observed[l] # generation => holder = None /\ cached.at = now

\* If lookups are prompt, an entry's life is counted from its document.
EntryInv ==
  Prompt => \A k \in Kids : negative[k] # NoEntry =>
              negative[k].expires_at = cached.at + NegativeTtl

IInv ==
  /\ TypeOK
  /\ LifetimeInv
  /\ ProvenanceInv
  /\ QueuedInv
  /\ OrderInv
  /\ HandoverInv
  /\ NegativeEntriesAreCurrent
  /\ EntryInv

-----------------------------------------------------------------------------
(* Types. *)

(* Every step keeps the types, and the lock with the lookup that fetches.     *)
LEMMA TypeStep ==
  ASSUME TypeOK, [Next]_vars
  PROVE  TypeOK'
<1>1. ASSUME NEW l \in Lookups, NEW k \in Kids, ServeAtOnce(l, k) PROVE TypeOK'
  BY <1>1 DEF TypeOK, Phases, Outcomes, ServeAtOnce, Begin, End, cache, issuer
<1>2. ASSUME NEW l \in Lookups, NEW k \in Kids, RefuseAtOnce(l, k) PROVE TypeOK'
  BY <1>2 DEF TypeOK, Phases, Outcomes, RefuseAtOnce, Begin, End, cache, issuer
<1>3. ASSUME NEW l \in Lookups, NEW k \in Kids, FetchAtOnce(l, k) PROVE TypeOK'
  BY <1>3, NamesAssumption DEF TypeOK, Phases, Outcomes, FetchAtOnce, Begin, cache, issuer,
         LockFree
<1>4. ASSUME NEW l \in Lookups, NEW k \in Kids, Queue(l, k) PROVE TypeOK'
  BY <1>4 DEF TypeOK, Phases, Outcomes, Queue, Begin, cache, issuer, Waiting
<1>5. ASSUME NEW l \in Lookups, ServeAfterWait(l) PROVE TypeOK'
  BY <1>5 DEF TypeOK, Phases, Outcomes, ServeAfterWait, End, Forget, cache, issuer, Turn
<1>6. ASSUME NEW l \in Lookups, RefuseAfterWait(l) PROVE TypeOK'
  BY <1>6 DEF TypeOK, Phases, Outcomes, RefuseAfterWait, End, Forget, cache, issuer, Turn
<1>7. ASSUME NEW l \in Lookups, FetchAfterWait(l) PROVE TypeOK'
  BY <1>7, NamesAssumption DEF TypeOK, Phases, Outcomes, FetchAfterWait, cache, issuer, Turn
<1>8. ASSUME NEW l \in Lookups, DecideOnNewDocument(l) PROVE TypeOK'
  BY <1>8, LifetimesAssumption DEF TypeOK, Phases, Outcomes, DecideOnNewDocument, End,
         Forget, EntryAt, cache, issuer, Turn
<1>9. ASSUME NEW l \in Lookups, IssuerResponds(l) PROVE TypeOK'
  BY <1>9 DEF TypeOK, Phases, Outcomes, IssuerResponds, cache, issuer
<1>10. ASSUME NEW l \in Lookups, Refresh(l) PROVE TypeOK'
  <2>1. now + Ttl \in Nat /\ generation + 1 \in Nat
    BY LifetimesAssumption DEF TypeOK
  <2>2. negative' \in [Kids -> [generation : Nat, expires_at : Nat]]
    <3>1. NegativesAfter \in [Kids -> [generation : Nat, expires_at : Nat]]
      BY DEF NegativesAfter, NoEntry
    <3>2. EntryAt(generation + 1) \in [generation : Nat, expires_at : Nat]
      BY LifetimesAssumption DEF TypeOK, EntryAt
    <3> QED BY <3>1, <3>2, <1>10 DEF Refresh
  <2>3. seen' \in [Lookups -> SUBSET (Kids \X {"refreshed", "failed"})]
    BY <1>10 DEF TypeOK, Refresh, Witnessed
  <2>4. /\ phase' = [phase EXCEPT ![l] = "ended"]
        /\ outcome' \in [Lookups -> Outcomes]
    BY <1>10 DEF TypeOK, Refresh, End, Outcomes
  <2>5. /\ observed' \in [Lookups -> Nat] /\ ahead' \in [Lookups -> SUBSET Lookups]
        /\ began' \in [Lookups -> Nat]
    BY <1>10 DEF TypeOK, Refresh, Forget
  <2>6. /\ keys' \subseteq Kids /\ response' \in [keys : SUBSET Kids, at : Nat]
        /\ cached' \in [published : Nat, at : Nat] /\ expires_at' \in Nat /\ generation' \in Nat
    BY <1>10, <2>1 DEF TypeOK, Refresh, NewKeys, NoResponse
  <2>7. /\ now' \in Nat /\ published' \subseteq Kids /\ withdrawn_at' \in [Kids -> Nat]
        /\ kid' = kid /\ holder' = None
    BY <1>10 DEF TypeOK, Refresh, issuer
  <2>8. /\ phase' \in [Lookups -> Phases]
        /\ \A m \in Lookups : phase'[m] \in {"fetching", "receiving"} <=> holder' = m
        /\ \A m \in Lookups : phase'[m] # "idle" => kid'[m] \in Kids
    BY <1>10, <2>4, <2>7, NamesAssumption DEF TypeOK, Phases, Refresh
  <2> QED BY <2>2, <2>3, <2>4, <2>5, <2>6, <2>7, <2>8 DEF TypeOK
<1>11. ASSUME NEW l \in Lookups, FetchFails(l) PROVE TypeOK'
  BY <1>11, NamesAssumption DEF TypeOK, Phases, Outcomes, FetchFails, End, Forget,
         Witnessed, Released, NoResponse, cache, issuer
<1>12. ASSUME NEW l \in Lookups, Cancel(l) PROVE TypeOK'
  BY <1>12, NamesAssumption DEF TypeOK, Phases, Outcomes, Cancel, End, Forget, Released,
         NoResponse, cache, issuer
<1>13. ASSUME NEW new \in SUBSET Kids, Publish(new) PROVE TypeOK'
  BY <1>13 DEF TypeOK, Phases, Outcomes, Publish, lookups, cache, issuer
<1>14. CASE Tick
  BY <1>14 DEF TypeOK, Phases, Outcomes, Tick, lookups, cache, issuer
<1>15. CASE UNCHANGED vars
  BY <1>15 DEF TypeOK, Phases, Outcomes, vars
<1> QED BY <1>1, <1>2, <1>3, <1>4, <1>5, <1>6, <1>7, <1>8, <1>9, <1>10, <1>11, <1>12, <1>13,
       <1>14, <1>15 DEF Next, Proceeds

-----------------------------------------------------------------------------
(* The cache. *)

(* A step that neither fetches, nor decides on a new document, nor ends what   *)
(* another lookup waits for, leaves the cache, the issuer and the clock alone. *)
LEMMA QuietOrNot ==
  ASSUME [Next]_vars
  PROVE  \/ UNCHANGED <<now, issuer, cache, response>>
         \/ \E l \in Lookups :
              \/ DecideOnNewDocument(l) \/ IssuerResponds(l) \/ Refresh(l)
              \/ FetchFails(l) \/ Cancel(l)
         \/ \E new \in SUBSET Kids : Publish(new)
         \/ Tick
  BY DEF Next, Proceeds, vars, cache, issuer, ServeAtOnce, RefuseAtOnce, FetchAtOnce, Queue,
         Begin, ServeAfterWait, RefuseAfterWait, FetchAfterWait

(* The document in use is dated when it was cached.                            *)
LEMMA LifetimeStep ==
  ASSUME TypeOK, LifetimeInv, [Next]_vars
  PROVE  LifetimeInv'
<1>1. CASE UNCHANGED <<now, issuer, cache, response>>
  BY <1>1 DEF TypeOK, LifetimeInv, issuer, cache
<1>2. ASSUME NEW l \in Lookups, DecideOnNewDocument(l) PROVE LifetimeInv'
  BY <1>2 DEF TypeOK, LifetimeInv, DecideOnNewDocument, cache, issuer
<1>3. ASSUME NEW l \in Lookups, IssuerResponds(l) PROVE LifetimeInv'
  BY <1>3 DEF TypeOK, LifetimeInv, IssuerResponds, cache, issuer
<1>4. ASSUME NEW l \in Lookups, Refresh(l) PROVE LifetimeInv'
  BY <1>4, LifetimesAssumption DEF TypeOK, LifetimeInv, Refresh, NoResponse, cache, issuer
<1>5. ASSUME NEW l \in Lookups, FetchFails(l) PROVE LifetimeInv'
  BY <1>5 DEF TypeOK, LifetimeInv, FetchFails, NoResponse, cache, issuer
<1>6. ASSUME NEW l \in Lookups, Cancel(l) PROVE LifetimeInv'
  BY <1>6 DEF TypeOK, LifetimeInv, Cancel, NoResponse, cache, issuer
<1>7. ASSUME NEW new \in SUBSET Kids, Publish(new) PROVE LifetimeInv'
  BY <1>7 DEF TypeOK, LifetimeInv, Publish, lookups, cache, issuer
<1>8. CASE Tick
  BY <1>8 DEF TypeOK, LifetimeInv, Tick, lookups, cache, issuer
<1> QED BY <1>1, <1>2, <1>3, <1>4, <1>5, <1>6, <1>7, <1>8, QuietOrNot

(* What is cached was published when it was fetched.                          *)
LEMMA ProvenanceStep ==
  ASSUME TypeOK, LifetimeInv, ProvenanceInv, [Next]_vars
  PROVE  ProvenanceInv'
<1>1. CASE UNCHANGED <<now, issuer, cache, response>>
  BY <1>1 DEF TypeOK, LifetimeInv, ProvenanceInv, PublishedSince, issuer, cache
<1>2. ASSUME NEW l \in Lookups, DecideOnNewDocument(l) PROVE ProvenanceInv'
  BY <1>2 DEF TypeOK, LifetimeInv, ProvenanceInv, PublishedSince, DecideOnNewDocument,
         cache, issuer
<1>3. ASSUME NEW l \in Lookups, IssuerResponds(l) PROVE ProvenanceInv'
  BY <1>3 DEF TypeOK, LifetimeInv, ProvenanceInv, PublishedSince, IssuerResponds, cache,
         issuer
<1>4. ASSUME NEW l \in Lookups, Refresh(l) PROVE ProvenanceInv'
  BY <1>4 DEF TypeOK, LifetimeInv, ProvenanceInv, PublishedSince, Refresh, NewKeys,
         NoResponse, cache, issuer
<1>5. ASSUME NEW l \in Lookups, FetchFails(l) PROVE ProvenanceInv'
  BY <1>5 DEF TypeOK, LifetimeInv, ProvenanceInv, PublishedSince, FetchFails, NoResponse,
         cache, issuer
<1>6. ASSUME NEW l \in Lookups, Cancel(l) PROVE ProvenanceInv'
  BY <1>6 DEF TypeOK, LifetimeInv, ProvenanceInv, PublishedSince, Cancel, NoResponse, cache,
         issuer
<1>7. ASSUME NEW new \in SUBSET Kids, Publish(new) PROVE ProvenanceInv'
  BY <1>7 DEF TypeOK, LifetimeInv, ProvenanceInv, PublishedSince, Publish, lookups, cache,
         issuer
<1>8. CASE Tick
  BY <1>8 DEF TypeOK, LifetimeInv, ProvenanceInv, PublishedSince, Tick, lookups, cache,
         issuer
<1> QED BY <1>1, <1>2, <1>3, <1>4, <1>5, <1>6, <1>7, <1>8, QuietOrNot

(* A refresh clears the negative entries with the keys they were about.        *)
LEMMA NegativeStep ==
  ASSUME TypeOK, NegativeEntriesAreCurrent, [Next]_vars
  PROVE  NegativeEntriesAreCurrent'
<1>1. CASE UNCHANGED <<now, issuer, cache, response>>
  BY <1>1 DEF TypeOK, NegativeEntriesAreCurrent, issuer, cache
<1>2. ASSUME NEW l \in Lookups, DecideOnNewDocument(l) PROVE NegativeEntriesAreCurrent'
  BY <1>2 DEF TypeOK, NegativeEntriesAreCurrent, DecideOnNewDocument, EntryAt, cache, issuer
<1>3. ASSUME NEW l \in Lookups, IssuerResponds(l) PROVE NegativeEntriesAreCurrent'
  BY <1>3 DEF TypeOK, NegativeEntriesAreCurrent, IssuerResponds, cache, issuer
<1>4. ASSUME NEW l \in Lookups, Refresh(l) PROVE NegativeEntriesAreCurrent'
  BY <1>4 DEF TypeOK, NegativeEntriesAreCurrent, Refresh, NewKeys, NegativesAfter, EntryAt,
         NoEntry, cache, issuer
<1>5. ASSUME NEW l \in Lookups, FetchFails(l) PROVE NegativeEntriesAreCurrent'
  BY <1>5 DEF TypeOK, NegativeEntriesAreCurrent, FetchFails, cache, issuer
<1>6. ASSUME NEW l \in Lookups, Cancel(l) PROVE NegativeEntriesAreCurrent'
  BY <1>6 DEF TypeOK, NegativeEntriesAreCurrent, Cancel, cache, issuer
<1>7. ASSUME NEW new \in SUBSET Kids, Publish(new) PROVE NegativeEntriesAreCurrent'
  BY <1>7 DEF TypeOK, NegativeEntriesAreCurrent, Publish, lookups, cache, issuer
<1>8. CASE Tick
  BY <1>8 DEF TypeOK, NegativeEntriesAreCurrent, Tick, lookups, cache, issuer
<1> QED BY <1>1, <1>2, <1>3, <1>4, <1>5, <1>6, <1>7, <1>8, QuietOrNot

-----------------------------------------------------------------------------
(* The queue. *)

(* A queued lookup knows whether a refresh came while it waited.               *)
LEMMA QueuedStep ==
  ASSUME TypeOK, LifetimeInv, QueuedInv, [Next]_vars
  PROVE  QueuedInv'
<1>1. ASSUME NEW l \in Lookups, NEW k \in Kids, ServeAtOnce(l, k) PROVE QueuedInv'
  BY <1>1 DEF TypeOK, LifetimeInv, QueuedInv, Waiting, ServeAtOnce, Begin, End, cache,
         issuer
<1>2. ASSUME NEW l \in Lookups, NEW k \in Kids, RefuseAtOnce(l, k) PROVE QueuedInv'
  BY <1>2 DEF TypeOK, LifetimeInv, QueuedInv, Waiting, RefuseAtOnce, Begin, End, cache,
         issuer
<1>3. ASSUME NEW l \in Lookups, NEW k \in Kids, FetchAtOnce(l, k) PROVE QueuedInv'
  BY <1>3 DEF TypeOK, LifetimeInv, QueuedInv, Waiting, FetchAtOnce, Begin, cache, issuer
<1>4. ASSUME NEW l \in Lookups, NEW k \in Kids, Queue(l, k) PROVE QueuedInv'
  BY <1>4 DEF TypeOK, LifetimeInv, QueuedInv, Waiting, Queue, Begin, cache, issuer
<1>5. ASSUME NEW l \in Lookups, ServeAfterWait(l) PROVE QueuedInv'
  BY <1>5 DEF TypeOK, LifetimeInv, QueuedInv, Waiting, ServeAfterWait, End, Forget, cache,
         issuer
<1>6. ASSUME NEW l \in Lookups, RefuseAfterWait(l) PROVE QueuedInv'
  BY <1>6 DEF TypeOK, LifetimeInv, QueuedInv, Waiting, RefuseAfterWait, End, Forget, cache,
         issuer
<1>7. ASSUME NEW l \in Lookups, FetchAfterWait(l) PROVE QueuedInv'
  BY <1>7 DEF TypeOK, LifetimeInv, QueuedInv, Waiting, FetchAfterWait, cache, issuer
<1>8. ASSUME NEW l \in Lookups, DecideOnNewDocument(l) PROVE QueuedInv'
  BY <1>8 DEF TypeOK, LifetimeInv, QueuedInv, Waiting, DecideOnNewDocument, End, Forget,
         cache, issuer
<1>9. ASSUME NEW l \in Lookups, IssuerResponds(l) PROVE QueuedInv'
  BY <1>9 DEF TypeOK, LifetimeInv, QueuedInv, Waiting, IssuerResponds, cache, issuer
<1>10. ASSUME NEW l \in Lookups, Refresh(l) PROVE QueuedInv'
  BY <1>10, NamesAssumption DEF TypeOK, LifetimeInv, QueuedInv, Waiting, Refresh, End,
         Forget, Witnessed, cache, issuer
<1>11. ASSUME NEW l \in Lookups, FetchFails(l) PROVE QueuedInv'
  BY <1>11 DEF TypeOK, LifetimeInv, QueuedInv, Waiting, FetchFails, End, Forget, Witnessed,
         Released, cache, issuer
<1>12. ASSUME NEW l \in Lookups, Cancel(l) PROVE QueuedInv'
  BY <1>12 DEF TypeOK, LifetimeInv, QueuedInv, Waiting, Cancel, End, Forget, Released,
         cache, issuer
<1>13. ASSUME NEW new \in SUBSET Kids, Publish(new) PROVE QueuedInv'
  BY <1>13 DEF TypeOK, LifetimeInv, QueuedInv, Waiting, Publish, lookups, cache, issuer
<1>14. CASE Tick
  BY <1>14 DEF TypeOK, LifetimeInv, QueuedInv, Waiting, Tick, lookups, cache, issuer
<1>15. CASE UNCHANGED vars
  BY <1>15 DEF TypeOK, LifetimeInv, QueuedInv, Waiting, vars
<1> QED BY <1>1, <1>2, <1>3, <1>4, <1>5, <1>6, <1>7, <1>8, <1>9, <1>10, <1>11, <1>12, <1>13,
       <1>14, <1>15 DEF Next, Proceeds

(* Who queues later saw a generation at least as late.                         *)
LEMMA OrderStep ==
  ASSUME TypeOK, QueuedInv, OrderInv, [Next]_vars
  PROVE  OrderInv'
<1>1. ASSUME NEW l \in Lookups, NEW k \in Kids, ServeAtOnce(l, k) PROVE OrderInv'
  BY <1>1 DEF TypeOK, OrderInv, QueuedInv, Waiting, ServeAtOnce, Begin, End, cache, issuer
<1>2. ASSUME NEW l \in Lookups, NEW k \in Kids, RefuseAtOnce(l, k) PROVE OrderInv'
  BY <1>2 DEF TypeOK, OrderInv, QueuedInv, Waiting, RefuseAtOnce, Begin, End, cache, issuer
<1>3. ASSUME NEW l \in Lookups, NEW k \in Kids, FetchAtOnce(l, k) PROVE OrderInv'
  BY <1>3 DEF TypeOK, OrderInv, QueuedInv, Waiting, FetchAtOnce, Begin, cache, issuer
<1>4. ASSUME NEW l \in Lookups, NEW k \in Kids, Queue(l, k) PROVE OrderInv'
  <2>1. Waiting' = Waiting \cup {l} /\ l \notin Waiting
    BY <1>4 DEF TypeOK, Queue, Begin, Waiting
  <2>2. ahead'[l] = Waiting /\ observed'[l] = generation
    BY <1>4 DEF TypeOK, Queue
  <2>3. \A m \in Waiting : ahead'[m] = ahead[m] /\ observed'[m] = observed[m]
    BY <2>1, <1>4 DEF TypeOK, Queue, Waiting
  <2>4. \A m, n \in Lookups : phase'[m] = "idle" => m \notin ahead'[n]
    BY <1>4 DEF TypeOK, OrderInv, Queue, Begin, Waiting
  <2>5. \A m \in Waiting : m \in ahead'[l] /\ l \notin ahead'[m] /\ observed'[m] <= observed'[l]
    BY <2>1, <2>2, <2>3, <1>4 DEF TypeOK, OrderInv, QueuedInv, Queue, Begin, Waiting
  <2>6. \A m, n \in Waiting' : m # n =>
          /\ m \in ahead'[n] \/ n \in ahead'[m]
          /\ m \in ahead'[n] => observed'[m] <= observed'[n]
    BY <2>1, <2>2, <2>3, <2>5 DEF OrderInv
  <2> QED BY <2>4, <2>6 DEF OrderInv
<1>5. ASSUME NEW l \in Lookups, ServeAfterWait(l) PROVE OrderInv'
  BY <1>5 DEF TypeOK, OrderInv, QueuedInv, Waiting, ServeAfterWait, End, Forget, cache,
         issuer
<1>6. ASSUME NEW l \in Lookups, RefuseAfterWait(l) PROVE OrderInv'
  BY <1>6 DEF TypeOK, OrderInv, QueuedInv, Waiting, RefuseAfterWait, End, Forget, cache,
         issuer
<1>7. ASSUME NEW l \in Lookups, FetchAfterWait(l) PROVE OrderInv'
  BY <1>7 DEF TypeOK, OrderInv, QueuedInv, Waiting, FetchAfterWait, cache, issuer
<1>8. ASSUME NEW l \in Lookups, DecideOnNewDocument(l) PROVE OrderInv'
  BY <1>8 DEF TypeOK, OrderInv, QueuedInv, Waiting, DecideOnNewDocument, End, Forget, cache,
         issuer
<1>9. ASSUME NEW l \in Lookups, IssuerResponds(l) PROVE OrderInv'
  BY <1>9 DEF TypeOK, OrderInv, QueuedInv, Waiting, IssuerResponds, cache, issuer
<1>10. ASSUME NEW l \in Lookups, Refresh(l) PROVE OrderInv'
  BY <1>10 DEF TypeOK, OrderInv, QueuedInv, Waiting, Refresh, End, Forget, Witnessed, cache,
         issuer
<1>11. ASSUME NEW l \in Lookups, FetchFails(l) PROVE OrderInv'
  BY <1>11 DEF TypeOK, OrderInv, QueuedInv, Waiting, FetchFails, End, Forget, Witnessed,
         Released, cache, issuer
<1>12. ASSUME NEW l \in Lookups, Cancel(l) PROVE OrderInv'
  BY <1>12 DEF TypeOK, OrderInv, QueuedInv, Waiting, Cancel, End, Forget, Released, cache,
         issuer
<1>13. ASSUME NEW new \in SUBSET Kids, Publish(new) PROVE OrderInv'
  BY <1>13 DEF TypeOK, OrderInv, QueuedInv, Waiting, Publish, lookups, cache, issuer
<1>14. CASE Tick
  BY <1>14 DEF TypeOK, OrderInv, QueuedInv, Waiting, Tick, lookups, cache, issuer
<1>15. CASE UNCHANGED vars
  BY <1>15 DEF TypeOK, OrderInv, QueuedInv, Waiting, vars
<1> QED BY <1>1, <1>2, <1>3, <1>4, <1>5, <1>6, <1>7, <1>8, <1>9, <1>10, <1>11, <1>12, <1>13,
       <1>14, <1>15 DEF Next, Proceeds

(* A prompt lookup that starts a fetch saw the generation in use, and so did   *)
(* everyone behind it: if the fetch fails, none of them relies on the cache.   *)
LEMMA HandoverStep ==
  ASSUME TypeOK, LifetimeInv, QueuedInv, OrderInv, HandoverInv, [Next]_vars
  PROVE  HandoverInv'
<1>1. ASSUME NEW l \in Lookups, NEW k \in Kids, ServeAtOnce(l, k) PROVE HandoverInv'
  BY <1>1 DEF TypeOK, LifetimeInv, OrderInv, QueuedInv, HandoverInv, Waiting, ServeAtOnce,
         Begin, End, cache, issuer
<1>2. ASSUME NEW l \in Lookups, NEW k \in Kids, RefuseAtOnce(l, k) PROVE HandoverInv'
  BY <1>2 DEF TypeOK, LifetimeInv, OrderInv, QueuedInv, HandoverInv, Waiting, RefuseAtOnce,
         Begin, End, cache, issuer
<1>3. ASSUME NEW l \in Lookups, NEW k \in Kids, FetchAtOnce(l, k) PROVE HandoverInv'
  BY <1>3 DEF TypeOK, LifetimeInv, OrderInv, QueuedInv, HandoverInv, Waiting, FetchAtOnce,
         Begin, cache, issuer, LockFree
<1>4. ASSUME NEW l \in Lookups, NEW k \in Kids, Queue(l, k) PROVE HandoverInv'
  BY <1>4 DEF TypeOK, LifetimeInv, OrderInv, QueuedInv, HandoverInv, Waiting, Queue, Begin,
         cache, issuer, LockFree
<1>5. ASSUME NEW l \in Lookups, ServeAfterWait(l) PROVE HandoverInv'
  BY <1>5 DEF TypeOK, LifetimeInv, OrderInv, QueuedInv, HandoverInv, Waiting,
         ServeAfterWait, End, Forget, cache, issuer
<1>6. ASSUME NEW l \in Lookups, RefuseAfterWait(l) PROVE HandoverInv'
  BY <1>6 DEF TypeOK, LifetimeInv, OrderInv, QueuedInv, HandoverInv, Waiting,
         RefuseAfterWait, End, Forget, cache, issuer
<1>7. ASSUME NEW l \in Lookups, FetchAfterWait(l) PROVE HandoverInv'
  <2>1. Waiting' = Waiting \ {l} /\ l \in Waiting /\ holder = None
    BY <1>7 DEF TypeOK, FetchAfterWait, Turn, Waiting
  <2>2. /\ observed' = observed /\ generation' = generation /\ cached' = cached /\ now' = now
    BY <1>7 DEF FetchAfterWait, cache
  <2>3. ASSUME Prompt PROVE observed[l] = generation
    <3>1. SUFFICES ASSUME observed[l] # generation PROVE FALSE
      OBVIOUS
    <3>2. cached.at = now
      BY <2>1, <2>3, <3>1 DEF HandoverInv
    <3>3. generation # 0
      BY <2>1, <3>1 DEF TypeOK, QueuedInv, Waiting
    <3>4. now < expires_at
      BY <3>2, <3>3, LifetimesAssumption DEF TypeOK, LifetimeInv
    <3> QED BY <3>1, <3>4, <1>7 DEF FetchAfterWait, RefreshNeeded, Live
  <2>4. ASSUME Prompt, NEW m \in Waiting' PROVE observed[m] = generation
    <3>1. m \in Waiting /\ m # l /\ m \notin ahead[l]
      BY <2>1, <1>7 DEF FetchAfterWait, Turn
    <3>2. observed[l] <= observed[m] /\ observed[m] <= generation
      BY <2>1, <3>1 DEF OrderInv, QueuedInv
    <3>3. observed[l] \in Nat /\ observed[m] \in Nat /\ generation \in Nat
      BY <3>1 DEF TypeOK, Waiting
    <3>4. observed[l] = generation
      BY <2>3, <2>4
    <3> QED BY <3>2, <3>3, <3>4
  <2> QED BY <2>2, <2>4 DEF HandoverInv
<1>8. ASSUME NEW l \in Lookups, DecideOnNewDocument(l) PROVE HandoverInv'
  BY <1>8 DEF TypeOK, LifetimeInv, OrderInv, QueuedInv, HandoverInv, Waiting,
         DecideOnNewDocument, End, Forget, cache, issuer
<1>9. ASSUME NEW l \in Lookups, IssuerResponds(l) PROVE HandoverInv'
  BY <1>9 DEF TypeOK, LifetimeInv, OrderInv, QueuedInv, HandoverInv, Waiting,
         IssuerResponds, cache, issuer
<1>10. ASSUME NEW l \in Lookups, Refresh(l) PROVE HandoverInv'
  BY <1>10 DEF TypeOK, LifetimeInv, OrderInv, QueuedInv, HandoverInv, Waiting, Refresh, End,
         Forget, Witnessed, cache, issuer
<1>11. ASSUME NEW l \in Lookups, FetchFails(l) PROVE HandoverInv'
  BY <1>11 DEF TypeOK, LifetimeInv, OrderInv, QueuedInv, HandoverInv, Waiting, FetchFails,
         End, Forget, Witnessed, Released, cache, issuer
<1>12. ASSUME NEW l \in Lookups, Cancel(l) PROVE HandoverInv'
  BY <1>12 DEF TypeOK, LifetimeInv, OrderInv, QueuedInv, HandoverInv, Waiting, Cancel, End,
         Forget, Released, cache, issuer
<1>13. ASSUME NEW new \in SUBSET Kids, Publish(new) PROVE HandoverInv'
  BY <1>13 DEF TypeOK, LifetimeInv, OrderInv, QueuedInv, HandoverInv, Waiting, Publish,
         lookups, cache, issuer
<1>14. CASE Tick
  BY <1>14 DEF TypeOK, LifetimeInv, OrderInv, QueuedInv, HandoverInv, Waiting, Tick,
         lookups, cache, issuer
<1>15. CASE UNCHANGED vars
  BY <1>15 DEF TypeOK, LifetimeInv, OrderInv, QueuedInv, HandoverInv, Waiting, vars
<1> QED BY <1>1, <1>2, <1>3, <1>4, <1>5, <1>6, <1>7, <1>8, <1>9, <1>10, <1>11, <1>12, <1>13,
       <1>14, <1>15 DEF Next, Proceeds

(* A prompt lookup enters a kid in the moment of the refresh it relies on.     *)
LEMMA EntryStep ==
  ASSUME TypeOK, HandoverInv, NegativeEntriesAreCurrent, EntryInv, [Next]_vars
  PROVE  EntryInv'
<1>1. CASE UNCHANGED <<now, issuer, cache, response>>
  BY <1>1 DEF TypeOK, HandoverInv, EntryInv, Waiting, issuer, cache
<1>2. ASSUME NEW l \in Lookups, DecideOnNewDocument(l) PROVE EntryInv'
  BY <1>2 DEF TypeOK, HandoverInv, EntryInv, Waiting, DecideOnNewDocument, EntryAt, cache,
         issuer, Turn, RefreshNeeded
<1>3. ASSUME NEW l \in Lookups, IssuerResponds(l) PROVE EntryInv'
  BY <1>3 DEF TypeOK, HandoverInv, EntryInv, Waiting, IssuerResponds, cache, issuer
<1>4. ASSUME NEW l \in Lookups, Refresh(l) PROVE EntryInv'
  BY <1>4 DEF TypeOK, HandoverInv, EntryInv, Waiting, Refresh, NegativesAfter, EntryAt,
         NoEntry, cache, issuer
<1>5. ASSUME NEW l \in Lookups, FetchFails(l) PROVE EntryInv'
  BY <1>5 DEF TypeOK, HandoverInv, EntryInv, Waiting, FetchFails, cache, issuer
<1>6. ASSUME NEW l \in Lookups, Cancel(l) PROVE EntryInv'
  BY <1>6 DEF TypeOK, HandoverInv, EntryInv, Waiting, Cancel, cache, issuer
<1>7. ASSUME NEW new \in SUBSET Kids, Publish(new) PROVE EntryInv'
  BY <1>7 DEF TypeOK, HandoverInv, EntryInv, Waiting, Publish, lookups, cache, issuer
<1>8. CASE Tick
  BY <1>8 DEF TypeOK, HandoverInv, EntryInv, Waiting, Tick, lookups, cache, issuer
<1> QED BY <1>1, <1>2, <1>3, <1>4, <1>5, <1>6, <1>7, <1>8, QuietOrNot

-----------------------------------------------------------------------------
(* The theorems. *)

(* The invariant holds initially and is preserved.                             *)
LEMMA InitIInv == Init => IInv
<1>1. Init => TypeOK
  BY NamesAssumption DEF Init, TypeOK, Phases, Outcomes, NoEntry, NoResponse
<1>2. Init => LifetimeInv /\ ProvenanceInv
  BY DEF Init, LifetimeInv, ProvenanceInv, NoResponse
<1>3. Init => QueuedInv /\ OrderInv /\ HandoverInv
  BY DEF Init, QueuedInv, OrderInv, HandoverInv, Waiting
<1>4. Init => NegativeEntriesAreCurrent /\ EntryInv
  BY DEF Init, NegativeEntriesAreCurrent, EntryInv
<1> QED BY <1>1, <1>2, <1>3, <1>4 DEF IInv

LEMMA IInvInvariant == Spec => []IInv
<1>1. IInv /\ [Next]_vars => IInv'
  BY TypeStep, LifetimeStep, ProvenanceStep, QueuedStep, OrderStep, HandoverStep,
     NegativeStep, EntryStep DEF IInv
<1> QED BY <1>1, InitIInv, PTL DEF Spec

(* Every variable keeps its type, and one lookup at a time holds the lock.     *)
THEOREM TypeCorrect == Spec => []TypeOK
<1>1. IInv => TypeOK
  BY DEF IInv
<1> QED BY <1>1, IInvInvariant, PTL

(* Negative entries belong to the document in use and never shadow its keys.   *)
THEOREM NegativesNeverShadow == Spec => []NegativeEntriesAreCurrent
<1>1. IInv => NegativeEntriesAreCurrent
  BY DEF IInv
<1> QED BY <1>1, IInvInvariant, PTL

(* Only four actions answer a lookup with a key or an unknown key.             *)
LEMMA Answers ==
  ASSUME TypeOK, [Next]_vars, NEW l \in Lookups, NEW what \in {"key", "unknown"}, Ends(l, what)
  PROVE  \/ \E k \in Kids : kid'[l] = k /\ (ServeAtOnce(l, k) \/ RefuseAtOnce(l, k))
         \/ ServeAfterWait(l) \/ RefuseAfterWait(l) \/ DecideOnNewDocument(l) \/ Refresh(l)
<1>1. outcome' # outcome
  BY DEF Ends
<1>2. ASSUME NEW m \in Lookups, m # l, outcome'[l] = outcome[l] PROVE FALSE
  BY <1>2 DEF Ends
<1>3. ASSUME NEW m \in Lookups, NEW k \in Kids, ServeAtOnce(m, k) \/ RefuseAtOnce(m, k)
      PROVE  m = l /\ kid'[l] = k
  BY <1>3 DEF TypeOK, Ends, ServeAtOnce, RefuseAtOnce, Begin, End
<1>4. ASSUME NEW m \in Lookups,
             \/ ServeAfterWait(m) \/ RefuseAfterWait(m) \/ DecideOnNewDocument(m) \/ Refresh(m)
      PROVE  m = l
  BY <1>4 DEF TypeOK, Ends, ServeAfterWait, RefuseAfterWait, DecideOnNewDocument, Refresh,
         End
<1>5. ASSUME NEW m \in Lookups, FetchFails(m) \/ Cancel(m) PROVE FALSE
  BY <1>5 DEF TypeOK, Ends, FetchFails, Cancel, End
<1>6. ASSUME NEW m \in Lookups, NEW k \in Kids, FetchAtOnce(m, k) \/ Queue(m, k) PROVE FALSE
  BY <1>1, <1>6 DEF FetchAtOnce, Queue
<1>7. ASSUME NEW m \in Lookups, FetchAfterWait(m) \/ IssuerResponds(m) PROVE FALSE
  BY <1>1, <1>7 DEF FetchAfterWait, IssuerResponds
<1>8. ASSUME \/ UNCHANGED vars \/ Tick \/ \E new \in SUBSET Kids : Publish(new) PROVE FALSE
  BY <1>1, <1>8 DEF vars, Tick, Publish, lookups
<1> QED BY <1>3, <1>4, <1>5, <1>6, <1>7, <1>8 DEF Next, Proceeds

(* A lookup is served from the document in use, in its lifetime, and that      *)
(* document has only keys the issuer published when it produced it.            *)
LEMMA ServedKeys ==
  ASSUME IInv, [Next]_vars, NEW l \in Lookups, Ends(l, "key")
  PROVE  /\ now < cached'.at + Ttl
         /\ kid'[l] \in published \/ withdrawn_at[kid'[l]] >= cached'.published
<1> USE DEF IInv, PublishedSince
<1>1. ASSUME NEW k \in Kids, kid'[l] = k, ServeAtOnce(l, k) \/ ServeAfterWait(l)
      PROVE  cached' = cached /\ now < cached.at + Ttl /\ k \in keys
  BY <1>1 DEF TypeOK, LifetimeInv, ServeAtOnce, ServeAfterWait, Begin, Served, Live, cache
<1>2. ASSUME RefuseAtOnce(l, kid'[l]) \/ RefuseAfterWait(l) PROVE FALSE
  BY <1>2 DEF TypeOK, Ends, RefuseAtOnce, RefuseAfterWait, End
<1>3. ASSUME DecideOnNewDocument(l) PROVE FALSE
  BY <1>3 DEF TypeOK, Ends, DecideOnNewDocument, RefreshNeeded, Missed, Served, End
<1>4. CASE Refresh(l)
  <2>1. cached'.at = now /\ cached'.published = response.at /\ kid'[l] = kid[l]
    BY <1>4 DEF Refresh
  <2>2. kid[l] \in response.keys
    BY <1>4 DEF TypeOK, Ends, Refresh, NewKeys, End
  <2> QED BY <2>1, <2>2, LifetimesAssumption DEF TypeOK, ProvenanceInv
<1>5. CASE \E k \in Kids : kid'[l] = k /\ ServeAtOnce(l, k)
  BY <1>1, <1>5 DEF ProvenanceInv
<1>6. CASE ServeAfterWait(l)
  <2>1. kid'[l] = kid[l] /\ kid[l] \in Kids
    BY <1>6 DEF TypeOK, ServeAfterWait, Turn
  <2> QED BY <1>1, <1>6, <2>1 DEF ProvenanceInv
<1> QED BY <1>2, <1>3, <1>4, <1>5, <1>6, Answers

THEOREM KeysAreCurrent == Spec => ServedKeysWereCurrent
<1>1. IInv /\ [Next]_vars =>
        [\A l \in Lookups : Ends(l, "key") =>
           /\ now < cached'.at + Ttl
           /\ \/ kid'[l] \in published
              \/ withdrawn_at[kid'[l]] >= cached'.published]_vars
  BY ServedKeys
<1> QED BY <1>1, IInvInvariant, PTL DEF Spec, ServedKeysWereCurrent

(* A lookup relies on a document cached since it began, or on a negative entry *)
(* whose life is counted from the document.                                    *)
LEMMA RecentRefusals ==
  ASSUME IInv, [Next]_vars, NEW l \in Lookups, Prompt, Ends(l, "unknown")
  PROVE  /\ now < cached'.at + Ttl
         /\ cached'.at >= Began(l) \/ now < cached'.at + NegativeTtl
<1> USE DEF IInv
<1>1. ASSUME NEW k \in Kids, Refused(k), UNCHANGED cached
      PROVE  now < cached'.at + Ttl /\ now < cached'.at + NegativeTtl
  <2>1. negative[k] # NoEntry /\ negative[k].expires_at > now
    BY <1>1 DEF TypeOK, Refused, NegativeHit, NoEntry
  <2>2. negative[k].expires_at = cached.at + NegativeTtl
    BY <2>1 DEF EntryInv
  <2> QED BY <1>1, <2>1, <2>2 DEF TypeOK, LifetimeInv, Refused, Live
<1>2. ASSUME NEW k \in Kids, RefuseAtOnce(l, k) PROVE Refused(k) /\ UNCHANGED cached
  BY <1>2 DEF RefuseAtOnce, Begin, cache
<1>3. ASSUME RefuseAfterWait(l) PROVE kid[l] \in Kids /\ Refused(kid[l]) /\ UNCHANGED cached
  BY <1>3 DEF TypeOK, RefuseAfterWait, Turn, cache
<1>4. ASSUME \/ \E k \in Kids : ServeAtOnce(l, k)
             \/ ServeAfterWait(l)
      PROVE  FALSE
  BY <1>4 DEF TypeOK, Ends, ServeAtOnce, ServeAfterWait, End
<1>5. CASE DecideOnNewDocument(l)
  <2>1. l \in Waiting /\ observed[l] # generation /\ cached' = cached /\ Live
    BY <1>5 DEF DecideOnNewDocument, Turn, Waiting, RefreshNeeded
  <2>2. began[l] <= cached.at /\ Began(l) = began[l]
    BY <2>1 DEF QueuedInv, Began, Waiting
  <2>3. now < cached.at + Ttl
    BY <2>1 DEF TypeOK, LifetimeInv, Live
  <2> QED BY <2>1, <2>2, <2>3 DEF TypeOK, Waiting
<1>6. CASE Refresh(l)
  BY <1>6, LifetimesAssumption DEF TypeOK, Refresh
<1> QED BY <1>1, <1>2, <1>3, <1>4, <1>5, <1>6, Answers

THEOREM RefusalsStayRecent == Spec => RefusalsAreRecent
<1>1. IInv /\ [Next]_vars =>
        [\A l \in Lookups : Prompt /\ Ends(l, "unknown") =>
           /\ now < cached'.at + Ttl
           /\ \/ cached'.at >= Began(l)
              \/ now < cached'.at + NegativeTtl]_vars
  BY RecentRefusals
<1> QED BY <1>1, IInvInvariant, PTL DEF Spec, RefusalsAreRecent

(* Who waited through a refresh sees another generation than it observed, so   *)
(* it refreshes again only if the document has expired.                        *)
LEMMA SharedRefresh ==
  ASSUME IInv, [Next]_vars, NEW l \in Lookups, StartsFetch(l), Live, NEW k \in Kids
  PROVE  <<k, "refreshed">> \notin seen[l]
<1> USE DEF IInv
<1>1. FetchAfterWait(l)
  <2>1. ASSUME NEW m \in Lookups, NEW k1 \in Kids,
               \/ ServeAtOnce(m, k1) \/ RefuseAtOnce(m, k1)
               \/ FetchAtOnce(m, k1) \/ Queue(m, k1)
        PROVE  FALSE
    BY <2>1 DEF TypeOK, StartsFetch, ServeAtOnce, RefuseAtOnce, FetchAtOnce, Queue, Begin,
           End
  <2>2. ASSUME NEW m \in Lookups,
               \/ ServeAfterWait(m) \/ RefuseAfterWait(m) \/ DecideOnNewDocument(m)
               \/ IssuerResponds(m) \/ Refresh(m) \/ FetchFails(m) \/ Cancel(m)
        PROVE  FALSE
    BY <2>2 DEF TypeOK, StartsFetch, ServeAfterWait, RefuseAfterWait, DecideOnNewDocument,
                IssuerResponds, Refresh, FetchFails, Cancel, End
  <2>3. ASSUME NEW m \in Lookups, FetchAfterWait(m) PROVE m = l
    BY <2>3 DEF TypeOK, StartsFetch, FetchAfterWait
  <2>4. ASSUME \/ UNCHANGED vars \/ Tick \/ \E new \in SUBSET Kids : Publish(new) PROVE FALSE
    BY <2>4 DEF StartsFetch, vars, Tick, Publish, lookups
  <2> QED BY <2>1, <2>2, <2>3, <2>4 DEF Next, Proceeds
<1>2. l \in Waiting /\ observed[l] = generation
  BY <1>1 DEF FetchAfterWait, Turn, Waiting, RefreshNeeded
<1> QED BY <1>2 DEF QueuedInv

THEOREM RefreshesAreShared == Spec => RefreshIsShared
<1>1. IInv /\ [Next]_vars =>
        [\A l \in Lookups : StartsFetch(l) /\ Live =>
           \A k \in Kids : <<k, "refreshed">> \notin seen[l]]_vars
  BY SharedRefresh
<1> QED BY <1>1, IInvInvariant, PTL DEF Spec, RefreshIsShared
=============================================================================
