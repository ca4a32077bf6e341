--------------------------- MODULE RequestLedger ---------------------------
(***************************************************************************)
(* What the keyed request path promises, without leases, clocks, tokens or *)
(* transactions: a ledger in which each scope has at most one holder.  A   *)
(* call that opens takes the scope, and whoever held it open is closed as  *)
(* failed in the same step; only the holder closes its own entry, once;    *)
(* and a replay copies the entry of a holder that has completed.           *)
(***************************************************************************)
CONSTANTS Calls, Scopes, None

VARIABLES
  scope,   \* the scope each call asks for
  state,   \* the ledger
  holder,  \* the last call to open each scope, while it is remembered
  source   \* the entry a replay was copied from

vars == <<scope, state, holder, source>>

Held(s) == holder[s] # None

Init ==
  /\ scope \in [Calls -> Scopes]
  /\ state = [c \in Calls |-> "absent"]
  /\ holder = [s \in Scopes |-> None]
  /\ source = [c \in Calls |-> None]

Open(c) ==
  /\ state[c] = "absent"
  /\ state' = [d \in Calls |->
       IF d = c THEN "open"
       ELSE IF d = holder[scope[c]] /\ state[d] = "open" THEN "failed"
       ELSE state[d]]
  /\ holder' = [holder EXCEPT ![scope[c]] = c]
  /\ UNCHANGED <<scope, source>>

Close(c) ==
  /\ holder[scope[c]] = c
  /\ state[c] = "open"
  /\ state' \in {[state EXCEPT ![c] = "completed"], [state EXCEPT ![c] = "failed"]}
  /\ UNCHANGED <<scope, holder, source>>

Replay(c) ==
  /\ state[c] = "absent"
  /\ Held(scope[c])
  /\ state[holder[scope[c]]] = "completed"
  /\ state' = [state EXCEPT ![c] = "replayed"]
  /\ source' = [source EXCEPT ![c] = holder[scope[c]]]
  /\ UNCHANGED <<scope, holder>>

Forget(s) ==
  /\ Held(s)
  /\ state[holder[s]] \in {"completed", "failed"}
  /\ holder' = [holder EXCEPT ![s] = None]
  /\ UNCHANGED <<scope, state, source>>

Next ==
  \/ \E c \in Calls : Open(c) \/ Close(c) \/ Replay(c)
  \/ \E s \in Scopes : Forget(s)

Spec == Init /\ [][Next]_vars

=============================================================================
