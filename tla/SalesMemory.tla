----------------------------- MODULE SalesMemory -----------------------------
(***************************************************************************)
(* What one command line process does with the customer and interaction    *)
(* stores: seed data, the agents' tools that update and score a customer,  *)
(* and the stores' own operations.  The process runs one operation at a    *)
(* time.                                                                   *)
(***************************************************************************)
EXTENDS CustomerStore, FiniteSets

CONSTANTS
  Ids,           \* interaction ids, numbered in the order of their file names
  Dates,         \* when an interaction took place
  IndexLimit,    \* how many interactions an index lists
  MaxOperations  \* bound on the operations that begin

ASSUME InteractionsAssumption ==
  /\ Ids \subseteq Nat /\ Dates \subseteq Nat \ {0}
  /\ IndexLimit \in Nat \ {0} /\ MaxOperations \in Nat

VARIABLES dates, index, indexing, lagging,
          operations  \* how many operations have begun, up to MaxOperations

Interactions == INSTANCE InteractionStore WITH Owners <- Customers, NoOwner <- None

interactionFiles == <<dates, index, indexing, lagging>>
vars == <<storeVars, interactionFiles, operations>>

Quiet == At("idle") /\ indexing = None

\* seed: a new profile under an id that may be in use.
Seed(c) ==
  \E n \in Names : \E others \in SUBSET (Names \ {n}) :
    BeginSave(c, NewProfile(n, others))

\* CustomerMemoryUpdateTool; a profile that cannot be read is reported missing.
Update(c) ==
  /\ Whole(profile[c])
  /\ \E n \in Names : \E others \in SUBSET (Names \ {n}) :
       BeginSave(c, [profile[c] EXCEPT !.name = n, !.aliases = others])

\* SalesScoreCalculatorTool, which need not be asked for the health score.
Score(c) ==
  /\ Whole(profile[c])
  /\ \E date \in {profile[c].contact, Interactions!LastInteractionDate(c)} :
       BeginSave(c, [profile[c] EXCEPT !.contact = date])

Begin ==
  /\ Quiet
  /\ operations < MaxOperations
  /\ operations' = operations + 1
  /\ \/ /\ \E c \in Customers :
             Seed(c) \/ Update(c) \/ Score(c) \/ BeginDelete(c) \/ BeginRestore(c)
        /\ UNCHANGED interactionFiles
     \/ /\ \E c \in Customers, i \in Ids :
             Interactions!Remove(c, i) \/ \E d \in Dates : Interactions!Record(c, i, d)
        /\ UNCHANGED storeVars

Continue ==
  /\ \/ /\ Proceed \/ CarriesOn \/ Interrupted
        /\ UNCHANGED interactionFiles
     \/ /\ Interactions!RefreshIndex \/ Interactions!IndexInterrupted
        /\ UNCHANGED storeVars
  /\ UNCHANGED operations

Init == StoreInit /\ Interactions!InteractionInit /\ operations = 0

Next == Begin \/ Continue

Spec == Init /\ [][Next]_vars

-----------------------------------------------------------------------------

(* Every variable has its type, and one operation runs at a time.               *)
TypeOK ==
  /\ StoreTypeOK
  /\ Interactions!InteractionTypeOK
  /\ operations \in 0..MaxOperations
  /\ At("idle") \/ indexing = None

(* The index of a customer is the summary of its files unless its last operation *)
(* was interrupted (interaction_store.py: _refresh_index after each write).      *)
IndexCatchesUp == Interactions!IndexCatchesUp

-----------------------------------------------------------------------------
(* What a comment says and the code does not do. *)

(* memory/interaction_store.py:168: last_interaction_date returns the date of   *)
(* the most recent interaction.                                                 *)
LastInteractionIsMostRecent == Interactions!LastInteractionIsMostRecent

=============================================================================
