-------------------------------- MODULE Turns --------------------------------
(***************************************************************************)
(* Turns: a turn of the conversation is taken by the Coordinator, for the  *)
(* service and the command line, or by an agent; the command line can also *)
(* run an operations command.  The three share no state, so a behaviour is *)
(* one turn of the Coordinator, one of an agent, or one command.           *)
(***************************************************************************)
EXTENDS Coordinator, AgentLoop, Operations

vars == <<turnVars, agentVars, opsVars>>

NoTurn ==
  /\ request = None /\ at = "none"
  /\ decision = None /\ route = None /\ rag = None
  /\ trace = <<>> /\ answer = NoAnswer /\ queries = {}

NoAgent ==
  /\ client = None /\ llm = NoCall /\ text = <<>>
  /\ phase = "none" /\ round = 0 /\ messages = <<>>
  /\ pending = <<>> /\ results = <<>> /\ called = <<>>
  /\ profile = None /\ outcome = NoOutcome

NoCommand ==
  /\ command = None /\ progress = "none" /\ pool = "none"
  /\ failed = {} /\ integrity = "unknown"
  /\ expired = {} /\ held = {} /\ gone = {}
  /\ batches = 0 /\ verdict = NoVerdict

Init ==
  \/ TurnInit /\ NoAgent /\ NoCommand
  \/ AgentInit /\ NoTurn /\ NoCommand
  \/ OpsInit /\ NoTurn /\ NoAgent

\* It is over; every other state has a step.
Ended ==
  /\ at \in {"done", "failed"} \/ phase \in {"done", "raised"} \/ progress = "exited"
  /\ UNCHANGED vars

Next ==
  \/ TurnNext /\ UNCHANGED <<agentVars, opsVars>>
  \/ AgentNext /\ UNCHANGED <<turnVars, opsVars>>
  \/ OpsNext /\ UNCHANGED <<turnVars, agentVars>>
  \/ Ended

Spec == Init /\ [][Next]_vars

=============================================================================
