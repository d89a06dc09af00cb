--------------------------- MODULE StateMachines ---------------------------
(***************************************************************************)
(* The vocabulary of the dialer: agent and call states, the two transition *)
(* tables, and the rule that decides what a provider event, possibly late  *)
(* or repeated, does to a call (models.py, events.py, state_machines.py).  *)
(***************************************************************************)
EXTENDS Integers

AgentState ==
  {"OFFLINE", "AVAILABLE", "RESERVED", "DIALING", "CONNECTED", "WRAP_UP", "PAUSED"}

CallState ==
  {"QUEUED", "RESERVED", "INITIATED", "RINGING", "ANSWERED", "CONNECTED",
   "COMPLETED", "FAILED", "CANCELLED"}

TERMINAL_CALL_STATES == {"COMPLETED", "FAILED", "CANCELLED"}

\* The states reclaim_expired_call_leases and the in-flight count look at.
LIVE_CALL_STATES == {"RESERVED", "INITIATED", "RINGING", "ANSWERED", "CONNECTED"}

CALL_STATE_RANK ==
  [s \in CallState |->
     CASE s = "QUEUED"    -> 0
       [] s = "RESERVED"  -> 1
       [] s = "INITIATED" -> 2
       [] s = "RINGING"   -> 3
       [] s = "ANSWERED"  -> 4
       [] s = "CONNECTED" -> 5
       [] OTHER           -> 6]

\* The two reasons the dialer writes itself, and those a provider reports
\* (no_answer, busy, provider_error), which nothing here tells apart.
FailureReason == {"provider_timeout", "abandoned_no_agent", "provider_reason"}

EventType == {"RINGING", "ANSWERED", "CONNECTED", "COMPLETED", "FAILED"}

AGENT_TRANSITIONS ==
  [s \in AgentState |->
     CASE s = "OFFLINE"   -> {"AVAILABLE"}
       [] s = "AVAILABLE" -> {"RESERVED", "PAUSED", "OFFLINE"}
       [] s = "RESERVED"  -> {"DIALING", "CONNECTED", "AVAILABLE", "OFFLINE"}
       [] s = "DIALING"   -> {"CONNECTED", "AVAILABLE", "WRAP_UP", "OFFLINE"}
       [] s = "CONNECTED" -> {"WRAP_UP", "OFFLINE"}
       [] s = "WRAP_UP"   -> {"AVAILABLE", "PAUSED", "OFFLINE"}
       [] s = "PAUSED"    -> {"AVAILABLE", "OFFLINE"}]

\* AgentStateMachine.validate: a self-transition is always accepted.
AgentEdge(current, target) ==
  target = current \/ target \in AGENT_TRANSITIONS[current]

\* What reconcile answers when the event must be dropped (None in the code).
Drop == "DROP"

\* A wrong Reconcile, that lets an event move an unfinished call back.
ReconcileWithoutRank(current, incoming) ==
  IF current \in TERMINAL_CALL_STATES THEN Drop ELSE incoming

\* CallStateMachine.reconcile: a finished call absorbs everything, a terminal
\* event wins over any unfinished state, and the others only move forward.
Reconcile(current, incoming) ==
  IF current \in TERMINAL_CALL_STATES THEN Drop
  ELSE IF incoming \in TERMINAL_CALL_STATES THEN incoming
  ELSE IF CALL_STATE_RANK[incoming] <= CALL_STATE_RANK[current] THEN Drop
  ELSE incoming

=============================================================================
