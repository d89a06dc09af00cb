------------------------------- MODULE Store -------------------------------
(***************************************************************************)
(* The shared store (store.py) as its callers may rely on it: every method *)
(* is one atomic step.  StoreSql refines this module down to the separate  *)
(* SQL statements the methods really are; Dialer is its client.            *)
(*                                                                         *)
(* A method that writes is an operator on the one table it writes, guarded *)
(* by the condition under which its UPDATE or INSERT takes effect; when    *)
(* the guard fails the method returns False or None and writes nothing.    *)
(* A lease is the number of clock ticks until lease_expires_at is in the   *)
(* past: 0 is an expired lease, NoLease is NULL.                           *)
(***************************************************************************)
EXTENDS StateMachines

CONSTANTS
  Workers,   \* worker ids
  Agents,    \* agent ids
  Contacts,  \* contact ids; a contact is claimed once, so its call shares the name
  None,      \* SQL NULL in a column that holds an id
  MaxLease   \* longest lease a caller asks for, in ticks

ASSUME StoreAssumption ==
  /\ None \notin Workers \cup Agents \cup Contacts
  /\ MaxLease \in Nat \ {0}

VARIABLES agents, contacts, calls, seen_events

store_vars == <<agents, contacts, calls, seen_events>>

NoLease == -1
Leases  == 0 .. MaxLease
Expired(row) == row.lease = 0

AgentRow ==
  [state : AgentState, reserved_by : Workers \cup {None},
   lease : {NoLease} \cup 0 .. MaxLease, current_call_id : Contacts \cup {None}]

\* answered_at and connected_at only matter as NULL or not NULL.
CallRow ==
  [state : CallState, reason : FailureReason \cup {None}, agent_id : Agents \cup {None},
   reserved_by : Workers \cup {None}, lease : {NoLease} \cup 0 .. MaxLease,
   answered : BOOLEAN, connected : BOOLEAN]

\* QUEUED is the dataclass default no worker ever inserts: here, the row is absent.
NoCall ==
  [state |-> "QUEUED", reason |-> None, agent_id |-> None, reserved_by |-> None,
   lease |-> NoLease, answered |-> FALSE, connected |-> FALSE]

\* Two deliveries with the same event_id are the same EventId; a provider that
\* repeats an event under a fresh event_id sends the other copy.
EventId == [call_id : Contacts, type : EventType, copy : {1, 2}]

\* A freshly seeded campaign (add_agent, add_contact): everyone is AVAILABLE.
FreeAgent ==
  [state |-> "AVAILABLE", reserved_by |-> None, lease |-> NoLease, current_call_id |-> None]

StoreInit ==
  /\ agents = [a \in Agents |-> FreeAgent]
  /\ contacts = [c \in Contacts |-> None]
  /\ calls = [c \in Contacts |-> NoCall]
  /\ seen_events = {}

-----------------------------------------------------------------------------
(* Agents *)

AvailableAgents == {a \in Agents : agents[a].state = "AVAILABLE"}

\* A wrong ReserveAgent, whose UPDATE does not ask for AVAILABLE again.
ReserveListedAgent(a, w, lease) ==
  agents' = [agents EXCEPT ![a] =
    [@ EXCEPT !.state = "RESERVED", !.reserved_by = w, !.lease = lease]]

ReserveAgent(a, w, lease) ==
  /\ agents[a].state = "AVAILABLE"
  /\ agents' = [agents EXCEPT ![a] =
       [@ EXCEPT !.state = "RESERVED", !.reserved_by = w, !.lease = lease]]

\* A wrong CanTransition, with require_holder off.
CanTransitionAnyHolder(a, w, target, expected) ==
  agents[a].state \in expected /\ AgentEdge(agents[a].state, target)

CanTransition(a, w, target, expected) ==
  /\ agents[a].state \in expected
  /\ agents[a].reserved_by \in {None, w}
  /\ AgentEdge(agents[a].state, target)

\* A wrong TransitionAgent, that keeps w as the holder of an idle agent.
TransitionAgentKeepingHolder(a, w, target, expected, call, lease) ==
  /\ CanTransition(a, w, target, expected)
  /\ agents' = [agents EXCEPT ![a] =
       [state |-> target, reserved_by |-> w, lease |-> lease, current_call_id |-> call]]

\* An idle target gives the agent up; every other target keeps w as its holder.
TransitionAgent(a, w, target, expected, call, lease) ==
  /\ CanTransition(a, w, target, expected)
  /\ agents' = [agents EXCEPT ![a] =
       [state |-> target,
        reserved_by |-> IF target \in {"AVAILABLE", "OFFLINE", "PAUSED"} THEN None ELSE w,
        lease |-> lease, current_call_id |-> call]]

\* transition_agent as callers use it when they ignore or only test its result.
TryTransitionAgent(a, w, target, expected, call, lease) ==
  \/ TransitionAgent(a, w, target, expected, call, lease)
  \/ ~CanTransition(a, w, target, expected) /\ UNCHANGED agents

\* force_release_agent(only_if_call_id = c) when it does write.
ForceReleaseAgent(a, c) ==
  /\ agents[a].current_call_id = c
  /\ agents[a].state # "AVAILABLE"
  /\ agents' = [agents EXCEPT ![a] = FreeAgent]

\* A wrong ReclaimableAgents, that forgets one state in its IN list.
ReclaimableButReserved ==
  {a \in Agents : Expired(agents[a]) /\ agents[a].state \in {"DIALING", "CONNECTED"}}

ReclaimableAgents ==
  {a \in Agents : Expired(agents[a]) /\ agents[a].state \in {"RESERVED", "DIALING", "CONNECTED"}}

ReclaimExpiredAgentLeases(S) ==
  /\ S \subseteq ReclaimableAgents
  /\ agents' = [a \in Agents |-> IF a \in S THEN FreeAgent ELSE agents[a]]

-----------------------------------------------------------------------------
(* Contacts *)

UnclaimedContacts == {c \in Contacts : contacts[c] = None}

\* The UPDATE of claim_contact, on the row its SELECT returned.
ClaimContact(c, w) ==
  /\ contacts[c] = None
  /\ contacts' = [contacts EXCEPT ![c] = w]

-----------------------------------------------------------------------------
(* Calls *)

\* INSERT of a CallJob in state RESERVED: the primary key must be new, and no
\* lease is set.
CreateCall(c, a, w) ==
  /\ calls[c] = NoCall
  /\ calls' = [calls EXCEPT ![c] =
       [NoCall EXCEPT !.state = "RESERVED", !.agent_id = a, !.reserved_by = w]]

\* A wrong AttachAgentToCall, with a state in its WHERE clause.
AttachAgentBeforeRinging(c, a) ==
  calls' = [calls EXCEPT ![c].agent_id = IF calls[c].state = "INITIATED" THEN a ELSE @]

AttachAgentToCall(c, a) ==
  calls' = [calls EXCEPT ![c].agent_id = a]

MarkCallInitiated(c, lease) ==
  /\ calls[c].state = "RESERVED"
  /\ calls' = [calls EXCEPT ![c] = [@ EXCEPT !.state = "INITIATED", !.lease = lease]]

\* A wrong CanApply, that leaves terminal states to the caller's reconcile.
CanApplyAlways(c) == TRUE

CanApply(c) == calls[c].state \notin TERMINAL_CALL_STATES

\* A wrong Transitioned, that clears the lease whatever the new state.
TransitionedWithoutLease(row, new_state, reason, lease) ==
  [row EXCEPT !.state = new_state, !.reason = reason, !.lease = NoLease,
              !.answered = @ \/ new_state = "ANSWERED",
              !.connected = @ \/ new_state = "CONNECTED"]

\* The SET clause of apply_call_transition.  A terminal state clears the lease,
\* any other renews it; ANSWERED and CONNECTED stamp their timestamp, which
\* never goes back.
Transitioned(row, new_state, reason, lease) ==
  [row EXCEPT !.state = new_state,
              !.reason = reason,
              !.lease = IF new_state \in TERMINAL_CALL_STATES THEN NoLease ELSE lease,
              !.answered = IF new_state = "ANSWERED" THEN TRUE ELSE @,
              !.connected = IF new_state = "CONNECTED" THEN TRUE ELSE @]

ApplyCallTransition(c, new_state, reason, lease) ==
  /\ CanApply(c)
  /\ calls' = [calls EXCEPT ![c] = Transitioned(@, new_state, reason, lease)]

\* A wrong ReclaimableCalls, that forgets one state in its IN list.
ReclaimableButInitiated ==
  {c \in Contacts : Expired(calls[c]) /\ calls[c].state \in LIVE_CALL_STATES \ {"INITIATED"}}

ReclaimableCalls == {c \in Contacts : Expired(calls[c]) /\ calls[c].state \in LIVE_CALL_STATES}

TimedOut(row) ==
  [row EXCEPT !.state = "FAILED", !.reason = "provider_timeout", !.lease = NoLease]

ReclaimExpiredCallLeases(S) ==
  /\ S \subseteq ReclaimableCalls
  /\ calls' = [c \in Contacts |-> IF c \in S THEN TimedOut(calls[c]) ELSE calls[c]]

TryRecordEvent(e) ==
  /\ e \notin seen_events
  /\ seen_events' = seen_events \cup {e}

-----------------------------------------------------------------------------
(* Time, and any set of clients that call the methods in any order *)

\* A wrong Aged, that takes NULL for a number and lets 0 run on.
AgedPastExpiry(row) == [row EXCEPT !.lease = @ - 1]

Aged(row) == IF row.lease > 0 THEN [row EXCEPT !.lease = @ - 1] ELSE row

Tick ==
  /\ agents' = [a \in Agents |-> Aged(agents[a])]
  /\ calls' = [c \in Contacts |-> Aged(calls[c])]
  /\ UNCHANGED <<contacts, seen_events>>

AgentMethod ==
  \E a \in Agents, w \in Workers :
    \/ \E lease \in Leases : ReserveAgent(a, w, lease)
    \/ \E target \in AgentState, c \in Contacts \cup {None}, lease \in {NoLease} \cup Leases :
         TransitionAgent(a, w, target, AgentState, c, lease)
    \/ \E c \in Contacts : ForceReleaseAgent(a, c)
    \/ \E S \in SUBSET ReclaimableAgents : ReclaimExpiredAgentLeases(S)

CallMethod ==
  \E c \in Contacts :
    \/ \E a \in Agents \cup {None}, w \in Workers : CreateCall(c, a, w)
    \/ \E a \in Agents : AttachAgentToCall(c, a)
    \/ \E lease \in Leases : MarkCallInitiated(c, lease)
    \/ \E s \in CallState \ {"QUEUED"}, r \in FailureReason \cup {None}, lease \in Leases :
         ApplyCallTransition(c, s, r, lease)
    \/ \E S \in SUBSET ReclaimableCalls : ReclaimExpiredCallLeases(S)

StoreNext ==
  \/ AgentMethod /\ UNCHANGED <<contacts, calls, seen_events>>
  \/ CallMethod /\ UNCHANGED <<agents, contacts, seen_events>>
  \/ (\E c \in Contacts, w \in Workers : ClaimContact(c, w)) /\ UNCHANGED <<agents, calls, seen_events>>
  \/ (\E e \in EventId : TryRecordEvent(e)) /\ UNCHANGED <<agents, contacts, calls>>
  \/ Tick

StoreSpec == StoreInit /\ [][StoreNext]_store_vars

-----------------------------------------------------------------------------
(* Properties *)

\* Every table holds rows of its type.
StoreTypeOK ==
  /\ agents \in [Agents -> AgentRow]
  /\ contacts \in [Contacts -> Workers \cup {None}]
  /\ calls \in [Contacts -> CallRow]
  /\ seen_events \subseteq EventId

\* A call that reached COMPLETED, FAILED or CANCELLED keeps its state and its
\* reason for good, whatever late writer (a bridge, the reaper, a placed call)
\* still has it in hand.
TerminalIsSticky ==
  [][\A c \in Contacts :
       calls[c].state \in TERMINAL_CALL_STATES =>
         /\ calls'[c].state = calls[c].state
         /\ calls'[c].reason = calls[c].reason]_store_vars

\* An agent never passes straight from one worker's hands to another's: it is
\* released first, so no reservation is ever won over a reservation.
NoHandover ==
  [][\A a \in Agents :
       agents[a].reserved_by # None => agents'[a].reserved_by \in {agents[a].reserved_by, None}]_store_vars

\* Who holds an agent and what the agent is doing agree: an idle agent has no
\* holder, so any worker may take it; a busy one has a holder, whatever order
\* reservations, transitions, releases and the reaper come in.
HolderMatchesState ==
  \A a \in Agents :
    IF agents[a].state \in {"AVAILABLE", "OFFLINE", "PAUSED"}
    THEN agents[a].reserved_by = None
    ELSE agents[a].reserved_by # None

=============================================================================
