------------------------------ MODULE StoreSql ------------------------------
(***************************************************************************)
(* The SQL statements behind the store's methods.  A method that reads a   *)
(* row and then writes it is two statements, and SQLite serialises single  *)
(* statements only: between its SELECT and its UPDATE other connections    *)
(* write, and the clock moves on.  Each method re-checks in the WHERE      *)
(* clause of its UPDATE what it relied on (the version it read, a lease    *)
(* still older than the instant it looked at, claimed = 0), and the module *)
(* shows that this is enough for every method to act as one atomic step of *)
(* Store.  The reservation log is write-only and left out.                 *)
(***************************************************************************)
EXTENDS StateMachines, Sequences, FiniteSets

CONSTANTS
  Connections, Agents, Contacts, None,
  LeaseSeconds,  \* the lease every caller asks for, in clock units
  MaxTime,       \* bound on the clock
  MaxVersion     \* bound on the writes to one row

ASSUME SqlAssumption ==
  /\ None \notin Connections \cup Agents \cup Contacts
  /\ IsFiniteSet(Contacts)
  /\ LeaseSeconds \in Nat /\ MaxTime \in Nat /\ MaxVersion \in Nat

VARIABLES
  agents, contacts, calls, seen_events,
  now,   \* the clock all processes share
  op     \* the method each connection has begun: what its SELECT returned

tables == <<agents, contacts, calls, seen_events>>
vars   == <<tables, now, op>>

Null == -1  \* SQL NULL in lease_expires_at

NoOp == [method |-> "none"]

FreeAgent ==
  [state |-> "AVAILABLE", reserved_by |-> None, lease_expires_at |-> Null,
   current_call_id |-> None, version |-> 0]

NoCall ==
  [state |-> "QUEUED", reason |-> None, agent_id |-> None, reserved_by |-> None,
   lease_expires_at |-> Null, answered |-> FALSE, connected |-> FALSE, version |-> 0]

Init ==
  /\ agents = [a \in Agents |-> FreeAgent]
  /\ contacts = [c \in Contacts |-> None]
  /\ calls = [c \in Contacts |-> NoCall]
  /\ seen_events = {}
  /\ now = 0
  /\ op = [w \in Connections |-> NoOp]

\* lease_expires_at < t, which SQL does not grant to NULL.
Before(row, t) == row.lease_expires_at # Null /\ row.lease_expires_at < t

-----------------------------------------------------------------------------
(* A connection is between methods, or has run the SELECT of one. *)

Begin(w, o) ==
  /\ op[w] = NoOp
  /\ op' = [op EXCEPT ![w] = o]
  /\ UNCHANGED <<tables, now>>

In(w, method) == op[w].method = method

End(w) == op' = [op EXCEPT ![w] = NoOp]

\* A reaper is done with row x: the next one, or the method ends.
Without(o, x) == IF o.rows = {x} THEN NoOp ELSE [o EXCEPT !.rows = @ \ {x}]

\* UPDATE agents ... WHERE id = a AND cond, version = version + 1.
UpdateAgent(a, cond, row) ==
  /\ IF cond
     THEN /\ agents[a].version < MaxVersion
          /\ agents' = [agents EXCEPT ![a] = [row EXCEPT !.version = agents[a].version + 1]]
     ELSE UNCHANGED agents
  /\ UNCHANGED <<contacts, calls, seen_events, now>>

UpdateCall(c, cond, row) ==
  /\ IF cond
     THEN /\ calls[c].version < MaxVersion
          /\ calls' = [calls EXCEPT ![c] = [row EXCEPT !.version = calls[c].version + 1]]
     ELSE UNCHANGED calls
  /\ UNCHANGED <<agents, contacts, seen_events, now>>

-----------------------------------------------------------------------------
(* Agents *)

\* reserve_agent is a single UPDATE, whatever its caller believed before.
ReserveAgent(w, a) ==
  /\ op[w] = NoOp
  /\ agents[a].state = "AVAILABLE"
  /\ UpdateAgent(a, agents[a].state = "AVAILABLE",
       [agents[a] EXCEPT !.state = "RESERVED", !.reserved_by = w,
                         !.lease_expires_at = now + LeaseSeconds])
  /\ UNCHANGED op

\* transition_agent up to its UPDATE: the early returns write nothing.
SelectTransition(w, a) ==
  /\ agents[a].reserved_by \in {None, w}
  /\ \E target \in AgentState \ {"OFFLINE", "PAUSED"}, c \in Contacts \cup {None},
        lease \in {Null, now + LeaseSeconds} :
       /\ AgentEdge(agents[a].state, target)
       /\ Begin(w, [method |-> "transition", agent |-> a, target |-> target, call |-> c,
                    lease |-> lease, state |-> agents[a].state, version |-> agents[a].version])

\* A wrong UpdateTransition, whose WHERE clause has the state but not the version.
UpdateTransitionByState(w) ==
  /\ In(w, "transition")
  /\ LET o == op[w]
     IN  UpdateAgent(o.agent, agents[o.agent].state = o.state,
           [agents[o.agent] EXCEPT
              !.state = o.target, !.reserved_by = IF o.target = "AVAILABLE" THEN None ELSE w,
              !.lease_expires_at = o.lease, !.current_call_id = o.call])
  /\ End(w)

UpdateTransition(w) ==
  /\ In(w, "transition")
  /\ LET o == op[w]
     IN  UpdateAgent(o.agent,
           agents[o.agent].state = o.state /\ agents[o.agent].version = o.version,
           [agents[o.agent] EXCEPT
              !.state = o.target, !.reserved_by = IF o.target = "AVAILABLE" THEN None ELSE w,
              !.lease_expires_at = o.lease, !.current_call_id = o.call])
  /\ End(w)

SelectForceRelease(w, a) ==
  /\ agents[a].current_call_id # None
  /\ agents[a].state # "AVAILABLE"
  /\ Begin(w, [method |-> "release", agent |-> a, version |-> agents[a].version])

UpdateForceRelease(w) ==
  /\ In(w, "release")
  /\ LET o == op[w] IN UpdateAgent(o.agent, agents[o.agent].version = o.version, FreeAgent)
  /\ End(w)

SelectExpiredAgents(w) ==
  LET rows == {a \in Agents : Before(agents[a], now) /\ agents[a].state \in {"RESERVED", "DIALING", "CONNECTED"}}
  IN  rows # {} /\ Begin(w, [method |-> "reap_agents", rows |-> rows, at |-> now])

\* One UPDATE per selected row; it asks about the lease again, not the state.
UpdateExpiredAgent(w) ==
  /\ In(w, "reap_agents")
  /\ \E a \in op[w].rows :
       /\ UpdateAgent(a, Before(agents[a], op[w].at), FreeAgent)
       /\ op' = [op EXCEPT ![w] = Without(op[w], a)]

-----------------------------------------------------------------------------
(* Contacts and events *)

SelectContact(w, c) ==
  /\ contacts[c] = None
  /\ Begin(w, [method |-> "claim", call |-> c])

UpdateContact(w) ==
  /\ In(w, "claim")
  /\ LET c == op[w].call
     IN  contacts' = IF contacts[c] = None THEN [contacts EXCEPT ![c] = w] ELSE contacts
  /\ End(w)
  /\ UNCHANGED <<agents, calls, seen_events, now>>

\* The primary key of seen_events turns a second INSERT into "already seen".
InsertEvent(w, e) ==
  /\ op[w] = NoOp
  /\ e \notin seen_events
  /\ seen_events' = seen_events \cup {e}
  /\ UNCHANGED <<agents, contacts, calls, now, op>>

-----------------------------------------------------------------------------
(* Calls *)

InsertCall(w, c, a) ==
  /\ op[w] = NoOp
  /\ calls[c] = NoCall
  /\ UpdateCall(c, TRUE, [NoCall EXCEPT !.state = "RESERVED", !.agent_id = a, !.reserved_by = w])
  /\ UNCHANGED op

UpdateInitiated(w, c) ==
  /\ op[w] = NoOp
  /\ calls[c].state = "RESERVED"
  /\ UpdateCall(c, calls[c].state = "RESERVED",
       [calls[c] EXCEPT !.state = "INITIATED", !.lease_expires_at = now + LeaseSeconds])
  /\ UNCHANGED op

UpdateAttach(w, c, a) ==
  /\ op[w] = NoOp
  /\ calls[c] # NoCall
  /\ UpdateCall(c, TRUE, [calls[c] EXCEPT !.agent_id = a])
  /\ UNCHANGED op

SelectApply(w, c) ==
  /\ calls[c] # NoCall
  /\ calls[c].state \notin TERMINAL_CALL_STATES
  /\ \E s \in {t \in CallState : CALL_STATE_RANK[t] > CALL_STATE_RANK[calls[c].state]}
              \ {"INITIATED", "CANCELLED"} :
       Begin(w, [method |-> "apply", call |-> c, state |-> s, version |-> calls[c].version,
                 lease |-> now + LeaseSeconds])

\* The CAS on the version alone: nobody wrote the row since it was read.
UpdateApply(w) ==
  /\ In(w, "apply")
  /\ LET o == op[w]
         row == calls[o.call]
     IN  UpdateCall(o.call, row.version = o.version,
           [row EXCEPT !.state = o.state,
                       !.reason = IF o.state = "FAILED" THEN "provider_reason" ELSE None,
                       !.lease_expires_at = IF o.state \in TERMINAL_CALL_STATES THEN Null ELSE o.lease,
                       !.answered = @ \/ o.state = "ANSWERED",
                       !.connected = @ \/ o.state = "CONNECTED"])
  /\ End(w)

SelectExpiredCalls(w) ==
  LET rows == {c \in Contacts : Before(calls[c], now) /\ calls[c].state \in LIVE_CALL_STATES}
  IN  rows # {} /\ Begin(w, [method |-> "reap_calls", rows |-> rows, at |-> now])

\* A wrong UpdateExpiredCall, that puts the call back for another attempt.
UpdateExpiredCallRequeues(w) ==
  /\ In(w, "reap_calls")
  /\ \E c \in op[w].rows :
       /\ UpdateCall(c, Before(calls[c], op[w].at), [calls[c] EXCEPT !.state = "RESERVED",
                                                                     !.lease_expires_at = Null])
       /\ op' = [op EXCEPT ![w] = Without(op[w], c)]

UpdateExpiredCall(w) ==
  /\ In(w, "reap_calls")
  /\ \E c \in op[w].rows :
       /\ UpdateCall(c, Before(calls[c], op[w].at),
            [calls[c] EXCEPT !.state = "FAILED", !.reason = "provider_timeout",
                             !.lease_expires_at = Null])
       /\ op' = [op EXCEPT ![w] = Without(op[w], c)]

-----------------------------------------------------------------------------
(* The in-flight count of a predictive tick *)

LiveCalls == {c \in Contacts : calls[c].state \in LIVE_CALL_STATES}

CallsIn(state) == Cardinality({c \in Contacts : calls[c].state = state})

\* A wrong IN_FLIGHT_STATES, against the direction in which calls move.
IN_FLIGHT_STATES_REVERSED == <<"CONNECTED", "ANSWERED", "RINGING", "INITIATED", "RESERVED">>

IN_FLIGHT_STATES == <<"RESERVED", "INITIATED", "RINGING", "ANSWERED", "CONNECTED">>

\* in_flight is the sum of one SELECT per state.  opened is no variable of the
\* code: the lines that were open at the first SELECT.
SelectFirstState(w) ==
  Begin(w, [method |-> "count", selects |-> 1, in_flight |-> CallsIn(IN_FLIGHT_STATES[1]),
            opened |-> LiveCalls])

SelectNextState(w) ==
  /\ In(w, "count")
  /\ op[w].selects < Len(IN_FLIGHT_STATES)
  /\ op' = [op EXCEPT ![w].selects = @ + 1,
                     ![w].in_flight = @ + CallsIn(IN_FLIGHT_STATES[op[w].selects + 1])]
  /\ UNCHANGED <<tables, now>>

UseCount(w) ==
  /\ In(w, "count")
  /\ op[w].selects = Len(IN_FLIGHT_STATES)
  /\ End(w)
  /\ UNCHANGED <<tables, now>>

CountInFlight(w) == SelectFirstState(w) \/ SelectNextState(w) \/ UseCount(w)

-----------------------------------------------------------------------------

Clock ==
  /\ now < MaxTime
  /\ now' = now + 1
  /\ UNCHANGED <<tables, op>>

AgentStatement(w) ==
  \/ \E a \in Agents : ReserveAgent(w, a) \/ SelectTransition(w, a) \/ SelectForceRelease(w, a)
  \/ UpdateTransition(w) \/ UpdateForceRelease(w)
  \/ SelectExpiredAgents(w) \/ UpdateExpiredAgent(w)

\* worker.py writes a call from the worker that placed it, and moves it forward,
\* and from the reapers.
CallStatement(w) ==
  \/ \E c \in Contacts :
       \/ \E a \in Agents \cup {None} : InsertCall(w, c, a)
       \/ /\ calls[c].reserved_by = w
          /\ UpdateInitiated(w, c) \/ SelectApply(w, c) \/ \E a \in Agents : UpdateAttach(w, c, a)
  \/ UpdateApply(w)
  \/ SelectExpiredCalls(w) \/ UpdateExpiredCall(w)

ContactStatement(w) == UpdateContact(w) \/ \E c \in Contacts : SelectContact(w, c)

Next ==
  \/ Clock
  \/ \E w \in Connections :
       \/ AgentStatement(w) \/ CallStatement(w) \/ ContactStatement(w) \/ CountInFlight(w)
       \/ \E c \in Contacts : InsertEvent(w, [call_id |-> c, type |-> "RINGING", copy |-> 1])

Spec == Init /\ [][Next]_vars

-----------------------------------------------------------------------------
(* Refinement.  A lease becomes the number of ticks it has left: it is in   *)
(* the past one tick after lease_expires_at.                                *)

TicksLeft(t) == IF t = Null THEN -1 ELSE IF t < now THEN 0 ELSE t + 1 - now

AbstractAgents ==
  [a \in Agents |->
     [state |-> agents[a].state, reserved_by |-> agents[a].reserved_by,
      lease |-> TicksLeft(agents[a].lease_expires_at), current_call_id |-> agents[a].current_call_id]]

AbstractCalls ==
  [c \in Contacts |->
     [state |-> calls[c].state, reason |-> calls[c].reason, agent_id |-> calls[c].agent_id,
      reserved_by |-> calls[c].reserved_by, lease |-> TicksLeft(calls[c].lease_expires_at),
      answered |-> calls[c].answered, connected |-> calls[c].connected]]

Abstract ==
  INSTANCE Store WITH Workers <- Connections, MaxLease <- LeaseSeconds + 1,
                      agents <- AbstractAgents, calls <- AbstractCalls

\* However the statements of several connections interleave, every method has
\* the effect of one atomic step of Store, or none.
ImplementsStore == Abstract!StoreSpec

\* apply_call_transition may lose its CAS to any write, yet its callers read
\* None as "the call is over": while only its owner and the reapers write a
\* call, that is what a lost CAS means.
CasLostMeansCallOver ==
  [][\A w \in Connections :
       op[w].method = "apply" /\ op'[w] = NoOp /\ calls' = calls =>
         calls[op[w].call].state \in TERMINAL_CALL_STATES]_vars

\* The five SELECTs of the in-flight count are no snapshot, but they follow the
\* calls in the direction they move: a line that is open all the while is
\* counted at least once, so the controller never takes an open line for free.
CountMissesNoLine ==
  \A w \in Connections :
    op[w].method = "count" /\ op[w].selects = Len(IN_FLIGHT_STATES) =>
      op[w].in_flight >= Cardinality(op[w].opened \cap LiveCalls)

=============================================================================
