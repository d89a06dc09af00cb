--------------------------- MODULE StoreSqlProofs ---------------------------
(***************************************************************************)
(* The statements of any number of connections, interleaved in any way,    *)
(* act as the atomic methods of Store: proofs checked by TLAPS.            *)
(***************************************************************************)
EXTENDS StoreSql, FiniteSetTheorems, TLAPS

-----------------------------------------------------------------------------
(* Rows, and what a connection remembers between SELECT and UPDATE *)

\* What can be in lease_expires_at at time t.
Times(t) == {Null} \cup 0 .. (t + LeaseSeconds)

AgentRow(t) ==
  [state : AgentState \ {"OFFLINE", "PAUSED"}, reserved_by : Connections \cup {None},
   lease_expires_at : Times(t), current_call_id : Contacts \cup {None}, version : Nat]

CallRow(t) ==
  [state : CallState, reason : FailureReason \cup {None}, agent_id : Agents \cup {None},
   reserved_by : Connections \cup {None}, lease_expires_at : Times(t),
   answered : BOOLEAN, connected : BOOLEAN, version : Nat]

TransitionOp(t) ==
  [method : {"transition"}, agent : Agents, target : AgentState \ {"OFFLINE", "PAUSED"},
   call : Contacts \cup {None}, lease : Times(t), state : AgentState, version : Nat]

ReleaseOp == [method : {"release"}, agent : Agents, version : Nat]

ApplyOp(t) ==
  [method : {"apply"}, call : Contacts, state : EventType, version : Nat,
   lease : 0 .. (t + LeaseSeconds)]

ReapOp(method, rows, t) == [method : {method}, rows : SUBSET rows, at : 0 .. t]

CountOp == [method : {"count"}, selects : 1 .. 5, in_flight : Nat, opened : SUBSET Contacts]

OpOK(o, t) ==
  /\ o.method = "transition"  => o \in TransitionOp(t)
  /\ o.method = "release"     => o \in ReleaseOp
  /\ o.method = "reap_agents" => o \in ReapOp("reap_agents", Agents, t)
  /\ o.method = "claim"       => o.call \in Contacts
  /\ o.method = "apply"       => o \in ApplyOp(t)
  /\ o.method = "reap_calls"  => o \in ReapOp("reap_calls", Contacts, t)
  /\ o.method = "count"       => o \in CountOp

TypeInv ==
  /\ now \in Nat
  /\ agents \in [Agents -> AgentRow(now)]
  /\ contacts \in [Contacts -> Connections \cup {None}]
  /\ calls \in [Contacts -> CallRow(now)]
  /\ op = [w \in Connections |-> op[w]]
  /\ \A w \in Connections : OpOK(op[w], now)

-----------------------------------------------------------------------------
(* The rows Store sees *)

Left(t, at) == IF t = Null THEN -1 ELSE IF t < at THEN 0 ELSE t + 1 - at

AgentView(row, t) ==
  [state |-> row.state, reserved_by |-> row.reserved_by,
   lease |-> Left(row.lease_expires_at, t), current_call_id |-> row.current_call_id]

CallView(row, t) ==
  [state |-> row.state, reason |-> row.reason, agent_id |-> row.agent_id,
   reserved_by |-> row.reserved_by, lease |-> Left(row.lease_expires_at, t),
   answered |-> row.answered, connected |-> row.connected]

LEMMA Views ==
  /\ AbstractAgents = [a \in Agents |-> AgentView(agents[a], now)]
  /\ AbstractAgents' = [a \in Agents |-> AgentView(agents'[a], now')]
  /\ AbstractCalls = [c \in Contacts |-> CallView(calls[c], now)]
  /\ AbstractCalls' = [c \in Contacts |-> CallView(calls'[c], now')]
BY DEF AbstractAgents, AbstractCalls, AgentView, CallView, TicksLeft, Left

\* A lease is within what Store allows, and a moment nearer after a tick.
LEMMA LeftType ==
  ASSUME NEW t \in Nat, NEW at \in Times(t)
  PROVE  Left(at, t) \in {Abstract!NoLease} \cup Abstract!Leases
BY SqlAssumption DEF Times, Left, Null, Abstract!NoLease, Abstract!Leases

LEMMA LeftAges ==
  ASSUME NEW t \in Nat, NEW at \in Times(t)
  PROVE  Left(at, t + 1) = IF Left(at, t) > 0 THEN Left(at, t) - 1 ELSE Left(at, t)
BY SqlAssumption DEF Times, Left, Null

\* One row is written.
LEMMA AgentWritten ==
  ASSUME agents \in [Agents -> AgentRow(now)], NEW a \in Agents, NEW row, now' = now,
         agents' = [agents EXCEPT ![a] = row]
  PROVE  AbstractAgents' = [AbstractAgents EXCEPT ![a] = AgentView(row, now)]
BY Views

LEMMA CallWritten ==
  ASSUME calls \in [Contacts -> CallRow(now)], NEW c \in Contacts, NEW row, now' = now,
         calls' = [calls EXCEPT ![c] = row]
  PROVE  AbstractCalls' = [AbstractCalls EXCEPT ![c] = CallView(row, now)]
BY Views

LEMMA SameView ==
  /\ agents' = agents /\ now' = now => AbstractAgents' = AbstractAgents
  /\ calls' = calls /\ now' = now => AbstractCalls' = AbstractCalls
BY Views

LEMMA InitViews ==
  Init => Abstract!StoreInit
<1> SUFFICES ASSUME Init PROVE Abstract!StoreInit
  OBVIOUS
<1>1. /\ AgentView(FreeAgent, 0) = Abstract!FreeAgent
      /\ CallView(NoCall, 0) = Abstract!NoCall
  BY DEF AgentView, CallView, FreeAgent, NoCall, Left, Null, Abstract!FreeAgent, Abstract!NoCall,
     Abstract!NoLease
<1>2. AbstractAgents = [a \in Agents |-> Abstract!FreeAgent]
  BY <1>1, Views DEF Init
<1>3. AbstractCalls = [c \in Contacts |-> Abstract!NoCall]
  BY <1>1, Views DEF Init
<1> QED
  BY <1>2, <1>3 DEF Init, Abstract!StoreInit

-----------------------------------------------------------------------------
(* What makes the CAS of each UPDATE sound: the version a connection read is *)
(* never ahead of the row's, and while it is the row's own, the row is still *)
(* as the SELECT showed it.                                                  *)

AgentSound(o, w, ag) ==
  /\ o.method = "transition" =>
       /\ AgentEdge(o.state, o.target)
       /\ o.version <= ag[o.agent].version
       /\ o.version = ag[o.agent].version =>
            ag[o.agent].state = o.state /\ ag[o.agent].reserved_by \in {None, w}
  /\ o.method = "release" =>
       /\ o.version <= ag[o.agent].version
       /\ o.version = ag[o.agent].version =>
            ag[o.agent].state # "AVAILABLE" /\ ag[o.agent].current_call_id # None

\* A call is written by its owner, who is busy here, and by the reapers.
ApplySound(o, w, cl) ==
  o.method = "apply" =>
    /\ cl[o.call].reserved_by = w
    /\ o.version <= cl[o.call].version
    /\ o.version # cl[o.call].version => cl[o.call].state \in TERMINAL_CALL_STATES
    /\ o.version = cl[o.call].version =>
         CALL_STATE_RANK[cl[o.call].state] < CALL_STATE_RANK[o.state]

\* The lines a count has passed: the SELECTs so far have counted each of them.
CountSound(o, cl) ==
  o.method = "count" =>
    \E counted \in SUBSET Contacts :
      /\ Cardinality(counted) <= o.in_flight
      /\ \A c \in o.opened :
           /\ cl[c].state # "QUEUED"
           /\ CALL_STATE_RANK[cl[c].state] <= o.selects => c \in counted

Sound(o, w, ag, cl) == AgentSound(o, w, ag) /\ ApplySound(o, w, cl) /\ CountSound(o, cl)

CallSound(row) ==
  /\ row.lease_expires_at # Null => row.state \in LIVE_CALL_STATES
  /\ row.state = "QUEUED" => row.reserved_by = None

SqlInv ==
  /\ TypeInv
  /\ \A c \in Contacts : CallSound(calls[c])
  /\ \A w \in Connections : Sound(op[w], w, agents, calls)

\* What any statement may do to the agents, and a statement of w to the calls.
AgentsMove ==
  \/ agents' = agents
  \/ \E a \in Agents, row \in AgentRow(now) :
       row.version = agents[a].version + 1 /\ agents' = [agents EXCEPT ![a] = row]

CallMoves(w, c, row) ==
  /\ row.version = calls[c].version + 1
  /\ CallSound(row)
  /\ row.state # "QUEUED"
  /\ CALL_STATE_RANK[calls[c].state] <= CALL_STATE_RANK[row.state]
  /\ calls[c].reserved_by \in {None, row.reserved_by}
  /\ row.state \in TERMINAL_CALL_STATES \/ calls[c].reserved_by \in {None, w}

CallsMove(w) ==
  \/ calls' = calls
  \/ \E c \in Contacts, row \in CallRow(now) :
       CallMoves(w, c, row) /\ calls' = [calls EXCEPT ![c] = row]

LEMMA RankNat == \A s \in CallState : CALL_STATE_RANK[s] \in 0 .. 6
BY DEF CALL_STATE_RANK, CallState

LEMMA AgentSoundKept ==
  ASSUME NEW t, NEW ag \in [Agents -> AgentRow(t)], NEW w, NEW o, OpOK(o, t), AgentSound(o, w, ag),
         NEW a \in Agents, NEW row \in AgentRow(t), row.version = ag[a].version + 1
  PROVE  AgentSound(o, w, [ag EXCEPT ![a] = row])
<1> DEFINE new == [ag EXCEPT ![a] = row]
<1>1. \A x \in Agents : ag[x].version \in Nat /\ new[x].version \in Nat
  BY DEF AgentRow
<1>2. \A x \in Agents : new[x] = IF x = a THEN row ELSE ag[x]
  OBVIOUS
<1> HIDE DEF new
<1>3. CASE o.method = "transition"
  <2>1. o.agent \in Agents /\ o.version \in Nat
    BY <1>3 DEF OpOK, TransitionOp
  <2>2. CASE o.agent = a
    <3>1. new[a] = row /\ ag[a].version \in Nat
      BY <1>1, <1>2
    <3>2. o.version < row.version
      BY <1>3, <2>1, <2>2, <3>1 DEF AgentSound
    <3> QED
      BY <1>3, <2>1, <2>2, <3>1, <3>2, <1>1 DEF AgentSound, new
  <2>3. CASE o.agent # a
    BY <1>2, <1>3, <2>1, <2>3 DEF AgentSound, new
  <2> QED
    BY <2>2, <2>3
<1>4. CASE o.method = "release"
  <2>1. o.agent \in Agents /\ o.version \in Nat
    BY <1>4 DEF OpOK, ReleaseOp
  <2>2. CASE o.agent = a
    <3>1. new[a] = row /\ ag[a].version \in Nat
      BY <1>1, <1>2
    <3>2. o.version < row.version
      BY <1>4, <2>1, <2>2, <3>1 DEF AgentSound
    <3> QED
      BY <1>4, <2>1, <2>2, <3>1, <3>2, <1>1 DEF AgentSound, new
  <2>3. CASE o.agent # a
    BY <1>2, <1>4, <2>1, <2>3 DEF AgentSound, new
  <2> QED
    BY <2>2, <2>3
<1> QED
  BY <1>3, <1>4 DEF AgentSound

\* The actor of a step is w; o belongs to another connection, v.
LEMMA ApplySoundKept ==
  ASSUME NEW t, NEW cl \in [Contacts -> CallRow(t)], NEW w \in Connections, NEW v \in Connections,
         v # w, NEW o, OpOK(o, t), ApplySound(o, v, cl),
         NEW c \in Contacts, NEW row \in CallRow(t), row.version = cl[c].version + 1,
         cl[c].reserved_by \in {None, row.reserved_by},
         row.state \in TERMINAL_CALL_STATES \/ cl[c].reserved_by \in {None, w}
  PROVE  ApplySound(o, v, [cl EXCEPT ![c] = row])
<1> DEFINE new == [cl EXCEPT ![c] = row]
<1>1. \A x \in Contacts : new[x] = IF x = c THEN row ELSE cl[x]
  OBVIOUS
<1> HIDE DEF new
<1> SUFFICES ASSUME o.method = "apply" PROVE ApplySound(o, v, new)
  BY DEF ApplySound, new
<1>2. o.call \in Contacts /\ o.version \in Nat
  BY DEF OpOK, ApplyOp
<1>3. CASE o.call # c
  BY <1>1, <1>2, <1>3 DEF ApplySound
<1>4. CASE o.call = c
  <2>1. cl[c].reserved_by = v /\ v # None
    BY <1>4, SqlAssumption DEF ApplySound
  <2>2. row.reserved_by = v /\ row.state \in TERMINAL_CALL_STATES
    BY <2>1
  <2>3. cl[c].version \in Nat
    BY DEF CallRow
  <2>4. o.version < row.version
    BY <1>2, <1>4, <2>3 DEF ApplySound
  <2>5. new[o.call] = row
    BY <1>1, <1>4
  <2>6. row.version \in Nat
    BY DEF CallRow
  <2> QED
    BY <1>2, <2>2, <2>4, <2>5, <2>6 DEF ApplySound
<1> QED
  BY <1>3, <1>4

\* A call moves forward, so a line a count has passed is never ahead of it again.
LEMMA CountSoundKept ==
  ASSUME NEW t, NEW cl \in [Contacts -> CallRow(t)], NEW o, OpOK(o, t), CountSound(o, cl),
         NEW c \in Contacts, NEW row \in CallRow(t), row.state # "QUEUED",
         CALL_STATE_RANK[cl[c].state] <= CALL_STATE_RANK[row.state]
  PROVE  CountSound(o, [cl EXCEPT ![c] = row])
<1> DEFINE new == [cl EXCEPT ![c] = row]
<1>1. \A x \in Contacts : new[x] = IF x = c THEN row ELSE cl[x]
  OBVIOUS
<1> HIDE DEF new
<1> SUFFICES ASSUME o.method = "count" PROVE CountSound(o, new)
  BY DEF CountSound, new
<1>2. o.selects \in 1 .. 5 /\ o.opened \in SUBSET Contacts
  BY DEF OpOK, CountOp
<1>3. PICK counted \in SUBSET Contacts :
        /\ Cardinality(counted) <= o.in_flight
        /\ \A x \in o.opened :
             /\ cl[x].state # "QUEUED"
             /\ CALL_STATE_RANK[cl[x].state] <= o.selects => x \in counted
  BY DEF CountSound
<1>4. CALL_STATE_RANK[cl[c].state] \in Int /\ CALL_STATE_RANK[row.state] \in Int
  BY RankNat DEF CallRow
<1>5. ASSUME NEW x \in o.opened
      PROVE  /\ new[x].state # "QUEUED"
             /\ CALL_STATE_RANK[new[x].state] <= o.selects => x \in counted
  <2>1. CASE x = c
    <3>1. new[x] = row
      BY <1>1, <2>1
    <3> QED
      BY <1>2, <1>3, <1>4, <2>1, <3>1
  <2>2. CASE x # c
    BY <1>1, <1>2, <1>3, <2>2
  <2> QED
    BY <2>1, <2>2
<1> QED
  BY <1>3, <1>5 DEF CountSound

\* OpOK looks at the clock only to bound a lease.
LEMMA OpOKLater ==
  ASSUME NEW t \in Nat, NEW o, OpOK(o, t) PROVE OpOK(o, t + 1)
<1>1. Times(t) \subseteq Times(t + 1) /\ 0 .. (t + LeaseSeconds) \subseteq 0 .. (t + 1 + LeaseSeconds)
  BY SqlAssumption DEF Times
<1>2. o \in TransitionOp(t) => o \in TransitionOp(t + 1)
  BY <1>1 DEF TransitionOp
<1>3. o \in ApplyOp(t) => o \in ApplyOp(t + 1)
  BY <1>1 DEF ApplyOp
<1>4. \A m, S : o \in ReapOp(m, S, t) => o \in ReapOp(m, S, t + 1)
  BY DEF ReapOp
<1> QED
  BY <1>2, <1>3, <1>4 DEF OpOK

\* A step of connection w that leaves it with o keeps the invariant, if o is
\* sound for the tables the step leaves.
LEMMA StepKeeps ==
  ASSUME SqlInv, NEW w \in Connections, NEW o, now' = now, AgentsMove, CallsMove(w),
         contacts' \in [Contacts -> Connections \cup {None}],
         op' = [op EXCEPT ![w] = o], OpOK(o, now), Sound(o, w, agents', calls')
  PROVE  SqlInv'
<1>1. agents' \in [Agents -> AgentRow(now)]
  BY DEF SqlInv, TypeInv, AgentsMove
<1>2. calls' \in [Contacts -> CallRow(now)]
  BY DEF SqlInv, TypeInv, CallsMove
<1>3. \A c \in Contacts : CallSound(calls'[c])
  BY DEF SqlInv, TypeInv, CallsMove, CallMoves
<1>4. \A v \in Connections : op'[v] = IF v = w THEN o ELSE op[v]
  BY DEF SqlInv, TypeInv
<1>5. op' = [v \in Connections |-> op'[v]]
  BY DEF SqlInv, TypeInv
<1>6. ASSUME NEW v \in Connections
      PROVE  OpOK(op'[v], now) /\ Sound(op'[v], v, agents', calls')
  <2>1. CASE v = w
    BY <1>4, <2>1
  <2>2. CASE v # w
    <3>1. PICK q : q = op[v]
      OBVIOUS
    <3>2. op'[v] = q
      BY <1>4, <2>2, <3>1
    <3>3. OpOK(q, now) /\ AgentSound(q, v, agents) /\ ApplySound(q, v, calls) /\ CountSound(q, calls)
      BY <3>1 DEF SqlInv, TypeInv, Sound
    <3>4. AgentSound(q, v, agents')
      BY <3>3, AgentSoundKept DEF AgentsMove, SqlInv, TypeInv
    <3>5. ApplySound(q, v, calls')
      <4>1. CASE calls' = calls
        BY <3>3, <4>1
      <4>2. CASE calls' # calls
        <5>1. PICK c \in Contacts, row \in CallRow(now) :
                CallMoves(w, c, row) /\ calls' = [calls EXCEPT ![c] = row]
          BY <4>2 DEF CallsMove
        <5>2. /\ row.version = calls[c].version + 1
              /\ calls[c].reserved_by \in {None, row.reserved_by}
              /\ row.state \in TERMINAL_CALL_STATES \/ calls[c].reserved_by \in {None, w}
          BY <5>1 DEF CallMoves
        <5>3. calls \in [Contacts -> CallRow(now)]
          BY DEF SqlInv, TypeInv
        <5>4. ApplySound(q, v, [calls EXCEPT ![c] = row])
          BY <2>2, <3>3, <5>2, <5>3, ApplySoundKept
        <5> QED
          BY <5>1, <5>4
      <4> QED
        BY <4>1, <4>2
    <3>6. CountSound(q, calls')
      BY <3>3, CountSoundKept DEF CallsMove, CallMoves, SqlInv, TypeInv
    <3> QED
      BY <3>2, <3>3, <3>4, <3>5, <3>6 DEF Sound
  <2> QED
    BY <2>1, <2>2
<1> QED
  BY <1>1, <1>2, <1>3, <1>5, <1>6 DEF SqlInv, TypeInv

-----------------------------------------------------------------------------
(* Statement by statement *)

LEMMA NoOpSound ==
  ASSUME NEW t, NEW w, NEW ag, NEW cl
  PROVE  OpOK(NoOp, t) /\ Sound(NoOp, w, ag, cl)
BY DEF NoOp, OpOK, Sound, AgentSound, ApplySound, CountSound

LEMMA BeginKeeps ==
  ASSUME SqlInv, NEW w \in Connections, NEW o, Begin(w, o), OpOK(o, now),
         Sound(o, w, agents, calls)
  PROVE  SqlInv'
<1>1. /\ now' = now /\ agents' = agents /\ calls' = calls /\ contacts' = contacts
      /\ op' = [op EXCEPT ![w] = o]
  BY DEF Begin, tables
<1>2. AgentsMove /\ CallsMove(w) /\ Sound(o, w, agents', calls')
  BY <1>1 DEF AgentsMove, CallsMove
<1>3. contacts' \in [Contacts -> Connections \cup {None}]
  BY <1>1 DEF SqlInv, TypeInv
<1> QED
  BY <1>1, <1>2, <1>3, StepKeeps

LEMMA UpdateAgentKeeps ==
  ASSUME SqlInv, NEW w \in Connections, NEW o, NEW a \in Agents, NEW cond,
         NEW row \in AgentRow(now), UpdateAgent(a, cond, row),
         op' = [op EXCEPT ![w] = o], OpOK(o, now), Sound(o, w, agents', calls')
  PROVE  SqlInv'
<1>1. now' = now /\ calls' = calls /\ contacts' = contacts
  BY DEF UpdateAgent
<1>2. [row EXCEPT !.version = agents[a].version + 1] \in AgentRow(now)
  BY DEF AgentRow, SqlInv, TypeInv
<1>3. [row EXCEPT !.version = agents[a].version + 1].version = agents[a].version + 1
  BY DEF AgentRow
<1>4. AgentsMove
  BY <1>2, <1>3 DEF AgentsMove, UpdateAgent
<1>5. CallsMove(w) /\ contacts' \in [Contacts -> Connections \cup {None}]
  BY <1>1 DEF CallsMove, SqlInv, TypeInv
<1> QED
  BY <1>1, <1>4, <1>5, StepKeeps

LEMMA UpdateCallKeeps ==
  ASSUME SqlInv, NEW w \in Connections, NEW o, NEW c \in Contacts, NEW cond,
         NEW row \in CallRow(now), UpdateCall(c, cond, row),
         cond => CallMoves(w, c, [row EXCEPT !.version = calls[c].version + 1]),
         op' = [op EXCEPT ![w] = o], OpOK(o, now), Sound(o, w, agents', calls')
  PROVE  SqlInv'
<1>1. now' = now /\ agents' = agents /\ contacts' = contacts
  BY DEF UpdateCall
<1>2. [row EXCEPT !.version = calls[c].version + 1] \in CallRow(now)
  BY DEF CallRow, SqlInv, TypeInv
<1>3. CallsMove(w)
  BY <1>2 DEF CallsMove, UpdateCall
<1>4. AgentsMove /\ contacts' \in [Contacts -> Connections \cup {None}]
  BY <1>1 DEF AgentsMove, SqlInv, TypeInv
<1> QED
  BY <1>1, <1>3, <1>4, StepKeeps

LEMMA LeaseTimes ==
  ASSUME SqlInv
  PROVE  now + LeaseSeconds \in 0 .. (now + LeaseSeconds) /\ now + LeaseSeconds \in Times(now)
         /\ Null \in Times(now)
BY SqlAssumption DEF SqlInv, TypeInv, Times

LEMMA AgentRowWith ==
  ASSUME NEW row \in AgentRow(now), NEW s \in AgentState \ {"OFFLINE", "PAUSED"},
         NEW h \in Connections \cup {None}, NEW lease \in Times(now), NEW c \in Contacts \cup {None}
  PROVE  [row EXCEPT !.state = s, !.reserved_by = h, !.lease_expires_at = lease,
                     !.current_call_id = c] \in AgentRow(now)
BY DEF AgentRow

LEMMA ReservedAgentRow ==
  ASSUME SqlInv, NEW a \in Agents, NEW w \in Connections
  PROVE  [agents[a] EXCEPT !.state = "RESERVED", !.reserved_by = w,
                           !.lease_expires_at = now + LeaseSeconds] \in AgentRow(now)
<1>1. PICK at : at = now + LeaseSeconds /\ at \in Times(now)
  BY LeaseTimes
<1>2. PICK row \in AgentRow(now) : row = agents[a]
  BY DEF SqlInv, TypeInv
<1>3. [row EXCEPT !.state = "RESERVED", !.reserved_by = w, !.lease_expires_at = at] \in AgentRow(now)
  BY <1>1 DEF AgentRow, AgentState
<1> QED
  BY <1>1, <1>2, <1>3

LEMMA FailedCallRow ==
  ASSUME SqlInv, NEW c \in Contacts
  PROVE  [calls[c] EXCEPT !.state = "FAILED", !.reason = "provider_timeout",
                          !.lease_expires_at = Null] \in CallRow(now)
<1>1. PICK row \in CallRow(now) : row = calls[c]
  BY DEF SqlInv, TypeInv
<1>2. Null \in Times(now)
  BY LeaseTimes
<1>3. [row EXCEPT !.state = "FAILED", !.reason = "provider_timeout", !.lease_expires_at = Null]
        \in CallRow(now)
  BY <1>2 DEF CallRow, CallState, FailureReason
<1> QED
  BY <1>1, <1>3

LEMMA FreeAgentRow ==
  FreeAgent \in AgentRow(now)
BY DEF FreeAgent, AgentRow, AgentState, Times

\* A connection that runs no method, or ends one, on the agents.
LEMMA ReserveAgentKeeps ==
  ASSUME SqlInv, NEW w \in Connections, NEW a \in Agents, ReserveAgent(w, a)
  PROVE  SqlInv'
<1> DEFINE row == [agents[a] EXCEPT !.state = "RESERVED", !.reserved_by = w,
                                    !.lease_expires_at = now + LeaseSeconds]
<1>1. row \in AgentRow(now)
  BY ReservedAgentRow
<1>2. UpdateAgent(a, agents[a].state = "AVAILABLE", row)
  BY DEF ReserveAgent
<1>3. op' = [op EXCEPT ![w] = NoOp]
  BY DEF ReserveAgent, SqlInv, TypeInv
<1> HIDE DEF row
<1> QED
  BY <1>1, <1>2, <1>3, NoOpSound, UpdateAgentKeeps

LEMMA SelectTransitionKeeps ==
  ASSUME SqlInv, NEW w \in Connections, NEW a \in Agents, SelectTransition(w, a)
  PROVE  SqlInv'
<1>0. PICK target \in AgentState \ {"OFFLINE", "PAUSED"}, c \in Contacts \cup {None},
           lease \in {Null, now + LeaseSeconds} :
        /\ AgentEdge(agents[a].state, target)
        /\ Begin(w, [method |-> "transition", agent |-> a, target |-> target, call |-> c,
                     lease |-> lease, state |-> agents[a].state, version |-> agents[a].version])
  BY DEF SelectTransition
<1>1. PICK o : /\ o = [method |-> "transition", agent |-> a, target |-> target, call |-> c,
                       lease |-> lease, state |-> agents[a].state, version |-> agents[a].version]
               /\ Begin(w, o)
  BY <1>0
<1>2. agents[a].state \in AgentState /\ agents[a].version \in Nat
  BY DEF SqlInv, TypeInv, AgentRow
<1>3. OpOK(o, now)
  BY <1>1, <1>2, LeaseTimes DEF OpOK, TransitionOp
<1>4. AgentSound(o, w, agents)
  BY <1>0, <1>1, <1>2 DEF AgentSound, SelectTransition
<1>5. Sound(o, w, agents, calls)
  BY <1>1, <1>4 DEF Sound, ApplySound, CountSound
<1> QED
  BY <1>1, <1>3, <1>5, BeginKeeps

LEMMA UpdateTransitionKeeps ==
  ASSUME SqlInv, NEW w \in Connections, UpdateTransition(w)
  PROVE  SqlInv'
<1>1. PICK o : o = op[w]
  OBVIOUS
<1>2. o \in TransitionOp(now)
  BY <1>1 DEF SqlInv, TypeInv, OpOK, UpdateTransition, In
<1>3. PICK a \in Agents : a = o.agent
  BY <1>2 DEF TransitionOp
<1> DEFINE holder == IF o.target = "AVAILABLE" THEN None ELSE w
           row == [agents[a] EXCEPT !.state = o.target, !.reserved_by = holder,
                                    !.lease_expires_at = o.lease, !.current_call_id = o.call]
<1>4. row \in AgentRow(now)
  <2>1. agents[a] \in AgentRow(now) /\ holder \in Connections \cup {None}
    BY DEF SqlInv, TypeInv
  <2> HIDE DEF holder
  <2>2. /\ o.target \in AgentState \ {"OFFLINE", "PAUSED"}
        /\ o.lease \in Times(now) /\ o.call \in Contacts \cup {None}
    BY <1>2 DEF TransitionOp
  <2> QED
    BY <2>1, <2>2, AgentRowWith
<1>5. UpdateAgent(a, agents[a].state = o.state /\ agents[a].version = o.version, row)
  BY <1>1, <1>3 DEF UpdateTransition
<1>6. op' = [op EXCEPT ![w] = NoOp]
  BY DEF UpdateTransition, End
<1> HIDE DEF row
<1> QED
  BY <1>4, <1>5, <1>6, NoOpSound, UpdateAgentKeeps

LEMMA SelectForceReleaseKeeps ==
  ASSUME SqlInv, NEW w \in Connections, NEW a \in Agents, SelectForceRelease(w, a)
  PROVE  SqlInv'
<1>1. PICK o : /\ o = [method |-> "release", agent |-> a, version |-> agents[a].version]
               /\ Begin(w, o)
  BY DEF SelectForceRelease
<1>2. agents[a].version \in Nat
  BY DEF SqlInv, TypeInv, AgentRow
<1>3. OpOK(o, now)
  BY <1>1, <1>2 DEF OpOK, ReleaseOp
<1>4. Sound(o, w, agents, calls)
  BY <1>1, <1>2 DEF Sound, AgentSound, ApplySound, CountSound, SelectForceRelease
<1> QED
  BY <1>1, <1>3, <1>4, BeginKeeps

LEMMA UpdateForceReleaseKeeps ==
  ASSUME SqlInv, NEW w \in Connections, UpdateForceRelease(w)
  PROVE  SqlInv'
<1>1. op[w].agent \in Agents
  BY DEF SqlInv, TypeInv, OpOK, ReleaseOp, UpdateForceRelease, In
<1>2. PICK a \in Agents : a = op[w].agent
  BY <1>1
<1>3. UpdateAgent(a, agents[a].version = op[w].version, FreeAgent)
  BY <1>2 DEF UpdateForceRelease
<1>4. op' = [op EXCEPT ![w] = NoOp]
  BY DEF UpdateForceRelease, End
<1> QED
  BY <1>3, <1>4, FreeAgentRow, NoOpSound, UpdateAgentKeeps

\* What a reaper remembers: the rows left and the instant it looked.
LEMMA ReapSound ==
  ASSUME NEW w, NEW ag, NEW cl, NEW o, o.method \in {"reap_agents", "reap_calls", "claim"}
  PROVE  Sound(o, w, ag, cl)
BY DEF Sound, AgentSound, ApplySound, CountSound

LEMMA SelectExpiredAgentsKeeps ==
  ASSUME SqlInv, NEW w \in Connections, SelectExpiredAgents(w)
  PROVE  SqlInv'
<1>0. PICK rows \in SUBSET Agents : Begin(w, [method |-> "reap_agents", rows |-> rows, at |-> now])
  BY DEF SelectExpiredAgents
<1>1. PICK o : o = [method |-> "reap_agents", rows |-> rows, at |-> now] /\ Begin(w, o)
  BY <1>0
<1>2. OpOK(o, now)
  BY <1>1 DEF OpOK, ReapOp, SqlInv, TypeInv
<1> QED
  BY <1>1, <1>2, ReapSound, BeginKeeps

LEMMA WithoutSound ==
  ASSUME NEW w, NEW ag, NEW cl, NEW t, NEW o, NEW x,
         \/ o \in ReapOp("reap_agents", Agents, t)
         \/ o \in ReapOp("reap_calls", Contacts, t)
  PROVE  OpOK(Without(o, x), t) /\ Sound(Without(o, x), w, ag, cl)
<1>1. CASE o.rows = {x}
  BY <1>1, NoOpSound DEF Without
<1>2. CASE o.rows # {x}
  <2> DEFINE q == [o EXCEPT !.rows = @ \ {x}]
  <2>1. Without(o, x) = q
    BY <1>2 DEF Without
  <2>2. \/ q \in ReapOp("reap_agents", Agents, t) /\ q.method = "reap_agents"
        \/ q \in ReapOp("reap_calls", Contacts, t) /\ q.method = "reap_calls"
    BY DEF ReapOp
  <2> HIDE DEF q
  <2>3. OpOK(q, t)
    BY <2>2 DEF OpOK
  <2>4. Sound(q, w, ag, cl)
    BY <2>2, ReapSound
  <2> QED
    BY <2>1, <2>3, <2>4
<1> QED
  BY <1>1, <1>2

LEMMA UpdateExpiredAgentKeeps ==
  ASSUME SqlInv, NEW w \in Connections, UpdateExpiredAgent(w)
  PROVE  SqlInv'
<1>1. op[w] \in ReapOp("reap_agents", Agents, now)
  BY DEF SqlInv, TypeInv, OpOK, UpdateExpiredAgent, In
<1>2. PICK a \in op[w].rows : /\ UpdateAgent(a, Before(agents[a], op[w].at), FreeAgent)
                              /\ op' = [op EXCEPT ![w] = Without(op[w], a)]
  BY DEF UpdateExpiredAgent
<1>3. a \in Agents
  BY <1>1 DEF ReapOp
<1>4. PICK q : q = Without(op[w], a)
  OBVIOUS
<1>5. OpOK(q, now) /\ Sound(q, w, agents', calls')
  BY <1>1, <1>4, WithoutSound
<1> QED
  BY <1>2, <1>3, <1>4, <1>5, FreeAgentRow, UpdateAgentKeeps

LEMMA ContactKeeps ==
  ASSUME SqlInv, NEW w \in Connections, ContactStatement(w)
  PROVE  SqlInv'
<1>1. CASE \E c \in Contacts : SelectContact(w, c)
  <2>1. PICK c \in Contacts : Begin(w, [method |-> "claim", call |-> c])
    BY <1>1 DEF SelectContact
  <2>2. PICK o : o = [method |-> "claim", call |-> c] /\ Begin(w, o)
    BY <2>1
  <2>3. OpOK(o, now)
    BY <2>2 DEF OpOK
  <2> QED
    BY <2>2, <2>3, ReapSound, BeginKeeps
<1>2. CASE UpdateContact(w)
  <2>1. /\ now' = now /\ agents' = agents /\ calls' = calls
        /\ op' = [op EXCEPT ![w] = NoOp]
    BY <1>2 DEF UpdateContact, End
  <2>2. AgentsMove /\ CallsMove(w)
    BY <2>1 DEF AgentsMove, CallsMove
  <2>3. contacts' \in [Contacts -> Connections \cup {None}]
    BY <1>2 DEF UpdateContact, SqlInv, TypeInv
  <2> QED
    BY <2>1, <2>2, <2>3, NoOpSound, StepKeeps
<1> QED
  BY <1>1, <1>2 DEF ContactStatement

LEMMA InsertEventKeeps ==
  ASSUME SqlInv, NEW w \in Connections, NEW e, InsertEvent(w, e)
  PROVE  SqlInv'
<1>1. /\ now' = now /\ agents' = agents /\ calls' = calls /\ contacts' = contacts
      /\ op' = [op EXCEPT ![w] = NoOp]
  BY DEF InsertEvent, SqlInv, TypeInv
<1>2. AgentsMove /\ CallsMove(w) /\ contacts' \in [Contacts -> Connections \cup {None}]
  BY <1>1 DEF AgentsMove, CallsMove, SqlInv, TypeInv
<1> QED
  BY <1>1, <1>2, NoOpSound, StepKeeps

LEMMA CallTyped ==
  ASSUME SqlInv, NEW c \in Contacts
  PROVE  calls[c] \in CallRow(now) /\ CallSound(calls[c])
BY DEF SqlInv, TypeInv

LEMMA InsertCallKeeps ==
  ASSUME SqlInv, NEW w \in Connections, NEW c \in Contacts, NEW a \in Agents \cup {None},
         InsertCall(w, c, a)
  PROVE  SqlInv'
<1> DEFINE row == [NoCall EXCEPT !.state = "RESERVED", !.agent_id = a, !.reserved_by = w]
           new == [row EXCEPT !.version = calls[c].version + 1]
<1>1. UpdateCall(c, TRUE, row) /\ op' = [op EXCEPT ![w] = NoOp] /\ calls[c] = NoCall
  BY DEF InsertCall, SqlInv, TypeInv
<1>2. row \in CallRow(now)
  BY LeaseTimes DEF NoCall, CallRow, CallState
<1>3. /\ new.version = calls[c].version + 1 /\ new.state = "RESERVED"
      /\ new.lease_expires_at = Null /\ new.reserved_by = w
      /\ calls[c].reserved_by = None /\ calls[c].state = "QUEUED"
  BY <1>1 DEF NoCall
<1>4. CALL_STATE_RANK["QUEUED"] <= CALL_STATE_RANK["RESERVED"]
  BY DEF CALL_STATE_RANK, CallState
<1>5. CallMoves(w, c, new)
  BY <1>3, <1>4 DEF CallMoves, CallSound
<1> HIDE DEF row
<1> QED
  BY <1>1, <1>2, <1>5, NoOpSound, UpdateCallKeeps

LEMMA UpdateInitiatedKeeps ==
  ASSUME SqlInv, NEW w \in Connections, NEW c \in Contacts, calls[c].reserved_by = w,
         UpdateInitiated(w, c)
  PROVE  SqlInv'
<1> DEFINE row == [calls[c] EXCEPT !.state = "INITIATED", !.lease_expires_at = now + LeaseSeconds]
           new == [row EXCEPT !.version = calls[c].version + 1]
<1>1. /\ UpdateCall(c, calls[c].state = "RESERVED", row) /\ op' = [op EXCEPT ![w] = NoOp]
      /\ calls[c].state = "RESERVED"
  BY DEF UpdateInitiated, SqlInv, TypeInv
<1>2. row \in CallRow(now)
  BY CallTyped, LeaseTimes DEF CallRow, CallState
<1>3. new.version = calls[c].version + 1 /\ new.state = "INITIATED" /\ new.reserved_by = w
  BY CallTyped DEF CallRow
<1>4. CALL_STATE_RANK["RESERVED"] <= CALL_STATE_RANK["INITIATED"]
  BY DEF CALL_STATE_RANK, CallState
<1>5. CallMoves(w, c, new)
  BY <1>1, <1>3, <1>4 DEF CallMoves, CallSound, LIVE_CALL_STATES
<1> HIDE DEF row
<1> QED
  BY <1>1, <1>2, <1>5, NoOpSound, UpdateCallKeeps

LEMMA UpdateAttachKeeps ==
  ASSUME SqlInv, NEW w \in Connections, NEW c \in Contacts, NEW a \in Agents,
         calls[c].reserved_by = w, UpdateAttach(w, c, a)
  PROVE  SqlInv'
<1> DEFINE row == [calls[c] EXCEPT !.agent_id = a]
           new == [row EXCEPT !.version = calls[c].version + 1]
<1>1. UpdateCall(c, TRUE, row) /\ op' = [op EXCEPT ![w] = NoOp]
  BY DEF UpdateAttach, SqlInv, TypeInv
<1>2. row \in CallRow(now)
  BY CallTyped DEF CallRow
<1>3. /\ new.version = calls[c].version + 1 /\ new.reserved_by = w
      /\ new.state = calls[c].state /\ new.lease_expires_at = calls[c].lease_expires_at
  BY CallTyped DEF CallRow
<1>4. CALL_STATE_RANK[calls[c].state] <= CALL_STATE_RANK[calls[c].state]
  BY CallTyped, RankNat DEF CallRow
<1>5. calls[c].state # "QUEUED" /\ w # None
  BY CallTyped, SqlAssumption DEF CallSound
<1>6. CallMoves(w, c, new)
  BY CallTyped, <1>3, <1>4, <1>5 DEF CallMoves, CallSound
<1> HIDE DEF row
<1> QED
  BY <1>1, <1>2, <1>6, NoOpSound, UpdateCallKeeps

\* Ranks as case analysis needs them.
LEMMA Ranks ==
  /\ \A s \in CallState : CALL_STATE_RANK[s] > 1 => s \in {"INITIATED", "CANCELLED"} \cup EventType
  /\ \A s \in CallState : s # "QUEUED" => CALL_STATE_RANK[s] >= 1
  /\ \A s \in CallState : s \in LIVE_CALL_STATES <=> CALL_STATE_RANK[s] \in 1 .. 5
  /\ \A s \in CallState : s \in TERMINAL_CALL_STATES <=> CALL_STATE_RANK[s] = 6
BY DEF CALL_STATE_RANK, CallState, EventType, LIVE_CALL_STATES, TERMINAL_CALL_STATES

LEMMA SelectApplyKeeps ==
  ASSUME SqlInv, NEW w \in Connections, NEW c \in Contacts, calls[c].reserved_by = w,
         SelectApply(w, c)
  PROVE  SqlInv'
<1>1. PICK s \in CallState :
        /\ CALL_STATE_RANK[s] > CALL_STATE_RANK[calls[c].state]
        /\ s \notin {"INITIATED", "CANCELLED"}
        /\ Begin(w, [method |-> "apply", call |-> c, state |-> s, version |-> calls[c].version,
                     lease |-> now + LeaseSeconds])
  BY DEF SelectApply
<1>2. PICK o : /\ o = [method |-> "apply", call |-> c, state |-> s, version |-> calls[c].version,
                       lease |-> now + LeaseSeconds]
               /\ Begin(w, o)
  BY <1>1
<1>3. calls[c].version \in Nat /\ calls[c].state \in CallState
  BY CallTyped DEF CallRow
<1>4. s \in EventType
  <2>1. calls[c].state # "QUEUED"
    BY CallTyped, SqlAssumption DEF CallSound
  <2>2. CALL_STATE_RANK[calls[c].state] >= 1
    BY <1>3, <2>1, Ranks
  <2>3. CALL_STATE_RANK[calls[c].state] \in Int /\ CALL_STATE_RANK[s] \in Int
    BY <1>3, RankNat
  <2>4. CALL_STATE_RANK[s] > 1
    BY <1>1, <2>2, <2>3
  <2> QED
    BY <1>1, <2>4, Ranks
<1>5. OpOK(o, now)
  BY <1>2, <1>3, <1>4, LeaseTimes DEF OpOK, ApplyOp
<1>6. CALL_STATE_RANK[calls[c].state] < CALL_STATE_RANK[s]
  BY <1>1, <1>3, RankNat
<1>7. Sound(o, w, agents, calls)
  BY <1>2, <1>3, <1>6 DEF Sound, AgentSound, ApplySound, CountSound
<1> QED
  BY <1>2, <1>5, <1>7, BeginKeeps

\* The row the UPDATE of apply_call_transition sets.
AppliedRow(row, o) ==
  [row EXCEPT !.state = o.state,
              !.reason = IF o.state = "FAILED" THEN "provider_reason" ELSE None,
              !.lease_expires_at = IF o.state \in TERMINAL_CALL_STATES THEN Null ELSE o.lease,
              !.answered = @ \/ o.state = "ANSWERED",
              !.connected = @ \/ o.state = "CONNECTED"]

LEMMA AppliedRowType ==
  ASSUME NEW t, NEW row \in CallRow(t), NEW o \in ApplyOp(t), t \in Nat
  PROVE  /\ AppliedRow(row, o) \in CallRow(t)
         /\ AppliedRow(row, o).state = o.state
         /\ AppliedRow(row, o).reserved_by = row.reserved_by
         /\ AppliedRow(row, o).lease_expires_at # Null => o.state \notin TERMINAL_CALL_STATES
<1> DEFINE reason == IF o.state = "FAILED" THEN "provider_reason" ELSE None
           lease == IF o.state \in TERMINAL_CALL_STATES THEN Null ELSE o.lease
           answered == row.answered \/ o.state = "ANSWERED"
           connected == row.connected \/ o.state = "CONNECTED"
<1>1. /\ reason \in FailureReason \cup {None} /\ lease \in Times(t)
      /\ answered \in BOOLEAN /\ connected \in BOOLEAN
      /\ o.state \in CallState
      /\ lease # Null => o.state \notin TERMINAL_CALL_STATES
  BY DEF FailureReason, Times, ApplyOp, EventType, CallState
<1>2. AppliedRow(row, o) = [row EXCEPT !.state = o.state, !.reason = reason, !.lease_expires_at = lease,
                                       !.answered = answered, !.connected = connected]
  BY Zenon DEF AppliedRow
<1> HIDE DEF reason, lease, answered, connected
<1> QED
  BY <1>1, <1>2 DEF CallRow

LEMMA UpdateApplyKeeps ==
  ASSUME SqlInv, NEW w \in Connections, UpdateApply(w)
  PROVE  SqlInv'
<1>1. PICK o : o = op[w]
  OBVIOUS
<1>2. o \in ApplyOp(now) /\ o.method = "apply" /\ ApplySound(o, w, calls)
  BY <1>1 DEF SqlInv, TypeInv, OpOK, Sound, UpdateApply, In
<1>3. PICK c \in Contacts : c = o.call
  BY <1>2 DEF ApplyOp
<1>4. /\ UpdateCall(c, calls[c].version = o.version, AppliedRow(calls[c], o))
      /\ op' = [op EXCEPT ![w] = NoOp]
  BY <1>1, <1>3 DEF UpdateApply, AppliedRow, End
<1> DEFINE row == AppliedRow(calls[c], o)
           new == [row EXCEPT !.version = calls[c].version + 1]
<1>5. /\ row \in CallRow(now) /\ row.state = o.state /\ row.reserved_by = w
      /\ row.lease_expires_at # Null => o.state \notin TERMINAL_CALL_STATES
  BY <1>2, <1>3, CallTyped, AppliedRowType DEF ApplySound, SqlInv, TypeInv
<1> HIDE DEF row
<1>6. /\ new.version = calls[c].version + 1 /\ new.state = o.state /\ new.reserved_by = w
      /\ new.lease_expires_at = row.lease_expires_at
  BY <1>5 DEF CallRow
<1>7. ASSUME calls[c].version = o.version PROVE CallMoves(w, c, new)
  <2>1. calls[c].reserved_by = w /\ CALL_STATE_RANK[calls[c].state] < CALL_STATE_RANK[o.state]
    BY <1>2, <1>3, <1>7 DEF ApplySound
  <2>2. o.state \in EventType
    BY <1>2 DEF ApplyOp
  <2>3. o.state # "QUEUED" /\ (o.state \in TERMINAL_CALL_STATES \/ o.state \in LIVE_CALL_STATES)
    BY <2>2 DEF EventType, TERMINAL_CALL_STATES, LIVE_CALL_STATES
  <2>4. CALL_STATE_RANK[calls[c].state] <= CALL_STATE_RANK[o.state]
    <3>1. calls[c].state \in CallState /\ o.state \in CallState
      BY <2>2, CallTyped DEF CallRow, EventType, CallState
    <3> QED
      BY <2>1, <3>1, RankNat
  <2> QED
    BY <1>5, <1>6, <2>1, <2>3, <2>4 DEF CallMoves, CallSound
<1> QED
  BY <1>4, <1>5, <1>7, NoOpSound, UpdateCallKeeps DEF row

LEMMA SelectExpiredCallsKeeps ==
  ASSUME SqlInv, NEW w \in Connections, SelectExpiredCalls(w)
  PROVE  SqlInv'
<1>1. PICK rows \in SUBSET Contacts : Begin(w, [method |-> "reap_calls", rows |-> rows, at |-> now])
  BY DEF SelectExpiredCalls
<1>2. PICK o : o = [method |-> "reap_calls", rows |-> rows, at |-> now] /\ Begin(w, o)
  BY <1>1
<1>3. OpOK(o, now)
  BY <1>2 DEF OpOK, ReapOp, SqlInv, TypeInv
<1> QED
  BY <1>2, <1>3, ReapSound, BeginKeeps

LEMMA UpdateExpiredCallKeeps ==
  ASSUME SqlInv, NEW w \in Connections, UpdateExpiredCall(w)
  PROVE  SqlInv'
<1>1. op[w] \in ReapOp("reap_calls", Contacts, now)
  BY DEF SqlInv, TypeInv, OpOK, UpdateExpiredCall, In
<1>2. PICK c \in op[w].rows :
        /\ UpdateCall(c, Before(calls[c], op[w].at),
             [calls[c] EXCEPT !.state = "FAILED", !.reason = "provider_timeout",
                              !.lease_expires_at = Null])
        /\ op' = [op EXCEPT ![w] = Without(op[w], c)]
  BY DEF UpdateExpiredCall
<1>3. c \in Contacts
  BY <1>1 DEF ReapOp
<1> DEFINE row == [calls[c] EXCEPT !.state = "FAILED", !.reason = "provider_timeout",
                                   !.lease_expires_at = Null]
           new == [row EXCEPT !.version = calls[c].version + 1]
<1>4. row \in CallRow(now)
  BY <1>3, FailedCallRow
<1>5. /\ new.version = calls[c].version + 1 /\ new.state = "FAILED"
      /\ new.reserved_by = calls[c].reserved_by /\ new.lease_expires_at = Null
  BY <1>3, CallTyped DEF CallRow
<1>6. CALL_STATE_RANK[calls[c].state] <= CALL_STATE_RANK["FAILED"]
  <2>1. CALL_STATE_RANK["FAILED"] = 6 /\ calls[c].state \in CallState
    BY <1>3, CallTyped DEF CALL_STATE_RANK, CallState, CallRow
  <2> QED
    BY <2>1, RankNat
<1>7. CallMoves(w, c, new)
  BY <1>5, <1>6 DEF CallMoves, CallSound, TERMINAL_CALL_STATES
<1>8. PICK q : q = Without(op[w], c)
  OBVIOUS
<1>9. OpOK(q, now) /\ Sound(q, w, agents', calls')
  BY <1>1, <1>8, WithoutSound
<1> HIDE DEF row
<1> QED
  BY <1>2, <1>3, <1>4, <1>7, <1>8, <1>9, UpdateCallKeeps DEF row

-----------------------------------------------------------------------------
(* The in-flight count *)

LEMMA InFlightStates ==
  /\ Len(IN_FLIGHT_STATES) = 5
  /\ \A k \in 1 .. 5 : /\ IN_FLIGHT_STATES[k] \in CallState
                       /\ \A s \in CallState : CALL_STATE_RANK[s] = k => s = IN_FLIGHT_STATES[k]
BY DEF IN_FLIGHT_STATES, CALL_STATE_RANK, CallState

LEMMA FiniteContacts ==
  ASSUME NEW S \in SUBSET Contacts PROVE IsFiniteSet(S) /\ Cardinality(S) \in Nat
BY SqlAssumption, FS_Subset, FS_CardinalityType

LEMMA CallsInNat == \A s : CallsIn(s) \in Nat
BY FiniteContacts DEF CallsIn

LEMMA SelectFirstStateKeeps ==
  ASSUME SqlInv, NEW w \in Connections, SelectFirstState(w)
  PROVE  SqlInv'
<1>1. PICK o : /\ o = [method |-> "count", selects |-> 1, in_flight |-> CallsIn(IN_FLIGHT_STATES[1]),
                       opened |-> LiveCalls]
               /\ Begin(w, o)
  BY DEF SelectFirstState
<1>2. OpOK(o, now)
  BY <1>1, CallsInNat DEF OpOK, CountOp, LiveCalls
<1> DEFINE counted == {c \in Contacts : calls[c].state = IN_FLIGHT_STATES[1]}
<1>3. Cardinality(counted) <= o.in_flight
  <2>1. Cardinality(counted) = CallsIn(IN_FLIGHT_STATES[1])
    BY DEF CallsIn
  <2> QED
    BY <1>1, <2>1, CallsInNat
<1>4. ASSUME NEW c \in o.opened
      PROVE  /\ calls[c].state # "QUEUED"
             /\ CALL_STATE_RANK[calls[c].state] <= o.selects => c \in counted
  <2>1. c \in Contacts /\ calls[c].state \in LIVE_CALL_STATES
    BY <1>1, <1>4 DEF LiveCalls
  <2>2. calls[c].state \in CallState /\ calls[c].state # "QUEUED"
    BY <2>1 DEF LIVE_CALL_STATES, CallState
  <2>3. CALL_STATE_RANK[calls[c].state] \in 1 .. 5
    BY <2>1, <2>2, Ranks
  <2> QED
    BY <1>1, <2>1, <2>2, <2>3, InFlightStates
<1>5. CountSound(o, calls)
  BY <1>3, <1>4 DEF CountSound
<1>6. Sound(o, w, agents, calls)
  BY <1>1, <1>5 DEF Sound, AgentSound, ApplySound
<1> QED
  BY <1>1, <1>2, <1>6, BeginKeeps

LEMMA SelectNextStateKeeps ==
  ASSUME SqlInv, NEW w \in Connections, SelectNextState(w)
  PROVE  SqlInv'
<1>1. PICK o : o = op[w]
  OBVIOUS
<1>2. o \in CountOp /\ o.method = "count" /\ CountSound(o, calls)
  BY <1>1 DEF SqlInv, TypeInv, OpOK, Sound, SelectNextState, In
<1>3. o.selects \in 1 .. 4 /\ o.in_flight \in Nat
  BY <1>1, <1>2, InFlightStates DEF CountOp, SelectNextState
<1>4. PICK k : k = o.selects + 1
  OBVIOUS
<1>5. PICK q : q = [o EXCEPT !.selects = k, !.in_flight = o.in_flight + CallsIn(IN_FLIGHT_STATES[k])]
  OBVIOUS
<1>6. op' = [op EXCEPT ![w] = q]
  BY <1>1, <1>2, <1>4, <1>5 DEF SelectNextState, SqlInv, TypeInv, CountOp
<1>7. /\ q \in CountOp /\ q.method = "count" /\ q.selects = k /\ q.opened = o.opened
      /\ q.in_flight = o.in_flight + CallsIn(IN_FLIGHT_STATES[k])
  <2>1. PICK n \in Nat : n = CallsIn(IN_FLIGHT_STATES[k])
    BY CallsInNat
  <2>2. k \in 1 .. 5 /\ o.in_flight + n \in Nat
    BY <1>3, <1>4
  <2>3. q = [o EXCEPT !.selects = k, !.in_flight = o.in_flight + n]
    BY <1>5, <2>1
  <2> QED
    BY <1>2, <2>1, <2>2, <2>3 DEF CountOp
<1>8. CountSound(q, calls)
  <2>1. PICK counted \in SUBSET Contacts :
          /\ Cardinality(counted) <= o.in_flight
          /\ \A c \in o.opened :
               /\ calls[c].state # "QUEUED"
               /\ CALL_STATE_RANK[calls[c].state] <= o.selects => c \in counted
    BY <1>2 DEF CountSound
  <2> DEFINE more == {c \in Contacts : calls[c].state = IN_FLIGHT_STATES[k]}
  <2>2. Cardinality(counted \cup more) <= q.in_flight
    <3>1. /\ Cardinality(counted) \in Nat /\ Cardinality(more) \in Nat
          /\ Cardinality(counted \cap more) \in Nat
          /\ IsFiniteSet(counted) /\ IsFiniteSet(more)
      BY FiniteContacts
    <3>2. Cardinality(counted \cup more)
            = Cardinality(counted) + Cardinality(more) - Cardinality(counted \cap more)
      BY <3>1, FS_Union
    <3>3. Cardinality(more) = CallsIn(IN_FLIGHT_STATES[k])
      BY DEF CallsIn
    <3> QED
      BY <1>3, <1>7, <2>1, <3>1, <3>2, <3>3
  <2>3. ASSUME NEW c \in o.opened
        PROVE  /\ calls[c].state # "QUEUED"
               /\ CALL_STATE_RANK[calls[c].state] <= k => c \in counted \cup more
    <3>1. c \in Contacts
      BY <1>2 DEF CountOp
    <3>2. calls[c].state \in CallState /\ CALL_STATE_RANK[calls[c].state] \in 0 .. 6
      BY <3>1, CallTyped, RankNat DEF CallRow
    <3>3. CASE CALL_STATE_RANK[calls[c].state] = k
      BY <1>3, <1>4, <2>1, <3>1, <3>2, <3>3, InFlightStates
    <3>4. CASE CALL_STATE_RANK[calls[c].state] # k
      BY <1>3, <1>4, <2>1, <3>2, <3>4
    <3> QED
      BY <3>3, <3>4
  <2> QED
    BY <1>7, <2>2, <2>3 DEF CountSound
<1>9. Sound(q, w, agents', calls') /\ OpOK(q, now)
  <2>1. agents' = agents /\ calls' = calls
    BY DEF SelectNextState, tables
  <2> QED
    BY <1>7, <1>8, <2>1 DEF Sound, AgentSound, ApplySound, OpOK
<1>10. /\ now' = now /\ AgentsMove /\ CallsMove(w)
       /\ contacts' \in [Contacts -> Connections \cup {None}]
  BY DEF SelectNextState, tables, AgentsMove, CallsMove, SqlInv, TypeInv
<1> QED
  BY <1>6, <1>9, <1>10, StepKeeps

LEMMA UseCountKeeps ==
  ASSUME SqlInv, NEW w \in Connections, UseCount(w)
  PROVE  SqlInv'
<1>1. /\ now' = now /\ AgentsMove /\ CallsMove(w) /\ op' = [op EXCEPT ![w] = NoOp]
      /\ contacts' \in [Contacts -> Connections \cup {None}]
  BY DEF UseCount, End, tables, AgentsMove, CallsMove, SqlInv, TypeInv
<1> QED
  BY <1>1, NoOpSound, StepKeeps

LEMMA ClockKeeps ==
  ASSUME SqlInv, Clock
  PROVE  SqlInv'
<1>1. /\ now' = now + 1 /\ agents' = agents /\ calls' = calls /\ contacts' = contacts /\ op' = op
      /\ now \in Nat
  BY DEF Clock, tables, SqlInv, TypeInv
<1>2. Times(now) \subseteq Times(now + 1)
  BY <1>1, SqlAssumption DEF Times
<1>3. agents \in [Agents -> AgentRow(now + 1)]
  BY <1>2 DEF SqlInv, TypeInv, AgentRow
<1>4. calls \in [Contacts -> CallRow(now + 1)]
  BY <1>2 DEF SqlInv, TypeInv, CallRow
<1>5. \A w \in Connections : OpOK(op[w], now + 1)
  BY <1>1, OpOKLater DEF SqlInv, TypeInv
<1> QED
  BY <1>1, <1>3, <1>4, <1>5 DEF SqlInv, TypeInv

LEMMA InitSqlInv ==
  Init => SqlInv
<1> SUFFICES ASSUME Init PROVE SqlInv
  OBVIOUS
<1>1. now = 0 /\ FreeAgent \in AgentRow(0) /\ NoCall \in CallRow(0) /\ CallSound(NoCall)
  BY SqlAssumption DEF Init, FreeAgent, NoCall, AgentRow, CallRow, AgentState, CallState, Times,
     CallSound
<1>2. TypeInv
  BY <1>1, NoOpSound DEF Init, TypeInv
<1> QED
  BY <1>1, <1>2, NoOpSound DEF Init, SqlInv

LEMMA NextSqlInv ==
  SqlInv /\ [Next]_vars => SqlInv'
<1> SUFFICES ASSUME SqlInv, [Next]_vars PROVE SqlInv'
  OBVIOUS
<1>1. CASE Clock
  BY <1>1, ClockKeeps
<1>2. CASE \E w \in Connections : AgentStatement(w)
  BY <1>2, ReserveAgentKeeps, SelectTransitionKeeps, SelectForceReleaseKeeps, UpdateTransitionKeeps,
     UpdateForceReleaseKeeps, SelectExpiredAgentsKeeps, UpdateExpiredAgentKeeps DEF AgentStatement
<1>3. CASE \E w \in Connections : CallStatement(w)
  BY <1>3, InsertCallKeeps, UpdateInitiatedKeeps, SelectApplyKeeps, UpdateAttachKeeps,
     UpdateApplyKeeps, SelectExpiredCallsKeeps, UpdateExpiredCallKeeps DEF CallStatement
<1>4. CASE \E w \in Connections : ContactStatement(w)
  BY <1>4, ContactKeeps
<1>5. CASE \E w \in Connections : CountInFlight(w)
  BY <1>5, SelectFirstStateKeeps, SelectNextStateKeeps, UseCountKeeps DEF CountInFlight
<1>6. CASE \E w \in Connections, c \in Contacts :
             InsertEvent(w, [call_id |-> c, type |-> "RINGING", copy |-> 1])
  BY <1>6, InsertEventKeeps
<1>7. CASE UNCHANGED vars
  BY <1>7 DEF vars, tables, SqlInv, TypeInv
<1> QED
  BY <1>1, <1>2, <1>3, <1>4, <1>5, <1>6, <1>7 DEF Next

\* Rows and what connections remember stay of their types, and every version
\* a connection has read still stands for what it read (store.py's CAS).
THEOREM SqlInvariant == Spec => []SqlInv
<1> QED
  BY InitSqlInv, NextSqlInv, PTL DEF Spec

LEMMA CountSoundEnough ==
  SqlInv => CountMissesNoLine
<1> SUFFICES ASSUME SqlInv, NEW w \in Connections, op[w].method = "count",
                    op[w].selects = Len(IN_FLIGHT_STATES)
             PROVE  op[w].in_flight >= Cardinality(op[w].opened \cap LiveCalls)
  BY DEF CountMissesNoLine
<1>1. PICK o : o = op[w]
  OBVIOUS
<1>2. o \in CountOp /\ o.selects = 5
  BY <1>1, InFlightStates DEF SqlInv, TypeInv, OpOK
<1>3. PICK counted \in SUBSET Contacts :
        /\ Cardinality(counted) <= o.in_flight
        /\ \A c \in o.opened : CALL_STATE_RANK[calls[c].state] <= o.selects => c \in counted
  BY <1>1 DEF SqlInv, Sound, CountSound
<1>4. o.opened \cap LiveCalls \subseteq counted
  <2> SUFFICES ASSUME NEW c \in o.opened, c \in LiveCalls PROVE c \in counted
    OBVIOUS
  <2>1. calls[c].state \in LIVE_CALL_STATES /\ calls[c].state \in CallState
    BY DEF LiveCalls, LIVE_CALL_STATES, CallState
  <2>2. CALL_STATE_RANK[calls[c].state] \in 1 .. 5
    BY <2>1, Ranks
  <2> QED
    BY <1>2, <1>3, <2>2
<1>5. Cardinality(o.opened \cap LiveCalls) <= Cardinality(counted)
  BY <1>4, FiniteContacts, FS_Subset
<1>6. /\ Cardinality(o.opened \cap LiveCalls) \in Nat /\ Cardinality(counted) \in Nat
      /\ o.in_flight \in Nat
  BY <1>2, <1>4, FiniteContacts DEF CountOp
<1> QED
  BY <1>1, <1>3, <1>5, <1>6

\* The five SELECTs of the in-flight count of a predictive tick never take an
\* open line for free (get_calls_in_state, worker.py).
THEOREM CountIsSafe == Spec => []CountMissesNoLine
<1> QED
  BY SqlInvariant, CountSoundEnough, PTL

\* Only UpdateApply(w) ends an apply of w.
LEMMA ApplyEndsInUpdate ==
  ASSUME SqlInv, [Next]_vars, NEW w \in Connections, op[w].method = "apply", op'[w] = NoOp
  PROVE  UpdateApply(w)
<1>1. op[w] # NoOp /\ op'[w] # op[w]
  BY DEF NoOp
<1>2. PICK v \in Connections :
        \/ AgentStatement(v) \/ CallStatement(v) \/ ContactStatement(v) \/ CountInFlight(v)
        \/ \E c \in Contacts : InsertEvent(v, [call_id |-> c, type |-> "RINGING", copy |-> 1])
  BY <1>1 DEF Next, Clock, vars
<1>3. op = [u \in Connections |-> op[u]]
  BY DEF SqlInv, TypeInv
<1>4. ASSUME NEW x, op' = [op EXCEPT ![v] = x] PROVE v = w
  BY <1>1, <1>3, <1>4
<1>5. CASE AgentStatement(v)
  <2>1. v = w
    BY <1>1, <1>4, <1>5 DEF AgentStatement, ReserveAgent, SelectTransition, SelectForceRelease,
       UpdateTransition, UpdateForceRelease, SelectExpiredAgents, UpdateExpiredAgent, Begin, End
  <2> QED
    BY <1>1, <1>5, <2>1 DEF AgentStatement, ReserveAgent, SelectTransition, SelectForceRelease,
       UpdateTransition, UpdateForceRelease, SelectExpiredAgents, UpdateExpiredAgent, Begin, In
<1>6. CASE CallStatement(v)
  <2>1. v = w
    BY <1>1, <1>4, <1>6 DEF CallStatement, InsertCall, UpdateInitiated, SelectApply, UpdateAttach,
       UpdateApply, SelectExpiredCalls, UpdateExpiredCall, Begin, End
  <2> QED
    BY <1>1, <1>6, <2>1 DEF CallStatement, InsertCall, UpdateInitiated, SelectApply, UpdateAttach,
       SelectExpiredCalls, UpdateExpiredCall, Begin, In
<1>7. CASE ContactStatement(v)
  <2>1. v = w
    BY <1>1, <1>4, <1>7 DEF ContactStatement, SelectContact, UpdateContact, Begin, End
  <2> QED
    BY <1>1, <1>7, <2>1 DEF ContactStatement, SelectContact, UpdateContact, Begin, In
<1>8. CASE CountInFlight(v)
  <2>1. CASE SelectNextState(v)
    <3>1. \A u \in Connections : u # v => op'[u] = op[u]
      BY <1>3, <2>1 DEF SelectNextState
    <3> QED
      BY <1>1, <2>1, <3>1 DEF SelectNextState, In
  <2>2. CASE SelectFirstState(v) \/ UseCount(v)
    <3>1. v = w
      BY <1>4, <2>2 DEF SelectFirstState, UseCount, Begin, End
    <3> QED
      BY <1>1, <2>2, <3>1 DEF SelectFirstState, UseCount, Begin, In
  <2> QED
    BY <1>8, <2>1, <2>2 DEF CountInFlight
<1>9. CASE \E c \in Contacts : InsertEvent(v, [call_id |-> c, type |-> "RINGING", copy |-> 1])
  BY <1>1, <1>9 DEF InsertEvent
<1> QED
  BY <1>2, <1>5, <1>6, <1>7, <1>8, <1>9

\* A CAS that apply_call_transition loses is a call somebody else has ended.
THEOREM LostCasIsOver == Spec => CasLostMeansCallOver
<1> DEFINE Lost(w) == op[w].method = "apply" /\ op'[w] = NoOp /\ calls' = calls
<1>1. SqlInv /\ [Next]_vars =>
        \A w \in Connections : Lost(w) => calls[op[w].call].state \in TERMINAL_CALL_STATES
  <2> SUFFICES ASSUME SqlInv, [Next]_vars, NEW w \in Connections, Lost(w)
               PROVE  calls[op[w].call].state \in TERMINAL_CALL_STATES
    OBVIOUS
  <2>1. UpdateApply(w)
    BY ApplyEndsInUpdate
  <2>2. PICK o : o = op[w]
    OBVIOUS
  <2>3. o \in ApplyOp(now) /\ ApplySound(o, w, calls) /\ o.method = "apply"
    BY <2>2 DEF SqlInv, TypeInv, OpOK, Sound
  <2>4. PICK c \in Contacts : c = o.call
    BY <2>3 DEF ApplyOp
  <2>5. /\ UpdateCall(c, calls[c].version = o.version, AppliedRow(calls[c], o))
        /\ calls' = calls
    BY <2>1, <2>2, <2>4 DEF UpdateApply, AppliedRow
  <2>6. calls[c].version # o.version
    <3> SUFFICES ASSUME calls[c].version = o.version PROVE FALSE
      OBVIOUS
    <3>1. AppliedRow(calls[c], o) \in CallRow(now) /\ calls[c] \in CallRow(now)
      BY <2>3, CallTyped, AppliedRowType DEF SqlInv, TypeInv
    <3>2. calls' = [calls EXCEPT ![c] = [AppliedRow(calls[c], o) EXCEPT !.version = calls[c].version + 1]]
      BY <2>5 DEF UpdateCall
    <3>3. calls'[c] = [AppliedRow(calls[c], o) EXCEPT !.version = calls[c].version + 1]
      BY <3>2 DEF SqlInv, TypeInv
    <3>4. calls'[c].version = calls[c].version + 1
      BY <3>1, <3>3 DEF CallRow
    <3> QED
      BY <2>5, <3>1, <3>4 DEF CallRow
  <2> QED
    BY <2>2, <2>3, <2>4, <2>6 DEF ApplySound
<1>2. SqlInv /\ [Next]_vars =>
        [\A w \in Connections :
           op[w].method = "apply" /\ op'[w] = NoOp /\ calls' = calls =>
             calls[op[w].call].state \in TERMINAL_CALL_STATES]_vars
  BY <1>1
<1> QED
  BY <1>2, SqlInvariant, PTL DEF Spec, CasLostMeansCallOver

-----------------------------------------------------------------------------
(* Every statement is one step of Store, or none *)

AbstractStep == Abstract!StoreNext \/ UNCHANGED Abstract!store_vars

LEMMA NoStep ==
  ASSUME UNCHANGED <<tables, now>> PROVE AbstractStep
BY SameView DEF AbstractStep, Abstract!store_vars, tables

\* An UPDATE of an agent that takes effect changes one row Store sees.
LEMMA UpdateAgentView ==
  ASSUME SqlInv, NEW a \in Agents, NEW cond, NEW row \in AgentRow(now), UpdateAgent(a, cond, row)
  PROVE  /\ AbstractCalls' = AbstractCalls /\ contacts' = contacts /\ seen_events' = seen_events
         /\ cond => AbstractAgents' = [AbstractAgents EXCEPT ![a] = AgentView(row, now)]
         /\ ~cond => AbstractAgents' = AbstractAgents
<1>1. calls' = calls /\ contacts' = contacts /\ seen_events' = seen_events /\ now' = now
  BY DEF UpdateAgent
<1>2. CASE cond
  <2>1. agents' = [agents EXCEPT ![a] = [row EXCEPT !.version = agents[a].version + 1]]
    BY <1>2 DEF UpdateAgent
  <2>2. AgentView([row EXCEPT !.version = agents[a].version + 1], now) = AgentView(row, now)
    BY DEF AgentView, AgentRow
  <2>3. agents \in [Agents -> AgentRow(now)]
    BY DEF SqlInv, TypeInv
  <2>4. AbstractAgents' = [AbstractAgents EXCEPT
                             ![a] = AgentView([row EXCEPT !.version = agents[a].version + 1], now)]
    BY <1>1, <2>1, <2>3, AgentWritten
  <2> QED
    BY <1>1, <1>2, <2>2, <2>4, SameView
<1>3. CASE ~cond
  BY <1>1, <1>3, SameView DEF UpdateAgent
<1> QED
  BY <1>2, <1>3

LEMMA UpdateCallView ==
  ASSUME SqlInv, NEW c \in Contacts, NEW cond, NEW row \in CallRow(now), UpdateCall(c, cond, row)
  PROVE  /\ AbstractAgents' = AbstractAgents /\ contacts' = contacts /\ seen_events' = seen_events
         /\ cond => AbstractCalls' = [AbstractCalls EXCEPT ![c] = CallView(row, now)]
         /\ ~cond => AbstractCalls' = AbstractCalls
<1>1. agents' = agents /\ contacts' = contacts /\ seen_events' = seen_events /\ now' = now
  BY DEF UpdateCall
<1>2. CASE cond
  <2>1. calls' = [calls EXCEPT ![c] = [row EXCEPT !.version = calls[c].version + 1]]
    BY <1>2 DEF UpdateCall
  <2>2. CallView([row EXCEPT !.version = calls[c].version + 1], now) = CallView(row, now)
    BY DEF CallView, CallRow
  <2>3. calls \in [Contacts -> CallRow(now)]
    BY DEF SqlInv, TypeInv
  <2>4. AbstractCalls' = [AbstractCalls EXCEPT
                            ![c] = CallView([row EXCEPT !.version = calls[c].version + 1], now)]
    BY <1>1, <2>1, <2>3, CallWritten
  <2> QED
    BY <1>1, <1>2, <2>2, <2>4, SameView
<1>3. CASE ~cond
  BY <1>1, <1>3, SameView DEF UpdateCall
<1> QED
  BY <1>2, <1>3

LEMMA AgentTyped ==
  ASSUME SqlInv, NEW a \in Agents
  PROVE  /\ agents[a] \in AgentRow(now) /\ now \in Nat
         /\ AbstractAgents[a] = AgentView(agents[a], now)
BY Views DEF SqlInv, TypeInv

\* A write of the agents that is a method of Store.
LEMMA AgentMethodStep ==
  ASSUME Abstract!AgentMethod, AbstractCalls' = AbstractCalls, contacts' = contacts,
         seen_events' = seen_events
  PROVE  AbstractStep
BY DEF AbstractStep, Abstract!StoreNext

LEMMA CallMethodStep ==
  ASSUME Abstract!CallMethod, AbstractAgents' = AbstractAgents, contacts' = contacts,
         seen_events' = seen_events
  PROVE  AbstractStep
BY DEF AbstractStep, Abstract!StoreNext

LEMMA LeaseLeft ==
  ASSUME SqlInv
  PROVE  Left(now + LeaseSeconds, now) \in Abstract!Leases /\ Left(Null, now) = Abstract!NoLease
BY SqlAssumption DEF SqlInv, TypeInv, Left, Null, Abstract!Leases, Abstract!NoLease

\* What an EXCEPT makes of a row Store sees, field by field.
Reserved(v, y1, y2, y3) ==
  [v EXCEPT !.state = y1, !.reserved_by = y2, !.lease = y3]

LEMMA ReservedRow ==
  ASSUME NEW x1, NEW x2, NEW x3, NEW x4, NEW y1, NEW y2, NEW y3, NEW v,
         v = [state |-> x1, reserved_by |-> x2, lease |-> x3, current_call_id |-> x4]
  PROVE  Reserved(v, y1, y2, y3)
           = [state |-> y1, reserved_by |-> y2, lease |-> y3, current_call_id |-> x4]
<1>1. PICK v1 : v1 = [v EXCEPT !.state = y1]
  OBVIOUS
<1>2. PICK v2 : v2 = [v1 EXCEPT !.reserved_by = y2]
  OBVIOUS
<1>3. PICK v3 : v3 = [v2 EXCEPT !.lease = y3]
  OBVIOUS
<1>a. v3 = Reserved(v, y1, y2, y3)
  BY <1>1, <1>2, <1>3, Zenon DEF Reserved
<1>b. v1 = [state |-> y1, reserved_by |-> x2, lease |-> x3, current_call_id |-> x4]
  BY <1>1
<1>c. v2 = [state |-> y1, reserved_by |-> y2, lease |-> x3, current_call_id |-> x4]
  BY <1>b, <1>2
<1>d. v3 = [state |-> y1, reserved_by |-> y2, lease |-> y3, current_call_id |-> x4]
  BY <1>c, <1>3
<1> QED
  BY <1>a, <1>d

Inserted(v, y1, y2, y3) ==
  [v EXCEPT !.state = y1, !.agent_id = y2, !.reserved_by = y3]

LEMMA InsertedRow ==
  ASSUME NEW x1, NEW x2, NEW x3, NEW x4, NEW x5, NEW x6, NEW x7, NEW y1, NEW y2, NEW y3, NEW v,
         v = [state |-> x1, reason |-> x2, agent_id |-> x3, reserved_by |-> x4, lease |-> x5,
              answered |-> x6, connected |-> x7]
  PROVE  Inserted(v, y1, y2, y3)
           = [state |-> y1, reason |-> x2, agent_id |-> y2, reserved_by |-> y3, lease |-> x5,
              answered |-> x6, connected |-> x7]
<1>1. PICK v1 : v1 = [v EXCEPT !.state = y1]
  OBVIOUS
<1>2. PICK v2 : v2 = [v1 EXCEPT !.agent_id = y2]
  OBVIOUS
<1>3. PICK v3 : v3 = [v2 EXCEPT !.reserved_by = y3]
  OBVIOUS
<1>a. v3 = Inserted(v, y1, y2, y3)
  BY <1>1, <1>2, <1>3, Zenon DEF Inserted
<1>b. v1 = [state |-> y1, reason |-> x2, agent_id |-> x3, reserved_by |-> x4, lease |-> x5,
            answered |-> x6, connected |-> x7]
  BY <1>1
<1>c. v2 = [state |-> y1, reason |-> x2, agent_id |-> y2, reserved_by |-> x4, lease |-> x5,
            answered |-> x6, connected |-> x7]
  BY <1>b, <1>2
<1>d. v3 = [state |-> y1, reason |-> x2, agent_id |-> y2, reserved_by |-> y3, lease |-> x5,
            answered |-> x6, connected |-> x7]
  BY <1>c, <1>3
<1> QED
  BY <1>a, <1>d

Initiated(v, y1, y2) ==
  [v EXCEPT !.state = y1, !.lease = y2]

LEMMA InitiatedRow ==
  ASSUME NEW x1, NEW x2, NEW x3, NEW x4, NEW x5, NEW x6, NEW x7, NEW y1, NEW y2, NEW v,
         v = [state |-> x1, reason |-> x2, agent_id |-> x3, reserved_by |-> x4, lease |-> x5,
              answered |-> x6, connected |-> x7]
  PROVE  Initiated(v, y1, y2)
           = [state |-> y1, reason |-> x2, agent_id |-> x3, reserved_by |-> x4, lease |-> y2,
              answered |-> x6, connected |-> x7]
<1>1. PICK v1 : v1 = [v EXCEPT !.state = y1]
  OBVIOUS
<1>2. PICK v2 : v2 = [v1 EXCEPT !.lease = y2]
  OBVIOUS
<1>a. v2 = Initiated(v, y1, y2)
  BY <1>1, <1>2, Zenon DEF Initiated
<1>b. v1 = [state |-> y1, reason |-> x2, agent_id |-> x3, reserved_by |-> x4, lease |-> x5,
            answered |-> x6, connected |-> x7]
  BY <1>1
<1>c. v2 = [state |-> y1, reason |-> x2, agent_id |-> x3, reserved_by |-> x4, lease |-> y2,
            answered |-> x6, connected |-> x7]
  BY <1>b, <1>2
<1> QED
  BY <1>a, <1>c

Attached(v, y1) ==
  [v EXCEPT !.agent_id = y1]

LEMMA AttachedRow ==
  ASSUME NEW x1, NEW x2, NEW x3, NEW x4, NEW x5, NEW x6, NEW x7, NEW y1, NEW v,
         v = [state |-> x1, reason |-> x2, agent_id |-> x3, reserved_by |-> x4, lease |-> x5,
              answered |-> x6, connected |-> x7]
  PROVE  Attached(v, y1)
           = [state |-> x1, reason |-> x2, agent_id |-> y1, reserved_by |-> x4, lease |-> x5,
              answered |-> x6, connected |-> x7]
BY DEF Attached

Failed(v, y1, y2, y3) ==
  [v EXCEPT !.state = y1, !.reason = y2, !.lease = y3]

LEMMA FailedRow ==
  ASSUME NEW x1, NEW x2, NEW x3, NEW x4, NEW x5, NEW x6, NEW x7, NEW y1, NEW y2, NEW y3, NEW v,
         v = [state |-> x1, reason |-> x2, agent_id |-> x3, reserved_by |-> x4, lease |-> x5,
              answered |-> x6, connected |-> x7]
  PROVE  Failed(v, y1, y2, y3)
           = [state |-> y1, reason |-> y2, agent_id |-> x3, reserved_by |-> x4, lease |-> y3,
              answered |-> x6, connected |-> x7]
<1>1. PICK v1 : v1 = [v EXCEPT !.state = y1]
  OBVIOUS
<1>2. PICK v2 : v2 = [v1 EXCEPT !.reason = y2]
  OBVIOUS
<1>3. PICK v3 : v3 = [v2 EXCEPT !.lease = y3]
  OBVIOUS
<1>a. v3 = Failed(v, y1, y2, y3)
  BY <1>1, <1>2, <1>3, Zenon DEF Failed
<1>b. v1 = [state |-> y1, reason |-> x2, agent_id |-> x3, reserved_by |-> x4, lease |-> x5,
            answered |-> x6, connected |-> x7]
  BY <1>1
<1>c. v2 = [state |-> y1, reason |-> y2, agent_id |-> x3, reserved_by |-> x4, lease |-> x5,
            answered |-> x6, connected |-> x7]
  BY <1>b, <1>2
<1>d. v3 = [state |-> y1, reason |-> y2, agent_id |-> x3, reserved_by |-> x4, lease |-> y3,
            answered |-> x6, connected |-> x7]
  BY <1>c, <1>3
<1> QED
  BY <1>a, <1>d

Moved(v, y1, y2, y3, y4, y5) ==
  [v EXCEPT !.state = y1, !.reason = y2, !.lease = y3, !.answered = y4, !.connected = y5]

LEMMA MovedRow ==
  ASSUME NEW x1, NEW x2, NEW x3, NEW x4, NEW x5, NEW x6, NEW x7, NEW y1, NEW y2, NEW y3, NEW y4,
         NEW y5, NEW v,
         v = [state |-> x1, reason |-> x2, agent_id |-> x3, reserved_by |-> x4, lease |-> x5,
              answered |-> x6, connected |-> x7]
  PROVE  Moved(v, y1, y2, y3, y4, y5)
           = [state |-> y1, reason |-> y2, agent_id |-> x3, reserved_by |-> x4, lease |-> y3,
              answered |-> y4, connected |-> y5]
<1>1. PICK v1 : v1 = [v EXCEPT !.state = y1]
  OBVIOUS
<1>2. PICK v2 : v2 = [v1 EXCEPT !.reason = y2]
  OBVIOUS
<1>3. PICK v3 : v3 = [v2 EXCEPT !.lease = y3]
  OBVIOUS
<1>4. PICK v4 : v4 = [v3 EXCEPT !.answered = y4]
  OBVIOUS
<1>5. PICK v5 : v5 = [v4 EXCEPT !.connected = y5]
  OBVIOUS
<1>a. v5 = Moved(v, y1, y2, y3, y4, y5)
  BY <1>1, <1>2, <1>3, <1>4, <1>5, Zenon DEF Moved
<1>b. v1 = [state |-> y1, reason |-> x2, agent_id |-> x3, reserved_by |-> x4, lease |-> x5,
            answered |-> x6, connected |-> x7]
  BY <1>1
<1>c. v2 = [state |-> y1, reason |-> y2, agent_id |-> x3, reserved_by |-> x4, lease |-> x5,
            answered |-> x6, connected |-> x7]
  BY <1>b, <1>2
<1>d. v3 = [state |-> y1, reason |-> y2, agent_id |-> x3, reserved_by |-> x4, lease |-> y3,
            answered |-> x6, connected |-> x7]
  BY <1>c, <1>3
<1>e. v4 = [state |-> y1, reason |-> y2, agent_id |-> x3, reserved_by |-> x4, lease |-> y3,
            answered |-> y4, connected |-> x7]
  BY <1>d, <1>4
<1>f. v5 = [state |-> y1, reason |-> y2, agent_id |-> x3, reserved_by |-> x4, lease |-> y3,
            answered |-> y4, connected |-> y5]
  BY <1>e, <1>5
<1> QED
  BY <1>a, <1>f

LEMMA ReserveAgentRefines ==
  ASSUME SqlInv, NEW w \in Connections, NEW a \in Agents, ReserveAgent(w, a)
  PROVE  AbstractStep
<1> DEFINE row == [agents[a] EXCEPT !.state = "RESERVED", !.reserved_by = w,
                                    !.lease_expires_at = now + LeaseSeconds]
<1>0. agents[a] \in AgentRow(now) /\ AbstractAgents[a] = AgentView(agents[a], now)
  BY AgentTyped
<1>1. row \in AgentRow(now)
  BY ReservedAgentRow
<1>2. UpdateAgent(a, agents[a].state = "AVAILABLE", row) /\ agents[a].state = "AVAILABLE"
  BY DEF ReserveAgent
<1>3. /\ row.state = "RESERVED" /\ row.reserved_by = w
      /\ row.lease_expires_at = now + LeaseSeconds /\ row.current_call_id = agents[a].current_call_id
  BY <1>0 DEF AgentRow
<1> HIDE DEF row
<1>4. PICK lease \in Abstract!Leases : lease = Left(now + LeaseSeconds, now)
  BY LeaseLeft
<1>5. AgentView(row, now) = Reserved(AbstractAgents[a], "RESERVED", w, lease)
  <2>1. AgentView(row, now) = [state |-> "RESERVED", reserved_by |-> w, lease |-> lease,
                               current_call_id |-> agents[a].current_call_id]
    BY <1>3, <1>4 DEF AgentView
  <2>2. PICK v, left : v = AbstractAgents[a] /\ left = Left(agents[a].lease_expires_at, now)
    OBVIOUS
  <2>3. v = [state |-> agents[a].state, reserved_by |-> agents[a].reserved_by, lease |-> left,
             current_call_id |-> agents[a].current_call_id]
    BY <1>0, <2>2 DEF AgentView
  <2> QED
    BY <2>1, <2>2, <2>3, ReservedRow
<1>6. AbstractAgents[a].state = "AVAILABLE"
  BY <1>0, <1>2 DEF AgentView
<1>7. /\ AbstractCalls' = AbstractCalls /\ contacts' = contacts /\ seen_events' = seen_events
      /\ AbstractAgents' = [AbstractAgents EXCEPT ![a] = AgentView(row, now)]
  BY <1>1, <1>2, UpdateAgentView
<1>8. AbstractAgents' = [AbstractAgents EXCEPT ![a] = Reserved(AbstractAgents[a], "RESERVED", w, lease)]
  BY <1>5, <1>7
<1>9. Abstract!ReserveAgent(a, w, lease)
  BY <1>6, <1>8 DEF Reserved, Abstract!ReserveAgent
<1>10. Abstract!AgentMethod
  BY <1>9 DEF Abstract!AgentMethod
<1> QED
  BY <1>7, <1>10, AgentMethodStep

\* Store reads the same state machines.
LEMMA SameMachines ==
  /\ Abstract!AgentState = AgentState
  /\ Abstract!CallState = CallState
  /\ Abstract!TERMINAL_CALL_STATES = TERMINAL_CALL_STATES
  /\ Abstract!LIVE_CALL_STATES = LIVE_CALL_STATES
  /\ Abstract!FailureReason = FailureReason
  /\ Abstract!AGENT_TRANSITIONS = AGENT_TRANSITIONS
BY DEF Abstract!AgentState, AgentState, Abstract!CallState, CallState, Abstract!TERMINAL_CALL_STATES,
   TERMINAL_CALL_STATES, Abstract!LIVE_CALL_STATES, LIVE_CALL_STATES, Abstract!FailureReason,
   FailureReason, Abstract!AGENT_TRANSITIONS, AGENT_TRANSITIONS

LEMMA SameEdges ==
  \A s, t : AgentEdge(s, t) => Abstract!AgentEdge(s, t)
BY SameMachines DEF AgentEdge, Abstract!AgentEdge

LEMMA FreeAgentView ==
  /\ AgentView(FreeAgent, now) = Abstract!FreeAgent
  /\ Abstract!FreeAgent = [state |-> "AVAILABLE", reserved_by |-> None, lease |-> Abstract!NoLease,
                           current_call_id |-> None]
BY DEF AgentView, FreeAgent, Left, Null, Abstract!FreeAgent, Abstract!NoLease

LEMMA UpdateTransitionRefines ==
  ASSUME SqlInv, NEW w \in Connections, UpdateTransition(w)
  PROVE  AbstractStep
<1>1. PICK o : o = op[w]
  OBVIOUS
<1>2. o \in TransitionOp(now) /\ o.method = "transition" /\ AgentSound(o, w, agents)
  BY <1>1 DEF SqlInv, TypeInv, OpOK, Sound, UpdateTransition, In
<1>3. PICK a \in Agents : a = o.agent
  BY <1>2 DEF TransitionOp
<1> DEFINE holder == IF o.target = "AVAILABLE" THEN None ELSE w
           row == [agents[a] EXCEPT !.state = o.target, !.reserved_by = holder,
                                    !.lease_expires_at = o.lease, !.current_call_id = o.call]
           cond == agents[a].state = o.state /\ agents[a].version = o.version
<1>4. UpdateAgent(a, cond, row)
  BY <1>1, <1>3 DEF UpdateTransition
<1>5. /\ o.target \in AgentState \ {"OFFLINE", "PAUSED"} /\ o.call \in Contacts \cup {None}
      /\ o.lease \in Times(now)
  BY <1>2 DEF TransitionOp
<1>6. holder \in Connections \cup {None}
  OBVIOUS
<1>7. agents[a] \in AgentRow(now) /\ now \in Nat /\ AbstractAgents[a] = AgentView(agents[a], now)
  BY AgentTyped
<1>8. /\ row.state = o.target /\ row.reserved_by = holder
      /\ row.lease_expires_at = o.lease /\ row.current_call_id = o.call
  BY <1>7 DEF AgentRow
<1> HIDE DEF holder
<1>9. row \in AgentRow(now)
  BY <1>5, <1>6, <1>7, AgentRowWith
<1> HIDE DEF row, cond
<1>10. /\ AbstractCalls' = AbstractCalls /\ contacts' = contacts /\ seen_events' = seen_events
       /\ cond => AbstractAgents' = [AbstractAgents EXCEPT ![a] = AgentView(row, now)]
       /\ ~cond => AbstractAgents' = AbstractAgents
  BY <1>4, <1>9, UpdateAgentView
<1>11. CASE ~cond
  BY <1>10, <1>11 DEF AbstractStep, Abstract!store_vars
<1>12. CASE cond
  <2>1. PICK lease \in {Abstract!NoLease} \cup Abstract!Leases : lease = Left(o.lease, now)
    BY <1>5, <1>7, LeftType
  <2>2. AgentView(row, now) = [state |-> o.target, reserved_by |-> holder, lease |-> lease,
                               current_call_id |-> o.call]
    BY <1>8, <2>1 DEF AgentView
  <2>3. AbstractAgents' = [AbstractAgents EXCEPT
          ![a] = [state |-> o.target, reserved_by |-> holder, lease |-> lease, current_call_id |-> o.call]]
    BY <1>10, <1>12, <2>2
  <2>4. /\ agents[a].state \in AgentState /\ agents[a].reserved_by \in {None, w}
        /\ AgentEdge(agents[a].state, o.target)
    BY <1>2, <1>3, <1>7, <1>12 DEF cond, AgentSound, AgentRow
  <2>5. /\ AbstractAgents[a].state = agents[a].state
        /\ AbstractAgents[a].reserved_by = agents[a].reserved_by
    BY <1>7 DEF AgentView
  <2>6. Abstract!CanTransition(a, w, o.target, Abstract!AgentState)
    BY <2>4, <2>5, SameEdges, SameMachines DEF Abstract!CanTransition
  <2>7. holder = IF o.target \in {"AVAILABLE", "OFFLINE", "PAUSED"} THEN None ELSE w
    BY <1>5 DEF holder
  <2>8. Abstract!TransitionAgent(a, w, o.target, Abstract!AgentState, o.call, lease)
    BY <2>3, <2>6, <2>7 DEF Abstract!TransitionAgent
  <2>9. Abstract!AgentMethod
    BY <1>5, <2>1, <2>8, SameMachines DEF Abstract!AgentMethod
  <2> QED
    BY <1>10, <2>9, AgentMethodStep
<1> QED
  BY <1>11, <1>12

LEMMA UpdateForceReleaseRefines ==
  ASSUME SqlInv, NEW w \in Connections, UpdateForceRelease(w)
  PROVE  AbstractStep
<1>1. PICK o : o = op[w]
  OBVIOUS
<1>2. o \in ReleaseOp /\ o.method = "release" /\ AgentSound(o, w, agents)
  BY <1>1 DEF SqlInv, TypeInv, OpOK, Sound, UpdateForceRelease, In
<1>3. PICK a \in Agents : a = o.agent
  BY <1>2 DEF ReleaseOp
<1> DEFINE cond == agents[a].version = o.version
<1>4. UpdateAgent(a, cond, FreeAgent)
  BY <1>1, <1>3 DEF UpdateForceRelease
<1>5. agents[a] \in AgentRow(now) /\ AbstractAgents[a] = AgentView(agents[a], now)
  BY AgentTyped
<1>6. cond => agents[a].state # "AVAILABLE" /\ agents[a].current_call_id # None
  BY <1>2, <1>3 DEF AgentSound
<1> HIDE DEF cond
<1>7. /\ AbstractCalls' = AbstractCalls /\ contacts' = contacts /\ seen_events' = seen_events
      /\ cond => AbstractAgents' = [AbstractAgents EXCEPT ![a] = Abstract!FreeAgent]
      /\ ~cond => AbstractAgents' = AbstractAgents
  BY <1>4, FreeAgentRow, FreeAgentView, UpdateAgentView
<1>8. CASE ~cond
  BY <1>7, <1>8 DEF AbstractStep, Abstract!store_vars
<1>9. CASE cond
  <2>1. PICK c \in Contacts : c = agents[a].current_call_id
    BY <1>5, <1>6, <1>9 DEF AgentRow
  <2>2. /\ AbstractAgents[a].state = agents[a].state
        /\ AbstractAgents[a].current_call_id = c
    BY <1>5, <2>1 DEF AgentView
  <2>3. Abstract!ForceReleaseAgent(a, c)
    BY <1>6, <1>7, <1>9, <2>2 DEF Abstract!ForceReleaseAgent
  <2>4. Abstract!AgentMethod
    BY <2>3 DEF Abstract!AgentMethod
  <2> QED
    BY <1>7, <2>4, AgentMethodStep
<1> QED
  BY <1>8, <1>9

\* A reaper frees an agent whose lease ran out before it looked.  The state it
\* saw may have changed since: an agent then in WRAP_UP or AVAILABLE is freed as
\* a transition to AVAILABLE would.
LEMMA UpdateExpiredAgentRefines ==
  ASSUME SqlInv, NEW w \in Connections, UpdateExpiredAgent(w)
  PROVE  AbstractStep
<1>1. op[w] \in ReapOp("reap_agents", Agents, now)
  BY DEF SqlInv, TypeInv, OpOK, UpdateExpiredAgent, In
<1>2. PICK a \in op[w].rows : UpdateAgent(a, Before(agents[a], op[w].at), FreeAgent)
  BY DEF UpdateExpiredAgent
<1>3. a \in Agents /\ op[w].at \in 0 .. now
  BY <1>1 DEF ReapOp
<1>4. agents[a] \in AgentRow(now) /\ now \in Nat /\ AbstractAgents[a] = AgentView(agents[a], now)
  BY <1>3, AgentTyped
<1> DEFINE cond == Before(agents[a], op[w].at)
<1>5. cond => AbstractAgents[a].lease = 0
  <2> SUFFICES ASSUME cond PROVE Left(agents[a].lease_expires_at, now) = 0
    BY <1>4 DEF AgentView
  <2> QED
    BY <1>3, <1>4, SqlAssumption DEF Before, Left, AgentRow, Times, Null
<1> HIDE DEF cond
<1>6. /\ AbstractCalls' = AbstractCalls /\ contacts' = contacts /\ seen_events' = seen_events
      /\ cond => AbstractAgents' = [AbstractAgents EXCEPT ![a] = Abstract!FreeAgent]
      /\ ~cond => AbstractAgents' = AbstractAgents
  BY <1>2, <1>3, FreeAgentRow, FreeAgentView, UpdateAgentView DEF cond
<1>7. /\ AbstractAgents[a].state = agents[a].state
      /\ AbstractAgents[a].reserved_by = agents[a].reserved_by
      /\ agents[a].state \in AgentState \ {"OFFLINE", "PAUSED"}
      /\ agents[a].reserved_by \in Connections \cup {None}
  BY <1>4 DEF AgentView, AgentRow
<1>8. CASE ~cond
  BY <1>6, <1>8 DEF AbstractStep, Abstract!store_vars
<1>9. CASE cond /\ agents[a].state \in {"RESERVED", "DIALING", "CONNECTED"}
  <2>1. {a} \in SUBSET Abstract!ReclaimableAgents
    BY <1>3, <1>5, <1>7, <1>9 DEF Abstract!ReclaimableAgents, Abstract!Expired
  <2>2. AbstractAgents = [x \in Agents |-> AbstractAgents[x]]
    BY Views
  <2>3. AbstractAgents' = [x \in Agents |-> IF x \in {a} THEN Abstract!FreeAgent ELSE AbstractAgents[x]]
    BY <1>6, <1>9, <2>2
  <2>4. Abstract!ReclaimExpiredAgentLeases({a})
    BY <2>1, <2>3 DEF Abstract!ReclaimExpiredAgentLeases
  <2>5. Abstract!AgentMethod
    BY <1>3, <2>1, <2>4 DEF Abstract!AgentMethod
  <2> QED
    BY <1>6, <2>5, AgentMethodStep
<1>10. CASE cond /\ agents[a].state \notin {"RESERVED", "DIALING", "CONNECTED"}
  <2>1. agents[a].state \in {"AVAILABLE", "WRAP_UP"}
    BY <1>7, <1>10 DEF AgentState
  <2>2. AgentEdge(agents[a].state, "AVAILABLE")
    BY <2>1 DEF AgentEdge, AGENT_TRANSITIONS, AgentState
  <2>3. PICK v \in Connections : agents[a].reserved_by \in {None, v}
    BY <1>7
  <2>4. Abstract!CanTransition(a, v, "AVAILABLE", Abstract!AgentState)
    BY <1>7, <2>2, <2>3, SameEdges, SameMachines DEF Abstract!CanTransition
  <2>5. Abstract!TransitionAgent(a, v, "AVAILABLE", Abstract!AgentState, None, Abstract!NoLease)
    BY <1>6, <1>10, <2>4, FreeAgentView DEF Abstract!TransitionAgent
  <2>6. Abstract!AgentMethod
    BY <1>3, <2>5 DEF Abstract!AgentMethod, Abstract!AgentState
  <2> QED
    BY <1>6, <2>6, AgentMethodStep
<1> QED
  BY <1>8, <1>9, <1>10

\* The row of a call as Store sees it, with a name for what is left of its lease.
LEMMA CallSeen ==
  ASSUME SqlInv, NEW c \in Contacts
  PROVE  /\ calls[c] \in CallRow(now) /\ now \in Nat
         /\ AbstractCalls[c] = CallView(calls[c], now)
         /\ AbstractCalls[c].state = calls[c].state
         /\ AbstractCalls[c].answered = calls[c].answered
         /\ AbstractCalls[c].connected = calls[c].connected
<1>1. calls[c] \in CallRow(now) /\ now \in Nat /\ AbstractCalls[c] = CallView(calls[c], now)
  BY Views DEF SqlInv, TypeInv
<1> QED
  BY <1>1 DEF CallView

LEMMA InsertCallRefines ==
  ASSUME SqlInv, NEW w \in Connections, NEW c \in Contacts, NEW a \in Agents \cup {None},
         InsertCall(w, c, a)
  PROVE  AbstractStep
<1> DEFINE row == [NoCall EXCEPT !.state = "RESERVED", !.agent_id = a, !.reserved_by = w]
<1>1. UpdateCall(c, TRUE, row) /\ calls[c] = NoCall
  BY DEF InsertCall
<1>2. row \in CallRow(now)
  BY LeaseTimes DEF NoCall, CallRow, CallState
<1>3. /\ row.state = "RESERVED" /\ row.agent_id = a /\ row.reserved_by = w /\ row.reason = None
      /\ row.lease_expires_at = Null /\ row.answered = FALSE /\ row.connected = FALSE
  BY DEF NoCall
<1> HIDE DEF row
<1>4. PICK none, v, no : none = Abstract!NoLease /\ v = Abstract!NoCall /\ no = FALSE
  OBVIOUS
<1>5. v = [state |-> "QUEUED", reason |-> None, agent_id |-> None, reserved_by |-> None,
           lease |-> none, answered |-> no, connected |-> no]
  BY <1>4 DEF Abstract!NoCall
<1>6. CallView(row, now) = [state |-> "RESERVED", reason |-> None, agent_id |-> a, reserved_by |-> w,
                            lease |-> none, answered |-> no, connected |-> no]
  BY <1>3, <1>4, LeaseLeft DEF CallView
<1>7. CallView(row, now) = Inserted(Abstract!NoCall, "RESERVED", a, w)
  BY <1>4, <1>5, <1>6, InsertedRow
<1>8. AbstractCalls[c] = Abstract!NoCall
  <2>1. AbstractCalls[c] = CallView(NoCall, now)
    BY <1>1, CallSeen
  <2>2. CallView(NoCall, now) = Abstract!NoCall
    BY DEF CallView, NoCall, Left, Null, Abstract!NoCall, Abstract!NoLease
  <2> QED
    BY <2>1, <2>2
<1>9. /\ AbstractAgents' = AbstractAgents /\ contacts' = contacts /\ seen_events' = seen_events
      /\ AbstractCalls' = [AbstractCalls EXCEPT ![c] = CallView(row, now)]
  BY <1>1, <1>2, UpdateCallView
<1>10. AbstractCalls' = [AbstractCalls EXCEPT ![c] = Inserted(Abstract!NoCall, "RESERVED", a, w)]
  BY <1>7, <1>9
<1>11. Abstract!CreateCall(c, a, w)
  BY <1>8, <1>10 DEF Inserted, Abstract!CreateCall
<1>12. Abstract!CallMethod
  BY <1>11 DEF Abstract!CallMethod
<1> QED
  BY <1>9, <1>12, CallMethodStep

LEMMA UpdateInitiatedRefines ==
  ASSUME SqlInv, NEW w \in Connections, NEW c \in Contacts, UpdateInitiated(w, c)
  PROVE  AbstractStep
<1> DEFINE row == [calls[c] EXCEPT !.state = "INITIATED", !.lease_expires_at = now + LeaseSeconds]
<1>0. calls[c] \in CallRow(now) /\ AbstractCalls[c] = CallView(calls[c], now)
  BY CallSeen
<1>1. UpdateCall(c, calls[c].state = "RESERVED", row) /\ calls[c].state = "RESERVED"
  BY DEF UpdateInitiated
<1>2. row \in CallRow(now)
  BY <1>0, LeaseTimes DEF CallRow, CallState
<1>3. /\ row.state = "INITIATED" /\ row.lease_expires_at = now + LeaseSeconds
      /\ row.reason = calls[c].reason /\ row.agent_id = calls[c].agent_id
      /\ row.reserved_by = calls[c].reserved_by
      /\ row.answered = calls[c].answered /\ row.connected = calls[c].connected
  BY <1>0 DEF CallRow
<1> HIDE DEF row
<1>4. PICK lease \in Abstract!Leases : lease = Left(now + LeaseSeconds, now)
  BY LeaseLeft
<1>5. PICK v, left : v = AbstractCalls[c] /\ left = Left(calls[c].lease_expires_at, now)
  OBVIOUS
<1>6. v = [state |-> calls[c].state, reason |-> calls[c].reason, agent_id |-> calls[c].agent_id,
           reserved_by |-> calls[c].reserved_by, lease |-> left, answered |-> calls[c].answered,
           connected |-> calls[c].connected]
  BY <1>0, <1>5 DEF CallView
<1>7. CallView(row, now) = [state |-> "INITIATED", reason |-> calls[c].reason,
        agent_id |-> calls[c].agent_id, reserved_by |-> calls[c].reserved_by, lease |-> lease,
        answered |-> calls[c].answered, connected |-> calls[c].connected]
  BY <1>3, <1>4 DEF CallView
<1>8. CallView(row, now) = Initiated(AbstractCalls[c], "INITIATED", lease)
  BY <1>5, <1>6, <1>7, InitiatedRow
<1>9. /\ AbstractAgents' = AbstractAgents /\ contacts' = contacts /\ seen_events' = seen_events
      /\ AbstractCalls' = [AbstractCalls EXCEPT ![c] = CallView(row, now)]
  BY <1>1, <1>2, UpdateCallView
<1>10. AbstractCalls' = [AbstractCalls EXCEPT ![c] = Initiated(AbstractCalls[c], "INITIATED", lease)]
  BY <1>8, <1>9
<1>11. AbstractCalls[c].state = "RESERVED"
  BY <1>0, <1>1 DEF CallView
<1>12. Abstract!MarkCallInitiated(c, lease)
  BY <1>10, <1>11 DEF Initiated, Abstract!MarkCallInitiated
<1>13. Abstract!CallMethod
  BY <1>12 DEF Abstract!CallMethod
<1> QED
  BY <1>9, <1>13, CallMethodStep

LEMMA UpdateAttachRefines ==
  ASSUME SqlInv, NEW w \in Connections, NEW c \in Contacts, NEW a \in Agents, UpdateAttach(w, c, a)
  PROVE  AbstractStep
<1> DEFINE row == [calls[c] EXCEPT !.agent_id = a]
<1>0. calls[c] \in CallRow(now) /\ AbstractCalls[c] = CallView(calls[c], now)
  BY CallSeen
<1>1. UpdateCall(c, TRUE, row)
  BY DEF UpdateAttach
<1>2. row \in CallRow(now)
  BY <1>0 DEF CallRow
<1>3. /\ row.state = calls[c].state /\ row.lease_expires_at = calls[c].lease_expires_at
      /\ row.reason = calls[c].reason /\ row.agent_id = a
      /\ row.reserved_by = calls[c].reserved_by
      /\ row.answered = calls[c].answered /\ row.connected = calls[c].connected
  BY <1>0 DEF CallRow
<1> HIDE DEF row
<1>5. PICK v, left : v = AbstractCalls[c] /\ left = Left(calls[c].lease_expires_at, now)
  OBVIOUS
<1>6. v = [state |-> calls[c].state, reason |-> calls[c].reason, agent_id |-> calls[c].agent_id,
           reserved_by |-> calls[c].reserved_by, lease |-> left, answered |-> calls[c].answered,
           connected |-> calls[c].connected]
  BY <1>0, <1>5 DEF CallView
<1>7. CallView(row, now) = [state |-> calls[c].state, reason |-> calls[c].reason,
        agent_id |-> a, reserved_by |-> calls[c].reserved_by, lease |-> left,
        answered |-> calls[c].answered, connected |-> calls[c].connected]
  BY <1>3, <1>5 DEF CallView
<1>8. CallView(row, now) = Attached(AbstractCalls[c], a)
  BY <1>5, <1>6, <1>7, AttachedRow
<1>9. /\ AbstractAgents' = AbstractAgents /\ contacts' = contacts /\ seen_events' = seen_events
      /\ AbstractCalls' = [AbstractCalls EXCEPT ![c] = CallView(row, now)]
  BY <1>1, <1>2, UpdateCallView
<1>10. AbstractCalls' = [AbstractCalls EXCEPT ![c] = Attached(AbstractCalls[c], a)]
  BY <1>8, <1>9
<1>11. Abstract!AttachAgentToCall(c, a)
  BY <1>10 DEF Attached, Abstract!AttachAgentToCall
<1>12. Abstract!CallMethod
  BY <1>11 DEF Abstract!CallMethod
<1> QED
  BY <1>9, <1>12, CallMethodStep

\* What apply_call_transition writes is what Store writes.
LEMMA AppliedView ==
  ASSUME SqlInv, NEW c \in Contacts, NEW o \in ApplyOp(now)
  PROVE  \E r \in FailureReason \cup {None}, lease \in Abstract!Leases :
           CallView(AppliedRow(calls[c], o), now)
             = Abstract!Transitioned(AbstractCalls[c], o.state, r, lease)
<1>0. calls[c] \in CallRow(now) /\ now \in Nat /\ AbstractCalls[c] = CallView(calls[c], now)
  BY CallSeen
<1> DEFINE reason == IF o.state = "FAILED" THEN "provider_reason" ELSE None
           at == IF o.state \in TERMINAL_CALL_STATES THEN Null ELSE o.lease
           an == calls[c].answered \/ o.state = "ANSWERED"
           co == calls[c].connected \/ o.state = "CONNECTED"
           row == AppliedRow(calls[c], o)
<1>1. row = [calls[c] EXCEPT !.state = o.state, !.reason = reason, !.lease_expires_at = at,
                             !.answered = an, !.connected = co]
  BY Zenon DEF AppliedRow
<1>2. reason \in FailureReason \cup {None}
  BY DEF FailureReason
<1>3. calls[c].answered \in BOOLEAN /\ calls[c].connected \in BOOLEAN
  BY <1>0 DEF CallRow
<1>4. PICK lease \in Abstract!Leases : lease = Left(o.lease, now)
  <2>1. o.lease \in 0 .. (now + LeaseSeconds)
    BY DEF ApplyOp
  <2>2. Left(o.lease, now) \in Abstract!Leases
    BY <1>0, <2>1, SqlAssumption DEF Left, Null, Abstract!Leases
  <2> QED
    BY <2>2
<1>5. PICK kept : kept = IF o.state \in TERMINAL_CALL_STATES THEN Abstract!NoLease ELSE lease
  OBVIOUS
<1>6. Left(at, now) = kept
  BY <1>4, <1>5, LeaseLeft
<1>7. PICK y4 : y4 = (IF o.state = "ANSWERED" THEN TRUE ELSE AbstractCalls[c].answered)
  OBVIOUS
<1>8. PICK y5 : y5 = (IF o.state = "CONNECTED" THEN TRUE ELSE AbstractCalls[c].connected)
  OBVIOUS
<1>9. an = y4 /\ co = y5
  BY <1>3, <1>7, <1>8, CallSeen
<1> HIDE DEF reason, at, an, co, row
<1>10. /\ row.state = o.state /\ row.lease_expires_at = at /\ row.reason = reason
       /\ row.agent_id = calls[c].agent_id /\ row.reserved_by = calls[c].reserved_by
       /\ row.answered = an /\ row.connected = co
  BY <1>0, <1>1 DEF CallRow
<1>11. PICK v, left : v = AbstractCalls[c] /\ left = Left(calls[c].lease_expires_at, now)
  OBVIOUS
<1>12. v = [state |-> calls[c].state, reason |-> calls[c].reason, agent_id |-> calls[c].agent_id,
            reserved_by |-> calls[c].reserved_by, lease |-> left, answered |-> calls[c].answered,
            connected |-> calls[c].connected]
  BY <1>0, <1>11 DEF CallView
<1>13. CallView(row, now) = [state |-> o.state, reason |-> reason, agent_id |-> calls[c].agent_id,
         reserved_by |-> calls[c].reserved_by, lease |-> kept, answered |-> y4, connected |-> y5]
  BY <1>6, <1>9, <1>10 DEF CallView
<1>14. CallView(row, now) = Moved(v, o.state, reason, kept, y4, y5)
  BY <1>12, <1>13, MovedRow
<1>15. Abstract!Transitioned(AbstractCalls[c], o.state, reason, lease)
         = Moved(AbstractCalls[c], o.state, reason, kept, y4, y5)
  BY <1>5, <1>7, <1>8, SameMachines, Zenon DEF Abstract!Transitioned, Moved
<1> QED
  BY <1>2, <1>4, <1>11, <1>14, <1>15 DEF row

LEMMA UpdateApplyRefines ==
  ASSUME SqlInv, NEW w \in Connections, UpdateApply(w)
  PROVE  AbstractStep
<1>1. PICK o : o = op[w]
  OBVIOUS
<1>2. o \in ApplyOp(now) /\ o.method = "apply" /\ ApplySound(o, w, calls)
  BY <1>1 DEF SqlInv, TypeInv, OpOK, Sound, UpdateApply, In
<1>3. PICK c \in Contacts : c = o.call
  BY <1>2 DEF ApplyOp
<1> DEFINE cond == calls[c].version = o.version
           row == AppliedRow(calls[c], o)
<1>4. UpdateCall(c, cond, row)
  BY <1>1, <1>3 DEF UpdateApply, AppliedRow
<1>5. calls[c] \in CallRow(now) /\ now \in Nat /\ AbstractCalls[c].state = calls[c].state
  BY CallSeen
<1>6. row \in CallRow(now)
  BY <1>2, <1>5, AppliedRowType
<1>7. cond => calls[c].state \notin TERMINAL_CALL_STATES
  <2> SUFFICES ASSUME cond PROVE calls[c].state \notin TERMINAL_CALL_STATES
    OBVIOUS
  <2>1. CALL_STATE_RANK[calls[c].state] < CALL_STATE_RANK[o.state]
    BY <1>2, <1>3 DEF ApplySound
  <2>2. calls[c].state \in CallState /\ o.state \in CallState
    BY <1>2, <1>5 DEF CallRow, ApplyOp, EventType, CallState
  <2>3. CALL_STATE_RANK[calls[c].state] # 6
    BY <2>1, <2>2, RankNat
  <2> QED
    BY <2>2, <2>3, Ranks
<1> HIDE DEF cond, row
<1>8. /\ AbstractAgents' = AbstractAgents /\ contacts' = contacts /\ seen_events' = seen_events
      /\ cond => AbstractCalls' = [AbstractCalls EXCEPT ![c] = CallView(row, now)]
      /\ ~cond => AbstractCalls' = AbstractCalls
  BY <1>4, <1>6, UpdateCallView
<1>9. CASE ~cond
  BY <1>8, <1>9 DEF AbstractStep, Abstract!store_vars
<1>10. CASE cond
  <2>1. PICK r \in FailureReason \cup {None}, lease \in Abstract!Leases :
          CallView(row, now) = Abstract!Transitioned(AbstractCalls[c], o.state, r, lease)
    BY <1>2, AppliedView DEF row
  <2>2. AbstractCalls' = [AbstractCalls EXCEPT
                            ![c] = Abstract!Transitioned(AbstractCalls[c], o.state, r, lease)]
    BY <1>8, <1>10, <2>1
  <2>3. Abstract!CanApply(c)
    BY <1>5, <1>7, <1>10, SameMachines DEF Abstract!CanApply
  <2>4. Abstract!ApplyCallTransition(c, o.state, r, lease)
    BY <2>2, <2>3 DEF Abstract!ApplyCallTransition
  <2>5. o.state \in Abstract!CallState \ {"QUEUED"}
    BY <1>2, SameMachines DEF ApplyOp, EventType, CallState
  <2>6. Abstract!CallMethod
    BY <2>4, <2>5, SameMachines DEF Abstract!CallMethod
  <2> QED
    BY <1>8, <2>6, CallMethodStep
<1> QED
  BY <1>9, <1>10

LEMMA UpdateExpiredCallRefines ==
  ASSUME SqlInv, NEW w \in Connections, UpdateExpiredCall(w)
  PROVE  AbstractStep
<1>1. op[w] \in ReapOp("reap_calls", Contacts, now)
  BY DEF SqlInv, TypeInv, OpOK, UpdateExpiredCall, In
<1>2. PICK c \in op[w].rows :
        UpdateCall(c, Before(calls[c], op[w].at),
          [calls[c] EXCEPT !.state = "FAILED", !.reason = "provider_timeout",
                           !.lease_expires_at = Null])
  BY DEF UpdateExpiredCall
<1>3. c \in Contacts /\ op[w].at \in 0 .. now
  BY <1>1 DEF ReapOp
<1>4. /\ calls[c] \in CallRow(now) /\ now \in Nat /\ AbstractCalls[c] = CallView(calls[c], now)
      /\ AbstractCalls[c].state = calls[c].state
  BY <1>3, CallSeen
<1> DEFINE cond == Before(calls[c], op[w].at)
           row == [calls[c] EXCEPT !.state = "FAILED", !.reason = "provider_timeout",
                                   !.lease_expires_at = Null]
<1>5. cond => AbstractCalls[c].lease = 0 /\ calls[c].state \in LIVE_CALL_STATES
  <2> SUFFICES ASSUME cond
               PROVE  Left(calls[c].lease_expires_at, now) = 0 /\ calls[c].lease_expires_at # Null
    BY <1>3, <1>4, CallTyped DEF CallView, CallSound
  <2> QED
    BY <1>3, <1>4, SqlAssumption DEF Before, Left, CallRow, Times, Null
<1>6. row \in CallRow(now)
  BY <1>3, FailedCallRow
<1>7. /\ row.state = "FAILED" /\ row.lease_expires_at = Null /\ row.reason = "provider_timeout"
      /\ row.agent_id = calls[c].agent_id /\ row.reserved_by = calls[c].reserved_by
      /\ row.answered = calls[c].answered /\ row.connected = calls[c].connected
  BY <1>4 DEF CallRow
<1> HIDE DEF cond, row
<1>8. /\ AbstractAgents' = AbstractAgents /\ contacts' = contacts /\ seen_events' = seen_events
      /\ cond => AbstractCalls' = [AbstractCalls EXCEPT ![c] = CallView(row, now)]
      /\ ~cond => AbstractCalls' = AbstractCalls
  BY <1>2, <1>3, <1>6, UpdateCallView DEF cond, row
<1>9. CASE ~cond
  BY <1>8, <1>9 DEF AbstractStep, Abstract!store_vars
<1>10. CASE cond
  <2>1. PICK v, left, none : /\ v = AbstractCalls[c] /\ left = Left(calls[c].lease_expires_at, now)
                             /\ none = Abstract!NoLease
    OBVIOUS
  <2>2. v = [state |-> calls[c].state, reason |-> calls[c].reason, agent_id |-> calls[c].agent_id,
             reserved_by |-> calls[c].reserved_by, lease |-> left, answered |-> calls[c].answered,
             connected |-> calls[c].connected]
    BY <1>4, <2>1 DEF CallView
  <2>3. CallView(row, now) = [state |-> "FAILED", reason |-> "provider_timeout",
          agent_id |-> calls[c].agent_id, reserved_by |-> calls[c].reserved_by, lease |-> none,
          answered |-> calls[c].answered, connected |-> calls[c].connected]
    BY <1>7, <2>1, LeaseLeft DEF CallView
  <2>4. CallView(row, now) = Failed(v, "FAILED", "provider_timeout", none)
    BY <2>2, <2>3, FailedRow
  <2>5. CallView(row, now) = Abstract!TimedOut(AbstractCalls[c])
    BY <2>1, <2>4, Zenon DEF Failed, Abstract!TimedOut
  <2>6. {c} \in SUBSET Abstract!ReclaimableCalls
    BY <1>3, <1>4, <1>5, <1>10, SameMachines DEF Abstract!ReclaimableCalls, Abstract!Expired
  <2>7. AbstractCalls = [x \in Contacts |-> AbstractCalls[x]]
    BY Views
  <2>8. AbstractCalls' = [AbstractCalls EXCEPT ![c] = Abstract!TimedOut(AbstractCalls[c])]
    BY <1>8, <1>10, <2>5
  <2>9. AbstractCalls' = [x \in Contacts |-> IF x \in {c} THEN Abstract!TimedOut(AbstractCalls[x])
                                             ELSE AbstractCalls[x]]
    BY <2>7, <2>8
  <2>10. Abstract!ReclaimExpiredCallLeases({c})
    BY <2>6, <2>9 DEF Abstract!ReclaimExpiredCallLeases
  <2>11. Abstract!CallMethod
    BY <1>3, <2>6, <2>10 DEF Abstract!CallMethod
  <2> QED
    BY <1>8, <2>11, CallMethodStep
<1> QED
  BY <1>9, <1>10

LEMMA ContactRefines ==
  ASSUME SqlInv, NEW w \in Connections, ContactStatement(w)
  PROVE  AbstractStep
<1>1. CASE \E c \in Contacts : SelectContact(w, c)
  BY <1>1, NoStep DEF SelectContact, Begin
<1>2. CASE UpdateContact(w)
  <2>1. PICK c \in Contacts : c = op[w].call
    BY <1>2 DEF UpdateContact, In, SqlInv, TypeInv, OpOK
  <2>2. AbstractAgents' = AbstractAgents /\ AbstractCalls' = AbstractCalls /\ seen_events' = seen_events
    BY <1>2, SameView DEF UpdateContact
  <2>3. CASE contacts[c] = None
    <3>1. Abstract!ClaimContact(c, w)
      BY <1>2, <2>1, <2>3 DEF UpdateContact, Abstract!ClaimContact
    <3> QED
      BY <2>2, <3>1 DEF AbstractStep, Abstract!StoreNext
  <2>4. CASE contacts[c] # None
    BY <1>2, <2>1, <2>2, <2>4 DEF UpdateContact, AbstractStep, Abstract!store_vars
  <2> QED
    BY <2>3, <2>4
<1> QED
  BY <1>1, <1>2 DEF ContactStatement

LEMMA InsertEventRefines ==
  ASSUME SqlInv, NEW w \in Connections, NEW c \in Contacts,
         InsertEvent(w, [call_id |-> c, type |-> "RINGING", copy |-> 1])
  PROVE  AbstractStep
<1>1. PICK e : e = [call_id |-> c, type |-> "RINGING", copy |-> 1] /\ InsertEvent(w, e)
  OBVIOUS
<1>2. e \in Abstract!EventId
  BY <1>1 DEF Abstract!EventId, Abstract!EventType
<1>3. AbstractAgents' = AbstractAgents /\ AbstractCalls' = AbstractCalls /\ contacts' = contacts
  BY <1>1, SameView DEF InsertEvent
<1>4. Abstract!TryRecordEvent(e)
  BY <1>1 DEF InsertEvent, Abstract!TryRecordEvent
<1> QED
  BY <1>2, <1>3, <1>4 DEF AbstractStep, Abstract!StoreNext

LEMMA AgentAges ==
  ASSUME NEW t \in Nat, NEW row \in AgentRow(t)
  PROVE  AgentView(row, t + 1) = Abstract!Aged(AgentView(row, t))
<1>1. PICK old, new : old = Left(row.lease_expires_at, t) /\ new = Left(row.lease_expires_at, t + 1)
  OBVIOUS
<1>2. new = IF old > 0 THEN old - 1 ELSE old
  BY <1>1, LeftAges DEF AgentRow
<1>3. PICK v : v = AgentView(row, t)
  OBVIOUS
<1>4. v = [state |-> row.state, reserved_by |-> row.reserved_by, lease |-> old,
           current_call_id |-> row.current_call_id]
  BY <1>1, <1>3 DEF AgentView
<1>5. AgentView(row, t + 1) = [state |-> row.state, reserved_by |-> row.reserved_by, lease |-> new,
                               current_call_id |-> row.current_call_id]
  BY <1>1 DEF AgentView
<1>6. CASE old > 0
  <2>1. PICK less : less = old - 1
    OBVIOUS
  <2>2. [v EXCEPT !.lease = less]
          = [state |-> row.state, reserved_by |-> row.reserved_by, lease |-> less,
             current_call_id |-> row.current_call_id]
    BY <1>4
  <2>3. v.lease = old
    BY <1>4
  <2>4. Abstract!Aged(v) = [v EXCEPT !.lease = less]
    BY <1>6, <2>1, <2>3 DEF Abstract!Aged
  <2> QED
    BY <1>2, <1>3, <1>5, <1>6, <2>1, <2>2, <2>4
<1>7. CASE ~(old > 0)
  <2>1. Abstract!Aged(v) = v
    BY <1>4, <1>7 DEF Abstract!Aged
  <2> QED
    BY <1>2, <1>3, <1>4, <1>5, <1>7, <2>1
<1> QED
  BY <1>6, <1>7

LEMMA CallAges ==
  ASSUME NEW t \in Nat, NEW row \in CallRow(t)
  PROVE  CallView(row, t + 1) = Abstract!Aged(CallView(row, t))
<1>1. PICK old, new : old = Left(row.lease_expires_at, t) /\ new = Left(row.lease_expires_at, t + 1)
  OBVIOUS
<1>2. new = IF old > 0 THEN old - 1 ELSE old
  BY <1>1, LeftAges DEF CallRow
<1>3. PICK v : v = CallView(row, t)
  OBVIOUS
<1>4. v = [state |-> row.state, reason |-> row.reason, agent_id |-> row.agent_id,
           reserved_by |-> row.reserved_by, lease |-> old, answered |-> row.answered,
           connected |-> row.connected]
  BY <1>1, <1>3 DEF CallView
<1>5. CallView(row, t + 1) = [state |-> row.state, reason |-> row.reason, agent_id |-> row.agent_id,
        reserved_by |-> row.reserved_by, lease |-> new, answered |-> row.answered,
        connected |-> row.connected]
  BY <1>1 DEF CallView
<1>6. CASE old > 0
  <2>1. PICK less : less = old - 1
    OBVIOUS
  <2>2. [v EXCEPT !.lease = less]
          = [state |-> row.state, reason |-> row.reason, agent_id |-> row.agent_id,
             reserved_by |-> row.reserved_by, lease |-> less, answered |-> row.answered,
             connected |-> row.connected]
    BY <1>4
  <2>3. v.lease = old
    BY <1>4
  <2>4. Abstract!Aged(v) = [v EXCEPT !.lease = less]
    BY <1>6, <2>1, <2>3 DEF Abstract!Aged
  <2> QED
    BY <1>2, <1>3, <1>5, <1>6, <2>1, <2>2, <2>4
<1>7. CASE ~(old > 0)
  <2>1. Abstract!Aged(v) = v
    BY <1>4, <1>7 DEF Abstract!Aged
  <2> QED
    BY <1>2, <1>3, <1>4, <1>5, <1>7, <2>1
<1> QED
  BY <1>6, <1>7

\* A tick of the clock takes one from every lease that is running.
LEMMA ClockRefines ==
  ASSUME SqlInv, Clock
  PROVE  AbstractStep
<1>1. /\ now \in Nat /\ now' = now + 1 /\ agents' = agents /\ calls' = calls
      /\ contacts' = contacts /\ seen_events' = seen_events
  BY DEF Clock, tables, SqlInv, TypeInv
<1>2. AbstractAgents' = [a \in Agents |-> AgentView(agents[a], now + 1)]
  BY <1>1, Views
<1>3. \A a \in Agents : AgentView(agents[a], now + 1) = Abstract!Aged(AbstractAgents[a])
  BY AgentTyped, AgentAges
<1>4. AbstractAgents' = [a \in Agents |-> Abstract!Aged(AbstractAgents[a])]
  BY <1>2, <1>3
<1>5. AbstractCalls' = [c \in Contacts |-> CallView(calls[c], now + 1)]
  BY <1>1, Views
<1>6. \A c \in Contacts : CallView(calls[c], now + 1) = Abstract!Aged(AbstractCalls[c])
  BY CallSeen, CallAges
<1>7. AbstractCalls' = [c \in Contacts |-> Abstract!Aged(AbstractCalls[c])]
  BY <1>5, <1>6
<1>8. Abstract!Tick
  BY <1>1, <1>4, <1>7 DEF Abstract!Tick
<1> QED
  BY <1>8 DEF AbstractStep, Abstract!StoreNext

LEMMA NextRefines ==
  SqlInv /\ [Next]_vars => AbstractStep
<1> SUFFICES ASSUME SqlInv, [Next]_vars PROVE AbstractStep
  OBVIOUS
<1>1. CASE Clock
  BY <1>1, ClockRefines
<1>2. CASE \E w \in Connections : AgentStatement(w)
  <2>1. PICK w \in Connections : AgentStatement(w)
    BY <1>2
  <2>2. CASE \E a \in Agents : ReserveAgent(w, a)
    BY <2>2, ReserveAgentRefines
  <2>3. CASE \/ \E a \in Agents : SelectTransition(w, a) \/ SelectForceRelease(w, a)
             \/ SelectExpiredAgents(w)
    BY <2>3, NoStep DEF SelectTransition, SelectForceRelease, SelectExpiredAgents, Begin
  <2>4. CASE UpdateTransition(w) \/ UpdateForceRelease(w) \/ UpdateExpiredAgent(w)
    BY <2>4, UpdateTransitionRefines, UpdateForceReleaseRefines, UpdateExpiredAgentRefines
  <2> QED
    BY <2>1, <2>2, <2>3, <2>4 DEF AgentStatement
<1>3. CASE \E w \in Connections : CallStatement(w)
  <2>1. PICK w \in Connections : CallStatement(w)
    BY <1>3
  <2>2. CASE \E c \in Contacts, a \in Agents \cup {None} : InsertCall(w, c, a)
    BY <2>2, InsertCallRefines
  <2>3. CASE \E c \in Contacts : UpdateInitiated(w, c)
    BY <2>3, UpdateInitiatedRefines
  <2>4. CASE \E c \in Contacts, a \in Agents : UpdateAttach(w, c, a)
    BY <2>4, UpdateAttachRefines
  <2>5. CASE (\E c \in Contacts : SelectApply(w, c)) \/ SelectExpiredCalls(w)
    BY <2>5, NoStep DEF SelectApply, SelectExpiredCalls, Begin
  <2>6. CASE UpdateApply(w) \/ UpdateExpiredCall(w)
    BY <2>6, UpdateApplyRefines, UpdateExpiredCallRefines
  <2> QED
    BY <2>1, <2>2, <2>3, <2>4, <2>5, <2>6 DEF CallStatement
<1>4. CASE \E w \in Connections : ContactStatement(w)
  BY <1>4, ContactRefines
<1>5. CASE \E w \in Connections : CountInFlight(w)
  BY <1>5, NoStep DEF CountInFlight, SelectFirstState, SelectNextState, UseCount, Begin
<1>6. CASE \E w \in Connections, c \in Contacts :
             InsertEvent(w, [call_id |-> c, type |-> "RINGING", copy |-> 1])
  BY <1>6, InsertEventRefines
<1>7. CASE UNCHANGED vars
  BY <1>7, NoStep DEF vars
<1> QED
  BY <1>1, <1>2, <1>3, <1>4, <1>5, <1>6, <1>7 DEF Next

\* However the SQL statements of the store's methods interleave, over any number
\* of connections, agents and contacts, every method is one atomic step or none.
THEOREM StoreSqlImplementsStore == Spec => ImplementsStore
<1>1. SqlInv /\ [Next]_vars => [Abstract!StoreNext]_Abstract!store_vars
  BY NextRefines DEF AbstractStep
<1> QED
  BY <1>1, InitViews, SqlInvariant, PTL DEF Spec, ImplementsStore, Abstract!StoreSpec

=============================================================================
