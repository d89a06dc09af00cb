---------------------------- MODULE StoreProofs ----------------------------
(***************************************************************************)
(* What the store guarantees to any number of workers, agents, contacts    *)
(* and calls, whatever its clients do: proofs checked by TLAPS.            *)
(***************************************************************************)
EXTENDS Store, TLAPS

-----------------------------------------------------------------------------
(* Type correctness, one lemma per table. *)

LEMMA InitType == StoreInit => StoreTypeOK
<1> SUFFICES ASSUME StoreInit PROVE StoreTypeOK
  OBVIOUS
<1>1. FreeAgent \in AgentRow
  BY DEF FreeAgent, AgentRow, AgentState, NoLease
<1>2. NoCall \in CallRow
  BY DEF NoCall, CallRow, CallState, NoLease
<1> QED
  BY <1>1, <1>2 DEF StoreInit, StoreTypeOK

\* Whatever an agent method does, the table of agents keeps its type.
LEMMA AgentMethodType ==
  ASSUME agents \in [Agents -> AgentRow], AgentMethod
  PROVE  agents' \in [Agents -> AgentRow]
<1> USE StoreAssumption DEF AgentRow, Leases
<1>0. FreeAgent \in AgentRow
  BY DEF FreeAgent, AgentState, NoLease
<1> SUFFICES ASSUME NEW a \in Agents, NEW w \in Workers,
               \/ \E lease \in Leases : ReserveAgent(a, w, lease)
               \/ \E target \in AgentState, c \in Contacts \cup {None}, lease \in {NoLease} \cup Leases :
                    TransitionAgent(a, w, target, AgentState, c, lease)
               \/ \E c \in Contacts : ForceReleaseAgent(a, c)
               \/ \E S \in SUBSET ReclaimableAgents : ReclaimExpiredAgentLeases(S)
             PROVE agents' \in [Agents -> AgentRow]
  BY DEF AgentMethod
<1>1. CASE \E lease \in Leases : ReserveAgent(a, w, lease)
  <2> PICK lease \in Leases : ReserveAgent(a, w, lease)
    BY <1>1
  <2> DEFINE row == [agents[a] EXCEPT !.state = "RESERVED", !.reserved_by = w, !.lease = lease]
  <2>1. row \in AgentRow
    BY DEF AgentState
  <2>2. agents' = [agents EXCEPT ![a] = row]
    BY DEF ReserveAgent
  <2> QED
    BY <2>1, <2>2
<1>2. CASE \E target \in AgentState, c \in Contacts \cup {None}, lease \in {NoLease} \cup Leases :
             TransitionAgent(a, w, target, AgentState, c, lease)
  BY <1>2 DEF TransitionAgent
<1>3. CASE \E c \in Contacts : ForceReleaseAgent(a, c)
  BY <1>0, <1>3 DEF ForceReleaseAgent
<1>4. CASE \E S \in SUBSET ReclaimableAgents : ReclaimExpiredAgentLeases(S)
  BY <1>0, <1>4 DEF ReclaimExpiredAgentLeases
<1> QED
  BY <1>1, <1>2, <1>3, <1>4

\* What apply_call_transition writes is a row again.
LEMMA TransitionedType ==
  ASSUME NEW row \in CallRow, NEW s \in CallState, NEW r \in FailureReason \cup {None},
         NEW lease \in Leases
  PROVE  Transitioned(row, s, r, lease) \in CallRow
<1> DEFINE kept == IF s \in TERMINAL_CALL_STATES THEN NoLease ELSE lease
           answered == IF s = "ANSWERED" THEN TRUE ELSE row.answered
           connected == IF s = "CONNECTED" THEN TRUE ELSE row.connected
<1>1. kept \in {NoLease} \cup 0 .. MaxLease
  BY DEF Leases
<1>2. answered \in BOOLEAN /\ connected \in BOOLEAN
  BY DEF CallRow
<1>3. Transitioned(row, s, r, lease) =
        [row EXCEPT !.state = s, !.reason = r, !.lease = kept,
                    !.answered = answered, !.connected = connected]
  BY Zenon DEF Transitioned
<1> HIDE DEF kept, answered, connected
<1> QED
  BY <1>1, <1>2, <1>3 DEF CallRow

\* A row with another state, reason and lease is a row again.
LEMMA RowWith ==
  ASSUME NEW row \in CallRow, NEW s \in CallState, NEW r \in FailureReason \cup {None},
         NEW lease \in {NoLease} \cup 0 .. MaxLease
  PROVE  /\ [row EXCEPT !.state = s, !.lease = lease] \in CallRow
         /\ [row EXCEPT !.state = s, !.reason = r, !.lease = lease] \in CallRow
BY DEF CallRow

\* Whatever a call method does, the table of calls keeps its type.
LEMMA CallMethodType ==
  ASSUME calls \in [Contacts -> CallRow], CallMethod
  PROVE  calls' \in [Contacts -> CallRow]
<1> USE StoreAssumption DEF CallRow, Leases
<1>0. NoCall \in CallRow
  BY DEF NoCall, CallState, NoLease
<1> SUFFICES ASSUME NEW c \in Contacts,
               \/ \E a \in Agents \cup {None}, w \in Workers : CreateCall(c, a, w)
               \/ \E a \in Agents : AttachAgentToCall(c, a)
               \/ \E lease \in Leases : MarkCallInitiated(c, lease)
               \/ \E s \in CallState \ {"QUEUED"}, r \in FailureReason \cup {None}, lease \in Leases :
                    ApplyCallTransition(c, s, r, lease)
               \/ \E S \in SUBSET ReclaimableCalls : ReclaimExpiredCallLeases(S)
             PROVE calls' \in [Contacts -> CallRow]
  BY DEF CallMethod
<1>1. CASE \E a \in Agents \cup {None}, w \in Workers : CreateCall(c, a, w)
  <2> PICK a \in Agents \cup {None}, w \in Workers : CreateCall(c, a, w)
    BY <1>1
  <2>1. [NoCall EXCEPT !.state = "RESERVED", !.agent_id = a, !.reserved_by = w] \in CallRow
    BY <1>0 DEF CallState
  <2> QED
    BY <2>1 DEF CreateCall
<1>2. CASE \E a \in Agents : AttachAgentToCall(c, a)
  <2> PICK a \in Agents : AttachAgentToCall(c, a)
    BY <1>2
  <2>1. [calls[c] EXCEPT !.agent_id = a] \in CallRow
    OBVIOUS
  <2>2. calls' = [calls EXCEPT ![c] = [calls[c] EXCEPT !.agent_id = a]]
    BY DEF AttachAgentToCall
  <2> QED
    BY <2>1, <2>2
<1>3. CASE \E lease \in Leases : MarkCallInitiated(c, lease)
  <2> PICK lease \in Leases : MarkCallInitiated(c, lease)
    BY <1>3
  <2>1. [calls[c] EXCEPT !.state = "INITIATED", !.lease = lease] \in CallRow
    <3>1. "INITIATED" \in CallState /\ lease \in {NoLease} \cup 0 .. MaxLease /\ calls[c] \in CallRow
      BY DEF CallState
    <3> HIDE DEF CallRow, Leases
    <3> QED
      BY <3>1, RowWith
  <2>2. calls' = [calls EXCEPT ![c] = [calls[c] EXCEPT !.state = "INITIATED", !.lease = lease]]
    BY DEF MarkCallInitiated
  <2> QED
    BY <2>1, <2>2
<1>4. CASE \E s \in CallState \ {"QUEUED"}, r \in FailureReason \cup {None}, lease \in Leases :
             ApplyCallTransition(c, s, r, lease)
  <2> PICK s \in CallState \ {"QUEUED"}, r \in FailureReason \cup {None}, lease \in Leases :
         ApplyCallTransition(c, s, r, lease)
    BY <1>4
  <2>1. Transitioned(calls[c], s, r, lease) \in CallRow
    BY TransitionedType
  <2> QED
    BY <2>1 DEF ApplyCallTransition
<1>5. CASE \E S \in SUBSET ReclaimableCalls : ReclaimExpiredCallLeases(S)
  <2>1. \A d \in Contacts : TimedOut(calls[d]) \in CallRow
    <3>1. "FAILED" \in CallState /\ "provider_timeout" \in FailureReason
      BY DEF CallState, FailureReason
    <3>2. \A d \in Contacts : calls[d] \in CallRow
      OBVIOUS
    <3> HIDE DEF CallRow, Leases
    <3> QED
      BY <3>1, <3>2, RowWith DEF TimedOut
  <2> QED
    BY <1>5, <2>1 DEF ReclaimExpiredCallLeases
<1> QED
  BY <1>1, <1>2, <1>3, <1>4, <1>5

LEMMA TickType ==
  ASSUME StoreTypeOK, Tick
  PROVE  StoreTypeOK'
<1> USE StoreAssumption
<1>1. ASSUME NEW r \in AgentRow PROVE Aged(r) \in AgentRow
  BY DEF Aged, AgentRow, NoLease
<1>2. ASSUME NEW r \in CallRow PROVE Aged(r) \in CallRow
  BY DEF Aged, CallRow, NoLease
<1> QED
  BY <1>1, <1>2 DEF Tick, StoreTypeOK

LEMMA NextType ==
  ASSUME StoreTypeOK, [StoreNext]_store_vars
  PROVE  StoreTypeOK'
<1>1. CASE AgentMethod /\ UNCHANGED <<contacts, calls, seen_events>>
  BY <1>1, AgentMethodType DEF StoreTypeOK
<1>2. CASE CallMethod /\ UNCHANGED <<agents, contacts, seen_events>>
  BY <1>2, CallMethodType DEF StoreTypeOK
<1>3. CASE (\E c \in Contacts, w \in Workers : ClaimContact(c, w)) /\ UNCHANGED <<agents, calls, seen_events>>
  BY <1>3 DEF StoreTypeOK, ClaimContact
<1>4. CASE (\E e \in EventId : TryRecordEvent(e)) /\ UNCHANGED <<agents, contacts, calls>>
  BY <1>4 DEF StoreTypeOK, TryRecordEvent
<1>5. CASE Tick
  BY <1>5, TickType
<1>6. CASE UNCHANGED store_vars
  BY <1>6 DEF StoreTypeOK, store_vars
<1> QED
  BY <1>1, <1>2, <1>3, <1>4, <1>5, <1>6 DEF StoreNext

\* Every reachable store holds rows of the declared types, for any number of
\* clients, agents and contacts and any lease lengths.
THEOREM TypeCorrect == StoreSpec => []StoreTypeOK
<1>1. StoreInit => StoreTypeOK
  BY InitType
<1>2. StoreTypeOK /\ [StoreNext]_store_vars => StoreTypeOK'
  BY NextType
<1> QED
  BY <1>1, <1>2, PTL DEF StoreSpec

-----------------------------------------------------------------------------
(* The agents *)

LEMMA HolderStep ==
  ASSUME StoreTypeOK, HolderMatchesState, AgentMethod
  PROVE  HolderMatchesState'
<1> USE StoreAssumption DEF StoreTypeOK, HolderMatchesState, AgentRow
<1>0. FreeAgent.state = "AVAILABLE" /\ FreeAgent.reserved_by = None
  BY DEF FreeAgent
<1> SUFFICES ASSUME NEW a \in Agents, NEW w \in Workers,
               \/ \E lease \in Leases : ReserveAgent(a, w, lease)
               \/ \E target \in AgentState, c \in Contacts \cup {None}, lease \in {NoLease} \cup Leases :
                    TransitionAgent(a, w, target, AgentState, c, lease)
               \/ \E c \in Contacts : ForceReleaseAgent(a, c)
               \/ \E S \in SUBSET ReclaimableAgents : ReclaimExpiredAgentLeases(S)
             PROVE HolderMatchesState'
  BY DEF AgentMethod
<1>1. CASE \E lease \in Leases : ReserveAgent(a, w, lease)
  <2> PICK lease \in Leases : ReserveAgent(a, w, lease)
    BY <1>1
  <2>1. agents'[a].state = "RESERVED" /\ agents'[a].reserved_by = w
    BY DEF ReserveAgent
  <2>2. \A b \in Agents \ {a} : agents'[b] = agents[b]
    BY DEF ReserveAgent
  <2> QED
    BY <2>1, <2>2
<1>2. CASE \E target \in AgentState, c \in Contacts \cup {None}, lease \in {NoLease} \cup Leases :
             TransitionAgent(a, w, target, AgentState, c, lease)
  <2> PICK target \in AgentState, c \in Contacts \cup {None}, lease \in {NoLease} \cup Leases :
         TransitionAgent(a, w, target, AgentState, c, lease)
    BY <1>2
  <2>1. /\ agents'[a].state = target
        /\ agents'[a].reserved_by =
             IF target \in {"AVAILABLE", "OFFLINE", "PAUSED"} THEN None ELSE w
    BY DEF TransitionAgent
  <2>2. \A b \in Agents \ {a} : agents'[b] = agents[b]
    BY DEF TransitionAgent
  <2> QED
    BY <2>1, <2>2
<1>3. CASE \E c \in Contacts : ForceReleaseAgent(a, c)
  BY <1>0, <1>3 DEF ForceReleaseAgent
<1>4. CASE \E S \in SUBSET ReclaimableAgents : ReclaimExpiredAgentLeases(S)
  BY <1>0, <1>4 DEF ReclaimExpiredAgentLeases
<1> QED
  BY <1>1, <1>2, <1>3, <1>4

\* Tick ages leases only.
LEMMA TickKeepsHolders ==
  ASSUME StoreTypeOK, Tick
  PROVE  \A a \in Agents :
           agents'[a].state = agents[a].state /\ agents'[a].reserved_by = agents[a].reserved_by
BY DEF StoreTypeOK, Tick, Aged, AgentRow

\* An idle agent has no holder and a busy one has exactly one, for any number
\* of workers that race for it.
THEOREM HolderAlwaysMatches == StoreSpec => []HolderMatchesState
<1>1. StoreInit => HolderMatchesState
  BY DEF StoreInit, HolderMatchesState, FreeAgent
<1>2. StoreTypeOK /\ HolderMatchesState /\ [StoreNext]_store_vars => HolderMatchesState'
  <2> SUFFICES ASSUME StoreTypeOK, HolderMatchesState, [StoreNext]_store_vars
               PROVE  HolderMatchesState'
    OBVIOUS
  <2>1. CASE AgentMethod
    BY <2>1, HolderStep
  <2>2. CASE UNCHANGED agents
    BY <2>2 DEF HolderMatchesState
  <2>3. CASE Tick
    BY <2>3, TickKeepsHolders DEF HolderMatchesState
  <2> QED
    BY <2>1, <2>2, <2>3 DEF StoreNext, store_vars
<1> QED
  BY <1>1, <1>2, TypeCorrect, PTL DEF StoreSpec

\* No agent goes from one worker's hands straight into another's: a
\* reservation is never won over a reservation (ARCHITECTURE.md, section 4).
THEOREM ReservationsAreExclusive == StoreSpec => NoHandover
<1>1. ASSUME StoreTypeOK, HolderMatchesState, [StoreNext]_store_vars, NEW a \in Agents,
             agents[a].reserved_by # None
      PROVE  agents'[a].reserved_by \in {agents[a].reserved_by, None}
  <2> USE <1>1 DEF StoreTypeOK, AgentRow
  <2>1. ASSUME NEW b \in Agents, NEW w \in Workers, NEW lease \in Leases, ReserveAgent(b, w, lease)
        PROVE  agents'[a].reserved_by = agents[a].reserved_by
    BY <2>1 DEF ReserveAgent, HolderMatchesState
  <2>2. ASSUME NEW b \in Agents, NEW w \in Workers, NEW target \in AgentState,
               NEW c \in Contacts \cup {None}, NEW lease \in {NoLease} \cup Leases,
               TransitionAgent(b, w, target, AgentState, c, lease)
        PROVE  agents'[a].reserved_by \in {agents[a].reserved_by, None}
    BY <2>2 DEF TransitionAgent, CanTransition
  <2>3. ASSUME NEW b \in Agents, NEW c \in Contacts, ForceReleaseAgent(b, c)
        PROVE  agents'[a].reserved_by \in {agents[a].reserved_by, None}
    BY <2>3 DEF ForceReleaseAgent, FreeAgent
  <2>4. ASSUME NEW S \in SUBSET ReclaimableAgents, ReclaimExpiredAgentLeases(S)
        PROVE  agents'[a].reserved_by \in {agents[a].reserved_by, None}
    BY <2>4 DEF ReclaimExpiredAgentLeases, FreeAgent
  <2>5. CASE AgentMethod
    BY <2>1, <2>2, <2>3, <2>4, <2>5 DEF AgentMethod
  <2>6. CASE UNCHANGED agents
    BY <2>6
  <2>7. CASE Tick
    BY <2>7, TickKeepsHolders
  <2> QED
    BY <2>5, <2>6, <2>7 DEF StoreNext, store_vars
<1>2. StoreTypeOK /\ HolderMatchesState /\ [StoreNext]_store_vars =>
        [\A a \in Agents :
           agents[a].reserved_by # None =>
             agents'[a].reserved_by \in {agents[a].reserved_by, None}]_store_vars
  BY <1>1
<1> QED
  BY <1>2, TypeCorrect, HolderAlwaysMatches, PTL DEF StoreSpec, NoHandover

-----------------------------------------------------------------------------
(* The calls *)

\* What a finished call is, no store method changes any more.
LEMMA FinishedStep ==
  ASSUME StoreTypeOK, [StoreNext]_store_vars, NEW c \in Contacts,
         calls[c].state \in TERMINAL_CALL_STATES
  PROVE  calls'[c].state = calls[c].state /\ calls'[c].reason = calls[c].reason
<1> USE DEF StoreTypeOK, CallRow
<1>0. calls[c].state \notin LIVE_CALL_STATES \cup {"QUEUED", "RESERVED"}
  BY DEF TERMINAL_CALL_STATES, LIVE_CALL_STATES
<1>1. ASSUME NEW d \in Contacts, NEW a \in Agents \cup {None}, NEW w \in Workers, CreateCall(d, a, w)
      PROVE  calls'[c] = calls[c]
  BY <1>0, <1>1 DEF CreateCall, NoCall
<1>2. ASSUME NEW d \in Contacts, NEW a \in Agents, AttachAgentToCall(d, a)
      PROVE  calls'[c].state = calls[c].state /\ calls'[c].reason = calls[c].reason
  BY <1>2 DEF AttachAgentToCall
<1>3. ASSUME NEW d \in Contacts, NEW lease \in Leases, MarkCallInitiated(d, lease)
      PROVE  calls'[c] = calls[c]
  BY <1>0, <1>3 DEF MarkCallInitiated
<1>4. ASSUME NEW d \in Contacts, NEW s \in CallState \ {"QUEUED"},
             NEW r \in FailureReason \cup {None}, NEW lease \in Leases,
             ApplyCallTransition(d, s, r, lease)
      PROVE  calls'[c] = calls[c]
  BY <1>4 DEF ApplyCallTransition, CanApply
<1>5. ASSUME NEW S \in SUBSET ReclaimableCalls, ReclaimExpiredCallLeases(S)
      PROVE  calls'[c] = calls[c]
  BY <1>0, <1>5 DEF ReclaimExpiredCallLeases, ReclaimableCalls
<1>6. CASE CallMethod
  BY <1>1, <1>2, <1>3, <1>4, <1>5, <1>6 DEF CallMethod
<1>7. CASE UNCHANGED calls
  BY <1>7
<1>8. CASE Tick
  BY <1>8 DEF Tick, Aged
<1> QED
  BY <1>6, <1>7, <1>8 DEF StoreNext, store_vars

\* A finished call stays as it finished, whatever its clients still have in hand.
THEOREM FinishedCallsStayFinished == StoreSpec => TerminalIsSticky
<1>1. StoreTypeOK /\ [StoreNext]_store_vars =>
        [\A c \in Contacts :
           calls[c].state \in TERMINAL_CALL_STATES =>
             /\ calls'[c].state = calls[c].state
             /\ calls'[c].reason = calls[c].reason]_store_vars
  BY FinishedStep
<1> QED
  BY <1>1, TypeCorrect, PTL DEF StoreSpec, TerminalIsSticky

=============================================================================
