------------------------- MODULE DialerBookingProofs -------------------------
(***************************************************************************)
(* An agent on a call and the call's agent_id are two rows, written by two *)
(* statements.  That they agree, but for the moment between the two, for   *)
(* any number of workers, with leases that run out and workers that crash: *)
(* proofs checked by TLAPS.                                                *)
(***************************************************************************)
EXTENDS DialerBridgeProofs

\* The states in which an agent has a call.
InCall == {"DIALING", "CONNECTED", "WRAP_UP"}

\* The dial loop of w bridges a to c and has yet to write it into the call, or it
\* came to an end there.  A worker that comes back does not find the call again.
Unattached(a, c, w) ==
  \/ dial[w].at = "attach" /\ dial[w].agent = a /\ dial[w].call = c
  \/ <<w, "dial">> \in ended
  \/ c \notin pending_bridges /\ Silent(c) /\ (w \notin alive \/ "restart" \in Faults)

\* The call names its agent, or was placed without one and its worker has yet to write
\* the agent down.
Booked(a, c) ==
  \/ calls[c].agent_id = a
  \/ /\ calls[c].agent_id = None /\ calls[c].state \notin {"QUEUED", "RESERVED"}
     /\ agents[a].reserved_by \in Workers /\ calls[c].reserved_by = agents[a].reserved_by
     /\ Unattached(a, c, agents[a].reserved_by)

\* The calls that dial loops, handlers and waiting calls name have the agent they
\* take them to have.
LinkInv ==
  /\ \A w \in Workers :
       /\ dial[w].at = "assign" => calls[dial[w].call].agent_id = dial[w].agent
       /\ cpu[w].at = "bridge" => calls[cpu[w].call].agent_id = cpu[w].agent
  /\ \A c \in pending_bridges : calls[c].agent_id = None

\* No two agents have the same call, and each is the call's agent.
BookInv ==
  \A a \in Agents :
    IF agents[a].state \in InCall
    THEN /\ agents[a].current_call_id \in Contacts
         /\ Booked(a, agents[a].current_call_id)
         /\ \A b \in Agents \ {a} :
              agents[b].state \in InCall => agents[b].current_call_id # agents[a].current_call_id
    ELSE agents[a].current_call_id = None

-----------------------------------------------------------------------------
(* Rows before and after a write *)

\* What transition_agent writes, when it writes.
LEMMA MovedAgent ==
  ASSUME StoreTypeOK, NEW a \in Agents, NEW w \in Workers, NEW target, NEW expected, NEW c, NEW lease,
         TransitionAgent(a, w, target, expected, c, lease)
  PROVE  /\ agents[a].state \in expected /\ agents[a].reserved_by \in {None, w}
         /\ AgentEdge(agents[a].state, target)
         /\ agents'[a].state = target /\ agents'[a].current_call_id = c
         /\ target \notin {"AVAILABLE", "OFFLINE", "PAUSED"} => agents'[a].reserved_by = w
         /\ \A b \in Agents \ {a} : agents'[b] = agents[b]
BY DEF TransitionAgent, CanTransition, StoreTypeOK

\* What reserve_agent writes.
LEMMA ReservedAgent ==
  ASSUME StoreTypeOK, NEW a \in Agents, NEW w, NEW lease, ReserveAgent(a, w, lease)
  PROVE  /\ agents[a].state = "AVAILABLE"
         /\ agents'[a].state = "RESERVED" /\ agents'[a].reserved_by = w
         /\ agents'[a].current_call_id = agents[a].current_call_id
         /\ \A b \in Agents \ {a} : agents'[b] = agents[b]
BY DEF ReserveAgent, StoreTypeOK, AgentRow

\* What force_release_agent writes: only the call it was asked about loses its agent.
LEMMA ReleasedAgent ==
  ASSUME StoreTypeOK, NEW a \in Agents, NEW c, ForceReleaseAgent(a, c)
  PROVE  /\ agents[a].current_call_id = c
         /\ agents'[a].state = "AVAILABLE" /\ agents'[a].current_call_id = None
         /\ \A b \in Agents \ {a} : agents'[b] = agents[b]
BY DEF ForceReleaseAgent, StoreTypeOK, FreeAgent

\* What attach_agent_to_call writes.
LEMMA AttachedCall ==
  ASSUME StoreTypeOK, NEW c \in Contacts, NEW a, AttachAgentToCall(c, a)
  PROVE  /\ calls'[c].agent_id = a /\ SameRow(calls[c], calls'[c])
         /\ \A d \in Contacts \ {c} : calls'[d] = calls[d]
BY DEF AttachAgentToCall, StoreTypeOK, CallRow, SameRow

\* What create_call writes.
LEMMA CreatedCall ==
  ASSUME StoreTypeOK, NEW c \in Contacts, NEW a, NEW w, CreateCall(c, a, w)
  PROVE  /\ calls[c] = NoCall
         /\ calls'[c].agent_id = a /\ calls'[c].state = "RESERVED" /\ calls'[c].reserved_by = w
         /\ calls'[c].connected = FALSE /\ calls'[c].reason = None
         /\ \A d \in Contacts \ {c} : calls'[d] = calls[d]
BY DEF CreateCall, StoreTypeOK, NoCall

\* What mark_call_initiated writes.
LEMMA PlacedCall ==
  ASSUME StoreTypeOK, NEW c \in Contacts, NEW lease, MarkCallInitiated(c, lease)
  PROVE  /\ calls[c].state = "RESERVED" /\ calls'[c].state = "INITIATED"
         /\ calls'[c].agent_id = calls[c].agent_id /\ calls'[c].reserved_by = calls[c].reserved_by
         /\ calls'[c].connected = calls[c].connected /\ calls'[c].reason = calls[c].reason
         /\ \A d \in Contacts \ {c} : calls'[d] = calls[d]
BY DEF MarkCallInitiated, StoreTypeOK, CallRow

\* A step of a dial loop is the one of the line the loop is at.
LEMMA LoopLine ==
  ASSUME NEW w \in Workers, DialLoop(w)
  PROVE  /\ w \in alive /\ <<w, "dial">> \notin ended /\ cpu[w].task \in {"none", "dial"}
         /\ dial[w].at = "connect" => BridgeConnect(w)
         /\ dial[w].at = "attach" => BridgeAttach(w)
         /\ dial[w].at = "create" => Create(w)
         /\ dial[w].at = "assign" => Assign(w)
         /\ dial[w].at = "place" => Place(w)
         /\ dial[w].at \notin {"attach", "create", "place"} => UNCHANGED calls
         /\ dial[w].at # "place" => UNCHANGED provider
         /\ UNCHANGED inbox
<1>1. CASE ServeBridges(w)
  <2>1. /\ dial[w].at \in {"top", "serve", "bridge", "connect", "attach", "scan"}
        /\ w \in alive /\ <<w, "dial">> \notin ended /\ cpu[w].task \in {"none", "dial"}
    BY <1>1 DEF ServeBridges, ServeNext, BridgeReserve, BridgeBreak, BridgeConnect, BridgeAttach,
                ScanReserve, DialAt
  <2>2. /\ dial[w].at = "connect" => BridgeConnect(w)
        /\ dial[w].at = "attach" => BridgeAttach(w)
        /\ dial[w].at # "attach" => UNCHANGED calls
    BY <1>1 DEF ServeBridges, ServeNext, BridgeReserve, BridgeBreak, BridgeConnect, BridgeAttach,
                ScanReserve, DialAt
  <2>3. UNCHANGED <<inbox, provider>>
    BY <1>1 DEF ServeBridges, net_vars
  <2> QED
    BY <2>1, <2>2, <2>3
<1>2. CASE Dial(w)
  <2>1. /\ dial[w].at \in {"dial", "speculate", "claim", "return", "create", "assign", "place", "pace"}
        /\ w \in alive /\ <<w, "dial">> \notin ended /\ cpu[w].task \in {"none", "dial"}
    BY <1>2 DEF Dial, DialForAgent, DialSpeculative, Claim, ReturnAgent, Create, Assign, Place,
                PredictiveTick, DialAt
  <2>2. /\ dial[w].at = "create" => Create(w)
        /\ dial[w].at = "assign" => Assign(w)
        /\ dial[w].at = "place" => Place(w)
        /\ dial[w].at \notin {"create", "place"} => UNCHANGED calls
    BY <1>2 DEF Dial, DialForAgent, DialSpeculative, Claim, ReturnAgent, Create, Assign, Place,
                PredictiveTick, DialAt
  <2>3. UNCHANGED inbox /\ (dial[w].at # "place" => UNCHANGED provider)
    BY <1>2 DEF Dial, DialForAgent, DialSpeculative, Claim, ReturnAgent, Create, Assign, Place,
                PredictiveTick, DialAt, net_vars
  <2> QED
    BY <2>1, <2>2, <2>3
<1> QED
  BY <1>1, <1>2 DEF DialLoop

\* What a step may do to the agent_id of a call.
SetsAgent(c) ==
  \E w \in Workers :
    /\ DialLoop(w) /\ c = dial[w].call
    /\ Create(w) \/ BridgeAttach(w)
    /\ Create(w) => calls[c] = NoCall
    /\ BridgeAttach(w) => dial[w].at = "attach"
    /\ calls'[c].agent_id = dial[w].agent

\* Only create_call and attach_agent_to_call give a call its agent.
LEMMA AgentIdStep ==
  ASSUME DialerInv, [Next]_vars, NEW c \in Contacts
  PROVE  calls'[c].agent_id = calls[c].agent_id \/ SetsAgent(c)
<1>0. StoreTypeOK
  BY DEF DialerInv
<1> DEFINE Same == calls'[c].agent_id = calls[c].agent_id
<1>1. ASSUME NEW w \in Workers, DialLoop(w) PROVE Same \/ SetsAgent(c)
  <2>1. CASE dial[w].at = "attach"
    <3>1. BridgeAttach(w) /\ AttachAgentToCall(dial[w].call, dial[w].agent) /\ dial[w].call \in Contacts
      BY <1>1, <2>1, LoopLine DEF BridgeAttach, DialerInv, GoodLoops
    <3>2. calls'[dial[w].call].agent_id = dial[w].agent /\ (c # dial[w].call => calls'[c] = calls[c])
      BY <1>0, <3>1, AttachedCall
    <3>3. ~Create(w)
      BY <2>1 DEF Create, DialAt
    <3> QED
      BY <1>1, <2>1, <3>1, <3>2, <3>3 DEF SetsAgent
  <2>2. CASE dial[w].at = "create"
    <3>1. Create(w) /\ CreateCall(dial[w].call, dial[w].agent, w) /\ dial[w].call \in Contacts
      BY <1>1, <2>2, LoopLine DEF Create, DialerInv, GoodLoops
    <3>2. /\ calls'[dial[w].call].agent_id = dial[w].agent /\ calls[dial[w].call] = NoCall
          /\ c # dial[w].call => calls'[c] = calls[c]
      BY <1>0, <3>1, CreatedCall, ZenonT(60)
    <3>3. ~BridgeAttach(w)
      BY <2>2 DEF BridgeAttach, DialAt
    <3> QED
      BY <1>1, <3>1, <3>2, <3>3 DEF SetsAgent
  <2>3. CASE dial[w].at = "place"
    <3>1. MarkCallInitiated(dial[w].call, CallLease) /\ dial[w].call \in Contacts
      BY <1>1, <2>3, LoopLine DEF Place, DialerInv, GoodLoops
    <3> QED
      BY <1>0, <3>1, PlacedCall
  <2> QED
    BY <1>1, <2>1, <2>2, <2>3, LoopLine
<1>2. ASSUME NEW w \in Workers, Proceed(w) PROVE Same
  <2>1. ASSUME NEW d \in Contacts, NEW target \in EventType, NEW reason,
               ApplyCallTransition(d, target, reason, CallLease)
        PROVE  Same
    BY <1>0, <2>1, AppliedRow
  <2>2. CASE UNCHANGED calls
    BY <2>2
  <2>3. CASE ~UNCHANGED calls
    <3>1. cpu[w].call \in Contacts /\ (cpu[w].at = "apply" => cpu[w].target \in EventType)
      BY <1>2, <2>3 DEF Proceed, BridgeOwnAgent, Apply, MarkAnswered, MarkConnected, ReleaseBridged,
                 MarkUnanswered, MarkAbandoned, OnCallTerminal, FreeCallAgent, ReapCallAgent, ReapAgents,
                 HandlerAt, DialerInv, GoodFrames
    <3>2. {"ANSWERED", "CONNECTED", "FAILED"} \subseteq EventType
      BY DEF EventType
    <3> QED
      BY <1>2, <2>1, <2>3, <3>1, <3>2
         DEF Proceed, BridgeOwnAgent, Apply, MarkAnswered, MarkConnected, ReleaseBridged,
             MarkUnanswered, MarkAbandoned, OnCallTerminal, FreeCallAgent, ReapCallAgent, ReapAgents, HandlerAt
  <2> QED
    BY <2>2, <2>3
<1>3. ASSUME NEW w \in Workers, ReaperPass(w) PROVE Same
  <2>1. PICK S \in SUBSET ReclaimableCalls : ReclaimExpiredCallLeases(S)
    BY <1>3 DEF ReaperPass, ReapCalls
  <2>2. TimedOut(calls[c]).agent_id = calls[c].agent_id
    BY <1>0 DEF TimedOut, StoreTypeOK, CallRow
  <2> QED
    BY <2>1, <2>2 DEF ReclaimExpiredCallLeases
<1>4. ASSUME NEW w \in Workers, Worker(w), ~DialLoop(w), ~Proceed(w), ~ReaperPass(w) PROVE Same
  BY <1>4 DEF Worker, WrapUpTask, WrapUp, WrapUpRelease, EventTask, BridgeWait, store_vars
<1>5. ASSUME NEW w \in Workers, Trouble(w) PROVE Same
  BY <1>5, TroubleKeepsInv DEF store_vars
<1>6. CASE Time
  <2>1. calls'[c] = Aged(calls[c]) /\ calls[c] \in CallRow
    BY <1>0, <1>6 DEF Time, Tick, StoreTypeOK
  <2> QED
    BY <2>1 DEF Aged, CallRow
<1>7. ASSUME NEW d \in Contacts, Provider(d) PROVE Same
  BY <1>7 DEF Provider, store_vars
<1>8. CASE UNCHANGED vars
  BY <1>8 DEF vars, store_vars
<1> QED
  BY <1>1, <1>2, <1>3, <1>4, <1>5, <1>6, <1>7, <1>8 DEF Next

\* A call keeps the agent it has.
LEMMA AgentIdStays ==
  ASSUME DialerInv, CallInv, LinkInv, [Next]_vars, NEW c \in Contacts, calls[c].agent_id # None
  PROVE  calls'[c].agent_id = calls[c].agent_id
<1>1. NoCall.agent_id = None
  BY DEF NoCall
<1>2. \A w \in Workers : dial[w].at = "attach" => dial[w].call \in pending_bridges
  BY DEF CallInv, LoopInv, Bridging
<1> QED
  BY <1>1, <1>2, AgentIdStep DEF SetsAgent, LinkInv

\* Neither an unplaced call nor one that has an agent is waiting for one.
LEMMA AttachedWaits ==
  ASSUME DialerInv, CallInv, NEW w \in Workers, Bridging(w)
  PROVE  /\ dial[w].call \in Contacts /\ dial[w].call \in pending_bridges
         /\ calls[dial[w].call].reserved_by = w
         /\ calls[dial[w].call].state \in {"INITIATED", "RINGING", "FAILED"}
<1>1. dial[w].call \in pending_bridges \cap Own(w)
  BY DEF CallInv, LoopInv
<1> QED
  BY <1>1 DEF Own, CallInv, RowInv, RowFits, Waiting

\* The dial loop lets no new call wait.
LEMMA LoopPending ==
  ASSUME NEW w \in Workers, DialLoop(w)
  PROVE  pending_bridges' \subseteq pending_bridges
BY DEF DialLoop, ServeBridges, Dial, ServeNext, BridgeReserve, BridgeBreak, BridgeConnect,
       BridgeAttach, ScanReserve, bridge_vars

\* A call the provider is silent about stays so once it is placed, and does not
\* begin to wait for an agent.
LEMMA SilentStays ==
  ASSUME DialerInv, CallInv, [Next]_vars, NEW c \in Contacts, Silent(c),
         calls[c].state \notin {"QUEUED", "RESERVED"}
  PROVE  Silent(c)' /\ (c \in pending_bridges' => c \in pending_bridges)
<1> DEFINE Done == Silent(c)' /\ (c \in pending_bridges' => c \in pending_bridges)
<1>0. DialerTypeOK /\ inbox[c] = <<>> /\ provider[c] \in {"none", "done"}
  BY DEF DialerInv, Silent
<1>1. ASSUME NEW w \in Workers, DialLoop(w) PROVE Done
  BY <1>0, <1>1, LoopPending, LoopElsewhere DEF Silent
<1>2. ASSUME NEW w \in Workers, Proceed(w) \/ WrapUpTask(w) \/ ReaperPass(w) PROVE Done
  BY <1>0, <1>2 DEF Proceed, WrapUpTask, ReaperPass, net_vars, bridge_vars, Silent
<1>3. ASSUME NEW w \in Workers, NEW d \in Contacts, EventTask(w, d) PROVE Done
  <2>1. d # c /\ inbox' = [inbox EXCEPT ![d] = Tail(@)] /\ UNCHANGED provider
    BY <1>0, <1>3 DEF EventTask, HandleDuplicate, HandleStale, HandleEvent, HandleAnswered, Deliver
  <2>2. pending_bridges' \subseteq pending_bridges \cup {d}
    BY <1>3 DEF EventTask, HandleDuplicate, HandleStale, HandleEvent, HandleAnswered
  <2> QED
    BY <2>1, <2>2, <1>0 DEF Silent, DialerTypeOK
<1>4. ASSUME NEW w \in Workers, NEW d \in Contacts, BridgeWait(w, d) PROVE Done
  BY <1>0, <1>4 DEF BridgeWait, BridgeFound, BridgeTimeout, net_vars, Silent
<1>5. ASSUME NEW w \in Workers, Vanish(w) PROVE Done
  BY <1>0, <1>5 DEF Vanish, Silent
<1>6. ASSUME NEW w \in Workers, Trouble(w), ~Vanish(w) PROVE Done
  <2>1. ASSUME NEW d \in Contacts, LoseEvent(w, d) PROVE Done
    <3>1. d # c
      BY <1>0, <2>1 DEF LoseEvent
    <3> QED
      BY <1>0, <2>1, <3>1 DEF LoseEvent, bridge_vars, Silent, DialerTypeOK
  <2>2. CASE Shutdown(w) \/ Restart(w) \/ StoreError(w)
    BY <1>0, <2>2 DEF Shutdown, Restart, StoreError, net_vars, bridge_vars, Silent
  <2> QED
    BY <1>6, <2>1, <2>2 DEF Trouble, Crash, Exit
<1>7. ASSUME NEW d \in Contacts, Provider(d) PROVE Done
  <2>1. PICK step, next, events : Emit(d, step, next, events) /\ step \in {"placed", "rung", "answered"}
    BY <1>7 DEF Provider, ProviderStep, ProviderBStep
  <2>2. d # c
    BY <1>0, <2>1 DEF Emit
  <2> QED
    BY <1>0, <1>7, <2>1, <2>2 DEF Provider, Emit, bridge_vars, Silent, DialerTypeOK
<1>8. CASE Time \/ UNCHANGED vars
  BY <1>0, <1>8 DEF Time, vars, dialer_vars, net_vars, bridge_vars, Silent
<1> QED
  BY <1>1, <1>2, <1>3, <1>4, <1>5, <1>6, <1>7, <1>8 DEF Next, Worker

\* What happens to the position of a dial loop.
LEMMA LoopPosition ==
  ASSUME DialerInv, [Next]_vars, NEW w \in Workers
  PROVE  \/ DialLoop(w)
         \/ Vanish(w)
         \/ dial'[w] = dial[w] /\ (<<w, "dial">> \in ended => <<w, "dial">> \in ended')
         \/ <<w, "dial">> \in ended' /\ dial'[w] = DialStart /\ DialLoopEnds(w)
<1> DEFINE Same == dial'[w] = dial[w] /\ (<<w, "dial">> \in ended => <<w, "dial">> \in ended')
           Ends == <<w, "dial">> \in ended' /\ dial'[w] = DialStart /\ DialLoopEnds(w)
<1>0. dial \in [Workers -> GoodLoops]
  BY DEF DialerInv
<1>1. ASSUME NEW v \in Workers, Worker(v), ~DialLoop(v) PROVE Same
  BY <1>1 DEF Worker, Proceed, WrapUpTask, ReaperPass, EventTask, BridgeWait, worker_vars
<1>2. ASSUME NEW v \in Workers, DialLoop(v), v # w PROVE Same
  <2>1. UNCHANGED ended
    BY <1>2 DEF DialLoop, worker_vars
  <2>2. PICK d : Continue(v, d) \/ Suspend(v, d)
    BY <1>2 DEF DialLoop, ServeBridges, Dial, ServeNext, BridgeReserve, BridgeBreak, BridgeConnect,
                BridgeAttach, ScanReserve, DialForAgent, DialSpeculative, Claim, ReturnAgent, Create, Assign,
                Place, PredictiveTick, BeginScan
  <2> QED
    BY <2>1, <2>2, <1>2, LoopMove
<1>3. ASSUME NEW v \in Workers, Vanish(v), v # w PROVE Same
  BY <1>0, <1>3 DEF Vanish
<1>4. ASSUME NEW v \in Workers, Trouble(v), ~Vanish(v) PROVE Same \/ Ends
  <2>1. CASE DialLoopEnds(v) /\ StoreError(v)
    BY <1>0, <2>1 DEF DialLoopEnds, Suspend, DialStart
  <2>2. CASE ~DialLoopEnds(v)
    BY <1>4, <2>2 DEF Trouble, Crash, Exit, Shutdown, Restart, StoreError, ReaperEnds, LoseEvent, worker_vars
  <2> QED
    BY <1>4, <2>1, <2>2 DEF Trouble, Crash, Exit, Shutdown, Restart, LoseEvent, worker_vars, StoreError
<1>5. ASSUME NEW d \in Contacts, Provider(d) PROVE Same
  BY <1>5 DEF Provider, worker_vars
<1>6. CASE Time \/ UNCHANGED vars
  BY <1>6 DEF Time, vars, dialer_vars, worker_vars
<1> QED
  BY <1>1, <1>2, <1>3, <1>4, <1>5, <1>6 DEF Next

\* Only a restart brings a worker back.
LEMMA AliveStep ==
  ASSUME [Next]_vars, NEW w \in Workers, w \notin alive
  PROVE  w \notin alive' \/ "restart" \in Faults
<1>1. ASSUME NEW v \in Workers, Trouble(v) PROVE w \notin alive' \/ "restart" \in Faults
  BY <1>1 DEF Trouble, Crash, Exit, Vanish, Shutdown, Restart, StoreError, LoseEvent, worker_vars
<1> QED
  BY <1>1 DEF Next, Worker, DialLoop, Proceed, WrapUpTask, ReaperPass, EventTask, BridgeWait, Provider, Time,
              vars, dialer_vars, worker_vars

\* A bridge nobody has written into the call stays so until its dial loop does.
LEMMA UnattachedStays ==
  ASSUME DialerInv, CallInv, [Next]_vars, NEW a \in Agents, NEW c \in Contacts, NEW w \in Workers,
         calls[c].reserved_by = w, calls[c].state \notin {"QUEUED", "RESERVED"},
         Unattached(a, c, w),
         ~(DialLoop(w) /\ dial[w].at = "attach" /\ dial[w].call = c)
  PROVE  Unattached(a, c, w)'
<1>1. CASE c \notin pending_bridges /\ Silent(c) /\ (w \notin alive \/ "restart" \in Faults)
  BY <1>1, SilentStays, AliveStep DEF Unattached
<1>2. CASE Vanish(w)
  BY <1>2 DEF Vanish, Own, Silent, Unattached, DialerInv, DialerTypeOK
<1>3. CASE DialLoop(w)
  BY <1>1, <1>3, LoopLine DEF Unattached
<1>4. CASE ~Vanish(w) /\ ~DialLoop(w)
  BY <1>1, <1>4, LoopPosition DEF Unattached
<1> QED
  BY <1>2, <1>3, <1>4

\* A call keeps the worker it has.
LEMMA OwnerStays ==
  ASSUME DialerInv, [Next]_vars, NEW c \in Contacts, calls[c].state # "QUEUED"
  PROVE  calls'[c].reserved_by = calls[c].reserved_by
<1>1. [StoreNext]_store_vars /\ calls \in [Contacts -> CallRow]
  BY StepKeepsInv DEF DialerInv, StoreTypeOK
<1>2. CASE CallMethod
  <2>1. calls[c] # NoCall
    BY DEF NoCall
  <2>2. \A s, r, lease : Transitioned(calls[c], s, r, lease).reserved_by = calls[c].reserved_by
    BY <1>1 DEF Transitioned, CallRow
  <2>3. TimedOut(calls[c]).reserved_by = calls[c].reserved_by
    BY <1>1 DEF TimedOut, CallRow
  <2>4. PICK d \in Contacts :
          \/ \E a \in Agents \cup {None}, w \in Workers : CreateCall(d, a, w)
          \/ \E a \in Agents : AttachAgentToCall(d, a)
          \/ \E lease \in Leases : MarkCallInitiated(d, lease)
          \/ \E s \in CallState \ {"QUEUED"}, r \in FailureReason \cup {None}, lease \in Leases :
               ApplyCallTransition(d, s, r, lease)
          \/ \E S \in SUBSET ReclaimableCalls : ReclaimExpiredCallLeases(S)
    BY <1>2 DEF CallMethod
  <2>5. CASE \E a \in Agents \cup {None}, w \in Workers : CreateCall(d, a, w)
    BY <1>1, <2>1, <2>5 DEF CreateCall
  <2>6. CASE \E a \in Agents : AttachAgentToCall(d, a)
    BY <1>1, <2>6 DEF AttachAgentToCall, CallRow
  <2>7. CASE \E lease \in Leases : MarkCallInitiated(d, lease)
    BY <1>1, <2>7 DEF MarkCallInitiated, CallRow
  <2>8. ASSUME NEW s, NEW r, NEW lease, ApplyCallTransition(d, s, r, lease)
        PROVE  calls'[c].reserved_by = calls[c].reserved_by
    BY <1>1, <2>2, <2>8 DEF ApplyCallTransition
  <2>9. ASSUME NEW S, ReclaimExpiredCallLeases(S)
        PROVE  calls'[c].reserved_by = calls[c].reserved_by
    BY <2>3, <2>9 DEF ReclaimExpiredCallLeases
  <2> QED
    BY <2>4, <2>5, <2>6, <2>7, <2>8, <2>9
<1>3. CASE Tick
  BY <1>1, <1>3 DEF Tick, Aged, CallRow
<1> QED
  BY <1>1, <1>2, <1>3 DEF StoreNext, store_vars

-----------------------------------------------------------------------------
(* Who puts an agent on a call *)

\* The step leaves a on its call, perhaps to wrap it up, or takes it off.
KeepsCall(a) ==
  IF agents'[a].state \in InCall
  THEN /\ agents[a].state \in InCall
       /\ agents'[a].current_call_id = agents[a].current_call_id
       /\ agents[a].reserved_by \in Workers => agents'[a].reserved_by = agents[a].reserved_by
       /\ agents'[a].state \in {agents[a].state, "WRAP_UP"}
  ELSE \/ agents'[a].current_call_id = None
       \/ agents[a].state \notin InCall /\ agents'[a].current_call_id = agents[a].current_call_id

\* The step gives a the call c: one of the three places in the code that do.
GoesOnCall(w, a, c) ==
  /\ agents'[a].state \in InCall /\ agents'[a].current_call_id = c /\ agents'[a].reserved_by = w
  /\ \A b \in Agents \ {a} : agents'[b] = agents[b]
  /\ UNCHANGED <<calls, pending_bridges>>
  /\ \/ /\ DialLoop(w) /\ dial[w].at = "connect" /\ a = dial[w].agent /\ c = dial[w].call
        /\ dial'[w] = [dial[w] EXCEPT !.at = "attach"]
     \/ DialLoop(w) /\ dial[w].at = "assign" /\ a = dial[w].agent /\ c = dial[w].call
     \/ Proceed(w) /\ cpu[w].at = "bridge" /\ a = cpu[w].agent /\ c = cpu[w].call

\* A transition to AVAILABLE or WRAP_UP gives nobody another call.
LEMMA CalmTransition ==
  ASSUME StoreTypeOK, NEW a \in Agents, NEW w \in Workers, NEW target, NEW expected, NEW c, NEW lease,
         TryTransitionAgent(a, w, target, expected, c, lease),
         \/ target = "AVAILABLE" /\ c = None
         \/ target = "WRAP_UP" /\ expected = {"CONNECTED"} /\ c = agents[a].current_call_id
  PROVE  \A b \in Agents : KeepsCall(b)
<1>1. CASE TransitionAgent(a, w, target, expected, c, lease)
  <2>1. None \notin Workers
    BY StoreAssumption
  <2>2. KeepsCall(a)
    BY <1>1, <2>1, MovedAgent DEF KeepsCall, InCall
  <2>3. \A b \in Agents \ {a} : KeepsCall(b)
    BY <1>1, MovedAgent DEF KeepsCall
  <2> QED
    BY <2>2, <2>3
<1>2. CASE UNCHANGED agents
  BY <1>2 DEF KeepsCall
<1> QED
  BY <1>1, <1>2 DEF TryTransitionAgent

\* Neither does a release.
LEMMA CalmRelease ==
  ASSUME StoreTypeOK, NEW a \in Agents, NEW c, TryForceRelease(a, c)
  PROVE  \A b \in Agents : KeepsCall(b)
<1>1. CASE ForceReleaseAgent(a, c)
  BY <1>1, ReleasedAgent DEF KeepsCall, InCall
<1>2. CASE UNCHANGED agents
  BY <1>2 DEF KeepsCall
<1> QED
  BY <1>1, <1>2 DEF TryForceRelease

\* Every step keeps an agent on its call or takes it off, but for those three places.
LEMMA CallOfAgent ==
  ASSUME DialerInv, [Next]_vars, NEW a \in Agents
  PROVE  KeepsCall(a) \/ \E w \in Workers, c \in Contacts : GoesOnCall(w, a, c)
<1> DEFINE Done == KeepsCall(a) \/ \E w \in Workers, c \in Contacts : GoesOnCall(w, a, c)
<1>0. StoreTypeOK /\ dial \in [Workers -> GoodLoops] /\ cpu \in [Workers -> GoodFrames]
  BY DEF DialerInv
<1>a. UNCHANGED agents => KeepsCall(a)
  BY DEF KeepsCall
<1>1. ASSUME NEW w \in Workers, DialLoop(w), ServeBridges(w) PROVE Done
  <2>1. ASSUME NEW b \in Agents, NEW lease, ReserveAgent(b, w, lease) PROVE KeepsCall(a)
    BY <1>0, <2>1, ReservedAgent DEF KeepsCall, InCall
  <2>2. CASE BridgeReserve(w) \/ ScanReserve(w)
    <3>1. dial[w].listed \subseteq Agents
      BY <1>0 DEF GoodLoops, DialLoops
    <3> QED
      BY <1>a, <2>1, <2>2, <3>1 DEF BridgeReserve, ScanReserve
  <2>3. CASE BridgeConnect(w) /\ ~UNCHANGED agents
    <3>1. /\ dial[w].at = "connect" /\ dial[w].agent \in Agents /\ dial[w].call \in Contacts
          /\ TransitionAgent(dial[w].agent, w, "CONNECTED", {"RESERVED"}, dial[w].call, CallLease)
          /\ Continue(w, [dial[w] EXCEPT !.at = "attach"]) /\ UNCHANGED <<calls, pending_bridges>>
      BY <1>0, <2>3 DEF BridgeConnect, DialAt, GoodLoops, bridge_vars
    <3>2. /\ agents'[dial[w].agent].state \in InCall /\ agents'[dial[w].agent].current_call_id = dial[w].call /\ agents'[dial[w].agent].reserved_by = w
          /\ \A b \in Agents \ {dial[w].agent} : agents'[b] = agents[b]
      BY <1>0, <3>1, MovedAgent DEF InCall
    <3>3. dial'[w] = [dial[w] EXCEPT !.at = "attach"]
      BY <1>0, <3>1 DEF Continue
    <3> QED
      BY <1>1, <3>1, <3>2, <3>3 DEF GoesOnCall, KeepsCall
  <2>4. CASE ServeNext(w) \/ BridgeBreak(w) \/ BridgeAttach(w)
    BY <1>a, <2>4 DEF ServeNext, BridgeBreak, BridgeAttach
  <2> QED
    BY <1>1, <1>a, <2>2, <2>3, <2>4 DEF ServeBridges
<1>2. ASSUME NEW w \in Workers, DialLoop(w), Dial(w) PROVE Done
  <2>1. CASE Assign(w) /\ ~UNCHANGED agents
    <3>1. /\ dial[w].at = "assign" /\ dial[w].agent \in Agents /\ dial[w].call \in Contacts
          /\ TransitionAgent(dial[w].agent, w, "DIALING", {"RESERVED"}, dial[w].call, CallLease)
          /\ UNCHANGED <<calls, pending_bridges>>
      BY <1>0, <1>2, <2>1 DEF Assign, TryTransitionAgent, DialAt, GoodLoops, bridge_vars, Dial
    <3>2. /\ agents'[dial[w].agent].state \in InCall /\ agents'[dial[w].agent].current_call_id = dial[w].call /\ agents'[dial[w].agent].reserved_by = w
          /\ \A b \in Agents \ {dial[w].agent} : agents'[b] = agents[b]
      BY <1>0, <3>1, MovedAgent DEF InCall
    <3> QED
      BY <1>2, <3>1, <3>2 DEF GoesOnCall, KeepsCall
  <2>2. CASE ReturnAgent(w)
    <3>1. dial[w].agent \in Agents
      BY <1>0, <2>2 DEF ReturnAgent, DialAt, GoodLoops
    <3> QED
      BY <1>0, <2>2, <3>1, CalmTransition DEF ReturnAgent
  <2> QED
    BY <1>2, <1>a, <2>1, <2>2 DEF Dial, DialForAgent, DialSpeculative, Claim, Create, Place, PredictiveTick
<1>3. ASSUME NEW w \in Workers, Proceed(w) PROVE Done
  <2>1. CASE BridgeOwnAgent(w) /\ ~UNCHANGED agents
    <3>1. /\ cpu[w].at = "bridge" /\ cpu[w].agent \in Agents /\ cpu[w].call \in Contacts
          /\ TransitionAgent(cpu[w].agent, w, "CONNECTED", {"DIALING"}, cpu[w].call, CallLease)
          /\ UNCHANGED <<calls, pending_bridges>>
      BY <1>0, <1>3, <2>1 DEF BridgeOwnAgent, HandlerAt, GoodFrames, bridge_vars, Proceed
    <3>2. /\ agents'[cpu[w].agent].state \in InCall /\ agents'[cpu[w].agent].current_call_id = cpu[w].call /\ agents'[cpu[w].agent].reserved_by = w
          /\ \A b \in Agents \ {cpu[w].agent} : agents'[b] = agents[b]
      BY <1>0, <3>1, MovedAgent DEF InCall
    <3> QED
      BY <1>3, <3>1, <3>2 DEF GoesOnCall, KeepsCall
  <2>2. CASE ReleaseBridged(w)
    <3>1. cpu[w].agent \in Agents
      BY <1>0, <2>2 DEF ReleaseBridged, HandlerAt, GoodFrames
    <3> QED
      BY <1>0, <2>2, <3>1, CalmRelease DEF ReleaseBridged
  <2>3. CASE FreeCallAgent(w)
    <3>1. cpu[w].agent \in Agents
      BY <1>0, <2>3 DEF FreeCallAgent, HandlerAt, GoodFrames
    <3> QED
      BY <1>0, <2>3, <3>1, CalmTransition DEF FreeCallAgent
  <2>4. CASE ReapCallAgent(w)
    <3>1. PICK c \in cpu[w].todo : UNCHANGED agents \/ (calls[c].agent_id # None /\ TryForceRelease(calls[c].agent_id, c))
      BY <2>4 DEF ReapCallAgent
    <3>2. calls[c].agent_id \in Agents \cup {None}
      BY <1>0, <3>1 DEF StoreTypeOK, CallRow, GoodFrames, Frames
    <3> QED
      BY <1>0, <1>a, <3>1, <3>2, CalmRelease
  <2>5. CASE ReapAgents(w)
    BY <2>5 DEF ReapAgents, ReclaimExpiredAgentLeases, KeepsCall, InCall, FreeAgent
  <2> QED
    BY <1>3, <1>a, <2>1, <2>2, <2>3, <2>4, <2>5
       DEF Proceed, Apply, MarkAnswered, MarkConnected, MarkUnanswered, MarkAbandoned, OnCallTerminal
<1>4. ASSUME NEW w \in Workers, WrapUpTask(w) PROVE Done
  <2>1. ASSUME NEW t \in wrap_ups PROVE t.agent \in Agents
    BY <2>1 DEF DialerInv, DialerTypeOK
  <2> QED
    BY <1>0, <1>4, <2>1, CalmTransition DEF WrapUpTask, WrapUp, WrapUpRelease
<1>5. ASSUME NEW w \in Workers, Worker(w), ~DialLoop(w), ~Proceed(w), ~WrapUpTask(w) PROVE Done
  BY <1>5, <1>a DEF Worker, ReaperPass, ReapCalls, EventTask, BridgeWait, store_vars
<1>6. ASSUME NEW w \in Workers, Trouble(w) PROVE Done
  BY <1>6, <1>a, TroubleKeepsInv DEF store_vars
<1>7. CASE Time
  <2>1. agents'[a] = Aged(agents[a]) /\ agents[a] \in AgentRow
    BY <1>0, <1>7 DEF Time, Tick, StoreTypeOK
  <2> QED
    BY <2>1 DEF Aged, AgentRow, KeepsCall
<1>8. CASE UNCHANGED vars \/ \E d \in Contacts : Provider(d)
  BY <1>8, <1>a DEF vars, store_vars, Provider
<1> QED
  BY <1>1, <1>2, <1>3, <1>4, <1>5, <1>6, <1>7, <1>8 DEF Next, DialLoop

-----------------------------------------------------------------------------
(* The agents of calls in hand *)

\* The dial loop comes to assign an agent only from the insertion of the call.
LEMMA AssignsCreated ==
  ASSUME DialerInv, NEW w \in Workers, DialLoop(w), dial'[w].at = "assign"
  PROVE  dial[w].at = "create" /\ dial'[w].call = dial[w].call /\ dial'[w].agent = dial[w].agent
<1> DEFINE d == dial[w]
<1>0. d \in DialLoops
  BY DEF DialerInv, GoodLoops
<1>a. ASSUME NEW e, Continue(w, e) \/ Suspend(w, e) PROVE dial'[w] = e \/ dial'[w].at = "top"
  BY <1>a, LoopMove DEF DialStart
<1>1. ~ServeBridges(w)
  <2>1. ~BeginScan(w)
    <3> DEFINE e == [DialStart EXCEPT !.at = NextLine(AvailableAgents, {}), !.listed = AvailableAgents]
    <3>1. e.at \in {"scan", "dial", "pace", "top"}
      BY NextLines DEF DialStart
    <3>2. BeginScan(w) => Continue(w, e) \/ Suspend(w, e)
      BY DEF BeginScan
    <3> HIDE DEF e
    <3> QED
      BY <1>a, <3>1, <3>2
  <2>2. ~ServeNext(w)
    <3> DEFINE waiting == pending_bridges \cap (IF d.at = "top" THEN Own(w) ELSE d.bridges)
    <3>1. ASSUME NEW c, Continue(w, [DialStart EXCEPT !.at = "bridge", !.bridges = waiting \ {c},
                                       !.listed = AvailableAgents, !.call = c])
          PROVE FALSE
      BY <1>a, <3>1 DEF DialStart
    <3> QED
      BY <2>1, <3>1 DEF ServeNext
  <2>3. ~BridgeReserve(w) /\ ~BridgeConnect(w)
    BY <1>0, <1>a DEF BridgeReserve, BridgeConnect, DialLoops, DialAt
  <2>4. ~BridgeAttach(w)
    BY <1>a DEF BridgeAttach, DialStart
  <2>5. ~ScanReserve(w)
    <3>1. \A rest, held : [d EXCEPT !.listed = rest, !.held = held, !.at = NextLine(rest, held)].at # "assign"
      BY <1>0, NextLines DEF DialLoops
    <3>2. ASSUME NEW rest, NEW held,
                 Suspend(w, [d EXCEPT !.listed = rest, !.held = held, !.at = NextLine(rest, held)])
          PROVE  FALSE
      <4> DEFINE e == [d EXCEPT !.listed = rest, !.held = held, !.at = NextLine(rest, held)]
      <4>1. e.at # "assign" /\ Suspend(w, e)
        BY <3>1, <3>2
      <4> HIDE DEF e
      <4> QED
        BY <1>a, <4>1
    <3> QED
      BY <3>2 DEF ScanReserve
  <2> QED
    BY <2>1, <2>2, <2>3, <2>4, <2>5 DEF ServeBridges, BridgeBreak
<1>2. CASE Dial(w)
  <2>1. ~Suspend(w, NextUnit(d))
    <3>1. NextUnit(d).at # "assign"
      BY <1>0, NextLines DEF NextUnit, DialLoops
    <3> QED
      BY <1>a, <3>1
  <2>2. ~DialForAgent(w) /\ ~DialSpeculative(w) /\ ~Claim(w)
    <3>2. /\ \A c : [d EXCEPT !.at = "claim", !.call = c].at # "assign"
          /\ [d EXCEPT !.at = "create"].at # "assign"
          /\ [d EXCEPT !.at = "return", !.call = None].at # "assign"
      BY <1>0 DEF DialLoops
    <3>3. ~DialForAgent(w)
      <4>1. ASSUME NEW a, NEW c,
                   LET u == [d EXCEPT !.held = @ \ {a}, !.agent = a]
                   IN  \/ Continue(w, [u EXCEPT !.at = "return"])
                       \/ Continue(w, [u EXCEPT !.at = "claim", !.call = c])
            PROVE  FALSE
        <5> DEFINE u == [d EXCEPT !.held = @ \ {a}, !.agent = a]
                   e == [u EXCEPT !.at = "return"]
                   g == [u EXCEPT !.at = "claim", !.call = c]
        <5>1. e.at # "assign" /\ g.at # "assign"
          BY <1>0 DEF DialLoops
        <5>2. Continue(w, e) \/ Continue(w, g)
          BY <4>1
        <5> HIDE DEF e, g
        <5> QED
          BY <1>a, <5>1, <5>2
      <4> QED
        BY <4>1 DEF DialForAgent
    <3>4. ~DialSpeculative(w)
      BY <1>a, <2>1, <3>2 DEF DialSpeculative
    <3>5. ~Claim(w)
      BY <1>a, <2>1, <3>2 DEF Claim
    <3> QED
      BY <3>3, <3>4, <3>5
  <2>3. ~Assign(w) /\ ~ReturnAgent(w) /\ ~Place(w)
    BY <1>0, <1>a, <2>1 DEF Assign, ReturnAgent, Place, DialLoops
  <2>4. ~PredictiveTick(w)
    <3>1. DialStart.at # "assign" /\ \A n : [DialStart EXCEPT !.at = "speculate", !.extra = n].at # "assign"
      BY DEF DialStart
    <3> QED
      BY <1>a, <3>1 DEF PredictiveTick
  <2>5. CASE Create(w)
    <3>1. dial'[w] = [d EXCEPT !.at = IF d.agent # None THEN "assign" ELSE "place"] /\ d.at = "create"
      BY <2>5, <1>a DEF Create, DialAt
    <3> QED
      BY <1>0, <3>1 DEF DialLoops
  <2> QED
    BY <1>2, <2>2, <2>3, <2>4, <2>5 DEF Dial
<1> QED
  BY <1>1, <1>2 DEF DialLoop

\* A handler comes to bridge a call's own agent only from the event ANSWERED.
LEMMA BridgesAnswered ==
  ASSUME DialerInv, [Next]_vars, NEW w \in Workers, cpu'[w].at = "bridge"
  PROVE  \/ cpu'[w] = cpu[w]
         \/ \E c \in Contacts :
              EventTask(w, c) /\ cpu'[w].call = c /\ cpu'[w].agent = calls[c].agent_id /\ UNCHANGED calls
<1> DEFINE Same == cpu'[w] = cpu[w]
           Answers == \E c \in Contacts :
              EventTask(w, c) /\ cpu'[w].call = c /\ cpu'[w].agent = calls[c].agent_id /\ UNCHANGED calls
<1>0. cpu \in [Workers -> GoodFrames] /\ cpu[w] \in Frames
  BY DEF DialerInv, GoodFrames
<1>a. ASSUME NEW v \in Workers, NEW f, Run(v, f), v = w => f.at # "bridge" PROVE Same
  BY <1>0, <1>a DEF Run
<1>b. Idle.at # "bridge" /\ DialTask.at # "bridge" /\ \A todo : Reaper(todo).at # "bridge"
  BY DEF Idle, DialTask, Reaper
<1>1. ASSUME NEW v \in Workers, DialLoop(v) PROVE Same
  <2>1. PICK d : Continue(v, d) \/ Suspend(v, d)
    BY <1>1 DEF DialLoop, ServeBridges, Dial, ServeNext, BridgeReserve, BridgeBreak, BridgeConnect,
                BridgeAttach, ScanReserve, DialForAgent, DialSpeculative, Claim, ReturnAgent, Create, Assign,
                Place, PredictiveTick, BeginScan
  <2> QED
    BY <2>1, LoopMove
<1>2. ASSUME NEW v \in Workers, Proceed(v) PROVE Same
  <2>0. cpu[v] \in Frames
    BY <1>0 DEF GoodFrames
  <2>1. ASSUME Return(v) PROVE Same
    BY <1>a, <1>b, <2>1 DEF Return
  <2>2. ASSUME NEW at, Run(v, [cpu[v] EXCEPT !.at = at]), at # "bridge" PROVE Same
    BY <1>0, <2>0, <2>2 DEF Run, Frames
  <2>3. ASSUME NEW at, NEW a, Run(v, [cpu[v] EXCEPT !.at = at, !.agent = a]), at # "bridge" PROVE Same
    BY <1>0, <2>0, <2>3 DEF Run, Frames
  <2>4. ASSUME NEW d, NEW a, NEW todo,
               Run(v, [cpu[v] EXCEPT !.at = "terminal", !.call = d, !.agent = a, !.todo = todo])
        PROVE  Same
    BY <1>0, <2>0, <2>4 DEF Run, Frames
  <2>5. CASE BridgeOwnAgent(v) \/ MarkAnswered(v) \/ MarkUnanswered(v) \/ OnCallTerminal(v)
    BY <2>1, <2>2, <2>3, <2>5 DEF BridgeOwnAgent, MarkAnswered, MarkUnanswered, OnCallTerminal
  <2>6. CASE Apply(v) \/ MarkAbandoned(v) \/ MarkConnected(v) \/ ReleaseBridged(v) \/ FreeCallAgent(v)
    BY <2>1, <2>3, <2>6 DEF Apply, MarkAbandoned, MarkConnected, ReleaseBridged, FreeCallAgent
  <2>7. CASE ReapCallAgent(v)
    BY <2>4, <2>7 DEF ReapCallAgent
  <2>8. CASE ReapAgents(v)
    BY <1>a, <1>b, <2>8 DEF ReapAgents
  <2> QED
    BY <1>2, <2>5, <2>6, <2>7, <2>8 DEF Proceed
<1>3. ASSUME NEW v \in Workers, WrapUpTask(v) \/ ReaperPass(v) PROVE Same
  BY <1>a, <1>b, <1>3 DEF WrapUpTask, WrapUp, WrapUpRelease, ReaperPass, ReapCalls
<1>4. ASSUME NEW v \in Workers, NEW c \in Contacts, BridgeWait(v, c) PROVE Same
  <2>1. \A a, target : /\ Handler("answered", c, a, target).at = "answered"
                       /\ Handler("unanswered", c, a, target).at = "unanswered"
    BY DEF Handler, Idle
  <2> QED
    BY <1>a, <1>4, <2>1 DEF BridgeWait, BridgeFound, BridgeTimeout
<1>5. ASSUME NEW v \in Workers, NEW c \in Contacts, EventTask(v, c) PROVE Same \/ Answers
  <2>1. \A target : Handler("apply", c, None, target).at = "apply"
    BY DEF Handler, Idle
  <2>2. CASE HandleEvent(v, c)
    BY <1>a, <2>1, <2>2 DEF HandleEvent
  <2>3. CASE HandleAnswered(v, c) /\ v = w /\ ~Same
    <3>1. Run(w, Handler("bridge", c, calls[c].agent_id, "ANSWERED"))
      BY <2>3 DEF HandleAnswered
    <3>2. cpu'[w].call = c /\ cpu'[w].agent = calls[c].agent_id
      BY <1>0, <3>1 DEF Run, Handler, Idle
    <3>3. UNCHANGED calls
      BY <1>5 DEF EventTask
    <3> QED
      BY <1>5, <2>3, <3>2, <3>3
  <2>4. CASE HandleAnswered(v, c) /\ v # w
    BY <1>0, <2>4 DEF HandleAnswered, Run
  <2> QED
    BY <1>5, <2>2, <2>3, <2>4 DEF EventTask, HandleDuplicate, HandleStale
<1>6. ASSUME NEW v \in Workers, Trouble(v) PROVE Same
  <2>1. CASE Vanish(v)
    BY <1>0, <1>b, <2>1 DEF Vanish
  <2>2. CASE DialLoopEnds(v)
    BY <1>0, <1>b, <2>2 DEF DialLoopEnds, Suspend
  <2>3. CASE ReaperEnds(v)
    BY <1>a, <1>b, <2>3 DEF ReaperEnds
  <2> QED
    BY <1>6, <2>1, <2>2, <2>3 DEF Trouble, Crash, Exit, Shutdown, Restart, StoreError, LoseEvent
<1>7. CASE Time \/ UNCHANGED vars \/ \E c \in Contacts : Provider(c)
  BY <1>7 DEF Time, vars, dialer_vars, Provider
<1> QED
  BY <1>1, <1>2, <1>3, <1>4, <1>5, <1>6, <1>7 DEF Next, Worker

\* A call begins to wait when it is answered without an agent.
LEMMA NewlyWaiting ==
  ASSUME [Next]_vars, NEW c \in Contacts, c \in pending_bridges', c \notin pending_bridges
  PROVE  calls[c].agent_id = None
<1>1. ASSUME NEW w \in Workers, NEW d \in Contacts, EventTask(w, d) PROVE calls[c].agent_id = None
  BY <1>1 DEF EventTask, HandleDuplicate, HandleStale, HandleEvent, HandleAnswered
<1>2. ASSUME NEW w \in Workers, Worker(w), \A d \in Contacts : ~EventTask(w, d) PROVE FALSE
  BY <1>2, LoopPending DEF Worker, Proceed, WrapUpTask, ReaperPass, bridge_vars, BridgeWait, BridgeFound,
     BridgeTimeout
<1>3. ASSUME NEW w \in Workers, Trouble(w) PROVE FALSE
  BY <1>3 DEF Trouble, Crash, Exit, Vanish, Shutdown, Restart, StoreError, LoseEvent, bridge_vars
<1>4. ~Time /\ ~UNCHANGED vars /\ \A d \in Contacts : ~Provider(d)
  BY DEF Time, vars, dialer_vars, Provider, bridge_vars
<1> QED
  BY <1>1, <1>2, <1>3, <1>4 DEF Next

\* A call that waits for an agent has none.
LEMMA WaitsForAgent ==
  ASSUME DialerInv, CallInv, LinkInv, [Next]_vars, NEW c \in Contacts, c \in pending_bridges'
  PROVE  calls'[c].agent_id = None
<1>1. calls[c].agent_id = None
  <2>1. ASSUME c \notin pending_bridges PROVE calls[c].agent_id = None
    BY <2>1, NewlyWaiting
  <2> QED
    BY <2>1 DEF LinkInv
<1>2. CASE SetsAgent(c)
  <2> PICK w \in Workers : /\ DialLoop(w) /\ c = dial[w].call
                           /\ Create(w) \/ BridgeAttach(w)
                           /\ Create(w) => calls[c] = NoCall
                           /\ BridgeAttach(w) => dial[w].at = "attach"
    BY <1>2 DEF SetsAgent
  <2>1. CASE BridgeAttach(w)
    BY <2>1 DEF BridgeAttach
  <2>2. CASE Create(w)
    <3>1. calls[c].state = "QUEUED" /\ c \in pending_bridges
      BY <2>2, LoopPending DEF NoCall
    <3> QED
      BY <3>1, Unplaced DEF Waiting
  <2> QED
    BY <2>1, <2>2
<1> QED
  BY <1>1, <1>2, AgentIdStep

\* What loops and handlers know of calls stays true: an agent_id is written once.
LEMMA LinkStep ==
  ASSUME DialerInv, CallInv, LinkInv, [Next]_vars
  PROVE  LinkInv'
<1>0. None \notin Agents
  BY StoreAssumption
<1>1. ASSUME NEW w \in Workers, dial'[w].at = "assign"
      PROVE  calls'[dial'[w].call].agent_id = dial'[w].agent
  <2>1. CASE dial'[w] = dial[w]
    <3>1. /\ dial[w].call \in Contacts /\ dial[w].agent \in Agents
          /\ calls[dial[w].call].agent_id = dial[w].agent
      BY <1>1, <2>1 DEF DialerInv, GoodLoops, LinkInv
    <3> QED
      BY <1>0, <2>1, <3>1, AgentIdStays
  <2>2. CASE DialLoop(w)
    <3>1. dial[w].at = "create" /\ dial'[w].call = dial[w].call /\ dial'[w].agent = dial[w].agent
      BY <1>1, <2>2, AssignsCreated
    <3>2. CreateCall(dial[w].call, dial[w].agent, w) /\ dial[w].call \in Contacts
      BY <2>2, <3>1, LoopLine DEF Create, DialerInv, GoodLoops
    <3>3. StoreTypeOK
      BY DEF DialerInv
    <3>4. calls'[dial[w].call].agent_id = dial[w].agent
      BY <3>2, <3>3, CreatedCall, ZenonT(60)
    <3> QED
      BY <3>1, <3>4
  <2>3. CASE Vanish(w) \/ dial'[w] = DialStart
    BY <1>1, <2>3 DEF Vanish, DialStart, DialerInv
  <2> QED
    BY <2>1, <2>2, <2>3, LoopPosition
<1>2. ASSUME NEW w \in Workers, cpu'[w].at = "bridge"
      PROVE  calls'[cpu'[w].call].agent_id = cpu'[w].agent
  <2>1. CASE cpu'[w] = cpu[w]
    <3>1. /\ cpu[w].call \in Contacts /\ cpu[w].agent \in Agents
          /\ calls[cpu[w].call].agent_id = cpu[w].agent
      BY <1>2, <2>1 DEF DialerInv, GoodFrames, LinkInv
    <3> QED
      BY <1>0, <2>1, <3>1, AgentIdStays
  <2> QED
    BY <1>2, <2>1, BridgesAnswered
<1>3. ASSUME NEW c \in pending_bridges' PROVE calls'[c].agent_id = None
  <2>1. c \in Contacts
    BY <1>3, StepKeepsInv DEF DialerInv, DialerTypeOK
  <2> QED
    BY <1>3, <2>1, WaitsForAgent
<1> QED
  BY <1>1, <1>2, <1>3 DEF LinkInv

-----------------------------------------------------------------------------
(* The agent of a call, and the call of an agent *)

\* A booking is kept until the agent is off the call.
LEMMA BookedStays ==
  ASSUME DialerInv, CallInv, ReportInv, LinkInv, [Next]_vars, NEW a \in Agents, NEW c \in Contacts,
         Booked(a, c),
         agents[a].reserved_by \in Workers => agents'[a].reserved_by = agents[a].reserved_by
  PROVE  Booked(a, c)'
<1>0. None \notin Agents
  BY StoreAssumption
<1>1. CASE calls[c].agent_id = a
  BY <1>0, <1>1, AgentIdStays DEF Booked
<1>2. CASE calls[c].agent_id # a
  <2> PICK w \in Workers :
        /\ w = agents[a].reserved_by /\ agents'[a].reserved_by = w
        /\ calls[c].agent_id = None /\ calls[c].state \notin {"QUEUED", "RESERVED"}
        /\ calls[c].reserved_by = w /\ Unattached(a, c, w)
    BY <1>2 DEF Booked
  <2>1. calls'[c].state \notin {"QUEUED", "RESERVED"} /\ calls'[c].reserved_by = w
    <3>1. CALL_STATE_RANK[calls'[c].state] >= CALL_STATE_RANK[calls[c].state]
      BY StepKeepsInv, StepKeepsCallInv DEF Forward
    <3>2. calls[c].state \in CallState /\ calls'[c].state \in CallState
      BY StepKeepsInv DEF DialerInv, StoreTypeOK, CallRow
    <3> QED
      BY <3>1, <3>2, OwnerStays DEF CALL_STATE_RANK, CallState
  <2>2. CASE SetsAgent(c)
    <3> PICK v \in Workers : /\ DialLoop(v) /\ c = dial[v].call
                             /\ Create(v) \/ BridgeAttach(v)
                             /\ Create(v) => calls[c] = NoCall
                             /\ BridgeAttach(v) => dial[v].at = "attach"
                             /\ calls'[c].agent_id = dial[v].agent
      BY <2>2 DEF SetsAgent
    <3>1. dial[v].at = "attach"
      BY DEF NoCall
    <3>2. v = w /\ c \in pending_bridges
      BY <3>1, AttachedWaits DEF Bridging
    <3>3. dial[w].agent = a
      BY <3>1, <3>2, LoopLine DEF Unattached
    <3> QED
      BY <3>2, <3>3 DEF Booked
  <2>3. CASE ~SetsAgent(c)
    <3>1. calls'[c].agent_id = None
      BY <2>3, AgentIdStep
    <3>2. ~(DialLoop(w) /\ dial[w].at = "attach" /\ dial[w].call = c)
      <4> SUFFICES ASSUME DialLoop(w), dial[w].at = "attach", dial[w].call = c PROVE FALSE
        OBVIOUS
      <4>1. AttachAgentToCall(c, dial[w].agent) /\ dial[w].agent \in Agents /\ StoreTypeOK
        BY LoopLine DEF BridgeAttach, DialerInv, GoodLoops
      <4> QED
        BY <1>0, <3>1, <4>1, AttachedCall
    <3>3. Unattached(a, c, w)'
      BY <3>2, UnattachedStays
    <3> QED
      BY <2>1, <3>1, <3>3 DEF Booked
  <2> QED
    BY <2>2, <2>3
<1> QED
  BY <1>1, <1>2

\* The call an agent is put on has no other.
LEMMA NewlyBooked ==
  ASSUME DialerInv, CallInv, LinkInv, BookInv, NEW a \in Agents, NEW w \in Workers, NEW c \in Contacts,
         GoesOnCall(w, a, c)
  PROVE  /\ Booked(a, c)'
         /\ \A b \in Agents \ {a} : agents[b].state \in InCall => agents[b].current_call_id # c
<1>0. None \notin Agents
  BY StoreAssumption
<1>1. CASE DialLoop(w) /\ dial[w].at = "connect" /\ a = dial[w].agent /\ c = dial[w].call
           /\ dial'[w] = [dial[w] EXCEPT !.at = "attach"]
  <2>1. /\ c \in pending_bridges /\ calls[c].reserved_by = w /\ calls[c].state \notin {"QUEUED", "RESERVED"}
        /\ calls[c].agent_id = None
    BY <1>1, AttachedWaits DEF Bridging, LinkInv
  <2>2. dial'[w].at = "attach" /\ dial'[w].agent = a /\ dial'[w].call = c
    <3>1. dial[w] \in DialLoops
      BY DEF DialerInv, GoodLoops
    <3> QED
      BY <1>1, <3>1 DEF DialLoops
  <2>3. Booked(a, c)'
    BY <2>1, <2>2 DEF GoesOnCall, Booked, Unattached
  <2>4. ASSUME NEW b \in Agents, Booked(b, c) PROVE FALSE
    BY <1>0, <1>1, <2>1, <2>4, LoopLine DEF Booked, Unattached
  <2> QED
    BY <2>3, <2>4 DEF BookInv
<1>2. CASE calls[c].agent_id = a
  <2>1. Booked(a, c)'
    BY <1>2 DEF GoesOnCall, Booked
  <2>2. ASSUME NEW b \in Agents \ {a}, Booked(b, c) PROVE FALSE
    BY <1>0, <1>2, <2>2 DEF Booked
  <2> QED
    BY <2>1, <2>2 DEF BookInv
<1> QED
  BY <1>1, <1>2 DEF GoesOnCall, LinkInv

\* Every step keeps the books.
LEMMA BookStep ==
  ASSUME DialerInv, CallInv, ReportInv, LinkInv, BookInv, [Next]_vars
  PROVE  LinkInv' /\ BookInv'
<1>1. ASSUME NEW a \in Agents, KeepsCall(a), agents'[a].state \in InCall
      PROVE  \E c \in Contacts : agents'[a].current_call_id = c /\ Booked(a, c)'
  <2> PICK c \in Contacts : c = agents[a].current_call_id /\ c = agents'[a].current_call_id
    BY <1>1 DEF KeepsCall, BookInv
  <2>1. Booked(a, c) /\ (agents[a].reserved_by \in Workers => agents'[a].reserved_by = agents[a].reserved_by)
    BY <1>1 DEF KeepsCall, BookInv
  <2>2. Booked(a, c)'
    BY <2>1, BookedStays
  <2> QED
    BY <2>2
<1>2. ASSUME NEW a \in Agents, NEW w \in Workers, NEW c \in Contacts, GoesOnCall(w, a, c)
      PROVE  agents'[a].current_call_id = c /\ Booked(a, c)'
  BY <1>2, NewlyBooked DEF GoesOnCall
<1>3. ASSUME NEW a \in Agents, NEW b \in Agents \ {a},
             agents'[a].state \in InCall, agents'[b].state \in InCall
      PROVE  agents'[a].current_call_id # agents'[b].current_call_id
  <2>1. CASE KeepsCall(a) /\ KeepsCall(b)
    BY <1>3, <2>1 DEF KeepsCall, BookInv
  <2>2. ASSUME NEW w \in Workers, NEW c \in Contacts, GoesOnCall(w, a, c)
        PROVE  agents'[a].current_call_id # agents'[b].current_call_id
    BY <1>3, <2>2, NewlyBooked DEF GoesOnCall
  <2>3. ASSUME NEW w \in Workers, NEW c \in Contacts, GoesOnCall(w, b, c)
        PROVE  agents'[a].current_call_id # agents'[b].current_call_id
    BY <1>3, <2>3, NewlyBooked DEF GoesOnCall
  <2> QED
    BY <2>1, <2>2, <2>3, CallOfAgent
<1>4. ASSUME NEW a \in Agents, agents'[a].state \notin InCall
      PROVE  agents'[a].current_call_id = None
  BY <1>4, CallOfAgent DEF GoesOnCall, KeepsCall, BookInv
<1>5. ASSUME NEW a \in Agents, agents'[a].state \in InCall
      PROVE  \E c \in Contacts : agents'[a].current_call_id = c /\ Booked(a, c)'
  BY <1>1, <1>2, <1>5, CallOfAgent
<1>6. BookInv'
  BY <1>3, <1>4, <1>5 DEF BookInv
<1> QED
  BY <1>6, LinkStep

\* What a dial loop, a task or a request at a provider knows of a call agrees with
\* its row (LinkInv), and the books of agents and calls agree with one another
\* (BookInv), in every state, whatever fails: a row gets its agent once, from
\* create_call or from attach_agent_to_call, and an agent its call once, from the
\* assignment of _dial_contact or from the bridge of _serve_pending_bridges.
THEOREM BookInvariant == Spec => [](LinkInv /\ BookInv)
<1>1. Init => LinkInv /\ BookInv
  BY DEF Init, StoreInit, FreeAgent, Idle, DialStart, LinkInv, BookInv, InCall
<1>2. /\ DialerInv /\ CallInv /\ ReportInv /\ [Next]_vars
      /\ LinkInv /\ BookInv
      => LinkInv' /\ BookInv'
  BY BookStep
<1>3. DialerInv /\ CallInv /\ ReportInv /\ [Next]_vars => DialerInv' /\ CallInv' /\ ReportInv'
  BY StepKeepsInv, StepKeepsCallInv, StepReports
<1>4. Init => DialerInv /\ CallInv /\ ReportInv
  BY InitInv, InitCallInv
<1> QED
  BY <1>1, <1>2, <1>3, <1>4, PTL DEF Spec

\* No agent is on two calls' books, and no call on two agents': a busy agent's call
\* points back at the agent, but for the moment between transition_agent and
\* attach_agent_to_call of _serve_pending_bridges, or for good when the worker
\* stopped there.  A worker that comes back is the one exception: it does not know
\* of the bridge it had begun.
THEOREM NeverDoubleBooked ==
  ASSUME "restart" \notin Faults
  PROVE  Spec => []NoAgentDoubleBooked
<1>1. LinkInv /\ BookInv => NoAgentDoubleBooked
  BY StoreAssumption DEF BookInv, NoAgentDoubleBooked, InCall, Booked, Unattached
<1> QED
  BY <1>1, BookInvariant, PTL

=============================================================================
