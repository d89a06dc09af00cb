---------------------------- MODULE DialerProofs ----------------------------
(***************************************************************************)
(* What any number of workers over one store, crashes and restarts among   *)
(* them, keep to whatever the lease lengths, and what becomes of one call  *)
(* between handlers, bridges and reapers: proofs checked by TLAPS.         *)
(***************************************************************************)
EXTENDS Dialer, StoreProofs

-----------------------------------------------------------------------------
(* What the position of a task says of its locals. *)

GoodFrames ==
  {f \in Frames :
     /\ f.at \notin {"none", "reap"} => f.call \in Contacts
     /\ f.at \in {"bridge", "answered", "connected", "release", "free"} => f.agent \in Agents
     /\ f.at = "apply" => f.target \in EventType}

GoodLoops ==
  {d \in DialLoops :
     /\ d.at \in {"bridge", "connect", "attach", "claim", "create", "assign", "place"} =>
          d.call \in Contacts
     /\ d.at \in {"connect", "attach", "return", "assign"} => d.agent \in Agents
     /\ d.at \in {"speculate", "claim", "create", "place"} /\ d.agent = None => d.extra > 0}

DialerInv ==
  /\ StoreTypeOK
  /\ DialerTypeOK
  /\ cpu \in [Workers -> GoodFrames]
  /\ dial \in [Workers -> GoodLoops]

LEMMA FirstFrames ==
  /\ Idle \in GoodFrames /\ DialTask \in GoodFrames /\ DialStart \in GoodLoops
  /\ \A todo \in SUBSET Contacts : Reaper(todo) \in GoodFrames
BY DEF Idle, DialTask, Reaper, DialStart, GoodFrames, Frames, GoodLoops, DialLoops, CallState

LEMMA HandlerFrame ==
  ASSUME NEW at \in {"apply", "bridge", "answered", "unanswered"}, NEW c \in Contacts,
         NEW a \in Agents \cup {None}, NEW target \in EventType,
         at \in {"bridge", "answered"} => a \in Agents
  PROVE  Handler(at, c, a, target) \in GoodFrames
BY DEF Handler, Idle, GoodFrames, Frames, CallState, EventType

\* The loop over the agents, or over the speculative lines, goes on.
LEMMA NextUnitGood ==
  ASSUME NEW d \in GoodLoops, d.agent = None => d.extra > 0
  PROVE  NextUnit(d) \in GoodLoops
<1>0. d \in DialLoops
  BY DEF GoodLoops
<1>1. CASE d.agent # None
  <2>1. NextLine({}, d.held) \in {"dial", "pace", "top"}
    BY DEF NextLine
  <2> QED
    BY <1>0, <1>1, <2>1 DEF NextUnit, GoodLoops, DialLoops
<1>2. CASE d.agent = None
  <2> DEFINE line == IF d.extra > 1 THEN "speculate" ELSE "top"
             n == d.extra - 1
  <2>1. n \in Nat /\ (line = "speculate" => n > 0) /\ line \in {"speculate", "top"}
    BY <1>0, <1>2 DEF DialLoops
  <2>2. NextUnit(d) = [d EXCEPT !.at = line, !.call = None, !.extra = n]
    BY <1>2 DEF NextUnit
  <2> HIDE DEF line, n
  <2> QED
    BY <1>0, <2>1, <2>2 DEF GoodLoops, DialLoops
<1> QED
  BY <1>1, <1>2

\* What a step leaves in the cpu and in the dial loop's locals has its type.
LEMMA LoopMoves ==
  ASSUME DialerInv, NEW w \in Workers, NEW d \in GoodLoops,
         Continue(w, d) \/ Suspend(w, d)
  PROVE  cpu' \in [Workers -> GoodFrames] /\ dial' \in [Workers -> GoodLoops]
BY FirstFrames DEF Continue, Suspend, DialerInv

LEMMA FrameMoves ==
  ASSUME DialerInv, NEW w \in Workers, NEW f \in GoodFrames, Run(w, f)
  PROVE  cpu' \in [Workers -> GoodFrames]
BY DEF Run, DialerInv

LEMMA ReturnMoves ==
  ASSUME DialerInv, NEW w \in Workers, Return(w)
  PROVE  cpu' \in [Workers -> GoodFrames] /\ call_locks' \subseteq Contacts
<1>1. cpu[w].todo \in SUBSET Contacts /\ call_locks \subseteq Contacts
  BY DEF DialerInv, DialerTypeOK, Frames
<1> QED
  BY <1>1, FirstFrames, FrameMoves DEF Return

-----------------------------------------------------------------------------
(* Every write of a worker is a method of the store. *)

AgentsWritten == AgentMethod \/ UNCHANGED agents

CallsWritten == CallMethod \/ UNCHANGED calls

LEMMA Reserves ==
  ASSUME NEW a \in Agents, NEW w \in Workers, NEW lease \in Leases, ReserveAgent(a, w, lease)
  PROVE  AgentsWritten
BY DEF AgentsWritten, AgentMethod

LEMMA Transitions ==
  ASSUME NEW a \in Agents, NEW w \in Workers, NEW target \in AgentState,
         NEW expected \in SUBSET AgentState, NEW c \in Contacts \cup {None},
         NEW lease \in {NoLease} \cup Leases,
         TryTransitionAgent(a, w, target, expected, c, lease)
  PROVE  AgentsWritten
<1>1. ASSUME TransitionAgent(a, w, target, expected, c, lease)
      PROVE  TransitionAgent(a, w, target, AgentState, c, lease)
  BY <1>1 DEF TransitionAgent, CanTransition
<1> QED
  BY <1>1 DEF AgentsWritten, AgentMethod, TryTransitionAgent

LEMMA Releases ==
  ASSUME NEW a \in Agents, NEW w \in Workers, NEW c \in Contacts, TryForceRelease(a, c)
  PROVE  AgentsWritten
BY DEF AgentsWritten, AgentMethod, TryForceRelease

LEMMA AppliesTransition ==
  ASSUME NEW c \in Contacts, NEW target \in EventType, NEW reason \in FailureReason \cup {None},
         ApplyCallTransition(c, target, reason, CallLease)
  PROVE  CallsWritten
<1>1. target \in CallState \ {"QUEUED"} /\ CallLease \in Leases
  BY DialerAssumption DEF EventType, CallState
<1> QED
  BY <1>1 DEF CallsWritten, CallMethod

LEMMA WritesAreMethods ==
  ASSUME \/ AgentsWritten /\ UNCHANGED <<contacts, calls, seen_events>>
         \/ CallsWritten /\ UNCHANGED <<agents, contacts, seen_events>>
  PROVE  [StoreNext]_store_vars
BY DEF AgentsWritten, CallsWritten, StoreNext, store_vars

-----------------------------------------------------------------------------
(* The dial loop *)

LEMMA NextLines ==
  ASSUME NEW listed, NEW held
  PROVE  NextLine(listed, held) \in {"scan", "dial", "pace", "top"}
BY DEF NextLine

LEMMA ScanLoop ==
  ASSUME NEW d \in GoodLoops, NEW listed \in SUBSET Agents, NEW held \in SUBSET Agents
  PROVE  [d EXCEPT !.listed = listed, !.held = held, !.at = NextLine(listed, held)] \in GoodLoops
BY NextLines DEF GoodLoops, DialLoops

LEMMA BeginScanMoves ==
  ASSUME DialerInv, NEW w \in Workers, BeginScan(w)
  PROVE  cpu' \in [Workers -> GoodFrames] /\ dial' \in [Workers -> GoodLoops]
<1> DEFINE d == [DialStart EXCEPT !.at = NextLine(AvailableAgents, {}), !.listed = AvailableAgents]
<1>1. d \in GoodLoops
  BY NextLines DEF DialStart, GoodLoops, DialLoops, AvailableAgents
<1> HIDE DEF d
<1>2. Continue(w, d) \/ Suspend(w, d)
  BY DEF BeginScan, d
<1> QED
  BY <1>1, <1>2, LoopMoves

\* Serving the waiting calls and reserving the free agents.
LEMMA ServeKeepsInv ==
  ASSUME DialerInv, NEW w \in Workers, ServeBridges(w)
  PROVE  /\ cpu' \in [Workers -> GoodFrames] /\ dial' \in [Workers -> GoodLoops]
         /\ pending_bridges' \subseteq Contacts
         /\ bridge_results' \in [Contacts -> Agents \cup {None}]
         /\ \/ AgentsWritten /\ UNCHANGED <<contacts, calls>>
            \/ CallsWritten /\ UNCHANGED <<agents, contacts>>
<1> DEFINE d == dial[w]
<1>0. /\ d \in GoodLoops /\ d \in DialLoops
      /\ pending_bridges \subseteq Contacts /\ AvailableAgents \subseteq Agents
      /\ bridge_results \in [Contacts -> Agents \cup {None}]
      /\ CallLease \in Leases /\ AgentLease \in Leases
  BY DialerAssumption DEF DialerInv, DialerTypeOK, GoodLoops, AvailableAgents
<1>a. UNCHANGED contacts
  BY DEF ServeBridges
<1>b. UNCHANGED bridge_vars =>
        pending_bridges' \subseteq Contacts /\ bridge_results' \in [Contacts -> Agents \cup {None}]
  BY <1>0 DEF bridge_vars
<1>1. CASE ServeNext(w)
  <2> DEFINE waiting == pending_bridges \cap (IF dial[w].at = "top" THEN Own(w) ELSE dial[w].bridges)
  <2>1. ASSUME BeginScan(w)
        PROVE  cpu' \in [Workers -> GoodFrames] /\ dial' \in [Workers -> GoodLoops]
    BY <2>1, BeginScanMoves
  <2>2. ASSUME NEW c \in waiting,
               Continue(w, [DialStart EXCEPT !.at = "bridge", !.bridges = waiting \ {c},
                                             !.listed = AvailableAgents, !.call = c])
        PROVE  cpu' \in [Workers -> GoodFrames] /\ dial' \in [Workers -> GoodLoops]
    <3>1. [DialStart EXCEPT !.at = "bridge", !.bridges = waiting \ {c},
                            !.listed = AvailableAgents, !.call = c] \in GoodLoops
      <4>1. waiting \ {c} \subseteq Contacts /\ c \in Contacts
        BY <1>0, <2>2
      <4> HIDE DEF waiting
      <4> QED
        BY <1>0, <4>1 DEF DialStart, GoodLoops, DialLoops
    <3> QED
      BY <2>2, <3>1, LoopMoves
  <2>3. cpu' \in [Workers -> GoodFrames] /\ dial' \in [Workers -> GoodLoops]
    BY <1>1, <2>1, <2>2 DEF ServeNext
  <2> QED
    BY <1>1, <1>a, <1>b, <2>3 DEF ServeNext, AgentsWritten
<1>2. CASE BridgeReserve(w)
  <2> PICK a \in d.listed :
        \/ /\ ReserveAgent(a, w, CallLease)
           /\ Continue(w, [d EXCEPT !.listed = @ \ {a}, !.at = "connect", !.agent = a])
        \/ /\ UNCHANGED agents
           /\ Continue(w, [d EXCEPT !.listed = @ \ {a}])
    BY <1>0, <1>2 DEF BridgeReserve, DialLoops
  <2>1. d.at = "bridge" /\ d.call \in Contacts /\ a \in Agents
    BY <1>0, <1>2 DEF BridgeReserve, DialAt, GoodLoops, DialLoops
  <2>2. /\ [d EXCEPT !.listed = @ \ {a}, !.at = "connect", !.agent = a] \in GoodLoops
        /\ [d EXCEPT !.listed = @ \ {a}] \in GoodLoops
    BY <1>0, <2>1 DEF GoodLoops, DialLoops
  <2>3. cpu' \in [Workers -> GoodFrames] /\ dial' \in [Workers -> GoodLoops]
    BY <2>2, LoopMoves
  <2>4. AgentsWritten
    BY <1>0, <2>1, Reserves DEF AgentsWritten
  <2> QED
    BY <1>2, <1>a, <1>b, <2>3, <2>4 DEF BridgeReserve
<1>3. CASE BridgeBreak(w)
  BY <1>3, <1>a, <1>b, BeginScanMoves DEF BridgeBreak, AgentsWritten
<1>4. CASE BridgeConnect(w)
  <2>1. d.at = "connect" /\ d.call \in Contacts /\ d.agent \in Agents
    BY <1>0, <1>4 DEF BridgeConnect, DialAt, GoodLoops
  <2>2. /\ [d EXCEPT !.at = "attach"] \in GoodLoops
        /\ [d EXCEPT !.at = "bridge", !.agent = None] \in GoodLoops
    BY <1>0, <2>1 DEF GoodLoops, DialLoops
  <2>3. cpu' \in [Workers -> GoodFrames] /\ dial' \in [Workers -> GoodLoops]
    BY <1>4, <2>2, LoopMoves DEF BridgeConnect
  <2>4. TryTransitionAgent(d.agent, w, "CONNECTED", {"RESERVED"}, d.call, CallLease)
    BY <1>4 DEF BridgeConnect, TryTransitionAgent
  <2>5. AgentsWritten
    BY <1>0, <2>1, <2>4, Transitions DEF AgentState
  <2> QED
    BY <1>4, <1>a, <1>b, <2>3, <2>5 DEF BridgeConnect
<1>5. CASE BridgeAttach(w)
  <2>1. d.at = "attach" /\ d.call \in Contacts /\ d.agent \in Agents
    BY <1>0, <1>5 DEF BridgeAttach, DialAt, GoodLoops
  <2>2. [DialStart EXCEPT !.at = "serve", !.bridges = d.bridges] \in GoodLoops
    BY <1>0 DEF DialStart, GoodLoops, DialLoops
  <2>3. cpu' \in [Workers -> GoodFrames] /\ dial' \in [Workers -> GoodLoops]
    BY <1>5, <2>2, LoopMoves DEF BridgeAttach
  <2>4. CallsWritten
    BY <1>5, <2>1 DEF BridgeAttach, CallsWritten, CallMethod
  <2> QED
    BY <1>0, <1>5, <1>a, <2>1, <2>3, <2>4 DEF BridgeAttach
<1>6. CASE ScanReserve(w)
  <2> DEFINE With(rest, held) ==
               [d EXCEPT !.listed = rest, !.held = held, !.at = NextLine(rest, held)]
  <2> PICK a \in d.listed :
        \/ /\ ReserveAgent(a, w, AgentLease)
           /\ Suspend(w, With(d.listed \ {a}, d.held \cup {a}))
        \/ /\ UNCHANGED agents
           /\ Suspend(w, With(d.listed \ {a}, d.held))
    BY <1>6 DEF ScanReserve
  <2>1. a \in Agents /\ d.listed \ {a} \in SUBSET Agents /\ d.held \in SUBSET Agents
    BY <1>0 DEF DialLoops
  <2>2. /\ With(d.listed \ {a}, d.held \cup {a}) \in GoodLoops
        /\ With(d.listed \ {a}, d.held) \in GoodLoops
    BY <1>0, <2>1, ScanLoop
  <2> HIDE DEF With
  <2>3. cpu' \in [Workers -> GoodFrames] /\ dial' \in [Workers -> GoodLoops]
    BY <2>2, LoopMoves
  <2>4. AgentsWritten
    BY <1>0, <2>1, Reserves DEF AgentsWritten
  <2> QED
    BY <1>6, <1>a, <1>b, <2>3, <2>4 DEF ScanReserve
<1> QED
  BY <1>1, <1>2, <1>3, <1>4, <1>5, <1>6 DEF ServeBridges

ProviderStage == {"none", "placed", "rung", "answered", "done"}

\* Dialing for the agents held, and the speculative lines.
LEMMA DialKeepsInv ==
  ASSUME DialerInv, NEW w \in Workers, Dial(w)
  PROVE  /\ cpu' \in [Workers -> GoodFrames] /\ dial' \in [Workers -> GoodLoops]
         /\ provider' \in [Contacts -> ProviderStage] /\ UNCHANGED inbox
         /\ \/ AgentsWritten /\ UNCHANGED <<contacts, calls>>
            \/ CallsWritten /\ UNCHANGED <<agents, contacts>>
            \/ (\E c \in Contacts : ClaimContact(c, w)) /\ UNCHANGED <<agents, calls>>
<1> DEFINE d == dial[w]
           LoopGood == cpu' \in [Workers -> GoodFrames] /\ dial' \in [Workers -> GoodLoops]
<1>0. /\ d \in GoodLoops /\ d \in DialLoops
      /\ UnclaimedContacts \subseteq Contacts
      /\ CallLease \in Leases
      /\ {"RESERVED", "AVAILABLE", "DIALING"} \subseteq AgentState
  BY DialerAssumption DEF DialerInv, GoodLoops, UnclaimedContacts, AgentState
<1>a. UNCHANGED net_vars => provider' \in [Contacts -> ProviderStage] /\ UNCHANGED inbox
  BY DEF net_vars, DialerInv, DialerTypeOK, ProviderStage
<1>b. (d.agent = None => d.extra > 0) => NextUnit(d) \in GoodLoops
  BY <1>0, NextUnitGood
<1>c. d.at \in {"speculate", "claim", "create", "place"} => NextUnit(d) \in GoodLoops
  BY <1>0, <1>b DEF GoodLoops
<1>1. CASE DialForAgent(w)
  <2> PICK a \in d.held :
        \/ Continue(w, [d EXCEPT !.held = @ \ {a}, !.agent = a, !.at = "return"])
        \/ \E c \in UnclaimedContacts :
             Continue(w, [d EXCEPT !.held = @ \ {a}, !.agent = a, !.at = "claim", !.call = c])
    BY <1>1 DEF DialForAgent
  <2>1. a \in Agents /\ a # None
    BY <1>0, StoreAssumption DEF DialLoops
  <2>2. [d EXCEPT !.held = @ \ {a}, !.agent = a, !.at = "return"] \in GoodLoops
    BY <1>0, <2>1 DEF GoodLoops, DialLoops
  <2>3. ASSUME NEW c \in UnclaimedContacts
        PROVE  [d EXCEPT !.held = @ \ {a}, !.agent = a, !.at = "claim", !.call = c] \in GoodLoops
    BY <1>0, <2>1 DEF GoodLoops, DialLoops
  <2>4. LoopGood
    BY <2>2, <2>3, LoopMoves
  <2> QED
    BY <1>1, <1>a, <2>4 DEF DialForAgent, AgentsWritten
<1>2. CASE DialSpeculative(w)
  <2>1. d.at = "speculate"
    BY <1>2 DEF DialSpeculative, DialAt
  <2>2. ASSUME NEW c \in UnclaimedContacts
        PROVE  [d EXCEPT !.at = "claim", !.call = c] \in GoodLoops
    BY <1>0, <2>1 DEF GoodLoops, DialLoops
  <2>3. LoopGood
    BY <1>2, <1>c, <2>1, <2>2, LoopMoves DEF DialSpeculative
  <2> QED
    BY <1>2, <1>a, <2>3 DEF DialSpeculative, AgentsWritten
<1>3. CASE Claim(w)
  <2>1. d.at = "claim" /\ d.call \in Contacts
    BY <1>0, <1>3 DEF Claim, DialAt, GoodLoops
  <2>2. [d EXCEPT !.at = "create"] \in GoodLoops
    BY <1>0, <2>1 DEF GoodLoops, DialLoops
  <2>3. d.agent # None => [d EXCEPT !.at = "return", !.call = None] \in GoodLoops
    BY <1>0, <2>1 DEF GoodLoops, DialLoops
  <2>4. LoopGood
    BY <1>3, <1>c, <2>1, <2>2, <2>3, LoopMoves DEF Claim
  <2>5. (\E c \in Contacts : ClaimContact(c, w)) \/ UNCHANGED contacts
    BY <1>3, <2>1 DEF Claim
  <2> QED
    BY <1>3, <1>a, <2>4, <2>5 DEF Claim, AgentsWritten
<1>4. CASE ReturnAgent(w)
  <2>1. d.at = "return" /\ d.agent \in Agents /\ d.agent # None
    BY <1>0, <1>4, StoreAssumption DEF ReturnAgent, DialAt, GoodLoops
  <2>2. LoopGood
    BY <1>4, <1>b, <2>1, LoopMoves DEF ReturnAgent
  <2>3. AgentsWritten
    BY <1>0, <1>4, <2>1, Transitions DEF ReturnAgent
  <2> QED
    BY <1>4, <1>a, <2>2, <2>3 DEF ReturnAgent
<1>5. CASE Create(w)
  <2>1. d.at = "create" /\ d.call \in Contacts /\ d.agent \in Agents \cup {None}
    BY <1>0, <1>5 DEF Create, DialAt, GoodLoops, DialLoops
  <2>2. [d EXCEPT !.at = IF d.agent # None THEN "assign" ELSE "place"] \in GoodLoops
    BY <1>0, <2>1 DEF GoodLoops, DialLoops
  <2>3. LoopGood
    BY <1>5, <2>2, LoopMoves DEF Create
  <2>4. CallsWritten
    BY <1>5, <2>1 DEF Create, CallsWritten, CallMethod
  <2> QED
    BY <1>5, <1>a, <2>3, <2>4 DEF Create
<1>6. CASE Assign(w)
  <2>1. d.at = "assign" /\ d.call \in Contacts /\ d.agent \in Agents /\ d.agent # None
    BY <1>0, <1>6, StoreAssumption DEF Assign, DialAt, GoodLoops, DialLoops
  <2>2. [d EXCEPT !.at = "place"] \in GoodLoops
    BY <1>0, <2>1 DEF GoodLoops, DialLoops
  <2>3. LoopGood
    BY <1>6, <2>2, LoopMoves DEF Assign
  <2>4. AgentsWritten
    BY <1>0, <1>6, <2>1, Transitions DEF Assign
  <2> QED
    BY <1>6, <1>a, <2>3, <2>4 DEF Assign
<1>7. CASE Place(w)
  <2>1. d.at = "place" /\ d.call \in Contacts
    BY <1>0, <1>7 DEF Place, DialAt, GoodLoops
  <2>2. LoopGood
    BY <1>7, <1>c, <2>1, LoopMoves DEF Place
  <2>3. CallsWritten
    BY <1>0, <1>7, <2>1 DEF Place, CallsWritten, CallMethod
  <2>4. provider' \in [Contacts -> ProviderStage]
    BY <1>7 DEF Place, DialerInv, DialerTypeOK, ProviderStage
  <2> QED
    BY <1>7, <2>2, <2>3, <2>4 DEF Place
<1>8. CASE PredictiveTick(w)
  <2> DEFINE Approved == ApprovedCalls(Cardinality(Agents), Frac(HardMaxLineRatio, 1), InFlight)
  <2>1. ASSUME NEW extra \in Approved, extra # 0
        PROVE  [DialStart EXCEPT !.at = "speculate", !.extra = extra] \in GoodLoops
    <3>1. extra \in Nat /\ extra > 0
      BY <2>1 DEF ApprovedCalls
    <3> QED
      BY <3>1 DEF DialStart, GoodLoops, DialLoops
  <2>2. LoopGood
    BY <1>8, <2>1, FirstFrames, LoopMoves DEF PredictiveTick
  <2> QED
    BY <1>8, <1>a, <2>2 DEF PredictiveTick, AgentsWritten
<1> QED
  BY <1>1, <1>2, <1>3, <1>4, <1>5, <1>6, <1>7, <1>8 DEF Dial

-----------------------------------------------------------------------------
(* The handlers and the reaper *)

Deliveries == [type : EventType, copy : {1, 2}]

\* Taking the oldest event of a call leaves a queue, and names an event.
LEMMA Delivered ==
  ASSUME DialerInv, NEW c \in Contacts, inbox[c] # <<>>,
         inbox' = [inbox EXCEPT ![c] = Tail(@)]
  PROVE  inbox' \in [Contacts -> Seq(Deliveries)] /\ EventOf(c) \in EventId
<1>1. inbox \in [Contacts -> Seq(Deliveries)]
  BY DEF DialerInv, DialerTypeOK, Deliveries
<1>2. Head(inbox[c]) \in Deliveries /\ Tail(inbox[c]) \in Seq(Deliveries)
  BY <1>1
<1> QED
  BY <1>1, <1>2 DEF EventOf, EventId, Deliveries

\* An event that is not dropped has a target an event can name.
LEMMA TargetType ==
  ASSUME DialerInv, NEW c \in Contacts, inbox[c] # <<>>, Target(c) # Drop
  PROVE  Target(c) \in EventType
<1>1. inbox[c] \in Seq(Deliveries)
  BY DEF DialerInv, DialerTypeOK, Deliveries
<1>2. Head(inbox[c]) \in Deliveries
  BY <1>1
<1>3. Head(inbox[c]).type \in EventType
  BY <1>2 DEF Deliveries
<1> QED
  BY <1>3 DEF Target, Reconcile

LEMMA EventKeepsInv ==
  ASSUME DialerInv, NEW w \in Workers, NEW c \in Contacts, EventTask(w, c)
  PROVE  /\ cpu' \in [Workers -> GoodFrames]
         /\ pending_bridges' \subseteq Contacts /\ call_locks' \subseteq Contacts
         /\ inbox' \in [Contacts -> Seq(Deliveries)]
         /\ (\E e \in EventId : TryRecordEvent(e)) \/ UNCHANGED seen_events
<1>0. /\ cpu \in [Workers -> GoodFrames]
      /\ pending_bridges \subseteq Contacts /\ call_locks \subseteq Contacts
      /\ calls[c].agent_id \in Agents \cup {None}
  BY DEF DialerInv, DialerTypeOK, StoreTypeOK, CallRow
<1>1. inbox[c] # <<>> /\ inbox' = [inbox EXCEPT ![c] = Tail(@)]
  BY DEF EventTask, HandleDuplicate, HandleStale, HandleEvent, HandleAnswered, Deliver
<1>2. inbox' \in [Contacts -> Seq(Deliveries)] /\ EventOf(c) \in EventId
  BY <1>1, Delivered
<1>3. CASE HandleDuplicate(w, c)
  BY <1>0, <1>2, <1>3 DEF HandleDuplicate
<1>4. CASE HandleStale(w, c)
  BY <1>0, <1>2, <1>4 DEF HandleStale
<1>5. CASE HandleEvent(w, c)
  <2>1. Handler("apply", c, None, Target(c)) \in GoodFrames
    BY <1>1, <1>5, TargetType, HandlerFrame DEF HandleEvent
  <2>2. cpu' \in [Workers -> GoodFrames]
    BY <1>5, <2>1, FrameMoves DEF HandleEvent
  <2> QED
    BY <1>0, <1>2, <1>5, <2>2 DEF HandleEvent
<1>6. CASE HandleAnswered(w, c)
  <2>1. calls[c].agent_id # None => Handler("bridge", c, calls[c].agent_id, "ANSWERED") \in GoodFrames
    BY <1>0, HandlerFrame DEF EventType
  <2>2. cpu' \in [Workers -> GoodFrames]
    BY <1>0, <1>6, <2>1, FrameMoves DEF HandleAnswered
  <2> QED
    BY <1>0, <1>2, <1>6, <2>2 DEF HandleAnswered
<1> QED
  BY <1>3, <1>4, <1>5, <1>6 DEF EventTask

LEMMA BridgeWaitKeepsInv ==
  ASSUME DialerInv, NEW w \in Workers, NEW c \in Contacts, BridgeWait(w, c)
  PROVE  /\ cpu' \in [Workers -> GoodFrames]
         /\ pending_bridges' \subseteq Contacts
         /\ bridge_results' \in [Contacts -> Agents \cup {None}]
<1>0. pending_bridges \subseteq Contacts /\ bridge_results \in [Contacts -> Agents \cup {None}]
  BY DEF DialerInv, DialerTypeOK
<1>1. CASE BridgeFound(w, c)
  <2>1. Handler("answered", c, bridge_results[c], "ANSWERED") \in GoodFrames
    BY <1>0, <1>1, HandlerFrame DEF BridgeFound, EventType
  <2>2. cpu' \in [Workers -> GoodFrames]
    BY <1>1, <2>1, FrameMoves DEF BridgeFound
  <2> QED
    BY <1>0, <1>1, <2>2 DEF BridgeFound
<1>2. CASE BridgeTimeout(w, c)
  <2>1. Handler("unanswered", c, None, "ANSWERED") \in GoodFrames
    BY HandlerFrame DEF EventType
  <2>2. cpu' \in [Workers -> GoodFrames]
    BY <1>2, <2>1, FrameMoves DEF BridgeTimeout
  <2> QED
    BY <1>0, <1>2, <2>2 DEF BridgeTimeout
<1> QED
  BY <1>1, <1>2 DEF BridgeWait

\* A handler that has the cpu moves on to another of its statements.
LEMMA NextStatement ==
  ASSUME NEW f \in GoodFrames, f.call \in Contacts,
         NEW a \in Agents \cup {None},
         NEW at \in {"answered", "connected", "release", "unanswered", "abandon", "terminal", "free"},
         at \in {"answered", "connected", "release", "free"} => a \in Agents
  PROVE  [f EXCEPT !.at = at, !.agent = a] \in GoodFrames
BY DEF GoodFrames, Frames

\* What a handler or the reaper does with the cpu.
LEMMA ProceedKeepsInv ==
  ASSUME DialerInv, NEW w \in Workers, Proceed(w)
  PROVE  /\ cpu' \in [Workers -> GoodFrames] /\ call_locks' \subseteq Contacts
         /\ wrap_ups' \subseteq [agent : Agents, call : Contacts, asleep : BOOLEAN]
         /\ outcomes' \in [Contacts -> Nat] /\ abandoned' \subseteq Contacts
         /\ \/ AgentsWritten /\ UNCHANGED calls
            \/ CallsWritten /\ UNCHANGED agents
<1> DEFINE f == cpu[w]
           LocalsGood == cpu' \in [Workers -> GoodFrames] /\ call_locks' \subseteq Contacts
<1>0. /\ f \in GoodFrames /\ f \in Frames /\ f.agent \in Agents \cup {None}
      /\ call_locks \subseteq Contacts
      /\ CallLease \in Leases
      /\ {"CONNECTED", "DIALING", "AVAILABLE", "RESERVED"} \subseteq AgentState
      /\ \A c \in Contacts : calls[c].agent_id \in Agents \cup {None}
  BY DialerAssumption
     DEF DialerInv, DialerTypeOK, GoodFrames, Frames, StoreTypeOK, CallRow, AgentState
<1>a. UNCHANGED stats_vars => outcomes' \in [Contacts -> Nat] /\ abandoned' \subseteq Contacts
  BY DEF DialerInv, DialerTypeOK, stats_vars
<1>b. UNCHANGED wrap_ups => wrap_ups' \subseteq [agent : Agents, call : Contacts, asleep : BOOLEAN]
  BY DEF DialerInv, DialerTypeOK
<1>c. UNCHANGED call_locks => call_locks' \subseteq Contacts
  BY <1>0
<1>d. \A at \in {"answered", "connected", "release", "unanswered", "abandon", "terminal"} :
        /\ f.call \in Contacts
        /\ at \in {"answered", "connected", "release"} => f.agent \in Agents
        => [f EXCEPT !.at = at] \in GoodFrames
  BY <1>0 DEF GoodFrames, Frames
<1>e. \A a \in Agents \cup {None} :
        f.call \in Contacts => /\ [f EXCEPT !.at = "terminal", !.agent = a] \in GoodFrames
                               /\ [f EXCEPT !.at = "unanswered", !.agent = None] \in GoodFrames
  BY <1>0, NextStatement
<1>f. Return(w) => LocalsGood
  BY ReturnMoves
<1>1. CASE BridgeOwnAgent(w)
  <2>1. f.call \in Contacts /\ f.agent \in Agents
    BY <1>0, <1>1 DEF BridgeOwnAgent, HandlerAt, GoodFrames
  <2>2. LocalsGood
    BY <1>1, <1>c, <1>d, <1>e, <2>1, FrameMoves DEF BridgeOwnAgent
  <2>3. TryTransitionAgent(f.agent, w, "CONNECTED", {"DIALING"}, f.call, CallLease)
    BY <1>1 DEF BridgeOwnAgent, TryTransitionAgent
  <2>4. AgentsWritten
    BY <1>0, <2>1, <2>3, Transitions
  <2> QED
    BY <1>1, <1>a, <1>b, <2>2, <2>4 DEF BridgeOwnAgent
<1>2. CASE Apply(w)
  <2>1. f.call \in Contacts /\ f.target \in EventType /\ ReasonOf(f.target) \in FailureReason \cup {None}
    BY <1>0, <1>2 DEF Apply, HandlerAt, GoodFrames, ReasonOf, FailureReason
  <2>2. LocalsGood
    BY <1>0, <1>2, <1>c, <1>e, <1>f, <2>1, FrameMoves DEF Apply
  <2>3. CallsWritten
    BY <1>2, <2>1, AppliesTransition DEF Apply, CallsWritten
  <2> QED
    BY <1>2, <1>a, <1>b, <2>2, <2>3 DEF Apply
<1>3. CASE MarkAnswered(w)
  <2>1. f.call \in Contacts /\ f.agent \in Agents
    BY <1>0, <1>3 DEF MarkAnswered, HandlerAt, GoodFrames
  <2>2. LocalsGood
    BY <1>3, <1>c, <1>d, <2>1, FrameMoves DEF MarkAnswered
  <2>3. CallsWritten
    BY <1>3, <2>1, AppliesTransition DEF MarkAnswered, CallsWritten, EventType
  <2> QED
    BY <1>3, <1>a, <1>b, <2>2, <2>3 DEF MarkAnswered
<1>4. CASE MarkConnected(w)
  <2>1. f.call \in Contacts
    BY <1>0, <1>4 DEF MarkConnected, HandlerAt, GoodFrames
  <2>2. CallsWritten
    BY <1>4, <2>1, AppliesTransition DEF MarkConnected, CallsWritten, EventType
  <2> QED
    BY <1>4, <1>a, <1>b, <1>f, <2>2 DEF MarkConnected
<1>5. CASE ReleaseBridged(w)
  <2>1. f.call \in Contacts /\ f.agent \in Agents
    BY <1>0, <1>5 DEF ReleaseBridged, HandlerAt, GoodFrames
  <2>2. AgentsWritten
    BY <1>5, <2>1, Releases DEF ReleaseBridged
  <2> QED
    BY <1>5, <1>a, <1>b, <1>f, <2>2 DEF ReleaseBridged
<1>6. CASE MarkUnanswered(w)
  <2>1. f.call \in Contacts
    BY <1>0, <1>6 DEF MarkUnanswered, HandlerAt, GoodFrames
  <2>2. LocalsGood
    BY <1>6, <1>c, <1>d, <1>f, <2>1, FrameMoves DEF MarkUnanswered
  <2>3. CallsWritten
    BY <1>6, <2>1, AppliesTransition DEF MarkUnanswered, CallsWritten, EventType
  <2>4. outcomes' \in [Contacts -> Nat] /\ abandoned' \subseteq Contacts
    BY <1>6, <2>1 DEF MarkUnanswered, DialerInv, DialerTypeOK
  <2> QED
    BY <1>6, <1>b, <2>2, <2>3, <2>4 DEF MarkUnanswered
<1>7. CASE MarkAbandoned(w)
  <2>1. f.call \in Contacts
    BY <1>0, <1>7 DEF MarkAbandoned, HandlerAt, GoodFrames
  <2>2. LocalsGood
    BY <1>0, <1>7, <1>c, <1>e, <1>f, <2>1, FrameMoves DEF MarkAbandoned
  <2>3. CallsWritten
    BY <1>7, <2>1, AppliesTransition DEF MarkAbandoned, CallsWritten, EventType, FailureReason
  <2> QED
    BY <1>7, <1>a, <1>b, <2>2, <2>3 DEF MarkAbandoned
<1>8. CASE OnCallTerminal(w)
  <2> DEFINE c == f.call
             a == f.agent
             mine == a # None /\ agents[a].reserved_by = w /\ agents[a].current_call_id = c
             t == [agent |-> a, call |-> c, asleep |-> FALSE]
  <2>1. c \in Contacts
    BY <1>0, <1>8 DEF OnCallTerminal, HandlerAt, GoodFrames
  <2>2. mine => a \in Agents /\ [f EXCEPT !.at = "free"] \in GoodFrames
    BY <1>0, <2>1 DEF GoodFrames, Frames
  <2>3. \/ Return(w) /\ UNCHANGED wrap_ups
        \/ mine /\ Return(w) /\ wrap_ups' = wrap_ups \cup {t}
        \/ mine /\ Run(w, [f EXCEPT !.at = "free"]) /\ call_locks' = call_locks \ {c} /\ UNCHANGED wrap_ups
    BY <1>8 DEF OnCallTerminal
  <2>4. LocalsGood
    BY <1>0, <1>f, <2>2, <2>3, FrameMoves
  <2>5. mine => t \in [agent : Agents, call : Contacts, asleep : BOOLEAN]
    BY <2>1, <2>2
  <2>6. wrap_ups' \subseteq [agent : Agents, call : Contacts, asleep : BOOLEAN]
    BY <1>b, <2>3, <2>5 DEF DialerInv, DialerTypeOK
  <2>7. outcomes' \in [Contacts -> Nat] /\ abandoned' \subseteq Contacts
    BY <1>8, <2>1 DEF OnCallTerminal, DialerInv, DialerTypeOK
  <2> QED
    BY <1>8, <2>4, <2>6, <2>7 DEF OnCallTerminal, AgentsWritten
<1>9. CASE FreeCallAgent(w)
  <2>1. f.agent \in Agents
    BY <1>0, <1>9 DEF FreeCallAgent, HandlerAt, GoodFrames
  <2>2. AgentsWritten
    BY <1>0, <1>9, <2>1, Transitions DEF FreeCallAgent
  <2> QED
    BY <1>9, <1>a, <1>b, <1>f, <2>2 DEF FreeCallAgent
<1>10. CASE ReapCallAgent(w)
  <2> PICK c \in f.todo :
        /\ \/ UNCHANGED agents
           \/ calls[c].agent_id # None /\ TryForceRelease(calls[c].agent_id, c)
        /\ Run(w, [f EXCEPT !.at = "terminal", !.call = c, !.agent = calls[c].agent_id, !.todo = @ \ {c}])
    BY <1>10 DEF ReapCallAgent
  <2>1. c \in Contacts /\ calls[c].agent_id \in Agents \cup {None}
    BY <1>0 DEF Frames
  <2>2. [f EXCEPT !.at = "terminal", !.call = c, !.agent = calls[c].agent_id, !.todo = @ \ {c}] \in GoodFrames
    BY <1>0, <2>1 DEF GoodFrames, Frames
  <2>3. cpu' \in [Workers -> GoodFrames]
    BY <2>2, FrameMoves
  <2>4. AgentsWritten
    BY <2>1, Releases DEF AgentsWritten
  <2> QED
    BY <1>10, <1>a, <1>b, <1>c, <2>3, <2>4 DEF ReapCallAgent
<1>11. CASE ReapAgents(w)
  <2>1. cpu' \in [Workers -> GoodFrames]
    BY <1>11, FirstFrames, FrameMoves DEF ReapAgents
  <2>2. CASE Agents = {}
    BY <1>11, <1>a, <1>b, <1>c, <2>1, <2>2 DEF ReapAgents, ReclaimExpiredAgentLeases, AgentsWritten, DialerInv, StoreTypeOK
  <2>3. CASE Agents # {}
    <3>1. AgentsWritten
      BY <1>11, <2>3 DEF ReapAgents, AgentsWritten, AgentMethod
    <3> QED
      BY <1>11, <1>a, <1>b, <1>c, <2>1, <3>1 DEF ReapAgents
  <2> QED
    BY <2>2, <2>3
<1> QED
  BY <1>1, <1>2, <1>3, <1>4, <1>5, <1>6, <1>7, <1>8, <1>9, <1>10, <1>11 DEF Proceed

LEMMA WrapUpKeepsInv ==
  ASSUME DialerInv, NEW w \in Workers, WrapUpTask(w)
  PROVE  /\ wrap_ups' \subseteq [agent : Agents, call : Contacts, asleep : BOOLEAN]
         /\ AgentsWritten
<1>0. /\ wrap_ups \subseteq [agent : Agents, call : Contacts, asleep : BOOLEAN]
      /\ WrapLease \in Leases
      /\ {"WRAP_UP", "CONNECTED", "AVAILABLE"} \subseteq AgentState
      /\ \A a \in Agents : agents[a].current_call_id \in Contacts \cup {None}
  BY DialerAssumption DEF DialerInv, DialerTypeOK, StoreTypeOK, AgentRow, AgentState
<1>1. CASE WrapUp(w)
  <2> PICK t \in wrap_ups :
        /\ TryTransitionAgent(t.agent, w, "WRAP_UP", {"CONNECTED"},
                              agents[t.agent].current_call_id, WrapLease)
        /\ wrap_ups' = (wrap_ups \ {t}) \cup {[t EXCEPT !.asleep = TRUE]}
    BY <1>1 DEF WrapUp
  <2>1. t.agent \in Agents /\ agents[t.agent].current_call_id \in Contacts \cup {None}
    BY <1>0
  <2>2. AgentsWritten
    BY <1>0, <2>1, Transitions
  <2> QED
    BY <1>0, <2>2
<1>2. CASE WrapUpRelease(w)
  <2> PICK t \in wrap_ups :
        /\ TryTransitionAgent(t.agent, w, "AVAILABLE", {"WRAP_UP"}, None, NoLease)
        /\ wrap_ups' = wrap_ups \ {t}
    BY <1>2 DEF WrapUpRelease
  <2>1. AgentsWritten
    BY <1>0, Transitions
  <2> QED
    BY <1>0, <2>1
<1> QED
  BY <1>1, <1>2 DEF WrapUpTask

LEMMA ReaperKeepsInv ==
  ASSUME DialerInv, NEW w \in Workers, ReaperPass(w)
  PROVE  cpu' \in [Workers -> GoodFrames] /\ CallsWritten
<1> PICK S \in SUBSET ReclaimableCalls : ReclaimExpiredCallLeases(S) /\ Run(w, Reaper(S))
  BY DEF ReaperPass, ReapCalls
<1>1. S \in SUBSET Contacts
  BY DEF ReclaimableCalls
<1>2. cpu' \in [Workers -> GoodFrames]
  BY <1>1, FirstFrames, FrameMoves
<1>3. ASSUME Contacts = {} PROVE CallsWritten
  BY <1>3 DEF ReclaimExpiredCallLeases, CallsWritten, DialerInv, StoreTypeOK
<1>4. ASSUME Contacts # {} PROVE CallsWritten
  BY <1>4 DEF CallsWritten, CallMethod
<1> QED
  BY <1>2, <1>3, <1>4

-----------------------------------------------------------------------------
(* The provider, and what can go wrong *)

LEMMA EmitKeepsType ==
  ASSUME DialerInv, NEW c \in Contacts, NEW step, NEW next \in ProviderStage,
         NEW events \in Seq(Deliveries), Emit(c, step, next, events)
  PROVE  /\ inbox' \in [Contacts -> Seq(Deliveries)]
         /\ provider' \in [Contacts -> ProviderStage]
<1>1. inbox \in [Contacts -> Seq(Deliveries)] /\ provider \in [Contacts -> ProviderStage]
  BY DEF DialerInv, DialerTypeOK, Deliveries, ProviderStage
<1>2. inbox[c] \o events \in Seq(Deliveries)
  BY <1>1
<1> QED
  BY <1>1, <1>2 DEF Emit

LEMMA ProviderKeepsInv ==
  ASSUME DialerInv, NEW c \in Contacts, Provider(c)
  PROVE  /\ inbox' \in [Contacts -> Seq(Deliveries)]
         /\ provider' \in [Contacts -> ProviderStage]
<1>1. PICK step \in ProviderStage, next \in ProviderStage, events \in Seq(Deliveries) :
        Emit(c, step, next, events)
  <2>1. \A type \in EventType, copy \in {1, 2} : Event(type, copy) \in Deliveries
    BY DEF Event, Deliveries
  <2>2. {"RINGING", "ANSWERED", "COMPLETED", "FAILED"} \subseteq EventType
    BY DEF EventType
  <2>3. \A e \in Deliveries, f \in Deliveries :
          <<e>> \in Seq(Deliveries) /\ <<e, f>> \in Seq(Deliveries) /\ <<>> \in Seq(Deliveries)
    OBVIOUS
  <2>4. {"placed", "rung", "answered", "done"} \subseteq ProviderStage
    BY DEF ProviderStage
  <2>5. CASE ProviderStep(c)
    BY <2>1, <2>2, <2>3, <2>4, <2>5 DEF ProviderStep
  <2>6. CASE ProviderBStep(c)
    BY <2>1, <2>2, <2>3, <2>4, <2>6 DEF ProviderBStep
  <2> QED
    BY <2>5, <2>6 DEF Provider
<1> QED
  BY <1>1, EmitKeepsType

LEMMA VanishKeepsInv ==
  ASSUME DialerInv, NEW w \in Workers, Vanish(w)
  PROVE  DialerInv'
<1>1. StoreTypeOK'
  BY DEF Vanish, store_vars, DialerInv, StoreTypeOK
<1>2. cpu' \in [Workers -> GoodFrames] /\ dial' \in [Workers -> GoodLoops]
  BY FirstFrames DEF Vanish, DialerInv
<1>3. <<>> \in Seq(Deliveries)
  OBVIOUS
<1>4. inbox' \in [Contacts -> Seq(Deliveries)] /\ provider' \in [Contacts -> ProviderStage]
  BY <1>3 DEF Vanish, DialerInv, DialerTypeOK, Deliveries, ProviderStage
<1>5. /\ alive' \subseteq Workers /\ stopping' \subseteq alive'
      /\ ended' \subseteq alive' \X {"dial", "reap"}
  BY DEF Vanish, DialerInv, DialerTypeOK
<1>6. /\ pending_bridges' \subseteq Contacts /\ call_locks' \subseteq Contacts
      /\ bridge_results' \in [Contacts -> Agents \cup {None}]
      /\ wrap_ups' \subseteq [agent : Agents, call : Contacts, asleep : BOOLEAN]
      /\ outcomes' \in [Contacts -> Nat] /\ abandoned' \subseteq Contacts
  BY DEF Vanish, DialerInv, DialerTypeOK, stats_vars
<1>7. cpu' \in [Workers -> Frames] /\ dial' \in [Workers -> DialLoops]
  BY <1>2 DEF GoodFrames, GoodLoops
<1> QED
  BY <1>1, <1>2, <1>4, <1>5, <1>6, <1>7 DEF DialerInv, DialerTypeOK, Deliveries, ProviderStage

LEMMA TroubleKeepsInv ==
  ASSUME DialerInv, NEW w \in Workers, Trouble(w)
  PROVE  DialerInv' /\ UNCHANGED store_vars
<1> USE DEF Deliveries
<1>0. /\ StoreTypeOK /\ DialerTypeOK
      /\ cpu \in [Workers -> GoodFrames] /\ dial \in [Workers -> GoodLoops]
  BY DEF DialerInv
<1>1. CASE Crash(w) \/ Exit(w)
  <2>1. Vanish(w)
    BY <1>1 DEF Crash, Exit
  <2> QED
    BY <2>1, VanishKeepsInv DEF Vanish
<1>2. CASE Shutdown(w)
  <2>1. StoreTypeOK'
    BY <1>0, <1>2 DEF Shutdown, store_vars, StoreTypeOK
  <2>2. w \in alive
    BY <1>2 DEF Shutdown, MayFail
  <2>3. DialerTypeOK'
    BY <1>0, <1>2, <2>2 DEF Shutdown, DialerTypeOK, stats_vars, net_vars
  <2> QED
    BY <1>0, <1>2, <2>1, <2>3 DEF Shutdown, DialerInv
<1>3. CASE Restart(w)
  <2>1. StoreTypeOK'
    BY <1>0, <1>3 DEF Restart, store_vars, StoreTypeOK
  <2>2. DialerTypeOK'
    BY <1>0, <1>3 DEF Restart, DialerTypeOK, stats_vars, net_vars, bridge_vars
  <2> QED
    BY <1>0, <1>3, <2>1, <2>2 DEF Restart, DialerInv
<1>4. CASE StoreError(w)
  <2>1. StoreTypeOK' /\ UNCHANGED store_vars
    BY <1>0, <1>4 DEF StoreError, store_vars, StoreTypeOK
  <2>2. w \in alive /\ UNCHANGED <<alive, stopping, call_locks>>
    BY <1>4 DEF StoreError, DialLoopEnds, ReaperEnds, MayFail
  <2>3. ended' \subseteq alive' \X {"dial", "reap"}
    BY <1>0, <1>4, <2>2 DEF StoreError, DialLoopEnds, ReaperEnds, DialerTypeOK
  <2>4. cpu' \in [Workers -> GoodFrames] /\ dial' \in [Workers -> GoodLoops]
    <3>1. CASE DialLoopEnds(w)
      BY <3>1, FirstFrames, LoopMoves DEF DialLoopEnds
    <3>2. CASE ReaperEnds(w)
      BY <1>0, <3>2, FirstFrames, FrameMoves DEF ReaperEnds
    <3> QED
      BY <1>4, <3>1, <3>2 DEF StoreError
  <2>5. cpu' \in [Workers -> Frames] /\ dial' \in [Workers -> DialLoops]
    BY <2>4 DEF GoodFrames, GoodLoops
  <2>6. DialerTypeOK'
    BY <1>0, <1>4, <2>2, <2>3, <2>5 DEF StoreError, DialerTypeOK, bridge_vars, stats_vars, net_vars
  <2> QED
    BY <2>1, <2>4, <2>6 DEF DialerInv
<1>5. ASSUME NEW c \in Contacts, LoseEvent(w, c)
      PROVE  DialerInv' /\ UNCHANGED store_vars
  <2>1. StoreTypeOK' /\ UNCHANGED store_vars
    BY <1>0, <1>5 DEF LoseEvent, store_vars, StoreTypeOK
  <2>2. inbox' \in [Contacts -> Seq(Deliveries)]
    BY <1>5, Delivered DEF LoseEvent
  <2>3. DialerTypeOK'
    BY <1>0, <1>5, <2>2 DEF LoseEvent, DialerTypeOK, worker_vars, bridge_vars, stats_vars
  <2> QED
    BY <1>0, <1>5, <2>1, <2>3 DEF LoseEvent, DialerInv
<1> QED
  BY <1>1, <1>2, <1>3, <1>4, <1>5 DEF Trouble, Crash, Exit, Vanish, Shutdown, Restart

-----------------------------------------------------------------------------
(* The invariant *)

LEMMA InitInv == Init => DialerInv
<1> SUFFICES ASSUME Init PROVE DialerInv
  OBVIOUS
<1>1. StoreTypeOK
  BY InitType DEF Init
<1>2. cpu \in [Workers -> GoodFrames] /\ dial \in [Workers -> GoodLoops]
  BY FirstFrames DEF Init
<1>3. cpu \in [Workers -> Frames] /\ dial \in [Workers -> DialLoops]
  BY <1>2 DEF GoodFrames, GoodLoops
<1>4. DialerTypeOK
  BY <1>3 DEF Init, DialerTypeOK
<1> QED
  BY <1>1, <1>2, <1>4 DEF DialerInv

LEMMA WorkerStoreStep ==
  ASSUME DialerInv, NEW w \in Workers, Worker(w)
  PROVE  [StoreNext]_store_vars
<1>1. CASE DialLoop(w)
  BY <1>1, ServeKeepsInv, DialKeepsInv, WritesAreMethods DEF DialLoop, StoreNext
<1>2. CASE Proceed(w)
  BY <1>2, ProceedKeepsInv, WritesAreMethods DEF Proceed
<1>3. CASE WrapUpTask(w)
  BY <1>3, WrapUpKeepsInv, WritesAreMethods DEF WrapUpTask, WrapUp, WrapUpRelease
<1>4. CASE ReaperPass(w)
  BY <1>4, ReaperKeepsInv, WritesAreMethods DEF ReaperPass, ReapCalls
<1>5. ASSUME NEW c \in Contacts, EventTask(w, c)
      PROVE  [StoreNext]_store_vars
  BY <1>5, EventKeepsInv DEF EventTask, StoreNext, store_vars
<1>6. ASSUME NEW c \in Contacts, BridgeWait(w, c)
      PROVE  [StoreNext]_store_vars
  BY <1>6 DEF BridgeWait
<1> QED
  BY <1>1, <1>2, <1>3, <1>4, <1>5, <1>6 DEF Worker

LEMMA WorkerKeepsInv ==
  ASSUME DialerInv, NEW w \in Workers, Worker(w)
  PROVE  DialerInv'
<1> USE DEF Deliveries, ProviderStage
<1>0. StoreTypeOK /\ DialerTypeOK /\ StoreTypeOK'
  BY WorkerStoreStep, NextType DEF DialerInv
<1>1. UNCHANGED worker_vars
  BY DEF Worker, DialLoop, Proceed, WrapUpTask, ReaperPass, EventTask, BridgeWait
<1>2. cpu' \in [Workers -> GoodFrames] /\ dial' \in [Workers -> GoodLoops]
  <2>0. cpu \in [Workers -> GoodFrames] /\ dial \in [Workers -> GoodLoops]
    BY DEF DialerInv
  <2>1. CASE DialLoop(w)
    BY <2>1, ServeKeepsInv, DialKeepsInv DEF DialLoop
  <2>2. CASE Proceed(w)
    BY <2>0, <2>2, ProceedKeepsInv DEF Proceed
  <2>3. CASE WrapUpTask(w)
    BY <2>0, <2>3 DEF WrapUpTask, WrapUp, WrapUpRelease
  <2>4. CASE ReaperPass(w)
    BY <2>0, <2>4, ReaperKeepsInv DEF ReaperPass
  <2>5. ASSUME NEW c \in Contacts, EventTask(w, c)
        PROVE  cpu' \in [Workers -> GoodFrames] /\ dial' \in [Workers -> GoodLoops]
    BY <2>0, <2>5, EventKeepsInv DEF EventTask
  <2>6. ASSUME NEW c \in Contacts, BridgeWait(w, c)
        PROVE  cpu' \in [Workers -> GoodFrames] /\ dial' \in [Workers -> GoodLoops]
    BY <2>0, <2>6, BridgeWaitKeepsInv DEF BridgeWait
  <2> QED
    BY <2>1, <2>2, <2>3, <2>4, <2>5, <2>6 DEF Worker
<1>3. cpu' \in [Workers -> Frames] /\ dial' \in [Workers -> DialLoops]
  BY <1>2 DEF GoodFrames, GoodLoops
<1>4. DialerTypeOK'
  <2> USE <1>0, <1>1, <1>3 DEF DialerTypeOK, worker_vars
  <2>1. CASE ServeBridges(w) /\ DialLoop(w)
    BY <2>1, ServeKeepsInv DEF ServeBridges, DialLoop, stats_vars, net_vars
  <2>2. CASE Dial(w) /\ DialLoop(w)
    BY <2>2, DialKeepsInv DEF Dial, DialLoop, stats_vars, bridge_vars
  <2>3. CASE Proceed(w)
    BY <2>3, ProceedKeepsInv DEF Proceed, bridge_vars, net_vars
  <2>4. CASE WrapUpTask(w)
    BY <2>4, WrapUpKeepsInv DEF WrapUpTask, WrapUp, WrapUpRelease, bridge_vars, net_vars, stats_vars
  <2>5. CASE ReaperPass(w)
    BY <2>5 DEF ReaperPass, ReapCalls, bridge_vars, net_vars, stats_vars
  <2>6. ASSUME NEW c \in Contacts, EventTask(w, c)
        PROVE  DialerTypeOK'
    BY <2>6, EventKeepsInv DEF EventTask, stats_vars
  <2>7. ASSUME NEW c \in Contacts, BridgeWait(w, c)
        PROVE  DialerTypeOK'
    BY <2>7, BridgeWaitKeepsInv DEF BridgeWait, stats_vars, net_vars
  <2> QED
    BY <2>1, <2>2, <2>3, <2>4, <2>5, <2>6, <2>7 DEF Worker, DialLoop
<1> QED
  BY <1>0, <1>2, <1>4 DEF DialerInv

LEMMA StepKeepsInv ==
  ASSUME DialerInv, [Next]_vars
  PROVE  DialerInv' /\ [StoreNext]_store_vars
<1> USE DEF Deliveries, ProviderStage
<1>1. ASSUME NEW w \in Workers, Worker(w) PROVE DialerInv' /\ [StoreNext]_store_vars
  BY <1>1, WorkerStoreStep, WorkerKeepsInv
<1>2. ASSUME NEW w \in Workers, Trouble(w) PROVE DialerInv' /\ [StoreNext]_store_vars
  BY <1>2, TroubleKeepsInv
<1>3. ASSUME NEW c \in Contacts, Provider(c) PROVE DialerInv' /\ [StoreNext]_store_vars
  <2>1. StoreTypeOK'
    BY <1>3 DEF Provider, DialerInv, StoreTypeOK, store_vars
  <2>2. DialerTypeOK'
    BY <1>3, ProviderKeepsInv
       DEF Provider, DialerInv, DialerTypeOK, worker_vars, bridge_vars, stats_vars
  <2> QED
    BY <1>3, <2>1, <2>2 DEF Provider, DialerInv
<1>4. CASE Time
  <2>1. StoreTypeOK'
    BY <1>4, TickType DEF Time, DialerInv
  <2>2. DialerTypeOK'
    BY <1>4 DEF Time, DialerInv, DialerTypeOK, dialer_vars, worker_vars, bridge_vars, stats_vars, net_vars
  <2> QED
    BY <1>4, <2>1, <2>2 DEF Time, DialerInv, dialer_vars, StoreNext
<1>5. CASE UNCHANGED vars
  <2>1. StoreTypeOK'
    BY <1>5 DEF vars, store_vars, DialerInv, StoreTypeOK
  <2>2. DialerTypeOK'
    BY <1>5 DEF vars, DialerInv, DialerTypeOK, dialer_vars, worker_vars, bridge_vars, stats_vars, net_vars
  <2> QED
    BY <1>5, <2>1, <2>2 DEF vars, DialerInv, dialer_vars
<1> QED
  BY <1>1, <1>2, <1>3, <1>4, <1>5 DEF Next

THEOREM DialerInvariant == Spec => []DialerInv
BY InitInv, StepKeepsInv, PTL DEF Spec

\* The workers' variables keep their types for any number of workers, agents and
\* contacts and any lease lengths, whatever trouble the workers get into.
THEOREM DialerTypeCorrect == Spec => []DialerTypeOK
BY DialerInvariant, PTL DEF DialerInv

\* Whatever workers, providers, time and trouble do, the tables only ever change
\* by methods of the store: each step of a dialer is a step of Store, or none.
THEOREM DialerUsesStore == Spec => StoreSpec
<1>1. Init => StoreInit
  BY DEF Init
<1> QED
  BY <1>1, StepKeepsInv, DialerInvariant, PTL DEF Spec, StoreSpec

-----------------------------------------------------------------------------
(* What a step does to the row of a call *)

Finished(c) == calls[c].state \in TERMINAL_CALL_STATES

LEMMA AppliedRow ==
  ASSUME StoreTypeOK, NEW c \in Contacts, NEW target \in EventType, NEW reason, NEW lease,
         ApplyCallTransition(c, target, reason, lease)
  PROVE  /\ ~Finished(c)
         /\ calls'[c].state = target /\ calls'[c].reason = reason
         /\ calls'[c].reserved_by = calls[c].reserved_by
         /\ calls'[c].agent_id = calls[c].agent_id
         /\ calls'[c].connected = IF target = "CONNECTED" THEN TRUE ELSE calls[c].connected
         /\ \A d \in Contacts \ {c} : calls'[d] = calls[d]
<1>1. calls \in [Contacts -> CallRow]
  BY DEF StoreTypeOK
<1>2. calls' = [calls EXCEPT ![c] = Transitioned(calls[c], target, reason, lease)]
  BY DEF ApplyCallTransition
<1>3. /\ Transitioned(calls[c], target, reason, lease).state = target
      /\ Transitioned(calls[c], target, reason, lease).reason = reason
      /\ Transitioned(calls[c], target, reason, lease).reserved_by = calls[c].reserved_by
      /\ Transitioned(calls[c], target, reason, lease).agent_id = calls[c].agent_id
      /\ Transitioned(calls[c], target, reason, lease).connected =
           IF target = "CONNECTED" THEN TRUE ELSE calls[c].connected
  BY <1>1 DEF Transitioned, CallRow
<1> QED
  BY <1>1, <1>2, <1>3 DEF ApplyCallTransition, CanApply, Finished

LEMMA FinishedStays ==
  ASSUME DialerInv, [Next]_vars, NEW c \in Contacts, Finished(c)
  PROVE  Finished(c)' /\ calls'[c].state = calls[c].state /\ calls'[c].reason = calls[c].reason
BY StepKeepsInv, FinishedStep DEF DialerInv, Finished

-----------------------------------------------------------------------------
(* Who reports the end of a call *)

ToReport(w, c) == (cpu[w].at = "terminal" /\ cpu[w].call = c) \/ c \in cpu[w].todo

\* A finished call is reported once, or is about to be by one worker, or never.
ReportInv ==
  /\ \A c \in Contacts : outcomes[c] = 0 \/ (outcomes[c] = 1 /\ Finished(c))
  /\ \A w \in Workers, c \in Contacts : ToReport(w, c) => Finished(c) /\ outcomes[c] = 0
  /\ \A v \in Workers, w \in Workers, c \in Contacts : ToReport(v, c) /\ ToReport(w, c) => v = w
  /\ \A w \in Workers : cpu[w].at = "terminal" => cpu[w].call \notin cpu[w].todo

\* A worker w goes on, and may take it upon itself to report the calls S it has
\* just finished.
LEMMA ReportStep ==
  ASSUME DialerInv, ReportInv, [Next]_vars, UNCHANGED outcomes,
         NEW w \in Workers, NEW S \in SUBSET Contacts,
         \A c \in S : ~Finished(c) /\ Finished(c)',
         \A v \in Workers \ {w} : cpu'[v] = cpu[v],
         \A c \in Contacts : ToReport(w, c)' => ToReport(w, c) \/ c \in S,
         cpu'[w].at = "terminal" => cpu'[w].call \notin cpu'[w].todo
  PROVE  ReportInv'
<1>1. \A c \in Contacts : Finished(c) => Finished(c)'
  BY FinishedStays
<1>2. \A v \in Workers, c \in Contacts : ToReport(v, c)' => ToReport(v, c) \/ (v = w /\ c \in S)
  BY DEF ToReport
<1>3. \A v \in Workers, c \in Contacts : ToReport(v, c) => c \notin S
  BY DEF ReportInv
<1>4. (\A c \in Contacts : outcomes[c] = 0 \/ (outcomes[c] = 1 /\ Finished(c)))'
  BY <1>1 DEF ReportInv
<1>5. ASSUME NEW v \in Workers, NEW c \in Contacts, ToReport(v, c)'
      PROVE  Finished(c)' /\ outcomes'[c] = 0
  <2>1. CASE ToReport(v, c)
    BY <1>1, <2>1 DEF ReportInv
  <2>2. CASE c \in S
    BY <2>2 DEF ReportInv
  <2> QED
    BY <1>2, <1>5, <2>1, <2>2
<1>6. ASSUME NEW u \in Workers, NEW v \in Workers, NEW c \in Contacts, ToReport(u, c)', ToReport(v, c)'
      PROVE  u = v
  BY <1>2, <1>3, <1>6 DEF ReportInv
<1>7. \A v \in Workers : cpu'[v].at = "terminal" => cpu'[v].call \notin cpu'[v].todo
  BY DEF ReportInv
<1> QED
  BY <1>4, <1>5, <1>6, <1>7 DEF ReportInv

\* A step that leaves nothing new to report.
LEMMA NothingToReport ==
  ASSUME DialerInv, ReportInv, [Next]_vars, UNCHANGED outcomes,
         UNCHANGED cpu \/ \E w \in Workers, f \in GoodFrames : 
           /\ Run(w, f) /\ f.at # "terminal"
           /\ f.todo \subseteq cpu[w].todo
  PROVE  ReportInv'
<1>1. CASE UNCHANGED cpu
  <2>1. \A c \in Contacts : Finished(c) => Finished(c)'
    BY FinishedStays
  <2> QED
    BY <1>1, <2>1 DEF ReportInv, ToReport
<1>2. CASE \E w \in Workers, f \in GoodFrames : 
           Run(w, f) /\ f.at # "terminal" /\ f.todo \subseteq cpu[w].todo
  <2> PICK w \in Workers, f \in GoodFrames : 
           Run(w, f) /\ f.at # "terminal" /\ f.todo \subseteq cpu[w].todo
    BY <1>2
  <2>1. cpu'[w] = f /\ \A v \in Workers \ {w} : cpu'[v] = cpu[v]
    BY DEF Run, DialerInv
  <2>2. \A c \in Contacts : ToReport(w, c)' => ToReport(w, c)
    BY <2>1 DEF ToReport
  <2>3. {} \in SUBSET Contacts /\ \A c \in {} : ~Finished(c) /\ Finished(c)'
    OBVIOUS
  <2>4. \A c \in Contacts : ToReport(w, c)' => ToReport(w, c) \/ c \in {}
    BY <2>2
  <2> QED
    BY <2>1, <2>3, <2>4, ReportStep
<1> QED
  BY <1>1, <1>2

\* A handler that has just finished its call reports it next.
LEMMA ReportsNext ==
  ASSUME DialerInv, ReportInv, [Next]_vars, UNCHANGED outcomes,
         NEW w \in Workers, NEW a, NEW c \in Contacts, c = cpu[w].call,
         ~Finished(c), Finished(c)', Run(w, [cpu[w] EXCEPT !.at = "terminal", !.agent = a])
  PROVE  ReportInv'
<1> DEFINE f == [cpu[w] EXCEPT !.at = "terminal", !.agent = a]
<1>1. cpu'[w] = f /\ \A v \in Workers \ {w} : cpu'[v] = cpu[v]
  BY DEF Run, DialerInv
<1>2. cpu[w] \in Frames
  BY DEF DialerInv, GoodFrames
<1>3. f.at = "terminal" /\ f.call = c /\ f.todo = cpu[w].todo
  BY <1>2 DEF Frames
<1>4. \A d \in Contacts : ToReport(w, d)' => ToReport(w, d) \/ d \in {c}
  BY <1>1, <1>3 DEF ToReport
<1>5. c \notin cpu[w].todo
  BY DEF ReportInv, ToReport
<1>6. {c} \in SUBSET Contacts /\ \A d \in {c} : ~Finished(d) /\ Finished(d)'
  OBVIOUS
<1>7. cpu'[w].call \notin cpu'[w].todo
  BY <1>1, <1>3, <1>5
<1> HIDE DEF f
<1> QED
  BY <1>1, <1>4, <1>6, <1>7, ReportStep

LEMMA ReturnReports ==
  ASSUME DialerInv, NEW w \in Workers, Return(w)
  PROVE  \E f \in GoodFrames : Run(w, f) /\ f.at # "terminal" /\ f.todo \subseteq cpu[w].todo
<1>1. cpu[w].todo \in SUBSET Contacts
  BY DEF DialerInv, DialerTypeOK, Frames
<1>2. /\ Reaper(cpu[w].todo).at = "reap" /\ Reaper(cpu[w].todo).todo = cpu[w].todo
      /\ Idle.at = "none" /\ Idle.todo = {}
  BY DEF Reaper, Idle
<1> QED
  BY <1>1, <1>2, FirstFrames DEF Return

LEMMA ProceedReports ==
  ASSUME DialerInv, ReportInv, NEW w \in Workers, Proceed(w), [Next]_vars
  PROVE  ReportInv'
<1> DEFINE f == cpu[w]
           Quiet == \E g \in GoodFrames : Run(w, g) /\ g.at # "terminal" /\ g.todo \subseteq cpu[w].todo
<1>0. /\ f \in GoodFrames /\ f \in Frames /\ StoreTypeOK
      /\ \A at \in {"answered", "connected", "release", "unanswered", "abandon", "free"} :
           LET g == [f EXCEPT !.at = at]
           IN  g.at # "terminal" /\ g.todo = f.todo
  BY DEF DialerInv, GoodFrames, Frames
<1>a. Quiet /\ UNCHANGED outcomes => ReportInv'
  BY NothingToReport
<1>b. Return(w) => Quiet
  BY ReturnReports
<1>c. ASSUME NEW at \in {"answered", "connected", "release", "unanswered", "abandon", "free"},
             Run(w, [f EXCEPT !.at = at]),
             f.call \in Contacts, at \in {"answered", "connected", "release", "free"} => f.agent \in Agents
      PROVE  Quiet
  <2>1. [f EXCEPT !.at = at] \in GoodFrames
    BY <1>0, <1>c DEF GoodFrames, Frames
  <2> QED
    BY <1>0, <1>c, <2>1
<1>1. CASE BridgeOwnAgent(w)
  <2>1. f.call \in Contacts /\ f.agent \in Agents
    BY <1>0, <1>1 DEF BridgeOwnAgent, HandlerAt, GoodFrames
  <2>2. [f EXCEPT !.at = "unanswered", !.agent = None] \in GoodFrames
    BY <1>0, <2>1, NextStatement
  <2>3. LET g == [f EXCEPT !.at = "unanswered", !.agent = None]
        IN  g.at # "terminal" /\ g.todo = f.todo
    BY <1>0 DEF Frames
  <2> QED
    BY <1>1, <1>a, <1>c, <2>1, <2>2, <2>3 DEF BridgeOwnAgent, stats_vars
<1>2. CASE Apply(w)
  <2>1. f.call \in Contacts /\ f.target \in EventType
    BY <1>0, <1>2 DEF Apply, HandlerAt, GoodFrames
  <2>2. CASE Return(w)
    BY <1>2, <1>a, <1>b, <2>2 DEF Apply, stats_vars
  <2>3. CASE ~Return(w)
    <3>1. /\ f.target \in TERMINAL_CALL_STATES
          /\ ApplyCallTransition(f.call, f.target, ReasonOf(f.target), CallLease)
          /\ Run(w, [f EXCEPT !.at = "terminal", !.agent = calls[f.call].agent_id])
      BY <1>2, <2>3 DEF Apply
    <3> PICK c \in Contacts : c = f.call
      BY <2>1
    <3>2. ~Finished(c) /\ Finished(c)'
      BY <1>0, <2>1, <3>1, AppliedRow DEF Finished
    <3>3. UNCHANGED outcomes
      BY <1>2 DEF Apply, stats_vars
    <3> QED
      BY <3>1, <3>2, <3>3, ReportsNext
  <2> QED
    BY <2>2, <2>3
<1>3. CASE MarkAnswered(w)
  <2>1. f.call \in Contacts /\ f.agent \in Agents
    BY <1>0, <1>3 DEF MarkAnswered, HandlerAt, GoodFrames
  <2> QED
    BY <1>3, <1>a, <1>c, <2>1 DEF MarkAnswered, stats_vars
<1>4. CASE MarkConnected(w) \/ ReleaseBridged(w) \/ FreeCallAgent(w)
  BY <1>4, <1>a, <1>b DEF MarkConnected, ReleaseBridged, FreeCallAgent, stats_vars
<1>5. CASE MarkUnanswered(w)
  <2>1. f.call \in Contacts
    BY <1>0, <1>5 DEF MarkUnanswered, HandlerAt, GoodFrames
  <2> QED
    BY <1>5, <1>a, <1>b, <1>c, <2>1 DEF MarkUnanswered
<1>6. CASE MarkAbandoned(w)
  <2>1. f.call \in Contacts
    BY <1>0, <1>6 DEF MarkAbandoned, HandlerAt, GoodFrames
  <2>2. CASE Return(w)
    BY <1>6, <1>a, <1>b, <2>2 DEF MarkAbandoned, stats_vars
  <2>3. CASE ~Return(w)
    <3>1. /\ ApplyCallTransition(f.call, "FAILED", "abandoned_no_agent", CallLease)
          /\ Run(w, [f EXCEPT !.at = "terminal", !.agent = calls[f.call].agent_id])
      BY <1>6, <2>3 DEF MarkAbandoned
    <3> PICK c \in Contacts : c = f.call
      BY <2>1
    <3>2. ~Finished(c) /\ Finished(c)'
      BY <1>0, <2>1, <3>1, AppliedRow DEF Finished, EventType, TERMINAL_CALL_STATES
    <3>3. UNCHANGED outcomes
      BY <1>6 DEF MarkAbandoned, stats_vars
    <3> QED
      BY <3>1, <3>2, <3>3, ReportsNext
  <2> QED
    BY <2>2, <2>3
<1>7. CASE OnCallTerminal(w)
  <2> DEFINE c == f.call
  <2>1. c \in Contacts /\ f.at = "terminal"
    BY <1>0, <1>7 DEF OnCallTerminal, HandlerAt, GoodFrames
  <2>2. outcomes[c] = 0 /\ Finished(c) /\ c \notin f.todo
    BY <2>1 DEF ReportInv, ToReport
  <2>3. outcomes' = [outcomes EXCEPT ![c] = 1]
    BY <1>7, <2>2 DEF OnCallTerminal
  <2>4. PICK g \in GoodFrames : Run(w, g) /\ g.at # "terminal" /\ g.todo \subseteq f.todo
    <3>1. CASE Return(w)
      BY <3>1, <1>b
    <3>2. CASE ~Return(w)
      <4>1. Run(w, [f EXCEPT !.at = "free"]) /\ f.agent \in Agents
        BY <1>0, <1>7, <3>2 DEF OnCallTerminal, Frames
      <4> QED
        BY <1>c, <2>1, <4>1
    <3> QED
      BY <3>1, <3>2
  <2>5. cpu'[w] = g /\ \A v \in Workers \ {w} : cpu'[v] = cpu[v]
    BY <2>4 DEF Run, DialerInv
  <2>6. \A v \in Workers, d \in Contacts : ToReport(v, d)' => ToReport(v, d) /\ d # c
    <3> SUFFICES ASSUME NEW v \in Workers, NEW d \in Contacts, ToReport(v, d)'
                 PROVE  ToReport(v, d) /\ d # c
      OBVIOUS
    <3>1. ToReport(v, d)
      BY <2>4, <2>5 DEF ToReport
    <3>2. d # c
      <4>1. ToReport(w, c)
        BY <2>1 DEF ToReport
      <4>2. v # w => d # c
        BY <3>1, <4>1 DEF ReportInv
      <4>3. v = w => d # c
        BY <2>2, <2>4, <2>5 DEF ToReport
      <4> QED
        BY <4>2, <4>3
    <3> QED
      BY <3>1, <3>2
  <2>7. \A d \in Contacts : Finished(d) => Finished(d)'
    BY FinishedStays
  <2>8. \A d \in Contacts : outcomes'[d] = IF d = c THEN 1 ELSE outcomes[d]
    BY <2>3 DEF DialerInv, DialerTypeOK
  <2>9. \A v \in Workers : cpu'[v].at = "terminal" => cpu'[v].call \notin cpu'[v].todo
    BY <2>4, <2>5 DEF ReportInv
  <2>10. (\A d \in Contacts : outcomes[d] = 0 \/ (outcomes[d] = 1 /\ Finished(d)))'
    BY <2>2, <2>7, <2>8 DEF ReportInv
  <2>11. (\A v \in Workers, d \in Contacts : ToReport(v, d) => Finished(d) /\ outcomes[d] = 0)'
    BY <2>6, <2>7, <2>8 DEF ReportInv
  <2>12. (\A u \in Workers, v \in Workers, d \in Contacts : ToReport(u, d) /\ ToReport(v, d) => u = v)'
    BY <2>6 DEF ReportInv
  <2> QED
    BY <2>9, <2>10, <2>11, <2>12 DEF ReportInv
<1>8. CASE ReapCallAgent(w)
  <2> PICK c \in f.todo :
        Run(w, [f EXCEPT !.at = "terminal", !.call = c, !.agent = calls[c].agent_id, !.todo = @ \ {c}])
    BY <1>8 DEF ReapCallAgent
  <2> DEFINE g == [f EXCEPT !.at = "terminal", !.call = c, !.agent = calls[c].agent_id, !.todo = @ \ {c}]
  <2>1. g.at = "terminal" /\ g.call = c /\ g.todo = f.todo \ {c} /\ f.todo \in SUBSET Contacts
    BY <1>0 DEF Frames
  <2>2. cpu'[w] = g /\ \A v \in Workers \ {w} : cpu'[v] = cpu[v]
    BY DEF Run, DialerInv
  <2>3. \A d \in Contacts : ToReport(w, d)' => ToReport(w, d)
    BY <2>1, <2>2 DEF ToReport
  <2>4. {} \in SUBSET Contacts /\ \A d \in {} : ~Finished(d) /\ Finished(d)'
    OBVIOUS
  <2>5. \A d \in Contacts : ToReport(w, d)' => ToReport(w, d) \/ d \in {}
    BY <2>3
  <2>6. UNCHANGED outcomes
    BY <1>8 DEF ReapCallAgent, stats_vars
  <2>7. cpu'[w].call \notin cpu'[w].todo
    BY <2>1, <2>2
  <2> HIDE DEF g
  <2> QED
    BY <2>2, <2>4, <2>5, <2>6, <2>7, ReportStep
<1>9. CASE ReapAgents(w)
  <2>1. Idle.at # "terminal" /\ Idle.todo = {}
    BY DEF Idle
  <2> QED
    BY <1>9, <1>a, <2>1, FirstFrames DEF ReapAgents, stats_vars
<1> QED
  BY <1>1, <1>2, <1>3, <1>4, <1>5, <1>6, <1>7, <1>8, <1>9 DEF Proceed

\* Calls of which nobody heard any more, that the reaper has just failed.
LEMMA ReapedRows ==
  ASSUME StoreTypeOK, NEW S \in SUBSET ReclaimableCalls, ReclaimExpiredCallLeases(S)
  PROVE  /\ S \subseteq Contacts
         /\ \A c \in S :
              /\ calls[c].state \in LIVE_CALL_STATES
              /\ calls'[c].state = "FAILED" /\ calls'[c].reason = "provider_timeout"
              /\ calls'[c].reserved_by = calls[c].reserved_by
              /\ calls'[c].connected = calls[c].connected
         /\ \A c \in Contacts \ S : calls'[c] = calls[c]
<1>1. \A c \in Contacts :
        /\ TimedOut(calls[c]).state = "FAILED" /\ TimedOut(calls[c]).reason = "provider_timeout"
        /\ TimedOut(calls[c]).reserved_by = calls[c].reserved_by
        /\ TimedOut(calls[c]).connected = calls[c].connected
  BY DEF TimedOut, StoreTypeOK, CallRow
<1> QED
  BY <1>1 DEF ReclaimExpiredCallLeases, ReclaimableCalls

LEMMA ReaperReports ==
  ASSUME DialerInv, ReportInv, NEW w \in Workers, ReaperPass(w), [Next]_vars
  PROVE  ReportInv'
<1> PICK S \in SUBSET ReclaimableCalls : ReclaimExpiredCallLeases(S) /\ Run(w, Reaper(S))
  BY DEF ReaperPass, ReapCalls
<1>1. S \in SUBSET Contacts
  BY DEF ReclaimableCalls
<1>2. \A c \in S : ~Finished(c) /\ Finished(c)'
  BY <1>1, ReapedRows DEF DialerInv, Finished, LIVE_CALL_STATES, TERMINAL_CALL_STATES
<1>3. UNCHANGED outcomes
  BY DEF ReaperPass, ReapCalls, stats_vars
<1>4. cpu'[w] = Reaper(S) /\ \A v \in Workers \ {w} : cpu'[v] = cpu[v]
  BY DEF Run, DialerInv
<1>5. Reaper(S).at = "reap" /\ Reaper(S).todo = S
  BY DEF Reaper, Idle
<1>6. \A c \in Contacts : ToReport(w, c)' => ToReport(w, c) \/ c \in S
  BY <1>4, <1>5 DEF ToReport
<1> QED
  BY <1>1, <1>2, <1>3, <1>4, <1>5, <1>6, ReportStep

LEMMA StepReports ==
  ASSUME DialerInv, ReportInv, [Next]_vars
  PROVE  ReportInv'
<1> DEFINE Quiet == \/ UNCHANGED cpu
                    \/ \E w \in Workers, f \in GoodFrames : 
                         Run(w, f) /\ f.at # "terminal" /\ f.todo \subseteq cpu[w].todo
<1>0. /\ \A f \in {Idle, DialTask} : f \in GoodFrames /\ f.at # "terminal" /\ f.todo = {}
      /\ \A at, c, a, target : Handler(at, c, a, target).at = at /\ Handler(at, c, a, target).todo = {}
  BY FirstFrames DEF Idle, DialTask, Handler
<1>a. Quiet /\ UNCHANGED outcomes => ReportInv'
  BY NothingToReport
<1>1. ASSUME NEW w \in Workers, DialLoop(w) PROVE ReportInv'
  <2>1. \A d : Continue(w, d) \/ Suspend(w, d) => Quiet
    BY <1>0 DEF Continue, Suspend, Run
  <2>2. \E d : Continue(w, d) \/ Suspend(w, d)
    <3>1. CASE ServeBridges(w)
      BY <3>1 DEF ServeBridges, ServeNext, BridgeReserve, BridgeBreak, BridgeConnect, BridgeAttach,
                  ScanReserve, BeginScan
    <3>2. CASE Dial(w)
      BY <3>2 DEF Dial, DialForAgent, DialSpeculative, Claim, ReturnAgent, Create, Assign, Place,
                  PredictiveTick
    <3> QED
      BY <1>1, <3>1, <3>2 DEF DialLoop
  <2>3. UNCHANGED outcomes
    BY <1>1 DEF DialLoop, stats_vars
  <2> QED
    BY <1>a, <2>1, <2>2, <2>3
<1>2. ASSUME NEW w \in Workers, WrapUpTask(w) PROVE ReportInv'
  BY <1>2, <1>a DEF WrapUpTask, WrapUp, WrapUpRelease, stats_vars
<1>3. ASSUME NEW w \in Workers, NEW c \in Contacts, EventTask(w, c) PROVE ReportInv'
  <2>1. cpu' \in [Workers -> GoodFrames] /\ cpu \in [Workers -> GoodFrames] /\ UNCHANGED outcomes
    BY <1>3, EventKeepsInv DEF EventTask, stats_vars, DialerInv
  <2>2. UNCHANGED cpu \/ \E at \in {"apply", "bridge"} : \E a, target : Run(w, Handler(at, c, a, target))
    BY <1>3 DEF EventTask, HandleDuplicate, HandleStale, HandleEvent, HandleAnswered
  <2>3. ASSUME NEW at \in {"apply", "bridge"}, NEW a, NEW target, Run(w, Handler(at, c, a, target))
        PROVE  Quiet
    <3>1. cpu'[w] = Handler(at, c, a, target)
      BY <2>1, <2>3 DEF Run
    <3>2. Handler(at, c, a, target) \in GoodFrames
      BY <2>1, <3>1
    <3> QED
      BY <1>0, <2>3, <3>2
  <2> QED
    BY <1>a, <2>1, <2>2, <2>3
<1>4. ASSUME NEW w \in Workers, NEW c \in Contacts, BridgeWait(w, c) PROVE ReportInv'
  <2>1. cpu' \in [Workers -> GoodFrames] /\ cpu \in [Workers -> GoodFrames] /\ UNCHANGED outcomes
    BY <1>4, BridgeWaitKeepsInv DEF BridgeWait, stats_vars, DialerInv
  <2>2. \E at \in {"answered", "unanswered"} : \E a, target : Run(w, Handler(at, c, a, target))
    BY <1>4 DEF BridgeWait, BridgeFound, BridgeTimeout
  <2>3. ASSUME NEW at \in {"answered", "unanswered"}, NEW a, NEW target, Run(w, Handler(at, c, a, target))
        PROVE  Quiet
    <3>1. cpu'[w] = Handler(at, c, a, target)
      BY <2>1, <2>3 DEF Run
    <3>2. Handler(at, c, a, target) \in GoodFrames
      BY <2>1, <3>1
    <3> QED
      BY <1>0, <2>3, <3>2
  <2> QED
    BY <1>a, <2>1, <2>2, <2>3
<1>5. ASSUME NEW w \in Workers, Trouble(w) PROVE ReportInv'
  BY <1>0, <1>5, <1>a
     DEF Trouble, Crash, Exit, Vanish, Shutdown, Restart, StoreError, DialLoopEnds, ReaperEnds,
         LoseEvent, Suspend, Run, stats_vars
<1>6. ASSUME NEW c \in Contacts, Provider(c) PROVE ReportInv'
  BY <1>6, <1>a DEF Provider, stats_vars
<1>7. CASE Time \/ UNCHANGED vars
  BY <1>7, <1>a DEF Time, vars, dialer_vars, stats_vars
<1> QED
  BY <1>1, <1>2, <1>3, <1>4, <1>5, <1>6, <1>7, ProceedReports, ReaperReports DEF Next, Worker

\* Every finished call reaches the pacing statistics once at most, whichever of any
\* number of handlers and reapers finished it, and through every crash and restart.
THEOREM ReportedOnce == Spec => []OutcomeReportedOnce
<1>1. Init => ReportInv
  BY DEF Init, ReportInv, ToReport, Idle
<1>2. ReportInv => OutcomeReportedOnce
  BY DEF ReportInv, OutcomeReportedOnce, Finished
<1> QED
  BY <1>1, <1>2, StepReports, DialerInvariant, PTL DEF Spec

-----------------------------------------------------------------------------
(* From the claim to the call *)

\* No method takes a call row away again.
LEMMA RowStays ==
  ASSUME StoreTypeOK, [StoreNext]_store_vars, NEW c \in Contacts, calls[c] # NoCall
  PROVE  calls'[c] # NoCall
<1> USE DEF StoreTypeOK, CallRow
<1>0. NoCall.state = "QUEUED" /\ NoCall.agent_id = None /\ NoCall.lease = NoLease
  BY DEF NoCall
<1>1. ASSUME NEW d \in Contacts, NEW a \in Agents \cup {None}, NEW w \in Workers, CreateCall(d, a, w)
      PROVE  calls'[c] # NoCall
  BY <1>0, <1>1 DEF CreateCall
<1>2. ASSUME NEW d \in Contacts, NEW a \in Agents, AttachAgentToCall(d, a)
      PROVE  calls'[c] # NoCall
  <2>1. CASE d = c
    BY <1>0, <1>2, <2>1, StoreAssumption DEF AttachAgentToCall
  <2>2. CASE d # c
    BY <1>2, <2>2 DEF AttachAgentToCall
  <2> QED
    BY <2>1, <2>2
<1>3. ASSUME NEW d \in Contacts, NEW lease \in Leases, MarkCallInitiated(d, lease)
      PROVE  calls'[c] # NoCall
  BY <1>0, <1>3 DEF MarkCallInitiated
<1>4. ASSUME NEW d \in Contacts, NEW s \in CallState \ {"QUEUED"},
             NEW r \in FailureReason \cup {None}, NEW lease \in Leases,
             ApplyCallTransition(d, s, r, lease)
      PROVE  calls'[c] # NoCall
  <2>1. CASE d = c
    <3>1. calls'[c].state = s
      BY <1>4, <2>1 DEF ApplyCallTransition, Transitioned
    <3> QED
      BY <1>0, <3>1
  <2>2. CASE d # c
    BY <1>4, <2>2 DEF ApplyCallTransition
  <2> QED
    BY <2>1, <2>2
<1>5. ASSUME NEW S \in SUBSET ReclaimableCalls, ReclaimExpiredCallLeases(S)
      PROVE  calls'[c] # NoCall
  <2>1. TimedOut(calls[c]).state = "FAILED"
    BY DEF TimedOut
  <2> QED
    BY <1>0, <1>5, <2>1 DEF ReclaimExpiredCallLeases
<1>6. CASE CallMethod
  BY <1>1, <1>2, <1>3, <1>4, <1>5, <1>6 DEF CallMethod
<1>7. CASE UNCHANGED calls
  BY <1>7
<1>8. CASE Tick
  <2>1. CASE calls[c].lease > 0
    <3>1. calls'[c].lease = calls[c].lease - 1
      BY <1>8, <2>1 DEF Tick, Aged
    <3> QED
      BY <1>0, <2>1, <3>1 DEF NoLease
  <2>2. CASE ~(calls[c].lease > 0)
    BY <1>8, <2>2 DEF Tick, Aged
  <2> QED
    BY <2>1, <2>2
<1> QED
  BY <1>6, <1>7, <1>8 DEF StoreNext, store_vars

LEMMA ClaimStep ==
  ASSUME DialerInv, [Next]_vars, NEW c \in Contacts, ~Forgotten(c), UNCHANGED <<alive, ended>>
  PROVE  ~Forgotten(c)'
<1>0. /\ contacts \in [Contacts -> Workers \cup {None}] /\ StoreTypeOK
      /\ dial \in [Workers -> GoodLoops] /\ [StoreNext]_store_vars
      /\ None \notin Workers
  BY StepKeepsInv, StoreAssumption DEF DialerInv, StoreTypeOK
<1>1. CASE calls[c] # NoCall
  BY <1>0, <1>1, RowStays DEF Forgotten
<1>2. ASSUME NEW w \in Workers, contacts[c] = w, dial[w].at = "create", dial[w].call = c
      PROVE  ~Forgotten(c)'
  <2>1. contacts'[c] = w
    BY <1>0, <1>2 DEF StoreNext, store_vars, ClaimContact, Tick
  <2>2. CASE UNCHANGED dial
    BY <1>2, <2>1, <2>2 DEF Forgotten
  <2>3. CASE DialLoop(w)
    <3>1. Create(w)
      BY <1>2, <2>3
         DEF DialLoop, ServeBridges, ServeNext, BridgeReserve, BridgeBreak, BridgeConnect, BridgeAttach,
             ScanReserve, Dial, DialForAgent, DialSpeculative, Claim, ReturnAgent, Assign, Place,
             PredictiveTick, DialAt
    <3>2. calls'[c].state = "RESERVED" /\ NoCall.state = "QUEUED"
      BY <1>0, <1>2, <3>1 DEF Create, CreateCall, StoreTypeOK, NoCall
    <3> QED
      BY <3>2 DEF Forgotten
  <2>4. ASSUME NEW v \in Workers \ {w}, DialLoop(v)
        PROVE  ~Forgotten(c)'
    <3>1. \E d : Continue(v, d) \/ Suspend(v, d)
      <4>1. CASE ServeBridges(v)
        BY <4>1 DEF ServeBridges, ServeNext, BridgeReserve, BridgeBreak, BridgeConnect, BridgeAttach,
                    ScanReserve, BeginScan
      <4>2. CASE Dial(v)
        BY <4>2 DEF Dial, DialForAgent, DialSpeculative, Claim, ReturnAgent, Create, Assign, Place,
                    PredictiveTick
      <4> QED
        BY <2>4, <4>1, <4>2 DEF DialLoop
    <3>2. dial'[w] = dial[w]
      BY <1>0, <3>1 DEF Continue, Suspend
    <3> QED
      BY <1>2, <2>1, <3>2 DEF Forgotten
  <2>5. ASSUME NEW v \in Workers, Trouble(v)
        PROVE  UNCHANGED dial
    <3>1. ~Crash(v) /\ ~Exit(v) /\ ~Restart(v)
      BY DEF Crash, Exit, Restart, Vanish, MayFail, DialerInv, DialerTypeOK
    <3>2. ~DialLoopEnds(v)
      BY DEF DialLoopEnds, DialAt
    <3> QED
      BY <2>5, <3>1, <3>2 DEF Trouble, Shutdown, StoreError, ReaperEnds, LoseEvent
  <2>6. ASSUME NEW v \in Workers, Worker(v), ~DialLoop(v)
        PROVE  UNCHANGED dial
    BY <2>6 DEF Worker, Proceed, WrapUpTask, ReaperPass, EventTask, BridgeWait
  <2>7. ASSUME NEW d \in Contacts, Provider(d)
        PROVE  UNCHANGED dial
    BY <2>7 DEF Provider
  <2>8. CASE Time \/ UNCHANGED vars
    BY <2>2, <2>8 DEF Time, vars, dialer_vars
  <2> QED
    BY <2>2, <2>3, <2>4, <2>5, <2>6, <2>7, <2>8 DEF Next
<1>3. CASE contacts[c] = None
  <2>1. CASE contacts'[c] = None
    BY <2>1 DEF Forgotten
  <2>2. CASE contacts'[c] # None
    <3>1. PICK w \in Workers : Claim(w)
      <4>1. ~UNCHANGED contacts
        BY <1>3, <2>2
      <4>2. \A w \in Workers : Worker(w) => Claim(w)
        BY <4>1 DEF Worker, DialLoop, ServeBridges, Dial, DialForAgent, DialSpeculative, ReturnAgent, Create,
                    Assign, Place, PredictiveTick, Proceed, WrapUpTask, ReaperPass, EventTask, BridgeWait,
                    store_vars
      <4>3. \A w \in Workers : ~Trouble(w)
        BY <4>1, TroubleKeepsInv DEF store_vars
      <4> QED
        BY <4>1, <4>2, <4>3 DEF Next, Provider, Time, Tick, vars, store_vars
    <3>2. ClaimContact(dial[w].call, w) /\ Continue(w, [dial[w] EXCEPT !.at = "create"])
      BY <1>3, <2>2, <3>1 DEF Claim
    <3>3. dial[w].call = c
      BY <1>0, <1>3, <2>2, <3>2 DEF ClaimContact
    <3>4. contacts'[c] = w
      BY <1>0, <3>2, <3>3 DEF ClaimContact
    <3>5. dial'[w].at = "create" /\ dial'[w].call = c
      BY <1>0, <3>2, <3>3 DEF Continue, GoodLoops, DialLoops
    <3> QED
      BY <3>4, <3>5 DEF Forgotten
  <2> QED
    BY <2>1, <2>2
<1> QED
  BY <1>0, <1>1, <1>2, <1>3 DEF Forgotten

\* A contact that was claimed gets its call, by any number of workers that race for
\* contacts, unless the end of a dial loop or of its process separates the two.
THEOREM ClaimedContactsAreCalled == Spec => NoClaimedContactForgotten
<1>1. DialerInv /\ [Next]_vars =>
        [\A c \in Contacts : Forgotten(c)' => Forgotten(c) \/ <<alive, ended>>' # <<alive, ended>>]_vars
  BY ClaimStep
<1> QED
  BY <1>1, DialerInvariant, PTL DEF Spec, NoClaimedContactForgotten

=============================================================================
