---------------------- MODULE DialerProgressiveProofs ----------------------
(***************************************************************************)
(* In progressive mode every line has an agent who is not on any other     *)
(* call, so no answered call is given up, and while no worker is stopped   *)
(* no agent is left on a finished call.  Proofs checked by TLAPS.          *)
(***************************************************************************)
EXTENDS DialerAgentProofs

-----------------------------------------------------------------------------
(* Every line has an agent who answers it *)

\* The call has been put through to its agent or is about to be, or nobody will
\* hear of it any more.
Taken(c) ==
  \/ calls[c].connected
  \/ \E w \in Workers : cpu[w].at \in {"answered", "connected"} /\ cpu[w].call = c
  \/ Silent(c) /\ \A w \in Workers : cpu[w].at \in OnCall => cpu[w].call # c

\* Every line has an agent, who answers it: none is given up.
ProgInv ==
  /\ \A w \in Workers :
       /\ dial[w].at \notin {"speculate", "pace"}
       /\ dial[w].at \in {"claim", "create"} => dial[w].agent # None
       /\ cpu[w].at \notin {"unanswered", "abandon"}
  /\ \A c \in Contacts :
       /\ calls[c].state # "QUEUED" => calls[c].agent_id # None
       /\ bridge_results[c] = None
       /\ Live(calls[c]) /\ agents[calls[c].agent_id].state = "CONNECTED" =>
            calls[c].state # "RESERVED" /\ Taken(c)
  /\ abandoned = {}

\* No call waits for an agent to be found.
LEMMA NobodyWaits ==
  ASSUME DialerInv, CallInv, LinkInv, ProgInv
  PROVE  /\ \A c \in Contacts : ~Waiting(c)
         /\ \A w \in Workers : ~Bridging(w)
<1>1. ASSUME NEW c \in Contacts PROVE ~Waiting(c)
  BY <1>1 DEF ProgInv, LinkInv, CallInv, RowInv, RowFits, Waiting
<1>2. ASSUME NEW w \in Workers PROVE ~Bridging(w)
  BY <1>1, <1>2, AttachedWaits DEF Waiting
<1> QED
  BY <1>1, <1>2

\* A call that got an agent on the line keeps the fact.
LEMMA ConnectedForGood ==
  ASSUME DialerInv, [Next]_vars, NEW c \in Contacts, calls[c].connected
  PROVE  calls'[c].connected
<1>0. [StoreNext]_store_vars /\ calls \in [Contacts -> CallRow] /\ ~NoCall.connected
  BY StepKeepsInv DEF DialerInv, StoreTypeOK, NoCall
<1>1. ASSUME NEW d \in Contacts, NEW a \in Agents \cup {None}, NEW w \in Workers, CreateCall(d, a, w)
      PROVE  calls'[c].connected
  BY <1>0, <1>1 DEF CreateCall
<1>2. ASSUME NEW d \in Contacts, NEW a \in Agents, AttachAgentToCall(d, a)
      PROVE  calls'[c].connected
  BY <1>0, <1>2 DEF AttachAgentToCall, CallRow
<1>3. ASSUME NEW d \in Contacts, NEW lease \in Leases, MarkCallInitiated(d, lease)
      PROVE  calls'[c].connected
  BY <1>0, <1>3 DEF MarkCallInitiated, CallRow
<1>4. ASSUME NEW d \in Contacts, NEW s \in CallState \ {"QUEUED"},
             NEW r \in FailureReason \cup {None}, NEW lease \in Leases,
             ApplyCallTransition(d, s, r, lease)
      PROVE  calls'[c].connected
  BY <1>0, <1>4 DEF ApplyCallTransition, Transitioned, CallRow
<1>5. ASSUME NEW S \in SUBSET ReclaimableCalls, ReclaimExpiredCallLeases(S)
      PROVE  calls'[c].connected
  BY <1>0, <1>5 DEF ReclaimExpiredCallLeases, TimedOut, CallRow
<1>6. CASE CallMethod
  BY <1>1, <1>2, <1>3, <1>4, <1>5, <1>6 DEF CallMethod
<1>7. CASE Tick
  BY <1>0, <1>7 DEF Tick, Aged, CallRow
<1> QED
  BY <1>0, <1>6, <1>7 DEF StoreNext, store_vars

\* A worker that is not at work on c, and does not take it up, changes nothing in that.
LEMMA StaysTaken ==
  ASSUME NEW w \in Workers, NEW c \in Contacts, Taken(c), Silent(c) => Silent(c)',
         calls[c].connected => calls'[c].connected,
         \A v \in Workers \ {w} : cpu'[v] = cpu[v],
         cpu[w].at \in {"answered", "connected"} => cpu[w].call # c,
         cpu'[w].at \in OnCall => cpu'[w].call # c
  PROVE  Taken(c)'
BY DEF Taken

\* Who puts an agent on the line.
LEMMA ConnectsAgent ==
  ASSUME DialerInv, [Next]_vars, NEW a \in Agents,
         agents[a].state # "CONNECTED", agents'[a].state = "CONNECTED"
  PROVE  \E w \in Workers :
           \/ Bridging(w)
           \/ /\ Proceed(w) /\ BridgeOwnAgent(w) /\ cpu[w].at = "bridge" /\ cpu[w].agent = a
              /\ UNCHANGED calls /\ \A b \in Agents \ {a} : agents'[b] = agents[b]
<1>1. PICK w \in Workers, c \in Contacts : GoesOnCall(w, a, c)
  BY CallOfAgent DEF KeepsCall, InCall
<1>2. CASE DialLoop(w) /\ dial[w].at = "connect"
  BY <1>2 DEF Bridging
<1>3. CASE DialLoop(w) /\ dial[w].at = "assign" /\ a = dial[w].agent
  <2>1. Assign(w) /\ StoreTypeOK
    BY <1>3, LoopLine DEF DialerInv
  <2>2. TransitionAgent(a, w, "DIALING", {"RESERVED"}, dial[w].call, CallLease)
    BY <1>3, <2>1 DEF Assign, TryTransitionAgent
  <2> QED
    BY <2>1, <2>2, MovedAgent
<1>4. CASE Proceed(w) /\ cpu[w].at = "bridge" /\ a = cpu[w].agent
  <2>1. BridgeOwnAgent(w)
    BY <1>4 DEF Proceed, Apply, MarkAnswered, MarkConnected, ReleaseBridged, MarkUnanswered, MarkAbandoned,
                OnCallTerminal, FreeCallAgent, ReapCallAgent, ReapAgents, HandlerAt
  <2> QED
    BY <1>1, <1>4, <2>1 DEF GoesOnCall
<1> QED
  BY <1>1, <1>2, <1>3, <1>4 DEF GoesOnCall

\* A call that is taken stays so.
LEMMA TakenStays ==
  ASSUME ~LeasesExpire, DialerInv, DialerInv', CallInv, LinkInv, AgentInv, ProgInv, [Next]_vars,
         NEW c \in Contacts, Live(calls[c]), calls[c].state # "RESERVED", Taken(c)
  PROVE  Taken(c)'
<1>0. ~Finished(c) /\ ~Waiting(c) /\ calls[c].state \notin {"QUEUED", "RESERVED"}
  BY NobodyWaits DEF Finished, Live, LIVE_CALL_STATES, TERMINAL_CALL_STATES
<1>a. calls[c].connected => calls'[c].connected
  BY ConnectedForGood
<1>b. UNCHANGED cpu /\ (Silent(c) => Silent(c)') => Taken(c)'
  BY <1>a DEF Taken
<1>c. UNCHANGED net_vars => (Silent(c) => Silent(c)')
  BY DEF net_vars, Silent
<1>d. ASSUME NEW v \in Workers, cpu[v].at \in OnCall, cpu[v].call = c
      PROVE  calls[c].reserved_by = v
  BY <1>0, <1>d, OneTask DEF OnCall
<1>1. ASSUME NEW w \in Workers, DialLoop(w) PROVE Taken(c)'
  <2>1. /\ inbox'[c] = inbox[c] /\ provider'[c] = provider[c]
        /\ cpu[w].at \notin OnCall /\ cpu'[w].at \notin OnCall
        /\ \A v \in Workers \ {w} : cpu'[v] = cpu[v]
    BY <1>0, <1>1, LoopElsewhere
  <2> QED
    BY <1>a, <2>1, StaysTaken DEF Silent, OnCall
<1>2. ASSUME NEW w \in Workers, Proceed(w) PROVE Taken(c)'
  <2>1. CASE cpu[w].at \in OnCall /\ cpu[w].call = c
    <3>0. CanApply(c) /\ cpu[w] \in Frames
      BY <2>1, HandledCall
    <3>1. CASE calls[c].connected
      BY <1>a, <3>1 DEF Taken
    <3>2. CASE ~calls[c].connected
      <4>1. cpu[w].at \in {"answered", "connected"}
        BY <1>d, <2>1, <3>2 DEF Taken, OnCall
      <4>2. CASE cpu[w].at = "answered"
        <5>1. MarkAnswered(w)
          BY <1>2, <4>2 DEF Proceed, BridgeOwnAgent, Apply, MarkConnected, ReleaseBridged, MarkUnanswered,
                            MarkAbandoned, OnCallTerminal, FreeCallAgent, ReapCallAgent, ReapAgents, HandlerAt
        <5>2. Run(w, [cpu[w] EXCEPT !.at = "connected"])
          BY <2>1, <3>0, <5>1 DEF MarkAnswered
        <5>3. cpu'[w].at = "connected" /\ cpu'[w].call = c
          BY <2>1, <3>0, <5>2, FrameGoesOn DEF Run, DialerInv
        <5> QED
          BY <5>3 DEF Taken
      <4>3. CASE cpu[w].at = "connected"
        <5>1. MarkConnected(w)
          BY <1>2, <4>3 DEF Proceed, BridgeOwnAgent, Apply, MarkAnswered, ReleaseBridged, MarkUnanswered,
                            MarkAbandoned, OnCallTerminal, FreeCallAgent, ReapCallAgent, ReapAgents, HandlerAt
        <5>2. ApplyCallTransition(c, "CONNECTED", None, CallLease)
          BY <2>1, <3>0, <5>1 DEF MarkConnected
        <5>3. calls'[c].connected
          BY <5>2, AppliedRow DEF EventType, DialerInv
        <5> QED
          BY <5>3 DEF Taken
      <4> QED
        BY <4>1, <4>2, <4>3
    <3> QED
      BY <3>1, <3>2
  <2>2. CASE ~(cpu[w].at \in OnCall /\ cpu[w].call = c)
    <3>1. /\ UNCHANGED net_vars
          /\ \A v \in Workers \ {w} : cpu'[v] = cpu[v]
          /\ cpu'[w].at \in OnCall => cpu'[w].call # c
      BY <1>2, <2>2, ProceedElsewhere
    <3> QED
      BY <1>a, <1>c, <2>2, <3>1, StaysTaken DEF OnCall
  <2> QED
    BY <2>1, <2>2
<1>3. ASSUME NEW w \in Workers, WrapUpTask(w) PROVE Taken(c)'
  BY <1>3, <1>b, <1>c DEF WrapUpTask, WrapUp, WrapUpRelease
<1>4. ASSUME NEW w \in Workers, NEW d \in Contacts, EventTask(w, d) PROVE Taken(c)'
  <2>0. /\ cpu[w] = Idle /\ d \in Own(w) /\ inbox[d] # <<>>
        /\ inbox' = [inbox EXCEPT ![d] = Tail(@)]
        /\ UNCHANGED <<calls, provider>>
    BY <1>4 DEF EventTask, HandleDuplicate, HandleStale, HandleEvent, HandleAnswered, Deliver, Ready
  <2>1. Idle.at \notin OnCall
    BY DEF Idle, OnCall
  <2>2. CASE calls[c].connected
    BY <1>a, <2>2 DEF Taken
  <2>3. CASE ~calls[c].connected
    <3>1. d # c
      BY <1>d, <2>0, <2>1, <2>3 DEF Taken, Silent, Own, OnCall
    <3>2. Silent(c) => Silent(c)'
      BY <2>0, <3>1 DEF Silent, DialerInv, DialerTypeOK
    <3>3. UNCHANGED cpu \/ \E at, a, target : Run(w, Handler(at, d, a, target))
      BY <1>4 DEF EventTask, HandleDuplicate, HandleStale, HandleEvent, HandleAnswered
    <3>4. \A at, a, target : Handler(at, d, a, target).call = d
      BY DEF Handler, Idle
    <3>5. (\A v \in Workers \ {w} : cpu'[v] = cpu[v]) /\ (cpu'[w].at \in OnCall => cpu'[w].call # c)
      BY <2>0, <2>1, <3>1, <3>3, <3>4 DEF Run, DialerInv
    <3> QED
      BY <1>a, <2>0, <2>1, <3>2, <3>5, StaysTaken DEF OnCall
  <2> QED
    BY <2>2, <2>3
<1>5. ASSUME NEW w \in Workers, NEW d \in Contacts PROVE ~BridgeWait(w, d)
  BY NobodyWaits DEF BridgeWait, BridgeFound, BridgeTimeout, Waiting
<1>6. ASSUME NEW w \in Workers, Trouble(w) PROVE Taken(c)'
  <2>1. ASSUME Vanish(w) PROVE Taken(c)'
    <3>1. cpu'[w].at \notin OnCall /\ \A v \in Workers \ {w} : cpu'[v] = cpu[v]
      BY <2>1 DEF Vanish, DialerInv, Idle, OnCall
    <3>2. CASE c \in Own(w)
      <4>1. Silent(c)'
        BY <2>1, <3>2 DEF Vanish, Silent
      <4>2. \A v \in Workers : cpu'[v].at \in OnCall => cpu'[v].call # c
        BY <1>d, <3>1, <3>2 DEF Own
      <4> QED
        BY <4>1, <4>2 DEF Taken
    <3>3. CASE c \notin Own(w)
      <4>1. Silent(c) => Silent(c)'
        BY <2>1, <3>3 DEF Vanish, Silent
      <4>2. cpu[w].at \in {"answered", "connected"} => cpu[w].call # c
        BY <1>d, <3>3 DEF Own, OnCall
      <4> QED
        BY <1>a, <3>1, <4>1, <4>2, StaysTaken
    <3> QED
      BY <3>2, <3>3
  <2>2. ASSUME Shutdown(w) \/ Restart(w) PROVE Taken(c)'
    BY <1>b, <1>c, <2>2 DEF Shutdown, Restart
  <2>3. ASSUME StoreError(w) PROVE Taken(c)'
    <3>1. Run(w, Idle) /\ UNCHANGED net_vars /\ cpu[w].at \notin OnCall
      <4>1. cpu[w].task \in {"none", "dial", "reap"} /\ Run(w, Idle)
        BY <2>3 DEF StoreError, DialLoopEnds, ReaperEnds, DialAt, Suspend, Run, Ready, Idle
      <4> QED
        BY <2>3, <4>1 DEF StoreError, CallInv, FrameInv, Fits
    <3>2. cpu'[w].at \notin OnCall /\ \A v \in Workers \ {w} : cpu'[v] = cpu[v]
      BY <3>1 DEF Run, Idle, OnCall, DialerInv
    <3> QED
      BY <1>a, <1>c, <3>1, <3>2, StaysTaken DEF OnCall
  <2>4. ASSUME NEW d \in Contacts, LoseEvent(w, d) PROVE Taken(c)'
    <3>1. Silent(c) => Silent(c)'
      BY <2>4 DEF LoseEvent, Silent, DialerInv, DialerTypeOK
    <3> QED
      BY <1>b, <2>4, <3>1 DEF LoseEvent
  <2> QED
    BY <1>6, <2>1, <2>2, <2>3, <2>4 DEF Trouble, Crash, Exit
<1>7. ASSUME NEW d \in Contacts, Provider(d) PROVE Taken(c)'
  <2>1. PICK step, next, events : step \in {"placed", "rung", "answered"} /\ Emit(d, step, next, events)
    BY <1>7 DEF Provider, ProviderStep, ProviderBStep
  <2>2. Silent(c) => Silent(c)'
    BY <2>1 DEF Emit, Silent, DialerInv, DialerTypeOK
  <2> QED
    BY <1>7, <1>b, <2>2 DEF Provider
<1>8. CASE UNCHANGED vars
  BY <1>8, <1>b, <1>c DEF vars, dialer_vars
<1> QED
  BY <1>1, <1>2, <1>3, <1>4, <1>5, <1>6, <1>7, <1>8 DEF Next, Worker, ReaperPass, ReapCalls, Time

\* Where a dial loop goes whose every line has an agent.
Lined(d) == d.at \notin {"speculate", "pace"} /\ (d.at \in {"claim", "create"} => d.agent # None)

\* The loop goes on with such a line or starts again.
LEMMA LinedLoop ==
  ASSUME DialerInv, NEW w \in Workers, NEW d, Lined(d), Continue(w, d) \/ Suspend(w, d)
  PROVE  Lined(dial'[w])
<1>1. Lined(DialStart)
  BY DEF Lined, DialStart
<1> QED
  BY <1>1, LoopCpu

\* After the line of an agent comes another agent's, or the next tick.
LEMMA NextUnitLined ==
  ASSUME ~Predictive, NEW d \in DialLoops, d.agent # None
  PROVE  Lined(NextUnit(d))
BY DEF NextUnit, DialLoops, NextLine, Lined

\* A progressive dial loop keeps to lines with an agent.
LEMMA LoopStaysLined ==
  ASSUME ~Predictive, DialerInv, CallInv, LinkInv, AgentInv, ProgInv, NEW w \in Workers, DialLoop(w)
  PROVE  Lined(dial'[w])
<1> DEFINE d == dial[w]
<1>0. /\ d \in DialLoops /\ d \in GoodLoops /\ Lined(d) /\ ~Bridging(w) /\ LoopSound(w, d, agents, calls)
      /\ None \notin Agents
  BY NobodyWaits, StoreAssumption DEF DialerInv, GoodLoops, ProgInv, Lined, AgentInv
<1>a. \A listed, held : NextLine(listed, held) \in {"scan", "dial", "top"}
  BY DEF NextLine
<1>b. ASSUME NEW e, Continue(w, e) \/ Suspend(w, e), e.at \in {"scan", "dial", "top", "return", "assign", "place"}
      PROVE  Lined(dial'[w])
  BY <1>b, LinedLoop DEF Lined
<1>1. CASE BeginScan(w)
  <2> DEFINE e == [DialStart EXCEPT !.at = NextLine(AvailableAgents, {}), !.listed = AvailableAgents]
  <2>1. e.at \in {"scan", "dial", "top"} /\ (Continue(w, e) \/ Suspend(w, e))
    BY <1>1, <1>a DEF BeginScan, DialStart
  <2> HIDE DEF e
  <2> QED
    BY <1>b, <2>1
<1>2. CASE ServeNext(w)
  <2>1. ASSUME NEW c \in pending_bridges PROVE FALSE
    BY <2>1, NobodyWaits DEF Waiting, DialerInv, DialerTypeOK
  <2> QED
    BY <1>1, <1>2, <2>1 DEF ServeNext
<1>3. ~BridgeReserve(w) /\ ~BridgeBreak(w) /\ ~BridgeConnect(w) /\ ~BridgeAttach(w)
  BY <1>0 DEF BridgeReserve, BridgeBreak, BridgeConnect, BridgeAttach, DialAt, Bridging
<1>4. CASE ScanReserve(w)
  <2>1. PICK listed, held : Suspend(w, [d EXCEPT !.listed = listed, !.held = held, !.at = NextLine(listed, held)])
    BY <1>4 DEF ScanReserve
  <2> DEFINE e == [d EXCEPT !.listed = listed, !.held = held, !.at = NextLine(listed, held)]
  <2>2. e.at \in {"scan", "dial", "top"} /\ Suspend(w, e)
    BY <1>0, <1>a, <2>1 DEF DialLoops
  <2> HIDE DEF e
  <2> QED
    BY <1>b, <2>2
<1>5. CASE DialForAgent(w)
  <2>1. PICK a \in d.held :
          LET u == [d EXCEPT !.held = @ \ {a}, !.agent = a]
          IN  \/ Continue(w, [u EXCEPT !.at = "return"])
              \/ \E c \in UnclaimedContacts : Continue(w, [u EXCEPT !.at = "claim", !.call = c])
    BY <1>5 DEF DialForAgent
  <2> DEFINE u == [d EXCEPT !.held = @ \ {a}, !.agent = a]
             e == [u EXCEPT !.at = "return"]
             g(c) == [u EXCEPT !.at = "claim", !.call = c]
  <2>2. a \in Agents /\ e.at = "return" /\ \A c : g(c).at = "claim" /\ g(c).agent = a
    BY <1>0 DEF DialLoops
  <2>3. Continue(w, e) \/ \E c \in UnclaimedContacts : Continue(w, g(c))
    BY <2>1
  <2> HIDE DEF e, g
  <2>4. \A c : Lined(g(c))
    BY <1>0, <2>2 DEF Lined
  <2> QED
    BY <1>b, <2>2, <2>3, <2>4, LinedLoop
<1>6. ~DialSpeculative(w) /\ ~PredictiveTick(w)
  BY <1>0 DEF DialSpeculative, PredictiveTick, DialAt, Lined
<1>7. CASE Claim(w)
  <2> DEFINE e == [d EXCEPT !.at = "create"]
             g == [d EXCEPT !.at = "return", !.call = None]
  <2>1. d.agent # None
    BY <1>0, <1>7 DEF Claim, DialAt, Lined
  <2>2. e.at = "create" /\ e.agent = d.agent /\ g.at = "return"
    BY <1>0 DEF DialLoops
  <2>3. Continue(w, e) \/ Continue(w, g)
    BY <1>7, <2>1 DEF Claim
  <2> HIDE DEF e, g
  <2>4. Lined(e)
    BY <2>1, <2>2 DEF Lined
  <2> QED
    BY <1>b, <2>2, <2>3, <2>4, LinedLoop
<1>8. CASE ReturnAgent(w)
  <2>1. d.agent # None /\ Suspend(w, NextUnit(d))
    BY <1>0, <1>8 DEF ReturnAgent, DialAt, GoodLoops
  <2> QED
    BY <1>0, <2>1, NextUnitLined, LinedLoop
<1>9. CASE Create(w)
  <2> DEFINE at == IF d.agent # None THEN "assign" ELSE "place"
             e == [d EXCEPT !.at = at]
  <2>1. e.at \in {"assign", "place"} /\ Continue(w, e)
    BY <1>0, <1>9 DEF Create, DialLoops
  <2> HIDE DEF e
  <2> QED
    BY <1>b, <2>1
<1>10. CASE Assign(w)
  <2> DEFINE e == [d EXCEPT !.at = "place"]
  <2>1. e.at = "place" /\ Continue(w, e)
    BY <1>0, <1>10 DEF Assign, DialLoops
  <2> HIDE DEF e
  <2> QED
    BY <1>b, <2>1
<1>11. CASE Place(w)
  <2>1. d.at = "place" /\ d.call \in Contacts /\ Suspend(w, NextUnit(d))
    BY <1>0, <1>11 DEF Place, DialAt, GoodLoops
  <2>2. d.agent # None
    BY <1>0, <2>1 DEF LoopSound, ProgInv
  <2> QED
    BY <1>0, <2>1, <2>2, NextUnitLined, LinedLoop
<1> QED
  BY <1>2, <1>3, <1>4, <1>5, <1>6, <1>7, <1>8, <1>9, <1>10, <1>11 DEF DialLoop, ServeBridges, Dial

\* A row that appears is a dial loop's.
LEMMA NewCall ==
  ASSUME DialerInv, CallInv, [Next]_vars, NEW c \in Contacts, calls[c].state = "QUEUED",
         calls'[c].state # "QUEUED"
  PROVE  \E w \in Workers :
           /\ DialLoop(w) /\ dial[w].at = "create" /\ dial[w].call = c
           /\ calls'[c].agent_id = dial[w].agent
           /\ UNCHANGED agents
<1>0. StoreTypeOK
  BY DEF DialerInv
<1>1. ASSUME NEW w \in Workers, DialLoop(w)
      PROVE  /\ dial[w].at = "create" /\ dial[w].call = c
             /\ calls'[c].agent_id = dial[w].agent
             /\ UNCHANGED agents
  <2>1. CASE dial[w].at = "attach"
    <3>1. AttachAgentToCall(dial[w].call, dial[w].agent) /\ dial[w].call \in Contacts
      BY <1>1, <2>1, LoopLine DEF BridgeAttach, DialerInv, GoodLoops
    <3> QED
      BY <1>0, <3>1, AttachedCall DEF SameRow
  <2>2. CASE dial[w].at = "create"
    <3>1. CreateCall(dial[w].call, dial[w].agent, w) /\ dial[w].call \in Contacts /\ UNCHANGED agents
      BY <1>1, <2>2, LoopLine DEF Create, DialerInv, GoodLoops
    <3>2. calls'[dial[w].call].agent_id = dial[w].agent /\ (c # dial[w].call => calls'[c] = calls[c])
      BY <1>0, <3>1, CreatedCall, ZenonT(60)
    <3> QED
      BY <2>2, <3>1, <3>2
  <2>3. CASE dial[w].at = "place"
    <3>1. MarkCallInitiated(dial[w].call, CallLease) /\ dial[w].call \in Contacts
      BY <1>1, <2>3, LoopLine DEF Place, DialerInv, GoodLoops
    <3> QED
      BY <1>0, <3>1, PlacedCall
  <2> QED
    BY <1>1, <2>1, <2>2, <2>3, LoopLine
<1>2. ASSUME NEW w \in Workers, Proceed(w) PROVE FALSE
  <2>1. ~(cpu[w].at \in OnCall /\ cpu[w].call = c)
    BY AtWork DEF Fits
  <2> QED
    BY <1>2, <2>1, ProceedElsewhere
<1>3. ASSUME NEW w \in Workers, ReaperPass(w) PROVE FALSE
  <2>1. PICK S \in SUBSET ReclaimableCalls : ReclaimExpiredCallLeases(S)
    BY <1>3 DEF ReaperPass, ReapCalls
  <2> QED
    BY <1>0, <2>1, ReapedRows DEF LIVE_CALL_STATES
<1>4. ASSUME NEW w \in Workers, Worker(w), ~DialLoop(w), ~Proceed(w), ~ReaperPass(w) PROVE FALSE
  BY <1>4 DEF Worker, WrapUpTask, WrapUp, WrapUpRelease, EventTask, BridgeWait, store_vars
<1>5. ASSUME NEW w \in Workers, Trouble(w) PROVE FALSE
  BY <1>5, TroubleKeepsInv DEF store_vars
<1>6. ~Time
  <2>1. ASSUME Time PROVE FALSE
    <3>1. calls'[c] = Aged(calls[c]) /\ calls[c] \in CallRow
      BY <1>0, <2>1 DEF Time, Tick, StoreTypeOK
    <3> QED
      BY <3>1 DEF Aged, CallRow
  <2> QED
    BY <2>1
<1>7. ~UNCHANGED vars /\ \A d \in Contacts : ~Provider(d)
  BY DEF vars, store_vars, Provider
<1> QED
  BY <1>1, <1>2, <1>3, <1>4, <1>5, <1>6, <1>7 DEF Next

\* An answered call's agent can be put on the line.
LEMMA OwnAgentIsReady ==
  ASSUME DialerInv, CallInv, LinkInv, AgentInv, ProgInv, NEW w \in Workers, cpu[w].at = "bridge"
  PROVE  CanTransition(cpu[w].agent, w, "CONNECTED", {"DIALING"})
<1> DEFINE c == cpu[w].call
           a == cpu[w].agent
<1>1. c \in Contacts /\ Live(calls[c]) /\ calls[c].reserved_by = w /\ cpu[w].at \in OnCall
  BY HandledCall DEF OnCall
<1>2. a \in Agents /\ a # None /\ calls[c].agent_id = a
  BY StoreAssumption DEF DialerInv, GoodFrames, LinkInv
<1>3. Engaged(agents[a], w, c)
  BY <1>1, <1>2, HandledCall
<1>4. ~calls[c].connected
  BY <1>1, AtWork DEF Fits
<1>5. ASSUME NEW v \in Workers, cpu[v].at \in OnCall, cpu[v].call = c PROVE v = w
  <2>1. ~Finished(c)
    BY <1>1 DEF Finished, Live, LIVE_CALL_STATES, TERMINAL_CALL_STATES
  <2> QED
    BY <1>1, <1>5, <2>1, OneTask DEF OnCall
<1>6. ~Taken(c)
  BY <1>1, <1>4, <1>5 DEF Taken, OnCall
<1>7. agents[a].state = "DIALING"
  BY <1>1, <1>2, <1>3, <1>6 DEF ProgInv, Engaged, Busy
<1> QED
  BY <1>3, <1>7 DEF CanTransition, Engaged, AgentEdge, AGENT_TRANSITIONS, AgentState

\* No handler turns to giving a call up.
LEMMA NobodyGivesUp ==
  ASSUME ~LeasesExpire, DialerInv, CallInv, LinkInv, AgentInv, ProgInv, [Next]_vars, NEW w \in Workers
  PROVE  cpu'[w].at \notin {"unanswered", "abandon"}
<1> DEFINE Kept == cpu'[w].at \notin {"unanswered", "abandon"}
<1>0. cpu \in [Workers -> GoodFrames] /\ cpu[w] \in Frames /\ cpu[w].at \notin {"unanswered", "abandon"}
  BY DEF DialerInv, GoodFrames, ProgInv
<1>a. ASSUME NEW v \in Workers, NEW f, Run(v, f), v = w => f.at \notin {"unanswered", "abandon"} PROVE Kept
  BY <1>0, <1>a DEF Run
<1>b. /\ Idle.at = "none" /\ DialTask.at = "none" /\ \A todo : Reaper(todo).at = "reap"
  BY DEF Idle, DialTask, Reaper
<1>1. ASSUME NEW v \in Workers, DialLoop(v) PROVE Kept
  <2>1. PICK d : Continue(v, d) \/ Suspend(v, d)
    BY <1>1 DEF DialLoop, ServeBridges, Dial, ServeNext, BridgeReserve, BridgeBreak, BridgeConnect,
                BridgeAttach, ScanReserve, DialForAgent, DialSpeculative, Claim, ReturnAgent, Create, Assign,
                Place, PredictiveTick, BeginScan
  <2> QED
    BY <1>0, <2>1, LoopMove
<1>2. ASSUME NEW v \in Workers, Proceed(v) PROVE Kept
  <2>0. cpu[v] \in Frames /\ cpu[v].at \notin {"unanswered", "abandon"}
    BY <1>0 DEF GoodFrames, ProgInv
  <2>1. ASSUME Return(v) PROVE Kept
    BY <1>a, <1>b, <2>1 DEF Return
  <2>2. ASSUME NEW next \in {"answered", "connected", "release", "terminal", "free"}, NEW b,
               \/ Run(v, [cpu[v] EXCEPT !.at = next])
               \/ Run(v, [cpu[v] EXCEPT !.at = next, !.agent = b])
        PROVE  Kept
    <3>1. /\ [cpu[v] EXCEPT !.at = next].at = next
          /\ [cpu[v] EXCEPT !.at = next, !.agent = b].at = next
      BY <2>0, FrameGoesOn
    <3> QED
      BY <1>a, <2>2, <3>1
  <2>3. ASSUME NEW d, NEW a, NEW todo,
               Run(v, [cpu[v] EXCEPT !.at = "terminal", !.call = d, !.agent = a, !.todo = todo])
        PROVE  Kept
    BY <1>0, <2>0, <2>3 DEF Run, Frames
  <2>4. CASE BridgeOwnAgent(v)
    <3>1. Run(v, [cpu[v] EXCEPT !.at = "answered"])
      BY <2>4, OwnAgentIsReady DEF BridgeOwnAgent, HandlerAt
    <3> QED
      BY <2>2, <3>1
  <2>5. CASE MarkAnswered(v) \/ OnCallTerminal(v) \/ Apply(v)
    BY <2>1, <2>2, <2>5 DEF MarkAnswered, OnCallTerminal, Apply
  <2>6. CASE MarkConnected(v) \/ ReleaseBridged(v) \/ FreeCallAgent(v)
    BY <2>1, <2>6 DEF MarkConnected, ReleaseBridged, FreeCallAgent
  <2>7. ~MarkUnanswered(v) /\ ~MarkAbandoned(v)
    BY <2>0 DEF MarkUnanswered, MarkAbandoned, HandlerAt
  <2>8. CASE ReapCallAgent(v)
    BY <2>3, <2>8 DEF ReapCallAgent
  <2>9. CASE ReapAgents(v)
    BY <1>a, <1>b, <2>9 DEF ReapAgents
  <2> QED
    BY <1>2, <2>4, <2>5, <2>6, <2>7, <2>8, <2>9 DEF Proceed
<1>3. ASSUME NEW v \in Workers, WrapUpTask(v) \/ ReaperPass(v) PROVE Kept
  BY <1>0, <1>a, <1>b, <1>3 DEF WrapUpTask, WrapUp, WrapUpRelease, ReaperPass, ReapCalls
<1>4. ASSUME NEW v \in Workers, NEW c \in Contacts PROVE ~BridgeWait(v, c)
  BY NobodyWaits DEF BridgeWait, BridgeFound, BridgeTimeout, Waiting
<1>5. ASSUME NEW v \in Workers, NEW c \in Contacts, EventTask(v, c) PROVE Kept
  <2>1. \A a, target : /\ Handler("apply", c, a, target).at = "apply"
                       /\ Handler("bridge", c, a, target).at = "bridge"
    BY DEF Handler, Idle
  <2> QED
    BY <1>0, <1>a, <1>5, <2>1 DEF EventTask, HandleDuplicate, HandleStale, HandleEvent, HandleAnswered
<1>6. ASSUME NEW v \in Workers, Trouble(v) PROVE Kept
  <2>1. CASE Vanish(v)
    BY <1>0, <1>b, <2>1 DEF Vanish
  <2>2. CASE DialLoopEnds(v)
    BY <1>0, <1>b, <2>2 DEF DialLoopEnds, Suspend
  <2>3. CASE ReaperEnds(v)
    BY <1>a, <1>b, <2>3 DEF ReaperEnds
  <2>4. CASE UNCHANGED cpu
    BY <1>0, <2>4
  <2> QED
    BY <1>6, <2>1, <2>2, <2>3, <2>4 DEF Trouble, Crash, Exit, Shutdown, Restart, StoreError, LoseEvent
<1>7. CASE Time \/ UNCHANGED vars \/ \E c \in Contacts : Provider(c)
  BY <1>0, <1>7 DEF Time, vars, dialer_vars, Provider
<1> QED
  BY <1>1, <1>2, <1>3, <1>4, <1>5, <1>6, <1>7 DEF Next, Worker

\* No call is given up, and no agent is found for one that waits.
LEMMA NothingPromised ==
  ASSUME ~LeasesExpire, DialerInv, CallInv, LinkInv, ProgInv, [Next]_vars
  PROVE  abandoned' = {} /\ \A c \in Contacts : bridge_results'[c] = None
<1>0. abandoned = {} /\ \A c \in Contacts : bridge_results[c] = None
  BY DEF ProgInv
<1>1. ASSUME NEW w \in Workers, DialLoop(w) PROVE UNCHANGED <<abandoned, bridge_results>>
  <2>1. ~BridgeAttach(w)
    BY NobodyWaits DEF BridgeAttach, DialAt, Bridging
  <2> QED
    BY <1>1, <2>1 DEF DialLoop, ServeBridges, Dial, ServeNext, BridgeReserve, BridgeBreak, BridgeConnect,
                      ScanReserve, bridge_vars, stats_vars
<1>2. ASSUME NEW w \in Workers, Proceed(w) PROVE UNCHANGED <<abandoned, bridge_results>>
  <2>1. ~MarkUnanswered(w)
    BY DEF MarkUnanswered, HandlerAt, ProgInv
  <2> QED
    BY <1>2, <2>1 DEF Proceed, BridgeOwnAgent, Apply, MarkAnswered, MarkConnected, ReleaseBridged,
                      MarkAbandoned, OnCallTerminal, FreeCallAgent, ReapCallAgent, ReapAgents, bridge_vars,
                      stats_vars
<1>3. ASSUME NEW w \in Workers, WrapUpTask(w) PROVE UNCHANGED <<abandoned, bridge_results>>
  BY <1>3 DEF WrapUpTask, WrapUp, WrapUpRelease, bridge_vars, stats_vars
<1>4. ASSUME NEW w \in Workers, NEW c \in Contacts, EventTask(w, c)
      PROVE  UNCHANGED <<abandoned, bridge_results>>
  BY <1>4 DEF EventTask, stats_vars
<1>5. ASSUME NEW w \in Workers, NEW c \in Contacts PROVE ~BridgeWait(w, c)
  BY NobodyWaits DEF BridgeWait, BridgeFound, BridgeTimeout, Waiting
<1>6. ASSUME NEW w \in Workers, Trouble(w)
      PROVE  UNCHANGED abandoned /\ \A c \in Contacts : bridge_results'[c] = None
  BY <1>0, <1>6 DEF Trouble, Crash, Exit, Vanish, Shutdown, Restart, StoreError, LoseEvent, stats_vars,
                    bridge_vars
<1>7. CASE UNCHANGED vars \/ \E c \in Contacts : Provider(c)
  BY <1>0, <1>7 DEF Provider, vars, dialer_vars, stats_vars, bridge_vars
<1> QED
  BY <1>0, <1>1, <1>2, <1>3, <1>4, <1>5, <1>6, <1>7
     DEF Next, Worker, ReaperPass, ReapCalls, Time

\* An agent who is on the line with a live call talks on it or is about to.
LEMMA ConnectedIsTaken ==
  ASSUME ~LeasesExpire, DialerInv, DialerInv', CallInv, LinkInv, AgentInv, ProgInv, [Next]_vars, [Forward]_vars,
         NEW c \in Contacts, Live(calls'[c]), agents'[calls'[c].agent_id].state = "CONNECTED"
  PROVE  calls'[c].state # "RESERVED" /\ Taken(c)'
<1> DEFINE a == calls'[c].agent_id
<1>1. calls[c].state # "QUEUED"
  <2> SUFFICES ASSUME calls[c].state = "QUEUED" PROVE FALSE
    OBVIOUS
  <2>1. calls'[c].state # "QUEUED"
    BY DEF Live, LIVE_CALL_STATES
  <2>2. PICK w \in Workers : dial[w].at = "create" /\ a = dial[w].agent /\ UNCHANGED agents
    BY <2>1, NewCall
  <2>3. a \in Hand(dial[w])
    BY <2>2 DEF Hand, HandLines, ProgInv
  <2>4. agents[a].state = "RESERVED"
    BY <2>3 DEF AgentInv, LoopSound
  <2> QED
    BY <2>2, <2>4
<1>2. calls[c].agent_id = a /\ a \in Agents /\ a # None
  BY <1>1, AgentIdStays DEF ProgInv, DialerInv, StoreTypeOK, CallRow
<1>3. Live(calls[c])
  <2>1. ~Finished(c)
    BY FinishedStays DEF Finished, Live, LIVE_CALL_STATES, TERMINAL_CALL_STATES
  <2>2. calls[c].state \in CallState
    BY DEF DialerInv, StoreTypeOK, CallRow
  <2> QED
    BY <1>1, <2>1, <2>2, NotLive DEF Finished
<1>4. CASE agents[a].state = "CONNECTED"
  <2>1. calls[c].state # "RESERVED" /\ Taken(c)
    BY <1>2, <1>3, <1>4 DEF ProgInv
  <2>2. Taken(c)'
    BY <1>3, <2>1, TakenStays
  <2>3. calls'[c].state # "RESERVED"
    <3>1. CASE Forward
      <4>1. \A s \in LIVE_CALL_STATES \ {"RESERVED"} : ~(CALL_STATE_RANK["RESERVED"] >= CALL_STATE_RANK[s])
        BY DEF CALL_STATE_RANK, CallState, LIVE_CALL_STATES
      <4> QED
        BY <1>3, <2>1, <3>1, <4>1 DEF Forward, Live
    <3>2. CASE UNCHANGED vars
      BY <2>1, <3>2 DEF vars, store_vars
    <3> QED
      BY <3>1, <3>2
  <2> QED
    BY <2>2, <2>3
<1>5. CASE agents[a].state # "CONNECTED"
  <2>1. PICK w \in Workers : /\ BridgeOwnAgent(w) /\ cpu[w].at = "bridge" /\ cpu[w].agent = a
                             /\ UNCHANGED calls
    BY <1>2, <1>5, ConnectsAgent, NobodyWaits
  <2>2. /\ cpu[w].call \in Contacts /\ Live(calls[cpu[w].call]) /\ calls[cpu[w].call].state # "RESERVED"
        /\ cpu[w] \in Frames
    BY <2>1, HandledCall DEF OnCall
  <2>3. calls[cpu[w].call].agent_id = a
    BY <2>1 DEF LinkInv
  <2>4. cpu[w].call = c
    BY <1>2, <1>3, <2>2, <2>3 DEF AgentInv, OneLine
  <2>5. Run(w, [cpu[w] EXCEPT !.at = "answered"])
    BY <2>1, OwnAgentIsReady DEF BridgeOwnAgent
  <2>6. cpu'[w].at = "answered" /\ cpu'[w].call = c
    BY <2>2, <2>4, <2>5, FrameGoesOn DEF Run, DialerInv
  <2> QED
    BY <2>1, <2>2, <2>4, <2>6 DEF Taken
<1> QED
  BY <1>4, <1>5

\* A line keeps the agent it is created with, and the agent answers it.
LEMMA StepKeepsProgressive ==
  ASSUME ~LeasesExpire, ~Predictive, DialerInv, DialerInv', CallInv, LinkInv, AgentInv, ProgInv,
         [Next]_vars, [Forward]_vars
  PROVE  ProgInv'
<1>1. ASSUME NEW w \in Workers PROVE Lined(dial'[w])
  <2>1. Lined(dial[w]) /\ Lined(DialStart)
    BY DEF ProgInv, Lined, DialStart
  <2>2. Vanish(w) => dial'[w] = DialStart
    BY DEF Vanish, DialerInv
  <2> QED
    BY <2>1, <2>2, LoopPosition, LoopStaysLined
<1>2. ASSUME NEW c \in Contacts, calls'[c].state # "QUEUED" PROVE calls'[c].agent_id # None
  <2>1. CASE calls[c].state = "QUEUED"
    <3>1. \E w \in Workers : dial[w].at = "create" /\ calls'[c].agent_id = dial[w].agent
      BY <1>2, <2>1, NewCall
    <3> QED
      BY <3>1 DEF ProgInv
  <2>2. CASE calls[c].state # "QUEUED"
    BY <2>2, AgentIdStays DEF ProgInv
  <2> QED
    BY <2>1, <2>2
<1> QED
  BY <1>1, <1>2, NobodyGivesUp, NothingPromised, ConnectedIsTaken DEF ProgInv, Lined

\* At first there are no lines.
LEMMA InitProgressive == Init => ProgInv
<1> SUFFICES ASSUME Init PROVE ProgInv
  OBVIOUS
<1>1. /\ \A w \in Workers : cpu[w].at = "none" /\ dial[w].at = "top"
      /\ \A c \in Contacts : calls[c].state = "QUEUED" /\ bridge_results[c] = None
      /\ abandoned = {}
  BY DEF Init, StoreInit, NoCall, Idle, DialStart
<1> QED
  BY <1>1 DEF ProgInv, Live, LIVE_CALL_STATES

\* Every line has an agent, and no handler goes to MarkUnanswered, while leases
\* outlast the work.
THEOREM ProgressiveInvariant ==
  ASSUME ~LeasesExpire, ~Predictive
  PROVE  Spec => []ProgInv
<1>1. /\ DialerInv /\ DialerInv' /\ CallInv /\ LinkInv /\ AgentInv /\ ProgInv /\ [Next]_vars /\ [Forward]_vars
      => ProgInv'
  BY StepKeepsProgressive
<1>2. Forward <=> \A c \in Contacts : CALL_STATE_RANK[calls'[c].state] >= CALL_STATE_RANK[calls[c].state]
  BY DEF Forward
<1> QED
  BY <1>1, <1>2, InitProgressive, AgentInvariant, NoCallMovesBack, PTL DEF Spec, CallsOnlyMoveForward

\* With an agent of its own for every line, no answered call is given up, whatever
\* the provider repeats, reorders or loses and whoever crashes, stops or comes back.
THEOREM ProgressiveAbandonsNone ==
  ASSUME ~LeasesExpire
  PROVE  Spec => []ProgressiveNeverAbandons
<1>1. CASE Predictive
  <2>1. ProgressiveNeverAbandons
    BY <1>1 DEF ProgressiveNeverAbandons
  <2> QED
    BY <2>1, PTL
<1>2. CASE ~Predictive
  <2>1. ProgInv => ProgressiveNeverAbandons
    BY DEF ProgInv, ProgressiveNeverAbandons
  <2> QED
    BY <1>2, <2>1, ProgressiveInvariant, PTL
<1> QED
  BY <1>1, <1>2

-----------------------------------------------------------------------------
(* Agents of finished calls *)

\* Somebody is about to take a off the finished call c.
Dealt(a, c) ==
  \/ \E w \in Workers :
       /\ cpu[w].at = "terminal" /\ cpu[w].call = c /\ cpu[w].agent = a
       /\ agents[a].state = "CONNECTED" => calls[c].connected
  \/ \E w \in Workers :
       cpu[w].at = "free" /\ cpu[w].call = c /\ cpu[w].agent = a /\ agents[a].state = "DIALING"
  \/ [agent |-> a, call |-> c, asleep |-> FALSE] \in wrap_ups

\* A busy agent of a finished call has somebody to take it off; nobody is stopped.
LeftInv ==
  /\ stopping = {}
  /\ \A w \in Workers : cpu[w].at \in {"terminal", "free"} => cpu[w].task = "event"
  /\ \A a \in Agents, c \in Contacts :
       agents[a].state \in Busy /\ agents[a].current_call_id = c /\ Finished(c) => Dealt(a, c)

\* Workers are not stopped; their loops may still end with a store error.
NoStop == Faults \cap {"crash", "shutdown"} = {}

\* While no worker is stopped, all trouble is a loop that ends.
LEMMA TroubleEndsLoops ==
  ASSUME NoStop, stopping = {}, NEW w \in Workers, Trouble(w)
  PROVE  /\ stopping' = {} /\ UNCHANGED wrap_ups
         /\ UNCHANGED cpu \/ DialLoopEnds(w) \/ ReaperEnds(w)
BY DEF NoStop, Trouble, Crash, Shutdown, MayFail, Exit, Restart, StoreError, LoseEvent, worker_vars

\* A handler that has finished its call is not interrupted.
LEMMA EndStays ==
  ASSUME ~LeasesExpire, NoStop, DialerInv, AgentInv, LeftInv, [Next]_vars, NEW w \in Workers,
         cpu[w].at \in {"terminal", "free"}
  PROVE  cpu'[w] = cpu[w] \/ Proceed(w)
<1>0. /\ cpu \in [Workers -> GoodFrames] /\ cpu[w].task = "event" /\ stopping = {}
      /\ cpu[w] # Idle
  BY DEF DialerInv, LeftInv, Idle
<1>1. ASSUME NEW v \in Workers, DialLoop(v) PROVE cpu'[w] = cpu[w]
  <2>1. v # w
    BY <1>0, <1>1, LoopLine
  <2>2. PICK d : Continue(v, d) \/ Suspend(v, d)
    BY <1>1 DEF DialLoop, ServeBridges, Dial, ServeNext, BridgeReserve, BridgeBreak, BridgeConnect,
                BridgeAttach, ScanReserve, DialForAgent, DialSpeculative, Claim, ReturnAgent, Create, Assign,
                Place, PredictiveTick, BeginScan
  <2> QED
    BY <2>1, <2>2, LoopMove
<1>2. ASSUME NEW v \in Workers \ {w}, Proceed(v) PROVE cpu'[w] = cpu[w]
  BY <1>0, <1>2 DEF Proceed, BridgeOwnAgent, Apply, MarkAnswered, MarkConnected, ReleaseBridged,
                    MarkUnanswered, MarkAbandoned, OnCallTerminal, FreeCallAgent, ReapCallAgent, ReapAgents,
                    Run, Return
<1>3. ASSUME NEW v \in Workers, WrapUpTask(v) PROVE cpu'[w] = cpu[w]
  BY <1>3 DEF WrapUpTask, WrapUp, WrapUpRelease
<1>4. ASSUME NEW v \in Workers, NEW c \in Contacts, EventTask(v, c) \/ BridgeWait(v, c)
      PROVE  cpu'[w] = cpu[w]
  <2>1. v # w
    BY <1>0, <1>4 DEF EventTask, HandleDuplicate, HandleStale, HandleEvent, HandleAnswered, Deliver,
                      BridgeWait, BridgeFound, BridgeTimeout, Ready
  <2> QED
    BY <1>0, <1>4, <2>1 DEF EventTask, HandleDuplicate, HandleStale, HandleEvent, HandleAnswered,
                            BridgeWait, BridgeFound, BridgeTimeout, Run
<1>5. ASSUME NEW v \in Workers, Trouble(v) PROVE cpu'[w] = cpu[w]
  <2>1. CASE DialLoopEnds(v)
    BY <1>0, <2>1 DEF DialLoopEnds, DialAt, Suspend
  <2>2. CASE ReaperEnds(v)
    <3>1. v # w
      BY <1>0, <2>2 DEF ReaperEnds, Ready
    <3> QED
      BY <1>0, <2>2, <3>1 DEF ReaperEnds, Run
  <2> QED
    BY <1>0, <1>5, <2>1, <2>2, TroubleEndsLoops
<1>6. CASE UNCHANGED vars \/ \E c \in Contacts : Provider(c)
  BY <1>6 DEF vars, dialer_vars, Provider
<1> QED
  BY <1>1, <1>2, <1>3, <1>4, <1>5, <1>6 DEF Next, Worker, ReaperPass, ReapCalls, Time

\* Only an event handler comes to the end of a call.
LEMMA HandlersEnd ==
  ASSUME ~LeasesExpire, NoStop, DialerInv, CallInv, AgentInv, LeftInv, [Next]_vars, NEW w \in Workers,
         cpu'[w].at \in {"terminal", "free"}
  PROVE  cpu'[w].task = "event"
<1> DEFINE Kept == cpu'[w].at \in {"terminal", "free"} => cpu'[w].task = "event"
<1>0. /\ cpu \in [Workers -> GoodFrames] /\ cpu[w] \in Frames /\ stopping = {}
      /\ cpu[w].at \in {"terminal", "free"} => cpu[w].task = "event"
  BY DEF DialerInv, GoodFrames, LeftInv
<1>a. ASSUME NEW v \in Workers, NEW f, Run(v, f), v = w => f.at \notin {"terminal", "free"} \/ f.task = "event"
      PROVE  Kept
  BY <1>0, <1>a DEF Run
<1>b. Idle.at = "none"
  BY DEF Idle
<1>1. ASSUME NEW v \in Workers, DialLoop(v) PROVE Kept
  <2>1. PICK d : Continue(v, d) \/ Suspend(v, d)
    BY <1>1 DEF DialLoop, ServeBridges, Dial, ServeNext, BridgeReserve, BridgeBreak, BridgeConnect,
                BridgeAttach, ScanReserve, DialForAgent, DialSpeculative, Claim, ReturnAgent, Create, Assign,
                Place, PredictiveTick, BeginScan
  <2> QED
    BY <1>0, <2>1, LoopMove
<1>2. ASSUME NEW v \in Workers, Proceed(v) PROVE Kept
  <2>0. cpu[v] \in Frames /\ (cpu[v].at \in OnCall \cup {"terminal", "free"} => cpu[v].task = "event")
    BY <1>0, AtWork DEF GoodFrames, LeftInv
  <2>1. ASSUME Return(v) PROVE Kept
    BY <1>a, <1>b, <2>1, ReturnsIdle
  <2>2. ASSUME NEW next, NEW b, cpu[v].task = "event",
               \/ Run(v, [cpu[v] EXCEPT !.at = next])
               \/ Run(v, [cpu[v] EXCEPT !.at = next, !.agent = b])
        PROVE  Kept
    <3>1. /\ [cpu[v] EXCEPT !.at = next].task = "event"
          /\ [cpu[v] EXCEPT !.at = next, !.agent = b].task = "event"
      BY <2>0, <2>2, FrameGoesOn
    <3> QED
      BY <1>a, <2>2, <3>1
  <2>3. CASE BridgeOwnAgent(v) \/ MarkAnswered(v) \/ MarkUnanswered(v) \/ MarkAbandoned(v)
    BY <2>0, <2>1, <2>2, <2>3 DEF BridgeOwnAgent, MarkAnswered, MarkUnanswered, MarkAbandoned, HandlerAt, OnCall
  <2>4. CASE OnCallTerminal(v) \/ Apply(v)
    BY <2>0, <2>1, <2>2, <2>4 DEF OnCallTerminal, Apply, HandlerAt, OnCall
  <2>5. CASE MarkConnected(v) \/ ReleaseBridged(v) \/ FreeCallAgent(v)
    BY <2>1, <2>5 DEF MarkConnected, ReleaseBridged, FreeCallAgent
  <2>6. ~ReapCallAgent(v) /\ ~ReapAgents(v)
    BY DEF ReapCallAgent, ReapAgents, HandlerAt, AgentInv, FrameSound
  <2> QED
    BY <1>2, <2>3, <2>4, <2>5, <2>6 DEF Proceed
<1>3. ASSUME NEW v \in Workers, WrapUpTask(v) PROVE Kept
  BY <1>0, <1>3 DEF WrapUpTask, WrapUp, WrapUpRelease
<1>4. ASSUME NEW v \in Workers, NEW c \in Contacts, EventTask(v, c) \/ BridgeWait(v, c) PROVE Kept
  <2>1. \A next, a, target : Handler(next, c, a, target).task = "event"
    BY DEF Handler, Idle
  <2> QED
    BY <1>0, <1>a, <1>4, <2>1 DEF EventTask, HandleDuplicate, HandleStale, HandleEvent, HandleAnswered,
                                  BridgeWait, BridgeFound, BridgeTimeout
<1>5. ASSUME NEW v \in Workers, Trouble(v) PROVE Kept
  <2>1. CASE DialLoopEnds(v)
    BY <1>0, <1>b, <2>1 DEF DialLoopEnds, Suspend
  <2>2. CASE ReaperEnds(v)
    BY <1>a, <1>b, <2>2 DEF ReaperEnds
  <2>3. CASE UNCHANGED cpu
    BY <1>0, <2>3
  <2> QED
    BY <1>0, <1>5, <2>1, <2>2, <2>3, TroubleEndsLoops
<1>6. CASE UNCHANGED vars \/ \E c \in Contacts : Provider(c)
  BY <1>0, <1>6 DEF vars, dialer_vars, Provider
<1> QED
  BY <1>1, <1>2, <1>3, <1>4, <1>5, <1>6 DEF Next, Worker, ReaperPass, ReapCalls, Time

\* A wrap-up that has not begun stays until it takes its agent off the call.
LEMMA WrapUpComes ==
  ASSUME ~LeasesExpire, NoStop, DialerInv, AgentInv, LeftInv, [Next]_vars,
         NEW t \in wrap_ups, ~t.asleep
  PROVE  t \in wrap_ups' \/ agents'[t.agent].state = "WRAP_UP"
<1>0. t.agent \in Agents /\ t.call \in Contacts /\ WrapSound(t, agents, calls) /\ stopping = {} /\ StoreTypeOK
  BY DEF DialerInv, DialerTypeOK, AgentInv, LeftInv
<1>1. ASSUME NEW v \in Workers, WrapUp(v) PROVE t \in wrap_ups' \/ agents'[t.agent].state = "WRAP_UP"
  <2>1. PICK u \in wrap_ups :
          /\ u.call \in Own(v)
          /\ TryTransitionAgent(u.agent, v, "WRAP_UP", {"CONNECTED"}, agents[u.agent].current_call_id, WrapLease)
          /\ wrap_ups' = (wrap_ups \ {u}) \cup {[u EXCEPT !.asleep = TRUE]}
    BY <1>1 DEF WrapUp
  <2>2. CASE u = t
    <3>1. CanTransition(t.agent, v, "WRAP_UP", {"CONNECTED"})
      BY <1>0, <2>1, <2>2 DEF WrapSound, Engaged, Own, CanTransition, AgentEdge, AGENT_TRANSITIONS, AgentState
    <3>2. TransitionAgent(t.agent, v, "WRAP_UP", {"CONNECTED"}, agents[t.agent].current_call_id, WrapLease)
      BY <2>1, <2>2, <3>1 DEF TryTransitionAgent
    <3> QED
      BY <1>0, <3>2, MovedAgent
  <2>3. CASE u # t
    BY <2>1, <2>3
  <2> QED
    BY <2>2, <2>3
<1>2. ASSUME NEW v \in Workers, WrapUpRelease(v) PROVE t \in wrap_ups'
  BY <1>2 DEF WrapUpRelease
<1>3. ASSUME NEW v \in Workers, Proceed(v) PROVE t \in wrap_ups'
  BY <1>3 DEF Proceed, BridgeOwnAgent, Apply, MarkAnswered, MarkConnected, ReleaseBridged,
              MarkUnanswered, MarkAbandoned, OnCallTerminal, FreeCallAgent, ReapCallAgent, ReapAgents
<1>4. ASSUME NEW v \in Workers, DialLoop(v) \/ \E c \in Contacts : EventTask(v, c) \/ BridgeWait(v, c)
      PROVE  t \in wrap_ups'
  BY <1>4 DEF DialLoop, EventTask, BridgeWait
<1>5. ASSUME NEW v \in Workers, Trouble(v) PROVE t \in wrap_ups'
  BY <1>0, <1>5, TroubleEndsLoops
<1>6. CASE UNCHANGED vars \/ \E c \in Contacts : Provider(c)
  BY <1>6 DEF vars, dialer_vars, Provider
<1> QED
  BY <1>1, <1>2, <1>3, <1>4, <1>5, <1>6 DEF Next, Worker, WrapUpTask, ReaperPass, ReapCalls, Time

\* What ends a call is the event that says so.
LEMMA EndsByEvent ==
  ASSUME ~LeasesExpire, DialerInv, CallInv, AgentInv, ProgInv, [Next]_vars,
         NEW c \in Contacts, ~Finished(c), Finished(c)'
  PROVE  \E w \in Workers :
           /\ cpu[w].at = "apply" /\ cpu[w].call = c
           /\ cpu'[w].at = "terminal" /\ cpu'[w].call = c /\ cpu'[w].agent = calls[c].agent_id
           /\ calls'[c].connected = calls[c].connected
           /\ UNCHANGED agents
<1>0. StoreTypeOK /\ TERMINAL_CALL_STATES \cap {"RESERVED", "INITIATED", "RINGING", "ANSWERED", "CONNECTED"} = {}
  BY DEF DialerInv, TERMINAL_CALL_STATES
<1>a. calls'[c].state \notin {"RESERVED", "INITIATED", "RINGING", "ANSWERED", "CONNECTED", calls[c].state}
  BY <1>0 DEF Finished
<1>1. ASSUME NEW w \in Workers, DialLoop(w) PROVE FALSE
  <2>1. CASE dial[w].at = "attach"
    <3>1. AttachAgentToCall(dial[w].call, dial[w].agent) /\ dial[w].call \in Contacts
      BY <1>1, <2>1, LoopLine DEF BridgeAttach, DialerInv, GoodLoops
    <3> QED
      BY <1>0, <1>a, <3>1, AttachedCall DEF SameRow
  <2>2. CASE dial[w].at = "create"
    <3>1. CreateCall(dial[w].call, dial[w].agent, w) /\ dial[w].call \in Contacts
      BY <1>1, <2>2, LoopLine DEF Create, DialerInv, GoodLoops
    <3>2. calls'[dial[w].call].state = "RESERVED" /\ (c # dial[w].call => calls'[c] = calls[c])
      BY <1>0, <3>1, CreatedCall, ZenonT(60)
    <3> QED
      BY <1>a, <3>2
  <2>3. CASE dial[w].at = "place"
    <3>1. MarkCallInitiated(dial[w].call, CallLease) /\ dial[w].call \in Contacts
      BY <1>1, <2>3, LoopLine DEF Place, DialerInv, GoodLoops
    <3> QED
      BY <1>0, <1>a, <3>1, PlacedCall
  <2> QED
    BY <1>1, <1>a, <2>1, <2>2, <2>3, LoopLine
<1>2. ASSUME NEW w \in Workers, Proceed(w)
      PROVE  /\ cpu[w].at = "apply" /\ cpu[w].call = c
             /\ cpu'[w].at = "terminal" /\ cpu'[w].call = c /\ cpu'[w].agent = calls[c].agent_id
             /\ calls'[c].connected = calls[c].connected
             /\ UNCHANGED agents
  <2>1. cpu[w].at \in OnCall /\ cpu[w].call = c
    BY <1>2, <1>a, ProceedElsewhere
  <2>2. CanApply(c) /\ cpu[w] \in Frames
    BY <2>1, HandledCall
  <2>3. CASE BridgeOwnAgent(w) \/ ReleaseBridged(w) \/ OnCallTerminal(w) \/ FreeCallAgent(w)
             \/ ReapCallAgent(w) \/ ReapAgents(w)
    BY <1>a, <2>3 DEF BridgeOwnAgent, ReleaseBridged, OnCallTerminal, FreeCallAgent, ReapCallAgent, ReapAgents
  <2>4. CASE MarkAnswered(w) \/ MarkConnected(w)
    <3>1. PICK target \in {"ANSWERED", "CONNECTED"} : ApplyCallTransition(c, target, None, CallLease)
      BY <2>1, <2>2, <2>4 DEF MarkAnswered, MarkConnected
    <3>2. target \in EventType
      BY DEF EventType
    <3> QED
      BY <1>0, <1>a, <3>1, <3>2, AppliedRow
  <2>5. ~MarkUnanswered(w) /\ ~MarkAbandoned(w)
    BY DEF MarkUnanswered, MarkAbandoned, HandlerAt, ProgInv
  <2>6. CASE Apply(w)
    <3>1. cpu[w].at = "apply" /\ UNCHANGED agents /\ cpu[w].target \in EventType
      BY <2>6 DEF Apply, HandlerAt, DialerInv, GoodFrames
    <3>2. ApplyCallTransition(c, cpu[w].target, ReasonOf(cpu[w].target), CallLease)
      BY <2>1, <2>2, <2>6 DEF Apply
    <3>3. calls'[c].state = cpu[w].target /\ (cpu[w].target # "CONNECTED" => calls'[c].connected = calls[c].connected)
      BY <1>0, <3>1, <3>2, AppliedRow
    <3>4. Run(w, [cpu[w] EXCEPT !.at = "terminal", !.agent = calls[c].agent_id])
      BY <2>1, <2>2, <2>6, <3>3 DEF Apply, Finished
    <3>5. cpu'[w].at = "terminal" /\ cpu'[w].call = c /\ cpu'[w].agent = calls[c].agent_id
      BY <2>1, <2>2, <3>4, FrameGoesOn DEF Run, DialerInv
    <3> QED
      BY <1>a, <2>1, <3>1, <3>3, <3>5
  <2> QED
    BY <1>2, <2>3, <2>4, <2>5, <2>6 DEF Proceed
<1>3. ASSUME NEW w \in Workers, Worker(w), ~DialLoop(w), ~Proceed(w) PROVE FALSE
  BY <1>3, <1>a DEF Worker, WrapUpTask, WrapUp, WrapUpRelease, EventTask, BridgeWait, ReaperPass, ReapCalls,
                    store_vars
<1>4. ASSUME NEW w \in Workers, Trouble(w) PROVE FALSE
  BY <1>4, <1>a, TroubleKeepsInv DEF store_vars
<1>5. ~UNCHANGED vars /\ ~Time /\ \A d \in Contacts : ~Provider(d)
  BY <1>a DEF vars, store_vars, Provider, Time
<1> QED
  BY <1>1, <1>2, <1>3, <1>4, <1>5 DEF Next

\* Who takes an agent off a finished call does so, or is still about to.
LEMMA DealtStays ==
  ASSUME ~LeasesExpire, NoStop, DialerInv, DialerInv', CallInv, AgentInv, LeftInv, [Next]_vars,
         NEW a \in Agents, NEW c \in Contacts, Finished(c), Dealt(a, c),
         agents'[a].state \in Busy, agents'[a].state = agents[a].state
  PROVE  Dealt(a, c)'
<1>0. StoreTypeOK /\ calls[c].connected \in BOOLEAN /\ [StoreNext]_store_vars
  BY StepKeepsInv DEF DialerInv, StoreTypeOK, CallRow
<1>1. calls'[c].connected = calls[c].connected
  BY <1>0, ConnectedStays
<1>2. ASSUME NEW w \in Workers, cpu[w].at = "terminal", cpu[w].call = c, cpu[w].agent = a,
             agents[a].state = "CONNECTED" => calls[c].connected
      PROVE  Dealt(a, c)'
  <2>1. CASE cpu'[w] = cpu[w]
    BY <1>1, <1>2, <2>1 DEF Dealt
  <2>2. CASE Proceed(w)
    <3>1. OnCallTerminal(w)
      BY <1>2, <2>2 DEF Proceed, BridgeOwnAgent, Apply, MarkAnswered, MarkConnected, ReleaseBridged,
                        MarkUnanswered, MarkAbandoned, FreeCallAgent, ReapCallAgent, ReapAgents, HandlerAt
    <3>2. a # None /\ agents[a].reserved_by = w /\ agents[a].current_call_id = c /\ agents[a].state \in Busy
      BY <1>2, StoreAssumption DEF AgentInv, FrameSound, Engaged
    <3>3. CASE calls[c].connected
      <4>1. [agent |-> a, call |-> c, asleep |-> FALSE] \in wrap_ups'
        BY <1>2, <3>1, <3>2, <3>3 DEF OnCallTerminal
      <4> QED
        BY <4>1 DEF Dealt
    <3>4. CASE ~calls[c].connected
      <4>1. Run(w, [cpu[w] EXCEPT !.at = "free"]) /\ UNCHANGED agents
        BY <1>2, <3>1, <3>2, <3>4 DEF OnCallTerminal
      <4>2. cpu[w] \in Frames
        BY DEF DialerInv, GoodFrames
      <4>3. cpu'[w].at = "free" /\ cpu'[w].call = c /\ cpu'[w].agent = a
        BY <1>2, <4>1, <4>2, FrameGoesOn DEF Run, DialerInv
      <4>4. agents'[a].state = "DIALING"
        BY <1>2, <3>2, <3>4, <4>1 DEF Busy
      <4> QED
        BY <4>3, <4>4 DEF Dealt
    <3> QED
      BY <3>3, <3>4
  <2> QED
    BY <1>2, <2>1, <2>2, EndStays
<1>3. ASSUME NEW w \in Workers, cpu[w].at = "free", cpu[w].call = c, cpu[w].agent = a,
             agents[a].state = "DIALING"
      PROVE  Dealt(a, c)'
  <2>1. CASE cpu'[w] = cpu[w]
    BY <1>3, <2>1 DEF Dealt
  <2>2. CASE Proceed(w)
    <3>1. FreeCallAgent(w)
      BY <1>3, <2>2 DEF Proceed, BridgeOwnAgent, Apply, MarkAnswered, MarkConnected, ReleaseBridged,
                        MarkUnanswered, MarkAbandoned, OnCallTerminal, ReapCallAgent, ReapAgents, HandlerAt
    <3>2. agents[a].reserved_by = w
      BY <1>3, StoreAssumption DEF AgentInv, FrameSound, Engaged
    <3>3. CanTransition(a, w, "AVAILABLE", {"DIALING", "RESERVED", "CONNECTED"})
      BY <1>3, <3>2 DEF CanTransition, AgentEdge, AGENT_TRANSITIONS, AgentState
    <3>4. TransitionAgent(a, w, "AVAILABLE", {"DIALING", "RESERVED", "CONNECTED"}, None, NoLease)
      BY <1>3, <3>1, <3>3 DEF FreeCallAgent, TryTransitionAgent
    <3>5. agents'[a].state = "AVAILABLE"
      BY <1>0, <3>4, MovedAgent
    <3> QED
      BY <3>5 DEF Busy
  <2> QED
    BY <1>3, <2>1, <2>2, EndStays
<1>4. ASSUME [agent |-> a, call |-> c, asleep |-> FALSE] \in wrap_ups
      PROVE  Dealt(a, c)'
  <2> DEFINE t == [agent |-> a, call |-> c, asleep |-> FALSE]
  <2>1. t \in wrap_ups /\ ~t.asleep /\ t.agent = a
    BY <1>4
  <2> HIDE DEF t
  <2>2. t \in wrap_ups'
    BY <2>1, WrapUpComes DEF Busy
  <2> USE DEF t
  <2> QED
    BY <2>2 DEF Dealt
<1> QED
  BY <1>2, <1>3, <1>4 DEF Dealt

\* A call that ends has its agent dealt with.
LEMMA EndedIsDealt ==
  ASSUME ~LeasesExpire, DialerInv, DialerInv', CallInv, BookInv, AgentInv, ProgInv, [Next]_vars,
         NEW a \in Agents, NEW c \in Contacts, ~Finished(c), Finished(c)',
         agents[a].state \in Busy, agents[a].current_call_id = c
  PROVE  Dealt(a, c)'
<1>1. PICK w \in Workers :
        /\ cpu[w].at = "apply" /\ cpu[w].call = c
        /\ cpu'[w].at = "terminal" /\ cpu'[w].call = c /\ cpu'[w].agent = calls[c].agent_id
        /\ calls'[c].connected = calls[c].connected
        /\ UNCHANGED agents
  BY EndsByEvent
<1>2. Live(calls[c]) /\ calls[c].reserved_by = w /\ cpu[w].at \in OnCall
  BY <1>1, HandledCall DEF OnCall
<1>3. calls[c].agent_id = a
  BY <1>2 DEF BookInv, Booked, InCall, Busy, ProgInv, Live, LIVE_CALL_STATES
<1>4. ASSUME agents[a].state = "CONNECTED" PROVE calls[c].connected
  <2>1. Taken(c)
    BY <1>2, <1>3, <1>4 DEF ProgInv
  <2>2. ASSUME NEW v \in Workers, cpu[v].at \in OnCall, cpu[v].call = c PROVE v = w
    BY <1>2, <2>2, OneTask DEF OnCall
  <2> QED
    BY <1>1, <1>2, <2>1, <2>2 DEF Taken, OnCall
<1> QED
  BY <1>1, <1>3, <1>4 DEF Dealt

\* A call that ends and an agent on an ended call are both seen to.
LEMMA StepKeepsLeft ==
  ASSUME ~LeasesExpire, NoStop, DialerInv, DialerInv', CallInv, LinkInv, BookInv, AgentInv, ProgInv,
         LeftInv, [Next]_vars
  PROVE  LeftInv'
<1>1. stopping' = {}
  <2>1. stopping = {}
    BY DEF LeftInv
  <2>2. ASSUME NEW w \in Workers, Worker(w) PROVE UNCHANGED stopping
    BY <2>2 DEF Worker, DialLoop, Proceed, WrapUpTask, ReaperPass, EventTask, BridgeWait, worker_vars
  <2>3. Time \/ UNCHANGED vars \/ (\E c \in Contacts : Provider(c)) => UNCHANGED stopping
    BY DEF Time, vars, dialer_vars, Provider, worker_vars
  <2> QED
    BY <2>1, <2>2, <2>3, TroubleEndsLoops DEF Next
<1>2. ASSUME NEW a \in Agents, NEW c \in Contacts,
             agents'[a].state \in Busy, agents'[a].current_call_id = c, Finished(c)'
      PROVE  Dealt(a, c)'
  <2>1. CASE KeepsCall(a)
    <3>1. agents[a].current_call_id = c /\ agents'[a].state = agents[a].state /\ agents[a].state \in Busy
      BY <1>2, <2>1 DEF KeepsCall, InCall, Busy
    <3>2. CASE Finished(c)
      BY <1>2, <3>1, <3>2, DealtStays DEF LeftInv
    <3>3. CASE ~Finished(c)
      BY <1>2, <3>1, <3>3, EndedIsDealt
    <3> QED
      BY <3>2, <3>3
  <2>2. ASSUME NEW w \in Workers, NEW d \in Contacts, GoesOnCall(w, a, d) PROVE FALSE
    <3>1. d = c /\ UNCHANGED calls /\ Finished(c)
      BY <1>2, <2>2 DEF GoesOnCall, Finished
    <3>2. CASE dial[w].at = "connect"
      BY <3>2, NobodyWaits DEF Bridging
    <3>3. CASE dial[w].at = "assign" /\ c = dial[w].call
      BY <3>1, <3>3 DEF AgentInv, LoopSound, Finished, TERMINAL_CALL_STATES
    <3>4. CASE cpu[w].at = "bridge" /\ c = cpu[w].call
      BY <3>1, <3>4, HandledCall DEF OnCall, Live, LIVE_CALL_STATES, Finished, TERMINAL_CALL_STATES
    <3> QED
      BY <2>2, <3>1, <3>2, <3>3, <3>4 DEF GoesOnCall
  <2> QED
    BY <2>1, <2>2, CallOfAgent
<1> QED
  BY <1>1, <1>2, HandlersEnd DEF LeftInv

\* At first nobody is on a call.
LEMMA InitLeft == Init => LeftInv
<1> SUFFICES ASSUME Init PROVE LeftInv
  OBVIOUS
<1>1. /\ stopping = {} /\ \A w \in Workers : cpu[w].at = "none"
      /\ \A a \in Agents : agents[a].state = "AVAILABLE"
  BY DEF Init, StoreInit, Idle, FreeAgent
<1> QED
  BY <1>1 DEF LeftInv, Busy

\* No agent stays on a finished call unattended: _on_call_terminal finds the agent
\* still its own, and the wrap-up or the release it starts goes through.  In
\* predictive mode it may not (run bridge_timeout_race), and a worker that is stopped
\* leaves its wrap-ups behind.
THEOREM NobodyLeftBehind ==
  ASSUME ~LeasesExpire, ~Predictive, Faults \cap {"crash", "shutdown"} = {}
  PROVE  Spec => []NoAgentLeftOnFinishedCall
<1>1. NoStop
  BY DEF NoStop
<1>2. DialerInv /\ DialerInv' /\ CallInv /\ LinkInv /\ BookInv /\ AgentInv /\ ProgInv /\ LeftInv /\ [Next]_vars
      => LeftInv'
  BY <1>1, StepKeepsLeft
<1>3. DialerInv /\ BookInv /\ LeftInv => NoAgentLeftOnFinishedCall
  <2> SUFFICES ASSUME DialerInv, BookInv, LeftInv, NEW a \in Agents, agents[a].state \in Busy,
                      Finished(agents[a].current_call_id)
               PROVE  \/ \E v \in Workers : agents[a].current_call_id = cpu[v].call
                      \/ \E t \in wrap_ups : t.agent = a /\ t.call = agents[a].current_call_id
    BY DEF NoAgentLeftOnFinishedCall, Busy, Finished
  <2>1. agents[a].current_call_id \in Contacts
    BY DEF BookInv, InCall, Busy
  <2>2. Dealt(a, agents[a].current_call_id)
    BY <2>1 DEF LeftInv
  <2> QED
    BY <2>2 DEF Dealt
<1> QED
  BY <1>2, <1>3, InitLeft, AgentInvariant, ProgressiveInvariant, BookInvariant, PTL DEF Spec

=============================================================================
