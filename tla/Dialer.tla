------------------------------- MODULE Dialer -------------------------------
(***************************************************************************)
(* DialerWorker processes (worker.py) over one Store, with their providers *)
(* (provider_a.py, provider_b.py), the clock, and what can go wrong with a *)
(* worker: it crashes, is shut down, comes back, or the store refuses it.  *)
(*                                                                         *)
(* Workers are separate processes, so one action is one store method, and  *)
(* the methods of different workers interleave freely.  Inside a worker,   *)
(* asyncio is not preemptive: cpu[w] is the task that runs until it        *)
(* suspends, and while cpu[w] is Idle the event loop may resume any task   *)
(* that is ready: the dial loop, an event handler, a handler that waits    *)
(* for a bridge, a wrap-up, the reaper.                                    *)
(***************************************************************************)
EXTENDS Store, Admission

CONSTANTS
  AgentLease, CallLease, WrapLease,  \* the campaign's lease lengths, in ticks
  Predictive,                        \* TRUE for DialMode.PREDICTIVE
  HardMaxLineRatio,                  \* lines the safety controller allows per agent
  ProviderB,                         \* TRUE when the provider repeats, reorders and drops
  LeasesExpire,                      \* FALSE: no lease runs out in the behaviours considered
  Faults,                            \* what can go wrong with a worker
  Fragile,                           \* the workers it can happen to
  MaxFaulty                          \* bound on the workers in trouble at the same time

ASSUME DialerAssumption ==
  /\ AgentLease \in Leases /\ CallLease \in Leases /\ WrapLease \in Leases
  /\ HardMaxLineRatio \in Nat /\ MaxFaulty \in Nat
  /\ Faults \subseteq {"crash", "restart", "shutdown", "store_error"}
  /\ Fragile \subseteq Workers
  /\ {Predictive, ProviderB, LeasesExpire} \subseteq BOOLEAN

VARIABLES
  alive,            \* workers whose process runs
  stopping,         \* those of them that were told to stop: _running is False
  ended,            \* loops that ended with an exception while their worker runs on
  cpu,              \* what each worker is executing between two suspension points
  dial,             \* the dial loop's position and locals
  pending_bridges,  \* answered calls that wait for the dial loop to find an agent
  bridge_results,   \* the agent the dial loop found for a waiting call
  call_locks,       \* calls whose lock a suspended handler holds
  wrap_ups,         \* _wrap_up_then_release tasks
  outcomes,         \* how often each call was reported to _on_call_terminal
  abandoned,        \* calls counted in stats["abandoned"]
  inbox,            \* events a provider queued and no handler has taken yet
  provider          \* how far the provider got with each call

worker_vars == <<alive, stopping, ended>>
bridge_vars == <<pending_bridges, bridge_results>>
stats_vars  == <<outcomes, abandoned>>
net_vars    == <<inbox, provider>>
dialer_vars == <<worker_vars, cpu, dial, bridge_vars, call_locks, wrap_ups, stats_vars, net_vars>>
vars        == <<store_vars, dialer_vars>>

\* A frame: the task that runs, its next statement and its locals.
Idle ==
  [task |-> "none", at |-> "none", call |-> None, agent |-> None, target |-> "QUEUED", todo |-> {}]

DialTask == [Idle EXCEPT !.task = "dial"]

Handler(at, c, a, target) ==
  [Idle EXCEPT !.task = "event", !.at = at, !.call = c, !.agent = a, !.target = target]

Reaper(todo) == [Idle EXCEPT !.task = "reap", !.at = "reap", !.todo = todo]

DialStart ==
  [at |-> "top", bridges |-> {}, listed |-> {}, held |-> {}, extra |-> 0,
   call |-> None, agent |-> None]

Init ==
  /\ StoreInit
  /\ alive = Workers
  /\ stopping = {}
  /\ ended = {}
  /\ cpu = [w \in Workers |-> Idle]
  /\ dial = [w \in Workers |-> DialStart]
  /\ pending_bridges = {}
  /\ bridge_results = [c \in Contacts |-> None]
  /\ call_locks = {}
  /\ wrap_ups = {}
  /\ outcomes = [c \in Contacts |-> 0]
  /\ abandoned = {}
  /\ inbox = [c \in Contacts |-> <<>>]
  /\ provider = [c \in Contacts |-> "none"]

Own(w) == {c \in Contacts : calls[c].reserved_by = w}

-----------------------------------------------------------------------------
(* The dial loop *)

\* The dial loop runs, or can be resumed, at this line.
DialAt(w, line) ==
  /\ w \in alive
  /\ <<w, "dial">> \notin ended
  /\ cpu[w].task \in {"none", "dial"}
  /\ dial[w].at = line

Continue(w, d) ==
  /\ dial' = [dial EXCEPT ![w] = d]
  /\ cpu' = [cpu EXCEPT ![w] = DialTask]

\* asyncio.sleep(0), or clock.sleep at the end of the tick.
Suspend(w, d) ==
  /\ dial' = [dial EXCEPT ![w] = IF d.at = "top" THEN DialStart ELSE d]
  /\ cpu' = [cpu EXCEPT ![w] = Idle]

\* The loop line that has work left: the scan, then the dials, then pacing.
NextLine(listed, held) ==
  IF listed # {} THEN "scan"
  ELSE IF held # {} THEN "dial"
  ELSE IF Predictive THEN "pace" ELSE "top"

\* list_agents(state=AVAILABLE) at the head of the reservation loop.
BeginScan(w) ==
  LET d == [DialStart EXCEPT !.at = NextLine(AvailableAgents, {}), !.listed = AvailableAgents]
  IN  IF d.at = "top" THEN Suspend(w, d) ELSE Continue(w, d)

\* _serve_pending_bridges: the next call of the snapshot that still waits.  The
\* loop asks for _running before it begins a tick, and only then.
ServeNext(w) ==
  /\ (DialAt(w, "top") /\ w \notin stopping) \/ DialAt(w, "serve")
  /\ LET waiting == pending_bridges \cap (IF dial[w].at = "top" THEN Own(w) ELSE dial[w].bridges)
     IN  \/ waiting = {} /\ BeginScan(w)
         \/ \E c \in waiting :
              Continue(w, [DialStart EXCEPT !.at = "bridge", !.bridges = waiting \ {c},
                                            !.listed = AvailableAgents, !.call = c])
  /\ UNCHANGED <<agents, calls, bridge_vars>>

BridgeReserve(w) ==
  /\ DialAt(w, "bridge")
  /\ \E a \in dial[w].listed :
       LET d == [dial[w] EXCEPT !.listed = @ \ {a}]
       IN  \/ /\ ReserveAgent(a, w, CallLease)
              /\ Continue(w, [d EXCEPT !.at = "connect", !.agent = a])
           \/ /\ agents[a].state # "AVAILABLE"
              /\ Continue(w, d)
              /\ UNCHANGED agents
  /\ UNCHANGED <<calls, bridge_vars>>

\* No candidate is left: break, the remaining calls wait for the next tick.
BridgeBreak(w) ==
  /\ DialAt(w, "bridge")
  /\ dial[w].listed = {}
  /\ BeginScan(w)
  /\ UNCHANGED <<agents, calls, bridge_vars>>

BridgeConnect(w) ==
  /\ DialAt(w, "connect")
  /\ LET a == dial[w].agent
         c == dial[w].call
     IN  \/ /\ TransitionAgent(a, w, "CONNECTED", {"RESERVED"}, c, CallLease)
            /\ Continue(w, [dial[w] EXCEPT !.at = "attach"])
         \/ /\ ~CanTransition(a, w, "CONNECTED", {"RESERVED"})
            /\ Continue(w, [dial[w] EXCEPT !.at = "bridge", !.agent = None])
            /\ UNCHANGED agents
  /\ UNCHANGED <<calls, bridge_vars>>

BridgeAttach(w) ==
  /\ DialAt(w, "attach")
  /\ LET c == dial[w].call
         a == dial[w].agent
     IN  /\ AttachAgentToCall(c, a)
         /\ bridge_results' = [bridge_results EXCEPT ![c] = a]
         /\ pending_bridges' = pending_bridges \ {c}
  /\ Suspend(w, [DialStart EXCEPT !.at = "serve", !.bridges = dial[w].bridges])
  /\ UNCHANGED agents

\* A wrong ScanReserve, that keeps what reserve_agent returned although it lost.
ScanReserveUntested(w) ==
  /\ DialAt(w, "scan")
  /\ \E a \in dial[w].listed :
       LET rest == dial[w].listed \ {a}
           With(held) == [dial[w] EXCEPT !.listed = rest, !.held = held, !.at = NextLine(rest, held)]
       IN  \/ /\ ReserveAgent(a, w, AgentLease)
              /\ Suspend(w, With(dial[w].held \cup {a}))
           \/ /\ agents[a].state # "AVAILABLE"
              /\ Suspend(w, With(dial[w].held \cup {None}))
              /\ UNCHANGED agents
  /\ UNCHANGED <<calls, bridge_vars>>

ScanReserve(w) ==
  /\ DialAt(w, "scan")
  /\ \E a \in dial[w].listed :
       LET rest == dial[w].listed \ {a}
           With(held) == [dial[w] EXCEPT !.listed = rest, !.held = held, !.at = NextLine(rest, held)]
       IN  \/ /\ ReserveAgent(a, w, AgentLease)
              /\ Suspend(w, With(dial[w].held \cup {a}))
           \/ /\ agents[a].state # "AVAILABLE"
              /\ Suspend(w, With(dial[w].held))
              /\ UNCHANGED agents
  /\ UNCHANGED <<calls, bridge_vars>>

\* The dial for one agent, or one speculative line (agent None), is over.
NextUnit(d) ==
  IF d.agent # None
  THEN [d EXCEPT !.at = NextLine({}, d.held), !.call = None, !.agent = None]
  ELSE [d EXCEPT !.at = IF d.extra > 1 THEN "speculate" ELSE "top", !.call = None, !.extra = @ - 1]

\* The SELECT of claim_contact in _dial_for_agent.
DialForAgent(w) ==
  /\ DialAt(w, "dial")
  /\ \E a \in dial[w].held :
       LET d == [dial[w] EXCEPT !.held = @ \ {a}, !.agent = a]
       IN  \/ UnclaimedContacts = {} /\ Continue(w, [d EXCEPT !.at = "return"])
           \/ \E c \in UnclaimedContacts : Continue(w, [d EXCEPT !.at = "claim", !.call = c])
  /\ UNCHANGED <<agents, contacts, calls, net_vars>>

\* The same SELECT in _dial_speculative, where no contact means no line.
DialSpeculative(w) ==
  /\ DialAt(w, "speculate")
  /\ \/ UnclaimedContacts = {} /\ Suspend(w, NextUnit(dial[w]))
     \/ \E c \in UnclaimedContacts : Continue(w, [dial[w] EXCEPT !.at = "claim", !.call = c])
  /\ UNCHANGED <<agents, contacts, calls, net_vars>>

\* A wrong Claim, that gives up after winning when the agent was taken meanwhile.
ClaimIfStillHolding(w) ==
  /\ DialAt(w, "claim")
  /\ LET d == dial[w]
         kept == d.agent = None \/ agents[d.agent].reserved_by = w
     IN  \/ ClaimContact(d.call, w) /\ Continue(w, [d EXCEPT !.at = IF kept THEN "create" ELSE "return"])
         \/ /\ contacts[d.call] # None
            /\ \/ d.agent # None /\ Continue(w, [d EXCEPT !.at = "return", !.call = None])
               \/ d.agent = None /\ Suspend(w, NextUnit(d))
            /\ UNCHANGED contacts
  /\ UNCHANGED <<agents, calls, net_vars>>

\* The UPDATE of claim_contact; losing it counts as having no contact.
Claim(w) ==
  /\ DialAt(w, "claim")
  /\ LET d == dial[w]
     IN  \/ ClaimContact(d.call, w) /\ Continue(w, [d EXCEPT !.at = "create"])
         \/ /\ contacts[d.call] # None
            /\ \/ d.agent # None /\ Continue(w, [d EXCEPT !.at = "return", !.call = None])
               \/ d.agent = None /\ Suspend(w, NextUnit(d))
            /\ UNCHANGED contacts
  /\ UNCHANGED <<agents, calls, net_vars>>

ReturnAgent(w) ==
  /\ DialAt(w, "return")
  /\ TryTransitionAgent(dial[w].agent, w, "AVAILABLE", {"RESERVED"}, None, NoLease)
  /\ Suspend(w, NextUnit(dial[w]))
  /\ UNCHANGED <<contacts, calls, net_vars>>

Create(w) ==
  /\ DialAt(w, "create")
  /\ CreateCall(dial[w].call, dial[w].agent, w)
  /\ Continue(w, [dial[w] EXCEPT !.at = IF dial[w].agent # None THEN "assign" ELSE "place"])
  /\ UNCHANGED <<agents, contacts, net_vars>>

\* A wrong Assign, that expects the state it is about to set.
AssignFromDialing(w) ==
  /\ DialAt(w, "assign")
  /\ TryTransitionAgent(dial[w].agent, w, "DIALING", {"DIALING"}, dial[w].call, CallLease)
  /\ Continue(w, [dial[w] EXCEPT !.at = "place"])
  /\ UNCHANGED <<contacts, calls, net_vars>>

\* The dial goes ahead whether or not the agent could be moved to DIALING.
Assign(w) ==
  /\ DialAt(w, "assign")
  /\ TryTransitionAgent(dial[w].agent, w, "DIALING", {"RESERVED"}, dial[w].call, CallLease)
  /\ Continue(w, [dial[w] EXCEPT !.at = "place"])
  /\ UNCHANGED <<contacts, calls, net_vars>>

\* place_call only starts the provider's task, so nothing runs between it and
\* mark_call_initiated.
Place(w) ==
  /\ DialAt(w, "place")
  /\ MarkCallInitiated(dial[w].call, CallLease)
  /\ provider' = [provider EXCEPT ![dial[w].call] = "placed"]
  /\ Suspend(w, NextUnit(dial[w]))
  /\ UNCHANGED <<agents, contacts, inbox>>

InFlight == Cardinality({c \in Contacts : calls[c].state \in LIVE_CALL_STATES})

\* SafetyController.evaluate decides: module Pacing says how, this one takes any
\* number it can approve.
PredictiveTick(w) ==
  /\ DialAt(w, "pace")
  /\ \E extra \in ApprovedCalls(Cardinality(Agents), Frac(HardMaxLineRatio, 1), InFlight) :
       IF extra = 0 THEN Suspend(w, DialStart)
       ELSE Continue(w, [DialStart EXCEPT !.at = "speculate", !.extra = extra])
  /\ UNCHANGED <<agents, contacts, calls, net_vars>>

ServeBridges(w) ==
  /\ ServeNext(w) \/ BridgeReserve(w) \/ BridgeBreak(w) \/ BridgeConnect(w) \/ BridgeAttach(w)
     \/ ScanReserve(w)
  /\ UNCHANGED <<contacts, net_vars>>

Dial(w) ==
  /\ DialForAgent(w) \/ DialSpeculative(w) \/ Claim(w) \/ ReturnAgent(w) \/ Create(w)
     \/ Assign(w) \/ Place(w) \/ PredictiveTick(w)
  /\ UNCHANGED bridge_vars

DialLoop(w) ==
  /\ ServeBridges(w) \/ Dial(w)
  /\ UNCHANGED <<seen_events, worker_vars, call_locks, wrap_ups, stats_vars>>

-----------------------------------------------------------------------------
(* Event handlers *)

Ready(w) == w \in alive /\ cpu[w] = Idle

HandlerAt(w, at) == w \in alive /\ cpu[w].at = at

Run(w, frame) == cpu' = [cpu EXCEPT ![w] = frame]

\* The handler returns and releases its lock, or the reaper takes its next call.
Return(w) ==
  /\ call_locks' = call_locks \ {cpu[w].call}
  /\ Run(w, IF cpu[w].task = "reap" THEN Reaper(cpu[w].todo) ELSE Idle)

EventOf(c) == [call_id |-> c, type |-> Head(inbox[c]).type, copy |-> Head(inbox[c]).copy]

\* A wrong Target, that takes every event at its word.
TargetUnreconciled(c) == Head(inbox[c]).type

Target(c) == Reconcile(calls[c].state, Head(inbox[c]).type)

\* A wrong Deliver, without the call's lock.
DeliverUnlocked(w, c) ==
  /\ Ready(w)
  /\ c \in Own(w)
  /\ inbox[c] # <<>>
  /\ inbox' = [inbox EXCEPT ![c] = Tail(@)]

\* _handle_event for the oldest event of c, unless a suspended handler has the
\* lock: the event is recorded first, and only then looked at.
Deliver(w, c) ==
  /\ Ready(w)
  /\ c \in Own(w) \ call_locks
  /\ inbox[c] # <<>>
  /\ inbox' = [inbox EXCEPT ![c] = Tail(@)]

HandleDuplicate(w, c) ==
  /\ Deliver(w, c)
  /\ EventOf(c) \in seen_events
  /\ UNCHANGED <<seen_events, cpu, pending_bridges, call_locks>>

HandleStale(w, c) ==
  /\ Deliver(w, c)
  /\ TryRecordEvent(EventOf(c))
  /\ Target(c) = Drop
  /\ UNCHANGED <<cpu, pending_bridges, call_locks>>

HandleEvent(w, c) ==
  /\ Deliver(w, c)
  /\ TryRecordEvent(EventOf(c))
  /\ Target(c) \notin {Drop, "ANSWERED"}
  /\ Run(w, Handler("apply", c, None, Target(c)))
  /\ UNCHANGED <<pending_bridges, call_locks>>

\* _bridge_agent: the call's own agent, or the dial loop must find one.
HandleAnswered(w, c) ==
  /\ Deliver(w, c)
  /\ TryRecordEvent(EventOf(c))
  /\ Target(c) = "ANSWERED"
  /\ \/ /\ calls[c].agent_id # None
        /\ Run(w, Handler("bridge", c, calls[c].agent_id, "ANSWERED"))
        /\ UNCHANGED <<pending_bridges, call_locks>>
     \/ /\ calls[c].agent_id = None
        /\ pending_bridges' = pending_bridges \cup {c}
        /\ call_locks' = call_locks \cup {c}
        /\ UNCHANGED cpu

\* The waiting handler sees a result before its deadline.
BridgeFound(w, c) ==
  /\ Ready(w)
  /\ c \in Own(w) /\ bridge_results[c] # None
  /\ Run(w, Handler("answered", c, bridge_results[c], "ANSWERED"))
  /\ bridge_results' = [bridge_results EXCEPT ![c] = None]
  /\ UNCHANGED pending_bridges

\* It wakes up past bridge_grace_seconds and gives up without looking again:
\* a result that came in during its last sleep is thrown away.
BridgeTimeout(w, c) ==
  /\ Ready(w)
  /\ c \in Own(w)
  /\ c \in pending_bridges \/ bridge_results[c] # None
  /\ Run(w, Handler("unanswered", c, None, "ANSWERED"))
  /\ pending_bridges' = pending_bridges \ {c}
  /\ bridge_results' = [bridge_results EXCEPT ![c] = None]

\* A wrong BridgeOwnAgent, that writes the agent without asking what it is doing.
BridgeOwnAgentBlindly(w) ==
  /\ HandlerAt(w, "bridge")
  /\ agents' = [agents EXCEPT ![cpu[w].agent] =
       [state |-> "CONNECTED", reserved_by |-> w, lease |-> CallLease, current_call_id |-> cpu[w].call]]
  /\ Run(w, [cpu[w] EXCEPT !.at = "answered"])
  /\ UNCHANGED <<calls, call_locks, wrap_ups, stats_vars>>

BridgeOwnAgent(w) ==
  /\ HandlerAt(w, "bridge")
  /\ LET f == cpu[w]
     IN  \/ /\ TransitionAgent(f.agent, w, "CONNECTED", {"DIALING"}, f.call, CallLease)
            /\ Run(w, [f EXCEPT !.at = "answered"])
         \/ /\ ~CanTransition(f.agent, w, "CONNECTED", {"DIALING"})
            /\ Run(w, [f EXCEPT !.at = "unanswered", !.agent = None])
            /\ UNCHANGED agents
  /\ UNCHANGED <<calls, call_locks, wrap_ups, stats_vars>>

ReasonOf(target) == IF target = "FAILED" THEN "provider_reason" ELSE None

\* Every event but ANSWERED writes its target at once.
Apply(w) ==
  /\ HandlerAt(w, "apply")
  /\ LET c == cpu[w].call
         target == cpu[w].target
     IN  \/ /\ ApplyCallTransition(c, target, ReasonOf(target), CallLease)
            /\ \/ target \notin TERMINAL_CALL_STATES /\ Return(w)
               \/ /\ target \in TERMINAL_CALL_STATES
                  /\ Run(w, [cpu[w] EXCEPT !.at = "terminal", !.agent = calls[c].agent_id])
                  /\ UNCHANGED call_locks
         \/ ~CanApply(c) /\ Return(w) /\ UNCHANGED calls
  /\ UNCHANGED <<agents, wrap_ups, stats_vars>>

\* _handle_answered with an agent on the line.
MarkAnswered(w) ==
  /\ HandlerAt(w, "answered")
  /\ LET c == cpu[w].call
     IN  \/ /\ ApplyCallTransition(c, "ANSWERED", None, CallLease)
            /\ Run(w, [cpu[w] EXCEPT !.at = "connected"])
         \/ /\ ~CanApply(c)
            /\ Run(w, [cpu[w] EXCEPT !.at = "release"])
            /\ UNCHANGED calls
  /\ UNCHANGED <<agents, call_locks, wrap_ups, stats_vars>>

MarkConnected(w) ==
  /\ HandlerAt(w, "connected")
  /\ LET c == cpu[w].call
     IN  \/ ApplyCallTransition(c, "CONNECTED", None, CallLease)
         \/ ~CanApply(c) /\ UNCHANGED calls
  /\ Return(w)
  /\ UNCHANGED <<agents, wrap_ups, stats_vars>>

\* force_release_agent(only_if_call_id): a no-op once the agent has moved on.
TryForceRelease(a, c) ==
  \/ ForceReleaseAgent(a, c)
  \/ (agents[a].current_call_id # c \/ agents[a].state = "AVAILABLE") /\ UNCHANGED agents

ReleaseBridged(w) ==
  /\ HandlerAt(w, "release")
  /\ TryForceRelease(cpu[w].agent, cpu[w].call)
  /\ Return(w)
  /\ UNCHANGED <<calls, wrap_ups, stats_vars>>

\* _handle_answered with nobody to talk to.
MarkUnanswered(w) ==
  /\ HandlerAt(w, "unanswered")
  /\ LET c == cpu[w].call
     IN  /\ abandoned' = abandoned \cup {c}
         /\ \/ /\ ApplyCallTransition(c, "ANSWERED", None, CallLease)
               /\ Run(w, [cpu[w] EXCEPT !.at = "abandon"])
               /\ UNCHANGED call_locks
            \/ ~CanApply(c) /\ Return(w) /\ UNCHANGED calls
  /\ UNCHANGED <<agents, wrap_ups, outcomes>>

MarkAbandoned(w) ==
  /\ HandlerAt(w, "abandon")
  /\ LET c == cpu[w].call
     IN  \/ /\ ApplyCallTransition(c, "FAILED", "abandoned_no_agent", CallLease)
            /\ Run(w, [cpu[w] EXCEPT !.at = "terminal", !.agent = calls[c].agent_id])
            /\ UNCHANGED call_locks
         \/ ~CanApply(c) /\ Return(w) /\ UNCHANGED calls
  /\ UNCHANGED <<agents, wrap_ups, stats_vars>>

\* _on_call_terminal: record the outcome, forget the lock, and look whether
\* the call's agent is still ours and still on this call.
OnCallTerminal(w) ==
  /\ HandlerAt(w, "terminal")
  /\ LET c == cpu[w].call
         a == cpu[w].agent
         mine == a # None /\ agents[a].reserved_by = w /\ agents[a].current_call_id = c
     IN  /\ outcomes' = [outcomes EXCEPT ![c] = @ + 1]
         /\ \/ ~mine /\ Return(w) /\ UNCHANGED wrap_ups
            \/ /\ mine /\ calls[c].connected
               /\ wrap_ups' = wrap_ups \cup {[agent |-> a, call |-> c, asleep |-> FALSE]}
               /\ Return(w)
            \/ /\ mine /\ ~calls[c].connected
               /\ Run(w, [cpu[w] EXCEPT !.at = "free"])
               /\ call_locks' = call_locks \ {c}
               /\ UNCHANGED wrap_ups
  /\ UNCHANGED <<agents, calls, abandoned>>

\* A wrong FreeCallAgent, that forgets the agent who is still DIALING.
FreeReservedAgent(w) ==
  /\ HandlerAt(w, "free")
  /\ TryTransitionAgent(cpu[w].agent, w, "AVAILABLE", {"RESERVED"}, None, NoLease)
  /\ Return(w)
  /\ UNCHANGED <<calls, wrap_ups, stats_vars>>

FreeCallAgent(w) ==
  /\ HandlerAt(w, "free")
  /\ TryTransitionAgent(cpu[w].agent, w, "AVAILABLE", {"DIALING", "RESERVED", "CONNECTED"},
                        None, NoLease)
  /\ Return(w)
  /\ UNCHANGED <<calls, wrap_ups, stats_vars>>

\* _wrap_up_then_release: it knows the agent, not the call.
WrapUp(w) ==
  /\ Ready(w)
  /\ \E t \in wrap_ups :
       /\ t.call \in Own(w) /\ ~t.asleep
       /\ TryTransitionAgent(t.agent, w, "WRAP_UP", {"CONNECTED"},
                             agents[t.agent].current_call_id, WrapLease)
       /\ wrap_ups' = (wrap_ups \ {t}) \cup {[t EXCEPT !.asleep = TRUE]}
  /\ UNCHANGED <<calls, cpu, call_locks, stats_vars>>

\* A wrong WrapUpRelease, that expects the state before the wrap-up.
WrapUpReleaseFromConnected(w) ==
  /\ Ready(w)
  /\ \E t \in wrap_ups :
       /\ t.call \in Own(w) /\ t.asleep
       /\ TryTransitionAgent(t.agent, w, "AVAILABLE", {"CONNECTED"}, None, NoLease)
       /\ wrap_ups' = wrap_ups \ {t}
  /\ UNCHANGED <<calls, cpu, call_locks, stats_vars>>

WrapUpRelease(w) ==
  /\ Ready(w)
  /\ \E t \in wrap_ups :
       /\ t.call \in Own(w) /\ t.asleep
       /\ TryTransitionAgent(t.agent, w, "AVAILABLE", {"WRAP_UP"}, None, NoLease)
       /\ wrap_ups' = wrap_ups \ {t}
  /\ UNCHANGED <<calls, cpu, call_locks, stats_vars>>

-----------------------------------------------------------------------------
(* The reaper *)

\* A pass starts by failing the calls whose lease ran out.  Another worker's
\* reaper may get hold of some of them first.
ReapCalls(w) ==
  /\ Ready(w)
  /\ w \notin stopping /\ <<w, "reap">> \notin ended
  /\ LeasesExpire
  /\ \E S \in SUBSET ReclaimableCalls :
       /\ S = {} => ReclaimableCalls = {}
       /\ ReclaimExpiredCallLeases(S)
       /\ Run(w, Reaper(S))
  /\ UNCHANGED <<agents, call_locks, wrap_ups, stats_vars>>

\* get_call and force_release_agent for one reclaimed call; _on_call_terminal
\* comes next.
ReapCallAgent(w) ==
  /\ HandlerAt(w, "reap")
  /\ \E c \in cpu[w].todo :
       LET a == calls[c].agent_id
       IN  /\ \/ a = None /\ UNCHANGED agents
              \/ a # None /\ TryForceRelease(a, c)
           /\ Run(w, [cpu[w] EXCEPT !.at = "terminal", !.call = c, !.agent = a, !.todo = @ \ {c}])
  /\ UNCHANGED <<calls, call_locks, wrap_ups, stats_vars>>

ReapAgents(w) ==
  /\ HandlerAt(w, "reap")
  /\ cpu[w].todo = {}
  /\ \E S \in SUBSET ReclaimableAgents :
       /\ S = {} => ReclaimableAgents = {}
       /\ ReclaimExpiredAgentLeases(S)
  /\ Run(w, Idle)
  /\ UNCHANGED <<calls, call_locks, wrap_ups, stats_vars>>

-----------------------------------------------------------------------------
(* Processes *)

\* A handler or the reaper goes on with what it has begun.
Proceed(w) ==
  /\ BridgeOwnAgent(w) \/ Apply(w) \/ MarkAnswered(w) \/ MarkConnected(w) \/ ReleaseBridged(w)
     \/ MarkUnanswered(w) \/ MarkAbandoned(w) \/ OnCallTerminal(w) \/ FreeCallAgent(w)
     \/ ReapCallAgent(w) \/ ReapAgents(w)
  /\ UNCHANGED <<contacts, seen_events, worker_vars, dial, bridge_vars, net_vars>>

WrapUpTask(w) ==
  /\ WrapUp(w) \/ WrapUpRelease(w)
  /\ UNCHANGED <<contacts, seen_events, worker_vars, dial, bridge_vars, net_vars>>

ReaperPass(w) ==
  /\ ReapCalls(w)
  /\ UNCHANGED <<contacts, seen_events, worker_vars, dial, bridge_vars, net_vars>>

EventTask(w, c) ==
  /\ HandleDuplicate(w, c) \/ HandleStale(w, c) \/ HandleEvent(w, c) \/ HandleAnswered(w, c)
  /\ UNCHANGED <<agents, contacts, calls, worker_vars, dial, bridge_results, wrap_ups, stats_vars, provider>>

BridgeWait(w, c) ==
  /\ BridgeFound(w, c) \/ BridgeTimeout(w, c)
  /\ UNCHANGED <<store_vars, worker_vars, dial, call_locks, wrap_ups, stats_vars, net_vars>>

Worker(w) ==
  \/ DialLoop(w) \/ Proceed(w) \/ WrapUpTask(w) \/ ReaperPass(w)
  \/ \E c \in Contacts : EventTask(w, c) \/ BridgeWait(w, c)

\* Provider._simulate_call: each step emits the next events of the call.
Emit(c, step, next, events) ==
  /\ provider[c] = step
  /\ provider' = [provider EXCEPT ![c] = next]
  /\ inbox' = [inbox EXCEPT ![c] = @ \o events]

Event(type, copy) == [type |-> type, copy |-> copy]

\* Both providers ring, then the callee fails or answers, then hangs up.
ProviderStep(c) ==
  \/ Emit(c, "placed", "rung", <<Event("RINGING", 1)>>)
  \/ Emit(c, "rung", "done", <<Event("FAILED", 1)>>)
  \/ Emit(c, "rung", "answered", <<Event("ANSWERED", 1)>>)
  \/ Emit(c, "answered", "done", <<Event("COMPLETED", 1)>>)

\* Provider B may also repeat an event under the same id or under a new one,
\* fall silent, or report COMPLETED before ANSWERED.
ProviderBStep(c) ==
  \/ Emit(c, "placed", "rung", <<Event("RINGING", 1), Event("RINGING", 1)>>)
  \/ Emit(c, "rung", "done", <<>>)
  \/ Emit(c, "rung", "done", <<Event("COMPLETED", 1), Event("ANSWERED", 1)>>)
  \/ Emit(c, "rung", "answered", <<Event("ANSWERED", 1), Event("ANSWERED", 2)>>)
  \/ Emit(c, "answered", "done", <<Event("COMPLETED", 1), Event("COMPLETED", 1)>>)

Provider(c) ==
  /\ ProviderStep(c) \/ (ProviderB /\ ProviderBStep(c))
  /\ UNCHANGED <<store_vars, worker_vars, cpu, dial, bridge_vars, call_locks, wrap_ups, stats_vars>>

Time == LeasesExpire /\ Tick /\ UNCHANGED dialer_vars

-----------------------------------------------------------------------------
(* What can go wrong with a worker *)

\* Workers that are not fully at work.  At most MaxFaulty get into trouble.
Faulty == (Workers \ alive) \cup stopping \cup {l[1] : l \in ended}

MayFail(w, fault) ==
  /\ fault \in Faults
  /\ w \in Fragile \cap alive
  /\ Cardinality(Faulty \cup {w}) <= MaxFaulty

\* The process is gone and its memory with it: its tasks, its dictionaries, and
\* its provider with the events nobody handled.
Vanish(w) ==
  /\ alive' = alive \ {w}
  /\ stopping' = stopping \ {w}
  /\ ended' = {l \in ended : l[1] # w}
  /\ cpu' = [cpu EXCEPT ![w] = Idle]
  /\ dial' = [dial EXCEPT ![w] = DialStart]
  /\ pending_bridges' = pending_bridges \ Own(w)
  /\ bridge_results' = [c \in Contacts |-> IF c \in Own(w) THEN None ELSE bridge_results[c]]
  /\ call_locks' = call_locks \ Own(w)
  /\ wrap_ups' = {t \in wrap_ups : t.call \notin Own(w)}
  /\ inbox' = [c \in Contacts |-> IF c \in Own(w) THEN <<>> ELSE inbox[c]]
  /\ provider' = [c \in Contacts |-> IF c \in Own(w) /\ provider[c] # "none" THEN "done" ELSE provider[c]]
  /\ UNCHANGED <<store_vars, stats_vars>>

\* The process dies between two statements.
Crash(w) == MayFail(w, "crash") /\ Vanish(w)

\* shutdown() cancels the background tasks: waiting handlers give their entries
\* and their lock back, wrap-ups never come to their release.  The loops go on
\* to where they ask for _running.
Shutdown(w) ==
  /\ MayFail(w, "shutdown")
  /\ Ready(w) /\ w \notin stopping
  /\ stopping' = stopping \cup {w}
  /\ pending_bridges' = pending_bridges \ Own(w)
  /\ bridge_results' = [c \in Contacts |-> IF c \in Own(w) THEN None ELSE bridge_results[c]]
  /\ call_locks' = call_locks \ Own(w)
  /\ wrap_ups' = {t \in wrap_ups : t.call \notin Own(w)}
  /\ UNCHANGED <<store_vars, alive, ended, cpu, dial, stats_vars, net_vars>>

\* The caller of shutdown() cancels run_forever, wherever its loops sleep.
Exit(w) == w \in stopping /\ cpu[w] = Idle /\ Vanish(w)

\* run_forever again, under the same worker_id and over the same store.
Restart(w) ==
  /\ "restart" \in Faults
  /\ w \notin alive
  /\ alive' = alive \cup {w}
  /\ UNCHANGED <<store_vars, stopping, ended, cpu, dial, bridge_vars, call_locks, wrap_ups,
                 stats_vars, net_vars>>

Writes == {"bridge", "connect", "attach", "scan", "claim", "return", "create", "assign", "place"}

\* _execute_retrying gives up and raises: gather() passes the exception to the
\* caller of run_forever, and the other loops run on without this one.
DialLoopEnds(w) ==
  /\ MayFail(w, "store_error")
  /\ \E line \in Writes : DialAt(w, line)
  /\ ended' = ended \cup {<<w, "dial">>}
  /\ Suspend(w, DialStart)
  /\ UNCHANGED call_locks

ReaperEnds(w) ==
  /\ MayFail(w, "store_error")
  /\ <<w, "reap">> \notin ended
  /\ Ready(w) \/ (w \in alive /\ cpu[w].task = "reap")
  /\ ended' = ended \cup {<<w, "reap">>}
  /\ Run(w, Idle)
  /\ UNCHANGED <<dial, call_locks>>

StoreError(w) ==
  /\ DialLoopEnds(w) \/ ReaperEnds(w)
  /\ UNCHANGED <<store_vars, alive, stopping, bridge_vars, wrap_ups, stats_vars, net_vars>>

\* An event is lost: its handler had not begun when it was cancelled, or the event
\* loop had ended by then.
LoseEvent(w, c) ==
  /\ w \in stopping /\ Ready(w)
  /\ c \in Own(w) /\ inbox[c] # <<>>
  /\ inbox' = [inbox EXCEPT ![c] = Tail(@)]
  /\ UNCHANGED <<store_vars, worker_vars, cpu, dial, bridge_vars, call_locks, wrap_ups, stats_vars,
                 provider>>

Trouble(w) ==
  \/ Crash(w) \/ Shutdown(w) \/ Exit(w) \/ Restart(w) \/ StoreError(w)
  \/ \E c \in Contacts : LoseEvent(w, c)

Next ==
  \/ \E w \in Workers : Worker(w) \/ Trouble(w)
  \/ \E c \in Contacts : Provider(c)
  \/ Time

Spec == Init /\ [][Next]_vars

\* A task that has the cpu runs on.  A task that is ready gets the cpu again
\* and again, because asyncio resumes ready tasks first in, first out; other
\* tasks run in between, so this is strong fairness.  A provider's timers fire,
\* and time passes.  Nothing makes a
\* worker crash, stop or come back.
Fairness ==
  /\ \A w \in Workers :
       /\ WF_vars(Proceed(w))
       /\ SF_vars(DialLoop(w))
       /\ SF_vars(WrapUpTask(w))
       /\ SF_vars(ReaperPass(w))
       /\ \A c \in Contacts : SF_vars(EventTask(w, c)) /\ SF_vars(BridgeWait(w, c))
  /\ \A c \in Contacts : WF_vars(Provider(c))
  /\ WF_vars(Time)

FairSpec == Spec /\ Fairness

\* The part of Fairness that recovery needs, and of the workers that trouble never
\* reaches only: whatever has their cpu runs on, their dial loop does not keep it,
\* their reaper gets its turn, and time passes.  A fragile worker may also hang.
RecoverySpec ==
  /\ Spec
  /\ \A w \in Workers \ Fragile : WF_vars(Proceed(w)) /\ WF_vars(DialLoop(w)) /\ SF_vars(ReaperPass(w))
  /\ WF_vars(Time)

-----------------------------------------------------------------------------
(* Properties *)

Frames ==
  [task : {"none", "dial", "event", "reap"},
   at : {"none", "apply", "bridge", "answered", "connected", "release", "unanswered", "abandon",
         "terminal", "free", "reap"},
   call : Contacts \cup {None}, agent : Agents \cup {None}, target : CallState,
   todo : SUBSET Contacts]

DialLoops ==
  [at : {"top", "serve", "bridge", "connect", "attach", "scan", "dial", "claim", "create", "assign",
         "place", "return", "pace", "speculate"},
   bridges : SUBSET Contacts, listed : SUBSET Agents, held : SUBSET Agents, extra : Nat,
   call : Contacts \cup {None}, agent : Agents \cup {None}]

\* Every variable of the workers and their providers has its type.
DialerTypeOK ==
  /\ alive \subseteq Workers /\ stopping \subseteq alive
  /\ ended \subseteq alive \X {"dial", "reap"}
  /\ cpu \in [Workers -> Frames]
  /\ dial \in [Workers -> DialLoops]
  /\ pending_bridges \subseteq Contacts
  /\ bridge_results \in [Contacts -> Agents \cup {None}]
  /\ call_locks \subseteq Contacts
  /\ wrap_ups \subseteq [agent : Agents, call : Contacts, asleep : BOOLEAN]
  /\ outcomes \in [Contacts -> Nat]
  /\ abandoned \subseteq Contacts
  /\ inbox \in [Contacts -> Seq([type : EventType, copy : {1, 2}])]
  /\ provider \in [Contacts -> {"none", "placed", "rung", "answered", "done"}]

\* The end-to-end test's assert_no_agent_double_booked at every instant: a busy
\* agent's call points back at it, unless the bridging worker is between
\* transition_agent and attach_agent_to_call, or died there; and no two busy
\* agents point at the same call.
NoAgentDoubleBooked ==
  \A a \in Agents :
    LET c == agents[a].current_call_id
        w == agents[a].reserved_by
    IN  agents[a].state \in {"DIALING", "CONNECTED"} /\ c # None =>
          /\ \/ calls[c].agent_id = a
             \/ w \notin alive \/ <<w, "dial">> \in ended
             \/ dial[w].at = "attach" /\ dial[w].agent = a /\ dial[w].call = c
          /\ \A b \in Agents \ {a} : agents[b].current_call_id # c

\* No call ever moves back: a handler that decided on ANSWERED before it waited
\* for an agent does not overwrite what happened to the call in the meantime.
CallsOnlyMoveForward ==
  [][\A c \in Contacts : CALL_STATE_RANK[calls'[c].state] >= CALL_STATE_RANK[calls[c].state]]_vars

\* An agent who is on a call is taken off it only when the call is over or
\* the agent's lease has run out, whoever does it.
NoAgentTakenOffALiveCall ==
  [][\A a \in Agents :
       LET c == agents[a].current_call_id
       IN  agents[a].state \in {"DIALING", "CONNECTED"} =>
             \/ agents'[a].state \in {"DIALING", "CONNECTED"} /\ agents'[a].current_call_id = c
             \/ Expired(agents[a])
             \/ calls'[c].state \in TERMINAL_CALL_STATES]_vars

\* Each finished call is reported to the pacing statistics at most once,
\* although the event handler and every worker's reaper may finish it.
OutcomeReportedOnce ==
  \A c \in Contacts :
    /\ outcomes[c] <= 1
    /\ outcomes[c] = 1 => calls[c].state \in TERMINAL_CALL_STATES

\* A call that was given up for lack of an agent never gets to talk to one.
AbandonedNeverConnected ==
  \A c \in abandoned : ~calls[c].connected /\ calls[c].state # "COMPLETED"

\* A contact that is claimed but has no call row, nor a worker about to insert it.
Forgotten(c) ==
  LET w == contacts[c]
  IN  w # None /\ calls[c] = NoCall /\ ~(dial[w].at = "create" /\ dial[w].call = c)

\* A claimed contact is called: claim_contact and create_call are two writes, and
\* only the end of the dial loop between them separates them (nobody ever calls
\* requeue_contact).
NoClaimedContactForgotten ==
  [][\A c \in Contacts : Forgotten(c)' => Forgotten(c) \/ <<alive, ended>>' # <<alive, ended>>]_vars

\* A call that waits for a bridge has its handler, and the handler has the
\* lock, so no second event of the call is looked at in the meantime.
WaitingCallIsLocked ==
  \A c \in Contacts :
    c \in pending_bridges \/ bridge_results[c] # None =>
      \/ c \in call_locks /\ calls[c].state \in {"INITIATED", "RINGING"}
      \/ calls[c].reason = "provider_timeout"

LiveCallsOf(a) ==
  {c \in Contacts : calls[c].state \in LIVE_CALL_STATES /\ calls[c].agent_id = a}

\* No two live calls believe they own the same agent (tests/test_end_to_end.py).
OneLiveCallPerAgent == \A a \in Agents : Cardinality(LiveCallsOf(a)) <= 1

\* Progressive dialing never gives up an answered call.
ProgressiveNeverAbandons == ~Predictive => abandoned = {}

\* An agent does not stay CONNECTED to a call that is over, but for the moment
\* until the wrap-up starts or the worker that ends the call has dealt with it.
NoAgentLeftOnFinishedCall ==
  \A a \in Agents :
    LET c == agents[a].current_call_id
        w == agents[a].reserved_by
    IN  agents[a].state \in {"DIALING", "CONNECTED"} /\ c # None =>
          \/ calls[c].state \notin TERMINAL_CALL_STATES
          \/ \E v \in Workers : c \in {cpu[v].call, dial[v].call} \cup cpu[v].todo
          \/ c \in pending_bridges \/ bridge_results[c] # None
          \/ \E t \in wrap_ups : t.agent = a /\ t.call = c

\* The lines in flight stay within the hard cap (ARCHITECTURE.md, section 6).
OpenLinesWithinHardCap == InFlight <= Cardinality(Agents) * HardMaxLineRatio + 1

\* Every call that was placed ends, although its provider may fall silent and
\* its worker may die, as long as some worker's reaper is left.
PlacedCallsEnd ==
  \A c \in Contacts :
    calls[c].state \in LIVE_CALL_STATES \ {"RESERVED"} ~> calls[c].state \in TERMINAL_CALL_STATES

\* An agent somebody holds comes back, or is in its wrap-up, whatever happened to
\* the holder, as long as some worker is out of trouble: its reaper frees the
\* agent when the lease has run out.
HeldAgentsComeBack ==
  \A a \in Agents :
    agents[a].state \in {"RESERVED", "DIALING", "CONNECTED"} ~>
      agents[a].state \in {"AVAILABLE", "WRAP_UP"}

\* Every call whose row exists ends.
EveryCallEnds ==
  \A c \in Contacts :
    calls[c].state \in LIVE_CALL_STATES ~> calls[c].state \in TERMINAL_CALL_STATES

\* No agent is lost to the campaign: each is AVAILABLE again and again.
AgentsComeBack == \A a \in Agents : []<>(agents[a].state = "AVAILABLE")

\* An agent stuck with a lease past its expiry is freed (store.py,
\* reclaim_expired_agent_leases).
ExpiredAgentsAreFreed ==
  \A a \in Agents : Expired(agents[a]) ~> ~Expired(agents[a])

=============================================================================
