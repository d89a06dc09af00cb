-------------------------- MODULE DialerAgentProofs --------------------------
(***************************************************************************)
(* While no lease runs out, an agent is in one worker's hands from its     *)
(* reservation to its release, and every hand knows what the agent is      *)
(* doing.  What follows for agents and their calls, for any number of      *)
(* workers, crashes and restarts among them: proofs checked by TLAPS.      *)
(***************************************************************************)
EXTENDS DialerBookingProofs, FiniteSetTheorems

\* The states of an agent who is on a line.
Busy == {"DIALING", "CONNECTED"}

\* The agent is at work on call c for w.
Engaged(row, w, c) == row.state \in Busy /\ row.reserved_by = w /\ row.current_call_id = c

\* The call is not over: its agent must not be given away.
Live(row) == row.state \in LIVE_CALL_STATES

\* What the reaper leaves of a call.
Reaped(row) == row.state = "FAILED" /\ row.reason = "provider_timeout"

\* No live call has the agent.
Unserved(a, cl) == \A c \in Contacts : Live(cl[c]) => cl[c].agent_id # a

\* A handler deals with a live call; once it has ended it, the call's agent is
\* still on it.
FrameSound(w, f, ag, cl) ==
  /\ f.task # "reap" /\ f.at \notin {"reap", "release"}
  /\ f.at = "apply" => f.target \in {"RINGING"} \cup TERMINAL_CALL_STATES
  /\ f.at \in OnCall => Live(cl[f.call])
  /\ f.at \in {"answered", "connected"} =>
       cl[f.call].agent_id # None /\ ag[cl[f.call].agent_id].state = "CONNECTED"
  /\ f.at \in {"terminal", "free"} =>
       /\ cl[f.call].reserved_by = w
       /\ f.agent # None =>
            /\ Engaged(ag[f.agent], w, f.call)
            /\ cl[f.call].connected => ag[f.agent].state = "CONNECTED"
  /\ f.at = "free" => ~cl[f.call].connected

\* The agents a dial loop holds, the one it is about to use among them.
HandLines == {"connect", "claim", "return", "create", "assign"}

Hand(d) == d.held \cup (IF d.at \in HandLines THEN {d.agent} \ {None} ELSE {})

\* A loop's agents are RESERVED for it and on no live call, but for the one it is dialing
\* for; a line it places or attaches has the agent it names.
LoopSound(w, d, ag, cl) ==
  /\ \A a \in Hand(d) :
       /\ ag[a].state = "RESERVED" /\ ag[a].reserved_by = w
       /\ (d.at = "assign" /\ a = d.agent) \/ Unserved(a, cl)
  /\ d.at \in HandLines => d.agent \notin d.held
  /\ d.at = "speculate" => d.agent = None
  /\ d.at \in {"assign", "place"} =>
       cl[d.call].state = "RESERVED" /\ cl[d.call].reserved_by = w /\ cl[d.call].agent_id = d.agent
  /\ d.at = "place" /\ d.agent # None => Engaged(ag[d.agent], w, d.call)
  /\ d.at = "attach" =>
       /\ Engaged(ag[d.agent], w, d.call) /\ ag[d.agent].state = "CONNECTED"
       /\ Unserved(d.agent, cl)

\* The agent of a live call is on it, or held for it.
Paired(row, c, ag) ==
  Live(row) /\ row.agent_id # None =>
    \/ /\ Engaged(ag[row.agent_id], row.reserved_by, c)
       /\ row.connected => ag[row.agent_id].state = "CONNECTED"
    \/ /\ row.state = "RESERVED" /\ ~row.connected
       /\ ag[row.agent_id].state = "RESERVED" /\ ag[row.agent_id].reserved_by = row.reserved_by

\* No two live calls have the same agent.
OneLine(cl) ==
  \A c, d \in Contacts :
    Live(cl[c]) /\ Live(cl[d]) /\ cl[c].agent_id = cl[d].agent_id /\ cl[c].agent_id # None => c = d

\* A wrap-up that has not begun finds its agent on the finished call.
WrapSound(t, ag, cl) ==
  ~t.asleep =>
    /\ Engaged(ag[t.agent], cl[t.call].reserved_by, t.call)
    /\ ag[t.agent].state = "CONNECTED"
    /\ cl[t.call].state \in TERMINAL_CALL_STATES /\ cl[t.call].connected

\* An agent found for a waiting call is its agent and on the line.
FoundSound(b, row, ag) == b # None => row.agent_id = b /\ ag[b].state = "CONNECTED"

\* Providers report everything but CONNECTED, which the dialer writes itself.
Reported == [type : EventType \ {"CONNECTED"}, copy : {1, 2}]

\* Nothing else is ever in an inbox.
ReportedInv == \A c \in Contacts : inbox[c] \in Seq(Reported)

\* Tasks and loops find calls and agents as they left them; a live call's agent is
\* its own, and no lease has ended a call.
AgentInv ==
  /\ \A w \in Workers : FrameSound(w, cpu[w], agents, calls) /\ LoopSound(w, dial[w], agents, calls)
  /\ \A c \in Contacts :
       /\ Paired(calls[c], c, agents) /\ ~Reaped(calls[c])
       /\ FoundSound(bridge_results[c], calls[c], agents)
  /\ OneLine(calls)
  /\ \A t \in wrap_ups : WrapSound(t, agents, calls)

\* Nobody is taken off a call that is not over.
OnTheLine ==
  \A a \in Agents :
    agents[a].state \in Busy =>
      \/ agents'[a].state \in Busy /\ agents'[a].current_call_id = agents[a].current_call_id
      \/ calls'[agents[a].current_call_id].state \in TERMINAL_CALL_STATES

-----------------------------------------------------------------------------
(* What is in a worker's hands *)

\* The agent of a live call that is placed is on it.
LEMMA AgentOfCall ==
  ASSUME DialerInv, AgentInv, NEW c \in Contacts, Live(calls[c]), calls[c].state # "RESERVED",
         calls[c].agent_id # None
  PROVE  /\ calls[c].agent_id \in Agents
         /\ Engaged(agents[calls[c].agent_id], calls[c].reserved_by, c)
         /\ calls[c].connected => agents[calls[c].agent_id].state = "CONNECTED"
BY DEF AgentInv, Paired, DialerInv, StoreTypeOK, CallRow

\* A call that waits has not ended.
LEMMA WaitingLives ==
  ASSUME DialerInv, CallInv, AgentInv, NEW c \in Contacts, Waiting(c)
  PROVE  calls[c].state \in {"INITIATED", "RINGING"} /\ ~calls[c].connected
<1>1. RowFits(calls[c], Waiting(c), c \in call_locks, Known(c)) /\ ~Reaped(calls[c])
  BY DEF CallInv, RowInv, AgentInv
<1> QED
  BY <1>1 DEF RowFits, Reaped

\* What the step of another worker leaves to v: the agents and the calls it has.
OthersLeave(w) ==
  /\ \A a \in Agents :
       \/ agents'[a] = agents[a]
       \/ agents[a].state \in {"AVAILABLE", "WRAP_UP"}
       \/ agents[a].reserved_by \in {None, w}
  /\ \A c \in Contacts :
       \/ calls'[c] = calls[c]
       \/ calls[c].reserved_by \in {None, w}
  /\ \A c \in Contacts :
       Live(calls'[c]) /\ calls'[c].agent_id # None =>
         \/ Live(calls[c]) /\ calls'[c].agent_id = calls[c].agent_id
         \/ agents[calls'[c].agent_id].reserved_by = w

\* What another worker has in hand stays sound when w leaves it alone.
LEMMA OthersKeep ==
  ASSUME DialerInv, CallInv, AgentInv, NEW w \in Workers, OthersLeave(w), NEW v \in Workers \ {w}
  PROVE  FrameSound(v, cpu[v], agents', calls') /\ LoopSound(v, dial[v], agents', calls')
<1>0. None \notin Workers /\ None \notin Agents
  BY StoreAssumption
<1> DEFINE f == cpu[v]
           d == dial[v]
<1>1. /\ f \in GoodFrames /\ f \in Frames /\ d \in GoodLoops /\ d \in DialLoops
      /\ FrameSound(v, f, agents, calls) /\ LoopSound(v, d, agents, calls)
  BY DEF DialerInv, GoodFrames, GoodLoops, AgentInv
<1>a. ASSUME NEW a \in Agents, agents[a].reserved_by = v, agents[a].state \in Busy \cup {"RESERVED"}
      PROVE  agents'[a] = agents[a]
  BY <1>0, <1>a DEF OthersLeave, Busy
<1>b. ASSUME NEW c \in Contacts, calls[c].reserved_by = v PROVE calls'[c] = calls[c]
  BY <1>0, <1>b DEF OthersLeave
<1>c. ASSUME NEW a \in Agents, agents[a].reserved_by = v, Unserved(a, calls) PROVE Unserved(a, calls')
  BY <1>0, <1>c DEF OthersLeave, Unserved
<1>2. FrameSound(v, f, agents', calls')
  <2>1. CASE f.at \in OnCall
    <3>1. f.call \in Contacts /\ Fits(v, f, calls[f.call], Waiting(f.call))
      BY <2>1, AtWork
    <3>2. calls'[f.call] = calls[f.call] /\ calls[f.call].reserved_by = v /\ calls[f.call].state # "RESERVED"
      BY <1>b, <2>1, <3>1 DEF Fits
    <3>3. ASSUME f.at \in {"answered", "connected"}
          PROVE  agents'[calls[f.call].agent_id] = agents[calls[f.call].agent_id]
      <4>1. calls[f.call].agent_id # None /\ Live(calls[f.call])
        BY <1>1, <2>1, <3>3 DEF FrameSound
      <4> QED
        BY <1>a, <3>1, <3>2, <4>1, AgentOfCall DEF Engaged
    <3> QED
      BY <1>1, <2>1, <3>2, <3>3 DEF FrameSound, OnCall
  <2>2. CASE f.at \in {"terminal", "free"}
    <3>1. f.call \in Contacts /\ f.agent \in Agents \cup {None}
      BY <1>1, <2>2 DEF GoodFrames, Frames
    <3>2. calls'[f.call] = calls[f.call]
      BY <1>1, <1>b, <2>2, <3>1 DEF FrameSound
    <3>3. f.agent # None => agents'[f.agent] = agents[f.agent]
      BY <1>1, <1>a, <2>2, <3>1 DEF FrameSound, Engaged
    <3> QED
      BY <1>1, <2>2, <3>2, <3>3 DEF FrameSound, OnCall
  <2>3. CASE f.at \notin OnCall \cup {"terminal", "free"}
    BY <1>1, <2>3 DEF FrameSound, OnCall
  <2> QED
    BY <2>1, <2>2, <2>3
<1>3. LoopSound(v, d, agents', calls')
  <2>1. Hand(d) \subseteq Agents
    BY <1>1 DEF Hand, DialLoops
  <2>2. \A a \in Hand(d) :
          /\ agents'[a].state = "RESERVED" /\ agents'[a].reserved_by = v
          /\ (d.at = "assign" /\ a = d.agent) \/ Unserved(a, calls')
    BY <1>1, <1>a, <1>c, <2>1 DEF LoopSound
  <2>3. d.at \in {"assign", "place"} => calls'[d.call] = calls[d.call]
    BY <1>1, <1>b DEF LoopSound, GoodLoops
  <2>4. (d.at = "place" /\ d.agent # None) \/ d.at = "attach" => agents'[d.agent] = agents[d.agent]
    <3>1. (d.at = "place" /\ d.agent # None) \/ d.at = "attach" => d.agent \in Agents
      BY <1>1 DEF GoodLoops, DialLoops
    <3> QED
      BY <1>1, <1>a, <3>1 DEF LoopSound, Engaged
  <2>5. d.at = "attach" => Unserved(d.agent, calls')
    BY <1>1, <1>c DEF LoopSound, GoodLoops, Engaged
  <2> QED
    BY <1>1, <2>2, <2>3, <2>4, <2>5 DEF LoopSound
<1> QED
  BY <1>2, <1>3

\* A finished call does not come back to life.
LEMMA NotLive ==
  ASSUME NEW row, row.state \in CallState
  PROVE  Live(row) <=> row.state \notin {"QUEUED"} \cup TERMINAL_CALL_STATES
BY DEF Live, CallState, LIVE_CALL_STATES, TERMINAL_CALL_STATES

\* The step of a dial loop changes at most the agents X and the calls Y.
LoopChanges(w, X, Y) ==
  /\ \A a \in Agents \ X : agents'[a] = agents[a]
  /\ \A c \in Contacts \ Y : calls'[c] = calls[c] /\ bridge_results'[c] = bridge_results[c]
  /\ \A a \in X : agents[a].state = "AVAILABLE"
                  \/ (agents[a].state = "RESERVED" /\ agents[a].reserved_by = w)
  /\ \A a \in X, c \in Contacts \ Y :
       Live(calls[c]) /\ calls[c].agent_id = a => Paired(calls[c], c, agents')
  /\ \A c \in Y : /\ ~Finished(c) /\ calls[c].reserved_by \in {None, w}
                  /\ Paired(calls'[c], c, agents') /\ ~Reaped(calls'[c])
                  /\ FoundSound(bridge_results'[c], calls'[c], agents')
                  /\ Live(calls'[c]) /\ calls'[c].agent_id # None =>
                       /\ agents[calls'[c].agent_id].reserved_by = w
                       /\ \A d \in Contacts \ {c} :
                            Live(calls[d]) => calls[d].agent_id # calls'[c].agent_id
  /\ \A c, d \in Y : c = d
  /\ \A v \in Workers \ {w} : cpu'[v] = cpu[v] /\ dial'[v] = dial[v]
  /\ cpu'[w] \in {Idle, DialTask}
  /\ LoopSound(w, dial'[w], agents', calls')
  /\ UNCHANGED wrap_ups

\* A dial loop changes agents that are on no call, and at most one call.
LEMMA LoopKeepsAgents ==
  ASSUME DialerInv, DialerInv', CallInv, AgentInv, NEW w \in Workers,
         NEW X \in SUBSET Agents, NEW Y \in SUBSET Contacts, LoopChanges(w, X, Y)
  PROVE  AgentInv' /\ OnTheLine
<1> USE DEF LoopChanges
<1>0. None \notin Workers /\ None \notin Agents
  BY StoreAssumption
<1>a. ASSUME NEW a \in Agents, agents[a].state \in Busy PROVE agents'[a] = agents[a]
  BY <1>a DEF Busy
<1>1. OthersLeave(w)
  BY DEF OthersLeave
<1>2. \A v \in Workers :
        FrameSound(v, cpu'[v], agents', calls') /\ LoopSound(v, dial'[v], agents', calls')
  <2>1. FrameSound(w, cpu'[w], agents', calls')
    BY DEF FrameSound, Idle, DialTask, OnCall
  <2> QED
    BY <1>1, <2>1, OthersKeep
<1>3. ASSUME NEW c \in Contacts
      PROVE  /\ Paired(calls'[c], c, agents') /\ ~Reaped(calls'[c])
             /\ FoundSound(bridge_results'[c], calls'[c], agents')
  <2> SUFFICES ASSUME c \notin Y
               PROVE  /\ Paired(calls'[c], c, agents') /\ ~Reaped(calls'[c])
                      /\ FoundSound(bridge_results'[c], calls'[c], agents')
    OBVIOUS
  <2>1. calls'[c] = calls[c] /\ bridge_results'[c] = bridge_results[c]
    OBVIOUS
  <2>2. /\ Paired(calls[c], c, agents) /\ ~Reaped(calls[c])
        /\ FoundSound(bridge_results[c], calls[c], agents)
    BY DEF AgentInv
  <2>3. /\ calls[c].agent_id \in Agents \cup {None} /\ bridge_results[c] \in Agents \cup {None}
    BY DEF DialerInv, DialerTypeOK, StoreTypeOK, CallRow
  <2>4. Paired(calls[c], c, agents')
    BY <2>2, <2>3 DEF Paired
  <2>5. FoundSound(bridge_results[c], calls[c], agents')
    BY <1>a, <2>2, <2>3 DEF FoundSound, Busy
  <2> QED
    BY <2>1, <2>2, <2>4, <2>5
<1>4. OneLine(calls')
  BY DEF OneLine, AgentInv
<1>5. ASSUME NEW t \in wrap_ups' PROVE WrapSound(t, agents', calls')
  <2>1. t.agent \in Agents /\ t.call \in Contacts /\ WrapSound(t, agents, calls)
    BY <1>5 DEF DialerInv, DialerTypeOK, AgentInv
  <2>2. ~t.asleep => agents'[t.agent] = agents[t.agent] /\ calls'[t.call] = calls[t.call]
    BY <1>a, <2>1 DEF WrapSound, Engaged, Finished
  <2> QED
    BY <2>1, <2>2 DEF WrapSound
<1>6. AgentInv'
  BY <1>2, <1>3, <1>4, <1>5 DEF AgentInv
<1>7. OnTheLine
  BY <1>a DEF OnTheLine
<1> QED
  BY <1>6, <1>7

\* The step of a handler or a wrap-up changes at most the agents X and the calls Y.
TaskChanges(w, X, Y) ==
  /\ X = {} \/ Y = {}
  /\ \A a \in Agents \ X : agents'[a] = agents[a]
  /\ \A c \in Contacts \ Y : calls'[c] = calls[c]
  /\ \A a \in X :
       \/ agents[a].state = "WRAP_UP"
       \/ \E c \in Contacts :
            /\ Engaged(agents[a], w, c) /\ calls[c].state \notin {"QUEUED", "RESERVED"}
            /\ \/ Finished(c)
               \/ Engaged(agents'[a], w, c) /\ agents'[a].state = "CONNECTED"
  /\ \A c \in Y : /\ Live(calls[c]) /\ calls[c].state # "RESERVED" /\ calls[c].reserved_by = w
                  /\ calls'[c].agent_id = calls[c].agent_id /\ calls'[c].reserved_by = w
                  /\ ~Reaped(calls'[c])
                  /\ calls'[c].connected =>
                       \/ calls[c].connected
                       \/ calls[c].agent_id # None => agents[calls[c].agent_id].state = "CONNECTED"
  /\ \A v \in Workers \ {w} : cpu'[v] = cpu[v]
  /\ UNCHANGED dial
  /\ FrameSound(w, cpu'[w], agents', calls')
  /\ \A t \in wrap_ups' :
       \/ t \in wrap_ups /\ (t.asleep \/ t.agent \notin X)
       \/ WrapSound(t, agents', calls')
  /\ \A c \in Contacts : bridge_results'[c] \in {bridge_results[c], None}

\* A handler or a wrap-up changes agents of the worker that are on a placed call, or
\* a live call of the worker.
LEMMA TaskKeepsAgents ==
  ASSUME DialerInv, DialerInv', CallInv, AgentInv, NEW w \in Workers, ~Bridging(w),
         NEW X \in SUBSET Agents, NEW Y \in SUBSET Contacts, TaskChanges(w, X, Y)
  PROVE  AgentInv' /\ OnTheLine
<1> USE DEF TaskChanges
<1>0. None \notin Workers /\ None \notin Agents
  BY StoreAssumption
<1>a. ASSUME NEW c \in Contacts PROVE Live(calls'[c]) => Live(calls[c]) /\ calls'[c].agent_id = calls[c].agent_id
  BY <1>a
<1>b. ASSUME NEW a \in Agents, NEW c \in Contacts, Live(calls[c]), Engaged(agents[a], calls[c].reserved_by, c)
      PROVE  \/ agents'[a] = agents[a]
             \/ Engaged(agents'[a], calls[c].reserved_by, c) /\ agents'[a].state = "CONNECTED"
  <2>1. ~Finished(c)
    BY <1>b DEF Finished, Live, LIVE_CALL_STATES, TERMINAL_CALL_STATES
  <2> QED
    BY <1>b, <2>1 DEF Engaged, Busy
<1>c. ASSUME NEW a \in Agents, agents[a].state = "RESERVED" PROVE agents'[a] = agents[a]
  BY <1>c DEF Engaged, Busy
<1>1. OthersLeave(w)
  BY <1>a DEF OthersLeave, Engaged
<1>2. LoopSound(w, dial[w], agents', calls')
  <2> DEFINE d == dial[w]
  <2>1. d \in GoodLoops /\ d \in DialLoops /\ LoopSound(w, d, agents, calls) /\ d.at # "attach"
    BY DEF DialerInv, GoodLoops, AgentInv, Bridging
  <2>2. Hand(d) \subseteq Agents
    BY <2>1 DEF Hand, DialLoops
  <2>3. \A a \in Hand(d) :
          /\ agents'[a].state = "RESERVED" /\ agents'[a].reserved_by = w
          /\ (d.at = "assign" /\ a = d.agent) \/ Unserved(a, calls')
    BY <1>a, <1>c, <2>1, <2>2 DEF LoopSound, Unserved
  <2>4. d.at \in {"assign", "place"} => d.call \in Contacts /\ calls'[d.call] = calls[d.call]
    BY <2>1 DEF LoopSound, GoodLoops
  <2>5. d.at = "place" /\ d.agent # None => Engaged(agents'[d.agent], w, d.call)
    <3>1. SUFFICES ASSUME d.at = "place", d.agent # None PROVE Engaged(agents'[d.agent], w, d.call)
      OBVIOUS
    <3>2. d.agent \in Agents /\ d.call \in Contacts /\ Engaged(agents[d.agent], w, d.call)
      BY <2>1, <3>1 DEF GoodLoops, DialLoops, LoopSound
    <3>3. Live(calls[d.call]) /\ calls[d.call].reserved_by = w
      BY <2>1, <3>1 DEF LoopSound, Live, LIVE_CALL_STATES
    <3> QED
      BY <1>b, <3>2, <3>3
  <2> QED
    BY <2>1, <2>3, <2>4, <2>5 DEF LoopSound
<1>3. \A v \in Workers :
        FrameSound(v, cpu'[v], agents', calls') /\ LoopSound(v, dial'[v], agents', calls')
  BY <1>1, <1>2, OthersKeep
<1>4. ASSUME NEW c \in Contacts
      PROVE  Paired(calls'[c], c, agents') /\ ~Reaped(calls'[c])
  <2>1. Paired(calls[c], c, agents) /\ ~Reaped(calls[c])
    BY DEF AgentInv
  <2>2. calls[c].agent_id \in Agents \cup {None}
    BY DEF DialerInv, StoreTypeOK, CallRow
  <2>3. CASE c \notin Y
    <3>1. Paired(calls[c], c, agents')
      BY <1>b, <1>c, <2>1, <2>2 DEF Paired
    <3> QED
      BY <2>1, <2>3, <3>1
  <2>4. CASE c \in Y
    <3>1. calls[c].agent_id # None =>
            /\ agents' [calls[c].agent_id] = agents[calls[c].agent_id]
            /\ Engaged(agents[calls[c].agent_id], w, c)
            /\ calls[c].connected => agents[calls[c].agent_id].state = "CONNECTED"
      BY <2>2, <2>4, AgentOfCall
    <3> QED
      BY <2>4, <3>1 DEF Paired
  <2> QED
    BY <2>3, <2>4
<1>5. ASSUME NEW c \in Contacts PROVE FoundSound(bridge_results'[c], calls'[c], agents')
  <2> SUFFICES ASSUME bridge_results[c] # None, bridge_results'[c] = bridge_results[c]
               PROVE  FoundSound(bridge_results'[c], calls'[c], agents')
    BY DEF FoundSound
  <2>1. Waiting(c) /\ FoundSound(bridge_results[c], calls[c], agents)
    BY DEF Waiting, AgentInv
  <2>2. Live(calls[c]) /\ calls[c].state # "RESERVED"
    BY <2>1, WaitingLives DEF Live, LIVE_CALL_STATES
  <2>3. /\ calls[c].agent_id = bridge_results[c] /\ bridge_results[c] \in Agents
        /\ Engaged(agents[bridge_results[c]], calls[c].reserved_by, c)
        /\ agents[bridge_results[c]].state = "CONNECTED"
    BY <2>1, <2>2, AgentOfCall DEF FoundSound
  <2>4. agents'[bridge_results[c]].state = "CONNECTED"
    BY <1>b, <2>2, <2>3
  <2>5. calls'[c].agent_id = calls[c].agent_id
    OBVIOUS
  <2> QED
    BY <2>3, <2>4, <2>5 DEF FoundSound
<1>6. OneLine(calls')
  BY <1>a DEF OneLine, AgentInv
<1>7. ASSUME NEW t \in wrap_ups' PROVE WrapSound(t, agents', calls')
  <2> SUFFICES ASSUME t \in wrap_ups, ~t.asleep, t.agent \notin X PROVE WrapSound(t, agents', calls')
    BY <1>7 DEF WrapSound
  <2>1. t.agent \in Agents /\ t.call \in Contacts /\ WrapSound(t, agents, calls)
    BY DEF DialerInv, DialerTypeOK, AgentInv
  <2>2. t.call \notin Y
    BY <2>1 DEF WrapSound, Live, LIVE_CALL_STATES, TERMINAL_CALL_STATES
  <2> QED
    BY <2>1, <2>2 DEF WrapSound
<1>8. AgentInv'
  BY <1>3, <1>4, <1>5, <1>6, <1>7 DEF AgentInv
<1>9. OnTheLine
  <2> SUFFICES ASSUME NEW a \in Agents, agents[a].state \in Busy
               PROVE  \/ agents'[a].state \in Busy /\ agents'[a].current_call_id = agents[a].current_call_id
                      \/ calls'[agents[a].current_call_id].state \in TERMINAL_CALL_STATES
    BY DEF OnTheLine
  <2>1. CASE a \notin X
    BY <2>1
  <2>2. CASE a \in X
    <3>1. PICK c \in Contacts : /\ Engaged(agents[a], w, c) /\ calls[c].state \notin {"QUEUED", "RESERVED"}
                                /\ \/ Finished(c)
                                   \/ Engaged(agents'[a], w, c) /\ agents'[a].state = "CONNECTED"
      BY <2>2 DEF Busy
    <3> QED
      BY <2>2, <3>1 DEF Engaged, Finished
  <2> QED
    BY <2>1, <2>2
<1> QED
  BY <1>8, <1>9

\* A dial loop that begins anew holds nobody.
LEMMA StartSound ==
  ASSUME NEW w, NEW ag, NEW cl, NEW d, d.held = {},
         d.at \notin HandLines \cup {"place", "attach"}, d.agent = None
  PROVE  LoopSound(w, d, ag, cl)
BY DEF LoopSound, Hand, HandLines

\* Tasks come to an end, and write nothing.
LEMMA QuietKeepsAgents ==
  ASSUME DialerInv, AgentInv, UNCHANGED <<agents, calls>>,
         \A v \in Workers : cpu'[v] \in {cpu[v], Idle} /\ dial'[v] \in {dial[v], DialStart},
         wrap_ups' \subseteq wrap_ups,
         \A c \in Contacts : bridge_results'[c] \in {bridge_results[c], None}
  PROVE  AgentInv' /\ OnTheLine
<1>1. \A v \in Workers :
        FrameSound(v, cpu'[v], agents, calls) /\ LoopSound(v, dial'[v], agents, calls)
  <2>1. \A v \in Workers : FrameSound(v, Idle, agents, calls) /\ LoopSound(v, DialStart, agents, calls)
    BY StartSound DEF FrameSound, Idle, OnCall, DialStart, HandLines
  <2> QED
    BY <2>1 DEF AgentInv
<1>2. \A c \in Contacts :
        /\ Paired(calls[c], c, agents) /\ ~Reaped(calls[c])
        /\ FoundSound(bridge_results'[c], calls[c], agents)
  BY DEF AgentInv, FoundSound
<1>3. OneLine(calls) /\ \A t \in wrap_ups' : WrapSound(t, agents, calls)
  BY DEF AgentInv
<1> QED
  BY <1>1, <1>2, <1>3 DEF AgentInv, OnTheLine

\* Crashes, restarts, shutdowns and store errors write no row.
LEMMA TroubleKeepsAgents ==
  ASSUME DialerInv, AgentInv, NEW w \in Workers, Trouble(w)
  PROVE  AgentInv' /\ OnTheLine
<1>0. UNCHANGED <<agents, calls>>
  BY TroubleKeepsInv DEF store_vars
<1>a. /\ cpu \in [Workers -> GoodFrames] /\ dial \in [Workers -> GoodLoops]
      /\ bridge_results \in [Contacts -> Agents \cup {None}]
  BY DEF DialerInv, DialerTypeOK
<1>1. \A v \in Workers : cpu'[v] \in {cpu[v], Idle} /\ dial'[v] \in {dial[v], DialStart}
  <2>1. CASE Vanish(w)
    BY <1>a, <2>1 DEF Vanish
  <2>2. CASE StoreError(w)
    <3>1. DialStart.at = "top"
      BY DEF DialStart
    <3> QED
      BY <1>a, <2>2, <3>1 DEF StoreError, DialLoopEnds, ReaperEnds, Suspend, Run
  <2>3. CASE ~Vanish(w) /\ ~StoreError(w)
    BY <2>3 DEF Trouble, Crash, Exit, Shutdown, Restart, LoseEvent
  <2> QED
    BY <2>1, <2>2, <2>3
<1>2. wrap_ups' \subseteq wrap_ups /\ \A c \in Contacts : bridge_results'[c] \in {bridge_results[c], None}
  BY <1>a DEF Trouble, Crash, Exit, Vanish, Shutdown, Restart, StoreError, LoseEvent, bridge_vars
<1> QED
  BY <1>0, <1>1, <1>2, QuietKeepsAgents

\* Providers never report CONNECTED.
LEMMA ReportedStep ==
  ASSUME DialerInv, ReportedInv, [Next]_vars
  PROVE  ReportedInv'
<1>0. inbox \in [Contacts -> Seq(Deliveries)] /\ \A c \in Contacts : inbox[c] \in Seq(Reported)
  BY DEF DialerInv, DialerTypeOK, Deliveries, ReportedInv
<1>1. ASSUME NEW c \in Contacts, NEW events \in Seq(Reported), inbox' = [inbox EXCEPT ![c] = @ \o events]
      PROVE  ReportedInv'
  BY <1>0, <1>1 DEF ReportedInv
<1>2. ASSUME NEW c \in Contacts, inbox[c] # <<>>, inbox' = [inbox EXCEPT ![c] = Tail(@)]
      PROVE  ReportedInv'
  BY <1>0, <1>2 DEF ReportedInv
<1>3. ASSUME UNCHANGED inbox PROVE ReportedInv'
  BY <1>3 DEF ReportedInv
<1>4. ASSUME NEW c \in Contacts, Provider(c) PROVE ReportedInv'
  <2>1. \A type \in {"RINGING", "FAILED", "ANSWERED", "COMPLETED"}, n \in {1, 2} : Event(type, n) \in Reported
    BY DEF Event, Reported, EventType
  <2>2. PICK step, next, events : events \in Seq(Reported) /\ Emit(c, step, next, events)
    <3>1. \A e \in Reported : <<e>> \in Seq(Reported) /\ \A g \in Reported : <<e, g>> \in Seq(Reported)
      OBVIOUS
    <3>2. <<>> \in Seq(Reported)
      OBVIOUS
    <3>3. CASE ProviderStep(c)
      BY <2>1, <3>1, <3>3 DEF ProviderStep
    <3>4. CASE ProviderBStep(c)
      BY <2>1, <3>1, <3>2, <3>4 DEF ProviderBStep
    <3> QED
      BY <1>4, <3>3, <3>4 DEF Provider
  <2> QED
    BY <1>1, <2>2 DEF Emit
<1>5. ASSUME NEW w \in Workers, Worker(w) PROVE ReportedInv'
  <2>1. ASSUME NEW c \in Contacts, EventTask(w, c) PROVE ReportedInv'
    BY <1>2, <2>1 DEF EventTask, HandleDuplicate, HandleStale, HandleEvent, HandleAnswered, Deliver
  <2>2. ASSUME DialLoop(w) PROVE ReportedInv'
    BY <1>3, <2>2, LoopLine
  <2> QED
    BY <1>3, <1>5, <2>1, <2>2 DEF Worker, Proceed, WrapUpTask, ReaperPass, BridgeWait, net_vars
<1>6. ASSUME NEW w \in Workers, Trouble(w) PROVE ReportedInv'
  <2>1. CASE Vanish(w)
    BY <1>0, <2>1 DEF Vanish, ReportedInv
  <2>2. ASSUME NEW c \in Contacts, LoseEvent(w, c) PROVE ReportedInv'
    BY <1>2, <2>2 DEF LoseEvent
  <2> QED
    BY <1>3, <1>6, <2>1, <2>2 DEF Trouble, Crash, Exit, Shutdown, Restart, StoreError, net_vars
<1>7. Time \/ UNCHANGED vars => UNCHANGED inbox
  BY DEF Time, vars, dialer_vars, net_vars
<1> QED
  BY <1>3, <1>4, <1>5, <1>6, <1>7 DEF Next

-----------------------------------------------------------------------------
(* The dial loop and the agents it holds *)

\* What Continue and Suspend leave of loops and tasks.
LEMMA LoopCpu ==
  ASSUME DialerInv, NEW w \in Workers, NEW d, Continue(w, d) \/ Suspend(w, d)
  PROVE  /\ cpu'[w] \in {Idle, DialTask}
         /\ \A v \in Workers \ {w} : cpu'[v] = cpu[v] /\ dial'[v] = dial[v]
         /\ dial'[w] \in {d, DialStart}
BY DEF Continue, Suspend, DialerInv

\* A loop that is not at a call needs its agents RESERVED and unserved, no more.
LEMMA HandSound ==
  ASSUME NEW w, NEW ag, NEW cl, NEW d,
         d.at \notin {"assign", "place", "attach"},
         d.at = "speculate" => d.agent = None,
         d.at \in HandLines => d.agent \notin d.held,
         \A a \in Hand(d) : ag[a].state = "RESERVED" /\ ag[a].reserved_by = w /\ Unserved(a, cl)
  PROVE  LoopSound(w, d, ag, cl)
BY DEF LoopSound

\* A loop between two ticks has nobody in hand.
LEMMA DialStartSound ==
  ASSUME NEW w, NEW ag, NEW cl
  PROVE  LoopSound(w, DialStart, ag, cl)
BY StartSound DEF DialStart, HandLines

\* The loop goes on without a write to agents or calls.
LEMMA LoopReads ==
  ASSUME DialerInv, DialerInv', CallInv, AgentInv, NEW w \in Workers, NEW d,
         Continue(w, d) \/ Suspend(w, d), LoopSound(w, d, agents, calls),
         UNCHANGED <<agents, calls, wrap_ups, bridge_results>>
  PROVE  AgentInv' /\ OnTheLine
<1>1. LoopSound(w, dial'[w], agents', calls')
  BY LoopCpu, DialStartSound
<1>2. /\ cpu'[w] \in {Idle, DialTask}
      /\ \A v \in Workers \ {w} : cpu'[v] = cpu[v] /\ dial'[v] = dial[v]
  BY LoopCpu
<1>3. LoopChanges(w, {}, {})
  BY <1>1, <1>2 DEF LoopChanges
<1> QED
  BY <1>3, LoopKeepsAgents

\* The loop goes on with fewer agents in hand.
LEMMA LoopHolds ==
  ASSUME DialerInv, DialerInv', CallInv, AgentInv, NEW w \in Workers, NEW d,
         Continue(w, d) \/ Suspend(w, d),
         dial[w].at # "assign", Hand(d) \subseteq Hand(dial[w]),
         d.at \notin {"assign", "place", "attach"},
         d.at = "speculate" => d.agent = None,
         d.at \in HandLines => d.agent \notin d.held,
         UNCHANGED <<agents, calls, wrap_ups, bridge_results>>
  PROVE  AgentInv' /\ OnTheLine
<1>1. LoopSound(w, dial[w], agents, calls)
  BY DEF AgentInv
<1>2. LoopSound(w, d, agents, calls)
  BY <1>1, HandSound DEF LoopSound
<1> QED
  BY <1>2, LoopReads

\* Going on to the next unit of work leaves the same agents in hand.
LEMMA NextUnitHand ==
  ASSUME NEW d \in DialLoops
  PROVE  /\ NextUnit(d).held = d.held /\ NextUnit(d).agent = None
         /\ NextUnit(d).at \in {"dial", "pace", "top", "speculate"}
         /\ Hand(NextUnit(d)) = d.held
<1>1. /\ NextUnit(d).held = d.held /\ NextUnit(d).agent = None
      /\ NextUnit(d).at \in {"dial", "pace", "top", "speculate"}
  BY DEF NextUnit, DialLoops, NextLine
<1> QED
  BY <1>1 DEF Hand, HandLines

\* list_agents reads only.
LEMMA BeginScanSound ==
  ASSUME DialerInv, DialerInv', CallInv, AgentInv, NEW w \in Workers, BeginScan(w),
         UNCHANGED <<agents, calls, wrap_ups, bridge_results>>
  PROVE  AgentInv' /\ OnTheLine
<1> DEFINE d == [DialStart EXCEPT !.at = NextLine(AvailableAgents, {}), !.listed = AvailableAgents]
<1>1. d.at \in {"scan", "dial", "pace", "top"} /\ d.held = {} /\ d.agent = None
  BY NextLines DEF DialStart
<1>2. Continue(w, d) \/ Suspend(w, d)
  BY DEF BeginScan
<1> HIDE DEF d
<1>3. LoopSound(w, d, agents, calls)
  BY <1>1, StartSound DEF HandLines
<1> QED
  BY <1>2, <1>3, LoopReads

\* So does taking up the next waiting call.
LEMMA ServeSound ==
  ASSUME DialerInv, DialerInv', CallInv, AgentInv, NEW w \in Workers, ServeNext(w), UNCHANGED wrap_ups
  PROVE  AgentInv' /\ OnTheLine
<1>0. UNCHANGED <<agents, calls, wrap_ups, bridge_results>>
  BY DEF ServeNext, bridge_vars
<1>1. ASSUME NEW bridges, NEW c,
             Continue(w, [DialStart EXCEPT !.at = "bridge", !.bridges = bridges,
                                           !.listed = AvailableAgents, !.call = c])
      PROVE  AgentInv' /\ OnTheLine
  <2> DEFINE d == [DialStart EXCEPT !.at = "bridge", !.bridges = bridges,
                                    !.listed = AvailableAgents, !.call = c]
  <2>1. d.at = "bridge" /\ d.held = {} /\ d.agent = None
    BY DEF DialStart
  <2>2. Continue(w, d)
    BY <1>1
  <2> HIDE DEF d
  <2>3. LoopSound(w, d, agents, calls)
    BY <2>1, StartSound DEF HandLines
  <2> QED
    BY <1>0, <2>2, <2>3, LoopReads
<1> QED
  BY <1>0, <1>1, BeginScanSound DEF ServeNext

\* The predictive tick counts and approves.
LEMMA PaceSound ==
  ASSUME DialerInv, DialerInv', CallInv, AgentInv, NEW w \in Workers, PredictiveTick(w),
         UNCHANGED <<wrap_ups, bridge_results>>
  PROVE  AgentInv' /\ OnTheLine
<1>0. UNCHANGED <<agents, calls, wrap_ups, bridge_results>>
  BY DEF PredictiveTick
<1>1. PICK extra : \/ Suspend(w, DialStart)
                   \/ Continue(w, [DialStart EXCEPT !.at = "speculate", !.extra = extra])
  BY DEF PredictiveTick
<1> DEFINE d == [DialStart EXCEPT !.at = "speculate", !.extra = extra]
<1>2. d.at = "speculate" /\ d.held = {} /\ d.agent = None
  BY DEF DialStart
<1>3. Suspend(w, DialStart) \/ Continue(w, d)
  BY <1>1
<1> HIDE DEF d
<1>4. LoopSound(w, d, agents, calls) /\ LoopSound(w, DialStart, agents, calls)
  BY <1>2, StartSound, DialStartSound DEF HandLines
<1> QED
  BY <1>0, <1>3, <1>4, LoopReads

\* Taking the next agent or speculative line, and claim_contact, write no agent.
LEMMA DialUnitSound ==
  ASSUME DialerInv, DialerInv', CallInv, AgentInv, NEW w \in Workers,
         DialForAgent(w) \/ DialSpeculative(w) \/ Claim(w),
         UNCHANGED <<wrap_ups, bridge_results>>
  PROVE  AgentInv' /\ OnTheLine
<1> DEFINE d == dial[w]
<1>0. /\ d \in DialLoops /\ LoopSound(w, d, agents, calls) /\ None \notin Agents
      /\ d.held \subseteq Agents /\ d.agent \in Agents \cup {None}
      /\ UNCHANGED <<agents, calls, wrap_ups, bridge_results>>
  BY StoreAssumption DEF DialerInv, GoodLoops, AgentInv, DialForAgent, DialSpeculative, Claim, DialLoops
<1>a. ASSUME NEW e, Continue(w, e) \/ Suspend(w, e), d.at # "assign", Hand(e) \subseteq Hand(d),
             e.at \notin {"assign", "place", "attach"}, e.at = "speculate" => e.agent = None,
             e.at \in HandLines => e.agent \notin e.held
      PROVE  AgentInv' /\ OnTheLine
  BY <1>0, <1>a, LoopHolds
<1>b. ASSUME d.at \in {"speculate", "claim"}, Suspend(w, NextUnit(d)) PROVE AgentInv' /\ OnTheLine
  <2>1. d.held \subseteq Hand(d)
    BY DEF Hand
  <2>2. /\ NextUnit(d).held = d.held /\ NextUnit(d).agent = None
        /\ NextUnit(d).at \in {"dial", "pace", "top", "speculate"}
        /\ Hand(NextUnit(d)) = d.held
    BY <1>0, NextUnitHand
  <2> QED
    BY <1>a, <1>b, <2>1, <2>2 DEF HandLines
<1>1. CASE DialForAgent(w)
  <2>1. ASSUME NEW a \in d.held, NEW c,
               LET u == [d EXCEPT !.held = @ \ {a}, !.agent = a]
               IN  \/ Continue(w, [u EXCEPT !.at = "return"])
                   \/ Continue(w, [u EXCEPT !.at = "claim", !.call = c])
        PROVE  AgentInv' /\ OnTheLine
    <3> DEFINE u == [d EXCEPT !.held = @ \ {a}, !.agent = a]
               e == [u EXCEPT !.at = "return"]
               g == [u EXCEPT !.at = "claim", !.call = c]
    <3>1. /\ e.at = "return" /\ e.agent = a /\ e.held = d.held \ {a}
          /\ g.at = "claim" /\ g.agent = a /\ g.held = d.held \ {a}
      BY <1>0 DEF DialLoops
    <3>2. Continue(w, e) \/ Continue(w, g)
      BY <2>1
    <3>3. d.at = "dial" /\ a \in Agents
      BY <1>0, <1>1 DEF DialForAgent, DialAt
    <3> HIDE DEF e, g
    <3>4. Hand(e) \subseteq Hand(d) /\ Hand(g) \subseteq Hand(d)
      BY <1>0, <3>1, <3>3 DEF Hand, HandLines
    <3> QED
      BY <1>a, <3>1, <3>2, <3>3, <3>4 DEF HandLines
  <2> QED
    BY <1>1, <2>1 DEF DialForAgent
<1>2. CASE DialSpeculative(w)
  <2>0. d.at = "speculate"
    BY <1>2 DEF DialSpeculative, DialAt
  <2>1. ASSUME NEW c, Continue(w, [d EXCEPT !.at = "claim", !.call = c]) PROVE AgentInv' /\ OnTheLine
    <3> DEFINE e == [d EXCEPT !.at = "claim", !.call = c]
    <3>1. e.at = "claim" /\ e.agent = d.agent /\ e.held = d.held
      BY <1>0 DEF DialLoops
    <3>2. Continue(w, e) /\ d.agent = None
      BY <1>0, <2>0, <2>1 DEF LoopSound
    <3> HIDE DEF e
    <3>3. Hand(e) \subseteq Hand(d)
      BY <3>1, <3>2 DEF Hand, HandLines
    <3> QED
      BY <1>0, <1>a, <2>0, <3>1, <3>2, <3>3 DEF HandLines
  <2> QED
    BY <1>2, <1>b, <2>0, <2>1 DEF DialSpeculative
<1>3. CASE Claim(w)
  <2>0. d.at = "claim" /\ d.agent \notin d.held
    BY <1>0, <1>3 DEF Claim, DialAt, LoopSound, HandLines
  <2>1. ASSUME NEW e, Continue(w, e), e.at \in {"create", "return"}, e.agent = d.agent, e.held = d.held
        PROVE  AgentInv' /\ OnTheLine
    <3>1. Hand(e) \subseteq Hand(d)
      BY <2>0, <2>1 DEF Hand, HandLines
    <3> QED
      BY <1>a, <2>0, <2>1, <3>1
  <2>2. /\ LET e == [d EXCEPT !.at = "create"]
           IN  e.at = "create" /\ e.agent = d.agent /\ e.held = d.held
        /\ LET e == [d EXCEPT !.at = "return", !.call = None]
           IN  e.at = "return" /\ e.agent = d.agent /\ e.held = d.held
    BY <1>0 DEF DialLoops
  <2> QED
    BY <1>3, <1>b, <2>0, <2>1, <2>2 DEF Claim
<1> QED
  BY <1>1, <1>2, <1>3

\* The loop goes on with a write to one agent, who is on no call.
LEMMA LoopWritesAgent ==
  ASSUME DialerInv, DialerInv', CallInv, AgentInv, NEW w \in Workers, NEW d, NEW a \in Agents,
         Continue(w, d) \/ Suspend(w, d),
         agents[a].state = "AVAILABLE" \/ (agents[a].state = "RESERVED" /\ agents[a].reserved_by = w),
         \A b \in Agents \ {a} : agents'[b] = agents[b],
         UNCHANGED <<calls, wrap_ups, bridge_results>>,
         \A c \in Contacts : Live(calls[c]) /\ calls[c].agent_id = a => Paired(calls[c], c, agents'),
         LoopSound(w, d, agents', calls)
  PROVE  AgentInv' /\ OnTheLine
<1>1. LoopSound(w, dial'[w], agents', calls')
  BY LoopCpu, DialStartSound
<1>2. /\ cpu'[w] \in {Idle, DialTask}
      /\ \A v \in Workers \ {w} : cpu'[v] = cpu[v] /\ dial'[v] = dial[v]
  BY LoopCpu
<1>3. \A c \in Contacts : bridge_results'[c] = bridge_results[c] /\ calls'[c] = calls[c]
  OBVIOUS
<1>4. LoopChanges(w, {a}, {})
  BY <1>1, <1>2, <1>3 DEF LoopChanges
<1> QED
  BY <1>4, LoopKeepsAgents

\* No live call has an AVAILABLE agent.
LEMMA FreeIsUnserved ==
  ASSUME AgentInv, NEW a \in Agents, agents[a].state = "AVAILABLE"
  PROVE  Unserved(a, calls)
<1>1. a # None
  BY StoreAssumption
<1> QED
  BY <1>1 DEF AgentInv, Paired, Unserved, Engaged, Busy

\* An agent the loop reserves is in its hand.
LEMMA LoopReserves ==
  ASSUME DialerInv, DialerInv', CallInv, AgentInv, NEW w \in Workers, NEW d, NEW a \in Agents, NEW lease,
         ReserveAgent(a, w, lease), Continue(w, d) \/ Suspend(w, d),
         dial[w].at # "assign", Hand(d) \subseteq Hand(dial[w]) \cup {a},
         d.at \notin {"assign", "place", "attach"},
         d.at = "speculate" => d.agent = None,
         d.at \in HandLines => d.agent \notin d.held,
         UNCHANGED <<calls, wrap_ups, bridge_results>>
  PROVE  AgentInv' /\ OnTheLine
<1>1. /\ agents[a].state = "AVAILABLE"
      /\ agents'[a].state = "RESERVED" /\ agents'[a].reserved_by = w
      /\ \A b \in Agents \ {a} : agents'[b] = agents[b]
  BY ReservedAgent DEF DialerInv
<1>2. Unserved(a, calls)
  BY <1>1, FreeIsUnserved
<1>3. LoopSound(w, dial[w], agents, calls) /\ Hand(dial[w]) \subseteq Agents
  BY DEF AgentInv, DialerInv, GoodLoops, DialLoops, Hand
<1>4. \A b \in Hand(d) : agents'[b].state = "RESERVED" /\ agents'[b].reserved_by = w /\ Unserved(b, calls)
  BY <1>1, <1>2, <1>3 DEF LoopSound
<1>5. LoopSound(w, d, agents', calls)
  BY <1>4, HandSound
<1> QED
  BY <1>1, <1>2, <1>5, LoopWritesAgent DEF Unserved

\* reserve_agent takes an AVAILABLE agent, so nobody else has it in hand.
LEMMA ReserveSound ==
  ASSUME DialerInv, DialerInv', CallInv, AgentInv, NEW w \in Workers,
         BridgeReserve(w) \/ ScanReserve(w), UNCHANGED wrap_ups
  PROVE  AgentInv' /\ OnTheLine
<1> DEFINE d == dial[w]
<1>0. /\ d \in DialLoops /\ LoopSound(w, d, agents, calls) /\ None \notin Agents
      /\ d.held \subseteq Agents /\ d.listed \subseteq Agents
      /\ UNCHANGED <<calls, wrap_ups, bridge_results>>
  BY StoreAssumption DEF DialerInv, GoodLoops, AgentInv, BridgeReserve, ScanReserve, DialLoops, bridge_vars
<1>1. CASE BridgeReserve(w)
  <2>0. d.at = "bridge"
    BY <1>1 DEF BridgeReserve, DialAt
  <2>1. PICK a \in d.listed :
          LET u == [d EXCEPT !.listed = @ \ {a}]
          IN  \/ ReserveAgent(a, w, CallLease) /\ Continue(w, [u EXCEPT !.at = "connect", !.agent = a])
              \/ agents[a].state # "AVAILABLE" /\ Continue(w, u) /\ UNCHANGED agents
    BY <1>1 DEF BridgeReserve
  <2> DEFINE u == [d EXCEPT !.listed = @ \ {a}]
             e == [u EXCEPT !.at = "connect", !.agent = a]
  <2>2. /\ u.at = "bridge" /\ u.agent = d.agent /\ u.held = d.held
        /\ e.at = "connect" /\ e.agent = a /\ e.held = d.held
    BY <1>0, <2>0 DEF DialLoops
  <2>3. \/ ReserveAgent(a, w, CallLease) /\ Continue(w, e)
        \/ agents[a].state # "AVAILABLE" /\ Continue(w, u) /\ UNCHANGED agents
    BY <2>1
  <2> HIDE DEF u, e
  <2>4. Hand(u) = d.held /\ Hand(d) = d.held /\ Hand(e) = d.held \cup {a}
    BY <1>0, <2>0, <2>1, <2>2 DEF Hand, HandLines
  <2>5. CASE ReserveAgent(a, w, CallLease) /\ Continue(w, e)
    <3>1. a \notin d.held
      BY <1>0, <2>4, <2>5 DEF LoopSound, ReserveAgent
    <3> QED
      BY <1>0, <2>0, <2>1, <2>2, <2>4, <2>5, <3>1, LoopReserves
  <2>6. CASE Continue(w, u) /\ UNCHANGED agents
    BY <1>0, <2>0, <2>2, <2>4, <2>6, LoopHolds DEF HandLines
  <2> QED
    BY <2>3, <2>5, <2>6
<1>2. CASE ScanReserve(w)
  <2>0. d.at = "scan"
    BY <1>2 DEF ScanReserve, DialAt
  <2>1. ASSUME NEW rest, NEW held,
               Suspend(w, [d EXCEPT !.listed = rest, !.held = held, !.at = NextLine(rest, held)]),
               \/ held = d.held /\ UNCHANGED agents
               \/ \E a \in Agents : held = d.held \cup {a} /\ ReserveAgent(a, w, AgentLease)
        PROVE  AgentInv' /\ OnTheLine
    <3> DEFINE e == [d EXCEPT !.listed = rest, !.held = held, !.at = NextLine(rest, held)]
    <3>1. e.at \in {"scan", "dial", "pace", "top"} /\ e.held = held /\ Suspend(w, e)
      BY <1>0, <2>1, NextLines DEF DialLoops
    <3> HIDE DEF e
    <3>2. Hand(e) = held /\ Hand(d) = d.held
      BY <2>0, <3>1 DEF Hand, HandLines
    <3>3. CASE held = d.held /\ UNCHANGED agents
      BY <1>0, <2>0, <3>1, <3>2, <3>3, LoopHolds DEF HandLines
    <3>4. ASSUME NEW a \in Agents, held = d.held \cup {a}, ReserveAgent(a, w, AgentLease)
          PROVE  AgentInv' /\ OnTheLine
      BY <1>0, <2>0, <3>1, <3>2, <3>4, LoopReserves DEF HandLines
    <3> QED
      BY <2>1, <3>3, <3>4
  <2> QED
    BY <1>0, <1>2, <2>1 DEF ScanReserve
<1> QED
  BY <1>1, <1>2

\* An agent without a contact goes back to AVAILABLE from the hand that holds it.
LEMMA ReturnSound ==
  ASSUME DialerInv, DialerInv', CallInv, AgentInv, NEW w \in Workers, ReturnAgent(w),
         UNCHANGED <<wrap_ups, bridge_results>>
  PROVE  AgentInv' /\ OnTheLine
<1> DEFINE d == dial[w]
<1>0. /\ d.at = "return" /\ d \in DialLoops /\ LoopSound(w, d, agents, calls) /\ None \notin Agents
      /\ d.held \subseteq Agents /\ d.agent \in Agents
      /\ Suspend(w, NextUnit(d)) /\ UNCHANGED <<calls, wrap_ups, bridge_results>>
      /\ TryTransitionAgent(d.agent, w, "AVAILABLE", {"RESERVED"}, None, NoLease)
  BY StoreAssumption DEF DialerInv, GoodLoops, AgentInv, ReturnAgent, DialAt, DialLoops
<1>1. /\ d.agent \in Hand(d) /\ d.held \subseteq Hand(d) /\ d.agent \notin d.held
  BY <1>0 DEF Hand, HandLines, LoopSound
<1>2. /\ NextUnit(d).held = d.held /\ NextUnit(d).agent = None
      /\ NextUnit(d).at \in {"dial", "pace", "top", "speculate"}
      /\ Hand(NextUnit(d)) = d.held
  BY <1>0, NextUnitHand
<1>3. CASE TransitionAgent(d.agent, w, "AVAILABLE", {"RESERVED"}, None, NoLease)
  <2>1. \A b \in Agents \ {d.agent} : agents'[b] = agents[b]
    BY <1>0, <1>3, MovedAgent DEF DialerInv
  <2>2. LoopSound(w, NextUnit(d), agents', calls)
    BY <1>0, <1>1, <1>2, <2>1, HandSound DEF LoopSound, HandLines
  <2>3. /\ agents[d.agent].state = "RESERVED" /\ agents[d.agent].reserved_by = w
        /\ Unserved(d.agent, calls)
    BY <1>0, <1>1 DEF LoopSound
  <2> QED
    BY <1>0, <2>1, <2>2, <2>3, LoopWritesAgent DEF Unserved
<1>4. CASE UNCHANGED agents
  BY <1>0, <1>1, <1>2, <1>4, LoopHolds DEF HandLines
<1> QED
  BY <1>0, <1>3, <1>4 DEF TryTransitionAgent

\* The agent reserved for a bridge goes on the waiting call.
LEMMA ConnectSound ==
  ASSUME DialerInv, DialerInv', CallInv, AgentInv, NEW w \in Workers, BridgeConnect(w), UNCHANGED wrap_ups
  PROVE  AgentInv' /\ OnTheLine
<1> DEFINE d == dial[w]
           e == [d EXCEPT !.at = "attach"]
           g == [d EXCEPT !.at = "bridge", !.agent = None]
<1>0. /\ d.at = "connect" /\ d \in DialLoops /\ LoopSound(w, d, agents, calls) /\ None \notin Agents
      /\ d.held \subseteq Agents /\ d.agent \in Agents
      /\ UNCHANGED <<calls, wrap_ups, bridge_results>>
  BY StoreAssumption DEF DialerInv, GoodLoops, AgentInv, BridgeConnect, DialAt, DialLoops, bridge_vars
<1>1. /\ d.agent \in Hand(d) /\ d.held \subseteq Hand(d) /\ d.agent \notin d.held
  BY <1>0 DEF Hand, HandLines, LoopSound
<1>2. /\ e.at = "attach" /\ e.agent = d.agent /\ e.held = d.held /\ e.call = d.call
      /\ g.at = "bridge" /\ g.held = d.held
  BY <1>0 DEF DialLoops
<1>3. \/ TransitionAgent(d.agent, w, "CONNECTED", {"RESERVED"}, d.call, CallLease) /\ Continue(w, e)
      \/ Continue(w, g) /\ UNCHANGED agents
  BY DEF BridgeConnect
<1> HIDE DEF e, g
<1>4. Hand(e) = d.held /\ Hand(g) = d.held
  BY <1>2 DEF Hand, HandLines
<1>5. CASE TransitionAgent(d.agent, w, "CONNECTED", {"RESERVED"}, d.call, CallLease) /\ Continue(w, e)
  <2>1. /\ \A b \in Agents \ {d.agent} : agents'[b] = agents[b]
        /\ agents'[d.agent].state = "CONNECTED" /\ agents'[d.agent].reserved_by = w
        /\ agents'[d.agent].current_call_id = d.call
    BY <1>0, <1>5, MovedAgent DEF DialerInv
  <2>2. /\ agents[d.agent].state = "RESERVED" /\ agents[d.agent].reserved_by = w
        /\ Unserved(d.agent, calls)
    BY <1>0, <1>1 DEF LoopSound
  <2>3. \A a \in Hand(e) : agents'[a].state = "RESERVED" /\ agents'[a].reserved_by = w /\ Unserved(a, calls)
    BY <1>0, <1>1, <1>4, <2>1 DEF LoopSound
  <2>4. LoopSound(w, e, agents', calls)
    BY <1>2, <2>1, <2>2, <2>3 DEF LoopSound, HandLines, Engaged, Busy
  <2> QED
    BY <1>0, <1>5, <2>1, <2>2, <2>4, LoopWritesAgent DEF Unserved
<1>6. CASE Continue(w, g) /\ UNCHANGED agents
  BY <1>0, <1>1, <1>2, <1>4, <1>6, LoopHolds DEF HandLines
<1> QED
  BY <1>3, <1>5, <1>6

\* The agent held for a new call goes on it.
LEMMA AssignSound ==
  ASSUME DialerInv, DialerInv', CallInv, AgentInv, NEW w \in Workers, Assign(w),
         UNCHANGED <<wrap_ups, bridge_results>>
  PROVE  AgentInv' /\ OnTheLine
<1> DEFINE d == dial[w]
           e == [d EXCEPT !.at = "place"]
<1>0. /\ d.at = "assign" /\ d \in DialLoops /\ LoopSound(w, d, agents, calls) /\ None \notin Agents
      /\ d.held \subseteq Agents /\ d.agent \in Agents /\ d.call \in Contacts
      /\ UNCHANGED <<calls, wrap_ups, bridge_results>>
      /\ TryTransitionAgent(d.agent, w, "DIALING", {"RESERVED"}, d.call, CallLease)
  BY StoreAssumption DEF DialerInv, GoodLoops, AgentInv, Assign, DialAt, DialLoops
<1>1. /\ d.agent \in Hand(d) /\ d.held \subseteq Hand(d) /\ d.agent \notin d.held
  BY <1>0 DEF Hand, HandLines, LoopSound
<1>2. e.at = "place" /\ e.agent = d.agent /\ e.held = d.held /\ e.call = d.call
  BY <1>0 DEF DialLoops
<1>3. Continue(w, e)
  BY DEF Assign
<1> HIDE DEF e
<1>4. Hand(e) = d.held
  BY <1>2 DEF Hand, HandLines
<1>5. agents[d.agent].state = "RESERVED" /\ agents[d.agent].reserved_by = w
  BY <1>0, <1>1 DEF LoopSound
<1>6. TransitionAgent(d.agent, w, "DIALING", {"RESERVED"}, d.call, CallLease)
  BY <1>0, <1>5 DEF TryTransitionAgent, CanTransition, AgentEdge, AGENT_TRANSITIONS, AgentState
<1>7. /\ \A b \in Agents \ {d.agent} : agents'[b] = agents[b]
      /\ agents'[d.agent].state = "DIALING" /\ agents'[d.agent].reserved_by = w
      /\ agents'[d.agent].current_call_id = d.call
  BY <1>0, <1>6, MovedAgent DEF DialerInv
<1>8. LoopSound(w, e, agents', calls)
  BY <1>0, <1>1, <1>2, <1>4, <1>7 DEF LoopSound, HandLines, Engaged, Busy
<1>9. ASSUME NEW c \in Contacts, Live(calls[c]), calls[c].agent_id = d.agent PROVE Paired(calls[c], c, agents')
  <2>1. Live(calls[d.call]) /\ calls[d.call].agent_id = d.agent /\ calls[d.call].reserved_by = w
    BY <1>0 DEF LoopSound, Live, LIVE_CALL_STATES
  <2>2. c = d.call
    BY <1>0, <1>9, <2>1 DEF AgentInv, OneLine
  <2>3. ~calls[c].connected
    BY <1>0, <1>5, <1>9, <2>2 DEF AgentInv, Paired, Engaged, Busy
  <2> QED
    BY <1>7, <1>9, <2>1, <2>2, <2>3 DEF Paired, Engaged, Busy
<1> QED
  BY <1>0, <1>3, <1>5, <1>7, <1>8, <1>9, LoopWritesAgent

\* The loop goes on with a write to one call.
LEMMA LoopWritesCall ==
  ASSUME DialerInv, DialerInv', CallInv, AgentInv, NEW w \in Workers, NEW d, NEW c \in Contacts,
         Continue(w, d) \/ Suspend(w, d),
         ~Finished(c), calls[c].reserved_by \in {None, w},
         UNCHANGED <<agents, wrap_ups>>,
         \A b \in Contacts \ {c} : calls'[b] = calls[b] /\ bridge_results'[b] = bridge_results[b],
         Paired(calls'[c], c, agents), ~Reaped(calls'[c]),
         FoundSound(bridge_results'[c], calls'[c], agents),
         Live(calls'[c]) /\ calls'[c].agent_id # None =>
           /\ agents[calls'[c].agent_id].reserved_by = w
           /\ \A b \in Contacts \ {c} : Live(calls[b]) => calls[b].agent_id # calls'[c].agent_id,
         LoopSound(w, d, agents, calls')
  PROVE  AgentInv' /\ OnTheLine
<1>1. LoopSound(w, dial'[w], agents', calls')
  BY LoopCpu, DialStartSound
<1>2. /\ cpu'[w] \in {Idle, DialTask}
      /\ \A v \in Workers \ {w} : cpu'[v] = cpu[v] /\ dial'[v] = dial[v]
  BY LoopCpu
<1>4. LoopChanges(w, {}, {c})
  BY <1>1, <1>2 DEF LoopChanges
<1> QED
  BY <1>4, LoopKeepsAgents

\* create_call names an agent no live call has.
LEMMA CreateSound ==
  ASSUME DialerInv, DialerInv', CallInv, AgentInv, NEW w \in Workers, Create(w),
         UNCHANGED <<wrap_ups, bridge_vars>>
  PROVE  AgentInv' /\ OnTheLine
<1> DEFINE d == dial[w]
           c == d.call
           e == [d EXCEPT !.at = IF d.agent # None THEN "assign" ELSE "place"]
<1>0. /\ d.at = "create" /\ d \in DialLoops /\ LoopSound(w, d, agents, calls) /\ None \notin Agents
      /\ d.held \subseteq Agents /\ d.agent \in Agents \cup {None} /\ c \in Contacts
      /\ UNCHANGED <<agents, wrap_ups, bridge_results>>
      /\ CreateCall(c, d.agent, w) /\ Continue(w, e) /\ StoreTypeOK
  BY StoreAssumption DEF DialerInv, GoodLoops, AgentInv, Create, DialAt, DialLoops, bridge_vars
<1>1. /\ Hand(d) = d.held \cup ({d.agent} \ {None}) /\ d.agent \notin d.held
      /\ \A a \in Hand(d) : agents[a].state = "RESERVED" /\ agents[a].reserved_by = w /\ Unserved(a, calls)
  BY <1>0 DEF Hand, HandLines, LoopSound
<1>2. /\ e.at = (IF d.agent # None THEN "assign" ELSE "place")
      /\ e.agent = d.agent /\ e.held = d.held /\ e.call = c
  BY <1>0 DEF DialLoops
<1> HIDE DEF e
<1>3. /\ calls[c] = NoCall
      /\ calls'[c].agent_id = d.agent /\ calls'[c].state = "RESERVED" /\ calls'[c].reserved_by = w
      /\ calls'[c].connected = FALSE /\ calls'[c].reason = None
      /\ \A b \in Contacts \ {c} : calls'[b] = calls[b]
  BY <1>0, CreatedCall
<1>4. calls[c].state = "QUEUED" /\ calls[c].reserved_by = None /\ bridge_results'[c] = None
  BY <1>0, <1>3, Unplaced DEF NoCall, Waiting
<1>5. \A a \in d.held : Unserved(a, calls')
  BY <1>0, <1>1, <1>3 DEF Unserved
<1>6. LoopSound(w, e, agents, calls')
  <2>1. Hand(e) = d.held \cup ({d.agent} \ {None})
    BY <1>2 DEF Hand, HandLines
  <2> QED
    BY <1>0, <1>1, <1>2, <1>3, <1>5, <2>1 DEF LoopSound, HandLines
<1>7. d.agent # None =>
        /\ agents[d.agent].state = "RESERVED" /\ agents[d.agent].reserved_by = w
        /\ \A b \in Contacts \ {c} : Live(calls[b]) => calls[b].agent_id # d.agent
  BY <1>1 DEF Unserved
<1>8. Paired(calls'[c], c, agents) /\ FoundSound(bridge_results'[c], calls'[c], agents)
  BY <1>3, <1>4, <1>7 DEF Paired, FoundSound
<1>9. ~Finished(c) /\ ~Reaped(calls'[c])
  BY <1>3, <1>4 DEF Finished, TERMINAL_CALL_STATES, Reaped
<1> QED
  BY <1>0, <1>3, <1>4, <1>6, <1>7, <1>8, <1>9, LoopWritesCall

\* mark_call_initiated comes after the agent went on the call.
LEMMA PlaceSound ==
  ASSUME DialerInv, DialerInv', CallInv, AgentInv, NEW w \in Workers, Place(w),
         UNCHANGED <<wrap_ups, bridge_vars>>
  PROVE  AgentInv' /\ OnTheLine
<1> DEFINE d == dial[w]
           c == d.call
<1>0. /\ d.at = "place" /\ d \in DialLoops /\ LoopSound(w, d, agents, calls) /\ None \notin Agents
      /\ d.held \subseteq Agents /\ d.agent \in Agents \cup {None} /\ c \in Contacts
      /\ UNCHANGED <<agents, wrap_ups, bridge_results>>
      /\ MarkCallInitiated(c, CallLease) /\ Suspend(w, NextUnit(d)) /\ StoreTypeOK
  BY StoreAssumption DEF DialerInv, GoodLoops, AgentInv, Place, DialAt, DialLoops, bridge_vars
<1>1. /\ Hand(d) = d.held
      /\ \A a \in d.held : agents[a].state = "RESERVED" /\ agents[a].reserved_by = w /\ Unserved(a, calls)
      /\ calls[c].state = "RESERVED" /\ calls[c].reserved_by = w /\ calls[c].agent_id = d.agent
      /\ d.agent # None => Engaged(agents[d.agent], w, c)
  BY <1>0 DEF Hand, HandLines, LoopSound
<1>2. /\ NextUnit(d).held = d.held /\ NextUnit(d).agent = None
      /\ NextUnit(d).at \in {"dial", "pace", "top", "speculate"}
      /\ Hand(NextUnit(d)) = d.held
  BY <1>0, NextUnitHand
<1>3. /\ calls'[c].state = "INITIATED" /\ calls'[c].agent_id = d.agent /\ calls'[c].reserved_by = w
      /\ calls'[c].connected = calls[c].connected /\ calls'[c].reason = calls[c].reason
      /\ \A b \in Contacts \ {c} : calls'[b] = calls[b]
  BY <1>0, <1>1, PlacedCall
<1>4. bridge_results'[c] = None /\ ~Reaped(calls[c]) /\ ~calls[c].connected
  BY <1>0, <1>1, Unplaced DEF Waiting, AgentInv
<1>5. \A a \in d.held : Unserved(a, calls')
  BY <1>1, <1>3 DEF Unserved, Live, LIVE_CALL_STATES
<1>6. LoopSound(w, NextUnit(d), agents, calls')
  BY <1>1, <1>2, <1>5, HandSound DEF HandLines
<1>7. d.agent # None =>
        /\ agents[d.agent].reserved_by = w
        /\ \A b \in Contacts \ {c} : Live(calls[b]) => calls[b].agent_id # d.agent
  <2>1. Live(calls[c]) /\ OneLine(calls)
    BY <1>1 DEF Live, LIVE_CALL_STATES, AgentInv
  <2> QED
    BY <1>0, <1>1, <2>1 DEF Engaged, OneLine
<1>8. /\ Paired(calls'[c], c, agents) /\ FoundSound(bridge_results'[c], calls'[c], agents)
      /\ ~Finished(c) /\ ~Reaped(calls'[c])
  BY <1>1, <1>3, <1>4 DEF Paired, FoundSound, Finished, Reaped, TERMINAL_CALL_STATES
<1> QED
  BY <1>0, <1>1, <1>3, <1>4, <1>6, <1>7, <1>8, LoopWritesCall

\* attach_agent_to_call names an agent no live call has.
LEMMA AttachSound ==
  ASSUME DialerInv, DialerInv', CallInv, LinkInv, AgentInv, NEW w \in Workers, BridgeAttach(w),
         UNCHANGED wrap_ups
  PROVE  AgentInv' /\ OnTheLine
<1> DEFINE d == dial[w]
           c == d.call
           e == [DialStart EXCEPT !.at = "serve", !.bridges = d.bridges]
<1>0. /\ d.at = "attach" /\ d \in DialLoops /\ LoopSound(w, d, agents, calls) /\ None \notin Agents
      /\ d.agent \in Agents /\ c \in Contacts
      /\ UNCHANGED <<agents, wrap_ups>>
      /\ AttachAgentToCall(c, d.agent) /\ Suspend(w, e) /\ StoreTypeOK
      /\ bridge_results \in [Contacts -> Agents \cup {None}]
      /\ bridge_results' = [bridge_results EXCEPT ![c] = d.agent]
  BY StoreAssumption DEF DialerInv, DialerTypeOK, GoodLoops, AgentInv, BridgeAttach, DialAt, DialLoops
<1>1. /\ Engaged(agents[d.agent], w, c) /\ agents[d.agent].state = "CONNECTED"
      /\ Unserved(d.agent, calls)
  BY <1>0 DEF LoopSound
<1>2. /\ e.at = "serve" /\ e.held = {} /\ e.agent = None
  BY DEF DialStart
<1> HIDE DEF e
<1>3. /\ calls'[c].agent_id = d.agent /\ SameRow(calls[c], calls'[c])
      /\ \A b \in Contacts \ {c} : calls'[b] = calls[b]
  BY <1>0, AttachedCall
<1>4. /\ calls[c].reserved_by = w /\ Waiting(c)
  BY <1>0, AttachedWaits DEF Bridging, Waiting
<1>5. calls[c].state \in {"INITIATED", "RINGING"} /\ ~calls[c].connected
  BY <1>0, <1>4, WaitingLives
<1>6. LoopSound(w, e, agents, calls')
  BY <1>2, StartSound DEF HandLines
<1>7. Paired(calls'[c], c, agents) /\ ~Reaped(calls'[c]) /\ ~Finished(c)
  BY <1>0, <1>1, <1>3, <1>4, <1>5 DEF Paired, SameRow, Reaped, Finished, TERMINAL_CALL_STATES
<1>8. /\ FoundSound(bridge_results'[c], calls'[c], agents)
      /\ \A b \in Contacts \ {c} : calls'[b] = calls[b] /\ bridge_results'[b] = bridge_results[b]
  BY <1>0, <1>1, <1>3 DEF FoundSound
<1> QED
  BY <1>0, <1>1, <1>3, <1>4, <1>6, <1>7, <1>8, LoopWritesCall, SMTT(30) DEF Engaged, Unserved

\* The steps of a dial loop.
LEMMA DialLoopSound ==
  ASSUME DialerInv, DialerInv', CallInv, LinkInv, AgentInv, NEW w \in Workers, DialLoop(w)
  PROVE  AgentInv' /\ OnTheLine
<1>0. UNCHANGED wrap_ups
  BY DEF DialLoop
<1>1. CASE ServeBridges(w)
  <2>1. ASSUME BridgeBreak(w) PROVE AgentInv' /\ OnTheLine
    BY <1>0, <2>1, BeginScanSound DEF BridgeBreak, bridge_vars
  <2> QED
    BY <1>0, <1>1, <2>1, ServeSound, ReserveSound, ConnectSound, AttachSound DEF ServeBridges
<1>2. CASE Dial(w)
  <2>1. UNCHANGED bridge_vars /\ UNCHANGED bridge_results
    BY <1>2 DEF Dial, bridge_vars
  <2> QED
    BY <1>0, <1>2, <2>1, DialUnitSound, ReturnSound, CreateSound, AssignSound, PlaceSound, PaceSound
    DEF Dial
<1> QED
  BY <1>1, <1>2 DEF DialLoop

-----------------------------------------------------------------------------
(* The handlers and the agents of their calls *)

\* A handler or wrap-up does not share the worker with a bridge.
LEMMA NotBridging ==
  ASSUME CallInv, NEW w \in Workers, cpu[w] = Idle \/ cpu[w].at # "none"
  PROVE  ~Bridging(w)
BY DEF CallInv, LoopInv, DialTask, Idle

\* An idle task has nothing in hand.
LEMMA IdleSound ==
  ASSUME NEW w, NEW ag, NEW cl
  PROVE  FrameSound(w, Idle, ag, cl)
BY DEF FrameSound, Idle, OnCall

\* A step of a task that writes neither calls nor agents.
LEMMA TaskReads ==
  ASSUME DialerInv, DialerInv', CallInv, AgentInv, NEW w \in Workers, ~Bridging(w), NEW g,
         Run(w, g), FrameSound(w, g, agents, calls),
         UNCHANGED <<agents, calls, dial>>,
         \A t \in wrap_ups' : t \in wrap_ups \/ WrapSound(t, agents, calls),
         \A c \in Contacts : bridge_results'[c] \in {bridge_results[c], None}
  PROVE  AgentInv' /\ OnTheLine
<1>1. cpu'[w] = g /\ \A v \in Workers \ {w} : cpu'[v] = cpu[v]
  BY DEF Run, DialerInv
<1>2. TaskChanges(w, {}, {})
  BY <1>1 DEF TaskChanges
<1> QED
  BY <1>2, TaskKeepsAgents

\* A step of a task that writes its own live call.
LEMMA TaskWritesCall ==
  ASSUME DialerInv, DialerInv', CallInv, AgentInv, NEW w \in Workers, ~Bridging(w), NEW g,
         NEW c \in Contacts,
         Live(calls[c]), calls[c].state # "RESERVED", calls[c].reserved_by = w,
         calls'[c].agent_id = calls[c].agent_id, calls'[c].reserved_by = w, ~Reaped(calls'[c]),
         calls'[c].connected =>
           \/ calls[c].connected
           \/ calls[c].agent_id # None => agents[calls[c].agent_id].state = "CONNECTED",
         \A b \in Contacts \ {c} : calls'[b] = calls[b],
         Run(w, g), FrameSound(w, g, agents, calls'),
         UNCHANGED <<agents, dial, wrap_ups, bridge_results>>
  PROVE  AgentInv' /\ OnTheLine
<1>1. cpu'[w] = g /\ \A v \in Workers \ {w} : cpu'[v] = cpu[v]
  BY DEF Run, DialerInv
<1>2. TaskChanges(w, {}, {c})
  BY <1>1 DEF TaskChanges
<1> QED
  BY <1>2, TaskKeepsAgents

\* A step of a task that writes an agent: one in its wrap-up, one whose call is over,
\* or the agent of its call, who answers.
LEMMA TaskWritesAgent ==
  ASSUME DialerInv, DialerInv', CallInv, AgentInv, NEW w \in Workers, ~Bridging(w), NEW g,
         NEW a \in Agents,
         \/ agents[a].state = "WRAP_UP"
         \/ \E c \in Contacts :
              /\ Engaged(agents[a], w, c) /\ calls[c].state \notin {"QUEUED", "RESERVED"}
              /\ Finished(c) \/ (Engaged(agents'[a], w, c) /\ agents'[a].state = "CONNECTED"),
         \A b \in Agents \ {a} : agents'[b] = agents[b],
         Run(w, g), FrameSound(w, g, agents', calls),
         \A t \in wrap_ups' : t.asleep \/ (t \in wrap_ups /\ t.agent # a),
         UNCHANGED <<calls, dial, bridge_results>>
  PROVE  AgentInv' /\ OnTheLine
<1>1. cpu'[w] = g /\ \A v \in Workers \ {w} : cpu'[v] = cpu[v]
  BY DEF Run, DialerInv
<1>2. \A t \in wrap_ups' : \/ t \in wrap_ups /\ (t.asleep \/ t.agent \notin {a})
                           \/ WrapSound(t, agents', calls')
  BY DEF WrapSound
<1>3. TaskChanges(w, {a}, {})
  BY <1>1, <1>2 DEF TaskChanges
<1> QED
  BY <1>3, TaskKeepsAgents

\* An event is taken up, or put aside.
LEMMA EventSound ==
  ASSUME DialerInv, DialerInv', CallInv, ReportedInv, AgentInv,
         NEW w \in Workers, NEW c \in Contacts, EventTask(w, c)
  PROVE  AgentInv' /\ OnTheLine
<1>0. /\ cpu[w] = Idle /\ c \in Own(w) /\ inbox[c] # <<>>
      /\ UNCHANGED <<agents, calls, dial, bridge_results, wrap_ups>>
  BY DEF EventTask, HandleDuplicate, HandleStale, HandleEvent, HandleAnswered, Deliver, Ready
<1>1. ~Bridging(w)
  BY <1>0, NotBridging
<1>2. CASE UNCHANGED cpu
  BY <1>0, <1>2, QuietKeepsAgents
<1>3. CASE HandleEvent(w, c) \/ HandleAnswered(w, c)
  <2>1. Target(c) # Drop
    BY <1>3 DEF HandleEvent, HandleAnswered, Drop
  <2>2. calls[c].state \in CallState /\ calls[c].state \notin {"QUEUED", "RESERVED"}
    BY <1>0 DEF CallInv, RowInv, RowFits, Known, DialerInv, StoreTypeOK, CallRow
  <2>3. Live(calls[c]) /\ Target(c) = Head(inbox[c]).type
    BY <2>1, <2>2, NotLive DEF Target, Reconcile
  <2>4. Target(c) \in {"RINGING", "ANSWERED", "COMPLETED", "FAILED"}
    <3>1. inbox[c] \in Seq(Reported)
      BY DEF ReportedInv
    <3>2. Head(inbox[c]) \in Reported
      BY <1>0, <3>1
    <3> QED
      BY <2>3, <3>2 DEF Reported, EventType
  <2>5. ASSUME NEW a, NEW at \in {"apply", "bridge"},
               at = "apply" => Target(c) # "ANSWERED", Run(w, Handler(at, c, a, Target(c)))
        PROVE  AgentInv' /\ OnTheLine
    <3> DEFINE g == Handler(at, c, a, Target(c))
    <3>1. g.task = "event" /\ g.at = at /\ g.call = c /\ g.target = Target(c)
      BY DEF Handler, Idle
    <3> HIDE DEF g
    <3>2. FrameSound(w, g, agents, calls)
      BY <2>3, <2>4, <2>5, <3>1 DEF FrameSound, OnCall, TERMINAL_CALL_STATES
    <3>3. Run(w, g)
      BY <2>5 DEF g
    <3> QED
      BY <1>0, <1>1, <3>2, <3>3, TaskReads
  <2>6. CASE HandleEvent(w, c)
    BY <2>5, <2>6 DEF HandleEvent
  <2>7. CASE HandleAnswered(w, c)
    <3>1. UNCHANGED cpu \/ Run(w, Handler("bridge", c, calls[c].agent_id, Target(c)))
      BY <2>7 DEF HandleAnswered
    <3> QED
      BY <1>2, <2>5, <3>1
  <2> QED
    BY <1>3, <2>6, <2>7
<1> QED
  BY <1>2, <1>3 DEF EventTask, HandleDuplicate, HandleStale

\* A waiting handler wakes up: the agent it was promised is the agent of its call.
LEMMA BridgeWaitSound ==
  ASSUME DialerInv, DialerInv', CallInv, AgentInv,
         NEW w \in Workers, NEW c \in Contacts, BridgeWait(w, c)
  PROVE  AgentInv' /\ OnTheLine
<1>0. /\ cpu[w] = Idle /\ Waiting(c) /\ c \in Own(w)
      /\ UNCHANGED <<agents, calls, dial, wrap_ups>>
      /\ \A b \in Contacts : bridge_results'[b] \in {bridge_results[b], None}
  BY DEF BridgeWait, BridgeFound, BridgeTimeout, Ready, Waiting, store_vars, DialerInv, DialerTypeOK
<1>1. ~Bridging(w) /\ Live(calls[c])
  BY <1>0, NotBridging, WaitingLives DEF Live, LIVE_CALL_STATES
<1>2. CASE BridgeFound(w, c)
  <2> DEFINE g == Handler("answered", c, bridge_results[c], "ANSWERED")
  <2>1. g.task = "event" /\ g.at = "answered" /\ g.call = c
    BY DEF Handler, Idle
  <2>2. Run(w, g) /\ bridge_results[c] # None
    BY <1>2 DEF BridgeFound
  <2> HIDE DEF g
  <2>3. FrameSound(w, g, agents, calls)
    BY <1>1, <2>1, <2>2 DEF FrameSound, OnCall, AgentInv, FoundSound
  <2> QED
    BY <1>0, <1>1, <2>2, <2>3, TaskReads
<1>3. CASE BridgeTimeout(w, c)
  <2> DEFINE g == Handler("unanswered", c, None, "ANSWERED")
  <2>1. g.task = "event" /\ g.at = "unanswered" /\ g.call = c
    BY DEF Handler, Idle
  <2>2. Run(w, g)
    BY <1>3 DEF BridgeTimeout
  <2> HIDE DEF g
  <2>3. FrameSound(w, g, agents, calls)
    BY <1>1, <2>1 DEF FrameSound, OnCall
  <2> QED
    BY <1>0, <1>1, <2>2, <2>3, TaskReads
<1> QED
  BY <1>2, <1>3 DEF BridgeWait

\* The call of a handler: it lives, and has the agent it seems to have.
LEMMA HandledCall ==
  ASSUME DialerInv, CallInv, AgentInv, NEW w \in Workers, cpu[w].at \in OnCall
  PROVE  LET c == cpu[w].call
         IN  /\ c \in Contacts /\ Live(calls[c]) /\ calls[c].reserved_by = w
             /\ calls[c].state # "RESERVED" /\ CanApply(c) /\ ~Bridging(w)
             /\ cpu[w] \in Frames /\ cpu[w].task = "event"
             /\ calls[c].agent_id # None =>
                  /\ calls[c].agent_id \in Agents /\ Engaged(agents[calls[c].agent_id], w, c)
                  /\ calls[c].connected => agents[calls[c].agent_id].state = "CONNECTED"
<1> DEFINE c == cpu[w].call
<1>1. /\ c \in Contacts /\ cpu[w] \in Frames /\ cpu[w].task = "event"
      /\ calls[c].reserved_by = w /\ calls[c].state \notin {"QUEUED", "RESERVED"}
  BY AtWork DEF Fits
<1>2. Live(calls[c]) /\ ~Bridging(w)
  BY NotBridging DEF AgentInv, FrameSound, OnCall
<1>3. CanApply(c)
  BY <1>2 DEF CanApply, Live, LIVE_CALL_STATES, TERMINAL_CALL_STATES
<1> QED
  BY <1>1, <1>2, <1>3, AgentOfCall

\* What apply_call_transition writes.
LEMMA AppliedReason ==
  ASSUME StoreTypeOK, NEW c \in Contacts, NEW target \in EventType, NEW why,
         ApplyCallTransition(c, target, why, CallLease)
  PROVE  calls'[c].state = target /\ calls'[c].reason = why
BY DEF ApplyCallTransition, Transitioned, StoreTypeOK, CallRow

\* A handler that returns leaves the worker idle: no reaper pass is under way.
LEMMA ReturnsIdle ==
  ASSUME AgentInv, NEW w \in Workers, Return(w)
  PROVE  Run(w, Idle)
BY DEF Return, AgentInv, FrameSound

\* What a frame becomes when the handler goes on.
LEMMA FrameGoesOn ==
  ASSUME NEW f \in Frames, NEW at, NEW a
  PROVE  /\ [f EXCEPT !.at = at].at = at /\ [f EXCEPT !.at = at].call = f.call
         /\ [f EXCEPT !.at = at].task = f.task /\ [f EXCEPT !.at = at].agent = f.agent
         /\ [f EXCEPT !.at = at, !.agent = a].at = at /\ [f EXCEPT !.at = at, !.agent = a].call = f.call
         /\ [f EXCEPT !.at = at, !.agent = a].task = f.task /\ [f EXCEPT !.at = at, !.agent = a].agent = a
BY DEF Frames

\* The agent of a call that is answered is still DIALING for it, so it goes on this
\* call and on no other.
LEMMA OwnAgentSound ==
  ASSUME DialerInv, DialerInv', CallInv, LinkInv, AgentInv, NEW w \in Workers, BridgeOwnAgent(w),
         UNCHANGED <<dial, bridge_results>>
  PROVE  AgentInv' /\ OnTheLine
<1> DEFINE f == cpu[w]
           c == f.call
           a == f.agent
           g == [f EXCEPT !.at = "answered"]
           h == [f EXCEPT !.at = "unanswered", !.agent = None]
<1>0. /\ f.at = "bridge" /\ UNCHANGED <<calls, dial, bridge_results, wrap_ups>> /\ StoreTypeOK
      /\ \/ TransitionAgent(a, w, "CONNECTED", {"DIALING"}, c, CallLease) /\ Run(w, g)
         \/ Run(w, h) /\ UNCHANGED agents
  BY DEF BridgeOwnAgent, HandlerAt, DialerInv
<1>1. /\ c \in Contacts /\ Live(calls[c]) /\ calls[c].reserved_by = w /\ calls[c].state # "RESERVED"
      /\ ~Bridging(w) /\ f \in Frames /\ f.task = "event"
      /\ calls[c].agent_id # None => Engaged(agents[calls[c].agent_id], w, c)
  BY <1>0, HandledCall DEF OnCall
<1>2. /\ a \in Agents /\ calls[c].agent_id = a /\ a # None
  BY <1>0, StoreAssumption DEF DialerInv, GoodFrames, LinkInv
<1>3. /\ g.at = "answered" /\ g.call = c /\ g.task = "event"
      /\ h.at = "unanswered" /\ h.call = c /\ h.task = "event"
  BY <1>1, FrameGoesOn
<1> HIDE DEF g, h
<1>4. CASE TransitionAgent(a, w, "CONNECTED", {"DIALING"}, c, CallLease) /\ Run(w, g)
  <2>1. /\ agents'[a].state = "CONNECTED" /\ agents'[a].current_call_id = c /\ agents'[a].reserved_by = w
        /\ \A b \in Agents \ {a} : agents'[b] = agents[b]
    BY <1>0, <1>2, <1>4, MovedAgent
  <2>2. FrameSound(w, g, agents', calls)
    BY <1>1, <1>2, <1>3, <2>1 DEF FrameSound, OnCall
  <2>3. ASSUME NEW t \in wrap_ups, ~t.asleep PROVE t.agent # a
    <3>1. WrapSound(t, agents, calls)
      BY DEF AgentInv
    <3> QED
      BY <1>1, <1>2, <2>3, <3>1 DEF WrapSound, Engaged, Live, LIVE_CALL_STATES, TERMINAL_CALL_STATES
  <2>4. /\ Engaged(agents[a], w, c) /\ calls[c].state \notin {"QUEUED", "RESERVED"}
        /\ Engaged(agents'[a], w, c) /\ agents'[a].state = "CONNECTED"
    BY <1>1, <1>2, <2>1 DEF Engaged, Busy, Live, LIVE_CALL_STATES
  <2> QED
    BY <1>0, <1>1, <1>2, <1>4, <2>1, <2>2, <2>3, <2>4, TaskWritesAgent
<1>5. CASE Run(w, h) /\ UNCHANGED agents
  <2>1. FrameSound(w, h, agents, calls)
    BY <1>1, <1>3 DEF FrameSound, OnCall
  <2> QED
    BY <1>0, <1>1, <1>5, <2>1, TaskReads
<1> QED
  BY <1>0, <1>4, <1>5

\* A handler that ends its call goes on to tell the pacing so.
LEMMA EndsSound ==
  ASSUME DialerInv, DialerInv', CallInv, AgentInv, NEW w \in Workers, cpu[w].at \in OnCall,
         NEW target \in TERMINAL_CALL_STATES \cap EventType, NEW reason, NEW c, c = cpu[w].call,
         ApplyCallTransition(c, target, reason, CallLease), ~Reaped(calls'[c]),
         Run(w, [cpu[w] EXCEPT !.at = "terminal", !.agent = calls[c].agent_id]),
         UNCHANGED <<agents, dial, wrap_ups, bridge_results>>
  PROVE  AgentInv' /\ OnTheLine
<1> DEFINE g == [cpu[w] EXCEPT !.at = "terminal", !.agent = calls[c].agent_id]
<1>0. StoreTypeOK /\ c \in Contacts
  BY HandledCall DEF DialerInv
<1>1. /\ Live(calls[c]) /\ calls[c].reserved_by = w /\ calls[c].state # "RESERVED"
      /\ ~Bridging(w) /\ cpu[w] \in Frames /\ cpu[w].task = "event"
      /\ calls[c].agent_id # None =>
           /\ Engaged(agents[calls[c].agent_id], w, c)
           /\ calls[c].connected => agents[calls[c].agent_id].state = "CONNECTED"
  BY HandledCall
<1>2. /\ calls'[c].state = target /\ calls'[c].reserved_by = w
      /\ calls'[c].agent_id = calls[c].agent_id /\ calls'[c].connected = calls[c].connected
      /\ \A b \in Contacts \ {c} : calls'[b] = calls[b]
  BY <1>0, <1>1, AppliedRow DEF TERMINAL_CALL_STATES
<1>3. g.at = "terminal" /\ g.call = c /\ g.task = "event" /\ g.agent = calls[c].agent_id
  BY <1>1, FrameGoesOn
<1>4. Run(w, g)
  OBVIOUS
<1> HIDE DEF g
<1>5. FrameSound(w, g, agents, calls')
  BY <1>1, <1>2, <1>3 DEF FrameSound, OnCall
<1> QED
  BY <1>0, <1>1, <1>2, <1>4, <1>5, TaskWritesCall

\* A handler moves its call on, and has the agent on the line when it says so.
LEMMA MovesSound ==
  ASSUME DialerInv, DialerInv', CallInv, AgentInv, NEW w \in Workers, cpu[w].at \in OnCall,
         NEW target \in {"RINGING", "ANSWERED", "CONNECTED"}, NEW reason, NEW c, c = cpu[w].call,
         ApplyCallTransition(c, target, reason, CallLease),
         target = "CONNECTED" => cpu[w].at = "connected",
         NEW g, Run(w, g), g.task # "reap",
         g = Idle \/ (g.call = c /\ g.at = "abandon")
                  \/ (g.call = c /\ g.at = "connected" /\ cpu[w].at = "answered"),
         UNCHANGED <<agents, dial, wrap_ups, bridge_results>>
  PROVE  AgentInv' /\ OnTheLine
<1>0. StoreTypeOK /\ c \in Contacts /\ target \in EventType
  BY HandledCall DEF DialerInv, EventType
<1>1. /\ Live(calls[c]) /\ calls[c].reserved_by = w /\ calls[c].state # "RESERVED" /\ ~Bridging(w)
  BY HandledCall
<1>2. /\ calls'[c].state = target /\ calls'[c].reserved_by = w
      /\ calls'[c].agent_id = calls[c].agent_id
      /\ calls'[c].connected => calls[c].connected \/ target = "CONNECTED"
      /\ \A b \in Contacts \ {c} : calls'[b] = calls[b]
  BY <1>0, <1>1, AppliedRow
<1>3. cpu[w].at \in {"answered", "connected"} =>
        calls[c].agent_id # None /\ agents[calls[c].agent_id].state = "CONNECTED"
  BY DEF AgentInv, FrameSound
<1>4. FrameSound(w, g, agents, calls')
  <2>1. CASE g = Idle
    BY <2>1, IdleSound
  <2>2. CASE g.call = c /\ g.at \in {"abandon", "connected"} /\ (g.at = "connected" => cpu[w].at = "answered")
    <3>1. Live(calls'[c]) /\ (g.at = "connected" =>
            calls'[c].agent_id # None /\ agents[calls'[c].agent_id].state = "CONNECTED")
      BY <1>2, <1>3, <2>2 DEF Live, LIVE_CALL_STATES
    <3> QED
      BY <2>2, <3>1 DEF FrameSound, OnCall
  <2> QED
    BY <2>1, <2>2
<1>5. ~Reaped(calls'[c])
  BY <1>2 DEF Reaped
<1> QED
  BY <1>0, <1>1, <1>2, <1>3, <1>4, <1>5, TaskWritesCall

\* A handler moves its live call on or ends it.
LEMMA ApplySound ==
  ASSUME DialerInv, DialerInv', CallInv, AgentInv, NEW w \in Workers,
         Apply(w) \/ MarkAbandoned(w), UNCHANGED <<dial, bridge_results>>
  PROVE  AgentInv' /\ OnTheLine
<1> DEFINE c == cpu[w].call
           target == cpu[w].target
<1>0. cpu[w].at \in OnCall /\ UNCHANGED <<agents, dial, wrap_ups, bridge_results>>
  BY DEF Apply, MarkAbandoned, HandlerAt, OnCall
<1>1. CanApply(c) /\ StoreTypeOK /\ c \in Contacts
  BY <1>0, HandledCall DEF DialerInv
<1>2. CASE Apply(w)
  <2>1. target \in EventType /\ target \in {"RINGING"} \cup TERMINAL_CALL_STATES
    BY <1>2 DEF Apply, HandlerAt, AgentInv, FrameSound, DialerInv, GoodFrames
  <2>2. ApplyCallTransition(c, target, ReasonOf(target), CallLease)
    BY <1>1, <1>2 DEF Apply
  <2>3. calls'[c].state = target /\ calls'[c].reason = ReasonOf(target)
    BY <1>1, <2>1, <2>2, AppliedReason
  <2>4. ~Reaped(calls'[c])
    BY <2>3 DEF Reaped, ReasonOf
  <2>5. CASE target \in TERMINAL_CALL_STATES
    <3>1. Run(w, [cpu[w] EXCEPT !.at = "terminal", !.agent = calls[c].agent_id])
      BY <1>1, <1>2, <2>5 DEF Apply
    <3> QED
      BY <1>0, <2>1, <2>2, <2>4, <2>5, <3>1, EndsSound
  <2>6. CASE target \notin TERMINAL_CALL_STATES
    <3>1. Return(w) /\ target = "RINGING"
      BY <1>1, <1>2, <2>1, <2>6 DEF Apply
    <3>2. Run(w, Idle) /\ Idle.task # "reap"
      BY <3>1, ReturnsIdle DEF Idle
    <3> QED
      BY <1>0, <2>2, <3>1, <3>2, MovesSound
  <2> QED
    BY <2>5, <2>6
<1>3. CASE MarkAbandoned(w)
  <2>1. /\ ApplyCallTransition(c, "FAILED", "abandoned_no_agent", CallLease)
        /\ Run(w, [cpu[w] EXCEPT !.at = "terminal", !.agent = calls[c].agent_id])
    BY <1>1, <1>3 DEF MarkAbandoned
  <2>2. "FAILED" \in TERMINAL_CALL_STATES \cap EventType
    BY DEF TERMINAL_CALL_STATES, EventType
  <2>3. calls'[c].reason = "abandoned_no_agent"
    BY <1>1, <2>1, <2>2, AppliedReason
  <2>4. ~Reaped(calls'[c])
    BY <2>3 DEF Reaped
  <2> QED
    BY <1>0, <2>1, <2>2, <2>4, EndsSound
<1> QED
  BY <1>2, <1>3

\* A handler writes ANSWERED and CONNECTED on a live call whose agent is on the line.
LEMMA AnswerSound ==
  ASSUME DialerInv, DialerInv', CallInv, AgentInv, NEW w \in Workers,
         MarkAnswered(w) \/ MarkConnected(w) \/ MarkUnanswered(w), UNCHANGED <<dial, bridge_results>>
  PROVE  AgentInv' /\ OnTheLine
<1> DEFINE c == cpu[w].call
<1>0. cpu[w].at \in OnCall /\ UNCHANGED <<agents, dial, wrap_ups, bridge_results>>
  BY DEF MarkAnswered, MarkConnected, MarkUnanswered, HandlerAt, OnCall
<1>1. CanApply(c) /\ cpu[w] \in Frames /\ cpu[w].task = "event"
  BY <1>0, HandledCall
<1>2. CASE MarkAnswered(w)
  <2> DEFINE g == [cpu[w] EXCEPT !.at = "connected"]
  <2>1. ApplyCallTransition(c, "ANSWERED", None, CallLease) /\ Run(w, g) /\ cpu[w].at = "answered"
    BY <1>1, <1>2 DEF MarkAnswered, HandlerAt
  <2>2. g.at = "connected" /\ g.call = c /\ g.task = "event"
    BY <1>1, FrameGoesOn
  <2> HIDE DEF g
  <2> QED
    BY <1>0, <2>1, <2>2, MovesSound
<1>3. CASE MarkConnected(w)
  <2>1. /\ ApplyCallTransition(c, "CONNECTED", None, CallLease) /\ Return(w)
        /\ cpu[w].at = "connected"
    BY <1>1, <1>3 DEF MarkConnected, HandlerAt
  <2>2. Run(w, Idle) /\ Idle.task # "reap"
    BY <2>1, ReturnsIdle DEF Idle
  <2> QED
    BY <1>0, <2>1, <2>2, MovesSound
<1>4. CASE MarkUnanswered(w)
  <2> DEFINE g == [cpu[w] EXCEPT !.at = "abandon"]
  <2>1. ApplyCallTransition(c, "ANSWERED", None, CallLease) /\ Run(w, g)
    BY <1>1, <1>4 DEF MarkUnanswered
  <2>2. g.at = "abandon" /\ g.call = c /\ g.task = "event"
    BY <1>1, FrameGoesOn
  <2> HIDE DEF g
  <2> QED
    BY <1>0, <2>1, <2>2, MovesSound
<1> QED
  BY <1>2, <1>3, <1>4

\* _on_call_terminal finds the agent still on the call and starts its wrap-up.
LEMMA TerminalSound ==
  ASSUME DialerInv, DialerInv', CallInv, AgentInv, NEW w \in Workers, OnCallTerminal(w),
         UNCHANGED <<dial, bridge_results>>
  PROVE  AgentInv' /\ OnTheLine
<1> DEFINE f == cpu[w]
           c == f.call
           a == f.agent
           g == [f EXCEPT !.at = "free"]
           t == [agent |-> a, call |-> c, asleep |-> FALSE]
<1>0. /\ f.at = "terminal" /\ UNCHANGED <<agents, calls, dial, bridge_results>>
  BY DEF OnCallTerminal, HandlerAt
<1>1. /\ ~Bridging(w) /\ f \in Frames /\ f.task # "reap"
      /\ calls[c].state \in TERMINAL_CALL_STATES /\ calls[c].reserved_by = w
      /\ a # None => Engaged(agents[a], w, c) /\ (calls[c].connected => agents[a].state = "CONNECTED")
  BY <1>0, NotBridging DEF AgentInv, FrameSound, CallInv, FrameInv, Fits, DialerInv, GoodFrames
<1>2. CASE Return(w) /\ UNCHANGED wrap_ups
  <2>1. Run(w, Idle)
    BY <1>2, ReturnsIdle
  <2> QED
    BY <1>0, <1>1, <1>2, <2>1, IdleSound, TaskReads
<1>3. CASE a # None /\ calls[c].connected /\ wrap_ups' = wrap_ups \cup {t} /\ Return(w)
  <2>1. Run(w, Idle)
    BY <1>3, ReturnsIdle
  <2>2. WrapSound(t, agents, calls)
    BY <1>1, <1>3 DEF WrapSound
  <2> QED
    BY <1>0, <1>1, <1>3, <2>1, <2>2, IdleSound, TaskReads
<1>4. CASE a # None /\ ~calls[c].connected /\ Run(w, g) /\ UNCHANGED wrap_ups
  <2>1. g.at = "free" /\ g.call = c /\ g.agent = a /\ g.task = f.task
    BY <1>1, FrameGoesOn
  <2>2. Run(w, g)
    BY <1>4
  <2> HIDE DEF g
  <2>3. FrameSound(w, g, agents, calls)
    BY <1>1, <1>4, <2>1 DEF FrameSound, OnCall
  <2> QED
    BY <1>0, <1>1, <1>4, <2>2, <2>3, TaskReads
<1> QED
  BY <1>2, <1>3, <1>4 DEF OnCallTerminal

\* The agent of a call that never connected is released from that call.
LEMMA FreeSound ==
  ASSUME DialerInv, DialerInv', CallInv, AgentInv, NEW w \in Workers, FreeCallAgent(w),
         UNCHANGED <<dial, bridge_results>>
  PROVE  AgentInv' /\ OnTheLine
<1> DEFINE c == cpu[w].call
           a == cpu[w].agent
<1>0. /\ cpu[w].at = "free" /\ UNCHANGED <<calls, dial, bridge_results, wrap_ups>> /\ StoreTypeOK
      /\ TryTransitionAgent(a, w, "AVAILABLE", {"DIALING", "RESERVED", "CONNECTED"}, None, NoLease)
      /\ Run(w, Idle)
  BY ReturnsIdle DEF FreeCallAgent, HandlerAt, DialerInv
<1>1. /\ c \in Contacts /\ a \in Agents /\ a # None /\ ~Bridging(w)
      /\ Finished(c) /\ calls[c].state \notin {"QUEUED", "RESERVED"}
      /\ Engaged(agents[a], w, c) /\ ~calls[c].connected
  BY <1>0, NotBridging, StoreAssumption, SMTT(30)
  DEF AgentInv, FrameSound, CallInv, FrameInv, Fits, DialerInv, GoodFrames, Finished, TERMINAL_CALL_STATES
<1>2. CASE UNCHANGED agents
  BY <1>0, <1>1, <1>2, IdleSound, TaskReads
<1>3. CASE TransitionAgent(a, w, "AVAILABLE", {"DIALING", "RESERVED", "CONNECTED"}, None, NoLease)
  <2>1. \A b \in Agents \ {a} : agents'[b] = agents[b]
    BY <1>0, <1>1, <1>3, MovedAgent
  <2>2. ASSUME NEW t \in wrap_ups, ~t.asleep PROVE t.agent # a
    BY <1>1, <2>2 DEF AgentInv, WrapSound, Engaged
  <2> QED
    BY <1>0, <1>1, <2>1, <2>2, IdleSound, TaskWritesAgent
<1> QED
  BY <1>0, <1>2, <1>3 DEF TryTransitionAgent

\* The steps of a running task.
LEMMA ProceedSound ==
  ASSUME DialerInv, DialerInv', CallInv, LinkInv, AgentInv, NEW w \in Workers, Proceed(w)
  PROVE  AgentInv' /\ OnTheLine
<1>1. UNCHANGED <<dial, bridge_results>>
  BY DEF Proceed, bridge_vars
<1>2. cpu[w].at \notin {"release", "reap"}
  BY DEF AgentInv, FrameSound
<1>3. ~ReleaseBridged(w) /\ ~ReapCallAgent(w) /\ ~ReapAgents(w)
  BY <1>2 DEF ReleaseBridged, ReapCallAgent, ReapAgents, HandlerAt
<1> QED
  BY <1>1, <1>3, OwnAgentSound, ApplySound, AnswerSound, TerminalSound, FreeSound DEF Proceed

\* A wrap-up finds its agent CONNECTED to the finished call, and later in WRAP_UP.
LEMMA WrapUpSound ==
  ASSUME DialerInv, DialerInv', CallInv, AgentInv, NEW w \in Workers, WrapUpTask(w)
  PROVE  AgentInv' /\ OnTheLine
<1>0. /\ cpu[w] = Idle /\ Run(w, Idle) /\ ~Bridging(w) /\ FrameSound(w, Idle, agents', calls)
      /\ FrameSound(w, Idle, agents, calls)
      /\ UNCHANGED <<calls, dial, bridge_results>> /\ StoreTypeOK
  BY NotBridging, IdleSound DEF WrapUpTask, WrapUp, WrapUpRelease, Ready, Run, DialerInv, bridge_vars
<1>1. \A t \in wrap_ups : t \in [agent : Agents, call : Contacts, asleep : BOOLEAN]
  BY DEF DialerInv, DialerTypeOK
<1>2. \A t \in wrap_ups : WrapSound(t, agents, calls)
  BY DEF AgentInv
<1>3. CASE WrapUp(w)
  <2> PICK t \in wrap_ups :
        /\ t.call \in Own(w) /\ ~t.asleep
        /\ TryTransitionAgent(t.agent, w, "WRAP_UP", {"CONNECTED"},
                              agents[t.agent].current_call_id, WrapLease)
        /\ wrap_ups' = (wrap_ups \ {t}) \cup {[t EXCEPT !.asleep = TRUE]}
    BY <1>3 DEF WrapUp
  <2> DEFINE s == [t EXCEPT !.asleep = TRUE]
             a == t.agent
  <2>1. s.asleep /\ a \in Agents /\ t.call \in Contacts
    BY <1>1
  <2>2. \A u \in wrap_ups' : u.asleep \/ (u \in wrap_ups /\ u # t)
    BY <2>1
  <2>3. /\ Engaged(agents[a], w, t.call) /\ Finished(t.call)
        /\ calls[t.call].state \notin {"QUEUED", "RESERVED"}
    BY <1>2, <2>1 DEF WrapSound, Own, Finished, TERMINAL_CALL_STATES
  <2>4. CASE UNCHANGED agents
    <3>1. \A u \in wrap_ups' : u \in wrap_ups \/ WrapSound(u, agents, calls)
      BY <2>2 DEF WrapSound
    <3> QED
      BY <1>0, <2>4, <3>1, TaskReads
  <2>5. CASE TransitionAgent(a, w, "WRAP_UP", {"CONNECTED"}, agents[a].current_call_id, WrapLease)
    <3>1. \A b \in Agents \ {a} : agents'[b] = agents[b]
      BY <1>0, <2>1, <2>5, MovedAgent
    <3>2. ASSUME NEW u \in wrap_ups, ~u.asleep, u.agent = a PROVE u = t
      <4>1. u.call = t.call
        BY <1>2, <2>3, <3>2 DEF WrapSound, Engaged
      <4> QED
        BY <1>1, <3>2, <4>1
    <3>3. \A u \in wrap_ups' : u.asleep \/ (u \in wrap_ups /\ u.agent # a)
      BY <2>2, <3>2
    <3> QED
      BY <1>0, <2>1, <2>3, <3>1, <3>3, TaskWritesAgent
  <2> QED
    BY <2>4, <2>5 DEF TryTransitionAgent
<1>4. CASE WrapUpRelease(w)
  <2> PICK t \in wrap_ups :
        /\ TryTransitionAgent(t.agent, w, "AVAILABLE", {"WRAP_UP"}, None, NoLease)
        /\ wrap_ups' = wrap_ups \ {t}
    BY <1>4 DEF WrapUpRelease
  <2> DEFINE a == t.agent
  <2>1. a \in Agents
    BY <1>1
  <2>2. CASE UNCHANGED agents
    <3>1. \A u \in wrap_ups' : u \in wrap_ups
      OBVIOUS
    <3> QED
      BY <1>0, <2>2, <3>1, TaskReads
  <2>3. CASE TransitionAgent(a, w, "AVAILABLE", {"WRAP_UP"}, None, NoLease)
    <3>1. agents[a].state = "WRAP_UP" /\ \A b \in Agents \ {a} : agents'[b] = agents[b]
      BY <1>0, <2>1, <2>3, MovedAgent
    <3>2. \A u \in wrap_ups' : u.asleep \/ (u \in wrap_ups /\ u.agent # a)
      BY <1>2, <3>1 DEF WrapSound
    <3> QED
      BY <1>0, <2>1, <3>1, <3>2, TaskWritesAgent
  <2> QED
    BY <2>2, <2>3 DEF TryTransitionAgent
<1> QED
  BY <1>3, <1>4 DEF WrapUpTask

\* Every step keeps the invariant and takes nobody off the line.
LEMMA StepKeepsAgents ==
  ASSUME ~LeasesExpire, DialerInv, DialerInv', CallInv, LinkInv, ReportedInv, AgentInv, [Next]_vars
  PROVE  AgentInv' /\ OnTheLine
<1>1. ASSUME NEW w \in Workers, Worker(w) PROVE AgentInv' /\ OnTheLine
  <2>1. ~ReaperPass(w)
    BY DEF ReaperPass, ReapCalls
  <2> QED
    BY <1>1, <2>1, DialLoopSound, ProceedSound, WrapUpSound, EventSound, BridgeWaitSound DEF Worker
<1>2. ASSUME NEW c \in Contacts, Provider(c) PROVE AgentInv' /\ OnTheLine
  BY <1>2, QuietKeepsAgents DEF Provider, store_vars, bridge_vars
<1>3. CASE UNCHANGED vars
  BY <1>3, QuietKeepsAgents DEF vars, store_vars, dialer_vars, bridge_vars
<1>4. ~Time
  BY DEF Time
<1> QED
  BY <1>1, <1>2, <1>3, <1>4, TroubleKeepsAgents DEF Next

\* At first nobody is in anybody's hands.
LEMMA InitAgents == Init => AgentInv /\ ReportedInv
<1> SUFFICES ASSUME Init PROVE AgentInv /\ ReportedInv
  OBVIOUS
<1>1. /\ \A c \in Contacts : calls[c] = NoCall /\ bridge_results[c] = None /\ inbox[c] = <<>>
      /\ \A w \in Workers : cpu[w] = Idle /\ dial[w] = DialStart
      /\ wrap_ups = {}
  BY DEF Init, StoreInit
<1>2. ~Live(NoCall) /\ ~Reaped(NoCall)
  BY DEF NoCall, Live, Reaped, LIVE_CALL_STATES
<1>3. \A c \in Contacts : Paired(calls[c], c, agents) /\ ~Reaped(calls[c])
                          /\ FoundSound(bridge_results[c], calls[c], agents)
  BY <1>1, <1>2 DEF Paired, FoundSound
<1> QED
  <2>1. \A w \in Workers : FrameSound(w, cpu[w], agents, calls) /\ LoopSound(w, dial[w], agents, calls)
    BY <1>1, IdleSound, DialStartSound
  <2>2. OneLine(calls) /\ \A t \in wrap_ups : WrapSound(t, agents, calls)
    BY <1>1, <1>2 DEF OneLine
  <2>3. ReportedInv
    <3>1. <<>> \in Seq(Reported)
      OBVIOUS
    <3> QED
      BY <1>1, <3>1 DEF ReportedInv
  <2> QED
    BY <1>3, <2>1, <2>2, <2>3 DEF AgentInv

-----------------------------------------------------------------------------
(* Theorems *)

\* While no lease runs out, whoever deals with a call or an agent finds both as it
\* left them: a handler its call alive, the loop its agents RESERVED for it, a placed
\* call its agent on the line, a wrap-up its agent CONNECTED.
THEOREM AgentInvariant ==
  ASSUME ~LeasesExpire
  PROVE  Spec => [](AgentInv /\ ReportedInv /\ DialerInv /\ CallInv /\ LinkInv) /\ [][OnTheLine]_vars
<1>1. Init => AgentInv /\ ReportedInv
  BY InitAgents
<1>2. DialerInv /\ DialerInv' /\ CallInv /\ LinkInv /\ ReportedInv /\ AgentInv /\ [Next]_vars
      => AgentInv' /\ ReportedInv' /\ OnTheLine
  BY StepKeepsAgents, ReportedStep
<1>3. Spec => []DialerInv /\ []CallInv /\ [](LinkInv /\ BookInv)
  BY DialerInvariant, CallInvariant, BookInvariant
<1> QED
  BY <1>1, <1>2, <1>3, PTL DEF Spec

\* No two live calls believe they own the same agent (tests/test_end_to_end.py).  A
\* lease that runs out while its holder still has the agent in hand would allow it.
THEOREM OneLivePerAgent ==
  ASSUME ~LeasesExpire
  PROVE  Spec => []OneLiveCallPerAgent
<1>1. ASSUME AgentInv PROVE OneLiveCallPerAgent
  <2> SUFFICES ASSUME NEW a \in Agents PROVE Cardinality(LiveCallsOf(a)) <= 1
    BY DEF OneLiveCallPerAgent
  <2>1. \A c, d \in LiveCallsOf(a) : c = d
    BY <1>1, StoreAssumption DEF AgentInv, OneLine, LiveCallsOf, Live
  <2>2. CASE LiveCallsOf(a) = {}
    BY <2>2, FS_EmptySet
  <2>3. CASE LiveCallsOf(a) # {}
    <3> PICK c : c \in LiveCallsOf(a)
      BY <2>3
    <3>1. LiveCallsOf(a) = {c}
      BY <2>1
    <3>2. Cardinality({c}) = 1
      BY FS_Singleton
    <3> QED
      BY <3>1, <3>2
  <2> QED
    BY <2>2, <2>3
<1> QED
  BY <1>1, AgentInvariant, PTL

\* An agent who is on a call is taken off it only when the call is over, whichever
\* dial loop, handler or wrap-up of whichever worker gets to it first.
THEOREM NobodyTakenOff ==
  ASSUME ~LeasesExpire
  PROVE  Spec => NoAgentTakenOffALiveCall
<1>1. OnTheLine \/ UNCHANGED vars =>
        \A a \in Agents :
          LET c == agents[a].current_call_id
          IN  agents[a].state \in {"DIALING", "CONNECTED"} =>
                \/ agents'[a].state \in {"DIALING", "CONNECTED"} /\ agents'[a].current_call_id = c
                \/ Expired(agents[a])
                \/ calls'[c].state \in TERMINAL_CALL_STATES
  BY DEF OnTheLine, Busy, vars, store_vars
<1> QED
  BY <1>1, AgentInvariant, PTL DEF NoAgentTakenOffALiveCall

=============================================================================
