------------------------- MODULE DialerBridgeProofs -------------------------
(***************************************************************************)
(* A handler decides on what it read of its call, and may wait for a       *)
(* bridge before it acts on it.  What nobody does to the call in the       *)
(* meantime, and what becomes of a call it gave up, for any number of      *)
(* workers: proofs checked by TLAPS.                                       *)
(***************************************************************************)
EXTENDS DialerProofs

-----------------------------------------------------------------------------
(* What a handler may rely on *)

Waiting(c) == c \in pending_bridges \/ bridge_results[c] # None

\* Statements at which an event handler is busy with its call.
OnCall == {"apply", "bridge", "answered", "connected", "release", "unanswered", "abandon"}

\* The row of the call a worker's task is about fits the statement it is at.
Fits(w, f, row, waiting) ==
  /\ f.at \in OnCall =>
       /\ f.task = "event" /\ row.reserved_by = w /\ ~waiting
       /\ row.state \notin {"QUEUED", "RESERVED"}
  /\ f.at = "apply" =>
       \/ row.state \in TERMINAL_CALL_STATES
       \/ CALL_STATE_RANK[row.state] < CALL_STATE_RANK[f.target]
  /\ f.at \in {"bridge", "answered", "unanswered"} =>
       row.state \in {"INITIATED", "RINGING", "FAILED"} /\ ~row.connected
  /\ f.at = "connected" => row.state \in {"ANSWERED"} \cup TERMINAL_CALL_STATES
  /\ f.at = "abandon" => row.state \in {"ANSWERED", "FAILED"} /\ ~row.connected
  /\ f.at \in {"terminal", "free"} => row.state \in TERMINAL_CALL_STATES

FrameInv == \A w \in Workers : Fits(w, cpu[w], calls[cpu[w].call], Waiting(cpu[w].call))

\* The dial loop bridges a call of its own that still waits, without a pause.
Bridging(w) == dial[w].at \in {"bridge", "connect", "attach"}

LoopInv ==
  \A w \in Workers :
    /\ Bridging(w) => cpu[w] = DialTask /\ dial[w].call \in pending_bridges \cap Own(w)
    /\ dial[w].bridges \subseteq Own(w)

\* A waiting call has its handler, or has timed out; and nobody hears of a call
\* before it is placed.
RowFits(row, waiting, locked, known) ==
  /\ waiting =>
       /\ ~row.connected
       /\ \/ locked /\ row.state \in {"INITIATED", "RINGING"}
          \/ row.state = "FAILED" /\ row.reason = "provider_timeout"
  /\ row.connected => row.state \in {"CONNECTED"} \cup TERMINAL_CALL_STATES
  /\ known => row.state \notin {"QUEUED", "RESERVED"}

Known(c) == inbox[c] # <<>> \/ provider[c] # "none"

RowInv ==
  \A c \in Contacts :
    /\ RowFits(calls[c], Waiting(c), c \in call_locks, Known(c))
    /\ bridge_results[c] # None => c \notin pending_bridges

CallInv == FrameInv /\ LoopInv /\ RowInv

-----------------------------------------------------------------------------
(* What others do to a call *)

SameRow(row, new) ==
  /\ new.state = row.state /\ new.reason = row.reason
  /\ new.reserved_by = row.reserved_by /\ new.connected = row.connected

ReapedRow(row, new) ==
  /\ row.state \in LIVE_CALL_STATES
  /\ new.state = "FAILED" /\ new.reason = "provider_timeout"
  /\ new.reserved_by = row.reserved_by /\ new.connected = row.connected

\* A call in this set may change as it likes, every other at most ends for its
\* expired lease, and no other begins to wait.
Quiet(c) ==
  /\ SameRow(calls[c], calls'[c]) \/ ReapedRow(calls[c], calls'[c])
  /\ Waiting(c)' => Waiting(c)

LEMMA FitsStays ==
  ASSUME NEW w, NEW f, NEW row, NEW new, NEW waiting \in BOOLEAN, NEW waits \in BOOLEAN,
         Fits(w, f, row, waiting), SameRow(row, new) \/ ReapedRow(row, new), waits => waiting
  PROVE  Fits(w, f, new, waits)
BY DEF Fits, SameRow, ReapedRow, OnCall, TERMINAL_CALL_STATES, LIVE_CALL_STATES

\* A task that fits its call has the call to itself, until the call is finished.
LEMMA OneTask ==
  ASSUME DialerInv, CallInv, NEW v \in Workers, NEW c \in Contacts,
         cpu[v].at \notin {"none", "reap"}, cpu[v].call = c
  PROVE  Finished(c) \/ (calls[c].reserved_by = v /\ ~Waiting(c) /\ calls[c].state \notin {"QUEUED", "RESERVED"})
<1>1. Fits(v, cpu[v], calls[c], Waiting(c))
  BY DEF CallInv, FrameInv
<1>2. cpu[v].at \in OnCall \cup {"terminal", "free"}
  BY DEF DialerInv, GoodFrames, Frames, OnCall
<1> QED
  BY <1>1, <1>2 DEF Fits, Finished

\* Nobody but w is busy with the call.
Alone(w, c) == \A v \in Workers \ {w} : cpu[v].at \notin {"none", "reap"} => cpu[v].call # c

LEMMA AloneOnCall ==
  ASSUME DialerInv, CallInv, NEW w \in Workers, NEW c \in Contacts, ~Finished(c),
         calls[c].reserved_by = w \/ Waiting(c) \/ calls[c].state \in {"QUEUED", "RESERVED"}
  PROVE  Alone(w, c)
BY OneTask DEF Alone

\* The call ends up fit for whoever deals with it next, and further on its way.
Settled(c) ==
  /\ RowFits(calls'[c], Waiting(c)', (c \in call_locks)', Known(c)')
  /\ bridge_results'[c] # None => c \notin pending_bridges'
  /\ calls[c].reserved_by \in Workers => calls'[c].reserved_by = calls[c].reserved_by
  /\ CALL_STATE_RANK[calls'[c].state] >= CALL_STATE_RANK[calls[c].state]

Untouched(c) ==
  /\ Quiet(c)
  /\ bridge_results'[c] # None => c \notin pending_bridges'
  /\ Waiting(c)' /\ c \in call_locks => c \in call_locks' \/ Finished(c)
  /\ Known(c)' => Known(c)

LEMMA UntouchedSettles ==
  ASSUME DialerInv, CallInv, NEW c \in Contacts, Untouched(c)
  PROVE  Settled(c)
<1>1. RowFits(calls[c], Waiting(c), c \in call_locks, Known(c))
  BY DEF CallInv, RowInv
<1>2. RowFits(calls'[c], Waiting(c)', (c \in call_locks)', Known(c)')
  BY <1>1 DEF Untouched, Quiet, SameRow, ReapedRow, RowFits, Finished, TERMINAL_CALL_STATES, LIVE_CALL_STATES
<1>3. calls'[c].reserved_by = calls[c].reserved_by
  BY DEF Untouched, Quiet, SameRow, ReapedRow
<1>4. CALL_STATE_RANK[calls'[c].state] >= CALL_STATE_RANK[calls[c].state]
  <2>1. calls[c].state \in CallState
    BY DEF DialerInv, StoreTypeOK, CallRow
  <2> QED
    BY <2>1 DEF Untouched, Quiet, SameRow, ReapedRow, CALL_STATE_RANK, LIVE_CALL_STATES, CallState
<1> QED
  BY <1>2, <1>3, <1>4 DEF Settled, Untouched

\* The frames fit when one worker moves on to a statement that fits, and nobody
\* else is busy with the calls X that it changes.
LEMMA FramesFit ==
  ASSUME DialerInv, DialerInv', CallInv, NEW w \in Workers, NEW X \in SUBSET Contacts,
         \A v \in Workers \ {w} : cpu'[v] = cpu[v],
         \A c \in Contacts \ X : Quiet(c),
         \A c \in X : Alone(w, c),
         cpu'[w].at \notin {"none", "reap"} =>
           Fits(w, cpu'[w], calls'[cpu'[w].call], Waiting(cpu[w].call)')
  PROVE  FrameInv'
<1> SUFFICES ASSUME NEW v \in Workers
             PROVE  Fits(v, cpu'[v], calls'[cpu'[v].call], Waiting(cpu[v].call)')
  BY DEF FrameInv
<1>1. CASE cpu'[v].at \in {"none", "reap"}
  BY <1>1 DEF Fits, OnCall
<1>2. CASE cpu'[v].at \notin {"none", "reap"} /\ v = w
  BY <1>2
<1>3. CASE cpu'[v].at \notin {"none", "reap"} /\ v # w
  <2> PICK c \in Contacts : c = cpu[v].call /\ c = cpu'[v].call
    BY <1>3 DEF DialerInv, GoodFrames
  <2>1. Quiet(c) /\ Fits(v, cpu[v], calls[c], Waiting(c))
    BY <1>3 DEF CallInv, FrameInv, Alone
  <2>2. Fits(v, cpu[v], calls'[c], Waiting(c)')
    BY <2>1, FitsStays DEF Quiet, Waiting
  <2> QED
    BY <1>3, <2>2 DEF Waiting
<1> QED
  BY <1>1, <1>2, <1>3

Forward == \A c \in Contacts : CALL_STATE_RANK[calls'[c].state] >= CALL_STATE_RANK[calls[c].state]

LoopFits(w) ==
  /\ Bridging(w) => cpu[w] = DialTask /\ dial[w].call \in pending_bridges \cap Own(w)
  /\ dial[w].bridges \subseteq Own(w)

\* What a step of w has to see to, when it deals with the calls X.
LEMMA StepFits ==
  ASSUME DialerInv, DialerInv', CallInv, NEW w \in Workers, NEW X \in SUBSET Contacts,
         \A v \in Workers \ {w} : cpu'[v] = cpu[v] /\ dial'[v] = dial[v],
         \A c \in Contacts \ X : Untouched(c),
         \A c \in X : Settled(c) /\ Alone(w, c),
         cpu'[w].at \notin {"none", "reap"} =>
           Fits(w, cpu'[w], calls'[cpu'[w].call], Waiting(cpu[w].call)'),
         \A c \in pending_bridges \ Own(w) : c \in pending_bridges',
         LoopFits(w)'
  PROVE  CallInv' /\ Forward
<1>1. FrameInv'
  BY FramesFit DEF Untouched
<1>2. \A c \in Contacts : Settled(c)
  BY UntouchedSettles
<1>3. RowInv'
  BY <1>2 DEF RowInv, Settled
<1>4. \A v \in Workers : Own(v) \subseteq Own(v)'
  BY <1>2 DEF Own, Settled
<1>5. ASSUME NEW v \in Workers PROVE LoopFits(v)'
  <2>1. CASE v = w
    BY <2>1
  <2>2. CASE v # w
    <3>1. LoopFits(v) /\ cpu'[v] = cpu[v] /\ dial'[v] = dial[v]
      BY <2>2 DEF CallInv, LoopInv, LoopFits
    <3>2. \A c \in Own(v) : c \notin Own(w)
      BY <2>2 DEF Own
    <3> QED
      BY <1>4, <3>1, <3>2 DEF LoopFits, Bridging
  <2> QED
    BY <2>1, <2>2
<1> QED
  BY <1>1, <1>2, <1>3, <1>5 DEF CallInv, LoopInv, LoopFits, Forward, Settled

-----------------------------------------------------------------------------
(* The dial loop *)

\* The calls stay as they are for everybody.
CallsAlone == UNCHANGED <<calls, pending_bridges, bridge_results, call_locks, inbox, provider>>

LEMMA AloneUntouched ==
  ASSUME CallInv, CallsAlone
  PROVE  \A c \in Contacts : Untouched(c)
BY DEF CallsAlone, CallInv, RowInv, Untouched, Quiet, SameRow, Waiting, Known

BridgeLines == {"bridge", "connect", "attach"}

LEMMA LoopMove ==
  ASSUME DialerInv, NEW w \in Workers, NEW d, Continue(w, d) \/ Suspend(w, d)
  PROVE  /\ cpu'[w].at = "none"
         /\ \A v \in Workers \ {w} : cpu'[v] = cpu[v] /\ dial'[v] = dial[v]
         /\ dial'[w] = d \/ dial'[w] = DialStart
<1>1. DialTask.at = "none" /\ Idle.at = "none"
  BY DEF DialTask, Idle
<1> QED
  BY <1>1 DEF Continue, Suspend, DialerInv

\* The loop moves to a line where it has no call in hand, or to one where it has.
LEMMA PlainLoopStep ==
  ASSUME DialerInv, DialerInv', CallInv, NEW w \in Workers, NEW d, CallsAlone,
         \/ Continue(w, d)
         \/ Suspend(w, d) /\ d.at \notin BridgeLines,
         d.bridges \subseteq Own(w),
         d.at \in BridgeLines => d.call \in pending_bridges \cap Own(w)
  PROVE  CallInv' /\ Forward
<1>1. /\ cpu'[w].at = "none"
      /\ \A v \in Workers \ {w} : cpu'[v] = cpu[v] /\ dial'[v] = dial[v]
      /\ dial'[w] = d \/ dial'[w] = DialStart
  BY LoopMove
<1>2. DialStart.at = "top" /\ DialStart.bridges = {}
  BY DEF DialStart
<1>3. Own(w)' = Own(w) /\ pending_bridges' = pending_bridges
  BY DEF CallsAlone, Own
<1>4. d.at \in BridgeLines => cpu'[w] = DialTask
  BY DEF Continue, DialerInv
<1>5. LoopFits(w)'
  BY <1>1, <1>2, <1>3, <1>4 DEF LoopFits, Bridging, BridgeLines
<1>6. {} \in SUBSET Contacts
  OBVIOUS
<1>7. \A c \in Contacts \ {} : Untouched(c)
  BY AloneUntouched
<1> QED
  BY <1>1, <1>3, <1>5, <1>6, <1>7, StepFits

LEMMA ServeFits ==
  ASSUME DialerInv, DialerInv', CallInv, NEW w \in Workers, DialLoop(w),
         ServeNext(w) \/ BridgeReserve(w) \/ BridgeBreak(w) \/ BridgeConnect(w) \/ ScanReserve(w),
         UNCHANGED net_vars
  PROVE  CallInv' /\ Forward
<1> DEFINE d == dial[w]
<1>0. d \in DialLoops /\ d.bridges \subseteq Own(w)
  BY DEF DialerInv, GoodLoops, CallInv, LoopInv
<1>1. CallsAlone
  BY DEF DialLoop, ServeNext, BridgeReserve, BridgeBreak, BridgeConnect, ScanReserve, bridge_vars,
         net_vars, CallsAlone
<1>2. d.at \in BridgeLines => d.call \in pending_bridges \cap Own(w)
  BY DEF CallInv, LoopInv, Bridging, BridgeLines
<1>3. ASSUME BeginScan(w) PROVE CallInv' /\ Forward
  <2> DEFINE e == [DialStart EXCEPT !.at = NextLine(AvailableAgents, {}), !.listed = AvailableAgents]
  <2>1. e.at \notin BridgeLines /\ e.bridges = {}
    BY NextLines DEF DialStart, BridgeLines
  <2>2. Continue(w, e) \/ Suspend(w, e)
    BY <1>3 DEF BeginScan
  <2> HIDE DEF e
  <2> QED
    BY <1>1, <2>1, <2>2, PlainLoopStep
<1>4. CASE ServeNext(w)
  <2> DEFINE waiting == pending_bridges \cap (IF d.at = "top" THEN Own(w) ELSE d.bridges)
  <2>1. CASE BeginScan(w)
    BY <1>3, <2>1
  <2>2. CASE ~BeginScan(w)
    <3> PICK c \in waiting :
          Continue(w, [DialStart EXCEPT !.at = "bridge", !.bridges = waiting \ {c},
                                        !.listed = AvailableAgents, !.call = c])
      BY <1>4, <2>2 DEF ServeNext
    <3> DEFINE e == [DialStart EXCEPT !.at = "bridge", !.bridges = waiting \ {c},
                                      !.listed = AvailableAgents, !.call = c]
    <3>1. e.call = c /\ e.bridges = waiting \ {c}
      BY DEF DialStart
    <3>2. waiting \subseteq pending_bridges \cap Own(w)
      BY <1>0
    <3> HIDE DEF e, waiting
    <3> QED
      BY <1>1, <3>1, <3>2, PlainLoopStep DEF e
  <2> QED
    BY <2>1, <2>2
<1>5. CASE BridgeReserve(w)
  <2> PICK a \in d.listed :
        \/ Continue(w, [d EXCEPT !.listed = @ \ {a}, !.at = "connect", !.agent = a])
        \/ Continue(w, [d EXCEPT !.listed = @ \ {a}])
    BY <1>0, <1>5 DEF BridgeReserve, DialLoops
  <2> DEFINE e == [d EXCEPT !.listed = @ \ {a}, !.at = "connect", !.agent = a]
             g == [d EXCEPT !.listed = @ \ {a}]
  <2>1. /\ e.bridges = d.bridges /\ e.call = d.call
        /\ g.bridges = d.bridges /\ g.call = d.call
    BY <1>0 DEF DialLoops
  <2>2. d.at = "bridge"
    BY <1>5 DEF BridgeReserve, DialAt
  <2>3. Continue(w, e) \/ Continue(w, g)
    OBVIOUS
  <2> HIDE DEF e, g
  <2> QED
    BY <1>0, <1>1, <1>2, <2>1, <2>2, <2>3, PlainLoopStep DEF BridgeLines
<1>6. CASE BridgeBreak(w)
  BY <1>3, <1>6 DEF BridgeBreak
<1>7. CASE BridgeConnect(w)
  <2> DEFINE e == [d EXCEPT !.at = "attach"]
             g == [d EXCEPT !.at = "bridge", !.agent = None]
  <2>1. /\ e.bridges = d.bridges /\ e.call = d.call
        /\ g.bridges = d.bridges /\ g.call = d.call
    BY <1>0 DEF DialLoops
  <2>2. d.at = "connect"
    BY <1>7 DEF BridgeConnect, DialAt
  <2>3. Continue(w, e) \/ Continue(w, g)
    BY <1>7 DEF BridgeConnect
  <2> HIDE DEF e, g
  <2> QED
    BY <1>0, <1>1, <1>2, <2>1, <2>2, <2>3, PlainLoopStep DEF BridgeLines
<1>8. CASE ScanReserve(w)
  <2>1. PICK rest, held : Suspend(w, [d EXCEPT !.listed = rest, !.held = held, !.at = NextLine(rest, held)])
    BY <1>8 DEF ScanReserve
  <2> DEFINE e == [d EXCEPT !.listed = rest, !.held = held, !.at = NextLine(rest, held)]
  <2>2. e.bridges = d.bridges /\ e.at \notin BridgeLines
    BY <1>0, NextLines DEF DialLoops, BridgeLines
  <2> HIDE DEF e
  <2> QED
    BY <1>0, <1>1, <2>1, <2>2, PlainLoopStep DEF e
<1> QED
  BY <1>4, <1>5, <1>6, <1>7, <1>8

LEMMA AttachFits ==
  ASSUME DialerInv, DialerInv', CallInv, NEW w \in Workers, DialLoop(w), BridgeAttach(w),
         UNCHANGED net_vars
  PROVE  CallInv' /\ Forward
<1> DEFINE d == dial[w]
           e == [DialStart EXCEPT !.at = "serve", !.bridges = d.bridges]
<1>0. d.at = "attach" /\ d.agent \in Agents /\ d.call \in pending_bridges \cap Own(w) /\ d.bridges \subseteq Own(w)
  BY DEF BridgeAttach, DialAt, DialerInv, GoodLoops, CallInv, LoopInv, Bridging
<1> PICK c \in Contacts : c = d.call
  BY <1>0 DEF Own
<1>1. /\ AttachAgentToCall(c, d.agent)
      /\ bridge_results' = [bridge_results EXCEPT ![c] = d.agent]
      /\ pending_bridges' = pending_bridges \ {c}
      /\ Suspend(w, e)
      /\ UNCHANGED <<call_locks, inbox, provider>>
  BY DEF BridgeAttach, DialLoop, net_vars
<1>2. \A b \in Contacts : SameRow(calls[b], calls'[b])
  BY <1>1 DEF AttachAgentToCall, SameRow, DialerInv, StoreTypeOK, CallRow
<1>3. \A b \in Contacts : bridge_results'[b] = IF b = c THEN d.agent ELSE bridge_results[b]
  BY <1>1 DEF DialerInv, DialerTypeOK
<1>4. \A b \in Contacts \ {} : Untouched(b)
  BY <1>0, <1>1, <1>2, <1>3 DEF Untouched, Quiet, Waiting, Known, CallInv, RowInv
<1>5. e.at = "serve" /\ e.bridges = d.bridges /\ DialStart.at = "top" /\ DialStart.bridges = {}
  BY DEF DialStart
<1>6. /\ cpu'[w].at = "none"
      /\ \A v \in Workers \ {w} : cpu'[v] = cpu[v] /\ dial'[v] = dial[v]
      /\ dial'[w] = e \/ dial'[w] = DialStart
  BY <1>1, LoopMove
<1>7. Own(w) \subseteq Own(w)'
  BY <1>2 DEF Own, SameRow
<1>8. LoopFits(w)'
  BY <1>0, <1>5, <1>6, <1>7 DEF LoopFits, Bridging
<1>9. \A b \in pending_bridges \ Own(w) : b \in pending_bridges'
  BY <1>0, <1>1
<1>10. {} \in SUBSET Contacts
  OBVIOUS
<1> HIDE DEF e
<1> QED
  BY <1>4, <1>6, <1>8, <1>9, <1>10, StepFits

LEMMA NextUnitMoves ==
  ASSUME NEW d \in DialLoops
  PROVE  NextUnit(d).bridges = d.bridges /\ NextUnit(d).at \notin BridgeLines
<1>1. NextLine({}, d.held) \notin BridgeLines
  BY NextLines DEF BridgeLines
<1>2. CASE d.agent # None
  BY <1>1, <1>2 DEF NextUnit, DialLoops
<1>3. CASE d.agent = None
  <2> DEFINE line == IF d.extra > 1 THEN "speculate" ELSE "top"
             n == d.extra - 1
  <2>1. NextUnit(d) = [d EXCEPT !.at = line, !.call = None, !.extra = n]
    BY <1>3 DEF NextUnit
  <2>2. line \notin BridgeLines
    BY DEF BridgeLines
  <2> HIDE DEF line, n
  <2> QED
    BY <2>1, <2>2 DEF DialLoops
<1> QED
  BY <1>2, <1>3

LEMMA DialFits ==
  ASSUME DialerInv, DialerInv', CallInv, NEW w \in Workers, DialLoop(w),
         \/ DialForAgent(w) \/ DialSpeculative(w) \/ Claim(w) \/ ReturnAgent(w) \/ Assign(w)
         \/ PredictiveTick(w),
         UNCHANGED bridge_vars
  PROVE  CallInv' /\ Forward
<1> DEFINE d == dial[w]
<1>0. d \in DialLoops /\ d.bridges \subseteq Own(w)
  BY DEF DialerInv, GoodLoops, CallInv, LoopInv
<1>1. CallsAlone
  BY DEF DialLoop, DialForAgent, DialSpeculative, Claim, ReturnAgent, Assign, PredictiveTick, bridge_vars,
         net_vars, CallsAlone
<1>a. ASSUME NEW e, Continue(w, e) \/ Suspend(w, e), e.at \notin BridgeLines,
             e.bridges = d.bridges \/ e.bridges = {}
      PROVE  CallInv' /\ Forward
  BY <1>0, <1>1, <1>a, PlainLoopStep
<1>2. Suspend(w, NextUnit(d)) => CallInv' /\ Forward
  BY <1>0, <1>a, NextUnitMoves
<1>3. CASE DialForAgent(w)
  <2> PICK a \in d.held :
        \/ Continue(w, [d EXCEPT !.held = @ \ {a}, !.agent = a, !.at = "return"])
        \/ \E c \in UnclaimedContacts :
             Continue(w, [d EXCEPT !.held = @ \ {a}, !.agent = a, !.at = "claim", !.call = c])
    BY <1>3 DEF DialForAgent
  <2>1. LET e == [d EXCEPT !.held = @ \ {a}, !.agent = a, !.at = "return"]
        IN  e.bridges = d.bridges /\ e.at \notin BridgeLines
    BY <1>0 DEF DialLoops, BridgeLines
  <2>2. \A c \in UnclaimedContacts :
          LET e == [d EXCEPT !.held = @ \ {a}, !.agent = a, !.at = "claim", !.call = c]
          IN  e.bridges = d.bridges /\ e.at \notin BridgeLines
    BY <1>0 DEF DialLoops, BridgeLines
  <2> QED
    BY <1>a, <2>1, <2>2
<1>4. CASE DialSpeculative(w)
  <2>1. \A c \in UnclaimedContacts :
          LET e == [d EXCEPT !.at = "claim", !.call = c]
          IN  e.bridges = d.bridges /\ e.at \notin BridgeLines
    BY <1>0 DEF DialLoops, BridgeLines
  <2> QED
    BY <1>2, <1>4, <1>a, <2>1 DEF DialSpeculative
<1>5. CASE Claim(w)
  <2>1. LET e == [d EXCEPT !.at = "create"]
        IN  e.bridges = d.bridges /\ e.at \notin BridgeLines
    BY <1>0 DEF DialLoops, BridgeLines
  <2>2. LET e == [d EXCEPT !.at = "return", !.call = None]
        IN  e.bridges = d.bridges /\ e.at \notin BridgeLines
    BY <1>0 DEF DialLoops, BridgeLines
  <2> QED
    BY <1>2, <1>5, <1>a, <2>1, <2>2 DEF Claim
<1>6. CASE ReturnAgent(w)
  BY <1>2, <1>6 DEF ReturnAgent
<1>7. CASE Assign(w)
  <2>1. LET e == [d EXCEPT !.at = "place"]
        IN  e.bridges = d.bridges /\ e.at \notin BridgeLines
    BY <1>0 DEF DialLoops, BridgeLines
  <2> QED
    BY <1>7, <1>a, <2>1 DEF Assign
<1>8. CASE PredictiveTick(w)
  <2>1. \A extra :
          LET e == [DialStart EXCEPT !.at = "speculate", !.extra = extra]
          IN  e.bridges = {} /\ e.at \notin BridgeLines
    BY DEF DialStart, BridgeLines
  <2>2. DialStart.bridges = {} /\ DialStart.at \notin BridgeLines
    BY DEF DialStart, BridgeLines
  <2> QED
    BY <1>8, <1>a, <2>1, <2>2 DEF PredictiveTick
<1> QED
  BY <1>3, <1>4, <1>5, <1>6, <1>7, <1>8

\* A call that is not placed yet is its dial loop's only: nobody waits for it, is
\* busy with it, or hears of it.
LEMMA Unplaced ==
  ASSUME DialerInv, CallInv, NEW w \in Workers, NEW c \in Contacts,
         calls[c].state \in {"QUEUED", "RESERVED"}
  PROVE  Alone(w, c) /\ ~Waiting(c) /\ ~Known(c) /\ ~calls[c].connected
<1>1. ~Finished(c)
  BY DEF Finished, TERMINAL_CALL_STATES
<1>2. RowFits(calls[c], Waiting(c), c \in call_locks, Known(c))
  BY DEF CallInv, RowInv
<1>3. calls[c].connected \in BOOLEAN
  BY DEF DialerInv, StoreTypeOK, CallRow
<1>4. ~Waiting(c) /\ ~Known(c) /\ ~calls[c].connected
  BY <1>2, <1>3 DEF RowFits, TERMINAL_CALL_STATES
<1> QED
  BY <1>1, <1>4, AloneOnCall

\* The dial loop inserts or places the call c, and nothing else happens to a call.
LEMMA DialedStep ==
  ASSUME DialerInv, DialerInv', CallInv, NEW w \in Workers, NEW c \in Contacts, NEW e,
         calls[c].state \in {"QUEUED", "RESERVED"},
         Continue(w, e) \/ Suspend(w, e),
         e.bridges = dial[w].bridges, e.at \notin BridgeLines,
         UNCHANGED <<pending_bridges, bridge_results, call_locks, inbox>>,
         \A b \in Contacts \ {c} : calls'[b] = calls[b] /\ provider'[b] = provider[b],
         calls[c].reserved_by \in Workers => calls'[c].reserved_by = calls[c].reserved_by,
         calls'[c].connected = calls[c].connected,
         \/ calls[c].state = "QUEUED" /\ calls'[c].state = "RESERVED" /\ UNCHANGED provider
         \/ calls[c].state = "RESERVED" /\ calls'[c].state = "INITIATED"
  PROVE  CallInv' /\ Forward
<1>0. Alone(w, c) /\ ~Waiting(c) /\ ~Known(c) /\ ~calls[c].connected
  BY Unplaced
<1>1. Waiting(c)' = Waiting(c) /\ (UNCHANGED provider => Known(c)' = Known(c))
  BY DEF Waiting, Known
<1>2. RowFits(calls'[c], Waiting(c)', (c \in call_locks)', Known(c)')
  BY <1>0, <1>1 DEF RowFits
<1>3. CALL_STATE_RANK[calls'[c].state] >= CALL_STATE_RANK[calls[c].state]
  BY DEF CALL_STATE_RANK, CallState
<1>4. Settled(c)
  BY <1>2, <1>3 DEF Settled, CallInv, RowInv
<1>5. \A b \in Contacts \ {c} : Untouched(b)
  BY DEF Untouched, Quiet, SameRow, Waiting, Known, CallInv, RowInv
<1>6. /\ cpu'[w].at = "none"
      /\ \A v \in Workers \ {w} : cpu'[v] = cpu[v] /\ dial'[v] = dial[v]
      /\ dial'[w] = e \/ dial'[w] = DialStart
  BY LoopMove
<1>7. Own(w) \subseteq Own(w)'
  BY <1>4, <1>5 DEF Own, Settled, Untouched, Quiet, SameRow, ReapedRow
<1>8. LoopFits(w)'
  BY <1>6, <1>7 DEF LoopFits, Bridging, BridgeLines, DialStart, CallInv, LoopInv
<1>9. {c} \in SUBSET Contacts
  OBVIOUS
<1> QED
  BY <1>0, <1>4, <1>5, <1>6, <1>8, <1>9, StepFits

LEMMA CreateFits ==
  ASSUME DialerInv, DialerInv', CallInv, NEW w \in Workers, DialLoop(w), UNCHANGED bridge_vars,
         Create(w)
  PROVE  CallInv' /\ Forward
<1> DEFINE d == dial[w]
           e == [d EXCEPT !.at = IF d.agent # None THEN "assign" ELSE "place"]
<1>0. d \in DialLoops /\ d.call \in Contacts
  BY DEF Create, DialAt, DialerInv, GoodLoops
<1> PICK c \in Contacts : c = d.call
  BY <1>0
<1>1. /\ CreateCall(c, d.agent, w) /\ Continue(w, e)
      /\ UNCHANGED <<pending_bridges, bridge_results, call_locks, inbox, provider>>
  BY DEF Create, DialLoop, bridge_vars, net_vars
<1>2. e.bridges = d.bridges /\ e.at \notin BridgeLines
  BY <1>0 DEF DialLoops, BridgeLines
<1>3. NoCall.state = "QUEUED" /\ NoCall.reserved_by \notin Workers /\ NoCall.connected = FALSE
  BY StoreAssumption DEF NoCall
<1>4. /\ calls[c] = NoCall /\ calls'[c].state = "RESERVED" /\ calls'[c].connected = FALSE
      /\ \A b \in Contacts \ {c} : calls'[b] = calls[b] /\ provider'[b] = provider[b]
      /\ UNCHANGED provider /\ UNCHANGED <<pending_bridges, bridge_results, call_locks, inbox>>
  BY <1>1 DEF CreateCall, NoCall, DialerInv, StoreTypeOK
<1>5. /\ calls[c].state = "QUEUED" /\ calls[c].reserved_by \notin Workers
      /\ calls'[c].connected = calls[c].connected
  BY <1>3, <1>4
<1> HIDE DEF e
<1> QED
  BY <1>1, <1>2, <1>4, <1>5, DialedStep

LEMMA PlaceFits ==
  ASSUME DialerInv, DialerInv', CallInv, NEW w \in Workers, DialLoop(w), UNCHANGED bridge_vars,
         Place(w)
  PROVE  CallInv' /\ Forward
<1> DEFINE d == dial[w]
           e == NextUnit(d)
<1>0. d \in DialLoops /\ d.call \in Contacts
  BY DEF Place, DialAt, DialerInv, GoodLoops
<1> PICK c \in Contacts : c = d.call
  BY <1>0
<1>1. /\ MarkCallInitiated(c, CallLease) /\ Suspend(w, e)
      /\ provider' = [provider EXCEPT ![c] = "placed"]
      /\ UNCHANGED <<pending_bridges, bridge_results, call_locks, inbox>>
  BY DEF Place, DialLoop, bridge_vars
<1>2. e.bridges = d.bridges /\ e.at \notin BridgeLines
  BY <1>0, NextUnitMoves
<1>3. /\ calls[c].state = "RESERVED" /\ calls'[c].state = "INITIATED"
      /\ calls'[c].connected = calls[c].connected
      /\ calls'[c].reserved_by = calls[c].reserved_by
      /\ \A b \in Contacts \ {c} : calls'[b] = calls[b] /\ provider'[b] = provider[b]
  BY <1>1 DEF MarkCallInitiated, DialerInv, DialerTypeOK, StoreTypeOK, CallRow
<1> HIDE DEF e
<1> QED
  BY <1>1, <1>2, <1>3, DialedStep

LEMMA LoopKeepsCallInv ==
  ASSUME DialerInv, DialerInv', CallInv, NEW w \in Workers, DialLoop(w)
  PROVE  CallInv' /\ Forward
<1>1. CASE ServeBridges(w)
  <2>1. UNCHANGED net_vars
    BY <1>1 DEF ServeBridges
  <2>2. \/ BridgeAttach(w)
        \/ ServeNext(w) \/ BridgeReserve(w) \/ BridgeBreak(w) \/ BridgeConnect(w) \/ ScanReserve(w)
    BY <1>1 DEF ServeBridges
  <2> QED
    BY <2>1, <2>2, ServeFits, AttachFits
<1>2. CASE Dial(w)
  <2>1. UNCHANGED bridge_vars
    BY <1>2 DEF Dial
  <2>2. \/ Create(w) \/ Place(w)
        \/ DialForAgent(w) \/ DialSpeculative(w) \/ Claim(w) \/ ReturnAgent(w) \/ Assign(w)
        \/ PredictiveTick(w)
    BY <1>2 DEF Dial
  <2> QED
    BY <2>1, <2>2, DialFits, CreateFits, PlaceFits
<1> QED
  BY <1>1, <1>2 DEF DialLoop

-----------------------------------------------------------------------------
(* Handlers and the reaper *)

\* What a task leaves alone, but for the lock it gives back.
TaskFrame(w) ==
  /\ UNCHANGED <<dial, pending_bridges, bridge_results, inbox, provider>>
  /\ \/ UNCHANGED call_locks
     \/ cpu[w].at \notin {"none", "reap"} /\ call_locks' = call_locks \ {cpu[w].call}

LEMMA TaskUntouched ==
  ASSUME DialerInv, CallInv, NEW w \in Workers, TaskFrame(w),
         NEW c \in Contacts, SameRow(calls[c], calls'[c]) \/ ReapedRow(calls[c], calls'[c])
  PROVE  Untouched(c)
<1>1. Waiting(c)' = Waiting(c) /\ Known(c)' = Known(c)
  BY DEF TaskFrame, Waiting, Known
<1>2. Waiting(c) /\ c \in call_locks => c \in call_locks' \/ Finished(c)
  BY OneTask DEF TaskFrame
<1> QED
  BY <1>1, <1>2 DEF Untouched, Quiet, TaskFrame, CallInv, RowInv

LEMMA TaskLoop ==
  ASSUME DialerInv, CallInv, NEW w \in Workers, cpu[w].at # "none", TaskFrame(w),
         \A c \in Own(w) : c \in Own(w)'
  PROVE  LoopFits(w)'
<1>1. ~Bridging(w)
  BY DEF CallInv, LoopInv, DialTask, Idle
<1> QED
  BY <1>1 DEF CallInv, LoopInv, LoopFits, Bridging, TaskFrame

\* The task goes on without a write to its call.
LEMMA ReadingTask ==
  ASSUME DialerInv, DialerInv', CallInv, NEW w \in Workers, cpu[w].at # "none", TaskFrame(w),
         UNCHANGED calls, NEW f, Run(w, f),
         f.at \notin {"none", "reap"} => Fits(w, f, calls[f.call], Waiting(f.call))
  PROVE  CallInv' /\ Forward
<1>1. cpu'[w] = f /\ \A v \in Workers \ {w} : cpu'[v] = cpu[v] /\ dial'[v] = dial[v]
  BY DEF Run, TaskFrame, DialerInv
<1>2. \A c \in Contacts \ {} : Untouched(c)
  BY TaskUntouched DEF SameRow
<1>3. LoopFits(w)'
  BY TaskLoop DEF Own
<1>4. f.at \notin {"none", "reap"} => Fits(w, cpu'[w], calls'[cpu'[w].call], Waiting(cpu[w].call)')
  BY <1>1 DEF TaskFrame, Waiting
<1>5. {} \in SUBSET Contacts /\ \A c \in pending_bridges \ Own(w) : c \in pending_bridges'
  BY DEF TaskFrame
<1> QED
  BY <1>1, <1>2, <1>3, <1>4, <1>5, StepFits

LEMMA WrittenRow ==
  ASSUME DialerInv, NEW c \in Contacts, NEW target \in EventType, NEW reason,
         ApplyCallTransition(c, target, reason, CallLease)
  PROVE  /\ ~Finished(c)
         /\ calls'[c].state = target
         /\ calls'[c].reserved_by = calls[c].reserved_by
         /\ calls'[c].connected = IF target = "CONNECTED" THEN TRUE ELSE calls[c].connected
         /\ \A d \in Contacts \ {c} : calls'[d] = calls[d]
BY AppliedRow DEF DialerInv

\* The task moves its call on.
LEMMA WritingTask ==
  ASSUME DialerInv, DialerInv', CallInv, NEW w \in Workers, TaskFrame(w),
         cpu[w].at \in OnCall, NEW c \in Contacts, c = cpu[w].call,
         NEW target \in EventType, NEW reason, ApplyCallTransition(c, target, reason, CallLease),
         CALL_STATE_RANK[target] >= CALL_STATE_RANK[calls[c].state],
         calls[c].connected => target \in TERMINAL_CALL_STATES,
         NEW f, Run(w, f),
         f.at \notin {"none", "reap"} => f.call = c /\ Fits(w, f, calls'[c], FALSE)
  PROVE  CallInv' /\ Forward
<1>0. cpu[w].at \notin {"none", "reap"}
  BY DEF OnCall
<1>1. /\ ~Finished(c)
      /\ calls'[c].state = target
      /\ calls'[c].reserved_by = calls[c].reserved_by
      /\ calls'[c].connected = IF target = "CONNECTED" THEN TRUE ELSE calls[c].connected
      /\ \A d \in Contacts \ {c} : calls'[d] = calls[d]
  BY WrittenRow
<1>2. calls[c].reserved_by = w /\ ~Waiting(c) /\ Alone(w, c)
  BY <1>0, <1>1, OneTask, AloneOnCall
<1>3. Waiting(c)' = FALSE
  BY <1>2 DEF Waiting, TaskFrame
<1>4. RowFits(calls'[c], Waiting(c)', (c \in call_locks)', Known(c)')
  BY <1>1, <1>3 DEF RowFits, EventType, TERMINAL_CALL_STATES
<1>5. Settled(c)
  BY <1>1, <1>4 DEF Settled, TaskFrame, CallInv, RowInv
<1>6. \A d \in Contacts \ {c} : Untouched(d)
  BY <1>1, TaskUntouched DEF SameRow
<1>7. cpu'[w] = f /\ \A v \in Workers \ {w} : cpu'[v] = cpu[v] /\ dial'[v] = dial[v]
  BY DEF Run, TaskFrame, DialerInv
<1>8. LoopFits(w)'
  BY <1>0, <1>1, TaskLoop DEF Own
<1>9. f.at \notin {"none", "reap"} => Fits(w, cpu'[w], calls'[cpu'[w].call], Waiting(cpu[w].call)')
  BY <1>3, <1>7 DEF Waiting
<1>10. {c} \in SUBSET Contacts /\ \A d \in pending_bridges \ Own(w) : d \in pending_bridges'
  BY DEF TaskFrame
<1> QED
  BY <1>2, <1>5, <1>6, <1>7, <1>8, <1>9, <1>10, StepFits

\* What the statement a handler is at says of its call.
LEMMA AtWork ==
  ASSUME DialerInv, CallInv, NEW w \in Workers, cpu[w].at \in OnCall
  PROVE  /\ cpu[w].call \in Contacts /\ cpu[w] \in Frames
         /\ Fits(w, cpu[w], calls[cpu[w].call], Waiting(cpu[w].call))
         /\ cpu[w].task = "event" /\ ~Waiting(cpu[w].call)
BY DEF DialerInv, GoodFrames, CallInv, FrameInv, Fits, OnCall

LEMMA ReturnStep ==
  ASSUME NEW w \in Workers, Return(w), cpu[w].at \notin {"none", "reap"},
         UNCHANGED <<dial, pending_bridges, bridge_results, inbox, provider>>
  PROVE  TaskFrame(w) /\ \E f : Run(w, f) /\ f.at \in {"none", "reap"}
<1>1. Idle.at = "none" /\ Reaper(cpu[w].todo).at = "reap"
  BY DEF Idle, Reaper
<1> QED
  BY <1>1 DEF Return, TaskFrame

LEMMA ProceedFits ==
  ASSUME DialerInv, DialerInv', CallInv, ReportInv, NEW w \in Workers, Proceed(w)
  PROVE  CallInv' /\ Forward
<1> DEFINE f == cpu[w]
           Done == CallInv' /\ Forward
<1>0. /\ f \in GoodFrames /\ f \in Frames
      /\ UNCHANGED <<dial, pending_bridges, bridge_results, inbox, provider>>
  BY DEF Proceed, bridge_vars, net_vars, DialerInv, GoodFrames
<1>a. UNCHANGED call_locks => TaskFrame(w)
  BY <1>0 DEF TaskFrame
<1>b. ASSUME Return(w), UNCHANGED calls, f.at \notin {"none", "reap"} PROVE Done
  <2>1. TaskFrame(w) /\ f.at # "none"
    BY <1>0, <1>b, ReturnStep
  <2>2. PICK g : Run(w, g) /\ g.at \in {"none", "reap"}
    BY <1>0, <1>b, ReturnStep
  <2> QED
    BY <1>b, <2>1, <2>2, ReadingTask
<1>c. ASSUME f.at \in OnCall
      PROVE  /\ f.call \in Contacts /\ ~Waiting(f.call) /\ f.task = "event" /\ f.at \notin {"none", "reap"}
             /\ Fits(w, f, calls[f.call], FALSE)
             /\ calls[f.call].state \in CallState /\ calls[f.call].connected \in BOOLEAN
             /\ RowFits(calls[f.call], FALSE, f.call \in call_locks, Known(f.call))
  <2>1. f.call \in Contacts /\ ~Waiting(f.call) /\ f.task = "event" /\ f.at \notin {"none", "reap"}
    BY <1>c, AtWork DEF OnCall
  <2>2. Fits(w, f, calls[f.call], Waiting(f.call))
    BY <1>c, AtWork
  <2>3. RowFits(calls[f.call], Waiting(f.call), f.call \in call_locks, Known(f.call))
    BY <2>1 DEF CallInv, RowInv
  <2>4. calls[f.call].state \in CallState /\ calls[f.call].connected \in BOOLEAN
    BY <2>1 DEF DialerInv, StoreTypeOK, CallRow
  <2>5. Waiting(f.call) = FALSE
    BY <2>1 DEF Waiting
  <2> QED
    BY <2>1, <2>2, <2>3, <2>4, <2>5
<1>d. \A at : LET g == [f EXCEPT !.at = at]
              IN  g.at = at /\ g.task = f.task /\ g.call = f.call /\ g.target = f.target
  BY <1>0 DEF Frames
<1>e. \A at, a : LET g == [f EXCEPT !.at = at, !.agent = a]
                 IN  g.at = at /\ g.task = f.task /\ g.call = f.call /\ g.target = f.target
  BY <1>0 DEF Frames
<1>f. ASSUME f.at \in OnCall, NEW target \in EventType, NEW reason, NEW g, TaskFrame(w), Run(w, g),
             ApplyCallTransition(f.call, target, reason, CallLease),
             CALL_STATE_RANK[target] >= CALL_STATE_RANK[calls[f.call].state],
             calls[f.call].connected => target \in TERMINAL_CALL_STATES,
             g.at \notin {"none", "reap"} => g.call = f.call /\ Fits(w, g, calls'[f.call], FALSE)
      PROVE  Done
  <2> PICK c \in Contacts : c = f.call
    BY <1>c, <1>f
  <2> QED
    BY <1>f, WritingTask
<1>g. ASSUME f.at \in OnCall, NEW target \in EventType, NEW reason,
             ApplyCallTransition(f.call, target, reason, CallLease)
      PROVE  /\ calls'[f.call].state = target
             /\ calls'[f.call].reserved_by = calls[f.call].reserved_by
             /\ calls'[f.call].connected = IF target = "CONNECTED" THEN TRUE ELSE calls[f.call].connected
             /\ calls[f.call].state \notin TERMINAL_CALL_STATES
  <2> PICK c \in Contacts : c = f.call
    BY <1>c, <1>g
  <2> QED
    BY <1>g, AppliedRow DEF DialerInv, Finished
<1>1. CASE BridgeOwnAgent(w)
  <2>1. f.at = "bridge" /\ f.at \in OnCall
    BY <1>1 DEF BridgeOwnAgent, HandlerAt, OnCall
  <2>2. PICK g : Run(w, g) /\ g.at \in {"answered", "unanswered"} /\ g.call = f.call /\ g.task = f.task
    <3> DEFINE g == [f EXCEPT !.at = "answered"]
               h == [f EXCEPT !.at = "unanswered", !.agent = None]
    <3>1. Run(w, g) \/ Run(w, h)
      BY <1>1 DEF BridgeOwnAgent
    <3>2. /\ g.at = "answered" /\ g.call = f.call /\ g.task = f.task
          /\ h.at = "unanswered" /\ h.call = f.call /\ h.task = f.task
      BY <1>d, <1>e
    <3> HIDE DEF g, h
    <3> QED
      BY <3>1, <3>2
  <2>3. Fits(w, g, calls[g.call], Waiting(g.call))
    BY <1>c, <2>1, <2>2 DEF Fits, OnCall
  <2>4. UNCHANGED calls /\ TaskFrame(w)
    BY <1>1, <1>a DEF BridgeOwnAgent
  <2> QED
    BY <1>c, <2>1, <2>2, <2>3, <2>4, ReadingTask
<1>2. CASE Apply(w)
  <2>1. f.at = "apply" /\ f.at \in OnCall /\ f.target \in EventType
    BY <1>0, <1>2 DEF Apply, HandlerAt, OnCall, GoodFrames
  <2>2. CASE UNCHANGED calls /\ Return(w)
    BY <1>b, <1>c, <2>1, <2>2
  <2>3. CASE ApplyCallTransition(f.call, f.target, ReasonOf(f.target), CallLease)
    <3>1. /\ CALL_STATE_RANK[calls[f.call].state] < CALL_STATE_RANK[f.target]
          /\ calls[f.call].connected => calls[f.call].state = "CONNECTED"
      BY <1>c, <1>g, <2>1, <2>3 DEF Fits, RowFits
    <3>2. /\ CALL_STATE_RANK[f.target] >= CALL_STATE_RANK[calls[f.call].state]
          /\ calls[f.call].connected => f.target \in TERMINAL_CALL_STATES
      <4>1. \A s \in CallState : CALL_STATE_RANK[s] \in Nat
        BY DEF CALL_STATE_RANK, CallState
      <4>2. f.target \in CallState /\ calls[f.call].state \in CallState
        BY <1>c, <2>1 DEF EventType, CallState
      <4>3. CALL_STATE_RANK[f.target] >= CALL_STATE_RANK[calls[f.call].state]
        BY <3>1, <4>1, <4>2
      <4>4. CALL_STATE_RANK["CONNECTED"] < CALL_STATE_RANK[f.target] => f.target \in TERMINAL_CALL_STATES
        BY <2>1 DEF CALL_STATE_RANK, CallState, EventType, TERMINAL_CALL_STATES
      <4> QED
        BY <3>1, <4>3, <4>4
    <3>3. CASE Return(w)
      <4>1. TaskFrame(w)
        BY <1>0, <1>c, <2>1, <3>3, ReturnStep
      <4>2. PICK g : Run(w, g) /\ g.at \in {"none", "reap"}
        BY <1>0, <1>c, <2>1, <3>3, ReturnStep
      <4> QED
        BY <1>f, <2>1, <2>3, <3>2, <4>1, <4>2
    <3>4. CASE ~Return(w)
      <4> DEFINE g == [f EXCEPT !.at = "terminal", !.agent = calls[f.call].agent_id]
      <4>1. Run(w, g) /\ UNCHANGED call_locks /\ f.target \in TERMINAL_CALL_STATES
        BY <1>2, <2>1, <2>3, <3>4 DEF Apply, ApplyCallTransition
      <4>2. g.at = "terminal" /\ g.call = f.call
        BY <1>e
      <4>3. Fits(w, g, calls'[f.call], FALSE)
        BY <1>g, <2>1, <2>3, <4>1, <4>2 DEF Fits, OnCall
      <4>4. TaskFrame(w)
        BY <1>a, <4>1
      <4> HIDE DEF g
      <4> QED
        BY <1>f, <2>1, <2>3, <3>2, <4>1, <4>2, <4>3, <4>4
    <3> QED
      BY <3>3, <3>4
  <2> QED
    BY <1>2, <2>2, <2>3 DEF Apply
<1>3. CASE MarkAnswered(w)
  <2>1. f.at = "answered" /\ f.at \in OnCall /\ "ANSWERED" \in EventType
    BY <1>3 DEF MarkAnswered, HandlerAt, OnCall, EventType
  <2>2. TaskFrame(w)
    BY <1>3, <1>a DEF MarkAnswered
  <2>3. CASE ApplyCallTransition(f.call, "ANSWERED", None, CallLease)
    <3> DEFINE g == [f EXCEPT !.at = "connected"]
    <3>1. Run(w, g)
      BY <1>3, <2>3 DEF MarkAnswered, ApplyCallTransition
    <3>2. calls[f.call].state \in {"INITIATED", "RINGING"} /\ ~calls[f.call].connected
      BY <1>c, <1>g, <2>1, <2>3 DEF Fits, TERMINAL_CALL_STATES
    <3>3. CALL_STATE_RANK["ANSWERED"] >= CALL_STATE_RANK[calls[f.call].state]
      BY <3>2 DEF CALL_STATE_RANK, CallState
    <3>4. g.at = "connected" /\ g.call = f.call /\ g.task = f.task
      BY <1>d
    <3>5. Fits(w, g, calls'[f.call], FALSE)
      BY <1>c, <1>g, <2>1, <2>3, <3>4 DEF Fits, OnCall
    <3> HIDE DEF g
    <3> QED
      BY <1>f, <2>1, <2>2, <2>3, <3>1, <3>2, <3>3, <3>4, <3>5
  <2>4. CASE ~CanApply(f.call) /\ Run(w, [f EXCEPT !.at = "release"]) /\ UNCHANGED calls
    <3> DEFINE g == [f EXCEPT !.at = "release"]
    <3>1. g.at = "release" /\ g.call = f.call /\ g.task = f.task
      BY <1>d
    <3>2. Fits(w, g, calls[g.call], Waiting(g.call))
      BY <1>c, <2>1, <3>1 DEF Fits, OnCall
    <3> HIDE DEF g
    <3> QED
      BY <1>c, <2>1, <2>2, <2>4, <3>2, ReadingTask DEF g
  <2> QED
    BY <1>3, <2>3, <2>4 DEF MarkAnswered
<1>4. CASE MarkConnected(w)
  <2>1. f.at = "connected" /\ f.at \in OnCall /\ "CONNECTED" \in EventType /\ Return(w)
    BY <1>4 DEF MarkConnected, HandlerAt, OnCall, EventType
  <2>2. CASE UNCHANGED calls
    BY <1>b, <1>c, <2>1, <2>2
  <2>3. CASE ApplyCallTransition(f.call, "CONNECTED", None, CallLease)
    <3>1. calls[f.call].state = "ANSWERED"
      BY <1>c, <1>g, <2>1, <2>3 DEF Fits
    <3>2. ~calls[f.call].connected
      BY <1>c, <2>1, <3>1 DEF RowFits, TERMINAL_CALL_STATES
    <3>3. CALL_STATE_RANK["CONNECTED"] >= CALL_STATE_RANK[calls[f.call].state]
      BY <3>1 DEF CALL_STATE_RANK, CallState
    <3>4. TaskFrame(w)
      BY <1>0, <1>c, <2>1, ReturnStep
    <3>5. PICK g : Run(w, g) /\ g.at \in {"none", "reap"}
      BY <1>0, <1>c, <2>1, ReturnStep
    <3> QED
      BY <1>f, <2>1, <2>3, <3>2, <3>3, <3>4, <3>5
  <2> QED
    BY <1>4, <2>2, <2>3 DEF MarkConnected
<1>5. CASE ReleaseBridged(w)
  BY <1>5, <1>b DEF ReleaseBridged, HandlerAt
<1>6. CASE MarkUnanswered(w)
  <2>1. f.at = "unanswered" /\ f.at \in OnCall /\ "ANSWERED" \in EventType
    BY <1>6 DEF MarkUnanswered, HandlerAt, OnCall, EventType
  <2>2. CASE UNCHANGED calls /\ Return(w)
    BY <1>b, <1>c, <2>1, <2>2
  <2>3. CASE /\ ApplyCallTransition(f.call, "ANSWERED", None, CallLease)
             /\ Run(w, [f EXCEPT !.at = "abandon"]) /\ UNCHANGED call_locks
    <3> DEFINE g == [f EXCEPT !.at = "abandon"]
    <3>1. TaskFrame(w)
      BY <1>a, <2>3
    <3>2. calls[f.call].state \in {"INITIATED", "RINGING"} /\ ~calls[f.call].connected
      BY <1>c, <1>g, <2>1, <2>3 DEF Fits, TERMINAL_CALL_STATES
    <3>3. CALL_STATE_RANK["ANSWERED"] >= CALL_STATE_RANK[calls[f.call].state]
      BY <3>2 DEF CALL_STATE_RANK, CallState
    <3>4. g.at = "abandon" /\ g.call = f.call /\ g.task = f.task
      BY <1>d
    <3>5. Fits(w, g, calls'[f.call], FALSE)
      BY <1>c, <1>g, <2>1, <2>3, <3>2, <3>4 DEF Fits, OnCall
    <3> HIDE DEF g
    <3> QED
      BY <1>f, <2>1, <2>3, <3>1, <3>2, <3>3, <3>4, <3>5 DEF g
  <2> QED
    BY <1>6, <2>2, <2>3 DEF MarkUnanswered
<1>7. CASE MarkAbandoned(w)
  <2>1. f.at = "abandon" /\ f.at \in OnCall /\ "FAILED" \in EventType
    BY <1>7 DEF MarkAbandoned, HandlerAt, OnCall, EventType
  <2>2. CASE UNCHANGED calls /\ Return(w)
    BY <1>b, <1>c, <2>1, <2>2
  <2>3. CASE /\ ApplyCallTransition(f.call, "FAILED", "abandoned_no_agent", CallLease)
             /\ Run(w, [f EXCEPT !.at = "terminal", !.agent = calls[f.call].agent_id])
             /\ UNCHANGED call_locks
    <3> DEFINE g == [f EXCEPT !.at = "terminal", !.agent = calls[f.call].agent_id]
    <3>1. TaskFrame(w)
      BY <1>a, <2>3
    <3>2. CALL_STATE_RANK["FAILED"] >= CALL_STATE_RANK[calls[f.call].state] /\ "FAILED" \in TERMINAL_CALL_STATES
      BY <1>c, <2>1 DEF CALL_STATE_RANK, CallState, TERMINAL_CALL_STATES
    <3>3. g.at = "terminal" /\ g.call = f.call
      BY <1>e
    <3>4. Fits(w, g, calls'[f.call], FALSE)
      BY <1>g, <2>1, <2>3, <3>2, <3>3 DEF Fits, OnCall
    <3> HIDE DEF g
    <3> QED
      BY <1>f, <2>1, <2>3, <3>1, <3>2, <3>3, <3>4 DEF g
  <2> QED
    BY <1>7, <2>2, <2>3 DEF MarkAbandoned
<1>8. CASE OnCallTerminal(w)
  <2>1. f.at = "terminal" /\ UNCHANGED calls
    BY <1>8 DEF OnCallTerminal, HandlerAt
  <2>2. CASE Return(w)
    BY <1>b, <2>1, <2>2
  <2>3. CASE ~Return(w)
    <3> DEFINE g == [f EXCEPT !.at = "free"]
    <3>1. Run(w, g) /\ call_locks' = call_locks \ {f.call}
      BY <1>8, <2>3 DEF OnCallTerminal
    <3>2. TaskFrame(w) /\ f.at # "none"
      BY <1>0, <2>1, <3>1 DEF TaskFrame
    <3>3. g.at = "free" /\ g.call = f.call
      BY <1>d
    <3>4. calls[f.call].state \in TERMINAL_CALL_STATES
      BY <2>1 DEF CallInv, FrameInv, Fits
    <3>5. Fits(w, g, calls[g.call], Waiting(g.call))
      BY <3>3, <3>4 DEF Fits, OnCall
    <3> HIDE DEF g
    <3> QED
      BY <2>1, <3>1, <3>2, <3>5, ReadingTask
  <2> QED
    BY <2>2, <2>3
<1>9. CASE FreeCallAgent(w)
  BY <1>9, <1>b DEF FreeCallAgent, HandlerAt
<1>10. CASE ReapCallAgent(w)
  <2> PICK c \in f.todo :
        Run(w, [f EXCEPT !.at = "terminal", !.call = c, !.agent = calls[c].agent_id, !.todo = @ \ {c}])
    BY <1>10 DEF ReapCallAgent
  <2> DEFINE g == [f EXCEPT !.at = "terminal", !.call = c, !.agent = calls[c].agent_id, !.todo = @ \ {c}]
  <2>1. g.at = "terminal" /\ g.call = c /\ c \in Contacts
    BY <1>0 DEF Frames
  <2>2. calls[c].state \in TERMINAL_CALL_STATES
    BY <2>1 DEF ReportInv, ToReport, Finished
  <2>3. Fits(w, g, calls[g.call], Waiting(g.call))
    BY <2>1, <2>2 DEF Fits, OnCall
  <2>4. f.at # "none" /\ UNCHANGED calls /\ TaskFrame(w)
    BY <1>10, <1>a DEF ReapCallAgent, HandlerAt
  <2> HIDE DEF g
  <2> QED
    BY <2>3, <2>4, ReadingTask DEF g
<1>11. CASE ReapAgents(w)
  <2>1. f.at # "none" /\ UNCHANGED calls /\ TaskFrame(w) /\ Run(w, Idle)
    BY <1>11, <1>a DEF ReapAgents, HandlerAt
  <2>2. Idle.at = "none"
    BY DEF Idle
  <2> QED
    BY <2>1, <2>2, ReadingTask
<1> QED
  BY <1>1, <1>2, <1>3, <1>4, <1>5, <1>6, <1>7, <1>8, <1>9, <1>10, <1>11 DEF Proceed

-----------------------------------------------------------------------------
(* Events, waiting handlers, and what happens beside them *)

\* No task moves, and no call but for its events.
LEMMA SameTasks ==
  ASSUME DialerInv, DialerInv', CallInv,
         UNCHANGED <<cpu, dial, pending_bridges, bridge_results, call_locks>>,
         \A c \in Contacts : SameRow(calls[c], calls'[c]) /\ (Known(c)' => Known(c))
  PROVE  CallInv' /\ Forward
<1>1. \A c \in Contacts : Untouched(c)
  BY DEF Untouched, Quiet, Waiting, CallInv, RowInv
<1>2. \A c \in Contacts : Settled(c)
  BY <1>1, UntouchedSettles
<1>3. RowInv'
  BY <1>2 DEF RowInv, Settled
<1>4. ASSUME NEW v \in Workers
      PROVE  Fits(v, cpu'[v], calls'[cpu'[v].call], Waiting(cpu[v].call)')
  <2>1. CASE cpu[v].at \in {"none", "reap"}
    BY <2>1 DEF Fits, OnCall
  <2>2. CASE cpu[v].at \notin {"none", "reap"}
    <3> PICK c \in Contacts : c = cpu[v].call
      BY <2>2 DEF DialerInv, GoodFrames
    <3>1. Fits(v, cpu[v], calls[c], Waiting(c)) /\ SameRow(calls[c], calls'[c])
      BY DEF CallInv, FrameInv
    <3>2. Fits(v, cpu[v], calls'[c], Waiting(c))
      BY <3>1 DEF Fits, SameRow
    <3> QED
      BY <3>2 DEF Waiting
  <2> QED
    BY <2>1, <2>2
<1>5. \A v \in Workers : Own(v) \subseteq Own(v)'
  BY DEF Own, SameRow
<1>6. LoopInv'
  BY <1>5 DEF CallInv, LoopInv, Bridging
<1> QED
  BY <1>2, <1>3, <1>4, <1>6 DEF CallInv, FrameInv, Forward, Settled

LEMMA ReadyLoop ==
  ASSUME CallInv, NEW w \in Workers, cpu[w] = Idle \/ cpu[w].task = "reap"
  PROVE  ~Bridging(w)
BY DEF CallInv, LoopInv, DialTask, Idle

\* A ready worker resumes a task of its own, that may have a call in hand.
LEMMA ResumedTask ==
  ASSUME DialerInv, DialerInv', CallInv, NEW w \in Workers, ~Bridging(w), NEW f, Run(w, f),
         UNCHANGED dial,
         \A c \in Contacts : Untouched(c),
         \A c \in pending_bridges \ Own(w) : c \in pending_bridges',
         f.at \notin {"none", "reap"} => Fits(w, f, calls'[f.call], Waiting(f.call)')
  PROVE  CallInv' /\ Forward
<1>1. cpu'[w] = f /\ \A v \in Workers \ {w} : cpu'[v] = cpu[v] /\ dial'[v] = dial[v]
  BY DEF Run, DialerInv
<1>2. Own(w) \subseteq Own(w)'
  BY DEF Untouched, Quiet, SameRow, ReapedRow, Own
<1>3. LoopFits(w)'
  BY <1>2 DEF LoopFits, Bridging, CallInv, LoopInv
<1>4. {} \in SUBSET Contacts /\ \A c \in Contacts \ {} : Untouched(c)
  OBVIOUS
<1>5. f.at \notin {"none", "reap"} => Fits(w, cpu'[w], calls'[cpu'[w].call], Waiting(cpu[w].call)')
  BY <1>1 DEF Waiting
<1> QED
  BY <1>1, <1>3, <1>4, <1>5, StepFits

LEMMA ReaperFits ==
  ASSUME DialerInv, DialerInv', CallInv, NEW w \in Workers, ReaperPass(w)
  PROVE  CallInv' /\ Forward
<1> PICK S \in SUBSET ReclaimableCalls : ReclaimExpiredCallLeases(S) /\ Run(w, Reaper(S))
  BY DEF ReaperPass, ReapCalls
<1>1. TaskFrame(w) /\ UNCHANGED dial /\ ~Bridging(w) /\ UNCHANGED pending_bridges
  BY ReadyLoop DEF ReaperPass, ReapCalls, Ready, TaskFrame, bridge_vars, net_vars
<1>2. \A c \in Contacts : SameRow(calls[c], calls'[c]) \/ ReapedRow(calls[c], calls'[c])
  BY ReapedRows DEF DialerInv, SameRow, ReapedRow
<1>3. \A c \in Contacts : Untouched(c)
  BY <1>1, <1>2, TaskUntouched
<1>4. Reaper(S).at = "reap"
  BY DEF Reaper, Idle
<1> QED
  BY <1>1, <1>3, <1>4, ResumedTask

\* A handler looks at the oldest event of a call that nobody has in hand.
LEMMA EventFits ==
  ASSUME DialerInv, DialerInv', CallInv, NEW w \in Workers, NEW c \in Contacts, EventTask(w, c)
  PROVE  CallInv' /\ Forward
<1>0. /\ cpu[w] = Idle /\ c \in Own(w) \ call_locks /\ inbox[c] # <<>>
      /\ inbox' = [inbox EXCEPT ![c] = Tail(@)]
      /\ UNCHANGED <<calls, dial, bridge_results, provider>>
  BY DEF EventTask, HandleDuplicate, HandleStale, HandleEvent, HandleAnswered, Deliver, Ready
<1>1. ~Bridging(w) /\ calls[c].reserved_by = w
  BY <1>0, ReadyLoop DEF Own
<1>2. \A b \in Contacts : SameRow(calls[b], calls'[b]) /\ (Known(b)' => Known(b))
  BY <1>0 DEF SameRow, Known, DialerInv, DialerTypeOK
<1>3. UNCHANGED <<pending_bridges, call_locks>> => \A b \in Contacts : Untouched(b)
  BY <1>0, <1>2 DEF Untouched, Quiet, Waiting, CallInv, RowInv
<1>4. /\ RowFits(calls[c], Waiting(c), FALSE, TRUE)
      /\ calls[c].state \in CallState /\ calls[c].connected \in BOOLEAN
  <2>1. RowFits(calls[c], Waiting(c), c \in call_locks, Known(c))
    BY DEF CallInv, RowInv
  <2>2. Known(c) = TRUE /\ (c \in call_locks) = FALSE
    BY <1>0 DEF Known
  <2> QED
    BY <2>1, <2>2 DEF DialerInv, StoreTypeOK, CallRow
<1>5. ASSUME Target(c) # Drop
      PROVE  /\ ~Finished(c) /\ ~Waiting(c) /\ calls[c].state \notin {"QUEUED", "RESERVED"}
             /\ CALL_STATE_RANK[calls[c].state] < CALL_STATE_RANK[Target(c)]
  <2>1. Target(c) \in EventType
    BY <1>0, <1>5, TargetType
  <2>2. ~Finished(c)
    BY <1>5 DEF Target, Reconcile, Finished
  <2>3. ~Waiting(c) /\ calls[c].state \notin {"QUEUED", "RESERVED"}
    BY <1>4, <2>2 DEF RowFits, Finished, TERMINAL_CALL_STATES
  <2>4. CALL_STATE_RANK[calls[c].state] < CALL_STATE_RANK[Target(c)]
    <3> DEFINE incoming == Head(inbox[c]).type
    <3>1. /\ Target(c) = incoming
          /\ incoming \in TERMINAL_CALL_STATES \/ ~(CALL_STATE_RANK[incoming] <= CALL_STATE_RANK[calls[c].state])
      BY <1>5 DEF Target, Reconcile
    <3>2. CALL_STATE_RANK[incoming] \in Int /\ CALL_STATE_RANK[calls[c].state] \in Int
      BY <1>4, <2>1, <3>1 DEF CALL_STATE_RANK, CallState, EventType
    <3>3. CASE incoming \in TERMINAL_CALL_STATES
      <4>1. CALL_STATE_RANK[incoming] = 6
        BY <3>3 DEF CALL_STATE_RANK, CallState, TERMINAL_CALL_STATES
      <4>2. CALL_STATE_RANK[calls[c].state] < 6
        BY <1>4, <2>2 DEF CALL_STATE_RANK, CallState, TERMINAL_CALL_STATES, Finished
      <4> QED
        BY <3>1, <4>1, <4>2
    <3> HIDE DEF incoming
    <3> QED
      BY <3>1, <3>2, <3>3
  <2> QED
    BY <2>2, <2>3, <2>4
<1>6. CASE HandleDuplicate(w, c) \/ HandleStale(w, c)
  <2>1. UNCHANGED <<cpu, dial, pending_bridges, bridge_results, call_locks>>
    BY <1>0, <1>6 DEF HandleDuplicate, HandleStale
  <2> QED
    BY <1>2, <2>1, SameTasks
<1>7. CASE HandleEvent(w, c)
  <2> PICK g : g = Handler("apply", c, None, Target(c))
    OBVIOUS
  <2>1. g.at = "apply" /\ g.call = c /\ g.task = "event" /\ g.target = Target(c)
    BY DEF Handler, Idle
  <2>2. Run(w, g) /\ Target(c) # Drop /\ UNCHANGED <<pending_bridges, call_locks>>
    BY <1>7 DEF HandleEvent
  <2>3. Waiting(c)' = Waiting(c)
    BY <1>0, <2>2 DEF Waiting
  <2>4. Fits(w, g, calls'[g.call], Waiting(g.call)')
    BY <1>0, <1>1, <1>5, <2>1, <2>2, <2>3 DEF Fits, OnCall, Waiting
  <2>5. \A b \in Contacts : Untouched(b)
    BY <1>3, <2>2
  <2>6. \A b \in pending_bridges \ Own(w) : b \in pending_bridges'
    BY <2>2
  <2> QED
    BY <1>0, <1>1, <2>2, <2>4, <2>5, <2>6, ResumedTask
<1>8. CASE HandleAnswered(w, c)
  <2>1. Target(c) # Drop /\ Target(c) = "ANSWERED"
    BY <1>8 DEF HandleAnswered, Drop
  <2>2. calls[c].state \in {"INITIATED", "RINGING"} /\ ~calls[c].connected
    BY <1>4, <1>5, <2>1 DEF RowFits, CALL_STATE_RANK, CallState, TERMINAL_CALL_STATES
  <2>3. CASE /\ Run(w, Handler("bridge", c, calls[c].agent_id, "ANSWERED"))
             /\ UNCHANGED <<pending_bridges, call_locks>>
    <3> PICK g : g = Handler("bridge", c, calls[c].agent_id, "ANSWERED")
      OBVIOUS
    <3>1. g.at = "bridge" /\ g.call = c /\ g.task = "event"
      BY DEF Handler, Idle
    <3>2. Waiting(c)' = Waiting(c)
      BY <1>0, <2>3 DEF Waiting
    <3>3. Fits(w, g, calls'[g.call], Waiting(g.call)')
      BY <1>0, <1>1, <1>5, <2>1, <2>2, <3>1, <3>2 DEF Fits, OnCall, Waiting
    <3>4. \A b \in Contacts : Untouched(b)
      BY <1>3, <2>3
    <3>5. \A b \in pending_bridges \ Own(w) : b \in pending_bridges'
      BY <2>3
    <3> QED
      BY <1>0, <1>1, <2>3, <3>3, <3>4, <3>5, ResumedTask
  <2>4. CASE /\ pending_bridges' = pending_bridges \cup {c}
             /\ call_locks' = call_locks \cup {c}
             /\ UNCHANGED cpu
    <3>1. Alone(w, c)
      BY <1>1, <1>5, <2>1, AloneOnCall
    <3>2. c \in call_locks' /\ bridge_results'[c] = None
      BY <1>0, <1>5, <2>1, <2>4 DEF Waiting
    <3>3. RowFits(calls'[c], Waiting(c)', (c \in call_locks)', Known(c)')
      BY <1>0, <2>2, <3>2 DEF RowFits
    <3>4. CALL_STATE_RANK[calls'[c].state] >= CALL_STATE_RANK[calls[c].state]
      BY <1>0, <2>2 DEF CALL_STATE_RANK, CallState
    <3>5. Settled(c)
      BY <1>0, <3>2, <3>3, <3>4 DEF Settled
    <3>6. \A b \in Contacts \ {c} : Untouched(b)
      BY <1>0, <1>2, <2>4 DEF Untouched, Quiet, Waiting, CallInv, RowInv
    <3>7. cpu'[w].at = "none" /\ \A v \in Workers \ {w} : cpu'[v] = cpu[v] /\ dial'[v] = dial[v]
      BY <1>0, <2>4 DEF Idle
    <3>8. LoopFits(w)'
      BY <1>0, <1>1, <2>4 DEF LoopFits, Bridging, CallInv, LoopInv, Own
    <3>9. {c} \in SUBSET Contacts /\ \A b \in pending_bridges \ Own(w) : b \in pending_bridges'
      BY <2>4
    <3> QED
      BY <3>1, <3>5, <3>6, <3>7, <3>8, <3>9, StepFits
  <2> QED
    BY <1>8, <2>3, <2>4 DEF HandleAnswered
<1> QED
  BY <1>6, <1>7, <1>8 DEF EventTask

\* The waiting handler wakes up, with or without an agent.
LEMMA WaitFits ==
  ASSUME DialerInv, DialerInv', CallInv, NEW w \in Workers, NEW c \in Contacts, BridgeWait(w, c)
  PROVE  CallInv' /\ Forward
<1>0. /\ cpu[w] = Idle /\ c \in Own(w) /\ Waiting(c)
      /\ UNCHANGED <<calls, dial, call_locks, inbox, provider>>
      /\ bridge_results' = [bridge_results EXCEPT ![c] = None]
      /\ pending_bridges' = pending_bridges \ {c}
  <2>1. bridge_results[c] # None => pending_bridges = pending_bridges \ {c}
    BY DEF CallInv, RowInv
  <2> QED
    BY <2>1 DEF BridgeWait, BridgeFound, BridgeTimeout, Ready, Waiting, store_vars, net_vars
<1>1. /\ ~Bridging(w) /\ calls[c].reserved_by = w
      /\ bridge_results \in [Contacts -> Agents \cup {None}]
  BY <1>0, ReadyLoop DEF Own, DialerInv, DialerTypeOK
<1>2. \A b \in Contacts : Untouched(b)
  BY <1>0, <1>1 DEF Untouched, Quiet, SameRow, Known, Waiting, CallInv, RowInv
<1>3. /\ ~Waiting(c)' /\ ~calls[c].connected
      /\ calls[c].state \in {"INITIATED", "RINGING", "FAILED"}
  BY <1>0, <1>1 DEF Waiting, CallInv, RowInv, RowFits
<1>4. PICK at, a : at \in {"answered", "unanswered"} /\ Run(w, Handler(at, c, a, "ANSWERED"))
  BY DEF BridgeWait, BridgeFound, BridgeTimeout
<1> DEFINE g == Handler(at, c, a, "ANSWERED")
<1>5. g.at = at /\ g.call = c /\ g.task = "event"
  BY DEF Handler, Idle
<1>6. Fits(w, g, calls'[g.call], Waiting(g.call)')
  BY <1>0, <1>1, <1>3, <1>4, <1>5 DEF Fits, OnCall, Waiting
<1>7. \A b \in pending_bridges \ Own(w) : b \in pending_bridges'
  BY <1>0
<1> HIDE DEF g
<1> QED
  BY <1>0, <1>1, <1>2, <1>4, <1>6, <1>7, ResumedTask DEF g

LEMMA VanishFits ==
  ASSUME DialerInv, DialerInv', CallInv, NEW w \in Workers, Vanish(w)
  PROVE  CallInv' /\ Forward
<1>1. /\ cpu'[w].at = "none" /\ dial'[w] = DialStart
      /\ \A v \in Workers \ {w} : cpu'[v] = cpu[v] /\ dial'[v] = dial[v]
  BY DEF Vanish, DialerInv, Idle
<1>2. LoopFits(w)'
  BY <1>1 DEF LoopFits, Bridging, DialStart
<1>3. ASSUME NEW c \in Contacts PROVE Untouched(c)
  <2>1. SameRow(calls[c], calls'[c])
    BY DEF Vanish, store_vars, SameRow
  <2>2. CASE c \in Own(w)
    <3>1. c \notin pending_bridges' /\ bridge_results'[c] = None /\ (Known(c)' => Known(c))
      BY <2>2 DEF Vanish, Known
    <3> QED
      BY <2>1, <3>1 DEF Untouched, Quiet, Waiting
  <2>3. CASE c \notin Own(w)
    <3>1. /\ c \in pending_bridges' <=> c \in pending_bridges
          /\ c \in call_locks' <=> c \in call_locks
          /\ bridge_results'[c] = bridge_results[c] /\ (Known(c)' <=> Known(c))
      BY <2>3 DEF Vanish, Known
    <3> QED
      BY <2>1, <3>1 DEF Untouched, Quiet, Waiting, CallInv, RowInv
  <2> QED
    BY <2>2, <2>3
<1>4. {} \in SUBSET Contacts /\ \A c \in pending_bridges \ Own(w) : c \in pending_bridges'
  BY DEF Vanish
<1> QED
  BY <1>1, <1>2, <1>3, <1>4, StepFits

LEMMA TroubleFits ==
  ASSUME DialerInv, DialerInv', CallInv, NEW w \in Workers, Trouble(w)
  PROVE  CallInv' /\ Forward
<1>1. CASE Crash(w) \/ Exit(w)
  BY <1>1, VanishFits DEF Crash, Exit
<1>2. CASE Shutdown(w)
  <2>1. /\ cpu[w] = Idle /\ Idle.at = "none"
        /\ UNCHANGED <<calls, cpu, dial, inbox, provider>>
    BY <1>2 DEF Shutdown, Ready, store_vars, net_vars, Idle
  <2>2. ASSUME NEW c \in Contacts PROVE Untouched(c)
    <3>1. SameRow(calls[c], calls'[c]) /\ Known(c)' = Known(c)
      BY <2>1 DEF SameRow, Known
    <3>2. \/ c \notin pending_bridges' /\ bridge_results'[c] = None
          \/ /\ c \in pending_bridges' <=> c \in pending_bridges
             /\ c \in call_locks' <=> c \in call_locks
             /\ bridge_results'[c] = bridge_results[c]
      BY <1>2 DEF Shutdown
    <3> QED
      BY <3>1, <3>2 DEF Untouched, Quiet, Waiting, CallInv, RowInv
  <2>3. LoopFits(w)'
    BY <2>1, ReadyLoop DEF LoopFits, Bridging, CallInv, LoopInv, Own
  <2>4. {} \in SUBSET Contacts /\ \A c \in pending_bridges \ Own(w) : c \in pending_bridges'
    BY <1>2 DEF Shutdown
  <2>5. cpu'[w].at = "none" /\ \A v \in Workers \ {w} : cpu'[v] = cpu[v] /\ dial'[v] = dial[v]
    BY <2>1
  <2> QED
    BY <2>2, <2>3, <2>4, <2>5, StepFits
<1>3. CASE Restart(w)
  <2>1. UNCHANGED <<calls, cpu, dial, pending_bridges, bridge_results, call_locks, inbox, provider>>
    BY <1>3 DEF Restart, store_vars, bridge_vars, net_vars
  <2> QED
    BY <2>1, SameTasks DEF SameRow, Known
<1>4. CASE DialLoopEnds(w) /\ StoreError(w)
  <2>1. CallsAlone /\ Suspend(w, DialStart)
    BY <1>4 DEF DialLoopEnds, StoreError, CallsAlone, store_vars, bridge_vars, net_vars
  <2>2. DialStart.at \notin BridgeLines /\ DialStart.bridges = {}
    BY DEF DialStart, BridgeLines
  <2> QED
    BY <2>1, <2>2, PlainLoopStep
<1>5. CASE ReaperEnds(w) /\ StoreError(w)
  <2>1. CallsAlone /\ UNCHANGED dial /\ Run(w, Idle) /\ UNCHANGED pending_bridges
    BY <1>5 DEF ReaperEnds, StoreError, CallsAlone, store_vars, bridge_vars, net_vars
  <2>2. ~Bridging(w) /\ Idle.at = "none"
    BY <1>5, ReadyLoop DEF ReaperEnds, Ready, Idle
  <2>3. \A c \in Contacts : Untouched(c)
    BY <2>1, AloneUntouched
  <2> QED
    BY <2>1, <2>2, <2>3, ResumedTask
<1>6. ASSUME NEW c \in Contacts, LoseEvent(w, c) PROVE CallInv' /\ Forward
  <2>1. /\ UNCHANGED <<calls, cpu, dial, pending_bridges, bridge_results, call_locks, provider>>
        /\ inbox[c] # <<>> /\ inbox' = [inbox EXCEPT ![c] = Tail(@)]
    BY <1>6 DEF LoseEvent, store_vars, bridge_vars
  <2>2. \A b \in Contacts : SameRow(calls[b], calls'[b]) /\ (Known(b)' => Known(b))
    BY <2>1 DEF SameRow, Known, DialerInv, DialerTypeOK
  <2> QED
    BY <2>1, <2>2, SameTasks
<1> QED
  BY <1>1, <1>2, <1>3, <1>4, <1>5, <1>6 DEF Trouble, StoreError

LEMMA StepKeepsCallInv ==
  ASSUME DialerInv, DialerInv', CallInv, ReportInv, [Next]_vars
  PROVE  CallInv' /\ Forward
<1>1. ASSUME NEW w \in Workers, Worker(w) PROVE CallInv' /\ Forward
  <2>1. CASE WrapUpTask(w)
    <3>1. UNCHANGED <<calls, cpu, dial, pending_bridges, bridge_results, call_locks, inbox, provider>>
      BY <2>1 DEF WrapUpTask, WrapUp, WrapUpRelease, bridge_vars, net_vars
    <3> QED
      BY <3>1, SameTasks DEF SameRow, Known
  <2> QED
    BY <1>1, <2>1, LoopKeepsCallInv, ProceedFits, ReaperFits, EventFits, WaitFits DEF Worker
<1>2. ASSUME NEW w \in Workers, Trouble(w) PROVE CallInv' /\ Forward
  BY <1>2, TroubleFits
<1>3. ASSUME NEW c \in Contacts, Provider(c) PROVE CallInv' /\ Forward
  <2>1. UNCHANGED <<calls, cpu, dial, pending_bridges, bridge_results, call_locks>>
    BY <1>3 DEF Provider, store_vars, bridge_vars
  <2>2. PICK step, next, events : step \in {"placed", "rung", "answered"} /\ Emit(c, step, next, events)
    BY <1>3 DEF Provider, ProviderStep, ProviderBStep
  <2>3. \A b \in Contacts : SameRow(calls[b], calls'[b]) /\ (Known(b)' => Known(b))
    BY <2>1, <2>2 DEF Emit, SameRow, Known, DialerInv, DialerTypeOK
  <2> QED
    BY <2>1, <2>3, SameTasks
<1>4. CASE Time \/ UNCHANGED vars
  <2>1. UNCHANGED <<cpu, dial, pending_bridges, bridge_results, call_locks, inbox, provider>>
    BY <1>4 DEF Time, vars, dialer_vars, bridge_vars, net_vars
  <2>2. \A c \in Contacts : SameRow(calls[c], calls'[c])
    <3>1. CASE UNCHANGED vars
      BY <3>1 DEF vars, store_vars, SameRow
    <3>2. ASSUME Time, NEW c \in Contacts PROVE SameRow(calls[c], calls'[c])
      <4>1. calls'[c] = Aged(calls[c]) /\ calls[c] \in CallRow
        BY <3>2 DEF Time, Tick, DialerInv, StoreTypeOK
      <4> QED
        BY <4>1 DEF Aged, SameRow, CallRow
    <3> QED
      BY <1>4, <3>1, <3>2
  <2> QED
    BY <2>1, <2>2, SameTasks DEF Known
<1> QED
  BY <1>1, <1>2, <1>3, <1>4 DEF Next

-----------------------------------------------------------------------------
(* Theorems *)

LEMMA InitCallInv == Init => CallInv /\ ReportInv
<1> SUFFICES ASSUME Init PROVE CallInv /\ ReportInv
  OBVIOUS
<1>1. ReportInv
  BY DEF Init, ReportInv, ToReport, Idle
<1>2. FrameInv
  BY DEF Init, FrameInv, Fits, OnCall, Idle
<1>3. LoopInv
  BY DEF Init, LoopInv, Bridging, DialStart
<1>4. RowInv
  BY DEF Init, StoreInit, RowInv, RowFits, Waiting, Known, NoCall
<1> QED
  BY <1>1, <1>2, <1>3, <1>4 DEF CallInv

THEOREM CallInvariant == Spec => []CallInv
BY InitCallInv, StepKeepsCallInv, StepReports, DialerInvariant, PTL DEF Spec

\* A call that waits for its bridge has its handler suspended under the call's lock,
\* or has timed out: among any number of workers, and through their crashes.
THEOREM WaitingCallsAreLocked == Spec => []WaitingCallIsLocked
<1>1. CallInv => WaitingCallIsLocked
  BY DEF CallInv, RowInv, RowFits, Waiting, WaitingCallIsLocked
<1> QED
  BY <1>1, CallInvariant, PTL

\* No step takes any call back to an earlier state, although handlers decide on what
\* they read before they waited, and reapers and other handlers write in between.
THEOREM NoCallMovesBack == Spec => CallsOnlyMoveForward
<1>1. Forward => [\A c \in Contacts : CALL_STATE_RANK[calls'[c].state] >= CALL_STATE_RANK[calls[c].state]]_vars
  BY DEF Forward
<1> QED
  BY <1>1, InitCallInv, StepKeepsCallInv, StepReports, DialerInvariant, PTL
     DEF Spec, CallsOnlyMoveForward

-----------------------------------------------------------------------------
(* A call that was given up for lack of an agent *)

Silent(c) == inbox[c] = <<>> /\ provider[c] \in {"none", "done"}

\* Its handler is about to fail it, or has died and nobody will hear of it again.
GivenUp(c) ==
  \/ \E v \in Workers : cpu[v].at = "abandon" /\ cpu[v].call = c
  \/ Silent(c) /\ \A v \in Workers : cpu[v].at \in OnCall => cpu[v].call # c

AbandonFits(c) ==
  /\ ~calls[c].connected
  /\ calls[c].state = "FAILED" \/ (calls[c].state = "ANSWERED" /\ GivenUp(c))

AbandonInv == \A c \in abandoned : AbandonFits(c)

\* A call that is finished gets no agent any more.
LEMMA ConnectedStays ==
  ASSUME StoreTypeOK, [StoreNext]_store_vars, NEW c \in Contacts, Finished(c)
  PROVE  calls'[c].connected = calls[c].connected
<1> USE DEF StoreTypeOK, CallRow
<1>1. ASSUME NEW d \in Contacts, NEW a \in Agents \cup {None}, NEW w \in Workers, CreateCall(d, a, w)
      PROVE  calls'[c].connected = calls[c].connected
  <2>1. NoCall.state \notin TERMINAL_CALL_STATES
    BY DEF NoCall, TERMINAL_CALL_STATES
  <2> QED
    BY <1>1, <2>1 DEF CreateCall, Finished
<1>2. ASSUME NEW d \in Contacts, NEW a \in Agents, AttachAgentToCall(d, a)
      PROVE  calls'[c].connected = calls[c].connected
  BY <1>2 DEF AttachAgentToCall
<1>3. ASSUME NEW d \in Contacts, NEW lease \in Leases, MarkCallInitiated(d, lease)
      PROVE  calls'[c].connected = calls[c].connected
  BY <1>3 DEF MarkCallInitiated
<1>4. ASSUME NEW d \in Contacts, NEW s \in CallState \ {"QUEUED"},
             NEW r \in FailureReason \cup {None}, NEW lease \in Leases,
             ApplyCallTransition(d, s, r, lease)
      PROVE  calls'[c].connected = calls[c].connected
  BY <1>4 DEF ApplyCallTransition, CanApply, Finished
<1>5. ASSUME NEW S \in SUBSET ReclaimableCalls, ReclaimExpiredCallLeases(S)
      PROVE  calls'[c].connected = calls[c].connected
  BY <1>5 DEF ReclaimExpiredCallLeases, TimedOut
<1>6. CASE CallMethod
  BY <1>1, <1>2, <1>3, <1>4, <1>5, <1>6 DEF CallMethod
<1>7. CASE Tick
  BY <1>7 DEF Tick, Aged
<1> QED
  BY <1>6, <1>7 DEF StoreNext, store_vars

\* A worker that is not giving up c, and does not take it up, changes nothing in that.
LEMMA StaysGivenUp ==
  ASSUME NEW w \in Workers, NEW c \in Contacts, GivenUp(c), Silent(c) => Silent(c)',
         \A v \in Workers \ {w} : cpu'[v] = cpu[v],
         cpu[w].at = "abandon" => cpu[w].call # c,
         cpu'[w].at \in OnCall => cpu'[w].call # c
  PROVE  GivenUp(c)'
BY DEF GivenUp

\* What a handler or the reaper does to the calls it has not in hand.
LEMMA ProceedElsewhere ==
  ASSUME DialerInv, NEW w \in Workers, Proceed(w), NEW c \in Contacts,
         cpu[w].at \in OnCall => cpu[w].call # c
  PROVE  /\ calls'[c] = calls[c] /\ UNCHANGED net_vars
         /\ \A v \in Workers \ {w} : cpu'[v] = cpu[v]
         /\ cpu'[w].at \in OnCall => cpu'[w].call # c
<1> DEFINE f == cpu[w]
<1>0. f \in Frames /\ UNCHANGED net_vars
  BY DEF Proceed, DialerInv, GoodFrames
<1>1. PICK g : Run(w, g)
  BY DEF Proceed, BridgeOwnAgent, Apply, MarkAnswered, MarkConnected, ReleaseBridged, MarkUnanswered,
         MarkAbandoned, OnCallTerminal, FreeCallAgent, ReapCallAgent, ReapAgents, Return
<1>2. cpu'[w] = g /\ \A v \in Workers \ {w} : cpu'[v] = cpu[v]
  BY <1>1 DEF Run, DialerInv
<1>3. calls'[c] = calls[c]
  <2>1. CASE f.at \in OnCall
    BY <2>1 DEF Proceed, BridgeOwnAgent, Apply, MarkAnswered, MarkConnected, ReleaseBridged, MarkUnanswered,
                MarkAbandoned, OnCallTerminal, FreeCallAgent, ReapCallAgent, ReapAgents, HandlerAt, OnCall,
                ApplyCallTransition, DialerInv, StoreTypeOK
  <2>2. CASE f.at \notin OnCall
    BY <2>2 DEF Proceed, BridgeOwnAgent, Apply, MarkAnswered, MarkConnected, ReleaseBridged, MarkUnanswered,
                MarkAbandoned, OnCallTerminal, FreeCallAgent, ReapCallAgent, ReapAgents, HandlerAt, OnCall
  <2> QED
    BY <2>1, <2>2
<1>4. cpu'[w].at \in OnCall => cpu'[w].call # c
  <2>1. Idle.at \notin OnCall /\ \A todo : Reaper(todo).at \notin OnCall
    BY DEF Idle, Reaper, OnCall
  <2>2. ASSUME Return(w) PROVE cpu'[w].at \notin OnCall
    BY <2>1, <2>2 DEF Return, Run, DialerInv
  <2>3. ASSUME NEW at, Run(w, [f EXCEPT !.at = at])
        PROVE  cpu'[w].at = at /\ cpu'[w].call = f.call
    BY <1>0, <2>3 DEF Run, DialerInv, Frames
  <2>4. ASSUME NEW at, NEW a, Run(w, [f EXCEPT !.at = at, !.agent = a])
        PROVE  cpu'[w].at = at /\ cpu'[w].call = f.call
    BY <1>0, <2>4 DEF Run, DialerInv, Frames
  <2>5. ASSUME NEW d, NEW a, NEW todo,
               Run(w, [f EXCEPT !.at = "terminal", !.call = d, !.agent = a, !.todo = todo])
        PROVE  cpu'[w].at = "terminal"
    BY <1>0, <2>5 DEF Run, DialerInv, Frames
  <2>6. CASE BridgeOwnAgent(w)
    BY <2>3, <2>4, <2>6 DEF BridgeOwnAgent, HandlerAt, OnCall
  <2>7. CASE Apply(w)
    BY <2>2, <2>4, <2>7 DEF Apply, HandlerAt, OnCall
  <2>8. CASE MarkAnswered(w)
    BY <2>3, <2>8 DEF MarkAnswered, HandlerAt, OnCall
  <2>9. CASE MarkConnected(w) \/ ReleaseBridged(w) \/ FreeCallAgent(w)
    BY <2>2, <2>9 DEF MarkConnected, ReleaseBridged, FreeCallAgent
  <2>10. CASE MarkUnanswered(w)
    BY <2>2, <2>3, <2>10 DEF MarkUnanswered, HandlerAt, OnCall
  <2>11. CASE MarkAbandoned(w)
    BY <2>2, <2>4, <2>11 DEF MarkAbandoned, HandlerAt, OnCall
  <2>12. CASE OnCallTerminal(w)
    <3>1. Return(w) \/ Run(w, [f EXCEPT !.at = "free"])
      BY <2>12 DEF OnCallTerminal
    <3> QED
      BY <2>2, <2>3, <3>1 DEF OnCall
  <2>13. CASE ReapCallAgent(w)
    <3>1. PICK d \in f.todo :
            Run(w, [f EXCEPT !.at = "terminal", !.call = d, !.agent = calls[d].agent_id, !.todo = @ \ {d}])
      BY <2>13 DEF ReapCallAgent
    <3> QED
      BY <2>5, <3>1 DEF OnCall
  <2>14. CASE ReapAgents(w)
    BY <2>1, <2>14 DEF ReapAgents, Run, DialerInv
  <2> QED
    BY <2>6, <2>7, <2>8, <2>9, <2>10, <2>11, <2>12, <2>13, <2>14 DEF Proceed
<1> QED
  BY <1>0, <1>2, <1>3, <1>4

\* The dial loop leaves a call that is placed as it is, but for its agent.
LEMMA LoopElsewhere ==
  ASSUME DialerInv, CallInv, NEW w \in Workers, DialLoop(w), NEW c \in Contacts,
         calls[c].state \notin {"QUEUED", "RESERVED"}
  PROVE  /\ SameRow(calls[c], calls'[c])
         /\ inbox'[c] = inbox[c] /\ provider'[c] = provider[c]
         /\ cpu[w].at \notin OnCall /\ cpu'[w].at \notin OnCall
         /\ \A v \in Workers \ {w} : cpu'[v] = cpu[v]
<1>1. \E line : DialAt(w, line)
  BY DEF DialLoop, ServeBridges, Dial, ServeNext, BridgeReserve, BridgeBreak, BridgeConnect, BridgeAttach,
         ScanReserve, DialForAgent, DialSpeculative, Claim, ReturnAgent, Create, Assign, Place, PredictiveTick
<1>2. cpu[w].at \notin OnCall
  BY <1>1 DEF DialAt, CallInv, FrameInv, Fits
<1>3. PICK d : Continue(w, d) \/ Suspend(w, d)
  BY DEF DialLoop, ServeBridges, Dial, ServeNext, BridgeReserve, BridgeBreak, BridgeConnect, BridgeAttach,
         ScanReserve, DialForAgent, DialSpeculative, Claim, ReturnAgent, Create, Assign, Place, PredictiveTick,
         BeginScan
<1>4. cpu'[w].at \notin OnCall /\ \A v \in Workers \ {w} : cpu'[v] = cpu[v]
  BY <1>3, LoopMove DEF OnCall
<1>5. SameRow(calls[c], calls'[c]) /\ inbox'[c] = inbox[c] /\ provider'[c] = provider[c]
  <2>1. CASE BridgeAttach(w)
    BY <2>1 DEF BridgeAttach, AttachAgentToCall, SameRow, DialerInv, StoreTypeOK, CallRow,
                DialLoop, ServeBridges, Dial, net_vars, BridgeReserve, BridgeBreak, BridgeConnect,
                DialAt, ServeNext, ScanReserve, DialForAgent, DialSpeculative, Claim, ReturnAgent,
                Create, Assign, Place, PredictiveTick
  <2>2. CASE Create(w)
    <3>1. UNCHANGED net_vars /\ CreateCall(dial[w].call, dial[w].agent, w)
      BY <2>2 DEF Create, net_vars
    <3>2. NoCall.state = "QUEUED"
      BY DEF NoCall
    <3> QED
      BY <3>1, <3>2 DEF CreateCall, SameRow, net_vars, DialerInv, StoreTypeOK
  <2>3. CASE Place(w)
    BY <2>3 DEF Place, MarkCallInitiated, SameRow, DialerInv, DialerTypeOK, StoreTypeOK
  <2>4. CASE ~BridgeAttach(w) /\ ~Create(w) /\ ~Place(w)
    <3>1. UNCHANGED calls /\ UNCHANGED net_vars
      BY <2>4 DEF DialLoop, ServeBridges, Dial, ServeNext, BridgeReserve, BridgeBreak, BridgeConnect,
                  ScanReserve, DialForAgent, DialSpeculative, Claim, ReturnAgent, Assign, PredictiveTick
    <3> QED
      BY <3>1 DEF SameRow, net_vars
  <2> QED
    BY <2>1, <2>2, <2>3, <2>4
<1> QED
  BY <1>2, <1>4, <1>5

LEMMA GivenUpStep ==
  ASSUME DialerInv, DialerInv', CallInv, [Next]_vars, NEW c \in Contacts,
         ~calls[c].connected, calls[c].state = "ANSWERED", GivenUp(c)
  PROVE  AbandonFits(c)'
<1>0. ~Waiting(c) /\ ~Finished(c)
  BY DEF CallInv, RowInv, RowFits, Finished, TERMINAL_CALL_STATES
<1>a. SameRow(calls[c], calls'[c]) /\ GivenUp(c)' => AbandonFits(c)'
  BY DEF AbandonFits, SameRow
<1>b. ReapedRow(calls[c], calls'[c]) => AbandonFits(c)'
  BY DEF AbandonFits, ReapedRow
<1>c. UNCHANGED cpu /\ (Silent(c) => Silent(c)') => GivenUp(c)'
  BY DEF GivenUp
<1>d. ASSUME NEW v \in Workers, cpu[v].at \in OnCall, cpu[v].call = c
      PROVE  calls[c].reserved_by = v
  BY <1>0, <1>d, OneTask DEF OnCall
<1>e. UNCHANGED net_vars => (Silent(c) => Silent(c)')
  BY DEF net_vars, Silent
<1>1. ASSUME NEW w \in Workers, DialLoop(w) PROVE AbandonFits(c)'
  <2>1. /\ SameRow(calls[c], calls'[c])
        /\ inbox'[c] = inbox[c] /\ provider'[c] = provider[c]
        /\ cpu[w].at \notin OnCall /\ cpu'[w].at \notin OnCall
        /\ \A v \in Workers \ {w} : cpu'[v] = cpu[v]
    BY <1>1, LoopElsewhere
  <2>2. GivenUp(c)'
    BY <2>1, StaysGivenUp DEF Silent, OnCall
  <2> QED
    BY <1>a, <2>1, <2>2
<1>2. ASSUME NEW w \in Workers, Proceed(w) PROVE AbandonFits(c)'
  <2>1. CASE cpu[w].at \in OnCall /\ cpu[w].call = c
    <3>1. cpu[w].at = "abandon"
      BY <1>d, <2>1 DEF GivenUp, OnCall
    <3>2. MarkAbandoned(w)
      BY <1>2, <3>1 DEF Proceed, BridgeOwnAgent, Apply, MarkAnswered, MarkConnected, ReleaseBridged,
                        MarkUnanswered, OnCallTerminal, FreeCallAgent, ReapCallAgent, ReapAgents, HandlerAt
    <3>3. ApplyCallTransition(c, "FAILED", "abandoned_no_agent", CallLease)
      BY <1>0, <2>1, <3>2 DEF MarkAbandoned, CanApply, Finished
    <3>4. calls'[c].state = "FAILED" /\ calls'[c].connected = calls[c].connected
      BY <3>3, AppliedRow DEF EventType, DialerInv
    <3> QED
      BY <3>4 DEF AbandonFits
  <2>2. CASE ~(cpu[w].at \in OnCall /\ cpu[w].call = c)
    <3>1. /\ calls'[c] = calls[c] /\ UNCHANGED net_vars
          /\ \A v \in Workers \ {w} : cpu'[v] = cpu[v]
          /\ cpu'[w].at \in OnCall => cpu'[w].call # c
      BY <1>2, <2>2, ProceedElsewhere
    <3>2. GivenUp(c)'
      BY <1>e, <2>2, <3>1, StaysGivenUp DEF OnCall
    <3> QED
      BY <1>a, <3>1, <3>2 DEF SameRow
  <2> QED
    BY <2>1, <2>2
<1>3. ASSUME NEW w \in Workers, WrapUpTask(w) PROVE AbandonFits(c)'
  BY <1>3, <1>a, <1>c, <1>e DEF WrapUpTask, WrapUp, WrapUpRelease, SameRow
<1>4. ASSUME NEW w \in Workers, ReaperPass(w) PROVE AbandonFits(c)'
  <2> PICK S \in SUBSET ReclaimableCalls : ReclaimExpiredCallLeases(S) /\ Run(w, Reaper(S))
    BY <1>4 DEF ReaperPass, ReapCalls
  <2>1. SameRow(calls[c], calls'[c]) \/ ReapedRow(calls[c], calls'[c])
    BY ReapedRows DEF DialerInv, SameRow, ReapedRow
  <2>2. cpu[w].at \notin OnCall /\ cpu'[w].at \notin OnCall /\ \A v \in Workers \ {w} : cpu'[v] = cpu[v]
    BY <1>4 DEF ReaperPass, ReapCalls, Ready, Run, Idle, Reaper, OnCall, DialerInv
  <2>3. UNCHANGED net_vars
    BY <1>4 DEF ReaperPass
  <2>4. GivenUp(c)'
    BY <1>e, <2>2, <2>3, StaysGivenUp DEF OnCall
  <2> QED
    BY <1>a, <1>b, <2>1, <2>4
<1>5. ASSUME NEW w \in Workers, NEW d \in Contacts, EventTask(w, d) PROVE AbandonFits(c)'
  <2>1. /\ cpu[w] = Idle /\ d \in Own(w) /\ inbox[d] # <<>>
        /\ inbox' = [inbox EXCEPT ![d] = Tail(@)]
        /\ UNCHANGED <<calls, provider>>
    BY <1>5 DEF EventTask, HandleDuplicate, HandleStale, HandleEvent, HandleAnswered, Deliver, Ready
  <2>2. Idle.at \notin OnCall
    BY DEF Idle, OnCall
  <2>3. d # c
    BY <1>d, <2>1, <2>2 DEF GivenUp, Silent, Own, OnCall
  <2>4. Silent(c) => Silent(c)'
    BY <2>1, <2>3 DEF Silent, DialerInv, DialerTypeOK
  <2>5. UNCHANGED cpu \/ \E at, a, target : Run(w, Handler(at, d, a, target))
    BY <1>5 DEF EventTask, HandleDuplicate, HandleStale, HandleEvent, HandleAnswered
  <2>6. \A at, a, target : Handler(at, d, a, target).call = d
    BY DEF Handler, Idle
  <2>7. (\A v \in Workers \ {w} : cpu'[v] = cpu[v]) /\ (cpu'[w].at \in OnCall => cpu'[w].call # c)
    BY <2>1, <2>2, <2>3, <2>5, <2>6 DEF Run, DialerInv
  <2>8. GivenUp(c)'
    BY <2>1, <2>2, <2>4, <2>7, StaysGivenUp DEF OnCall
  <2> QED
    BY <1>a, <2>1, <2>8 DEF SameRow
<1>6. ASSUME NEW w \in Workers, NEW d \in Contacts, BridgeWait(w, d) PROVE AbandonFits(c)'
  <2>1. cpu[w] = Idle /\ Waiting(d) /\ UNCHANGED calls /\ UNCHANGED net_vars
    BY <1>6 DEF BridgeWait, BridgeFound, BridgeTimeout, Ready, Waiting, store_vars
  <2>2. d # c /\ Idle.at \notin OnCall
    BY <1>0, <2>1 DEF Idle, OnCall
  <2>3. PICK at, a, target : Run(w, Handler(at, d, a, target))
    BY <1>6 DEF BridgeWait, BridgeFound, BridgeTimeout
  <2>4. Handler(at, d, a, target).call = d
    BY DEF Handler, Idle
  <2>5. (\A v \in Workers \ {w} : cpu'[v] = cpu[v]) /\ cpu'[w].call # c
    BY <2>2, <2>3, <2>4 DEF Run, DialerInv
  <2>6. GivenUp(c)'
    BY <1>e, <2>1, <2>2, <2>5, StaysGivenUp DEF OnCall
  <2> QED
    BY <1>a, <2>1, <2>6 DEF SameRow
<1>7. ASSUME NEW w \in Workers, Trouble(w) PROVE AbandonFits(c)'
  <2>1. SameRow(calls[c], calls'[c])
    BY <1>7, TroubleKeepsInv DEF store_vars, SameRow
  <2>2. ASSUME Vanish(w) PROVE GivenUp(c)'
    <3>1. cpu'[w].at \notin OnCall /\ \A v \in Workers \ {w} : cpu'[v] = cpu[v]
      BY <2>2 DEF Vanish, DialerInv, Idle, OnCall
    <3>2. CASE c \in Own(w)
      <4>1. Silent(c)'
        BY <2>2, <3>2 DEF Vanish, Silent
      <4>2. \A v \in Workers : cpu'[v].at \in OnCall => cpu'[v].call # c
        BY <1>d, <3>1, <3>2 DEF Own
      <4> QED
        BY <4>1, <4>2 DEF GivenUp
    <3>3. CASE c \notin Own(w)
      <4>1. Silent(c) => Silent(c)'
        BY <2>2, <3>3 DEF Vanish, Silent
      <4>2. cpu[w].at = "abandon" => cpu[w].call # c
        BY <1>d, <3>3 DEF Own, OnCall
      <4> QED
        BY <3>1, <4>1, <4>2, StaysGivenUp
    <3> QED
      BY <3>2, <3>3
  <2>3. ASSUME Shutdown(w) \/ Restart(w) PROVE GivenUp(c)'
    BY <1>c, <1>e, <2>3 DEF Shutdown, Restart
  <2>4. ASSUME StoreError(w) PROVE GivenUp(c)'
    <3>1. Run(w, Idle) /\ UNCHANGED net_vars /\ cpu[w].at \notin OnCall
      <4>1. cpu[w].task \in {"none", "dial", "reap"} /\ Run(w, Idle)
        BY <2>4 DEF StoreError, DialLoopEnds, ReaperEnds, DialAt, Suspend, Run, Ready, Idle
      <4> QED
        BY <2>4, <4>1 DEF StoreError, CallInv, FrameInv, Fits
    <3>2. cpu'[w].at \notin OnCall /\ \A v \in Workers \ {w} : cpu'[v] = cpu[v]
      BY <3>1 DEF Run, Idle, OnCall, DialerInv
    <3> QED
      BY <1>e, <3>1, <3>2, StaysGivenUp DEF OnCall
  <2>5. ASSUME NEW d \in Contacts, LoseEvent(w, d) PROVE GivenUp(c)'
    <3>1. Silent(c) => Silent(c)'
      BY <2>5 DEF LoseEvent, Silent, DialerInv, DialerTypeOK
    <3> QED
      BY <1>c, <2>5, <3>1 DEF LoseEvent
  <2>6. GivenUp(c)'
    BY <1>7, <2>2, <2>3, <2>4, <2>5 DEF Trouble, Crash, Exit
  <2> QED
    BY <1>a, <2>1, <2>6
<1>8. ASSUME NEW d \in Contacts, Provider(d) PROVE AbandonFits(c)'
  <2>1. PICK step, next, events : step \in {"placed", "rung", "answered"} /\ Emit(d, step, next, events)
    BY <1>8 DEF Provider, ProviderStep, ProviderBStep
  <2>2. Silent(c) => Silent(c)'
    BY <2>1 DEF Emit, Silent, DialerInv, DialerTypeOK
  <2>3. UNCHANGED <<cpu, calls>>
    BY <1>8 DEF Provider, store_vars
  <2> QED
    BY <1>a, <1>c, <2>2, <2>3 DEF SameRow
<1>9. CASE Time \/ UNCHANGED vars
  <2>1. UNCHANGED cpu /\ UNCHANGED net_vars
    BY <1>9 DEF Time, vars, dialer_vars
  <2>2. SameRow(calls[c], calls'[c])
    <3>1. CASE UNCHANGED vars
      BY <3>1 DEF vars, store_vars, SameRow
    <3>2. CASE Time
      <4>1. calls'[c] = Aged(calls[c]) /\ calls[c] \in CallRow
        BY <3>2 DEF Time, Tick, DialerInv, StoreTypeOK
      <4> QED
        BY <4>1 DEF Aged, SameRow, CallRow
    <3> QED
      BY <1>9, <3>1, <3>2
  <2> QED
    BY <1>a, <1>c, <1>e, <2>1, <2>2
<1> QED
  BY <1>1, <1>2, <1>3, <1>4, <1>5, <1>6, <1>7, <1>8, <1>9 DEF Next, Worker

\* The step that gives a call up leaves it to the handler, or finds it timed out.
LEMMA GivesUp ==
  ASSUME DialerInv, DialerInv', CallInv, NEW w \in Workers, MarkUnanswered(w),
         NEW c \in Contacts, c = cpu[w].call
  PROVE  AbandonFits(c)'
<1>1. cpu[w].at = "unanswered" /\ cpu[w].at \in OnCall /\ cpu[w] \in Frames
  BY DEF MarkUnanswered, HandlerAt, OnCall, DialerInv, GoodFrames
<1>2. calls[c].state \in {"INITIATED", "RINGING", "FAILED"} /\ ~calls[c].connected
  BY <1>1, AtWork DEF Fits
<1>3. CASE ApplyCallTransition(c, "ANSWERED", None, CallLease)
  <2>1. calls'[c].state = "ANSWERED" /\ calls'[c].connected = calls[c].connected /\ ~Finished(c)
    BY <1>3, AppliedRow DEF EventType, DialerInv
  <2>2. Run(w, [cpu[w] EXCEPT !.at = "abandon"])
    BY <1>3 DEF MarkUnanswered, ApplyCallTransition
  <2>3. cpu'[w].at = "abandon" /\ cpu'[w].call = c
    BY <1>1, <2>2 DEF Run, DialerInv, Frames
  <2> QED
    BY <1>2, <2>1, <2>3 DEF AbandonFits, GivenUp
<1>4. CASE ~CanApply(c) /\ UNCHANGED calls
  BY <1>2, <1>4 DEF CanApply, AbandonFits, TERMINAL_CALL_STATES
<1> QED
  BY <1>3, <1>4 DEF MarkUnanswered

LEMMA StepAbandons ==
  ASSUME DialerInv, DialerInv', CallInv, AbandonInv, [Next]_vars
  PROVE  AbandonInv'
<1>0. [StoreNext]_store_vars
  BY StepKeepsInv
<1>1. ASSUME NEW c \in abandoned PROVE AbandonFits(c)'
  <2>1. c \in Contacts /\ AbandonFits(c)
    BY DEF DialerInv, DialerTypeOK, AbandonInv
  <2>2. CASE calls[c].state = "FAILED"
    <3>1. Finished(c)
      BY <2>2 DEF Finished, TERMINAL_CALL_STATES
    <3>2. calls'[c].state = calls[c].state /\ calls'[c].connected = calls[c].connected
      BY <1>0, <2>1, <3>1, FinishedStays, ConnectedStays DEF DialerInv
    <3> QED
      BY <2>1, <2>2, <3>2 DEF AbandonFits
  <2>3. CASE calls[c].state = "ANSWERED"
    BY <2>1, <2>3, GivenUpStep DEF AbandonFits
  <2> QED
    BY <2>1, <2>2, <2>3 DEF AbandonFits
<1>2. \/ abandoned' = abandoned
      \/ \E w \in Workers : MarkUnanswered(w) /\ abandoned' = abandoned \cup {cpu[w].call}
  <2>1. ASSUME NEW w \in Workers, Proceed(w)
        PROVE  abandoned' = abandoned \/ (MarkUnanswered(w) /\ abandoned' = abandoned \cup {cpu[w].call})
    BY <2>1 DEF Proceed, BridgeOwnAgent, Apply, MarkAnswered, MarkConnected, ReleaseBridged, MarkUnanswered,
                MarkAbandoned, OnCallTerminal, FreeCallAgent, ReapCallAgent, ReapAgents, stats_vars
  <2>2. ASSUME NEW w \in Workers, Worker(w), ~Proceed(w) PROVE UNCHANGED abandoned
    BY <2>2 DEF Worker, DialLoop, WrapUpTask, WrapUp, WrapUpRelease, ReaperPass, ReapCalls, EventTask,
                BridgeWait, stats_vars
  <2>3. ASSUME NEW w \in Workers, Trouble(w) PROVE UNCHANGED abandoned
    BY <2>3 DEF Trouble, Crash, Exit, Vanish, Shutdown, Restart, StoreError, LoseEvent, stats_vars
  <2>4. ASSUME NEW c \in Contacts, Provider(c) PROVE UNCHANGED abandoned
    BY <2>4 DEF Provider, stats_vars
  <2>5. Time \/ UNCHANGED vars => UNCHANGED abandoned
    BY DEF Time, vars, dialer_vars, stats_vars
  <2> QED
    BY <2>1, <2>2, <2>3, <2>4, <2>5 DEF Next
<1>3. ASSUME NEW c \in abandoned' \ abandoned PROVE AbandonFits(c)'
  <2> PICK w \in Workers : MarkUnanswered(w) /\ c = cpu[w].call
    BY <1>2, <1>3
  <2> QED
    BY GivesUp DEF MarkUnanswered, HandlerAt, DialerInv, GoodFrames
<1> QED
  BY <1>1, <1>3 DEF AbandonInv

\* A call given up for lack of an agent never gets to talk to one, whatever its
\* provider still says of it and whoever crashes and comes back.
THEOREM AbandonedStayApart == Spec => []AbandonedNeverConnected
<1>1. Init => AbandonInv
  BY DEF Init, AbandonInv
<1>2. AbandonInv => AbandonedNeverConnected
  BY DEF AbandonInv, AbandonFits, AbandonedNeverConnected
<1> QED
  BY <1>1, <1>2, StepAbandons, CallInvariant, DialerInvariant, PTL DEF Spec

=============================================================================
