# A verification of smartdialer

TLA+ models, TLC runs and TLAPS proofs for `src/smartdialer`: an outbound
dialer whose worker processes share one SQLite store and talk to flaky telecom
providers.  `PROJECT.json` maps every definition to the lines it stands for.

## 1. Inventory

| Part | State | Operations | What makes it correct |
|---|---|---|---|
| State machines (`state_machines.py`, `models.py`, `events.py`) | none: tables and `reconcile` | validate an agent edge; decide what an event does to a call | an event never moves a call back, a finished call absorbs everything |
| Store (`store.py`) | tables `agents`, `contacts`, `calls`, `seen_events` (and the write-only `reservation_log`) | reserve, transition, force-release, reap agents; claim contacts; create, attach, initiate, apply, reap calls; record events | each method acts as one atomic step although it is several statements; no agent is taken over from its holder; finished calls stay finished |
| Worker (`worker.py`) | dial loop position, `_pending_bridges`, `_bridge_results`, `_call_locks`, background tasks, stats | dial tick, bridging, predictive tick, event handlers, wrap-up, reaper, `run_forever`, `shutdown` | agents and calls stay paired, each outcome is reported once, every call ends and every agent comes back |
| Providers (`providers/`) | event queue, one task per call | `place_call`, emit events | they may repeat, reorder and drop: the worker must cope |
| Safety controller (`dialing/safety_controller.py`) | two windows of outcomes, `pacing_scale` | record outcomes, `evaluate` | approved lines stay within the hard cap and the request; bad spells reduce pacing, and only while they last |
| Predictive engine (`dialing/predictive.py`) | window of outcomes | record, `request` | a recommendation only |
| Progressive dialer (`dialing/progressive.py`) | none | `calls_to_place` | the worker never calls it |
| Clock (`clock.py`) | time | now, sleep | monotonic |
| Simulation and scripts | drivers | seed, run, print | none of the dialer's logic |

Interaction.  Workers never talk to each other: everything they share is in the
store.  A worker calls its provider (`place_call`) and takes the provider's
events from a queue.  Inside a worker, the dial loop, one task per event, the
wrap-up tasks and the reaper are asyncio tasks: they share dictionaries and
switch only at an `await` that suspends.  An event handler that needs an agent
leaves its call in `_pending_bridges` and polls `_bridge_results`, which the dial
loop fills.

What is hard: several processes interleave between any two SQL statements; a
handler decides on what it read before it waited; leases run out under work that
is still going on; a worker may die, hang, be stopped or come back between two writes; the feedback of
finished calls steers how many new ones are placed; a provider may be
silent; the reapers of all workers compete with the handlers.  `hazards` in
`PROJECT.json` lists each at its line.

## 2. Modules

| Module | What it is |
|---|---|
| `StateMachines` | states, transition tables, `Reconcile` |
| `Store` | the store its callers may rely on: one atomic step per method, any client |
| `StoreSql` | the SQL statements behind the methods, with versions and `lease_expires_at`; implements `Store` through a refinement mapping |
| `Dialer` | workers, providers, clock, and what can go wrong with a worker: the client of `Store` |
| `Admission` | the arithmetic of engine and controller: rates over a window, rounding, the hard cap |
| `Pacing` | the predictive feedback loop of one worker: engine, controller, and what its lines report back |
| `StoreProofs`, `PacingProofs` | theorems about `Store` and about `Pacing` |
| `StoreSqlProofs` | the SQL statements implement `Store`; the lost CAS; the in-flight count |
| `DialerProofs` | types of `Dialer`, that it implements `Store`; who claims a contact, who reports the end of a call |
| `DialerBridgeProofs` | what a handler may rely on while it works on a call or waits for a bridge |
| `DialerBookingProofs` | the books of agents and calls agree, whatever fails |
| `DialerAgentProofs` | agents and calls stay paired while leases outlast the work |
| `DialerProgressiveProofs` | progressive mode abandons nobody and leaves no agent behind |
| `MCStoreSql`, `MCDialer`, `MCPacing` | instances for TLC |

`Dialer` extends `Store` and `Admission`; `Pacing` extends `Admission`; `StoreSql` has
`Store` as the instance `Abstract`.

### Store

Each operator has the name of the method and the condition under which its write
takes effect.  A lease is the number of ticks left: `lease_expires_at < now` is
lease 0, NULL is `NoLease`.  `version`, phone numbers, ids of provider calls and
timestamps (beyond NULL or not) are abstracted away; a contact is claimed once,
so its call has its name.  `StoreNext` lets any client call any method with any
argument, so what holds of `StoreSpec` holds whatever the workers do.

### StoreSql

A read-then-write method is a `Select...` action, that keeps what it read in
`op[w]`, and an `Update...` action with the WHERE clause of the source.  SQLite
serialises single statements and nothing more: other connections and the clock
come in between.  `ImplementsStore` says that the whole is `StoreSpec` again.
Refinement is what justifies one step per method in `Dialer`.  The five SELECTs by
which `_predictive_tick` counts its lines in flight are here too, one action each
(`SelectFirstState`, `SelectNextState`, `UseCount`); `opened` remembers the lines that
were open when the count began.

### Dialer

One action is one store method.  `cpu[w]` is the task that runs in worker `w`
until it suspends: actions of the same worker interleave at the suspension points
only (`asyncio.sleep(0)` after each unit of work, `clock.sleep`, the lock), those
of different workers anywhere.  `dial[w]` is the dial loop with its locals; the
sleeping handlers are `pending_bridges` and `bridge_results`; `call_locks` holds the
calls whose lock a sleeping handler has (a handler that does not sleep gives its
lock back before anyone could see it).  The reaper's `_call_locks.pop` is
`Return` in `OnCallTerminal`.  `outcomes` counts the calls of `_on_call_terminal`
per call, the record both pacing statistics are built from; `abandoned` is the set
behind `stats["abandoned"]`.

What can go wrong with a worker is `Trouble`, and the constants say which of it and
to whom: `Faults` (a subset of crash, restart, shutdown, store_error), `Fragile` (the
workers it may happen to), `MaxFaulty` (how many may be in trouble at a time).

- `Crash` loses the worker's memory and its provider, so no event of its calls comes
  any more; its rows stay.
- `Restart` is `run_forever` again under the same worker id over the same store: the
  worker owns the calls and agents of its former life and has none of their tasks.
- `Shutdown` cancels the handlers and wrap-ups that sleep, and takes `_running` away;
  the loops end where they ask for it, so the dial loop finishes its tick and may
  place more calls.  `Exit` is the caller's cancellation of `run_forever`, which may
  come wherever the loops sleep.  Events may be lost from then on (`LoseEvent`); that
  some are still handled is a superset of the code, where the event loop stops too.
- `StoreError`: `_execute_retrying` gives up and raises; `gather` in `run_forever` hands
  the exception to its caller, and the other loops of that worker run on without the
  one that raised (`ended`).  Only loops end this way here, not single handlers.

Abstractions, all of them supersets of what the code does unless said otherwise:

- the order in which `list_agents` and `claim_contact` return rows is left open;
- a provider's delays, and the poll, reaper and wrap-up intervals, are left open:
  each step may come at any time;
- `bridge_grace_seconds` is left open: a waiting handler may give up whenever it
  wakes up;
- the pacing decision is any number of lines up to `HardCap` for the lines in flight,
  whatever the statistics say (`ApprovedCalls`); `Pacing` says which; the lines in
  flight are counted in one read here (narrower than the code: see `StoreSql`);
- the events of a call are handled in the order they were emitted, which the
  queue and the fair lock give; the events of different calls are not ordered;
- operations of a human operator (PAUSED, OFFLINE) have no caller in the code and
  do not occur in `Dialer`; `Store` allows them.

### Admission and Pacing

`Admission` has Python's `round` (a tie goes to the even number), the two clamps at
zero and the bounded `deque`, over exact fractions instead of floats.

In `Pacing` calls and agents are anonymous: `dialing`, `ringing`, `waiting`, `talking`
count the lines at each stage, `wrapping` the agents in their wrap-up.  `outcomes` is
the engine's window, `abandon_outcomes` and `provider_errors` are the controller's.
`Evaluate` is `_predictive_tick` with `request` and `evaluate`, in the order of the
source: the samples, the circuit breaker, then the ratchet, and only then the
critical cutover, so that the scale moves even on a tick that falls back.  `extra` is
what is left of the loop over the approved calls, which is placed one by one while
lines and agents go on changing.  What is taken for granted:

- one worker, and a headcount that does not change;
- leases outlast a ring and a bridge, so an agent's own call finds its agent
  (what happens otherwise is `Dialer`'s subject), and the reaper takes this worker's
  silent calls only;
- the order of the parts of one tick is not fixed (a superset), but no bridge and no
  baseline dial comes into the loop over the approved calls, as in the source;
- `pacing_scale` is an integer number of steps of `1 / ScaleUnit`, and a step of the
  ratchet is rounded down; `ScaleAssumption` says that a step up goes up all the same.

Definitions whose comment starts with "A wrong" are defective variants of the
definition that follows.  Nothing uses them: each stands for a plausible bug and
is there to show that the property named with it in `PROJECT.json` would find it.

## 3. Runs

| Run | Instance | Shows |
|---|---|---|
| `sql_store` | 2 connections, 1 agent, 1 contact, one row at a time, 4 writes per row, clock to 2 | `ImplementsStore`; `CasLostMeansCallOver`; `CountMissesNoLine`: the five SELECTs are no snapshot, but miss no open line |
| `dialer_progressive` | 2 workers, 2 agents, 2 contacts, provider B, no expiry | `OneLiveCallPerAgent`, `NoAgentTakenOffALiveCall`, `NoAgentLeftOnFinishedCall`, `ProgressiveNeverAbandons` |
| `dialer_leases` | 1 predictive worker, 1 agent, 2 contacts, leases expire | `NoAgentDoubleBooked`, `OutcomeReportedOnce`; `StoreSpec`: the dialer only does what `Store` allows |
| `dialer_crash` | 2 predictive workers, 1 agent, 1 contact, provider B, leases expire, 1 crash | `DialerTypeOK`, `WaitingCallIsLocked`, `AbandonedNeverConnected`, `CallsOnlyMoveForward`, `NoClaimedContactForgotten`; the store's own `StoreTypeOK`, `HolderMatchesState`, `NoHandover`, `TerminalIsSticky` |
| `dialer_liveness` | 1 worker, 1 agent, 1 contact, provider B, leases expire | `EveryCallEnds`, `AgentsComeBack` |
| `dialer_recovery` | 2 workers, 1 agent, 1 contact, leases expire; one worker crashes, restarts, is shut down, loses loops, any number of times | `PlacedCallsEnd`, `HeldAgentsComeBack` |
| `pacing` | 2 agents, engine window 2, controller windows 3, a scale of 8 steps | `PacingTypeOK`, `SpeculationWithinHardCap`, `ControllerOnlyReduces`, `AbandonmentComesDown`, `ScaleRecovers` |

Why these bounds are enough to be interesting: two workers race for every row;
two contacts for one agent let a lapsed reservation meet a second call; a lease
starts whenever its row is written and ends at a later tick, so a call's lease and
its agent's get out of step (calls' last two ticks and agents' one in
`dialer_leases` and `dialer_crash`); with two connections and four writes to a row
a version can be overtaken twice (the state returns to what was read while the
version does not).  In `pacing`, windows of two and three take every rate from
none to all, the rates are such that target, critical rate and breaker are each
crossed by one outcome, two agents make the cap four lines, and eight steps give
the ratchet three moves down to its floor; every history of outcomes occurs,
because no run length bounds it.  `MaxLease`, `MaxTime`, `MaxVersion` and
`MaxFaulty` are the bounds; the number of contacts bounds everything else in
`Dialer`, and the cap bounds `Pacing`.

`sql_store` stops when a bound is reached, hence CHECK_DEADLOCK FALSE.  Its
specification `OneRowSpec` keeps each behaviour to one row (the agent, the call, the
contacts or the events): no method's statements touch two rows, but for the
reapers, whose SELECT takes a snapshot of rows they then update one by one, so
behaviours on different rows do not influence each other.  That the reapers treat
several rows at once is part of `Store` itself and of the `dialer_...` runs, not of
`sql_store`, where a pass has one row.  Symmetry is used in safety runs only.

`dialer_progressive` has `LeasesExpire = FALSE`: it asks what holds while every lease
outlasts the work it covers, as the comment in `campaign.py` asks of the call lease.  The runs with expiry ask what is left when it does not.
`ProgressiveNeverAbandons` is one property that then fails: a reservation that lapses
before the agent's turn in the tick makes `_dial_for_agent` place a call without an
agent, because it ignores the failed transition (`worker.py:216`), and that call is
abandoned on answer.

`AbandonmentComesDown` is what the comment on the cutover promises: the floor of the
ratchet alone would let abandonment stay high, the cutover to progressive does not.
`ScaleRecovers` is the way back: although one abandoned call lowers the scale at each
tick while it stays in the window, full pacing returns once calls stop being
abandoned and timing out, and connected calls push the old outcomes out.

### Where code and documents disagree

| Run | Property | Story |
|---|---|---|
| `lapsed_reservation` | `OneLiveCallPerAgent` | an agent's DIALING lease starts before its call's and is not renewed on RINGING; in the gap the reaper frees the agent of a live call and it is dialed for again |
| `bridge_timeout_race` | `NoAgentLeftOnFinishedCall` | the bridge is found during the handler's last sleep and thrown away; CONNECTED to AVAILABLE is no legal edge, so the agent is left on a failed call until its lease ends |
| `line_overrun` | `OpenLinesWithinHardCap` | two workers count the lines in flight before either has placed its own, and the baseline dials pass no gate |
| `unplaced_call` | `EveryCallEnds` | a crash between `create_call` and `mark_call_initiated` leaves a RESERVED call with no lease, which no reaper selects |
| `stuck_wrap_up` | `ExpiredAgentsAreFreed` | a crash in the wrap-up leaves the agent in WRAP_UP, a state the reaper does not select |

`OneLiveCallPerAgent`, `NoAgentLeftOnFinishedCall` and `EveryCallEnds` are also checked by
passing runs, under the conditions that exclude the story; `PlacedCallsEnd` and
`HeldAgentsComeBack` are what remains true of `EveryCallEnds` and `AgentsComeBack` with
faults.  Even for one worker the baseline dials may take the open lines past the cap
by more than the one line of slack the end-to-end test allows, when many agents come
free while speculative lines ring; `SpeculationWithinHardCap` states what does hold.

## 4. Fairness

`Dialer!FairSpec`: a task that has the cpu runs on (weak fairness of `Proceed`); a task
that is ready again and again gets the cpu, because asyncio resumes ready tasks
first in, first out, while other tasks run in between (strong fairness of the dial
loop, wrap-ups, reaper, events and waiting handlers); provider timers fire and time
passes.  No fault is ever forced, and a provider need not answer.  `RecoverySpec`
assumes less, and only of the workers that are not `Fragile`: running tasks and the
dial loop go on, the reaper gets its turn, time passes.  A fragile worker may hang
for good at any statement.  `Pacing!FairSpec` assumes that the dial loop ticks and
places what was approved, and nothing of callees, agents or providers: what they must
do is in the premises of the two properties.  Liveness is checked by TLC only.

## 5. Proofs

All theorems hold for any sets of workers, agents and contacts and any leases, from the
assumptions named in the modules.  Those about `Dialer` hold in both modes and with all
faults, but for the five whose statements begin with a hypothesis of their own:

| Theorem | Hypothesis | Why the code needs it |
|---|---|---|
| `NeverDoubleBooked` | no restart | a worker that stopped between the two writes of a bridge comes back without knowing of the bridge it began |
| `OneLivePerAgent`, `NobodyTakenOff` | leases do not run out | run `lapsed_reservation` |
| `ProgressiveAbandonsNone` | leases do not run out | a lapsed reservation leads to a line without an agent (section 3) |
| `NobodyLeftBehind` | leases do not run out, progressive mode, no crash or shutdown | run `bridge_timeout_race`; a wrap-up that is cancelled or dies with its worker |

The invariants below were checked by TLC on small instances before they were proved; where
one was not inductive, what it lacked is said with it.

**Store** (`StoreProofs`, from `StoreAssumption`: NULL is no id, leases are positive).
`TypeCorrect` is inductive by itself, one lemma per table; `HolderAlwaysMatches` is
inductive relative to the types.  `ReservationsAreExclusive` needs
`HolderMatchesState`: the UPDATE of `reserve_agent` asks for AVAILABLE only, and that
it never overwrites a holder follows because an available agent has none.
`FinishedCallsStayFinished` has one step per method.

**The SQL statements** (`StoreSqlProofs`, from `SqlAssumption`: NULL is no id, there are
finitely many contacts, the bounds are natural numbers).  `SqlInv` says what a connection
may rely on between its SELECT and its UPDATE: the version it read is never ahead of
the row's, and while the two are equal the row is still as it was read (`AgentSound`,
`ApplySound`); a call whose version moved on under an `apply` is finished, because only
its owner, who is busy, and the reapers write it; the lines a count has passed are
among those it counted (`CountSound`), because calls only move forward.  `StepKeeps` is
the interference argument, once for all statements: any write moves the version of one
row on, so what the other connections hold stays true or becomes void.  From it follow
`LostCasIsOver`, `CountIsSafe` and, statement by statement, `StoreSqlImplementsStore`.
An expired agent that has reached WRAP_UP or AVAILABLE since the reaper's SELECT is the
one case where a statement refines another method than its own: the reaper frees it as
`transition_agent` to AVAILABLE would.

**Pacing** (`PacingProofs`, from `PacingAssumption`: rates are fractions, the engine's
own ratio is at least one line per agent, which is what makes the controller's
scaled ratio at most the engine's; the floor of the scale is at most one).
`PacingInv` is the type together with the cap: that placing a line keeps within the
cap needs that `extra` lines were approved within it, counting those in flight, and that
baseline lines never number more than the agents.  The lemmas on `Round` say that it is a
natural number, monotone in its first argument over a common denominator, and within a
half of the quotient; `AdmissionOnlyReduces` rests on the monotony, for every scale,
not only those the ratchet reaches.

**Dialer, types and refinement** (`DialerProofs`).  `DialerInv` adds to the types what a
task's position says of its locals (`GoodFrames`, `GoodLoops`): a handler that is about
to write has a call, a dial loop that is about to attach has an agent.  With it every
step is a step of `Store` or leaves the tables alone: `DialerUsesStore` is
`Spec => StoreSpec`, so the four theorems above hold of the dialer with all its
crashes, restarts and store errors.

**Dialer, reports and claims** (`DialerProofs`).  `ReportInv` says who has yet to
report a finished call: at most one worker, and only while it is unreported.  A report
becomes due only by the step that finishes the row, and rows finish once
(`FinishedStays`, from the store's theorem).  `ClaimedContactsAreCalled` looks at every
step that could separate a claimed contact from its dial loop.

**Dialer, handlers and bridges** (`DialerBridgeProofs`).  `CallInv` is what a task may
rely on at each of its statements although it read the call earlier: `FrameInv` (the
row fits the statement the task is at), `LoopInv` (a bridge in progress is of a call
of this worker that still waits) and `RowInv` (a waiting call has its handler and its
lock, or was timed out; no event precedes the placing of its call).  The argument, in
`StepFits`: a worker's step changes the calls it has in hand, nobody else is at work
on those (`AloneOnCall`: the tasks of a call belong to its owner, a second handler is
kept out by the lock), and all other calls stay as they were or are finished by a
reaper (`Untouched`), which no statement minds, because each write tests for a
finished row.  `WaitingCallsAreLocked` is part of it.  `NoCallMovesBack` needs it at the
writes of ANSWERED and CONNECTED, which do not reconcile again.  `AbandonedStayApart`
adds `AbandonInv`: between the writes ANSWERED and FAILED of an abandoned call either
its handler is about to write FAILED, or its worker is gone and nobody hears of the
call again (`GivenUp`); that is the invariant that a handler dying of a store error
would break.

**Dialer, bookings** (`DialerBookingProofs`).  A bridge is two writes in two tables, so the
books disagree in between, and for good when the loop ends there.  `BookInv` says that
no two agents have the same call and that a busy agent is `Booked`: the call names it, or
names nobody and its dial loop is at the second write (`Unattached`).  It is inductive with
`LinkInv` (a loop or a handler that is about to use a call's agent knows which it is), because
an `agent_id` is written once, by two statements (`AgentIdStep`), and an agent gets a call at
three (`CallOfAgent`, `GoesOnCall`).  `BookInvariant` holds under all faults and with leases that
run out; only its reading as `NoAgentDoubleBooked` excludes the restart.

**Dialer, agents** (`DialerAgentProofs`).  While leases outlast the work, an agent is in one hand
from its reservation to its release, and `AgentInv` says what each hand knows: a dial loop's
agents are RESERVED for it and no live call has them (`LoopSound`), a handler's call is alive
and, once ended, still has its agent (`FrameSound`), a live call's agent is on it or held for
it (`Paired`), a wrap-up that has not begun finds its agent CONNECTED (`WrapSound`), and an agent
found for a waiting call is the one it got (`FoundSound`).  `OneLine`, which is
`OneLiveCallPerAgent` without counting, is not inductive alone: that `create_call` names an
agent no live call has needs `Unserved` of every agent in a loop's hand, and that the
handler's late `transition_agent`, which does not compare calls, hits the right call needs
`Paired`.  There is one lemma per statement of the dial loop, of a handler and of the wrap-up;
`OthersKeep` is the interference argument, once for all of them.  `NobodyTakenOff` is the action
property `OnTheLine`, proved with each step.  Both theorems are true in both modes, with workers
that crash, restart, stop or lose loops.

**Dialer, progressive mode** (`DialerProgressiveProofs`).  `ProgInv`: no line is placed without an
agent, so none waits for a bridge and none is abandoned.  The step that needs an argument is
the answer: the handler gives the call up when its agent is not DIALING, and it always is
(`OwnAgentIsReady`), because an agent CONNECTED already would mean the call is `Taken`, put
through before or by a handler that is still at it, and a second handler is kept out.
`LeftInv`: a busy agent of a finished call is `Dealt` with: its handler is at
`_on_call_terminal`, or about to release it, or its wrap-up has been started.  It was not inductive
without the condition in `Dealt` that a CONNECTED agent's call has `connected_at`, which is exactly
what the race of `bridge_timeout_race` breaks in predictive mode.

Model-checked only: the liveness properties (`EveryCallEnds`, `AgentsComeBack`, `PlacedCallsEnd`,
`HeldAgentsComeBack`, `AbandonmentComesDown`, `ScaleRecovers`), whose proofs would need fairness
and ENABLED, which are out of the prover's reach, as is induction over data.  Every
invariant and action property of the passing runs is a theorem.

## 6. Not modelled, and what could come next

Left out: `CallStateMachine.validate` (tests only), `requeue_contact` (no caller),
the reservation log (never read), the idempotency map of `place_call` (each key is
used once), `avg_talk_time` (never read), the labels and reasons of verdicts,
`ProgressiveDialer` (no caller), the scaling of `ScaledClock`, the simulation and the
scripts, which build workers and print statistics.

Hazards no property covers, and why:

- `critical_abandon_rate or target * 3` takes an explicit 0.0 for an absent value: no
  document says what 0.0 means;
- the reaper of a live worker reports the expired calls of a dead one to its own
  controller and may trip its circuit breaker: no document gives a rule to state;
- a single handler that dies of a store error between ANSWERED and FAILED leaves an
  abandoned call open, and a later COMPLETED makes it a success: with handlers dying
  too, the instances of `Dialer` were too large to finish.

Next steps worth taking: `NoAgentLeftOnFinishedCall` in predictive mode for the calls that
had `connected_at`, where the race cannot strike; lemmas on `Reconcile`, whose table two
handlers of one call rely on; `Pacing` for two workers that share the lines in flight.
