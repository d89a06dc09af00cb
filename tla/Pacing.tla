------------------------------- MODULE Pacing -------------------------------
(***************************************************************************)
(* The predictive feedback loop: PredictivePacingEngine, SafetyController  *)
(* and the parts of one DialerWorker that dial what they allow and report  *)
(* back to them what became of it.                                         *)
(*                                                                         *)
(* Calls and agents are anonymous here: a counter says how many lines or   *)
(* agents are at each stage.  How an agent and a call find each other is   *)
(* Dialer's subject; leases are taken to outlast a ring and a bridge, so   *)
(* an agent's own call finds its agent, and only calls time out.           *)
(***************************************************************************)
EXTENDS Admission

CONSTANTS
  available_agents,            \* count_active_agents: the staffed headcount
  \* PredictivePacingEngine
  window_size, min_answer_rate, max_answer_rate, default_answer_rate, engine_max_line_ratio,
  \* SafetyController
  hard_max_line_ratio, min_samples_for_predictive, max_provider_error_rate, feedback_window,
  target_abandon_rate, critical_abandon_rate, scale_down_factor, scale_up_factor,
  min_pacing_scale,
  ScaleUnit                    \* pacing_scale is counted in steps of 1 / ScaleUnit

Ratio(r) == r.num \in Nat /\ r.den \in Nat \ {0}

Scaled(scale, factor) == (scale * factor.num) \div factor.den

ASSUME PacingAssumption ==
  /\ {available_agents, min_samples_for_predictive} \subseteq Nat
  /\ {window_size, feedback_window, ScaleUnit, min_pacing_scale} \subseteq Nat \ {0}
  /\ \A r \in {min_answer_rate, max_answer_rate, default_answer_rate, engine_max_line_ratio,
               hard_max_line_ratio, max_provider_error_rate, target_abandon_rate,
               critical_abandon_rate, scale_down_factor, scale_up_factor} : Ratio(r)
  /\ min_answer_rate.num > 0 /\ max_answer_rate.num > 0
  /\ max_answer_rate.num <= max_answer_rate.den
  /\ engine_max_line_ratio.num >= engine_max_line_ratio.den
  /\ min_pacing_scale <= ScaleUnit

\* A multiplicative step down goes down, and a step up goes up by a whole unit.
ASSUME ScaleAssumption ==
  \A s \in min_pacing_scale .. ScaleUnit :
    Scaled(s, scale_down_factor) < s /\ Scaled(s, scale_up_factor) > s

VARIABLES
  outcomes,          \* the engine's _outcomes: was the call answered
  abandon_outcomes,  \* _abandon_outcomes: was the answered call given up
  provider_errors,   \* _provider_errors: did the call time out
  pacing_scale,
  extra,             \* what is left of the loop over the approved calls
  dialing,           \* lines that ring for a reserved agent
  ringing,           \* speculative lines that ring
  waiting,           \* speculative lines that were answered and wait for an agent
  talking,           \* connected lines
  wrapping           \* agents in their wrap-up

windows == <<outcomes, abandon_outcomes, provider_errors>>
lines   == <<dialing, ringing, waiting, talking, wrapping>>
vars    == <<windows, pacing_scale, extra, lines>>

Init ==
  /\ outcomes = <<>>
  /\ abandon_outcomes = <<>>
  /\ provider_errors = <<>>
  /\ pacing_scale = ScaleUnit
  /\ extra = 0
  /\ dialing = 0 /\ ringing = 0 /\ waiting = 0 /\ talking = 0 /\ wrapping = 0

FreeAgents == available_agents - dialing - talking - wrapping

in_flight == dialing + ringing + waiting + talking

-----------------------------------------------------------------------------
(* The engine's request *)

answer_rate == IF outcomes = <<>> THEN default_answer_rate ELSE RateOf(outcomes)

clamped_rate == Smaller(Larger(answer_rate, min_answer_rate), max_answer_rate)

request_ratio == Smaller(Frac(clamped_rate.den, clamped_rate.num), engine_max_line_ratio)

requested_calls(ratio) == Missing(TargetLines(available_agents, ratio), in_flight)

-----------------------------------------------------------------------------
(* The controller's verdict *)

\* A rate that has no observation yet exceeds nothing.
RateExceeds(window, limit) == window # <<>> /\ Exceeds(RateOf(window), limit)

TooFewSamples == Len(outcomes) < min_samples_for_predictive

BreakerOpen == RateExceeds(provider_errors, max_provider_error_rate)

Critical == RateExceeds(abandon_outcomes, critical_abandon_rate)

Fallback == TooFewSamples \/ BreakerOpen \/ Critical

\* A wrong LoweredScale, without the floor.
LoweredScaleUnbounded == Scaled(pacing_scale, scale_down_factor)

LoweredScale ==
  LET lowered == Scaled(pacing_scale, scale_down_factor)
  IN  IF lowered < min_pacing_scale THEN min_pacing_scale ELSE lowered

RaisedScale ==
  LET raised == Scaled(pacing_scale, scale_up_factor)
  IN  IF raised > ScaleUnit THEN ScaleUnit ELSE raised

\* Down above the target, up below half of it, and no change in between.
RatchetedScale ==
  IF RateExceeds(abandon_outcomes, target_abandon_rate) THEN LoweredScale
  ELSE IF abandon_outcomes # <<>>
          /\ Exceeds(Frac(target_abandon_rate.num, 2 * target_abandon_rate.den), RateOf(abandon_outcomes))
       THEN RaisedScale
  ELSE pacing_scale

\* A wrong EffectiveRatio, that adds the scaled ratio to the one line per agent.
EffectiveRatioOnTop(ratio, scale) ==
  Frac(ratio.den * ScaleUnit + ratio.num * scale, ratio.den * ScaleUnit)

\* 1 + max(0, ratio - 1) * pacing_scale
EffectiveRatio(ratio, scale) ==
  Frac(ratio.den * ScaleUnit + Missing(ratio.num, ratio.den) * scale, ratio.den * ScaleUnit)

\* Whatever the decision is called, the smaller of what is asked for and the cap.
approved_calls(ratio, scale) ==
  LET requested == requested_calls(EffectiveRatio(ratio, scale))
      hard_cap  == HardCap(available_agents, hard_max_line_ratio, in_flight)
  IN  IF requested > hard_cap THEN hard_cap ELSE requested

-----------------------------------------------------------------------------
(* The dial loop *)

\* A wrong Evaluate, that trusts the floor of the ratchet to be enough.
EvaluateWithoutCutover ==
  /\ extra = 0
  /\ IF TooFewSamples \/ BreakerOpen
     THEN UNCHANGED <<pacing_scale, extra>>
     ELSE \E ratio \in {request_ratio}, scale \in {RatchetedScale} :
            /\ pacing_scale' = scale
            /\ extra' = approved_calls(ratio, scale)
  /\ UNCHANGED <<windows, lines>>

\* _predictive_tick up to the loop over the approved calls.  On a fallback the
\* worker takes none of them; the ratchet moves before abandonment is critical.
Evaluate ==
  /\ extra = 0
  /\ IF TooFewSamples \/ BreakerOpen
     THEN UNCHANGED <<pacing_scale, extra>>
     ELSE \E ratio \in {request_ratio}, scale \in {RatchetedScale} :
            /\ pacing_scale' = scale
            /\ extra' = IF Critical THEN 0 ELSE approved_calls(ratio, scale)
  /\ UNCHANGED <<windows, lines>>

\* One round of that loop, for which a contact may be missing.
DialSpeculative ==
  /\ extra > 0
  /\ extra' = extra - 1
  /\ ringing' \in {ringing, ringing + 1}
  /\ UNCHANGED <<windows, pacing_scale, dialing, waiting, talking, wrapping>>

\* One line for one free agent, which no controller is asked about.
DialForAgent ==
  /\ extra = 0
  /\ FreeAgents > 0
  /\ dialing' = dialing + 1
  /\ UNCHANGED <<windows, pacing_scale, extra, ringing, waiting, talking, wrapping>>

-----------------------------------------------------------------------------
(* What becomes of a line *)

\* A wrong RecordAnswered, that keeps abandoned calls only.
RecordAbandoned(agent_was_ready) ==
  abandon_outcomes' =
    IF agent_was_ready THEN abandon_outcomes ELSE Record(abandon_outcomes, feedback_window, TRUE)

\* record_answered_call
RecordAnswered(agent_was_ready) ==
  abandon_outcomes' = Record(abandon_outcomes, feedback_window, ~agent_was_ready)

\* record_outcome and record_provider_outcome, from _on_call_terminal.
RecordTerminal(answered, errored) ==
  /\ outcomes' = Record(outcomes, window_size, answered)
  /\ provider_errors' = Record(provider_errors, feedback_window, errored)

\* The agent's own call is answered, or fails and gives the agent back.
OwnCallAnswered ==
  /\ dialing > 0
  /\ dialing' = dialing - 1 /\ talking' = talking + 1
  /\ RecordAnswered(TRUE)
  /\ UNCHANGED <<outcomes, provider_errors, pacing_scale, extra, ringing, waiting, wrapping>>

OwnCallFails ==
  /\ dialing > 0
  /\ dialing' = dialing - 1
  /\ RecordTerminal(FALSE, FALSE)
  /\ UNCHANGED <<abandon_outcomes, pacing_scale, extra, ringing, waiting, talking, wrapping>>

SpeculativeAnswered ==
  /\ ringing > 0
  /\ ringing' = ringing - 1 /\ waiting' = waiting + 1
  /\ UNCHANGED <<windows, pacing_scale, extra, dialing, talking, wrapping>>

SpeculativeFails ==
  /\ ringing > 0
  /\ ringing' = ringing - 1
  /\ RecordTerminal(FALSE, FALSE)
  /\ UNCHANGED <<abandon_outcomes, pacing_scale, extra, dialing, waiting, talking, wrapping>>

\* The dial loop finds an agent for a waiting call, or the grace time ends.
Bridge ==
  /\ extra = 0
  /\ waiting > 0 /\ FreeAgents > 0
  /\ waiting' = waiting - 1 /\ talking' = talking + 1
  /\ RecordAnswered(TRUE)
  /\ UNCHANGED <<outcomes, provider_errors, pacing_scale, extra, dialing, ringing, wrapping>>

Abandon ==
  /\ waiting > 0
  /\ waiting' = waiting - 1
  /\ RecordAnswered(FALSE)
  /\ RecordTerminal(TRUE, FALSE)
  /\ UNCHANGED <<pacing_scale, extra, dialing, ringing, talking, wrapping>>

HangUp ==
  /\ talking > 0
  /\ talking' = talking - 1 /\ wrapping' = wrapping + 1
  /\ RecordTerminal(TRUE, FALSE)
  /\ UNCHANGED <<abandon_outcomes, pacing_scale, extra, dialing, ringing, waiting>>

WrapUpEnds ==
  /\ wrapping > 0
  /\ wrapping' = wrapping - 1
  /\ UNCHANGED <<windows, pacing_scale, extra, dialing, ringing, waiting, talking>>

\* The provider fell silent and the reaper fails the call; its agent is free at once.
TimeOut ==
  /\ \/ dialing > 0 /\ dialing' = dialing - 1 /\ RecordTerminal(FALSE, TRUE)
        /\ UNCHANGED <<ringing, talking>>
     \/ ringing > 0 /\ ringing' = ringing - 1 /\ RecordTerminal(FALSE, TRUE)
        /\ UNCHANGED <<dialing, talking>>
     \/ talking > 0 /\ talking' = talking - 1 /\ RecordTerminal(TRUE, TRUE)
        /\ UNCHANGED <<dialing, ringing>>
  /\ UNCHANGED <<abandon_outcomes, pacing_scale, extra, waiting, wrapping>>

AgentWasReady == OwnCallAnswered \/ Bridge

Next ==
  \/ Evaluate \/ DialSpeculative \/ DialForAgent
  \/ AgentWasReady \/ OwnCallFails \/ SpeculativeAnswered \/ SpeculativeFails
  \/ Abandon \/ HangUp \/ WrapUpEnds \/ TimeOut

Spec == Init /\ [][Next]_vars

\* The dial loop ticks on.  Nothing is assumed of callees, agents and providers.
FairSpec == Spec /\ WF_vars(Evaluate) /\ WF_vars(DialSpeculative)

-----------------------------------------------------------------------------
(* Properties *)

\* Every variable has its type, and pacing_scale stays between floor and full scale.
PacingTypeOK ==
  /\ outcomes \in Seq(BOOLEAN) /\ Len(outcomes) <= window_size
  /\ \A window \in {abandon_outcomes, provider_errors} :
       window \in Seq(BOOLEAN) /\ Len(window) <= feedback_window
  /\ pacing_scale \in min_pacing_scale .. ScaleUnit
  /\ \A n \in {extra, dialing, ringing, waiting, talking, wrapping} : n \in Nat

\* The backstop: speculative lines, placed or about to be, never exceed the
\* multiple of the headcount, whatever happened to lines and agents since the
\* last tick, and one line per agent comes on top.
SpeculationWithinHardCap ==
  /\ ringing + waiting + extra <= TargetLines(available_agents, hard_max_line_ratio)
  /\ dialing + talking + wrapping <= available_agents

\* The controller is admission control: at no scale does it approve more lines
\* than the engine requested.
ControllerOnlyReduces ==
  \A scale \in min_pacing_scale .. ScaleUnit :
    approved_calls(request_ratio, scale) <= requested_calls(request_ratio)

\* The floor of the ratchet is no safety guarantee, the cutover to progressive is:
\* abandonment does not stay above the critical rate, however callees and agents
\* behave, as long as answered calls find an agent again and again.
AbandonmentComesDown == []<><<AgentWasReady>>_vars => []<>~Critical

\* The controller moves down its ladder reversibly: one bad spell lowers the scale
\* tick after tick, but when no call is abandoned or times out any more, full scale
\* comes back, and stays, and no fallback is left.
ScaleRecovers ==
  /\ <>[][~Abandon /\ ~TimeOut]_vars
  /\ []<><<AgentWasReady>>_vars
  => <>[](pacing_scale = ScaleUnit /\ ~Fallback)

=============================================================================
