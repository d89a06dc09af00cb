---------------------------- MODULE PacingProofs ----------------------------
(***************************************************************************)
(* What the rounding and the clamps of the controller guarantee for every  *)
(* headcount, ratio and window, and what the feedback loop keeps up over   *)
(* every history: proofs checked by TLAPS.                                 *)
(***************************************************************************)
EXTENDS Pacing, FiniteSetTheorems, TLAPS

-----------------------------------------------------------------------------
(* Arithmetic *)

LEMMA Division ==
  ASSUME NEW n \in Nat, NEW d \in Nat \ {0}
  PROVE  /\ n \div d \in Nat
         /\ n % d \in 0 .. d - 1
         /\ n = d * (n \div d) + (n % d)
OBVIOUS

\* round() is the integer below or the one above.
LEMMA RoundNear ==
  ASSUME NEW n \in Nat, NEW d \in Nat \ {0}
  PROVE  Round(n, d) \in {n \div d, n \div d + 1} /\ Round(n, d) \in Nat
BY Division DEF Round

\* A product of naturals does not fall when a factor grows.
LEMMA Product ==
  ASSUME NEW a \in Nat, NEW b \in Nat, NEW k \in Nat, a <= b
  PROVE  k * a \in Nat /\ k * a <= k * b
OBVIOUS

\* round() of a smaller fraction is no larger, ties and all.
LEMMA RoundMonotone ==
  ASSUME NEW m \in Nat, NEW c \in Nat \ {0}, NEW n \in Nat, NEW d \in Nat \ {0},
         m * d <= n * c
  PROVE  Round(m, c) <= Round(n, d)
<1> DEFINE p == m \div c
           r == m % c
           q == n \div d
           s == n % d
<1>1. /\ p \in Nat /\ r \in Nat /\ r < c /\ m = c * p + r
      /\ q \in Nat /\ s \in Nat /\ s < d /\ n = d * q + s
  BY Division
<1>2. Round(m, c) = IF 2 * r > c \/ (2 * r = c /\ p % 2 = 1) THEN p + 1 ELSE p
  BY DEF Round
<1>3. Round(n, d) = IF 2 * s > d \/ (2 * s = d /\ q % 2 = 1) THEN q + 1 ELSE q
  BY DEF Round
<1> HIDE DEF p, q, r, s
<1>4. (c * p) * d + r * d <= (d * q) * c + s * c
  BY <1>1
<1>5. p <= q
  <2> SUFFICES ASSUME q + 1 <= p PROVE FALSE
    BY <1>1
  <2> DEFINE x == (c * p) * d
             y == (d * q) * c
             u == r * d
             v == s * c
             z == d * c
  <2>1. x \in Int /\ y \in Int /\ u \in Nat /\ v \in Int /\ z \in Int
    BY <1>1
  <2>2. x + u <= y + v
    BY <1>4
  <2>3. y + z <= x
    <3>1. (c * d) * (q + 1) <= (c * d) * p
      BY <1>1
    <3>2. (c * d) * (q + 1) = y + z /\ (c * d) * p = x
      BY <1>1
    <3> QED
      BY <3>1, <3>2
  <2>4. v < z
    BY <1>1
  <2> HIDE DEF x, y, u, v, z
  <2> QED
    BY <2>1, <2>2, <2>3, <2>4
<1>6. CASE p < q
  BY <1>1, <1>2, <1>3, <1>6
<1>7. CASE p = q
  <2>1. r * d <= s * c
    <3>1. (c * p) * d = (d * q) * c
      BY <1>1, <1>7
    <3>2. r * d \in Nat /\ s * c \in Nat /\ (d * q) * c \in Nat
      BY <1>1
    <3> QED
      BY <1>4, <3>1, <3>2
  <2>2. ASSUME 2 * r > c PROVE 2 * s > d
    <3> SUFFICES ASSUME 2 * s <= d PROVE FALSE
      BY <1>1
    <3>1. (2 * r) * d > c * d
      BY <1>1, <2>2
    <3>2. (2 * s) * c <= d * c
      BY <1>1
    <3> QED
      BY <1>1, <2>1, <3>1, <3>2
  <2>3. ASSUME 2 * r = c PROVE 2 * s >= d
    <3> SUFFICES ASSUME 2 * s < d PROVE FALSE
      BY <1>1
    <3>1. (2 * r) * d = c * d
      BY <2>3
    <3>2. (2 * s) * c < d * c
      BY <1>1
    <3> QED
      BY <1>1, <2>1, <3>1, <3>2
  <2> QED
    BY <1>1, <1>2, <1>3, <1>7, <2>2, <2>3
<1> QED
  BY <1>1, <1>5, <1>6, <1>7

-----------------------------------------------------------------------------
(* Ratios *)

\* The share of TRUE in a window is a fraction.
LEMMA RateIsRatio ==
  ASSUME NEW window \in Seq(BOOLEAN), window # <<>>
  PROVE  Ratio(RateOf(window))
<1> DEFINE hits == {i \in DOMAIN window : window[i]}
<1>1. Len(window) \in Nat \ {0} /\ DOMAIN window = 1 .. Len(window)
  OBVIOUS
<1>2. IsFiniteSet(1 .. Len(window))
  BY <1>1, FS_Interval
<1>3. IsFiniteSet(hits)
  BY <1>1, <1>2, FS_Subset
<1>4. Cardinality(hits) \in Nat
  BY <1>3, FS_CardinalityType
<1> QED
  BY <1>1, <1>4 DEF Ratio, RateOf, Frac

\* Between clamps that are positive and at most one, a rate is so too.
LEMMA ClampedRate ==
  ASSUME NEW rate, Ratio(rate)
  PROVE  LET q == Smaller(Larger(rate, min_answer_rate), max_answer_rate)
         IN  Ratio(q) /\ q.num > 0 /\ q.num <= q.den
<1> DEFINE l == Larger(rate, min_answer_rate)
           q == Smaller(l, max_answer_rate)
<1> SUFFICES Ratio(q) /\ q.num > 0 /\ q.num <= q.den
  OBVIOUS
<1>0. Ratio(min_answer_rate) /\ min_answer_rate.num > 0
  BY PacingAssumption
<1>1. Ratio(l) /\ l.num > 0
  <2>1. CASE Exceeds(rate, min_answer_rate)
    <3>1. rate.num * min_answer_rate.den > 0
      BY <1>0, <2>1 DEF Exceeds, Ratio
    <3>2. rate.num > 0
      BY <1>0, <3>1 DEF Ratio
    <3> QED
      BY <2>1, <3>2 DEF Larger
  <2>2. CASE ~Exceeds(rate, min_answer_rate)
    BY <1>0, <2>2 DEF Larger
  <2> QED
    BY <2>1, <2>2
<1>2. /\ Ratio(max_answer_rate) /\ max_answer_rate.num > 0
      /\ max_answer_rate.num <= max_answer_rate.den
  BY PacingAssumption
<1> HIDE DEF l
<1>3. CASE Exceeds(l, max_answer_rate)
  BY <1>2, <1>3 DEF Smaller
<1>4. CASE ~Exceeds(l, max_answer_rate)
  <2>1. l.num * max_answer_rate.den <= max_answer_rate.num * l.den
    BY <1>1, <1>2, <1>4 DEF Exceeds, Ratio
  <2>2. max_answer_rate.num * l.den <= max_answer_rate.den * l.den
    BY <1>1, <1>2 DEF Ratio
  <2>3. l.num <= l.den
    <3> SUFFICES ASSUME l.num >= l.den + 1 PROVE FALSE
      BY <1>1 DEF Ratio
    <3>1. l.num * max_answer_rate.den >= (l.den + 1) * max_answer_rate.den
      BY <1>1, <1>2 DEF Ratio
    <3> QED
      BY <1>1, <1>2, <2>1, <2>2, <3>1 DEF Ratio
  <2> QED
    BY <1>1, <1>4, <2>3 DEF Smaller
<1> QED
  BY <1>3, <1>4

\* The engine asks for at least one line per agent, whatever the window says.
LEMMA RequestRatio ==
  ASSUME outcomes \in Seq(BOOLEAN)
  PROVE  Ratio(request_ratio) /\ request_ratio.num >= request_ratio.den
<1>1. Ratio(answer_rate)
  BY RateIsRatio, PacingAssumption DEF answer_rate
<1>2. Ratio(clamped_rate) /\ clamped_rate.num > 0 /\ clamped_rate.num <= clamped_rate.den
  BY <1>1, ClampedRate DEF clamped_rate
<1>3. LET inverse == Frac(clamped_rate.den, clamped_rate.num)
      IN  Ratio(inverse) /\ inverse.num >= inverse.den
  BY <1>2 DEF Ratio, Frac
<1>4. Ratio(engine_max_line_ratio) /\ engine_max_line_ratio.num >= engine_max_line_ratio.den
  BY PacingAssumption
<1> QED
  BY <1>3, <1>4 DEF request_ratio, Smaller

LEMMA TargetLinesNat ==
  ASSUME NEW ratio, Ratio(ratio)
  PROVE  TargetLines(available_agents, ratio) \in Nat
<1>1. available_agents * ratio.num \in Nat
  BY PacingAssumption DEF Ratio
<1> QED
  BY <1>1, RoundNear DEF TargetLines, Ratio

\* Scaling the part beyond one line per agent down lowers the target, after
\* rounding too.
LEMMA ScaledTarget ==
  ASSUME NEW ratio, Ratio(ratio), ratio.num >= ratio.den, NEW scale \in 0 .. ScaleUnit
  PROVE  LET effective == EffectiveRatio(ratio, scale)
         IN  /\ Ratio(effective)
             /\ TargetLines(available_agents, effective) <= TargetLines(available_agents, ratio)
<1> DEFINE effective == EffectiveRatio(ratio, scale)
           beyond == ratio.num - ratio.den
<1>0. /\ ratio.num \in Nat /\ ratio.den \in Nat \ {0} /\ ScaleUnit \in Nat \ {0}
      /\ available_agents \in Nat /\ beyond \in Nat
  BY PacingAssumption DEF Ratio
<1>1. effective.num = ratio.den * ScaleUnit + beyond * scale /\ effective.den = ratio.den * ScaleUnit
  BY <1>0 DEF EffectiveRatio, Missing, Frac
<1>2. effective.num \in Nat /\ effective.den \in Nat \ {0}
  BY <1>0, <1>1
<1>3. effective.num <= ratio.num * ScaleUnit
  <2>1. beyond * scale <= beyond * ScaleUnit
    BY <1>0
  <2>2. ratio.den * ScaleUnit + beyond * ScaleUnit = ratio.num * ScaleUnit
    BY <1>0
  <2> QED
    BY <1>0, <1>1, <2>1, <2>2
<1> HIDE DEF effective
<1>4. effective.num * ratio.den <= (ratio.num * ScaleUnit) * ratio.den
  BY <1>0, <1>2, <1>3
<1>5. effective.num * ratio.den <= ratio.num * effective.den
  BY <1>0, <1>1, <1>4
<1>6. available_agents * (effective.num * ratio.den) <= available_agents * (ratio.num * effective.den)
  BY <1>0, <1>2, <1>5, Product
<1>7. (available_agents * effective.num) * ratio.den <= (available_agents * ratio.num) * effective.den
  BY <1>0, <1>2, <1>6
<1>8. available_agents * effective.num \in Nat /\ available_agents * ratio.num \in Nat
  BY <1>0, <1>2
<1>9. TargetLines(available_agents, effective) <= TargetLines(available_agents, ratio)
  BY <1>0, <1>2, <1>7, <1>8, RoundMonotone DEF TargetLines
<1> QED
  BY <1>2, <1>9 DEF effective, Ratio

-----------------------------------------------------------------------------
(* The feedback loop *)

\* A window takes one more outcome.
LEMMA RecordType ==
  ASSUME NEW window \in Seq(BOOLEAN), NEW size \in Nat \ {0}, Len(window) <= size,
         NEW outcome \in BOOLEAN
  PROVE  Record(window, size, outcome) \in Seq(BOOLEAN) /\ Len(Record(window, size, outcome)) <= size
<1>1. CASE Len(window) < size
  BY <1>1 DEF Record
<1>2. CASE ~(Len(window) < size)
  <2>1. window # <<>>
    BY <1>2
  <2>2. Tail(window) \in Seq(BOOLEAN) /\ Len(Tail(window)) = Len(window) - 1
    BY <2>1
  <2> QED
    BY <1>2, <2>2 DEF Record
<1> QED
  BY <1>1, <1>2

\* The ratchet stays between the floor and full scale.
LEMMA RatchetType ==
  ASSUME pacing_scale \in min_pacing_scale .. ScaleUnit
  PROVE  RatchetedScale \in min_pacing_scale .. ScaleUnit
<1>0. min_pacing_scale \in Nat /\ ScaleUnit \in Nat /\ pacing_scale \in Nat
  BY PacingAssumption
<1>1. /\ Scaled(pacing_scale, scale_down_factor) < pacing_scale
      /\ Scaled(pacing_scale, scale_up_factor) > pacing_scale
  BY ScaleAssumption
<1>2. ASSUME NEW factor \in {scale_down_factor, scale_up_factor}
      PROVE  Scaled(pacing_scale, factor) \in Nat
  <2>1. factor.num \in Nat /\ factor.den \in Nat \ {0}
    BY PacingAssumption DEF Ratio
  <2>2. pacing_scale * factor.num \in Nat
    BY <1>0, <2>1
  <2> QED
    BY <2>1, <2>2, Division DEF Scaled
<1>3. LoweredScale \in min_pacing_scale .. ScaleUnit
  BY <1>0, <1>1, <1>2 DEF LoweredScale
<1>4. RaisedScale \in min_pacing_scale .. ScaleUnit
  BY <1>0, <1>1, <1>2 DEF RaisedScale
<1> QED
  BY <1>3, <1>4 DEF RatchetedScale

\* What is approved is a number of lines the cap has room for, and no more than
\* was requested.
LEMMA Approved ==
  ASSUME PacingTypeOK, NEW scale \in min_pacing_scale .. ScaleUnit
  PROVE  /\ approved_calls(request_ratio, scale) \in Nat
         /\ approved_calls(request_ratio, scale)
              <= HardCap(available_agents, hard_max_line_ratio, in_flight)
         /\ approved_calls(request_ratio, scale) <= requested_calls(request_ratio)
<1> DEFINE ratio == request_ratio
           effective == EffectiveRatio(ratio, scale)
           cap == TargetLines(available_agents, hard_max_line_ratio)
<1>1. Ratio(ratio) /\ ratio.num >= ratio.den
  BY RequestRatio DEF PacingTypeOK
<1>2. scale \in 0 .. ScaleUnit /\ in_flight \in Nat
  <2>1. min_pacing_scale \in Nat /\ ScaleUnit \in Nat
    BY PacingAssumption
  <2>2. dialing \in Nat /\ ringing \in Nat /\ waiting \in Nat /\ talking \in Nat
    BY DEF PacingTypeOK
  <2> QED
    BY <2>1, <2>2 DEF in_flight
<1> HIDE DEF ratio
<1>3. /\ Ratio(effective)
      /\ TargetLines(available_agents, effective) <= TargetLines(available_agents, ratio)
  BY <1>1, <1>2, ScaledTarget
<1>4. Ratio(hard_max_line_ratio)
  BY PacingAssumption
<1> HIDE DEF effective
<1>5. /\ TargetLines(available_agents, effective) \in Nat
      /\ TargetLines(available_agents, ratio) \in Nat
      /\ cap \in Nat
  BY <1>1, <1>3, <1>4, TargetLinesNat
<1>6. /\ approved_calls(ratio, scale) \in Nat
      /\ approved_calls(ratio, scale) <= HardCap(available_agents, hard_max_line_ratio, in_flight)
      /\ approved_calls(ratio, scale) <= requested_calls(ratio)
  BY <1>2, <1>3, <1>5 DEF approved_calls, requested_calls, HardCap, Missing, effective
<1> QED
  BY <1>6 DEF ratio

PacingInv == PacingTypeOK /\ SpeculationWithinHardCap

LEMMA PacingInit == Init => PacingInv
<1>1. TargetLines(available_agents, hard_max_line_ratio) \in Nat
  BY PacingAssumption, TargetLinesNat
<1> QED
  BY <1>1, PacingAssumption DEF Init, PacingInv, PacingTypeOK, SpeculationWithinHardCap

\* What is missing to the cap still fits under it.
LEMMA RoomLeft ==
  ASSUME NEW cap \in Nat, NEW d \in Nat, NEW r \in Nat, NEW s \in Nat, NEW t \in Nat, NEW e \in Nat,
         r + s <= cap, e <= Missing(cap, d + r + s + t)
  PROVE  r + s + e <= cap
<1>1. CASE cap > d + r + s + t
  BY <1>1 DEF Missing
<1>2. CASE ~(cap > d + r + s + t)
  BY <1>2 DEF Missing
<1> QED
  BY <1>1, <1>2

\* A tick, and the dialing that follows it.
LEMMA DialingKeepsInv ==
  ASSUME PacingInv, Evaluate \/ DialSpeculative \/ DialForAgent
  PROVE  PacingInv'
<1> DEFINE cap == TargetLines(available_agents, hard_max_line_ratio)
<1> USE DEF PacingInv, PacingTypeOK, SpeculationWithinHardCap
<1>0. cap \in Nat
  BY PacingAssumption, TargetLinesNat
<1>1. CASE Evaluate
  <2>1. CASE UNCHANGED <<pacing_scale, extra>>
    BY <1>1, <2>1 DEF Evaluate, windows, lines
  <2>2. CASE ~UNCHANGED <<pacing_scale, extra>>
    <3>1. /\ pacing_scale' = RatchetedScale
          /\ extra' = IF Critical THEN 0 ELSE approved_calls(request_ratio, RatchetedScale)
      BY <1>1, <2>2 DEF Evaluate
    <3>2. pacing_scale' \in min_pacing_scale .. ScaleUnit
      BY <3>1, RatchetType
    <3>3. PICK e \in Nat : extra' = e /\ e <= HardCap(available_agents, hard_max_line_ratio, in_flight)
      <4>1. HardCap(available_agents, hard_max_line_ratio, in_flight) \in Nat
        <5>1. dialing \in Nat /\ ringing \in Nat /\ waiting \in Nat /\ talking \in Nat
          OBVIOUS
        <5> HIDE DEF PacingInv, PacingTypeOK, SpeculationWithinHardCap
        <5>2. in_flight \in Nat
          BY <5>1 DEF in_flight
        <5> QED
          BY <1>0, <5>2 DEF HardCap, Missing
      <4>2. /\ approved_calls(request_ratio, RatchetedScale) \in Nat
            /\ approved_calls(request_ratio, RatchetedScale) <=
                 HardCap(available_agents, hard_max_line_ratio, in_flight)
        BY <3>1, <3>2, Approved
      <4> QED
        BY <3>1, <4>1, <4>2
    <3>4. ringing + waiting + extra' <= cap
      <4>1. /\ dialing \in Nat /\ ringing \in Nat /\ waiting \in Nat /\ talking \in Nat
            /\ extra = 0 /\ ringing + waiting + extra <= cap
        BY <1>1 DEF Evaluate
      <4>2. e <= Missing(cap, dialing + ringing + waiting + talking)
        BY <3>3 DEF HardCap, in_flight
      <4> HIDE DEF cap, PacingInv, PacingTypeOK, SpeculationWithinHardCap
      <4>3. ringing + waiting <= cap
        BY <4>1
      <4>4. ringing + waiting + e <= cap
        BY <1>0, <4>1, <4>2, <4>3, RoomLeft
      <4> QED
        BY <3>3, <4>4
    <3> QED
      BY <1>1, <3>2, <3>3, <3>4 DEF Evaluate, windows, lines
  <2> QED
    BY <2>1, <2>2
<1>2. CASE DialSpeculative
  <2>1. PICK e \in Nat, r \in Nat :
          /\ extra' = e /\ ringing' = r
          /\ r + waiting + e <= cap
    <3>1. extra \in Nat /\ extra > 0 /\ ringing \in Nat /\ waiting \in Nat
      BY <1>2 DEF DialSpeculative
    <3>2. ringing' = ringing \/ ringing' = ringing + 1
      BY <1>2 DEF DialSpeculative
    <3>3. extra' = extra - 1
      BY <1>2 DEF DialSpeculative
    <3>4. ringing + waiting + extra <= cap
      OBVIOUS
    <3> HIDE DEF cap, PacingInv, PacingTypeOK, SpeculationWithinHardCap
    <3>5. extra - 1 \in Nat /\ ringing + 1 \in Nat
      BY <3>1
    <3>6. ringing + waiting + (extra - 1) <= cap /\ ringing + 1 + waiting + (extra - 1) <= cap
      BY <1>0, <3>1, <3>4
    <3> QED
      BY <3>1, <3>2, <3>3, <3>5, <3>6
  <2> QED
    BY <1>2, <2>1 DEF DialSpeculative, windows
<1>3. CASE DialForAgent
  <2>1. dialing \in Nat /\ talking \in Nat /\ wrapping \in Nat /\ available_agents \in Nat
    BY PacingAssumption
  <2>2. dialing' \in Nat /\ dialing' + talking' + wrapping' <= available_agents
    BY <1>3, <2>1 DEF DialForAgent, FreeAgents
  <2> QED
    BY <1>0, <1>3, <2>2 DEF DialForAgent, windows
<1> QED
  BY <1>1, <1>2, <1>3

\* The windows stay windows, whatever is recorded in them.
LEMMA WindowsKeepType ==
  ASSUME PacingTypeOK,
         \/ AgentWasReady \/ OwnCallFails \/ SpeculativeAnswered \/ SpeculativeFails
         \/ Abandon \/ HangUp \/ WrapUpEnds \/ TimeOut
  PROVE  /\ outcomes' \in Seq(BOOLEAN) /\ Len(outcomes') <= window_size
         /\ abandon_outcomes' \in Seq(BOOLEAN) /\ Len(abandon_outcomes') <= feedback_window
         /\ provider_errors' \in Seq(BOOLEAN) /\ Len(provider_errors') <= feedback_window
<1>0. /\ outcomes \in Seq(BOOLEAN) /\ Len(outcomes) <= window_size
      /\ abandon_outcomes \in Seq(BOOLEAN) /\ Len(abandon_outcomes) <= feedback_window
      /\ provider_errors \in Seq(BOOLEAN) /\ Len(provider_errors) <= feedback_window
      /\ window_size \in Nat \ {0} /\ feedback_window \in Nat \ {0}
  BY PacingAssumption DEF PacingTypeOK
<1> DEFINE Reached == /\ abandon_outcomes' \in Seq(BOOLEAN)
                      /\ Len(abandon_outcomes') <= feedback_window
           Ended == /\ outcomes' \in Seq(BOOLEAN) /\ Len(outcomes') <= window_size
                    /\ provider_errors' \in Seq(BOOLEAN) /\ Len(provider_errors') <= feedback_window
<1>1. ASSUME NEW ready \in BOOLEAN, RecordAnswered(ready) PROVE Reached
  BY <1>0, <1>1, RecordType DEF RecordAnswered
<1>2. ASSUME NEW answered \in BOOLEAN, NEW errored \in BOOLEAN, RecordTerminal(answered, errored)
      PROVE  Ended
  BY <1>0, <1>2, RecordType DEF RecordTerminal
<1>3. UNCHANGED abandon_outcomes => Reached
  BY <1>0
<1>4. UNCHANGED <<outcomes, provider_errors>> => Ended
  BY <1>0
<1>5. (\E ready \in BOOLEAN : RecordAnswered(ready)) \/ UNCHANGED abandon_outcomes
  BY DEF AgentWasReady, OwnCallAnswered, Bridge, OwnCallFails, SpeculativeAnswered,
         SpeculativeFails, Abandon, HangUp, WrapUpEnds, TimeOut, windows
<1>6. \/ \E answered \in BOOLEAN, errored \in BOOLEAN : RecordTerminal(answered, errored)
      \/ UNCHANGED <<outcomes, provider_errors>>
  BY DEF AgentWasReady, OwnCallAnswered, Bridge, OwnCallFails, SpeculativeAnswered,
         SpeculativeFails, Abandon, HangUp, WrapUpEnds, TimeOut, windows
<1>7. Reached
  BY <1>1, <1>3, <1>5
<1>8. Ended
  BY <1>2, <1>4, <1>6
<1> QED
  BY <1>7, <1>8

\* No event adds a speculative line, and none takes an agent but those that find
\* a free one.
LEMMA LinesKeepBounds ==
  ASSUME PacingTypeOK, NEW cap \in Nat, ringing + waiting + extra <= cap,
         dialing + talking + wrapping <= available_agents,
         \/ AgentWasReady \/ OwnCallFails \/ SpeculativeAnswered \/ SpeculativeFails
         \/ Abandon \/ HangUp \/ WrapUpEnds \/ TimeOut
  PROVE  /\ dialing' \in Nat /\ ringing' \in Nat /\ waiting' \in Nat
         /\ talking' \in Nat /\ wrapping' \in Nat
         /\ ringing' + waiting' + extra' <= cap
         /\ dialing' + talking' + wrapping' <= available_agents
         /\ extra' = extra /\ pacing_scale' = pacing_scale
<1>0. /\ dialing \in Nat /\ ringing \in Nat /\ waiting \in Nat /\ talking \in Nat
      /\ wrapping \in Nat /\ available_agents \in Nat /\ extra \in Nat
  BY PacingAssumption DEF PacingTypeOK
<1>1. CASE OwnCallAnswered
  BY <1>0, <1>1 DEF OwnCallAnswered
<1>2. CASE Bridge
  BY <1>0, <1>2 DEF Bridge, FreeAgents
<1>3. CASE OwnCallFails
  BY <1>0, <1>3 DEF OwnCallFails
<1>4. CASE SpeculativeAnswered
  BY <1>0, <1>4 DEF SpeculativeAnswered
<1>5. CASE SpeculativeFails
  BY <1>0, <1>5 DEF SpeculativeFails
<1>6. CASE Abandon
  BY <1>0, <1>6 DEF Abandon
<1>7. CASE HangUp
  BY <1>0, <1>7 DEF HangUp
<1>8. CASE WrapUpEnds
  BY <1>0, <1>8 DEF WrapUpEnds
<1>9. CASE TimeOut
  <2>1. CASE dialing > 0 /\ dialing' = dialing - 1 /\ UNCHANGED <<ringing, talking>>
    BY <1>0, <1>9, <2>1 DEF TimeOut
  <2>2. CASE ringing > 0 /\ ringing' = ringing - 1 /\ UNCHANGED <<dialing, talking>>
    BY <1>0, <1>9, <2>2 DEF TimeOut
  <2>3. CASE talking > 0 /\ talking' = talking - 1 /\ UNCHANGED <<dialing, ringing>>
    BY <1>0, <1>9, <2>3 DEF TimeOut
  <2> QED
    BY <1>9, <2>1, <2>2, <2>3 DEF TimeOut
<1> QED
  BY <1>1, <1>2, <1>3, <1>4, <1>5, <1>6, <1>7, <1>8, <1>9 DEF AgentWasReady

\* Whatever becomes of the lines.
LEMMA EventsKeepInv ==
  ASSUME PacingInv,
         \/ AgentWasReady \/ OwnCallFails \/ SpeculativeAnswered \/ SpeculativeFails
         \/ Abandon \/ HangUp \/ WrapUpEnds \/ TimeOut
  PROVE  PacingInv'
<1> DEFINE cap == TargetLines(available_agents, hard_max_line_ratio)
<1>0. /\ cap \in Nat /\ extra \in Nat /\ ringing \in Nat /\ waiting \in Nat
      /\ pacing_scale \in min_pacing_scale .. ScaleUnit
      /\ ringing + waiting + extra <= cap
      /\ PacingTypeOK /\ dialing + talking + wrapping <= available_agents
  BY PacingAssumption, TargetLinesNat DEF PacingInv, PacingTypeOK, SpeculationWithinHardCap
<1>1. /\ outcomes' \in Seq(BOOLEAN) /\ Len(outcomes') <= window_size
      /\ abandon_outcomes' \in Seq(BOOLEAN) /\ Len(abandon_outcomes') <= feedback_window
      /\ provider_errors' \in Seq(BOOLEAN) /\ Len(provider_errors') <= feedback_window
  BY <1>0, WindowsKeepType
<1>2. /\ dialing' \in Nat /\ ringing' \in Nat /\ waiting' \in Nat
      /\ talking' \in Nat /\ wrapping' \in Nat
      /\ ringing' + waiting' + extra' <= cap
      /\ dialing' + talking' + wrapping' <= available_agents
      /\ extra' = extra /\ pacing_scale' = pacing_scale
  BY <1>0, LinesKeepBounds
<1>3. PacingTypeOK'
  BY <1>0, <1>1, <1>2 DEF PacingTypeOK
<1>4. SpeculationWithinHardCap'
  BY <1>2 DEF SpeculationWithinHardCap
<1> QED
  BY <1>3, <1>4 DEF PacingInv

THEOREM PacingInvariant == Spec => []PacingInv
<1>1. PacingInv /\ [Next]_vars => PacingInv'
  <2> SUFFICES ASSUME PacingInv, [Next]_vars PROVE PacingInv'
    OBVIOUS
  <2>1. CASE Next
    BY <2>1, DialingKeepsInv, EventsKeepInv DEF Next
  <2>2. CASE UNCHANGED vars
    BY <2>2 DEF vars, windows, lines, PacingInv, PacingTypeOK, SpeculationWithinHardCap
  <2> QED
    BY <2>1, <2>2
<1> QED
  BY PacingInit, <1>1, PTL DEF Spec

\* The types, and pacing_scale between its floor and full scale, for any headcount,
\* windows, rates and factors.
THEOREM PacingTypeCorrect == Spec => []PacingTypeOK
BY PacingInvariant, PTL DEF PacingInv

\* Speculative lines placed or approved stay within the multiple of the headcount,
\* whatever engine and ratchet make of the statistics.
THEOREM HardCapHolds == Spec => []SpeculationWithinHardCap
BY PacingInvariant, PTL DEF PacingInv

\* No statistics, no scale and no rounding make the controller approve more than
\* the engine requested.
THEOREM AdmissionOnlyReduces == Spec => []ControllerOnlyReduces
<1>1. PacingTypeOK => ControllerOnlyReduces
  BY Approved DEF ControllerOnlyReduces
<1> QED
  BY <1>1, PacingTypeCorrect, PTL

=============================================================================
