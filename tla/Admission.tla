----------------------------- MODULE Admission -----------------------------
(***************************************************************************)
(* The arithmetic of predictive.py and safety_controller.py: rates over a  *)
(* window of outcomes, lines per agent, and the lines that may be added to *)
(* those in flight.  A float is an exact fraction here.                    *)
(***************************************************************************)
EXTENDS Naturals, Sequences, FiniteSets

Frac(n, d) == [num |-> n, den |-> d]

Percent(n) == Frac(n, 100)

Exceeds(q, r) == q.num * r.den > r.num * q.den

Smaller(q, r) == IF Exceeds(q, r) THEN r ELSE q

Larger(q, r) == IF Exceeds(q, r) THEN q ELSE r

\* deque(maxlen=size).append(outcome)
Record(window, size, outcome) ==
  IF Len(window) < size THEN Append(window, outcome) ELSE Append(Tail(window), outcome)

\* sum(window) / len(window), for a window that is not empty.
RateOf(window) == Frac(Cardinality({i \in DOMAIN window : window[i]}), Len(window))

\* round() of n / d: to the nearest integer, a tie to the even one.
Round(n, d) ==
  LET floor == n \div d
      twice == 2 * (n % d)
  IN  IF twice > d \/ (twice = d /\ floor % 2 = 1) THEN floor + 1 ELSE floor

\* round(available_agents * ratio)
TargetLines(available_agents, ratio) == Round(available_agents * ratio.num, ratio.den)

\* max(0, target - in_flight)
Missing(target, in_flight) == IF target > in_flight THEN target - in_flight ELSE 0

\* A wrong HardCap, that does not count the lines already open.
HardCapPerTick(available_agents, hard_max_line_ratio, in_flight) ==
  TargetLines(available_agents, hard_max_line_ratio)

HardCap(available_agents, hard_max_line_ratio, in_flight) ==
  Missing(TargetLines(available_agents, hard_max_line_ratio), in_flight)

\* What the worker may be told to dial, whatever the statistics say.
ApprovedCalls(available_agents, hard_max_line_ratio, in_flight) ==
  0 .. HardCap(available_agents, hard_max_line_ratio, in_flight)

=============================================================================
