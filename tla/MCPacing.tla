------------------------------ MODULE MCPacing ------------------------------
(* Pacing for TLC: rates at which every branch of the verdict is taken. *)
EXTENDS Pacing

TenPercent     == Percent(10)
ThirtyPercent  == Percent(30)
FortyPercent   == Percent(40)
SixtyPercent   == Percent(60)
MaxAnswerRate  == Percent(95)
TwoPerAgent    == Frac(2, 1)
ThreePerAgent  == Frac(3, 1)
Half           == Frac(1, 2)
Double         == Frac(2, 1)

=============================================================================
