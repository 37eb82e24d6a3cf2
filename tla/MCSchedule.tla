----------------------------- MODULE MCSchedule -----------------------------
(* Instances of Schedule: a late game, an early one two days later.        *)
EXTENDS Schedule

TwoGames == [g \in Games |-> IF g = CHOOSE h \in Games : TRUE THEN 2 ELSE 5]
ShortMonths == {0, 1, 3, 5}
=============================================================================
