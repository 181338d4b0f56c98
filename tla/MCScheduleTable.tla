--------------------------- MODULE MCScheduleTable ---------------------------
(* Instances of ScheduleTable for TLC. *)
EXTENDS ScheduleTable, TLC

CONSTANTS k, c1, c2, w1, w2, g1, g2

EveryOne == {FixedInterval(1)}
EveryTwo == {FixedInterval(2)}
Noon == {DailyUtc(2)}
TwoCadences == {FixedInterval(2), DailyUtc(1)}

Alike == Permutations({c1, c2}) \cup Permutations({w1, w2}) \cup Permutations({g1, g2})
=============================================================================
