------------------------------- MODULE Values -------------------------------
(* Value objects that the rules of several components share. *)
EXTENDS Integers

CONSTANT None   \* Python's None

Symbols == {"BTC", "ETH", "SOL", "XRP", "XAUT"}
Trends == {"LONG", "SHORT", "NEUTRAL"}

\* GateStatus is an IntEnum: the worst status is the largest.
Pass == 0
Caution == 1
Fail == 2
GateStatus == Pass..Fail

\* HealthStatus is ordered by _ORDER: the worst status is the largest.
Green == 0
Yellow == 1
Red == 2
HealthStatus == Green..Red

AbsoluteValue(n) == IF n < 0 THEN -n ELSE n

=============================================================================
