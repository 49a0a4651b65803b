------------------------------ MODULE MCChecks ------------------------------
(* Values around every edge: both ends of the range of a port, with and    *)
(* without a fraction, timeouts that do and do not fit a Duration of 2^21  *)
(* nanoseconds, previews of nothing, of all, and of a body less one byte,  *)
(* and floats beyond an int64 on either side, which become the least one.  *)
EXTENDS Checks

Whole(n) == [type |-> "int", halves |-> 2 * n]
Fraction(n) == [type |-> "float", halves |-> n]
Other == [type |-> "other", halves |-> 0]
Beyond == {Fraction(n) : n \in {2 * HalfRange, -2 * HalfRange - 2}}

MCPorts ==
  {Absent, Other} \cup {Whole(n) : n \in {-1, 0, 1, 65535, 65536}}
    \cup {Fraction(n) : n \in {-1, 1, 3, 131071, 131073}} \cup Beyond

MCTimeouts ==
  {Absent, Other} \cup {Whole(n) : n \in {-1, 0, 1, 5000, 150000}}
    \cup {Fraction(n) : n \in {-3, 1, 10001}} \cup Beyond

MCStatuses == {Absent, Other, Whole(200), Fraction(401)} \cup Beyond

MCPreviews == {Absent, Other} \cup {Whole(n) : n \in {-1, 0, 1, 200, 201}} \cup Beyond

MCTooLarge == -HalfRange

MCFewPorts == {Whole(0), Whole(443)}

MCFewTimeouts == {Absent, Whole(5000)}
=============================================================================
