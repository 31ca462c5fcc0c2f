--------------------------- MODULE MCSessionExpiry ---------------------------
\* A small instance of SessionExpiry: two requests, and times in the order of the
\* real ones, 10 minutes being less than a tick (and what is longer than the 15
\* days without a flush not longer than these).
EXTENDS SessionExpiry

CONSTANTS p1, p2

TwoProcs == {p1, p2}
AllDrivers == {"mongo", "redis", "mysql"}
Terms == [k \in 0..4 |-> IF k < 3 THEN k ELSE 2]
=============================================================================
