--------------------------- MODULE MCStoreConnect ---------------------------
\* A small instance of StoreConnect: two requests and the maintenance of sessions.
EXTENDS StoreConnect, TLC

CONSTANTS p1, p2, c1, c2, c3

TwoRequests == {p1, p2}
ThreeConns == {c1, c2, c3}
AllDrivers == {"mongo", "redis", "mysql"}
Symmetry == Permutations(TwoRequests) \cup Permutations(ThreeConns)
=============================================================================
