--------------------------- MODULE MCSessionStore ---------------------------
\* Small instances of SessionStore: two requests at a time over two sessions
\* are enough for overlap, stale cookies and resurrection.
EXTENDS SessionStore, TLC

CONSTANTS p1, p2, s1, s2

TwoProcs == {p1, p2}
TwoSids == {s1, s2}
AllDrivers == {"memory", "redis", "mongo", "mysql"}

Symmetry == Permutations(TwoProcs) \cup Permutations(TwoSids)
=============================================================================
