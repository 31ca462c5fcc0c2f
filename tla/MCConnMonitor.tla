---------------------------- MODULE MCConnMonitor ----------------------------
\* Small instances of ConnMonitor.  Two ids for two requests and an observer that
\* cancels: two open requests collide, and a free id is used again.
EXTENDS ConnMonitor

CONSTANTS r1, r2, o1, a, b, i1, i2

TwoRequests == {r1, r2}
OneObserver == {o1}
TwoPaths == {a, b}
TwoIds == {i1, i2}
=============================================================================
