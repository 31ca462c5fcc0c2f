----------------------------- MODULE MCDispatch -----------------------------
\* Requests that meet each way through enroute and handleReq once.
EXTENDS Dispatch, TLC

CONSTANTS r1, r2

Ask(m, u, g, t, d) ==
    [method |-> m, upgrade |-> u, gzip |-> g, route |-> t, redirect |-> d]

Plain(t) == Ask("GET", FALSE, TRUE, t, FALSE)

SomeAsked ==
    {Plain(t) : t \in {"none", "404", "ghost", "nomethod", "call"}} \cup
    {Ask("GET", FALSE, TRUE, "call", TRUE),
     Ask("GET", TRUE, TRUE, "call", FALSE), Ask("POST", TRUE, FALSE, "call", FALSE),
     Ask("GET", TRUE, FALSE, "none", FALSE)}

TwoRequests == {r1, r2}
Symmetry == Permutations(TwoRequests)

\* With a database each request has a Session of its own, and the two share nothing: it is
\* enough to see one of them past enroute.
MCInit == /\ Init
          /\ driver = "database" =>
               \E r \in Requests : req[r].route \in {"none", "404", "ghost"}
MCSpec == MCInit /\ [][Next]_vars
=============================================================================
