------------------------------ MODULE MCRouter ------------------------------
(***************************************************************************)
(* Lines that overlap in every way the tree tells apart: a path and any     *)
(* method on it, a GET and a HEAD of one path, two variables of different   *)
(* names; and a line that does not validate.                               *)
(***************************************************************************)
EXTENDS Router

CONSTANTS c1, a, b, id, name        \* the paths /a and /b, /:id and /:name

Line(m, p, k) == [method |-> m, path |-> p, kind |-> k]

GetA == Line("GET", a, "call")
AnyA == Line("*", a, "call")
GetName == Line("GET", name, "404")
HeadId == Line("HEAD", id, "broken")

SomeLines == {GetA, AnyA, GetName, HeadId}
SomeFiles == {<< >>, <<GetName, GetA>>, <<GetA, AnyA, GetName>>, <<AnyA, HeadId>>}
=============================================================================
