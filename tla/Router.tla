------------------------------- MODULE Router -------------------------------
(***************************************************************************)
(* The router (Router.go) and App.AddRouteLine: the list Routes of declared *)
(* routes, and the prefix tree that requests are looked up in.             *)
(*                                                                         *)
(* Nothing guards the two: updateTree puts an EMPTY tree in place and fills *)
(* it leaf by leaf while requests keep asking it; it stops at the first     *)
(* leaf that is there already; and Refresh replaces Routes before it knows  *)
(* whether there will be a tree.  One goroutine changes the table at a      *)
(* time, any number look routes up.  A lookup walks the tree branch by      *)
(* branch, and a tree that is being filled grows under it.  That is a race  *)
(* on its maps: the runtime may end the process, which starts again from    *)
(* Init; no state is added by that.                                         *)
(***************************************************************************)
EXTENDS Naturals, Sequences

CONSTANTS Clients,      \* goroutines that look up a route
          Lines,        \* the routes lines can declare
          Files,        \* what the routes file can say: sequences of lines
          WildPaths,    \* the declarable paths made of a variable, "/:id"
          Methods,      \* what a request asks
          Urls,
          NoRoute,      \* the lookup finds nothing
          Current,      \* a view: the client reads router.Tree itself
          MaxRoutes     \* bound on the length of Routes

\* The leaves that lines can have: a key of the tree, and the route behind it.
LeafKeys == ((({l.method : l \in Lines} \ {"*"}) \cup {":", "HEAD"})
             \X {l.path : l \in Lines})
TreeLeaves == [key : LeafKeys, route : Lines]

\* routeParseLine accepts the names of methods, and "*".
ASSUME RouterAssumption ==
    /\ \A l \in Lines : DOMAIN l = {"method", "path", "kind"}
    /\ \A l \in Lines : l.method # ":" /\ l.kind \in {"404", "call", "broken"}
    /\ Files \subseteq Seq(Lines)
    /\ NoRoute \notin Lines
    /\ Methods # {} /\ Urls # {}
    /\ Current \notin Seq(TreeLeaves)

VARIABLES source,       \* router.path: "file", or "memory" (AddRouteLine), or ""
          routes,       \* router.Routes
          tree,         \* router.Tree: its leaves in insertion order
          step,         \* where the goroutine that changes the table stands
          at,           \* the route updateTree is at
          partial,      \* the last updateTree ended with an error
          pc,           \* where each client stands
          ask,          \* what it asks
          view,         \* the tree it reads, when that is no longer router.Tree
          turn,         \* the branch of the tree it looks at next
          best,         \* the leaf it has found so far
          table,        \* history: the routes the present tree is made from
          before,       \* history: the tree before the present AddRouteLine
          orphaned,     \* history: a failed Refresh left a tree without Routes
          unchecked,    \* history: lines AddRouteLine added since the file was read
          due,          \* history: each client's answer by the table it fetched
          excused,      \* history: the tree it fetched was incomplete
          began         \* history: how many leaves that tree had

updater == <<source, routes, step, at, partial>>
lookups == <<pc, ask, view, turn, best, due, excused, began>>
history == <<table, before, orphaned, unchecked>>
vars == <<updater, tree, lookups, history>>

-----------------------------------------------------------------------------
\* Lines.  The action of a "broken" line is not Controller.Method, or names
\* what is not there: Route panics on it, or enroute ends the process.
\* validateRoute refuses such a line; AddRouteLine does not call it.

Valid(l) == l.kind \in {"404", "call"}

\* treePath: the method "*" becomes a variable path element.
TreePath(m, p) == <<IF m = "*" THEN ":" ELSE m, p>>

\* The leaves of a route: its own, and for a GET another under HEAD.
Leaf(m, l) == [key |-> TreePath(m, l.path), route |-> l]

OwnLeaf(l) == Leaf(l.method, l)
HeadLeaf(l) == Leaf("HEAD", l)

-----------------------------------------------------------------------------
\* The tree of github.com/robfig/pathtree: variable elements share one node
\* whatever their names; among matching leaves the one added first wins.

Node(key) == <<key[1], IF key[2] \in WildPaths THEN ":" ELSE key[2]>>

Taken(t, key) == \E i \in DOMAIN t : Node(t[i].key) = Node(key)

Matches(key, q) == /\ key[1] \in {":", q.method}
                   /\ key[2] \in WildPaths \cup {q.url}

\* A walk looks for the literal element of a node before the variable one, first the
\* method and then the path.
Branch(key) == 1 + (IF key[1] = ":" THEN 2 ELSE 0)
                 + (IF key[2] \in WildPaths THEN 1 ELSE 0)
Branches == 4

NoLeaf == [order |-> 0, route |-> NoRoute]

Least(S) == CHOOSE i \in S : \A j \in S : i <= j

Find(t, q) ==
    LET hits == {i \in DOMAIN t : Matches(t[i].key, q)}
    IN  IF hits = {} THEN NoRoute ELSE t[Least(hits)].route

-----------------------------------------------------------------------------
\* What the declaration means, independently of the tree: the first line that
\* accepts the method and the path; a GET line accepts HEAD requests.

Accepts(l, q) == /\ \/ l.method \in {"*", q.method}
                    \/ l.method = "GET" /\ q.method = "HEAD"
                 /\ l.path \in WildPaths \cup {q.url}

Declared(rs, q) ==
    LET hits == {i \in DOMAIN rs : Accepts(rs[i], q)}
    IN  IF hits = {} THEN NoRoute ELSE rs[Least(hits)]

Requests == [method : Methods, url : Urls]
SomeRequest == CHOOSE q \in Requests : TRUE        \* the ask of an idle client

\* updateTree is at work, or ended with an error: leaves may be missing.
Building == step \in {"adding", "head"}
Incomplete == Building \/ partial

\* The tree a client walks, and what it would find there all at once.
Walked(c) == IF view[c] = Current THEN tree ELSE view[c]
Served(c) == Find(Walked(c), ask[c])

-----------------------------------------------------------------------------
Init ==
    /\ source \in {"file", "memory", ""}
    /\ routes = << >>
    /\ tree = << >>
    /\ at = 0
    /\ step = "idle"
    /\ partial = FALSE
    /\ pc = [c \in Clients |-> "idle"]
    /\ ask = [c \in Clients |-> SomeRequest]
    /\ view = [c \in Clients |-> Current]
    /\ table = << >>
    /\ before = << >>
    /\ orphaned = FALSE
    /\ unchecked = {}
    /\ turn = [c \in Clients |-> 1]
    /\ best = [c \in Clients |-> NoLeaf]
    /\ due = [c \in Clients |-> NoRoute]
    /\ excused = [c \in Clients |-> FALSE]
    /\ began = [c \in Clients |-> 0]

-----------------------------------------------------------------------------
\* Changing the table.

\* AddRouteLine appends the route, valid or not, and updates the tree.
AddLineInFront(l) ==
    /\ step = "idle"
    /\ Len(routes) < MaxRoutes
    /\ routes' = <<l>> \o routes
    /\ step' = "swap"
    /\ before' = IF orphaned THEN << >> ELSE tree
    /\ unchecked' = unchecked \cup {l}
    /\ UNCHANGED <<source, at, partial, tree, lookups, table, orphaned>>

AddRouteLine(l) ==
    /\ step = "idle"
    /\ Len(routes) < MaxRoutes
    /\ routes' = Append(routes, l)
    /\ step' = "swap"
    /\ before' = IF orphaned THEN << >> ELSE tree
    /\ unchecked' = unchecked \cup {l}
    /\ UNCHANGED <<source, at, partial, tree, lookups, table, orphaned>>

\* Refresh of a router without a file only updates the tree.
RefreshTree ==
    /\ step = "idle"
    /\ source = ""
    /\ step' = "swap"
    /\ UNCHANGED <<source, routes, at, partial, tree, lookups, history>>

\* Refresh re-reads the file, and validates every line.
RefreshUnchecked(f) ==
    /\ step = "idle"
    /\ source = "file"
    /\ routes' = f
    /\ step' = "swap"
    /\ unchecked' = {}
    /\ UNCHANGED <<source, at, partial, tree, lookups, table, before, orphaned>>

RefreshFile(f) ==
    /\ step = "idle"
    /\ source = "file"
    /\ \A i \in DOMAIN f : Valid(f[i])
    /\ routes' = f
    /\ step' = "swap"
    /\ unchecked' = {}
    /\ UNCHANGED <<source, at, partial, tree, lookups, table, before, orphaned>>

\* When the file cannot be read (a router made by AddRouteLine has the path
\* "memory") or a line is refused, Routes becomes nil and the tree stays.
RefreshFails ==
    /\ step = "idle"
    /\ source # ""
    /\ routes' = << >>
    /\ orphaned' = (tree # << >>)
    /\ UNCHANGED <<source, at, partial, step, tree, lookups, table, before,
                   unchecked>>

\* updateTree puts an empty tree in place.  Clients that have fetched the old
\* one go on reading that.
ClearInPlace ==
    /\ step = "swap"
    /\ step' = "adding"
    /\ tree' = << >>
    /\ at' = 1
    /\ partial' = FALSE
    /\ table' = routes
    /\ orphaned' = FALSE
    /\ UNCHANGED <<source, routes, lookups, before, unchecked>>

Swap ==
    /\ step = "swap"
    /\ step' = "adding"
    /\ tree' = << >>
    /\ at' = 1
    /\ partial' = FALSE
    /\ table' = routes
    /\ orphaned' = FALSE
    /\ view' = [c \in Clients |-> IF pc[c] = "find" /\ view[c] = Current
                                  THEN tree ELSE view[c]]
    /\ UNCHANGED <<source, routes, pc, ask, turn, best, due, excused, began, before,
                   unchecked>>

\* Tree.Add puts a leaf in place, or refuses it and so ends the update.
PutReplaces(leaf, then) ==
    /\ tree' = IF Taken(tree, leaf.key)
               THEN [i \in DOMAIN tree |-> IF Node(tree[i].key) = Node(leaf.key)
                                          THEN leaf ELSE tree[i]]
               ELSE Append(tree, leaf)
    /\ step' = then
    /\ UNCHANGED partial

Put(leaf, then) ==
    \/ /\ ~Taken(tree, leaf.key)
       /\ tree' = Append(tree, leaf)
       /\ step' = then
       /\ UNCHANGED partial
    \/ /\ Taken(tree, leaf.key)
       /\ step' = "done"
       /\ partial' = TRUE
       /\ UNCHANGED tree

\* updateTree's loop: the leaf of a route, then for a GET the one under HEAD.
AddOwnOnly ==
    /\ step = "adding"
    /\ at <= Len(routes)
    /\ Put(OwnLeaf(routes[at]), "adding")
    /\ at' = at + 1
    /\ UNCHANGED <<source, routes, lookups, history>>

AddOwn ==
    /\ step = "adding"
    /\ at <= Len(routes)
    /\ IF routes[at].method = "GET"
         THEN Put(OwnLeaf(routes[at]), "head") /\ UNCHANGED at
         ELSE Put(OwnLeaf(routes[at]), "adding") /\ at' = at + 1
    /\ UNCHANGED <<source, routes, lookups, history>>

AddHead ==
    /\ step = "head"
    /\ Put(HeadLeaf(routes[at]), "adding")
    /\ at' = at + 1
    /\ UNCHANGED <<source, routes, lookups, history>>

AddedAll ==
    /\ step = "adding"
    /\ at > Len(routes)
    /\ step' = "done"
    /\ UNCHANGED <<source, routes, at, partial, tree, lookups, history>>

\* The change returns to its caller.
Return ==
    /\ step = "done"
    /\ step' = "idle"
    /\ at' = 0
    /\ before' = << >>
    /\ UNCHANGED <<source, routes, partial, tree, lookups, table, orphaned, unchecked>>

-----------------------------------------------------------------------------
\* Route: a client fetches router.Tree, then searches it.

Fetch(c, q) ==
    /\ pc[c] = "idle"
    /\ pc' = [pc EXCEPT ![c] = "find"]
    /\ ask' = [ask EXCEPT ![c] = q]
    /\ view' = [view EXCEPT ![c] = Current]
    /\ due' = [due EXCEPT ![c] = Declared(table, q)]
    /\ excused' = [excused EXCEPT ![c] = Incomplete]
    /\ began' = [began EXCEPT ![c] = Len(tree)]
    /\ UNCHANGED <<updater, tree, turn, best, history>>

\* The leaf that a branch has at this moment is kept if it was added before the one
\* found so far.
Visit(c) ==
    /\ pc[c] = "find"
    /\ turn[c] <= Branches
    /\ LET t == Walked(c)
           hits == {i \in DOMAIN t : Matches(t[i].key, ask[c]) /\ Branch(t[i].key) = turn[c]}
           first == Least(hits)
       IN  best' = [best EXCEPT ![c] =
                     IF hits # {} /\ (@ = NoLeaf \/ first < @.order)
                       THEN [order |-> first, route |-> t[first].route] ELSE @]
    /\ turn' = [turn EXCEPT ![c] = @ + 1]
    /\ UNCHANGED <<updater, tree, pc, ask, view, due, excused, began, history>>

\* ... and returns the route of that leaf.
Answer(c) ==
    /\ pc[c] = "find"
    /\ turn[c] > Branches
    /\ pc' = [pc EXCEPT ![c] = "idle"]
    /\ ask' = [ask EXCEPT ![c] = SomeRequest]
    /\ view' = [view EXCEPT ![c] = Current]
    /\ turn' = [turn EXCEPT ![c] = 1]
    /\ best' = [best EXCEPT ![c] = NoLeaf]
    /\ due' = [due EXCEPT ![c] = NoRoute]
    /\ excused' = [excused EXCEPT ![c] = FALSE]
    /\ began' = [began EXCEPT ![c] = 0]
    /\ UNCHANGED <<updater, tree, history>>

-----------------------------------------------------------------------------
Update == \/ \E l \in Lines : AddRouteLine(l)
          \/ RefreshTree
          \/ \E f \in Files : RefreshFile(f)
          \/ RefreshFails
          \/ Swap
          \/ AddOwn
          \/ AddHead
          \/ AddedAll
          \/ Return

Lookup == \E c \in Clients : \/ \E q \in Requests : Fetch(c, q)
                            \/ Visit(c)
                            \/ Answer(c)

Next == Update \/ Lookup

Spec == Init /\ [][Next]_vars

-----------------------------------------------------------------------------
\* Properties.

\* Every variable has its type.
TypeOK ==
    /\ source \in {"file", "memory", ""}
    /\ routes \in Seq(Lines) /\ table \in Seq(Lines)
    /\ tree \in Seq(TreeLeaves) /\ before \in Seq(TreeLeaves)
    /\ view \in [Clients -> Seq(TreeLeaves) \cup {Current}]
    /\ at \in Nat
    /\ step \in {"idle", "swap", "adding", "head", "done"}
    /\ partial \in BOOLEAN /\ orphaned \in BOOLEAN
    /\ unchecked \subseteq Lines
    /\ pc \in [Clients -> {"idle", "find"}]
    /\ ask \in [Clients -> Requests]
    /\ turn \in [Clients -> 1..(Branches + 1)]
    /\ best \in [Clients -> [order : Nat, route : Lines \cup {NoRoute}]]
    /\ due \in [Clients -> Lines \cup {NoRoute}]
    /\ excused \in [Clients -> BOOLEAN]
    /\ began \in [Clients -> Nat]

\* When no change is under way and the last one did not stop at a taken leaf,
\* the tree answers every request as the routes it was made from declare: the
\* insertion order of the leaves and the extra HEAD leaves come out as the
\* order of the lines (updateTree, Router.go:184-200).
TableIsDeclaration ==
    step \in {"idle", "swap", "done"} /\ ~partial =>
        \A q \in Requests : Find(tree, q) = Declared(table, q)

\* Half built or given up, the tree sends no request to a route that the whole
\* table would not send it to: what is missing is missing, never someone else's.
NeverMisroutes ==
    \A q \in Requests : Find(tree, q) \in {NoRoute, Declared(table, q)}

\* A lookup that began on a complete tree is answered as that tree's table says,
\* however often the table changes before it has finished (Route reads router.Tree
\* once, updateTree makes a new root).  One that began on an incomplete tree may find
\* nothing; and, when the tree is filled under its walk, it may return a line that
\* accepts the request but is not the first to do so -- but only a line that was added
\* after the lookup had begun.
AnswersAreRight ==
    \A c \in Clients : pc[c] = "find" /\ turn[c] > Branches =>
        \/ best[c].route = due[c]
        \/ excused[c] /\ \/ best[c] = NoLeaf
                         \/ best[c].order > began[c] /\ Accepts(best[c].route, ask[c])

\* AddRouteLine takes nothing away: once it has returned, with or without an
\* error, what was routed before goes where it went; unless a failed Refresh
\* had dropped Routes, when only the new line is left.
LinesSurvive ==
    step = "done" =>
        \A q \in Requests : Find(before, q) # NoRoute => Find(tree, q) = Find(before, q)

\* A route that was not validated is in the tree only if AddRouteLine put it in
\* since the file was last read: re-reading the file is the cure.
RefreshHeals ==
    step # "swap" =>
        \A i \in DOMAIN tree : Valid(tree[i].route) \/ tree[i].route \in unchecked
=============================================================================
