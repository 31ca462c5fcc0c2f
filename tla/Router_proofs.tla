---------------------------- MODULE Router_proofs ----------------------------
(***************************************************************************)
(* Proofs about Router: for any lines, files, requests and number of        *)
(* clients, the prefix tree answers as the list of routes declares.         *)
(*                                                                         *)
(* The tree is compared with the declaration one line at a time: Prefix is  *)
(* what the first k lines declare, and while updateTree is at line k + 1    *)
(* the tree answers as Prefix(table, k, q) does.  That the answer of the    *)
(* first line that accepts a request is also that of the first leaf which   *)
(* matches it rests on the two lemmas FindAppend and PrefixGrows, and they  *)
(* on there being a least element (LeastIs).                                *)
(*                                                                         *)
(* And proofs about RouteLine, for a line of any length: the states of the  *)
(* scanner are followed stage by stage, from the last stage (ParameterIsRead)*)
(* to the first (MethodIsRead).  Within a stage the buffer is the part of   *)
(* the line since its word began; within the arguments ArgState ties the    *)
(* flag `quoted' and the count of backslashes to what InString and Escapes  *)
(* say of the line.                                                         *)
(***************************************************************************)
EXTENDS Router, MCTexts, SequenceTheorems, FiniteSetTheorems, WellFoundedInduction,
        TLAPS

Less == {p \in Nat \X Nat : p[1] < p[2]}

LEMMA LessIsWellFounded == IsWellFoundedOn(Less, Nat)
  BY NatLessThanWellFounded DEF OpToRel, Less

\* A set of numbers that is not empty has a least one.
LEMMA LeastIs ==
  ASSUME NEW S \in SUBSET Nat, S # {}
  PROVE  Least(S) \in S /\ \A j \in S : Least(S) <= j
<1>1. \E i \in S : \A j \in S : i <= j
  <2>1. PICK i \in S : \A j \in S : ~ (<<j, i>> \in Less)
    BY LessIsWellFounded, WFMin
  <2>2. \A j \in S : j \in Nat /\ i \in Nat /\ ~(j < i)
    BY <2>1 DEF Less
  <2>q. QED  BY <2>2
<1>q. QED  BY <1>1 DEF Least

\* Two sets with the same least number.
LEMMA SameLeast ==
  ASSUME NEW S \in SUBSET Nat, NEW W \in SUBSET Nat, S # {}, S \subseteq W,
         \A j \in W : j \in S \/ Least(S) <= j
  PROVE  Least(W) = Least(S)
<1>1. W # {}
  OBVIOUS
<1>2. Least(S) \in S /\ \A j \in S : Least(S) <= j
  BY LeastIs
<1>3. Least(W) \in W /\ \A j \in W : Least(W) <= j
  BY <1>1, LeastIs
<1>4. Least(W) \in Nat /\ Least(S) \in Nat
  BY <1>2, <1>3
<1>5. Least(W) <= Least(S) /\ Least(S) <= Least(W)
  BY <1>2, <1>3
<1>q. QED  BY <1>4, <1>5

-----------------------------------------------------------------------------
\* What the first k lines declare.
Hits(rs, k, q) == {i \in 1..k : Accepts(rs[i], q)}
Prefix(rs, k, q) == IF Hits(rs, k, q) = {} THEN NoRoute ELSE rs[Least(Hits(rs, k, q))]

LEMMA PrefixIsALine ==
  ASSUME NEW rs \in Seq(Lines), NEW k \in 0..Len(rs), NEW q
  PROVE  /\ Hits(rs, k, q) # {} <=> Prefix(rs, k, q) # NoRoute
         /\ Prefix(rs, k, q) \in Lines \cup {NoRoute}
<1>1. ASSUME Hits(rs, k, q) # {} PROVE Prefix(rs, k, q) \in Lines
  <2>0. Hits(rs, k, q) \in SUBSET Nat
    BY DEF Hits
  <2>1. Least(Hits(rs, k, q)) \in Hits(rs, k, q)
    BY <1>1, <2>0, LeastIs
  <2>2. Least(Hits(rs, k, q)) \in 1..Len(rs)
    BY <2>1 DEF Hits
  <2>q. QED  BY <1>1, <2>2, ElementOfSeq DEF Prefix
<1>q. QED  BY <1>1, RouterAssumption DEF Prefix, RouterAssumption

LEMMA NothingDeclared ==
  ASSUME NEW rs, NEW q PROVE Prefix(rs, 0, q) = NoRoute
BY DEF Prefix, Hits

LEMMA PrefixOfAll ==
  ASSUME NEW rs \in Seq(Lines), NEW q PROVE Prefix(rs, Len(rs), q) = Declared(rs, q)
<1>1. DOMAIN rs = 1..Len(rs)
  OBVIOUS
<1>q. QED  BY <1>1 DEF Prefix, Hits, Declared

\* One more line: it answers what no line before it does.
LEMMA PrefixGrows ==
  ASSUME NEW rs \in Seq(Lines), NEW k \in 1..Len(rs), NEW q
  PROVE  Prefix(rs, k, q) = IF Prefix(rs, k - 1, q) # NoRoute THEN Prefix(rs, k - 1, q)
                            ELSE IF Accepts(rs[k], q) THEN rs[k] ELSE NoRoute
<1> DEFINE H == Hits(rs, k - 1, q)
           G == Hits(rs, k, q)
<1>1. G = H \cup (IF Accepts(rs[k], q) THEN {k} ELSE {})
  BY DEF Hits
<1>2. H \in SUBSET Nat /\ G \in SUBSET Nat /\ \A i \in H : i < k
  BY DEF Hits
<1>3. CASE H # {}
  <2>1. Least(H) \in H
    BY <1>2, <1>3, LeastIs
  <2>2. Least(G) = Least(H)
    BY <1>1, <1>2, <1>3, <2>1, SameLeast
  <2>3. Prefix(rs, k - 1, q) # NoRoute
    BY <1>3, PrefixIsALine
  <2>q. QED  BY <1>1, <1>3, <2>2, <2>3 DEF Prefix
<1>4. CASE H = {} /\ Accepts(rs[k], q)
  <2>1. G = {k}
    BY <1>1, <1>4
  <2>2. Least(G) = k
    BY <1>2, <2>1, LeastIs
  <2>q. QED  BY <1>4, <2>1, <2>2 DEF Prefix
<1>5. CASE H = {} /\ ~Accepts(rs[k], q)
  BY <1>1, <1>5 DEF Prefix
<1>q. QED  BY <1>3, <1>4, <1>5

\* What some lines answer, all lines answer.
LEMMA PrefixDecides ==
  ASSUME NEW rs \in Seq(Lines), NEW k \in 0..Len(rs), NEW q
  PROVE  Prefix(rs, k, q) \in {NoRoute, Declared(rs, q)}
<1> DEFINE H == Hits(rs, k, q)
           G == Hits(rs, Len(rs), q)
<1>1. H \in SUBSET Nat /\ G \in SUBSET Nat /\ H \subseteq G
  BY DEF Hits
<1>2. CASE H = {}
  BY <1>2 DEF Prefix
<1>3. CASE H # {}
  <2>1. Least(H) \in H
    BY <1>1, <1>3, LeastIs
  <2>2. \A j \in G : j \in H \/ Least(H) <= j
    BY <2>1 DEF Hits
  <2>3. Least(G) = Least(H)
    BY <1>1, <1>3, <2>2, SameLeast
  <2>4. Prefix(rs, k, q) = Prefix(rs, Len(rs), q)
    BY <1>1, <1>3, <2>3 DEF Prefix
  <2>q. QED  BY <2>4, PrefixOfAll
<1>q. QED  BY <1>2, <1>3

\* One more leaf: it answers what no leaf before it does.
LEMMA FindAppend ==
  ASSUME NEW t \in Seq(TreeLeaves), NEW leaf \in TreeLeaves, NEW q
  PROVE  Find(Append(t, leaf), q) =
           IF Find(t, q) # NoRoute THEN Find(t, q)
           ELSE IF Matches(leaf.key, q) THEN leaf.route ELSE NoRoute
<1> DEFINE u == Append(t, leaf)
           H == {i \in DOMAIN t : Matches(t[i].key, q)}
           G == {i \in DOMAIN u : Matches(u[i].key, q)}
<1>1. /\ Len(t) \in Nat /\ DOMAIN t = 1..Len(t)
      /\ DOMAIN u = 1..(Len(t) + 1)
      /\ \A i \in 1..Len(t) : u[i] = t[i] /\ t[i] \in TreeLeaves
      /\ u[Len(t) + 1] = leaf
  OBVIOUS
<1>2. G = H \cup (IF Matches(leaf.key, q) THEN {Len(t) + 1} ELSE {})
  <2>1. \A i \in 1..Len(t) : i \in G <=> i \in H
    BY <1>1
  <2>2. Len(t) + 1 \in G <=> Matches(leaf.key, q)
    BY <1>1
  <2>3. H \subseteq 1..Len(t) /\ G \subseteq 1..(Len(t) + 1)
    BY <1>1
  <2>q. QED  BY <1>1, <2>1, <2>2, <2>3
<1>3. H \in SUBSET Nat /\ G \in SUBSET Nat /\ H \subseteq 1..Len(t)
  BY <1>1
<1>4. Find(t, q) = IF H = {} THEN NoRoute ELSE t[Least(H)].route
  BY DEF Find
<1>5. Find(u, q) = IF G = {} THEN NoRoute ELSE u[Least(G)].route
  BY DEF Find
<1> HIDE DEF H, G, u
<1>6. CASE H # {}
  <2>1. Least(H) \in H
    BY <1>3, <1>6, LeastIs
  <2>2. Least(G) = Least(H)
    BY <1>1, <1>2, <1>3, <1>6, <2>1, SameLeast
  <2>3. u[Least(H)] = t[Least(H)] /\ t[Least(H)] \in TreeLeaves
    BY <1>1, <1>3, <2>1
  <2>4. t[Least(H)].route # NoRoute
    BY <2>3, RouterAssumption DEF TreeLeaves, RouterAssumption
  <2>q. QED  BY <1>2, <1>4, <1>5, <1>6, <2>2, <2>3, <2>4 DEF u
<1>7. CASE H = {} /\ Matches(leaf.key, q)
  <2>1. G = {Len(t) + 1}
    BY <1>2, <1>7
  <2>2. Least(G) = Len(t) + 1
    BY <1>3, <2>1, LeastIs
  <2>q. QED  BY <1>1, <1>4, <1>5, <1>7, <2>1, <2>2 DEF u
<1>8. CASE H = {} /\ ~Matches(leaf.key, q)
  BY <1>2, <1>4, <1>5, <1>8 DEF u
<1>q. QED  BY <1>6, <1>7, <1>8

-----------------------------------------------------------------------------
\* The leaves of a line are found by what the line accepts.
LEMMA LeavesOfALine ==
  ASSUME NEW l \in Lines
  PROVE  /\ OwnLeaf(l) \in TreeLeaves /\ OwnLeaf(l).route = l
         /\ HeadLeaf(l) \in TreeLeaves /\ HeadLeaf(l).route = l
<1>1. OwnLeaf(l).key \in LeafKeys /\ HeadLeaf(l).key \in LeafKeys
  BY DEF OwnLeaf, HeadLeaf, Leaf, TreePath, LeafKeys
<1>q. QED  BY <1>1 DEF OwnLeaf, HeadLeaf, Leaf, TreeLeaves

LEMMA LeavesAccept ==
  ASSUME NEW l \in Lines, NEW q
  PROVE  /\ l.method # "GET" => (Accepts(l, q) <=> Matches(OwnLeaf(l).key, q))
         /\ l.method = "GET" => (Accepts(l, q) <=> \/ Matches(OwnLeaf(l).key, q)
                                                   \/ Matches(HeadLeaf(l).key, q))
BY RouterAssumption DEF Accepts, Matches, OwnLeaf, HeadLeaf, Leaf, TreePath, RouterAssumption

-----------------------------------------------------------------------------
\* The tree while it is built.
Growing ==
  /\ Building => routes = table /\ ~partial /\ at \in 1..(Len(table) + 1)
  /\ step = "adding" => \A q \in Requests : Find(tree, q) = Prefix(table, at - 1, q)
  /\ step = "head" =>
       /\ at <= Len(table) /\ table[at].method = "GET"
       /\ \A q \in Requests :
            Find(tree, q) = IF Prefix(table, at - 1, q) # NoRoute
                              THEN Prefix(table, at - 1, q)
                            ELSE IF Matches(OwnLeaf(table[at]).key, q)
                              THEN table[at] ELSE NoRoute

\* A client that reads the present tree asked when the present table was declared.
Asked(c) == pc[c] = "find" =>
  IF view[c] = Current
    THEN due[c] = Declared(table, ask[c]) /\ (excused[c] \/ ~Incomplete)
    ELSE \/ Find(view[c], ask[c]) = due[c]
         \/ Find(view[c], ask[c]) = NoRoute /\ excused[c]

(* The walk: what it has found is a leaf that answers the request, and none  *)
(* that was there when the lookup began, on a branch it has passed, is before *)
(* that one.                                                                 *)

HitsOn(t, q, k) == {i \in DOMAIN t : Matches(t[i].key, q) /\ Branch(t[i].key) = k}

Nearer(t, q, k, found) ==
  LET first == Least(HitsOn(t, q, k))
  IN  IF HitsOn(t, q, k) # {} /\ (found = NoLeaf \/ first < found.order)
        THEN [order |-> first, route |-> t[first].route] ELSE found

Found(t, q, found) == /\ found.order \in DOMAIN t
                      /\ Matches(t[found.order].key, q)
                      /\ found.route = t[found.order].route

WalkIs(t, q, k, n, found) ==
  /\ found = NoLeaf \/ Found(t, q, found)
  /\ \A i \in 1..n : Matches(t[i].key, q) /\ Branch(t[i].key) < k
                       => found # NoLeaf /\ found.order <= i

\* What a leaf matches, its route accepts.
Honest(t) == \A i \in DOMAIN t : \A q \in Requests :
               Matches(t[i].key, q) => Accepts(t[i].route, q)

Walking(c) ==
  /\ pc[c] = "idle" => turn[c] = 1 /\ best[c] = NoLeaf
  /\ pc[c] = "find" =>
       /\ Honest(Walked(c))
       /\ began[c] <= Len(Walked(c))
       /\ excused[c] \/ began[c] = Len(Walked(c))
       /\ WalkIs(Walked(c), ask[c], turn[c], began[c], best[c])

Known(l) == Valid(l) \/ l \in unchecked
Healed == /\ \A i \in DOMAIN routes : Known(routes[i])
          /\ step # "swap" => \A i \in DOMAIN tree : Known(tree[i].route)

(* Which leaves a tree has is decided by its table alone: those before the   *)
(* first one that clashes with another before it.  A table that is a line    *)
(* longer has the same leaves and perhaps more, so what was routed stays.    *)

\* The leaves of a table, as pairs of a line and which of its leaves.
Slots(rs) == {s \in (1..Len(rs)) \X {"own", "head"} : s[2] = "head" => rs[s[1]].method = "GET"}
Earlier(s, t) == s[1] < t[1] \/ (s[1] = t[1] /\ s[2] = "own" /\ t[2] = "head")
SlotLeaf(rs, s) == IF s[2] = "head" THEN HeadLeaf(rs[s[1]]) ELSE OwnLeaf(rs[s[1]])
SlotNode(rs, s) == Node(SlotLeaf(rs, s).key)

Past(rs, s) == {t \in Slots(rs) : Earlier(t, s)}
Clash(rs, s) == \E t \in Past(rs, s) : SlotNode(rs, t) = SlotNode(rs, s)
KeptSlots(rs) == {s \in Slots(rs) : ~Clash(rs, s) /\ \A t \in Past(rs, s) : ~Clash(rs, t)}

\* What some of the leaves answer.
SlotHits(rs, S, q) == {n \in 1..Len(rs) :
    \E s \in S : s[1] = n /\ Matches(SlotLeaf(rs, s).key, q)}
By(rs, S, q) == IF SlotHits(rs, S, q) = {} THEN NoRoute ELSE rs[Least(SlotHits(rs, S, q))]

\* The leaf updateTree is at.
Cur == <<at, IF step = "head" THEN "head" ELSE "own">>

Positioned ==
  /\ Building =>
       /\ \A q \in Requests : Find(tree, q) = By(table, Past(table, Cur), q)
       /\ \A s \in Past(table, Cur) : ~Clash(table, s)
       /\ \A key : Taken(tree, key) <=>
                      \E s \in Past(table, Cur) : SlotNode(table, s) = Node(key)
  /\ ~Building => \A q \in Requests : Find(tree, q) = By(table, KeptSlots(table), q)

\* What was routed before AddRouteLine goes where it went by the new table, too.
Standing ==
  /\ step \in {"adding", "head", "done"} => routes = table
  /\ step = "idle" => /\ before = << >>
                      /\ ~orphaned /\ tree # << >> => routes = table
  /\ \A q \in Requests : Find(before, q) # NoRoute =>
       LET rs == IF step = "swap" THEN routes ELSE table
       IN  By(rs, KeptSlots(rs), q) = Find(before, q)

TreeInv == Growing /\ TableIsDeclaration /\ NeverMisroutes

IInv == /\ TypeOK /\ TreeInv /\ Healed /\ Positioned /\ Standing
        /\ Honest(tree)
        /\ \A c \in Clients : Asked(c) /\ Walking(c)

\* The types, in five parts.
ListTypes == routes \in Seq(Lines) /\ table \in Seq(Lines)
TableTypes == /\ source \in {"file", "memory", ""}
              /\ at \in Nat
              /\ step \in {"idle", "swap", "adding", "head", "done"}
              /\ partial \in BOOLEAN /\ orphaned \in BOOLEAN
              /\ unchecked \subseteq Lines
TreeTypes == /\ tree \in Seq(TreeLeaves) /\ before \in Seq(TreeLeaves)
             /\ view \in [Clients -> Seq(TreeLeaves) \cup {Current}]
ClientTypes == /\ pc \in [Clients -> {"idle", "find"}]
               /\ ask \in [Clients -> Requests]
               /\ due \in [Clients -> Lines \cup {NoRoute}]
               /\ excused \in [Clients -> BOOLEAN]
WalkTypes == /\ turn \in [Clients -> 1..(Branches + 1)]
             /\ best \in [Clients -> [order : Nat, route : Lines \cup {NoRoute}]]
             /\ began \in [Clients -> Nat]

LEMMA Types == TypeOK <=> ListTypes /\ TableTypes /\ TreeTypes /\ ClientTypes /\ WalkTypes
  BY DEF TypeOK, ListTypes, TableTypes, TreeTypes, ClientTypes, WalkTypes

\* What Put does to a tree that grows.
LEMMA PutDoes ==
  ASSUME TypeOK, NEW leaf \in TreeLeaves, NEW then, Put(leaf, then)
  PROVE  /\ tree' \in Seq(TreeLeaves)
         /\ \/ tree' = Append(tree, leaf) /\ step' = then /\ UNCHANGED partial
            \/ tree' = tree /\ step' = "done" /\ partial' = TRUE
<1>1. tree \in Seq(TreeLeaves)
  BY DEF TypeOK
<1>q. QED  BY <1>1 DEF Put

\* The line the loop is at.
LEMMA LineAt ==
  IInv /\ (AddOwn \/ AddHead) =>
    /\ routes = table /\ ~partial /\ at \in 1..Len(table) /\ table[at] \in Lines
    /\ table \in Seq(Lines) /\ tree \in Seq(TreeLeaves) /\ UNCHANGED <<routes, table>>
    /\ step = IF AddHead THEN "head" ELSE "adding"
    /\ AddHead => table[at].method = "GET"
<1> SUFFICES ASSUME IInv, AddOwn \/ AddHead
             PROVE  /\ routes = table /\ ~partial /\ at \in 1..Len(table)
                    /\ table[at] \in Lines
                    /\ table \in Seq(Lines) /\ tree \in Seq(TreeLeaves)
                    /\ UNCHANGED <<routes, table>>
                    /\ step = IF AddHead THEN "head" ELSE "adding"
                    /\ AddHead => table[at].method = "GET"
  OBVIOUS
<1>1. table \in Seq(Lines) /\ tree \in Seq(TreeLeaves) /\ at \in Nat /\ Len(table) \in Nat
  BY Types, LenProperties DEF IInv, ListTypes, TableTypes, TreeTypes
<1>2. step = (IF AddHead THEN "head" ELSE "adding") /\ UNCHANGED <<routes, table>>
  BY DEF AddOwn, AddHead, history
<1>3. routes = table /\ ~partial /\ at \in 1..(Len(table) + 1)
  BY <1>2 DEF IInv, TreeInv, Growing, Building
<1>4. CASE AddOwn
  BY <1>1, <1>2, <1>3, <1>4, ElementOfSeq DEF AddOwn, AddHead
<1>5. CASE AddHead
  BY <1>1, <1>2, <1>3, <1>5, ElementOfSeq DEF IInv, TreeInv, Growing
<1>q. QED  BY <1>4, <1>5

LEMMA ListTypeStep == IInv /\ [Next]_vars => ListTypes'
<1> SUFFICES ASSUME IInv, [Next]_vars PROVE ListTypes'
  OBVIOUS
<1>0. ListTypes
  BY Types DEF IInv
<1>e. << >> \in Seq(Lines)
  OBVIOUS
<1>1. ASSUME NEW l \in Lines, AddRouteLine(l) PROVE ListTypes'
  <2>1. Append(routes, l) \in Seq(Lines)
    BY <1>0 DEF ListTypes
  <2>q. QED  BY <1>0, <1>1, <2>1 DEF ListTypes, AddRouteLine
<1>2. ASSUME NEW f \in Files, RefreshFile(f) PROVE ListTypes'
  BY <1>0, <1>2, RouterAssumption DEF ListTypes, RefreshFile, RouterAssumption
<1>3. CASE RefreshFails \/ Swap
  BY <1>0, <1>e, <1>3 DEF ListTypes, RefreshFails, Swap
<1>4. CASE RefreshTree \/ AddOwn \/ AddHead \/ AddedAll \/ Return
  BY <1>0, <1>4 DEF ListTypes, RefreshTree, AddOwn, AddHead, AddedAll, Return, history
<1>5. CASE UNCHANGED <<updater, tree, history>>
  BY <1>0, <1>5 DEF ListTypes, updater, history
<1>6. ASSUME NEW c \in Clients, Visit(c) \/ Answer(c) \/ \E q \in Requests : Fetch(c, q) PROVE ListTypes'
  BY <1>5, <1>6 DEF Visit, Answer, Fetch
<1>q. QED
  BY <1>1, <1>2, <1>3, <1>4, <1>5, <1>6 DEF Next, Update, Lookup, vars

LEMMA TableTypeStep == IInv /\ [Next]_vars => TableTypes'
<1> SUFFICES ASSUME IInv, [Next]_vars PROVE TableTypes'
  OBVIOUS
<1>0. TableTypes
  BY Types DEF IInv
<1>1. ASSUME NEW l \in Lines, AddRouteLine(l) PROVE TableTypes'
  BY <1>0, <1>1 DEF TableTypes, AddRouteLine
<1>2. CASE RefreshTree
  BY <1>0, <1>2 DEF TableTypes, RefreshTree, history
<1>3. ASSUME NEW f \in Files, RefreshFile(f) PROVE TableTypes'
  BY <1>0, <1>3 DEF TableTypes, RefreshFile
<1>4. CASE RefreshFails
  BY <1>0, <1>4 DEF TableTypes, RefreshFails
<1>5. CASE Swap
  BY <1>0, <1>5 DEF TableTypes, Swap
<1>6. CASE AddOwn \/ AddHead
  <2>1. at' = at \/ at' = at + 1
    BY <1>6 DEF AddOwn, AddHead
  <2>2. step' \in {"head", "adding", "done"} /\ (partial' = partial \/ partial' = TRUE)
    <3>1. ASSUME NEW leaf, NEW then \in {"head", "adding"}, Put(leaf, then)
          PROVE  /\ step' \in {"head", "adding", "done"}
                 /\ partial' = partial \/ partial' = TRUE
      BY <3>1 DEF Put
    <3>q. QED  BY <1>6, <3>1 DEF AddOwn, AddHead
  <2>3. UNCHANGED <<source, orphaned, unchecked>>
    BY <1>6 DEF AddOwn, AddHead, history
  <2>4. at' \in Nat
    <3>1. at \in Nat
      BY <1>0 DEF TableTypes
    <3>q. QED  BY <2>1, <3>1
  <2>5. partial' \in BOOLEAN
    BY <1>0, <2>2 DEF TableTypes
  <2>q. QED  BY <1>0, <2>2, <2>3, <2>4, <2>5 DEF TableTypes
<1>7. CASE AddedAll \/ Return
  <2>1. at' = at \/ at' = 0
    BY <1>7 DEF AddedAll, Return
  <2>2. at' \in Nat
    <3>1. at \in Nat
      BY <1>0 DEF TableTypes
    <3>q. QED  BY <2>1, <3>1
  <2>q. QED  BY <1>0, <1>7, <2>2 DEF TableTypes, AddedAll, Return, history
<1>8. CASE UNCHANGED <<updater, tree, history>>
  BY <1>0, <1>8 DEF TableTypes, updater, history
<1>9. ASSUME NEW c \in Clients, Visit(c) \/ Answer(c) \/ \E q \in Requests : Fetch(c, q) PROVE TableTypes'
  BY <1>8, <1>9 DEF Visit, Answer, Fetch
<1>q. QED
  BY <1>1, <1>2, <1>3, <1>4, <1>5, <1>6, <1>7, <1>8, <1>9 DEF Next, Update, Lookup, vars

LEMMA TreeTypeStep == IInv /\ [Next]_vars => TreeTypes'
<1> SUFFICES ASSUME IInv, [Next]_vars PROVE TreeTypes'
  OBVIOUS
<1>0. TreeTypes /\ ClientTypes
  BY Types DEF IInv
<1>e. << >> \in Seq(TreeLeaves)
  OBVIOUS
<1>1. ASSUME NEW l \in Lines, AddRouteLine(l) PROVE TreeTypes'
  BY <1>0, <1>1, <1>e DEF TreeTypes, AddRouteLine, lookups
<1>2. CASE RefreshTree \/ RefreshFails \/ AddedAll \/ \E f \in Files : RefreshFile(f)
  BY <1>0, <1>2 DEF TreeTypes, RefreshTree, RefreshFails, RefreshFile, AddedAll, lookups,
     history
<1>3. CASE Swap
  BY <1>0, <1>3, <1>e DEF TreeTypes, Swap
<1>4. CASE AddOwn \/ AddHead
  <2>1. OwnLeaf(routes[at]) \in TreeLeaves /\ HeadLeaf(routes[at]) \in TreeLeaves
    BY <1>4, LineAt, LeavesOfALine
  <2>2. tree' \in Seq(TreeLeaves)
    BY <1>4, <2>1, PutDoes DEF AddOwn, AddHead, IInv
  <2>q. QED  BY <1>0, <1>4, <2>2 DEF AddOwn, AddHead, TreeTypes, lookups, history
<1>5. CASE Return
  BY <1>0, <1>5, <1>e DEF TreeTypes, Return, lookups
<1>6. ASSUME NEW c \in Clients, Visit(c) \/ Answer(c) \/ \E q \in Requests : Fetch(c, q)
      PROVE  TreeTypes'
  <2>1. /\ view' = view \/ view' = [view EXCEPT ![c] = Current]
        /\ UNCHANGED <<tree, before>>
    BY <1>6 DEF Visit, Answer, Fetch, history
  <2>q. QED  BY <1>0, <2>1 DEF TreeTypes
<1>7. CASE UNCHANGED vars
  BY <1>0, <1>7 DEF TreeTypes, vars, lookups, history
<1>q. QED
  BY <1>1, <1>2, <1>3, <1>4, <1>5, <1>6, <1>7 DEF Next, Update, Lookup

LEMMA ClientTypeStep == IInv /\ [Next]_vars => ClientTypes'
<1> SUFFICES ASSUME IInv, [Next]_vars PROVE ClientTypes'
  OBVIOUS
<1>0. ClientTypes /\ TableTypes /\ ListTypes
  BY Types DEF IInv
<1>1. CASE UNCHANGED <<pc, ask, due, excused>>
  BY <1>0, <1>1 DEF ClientTypes
<1>2. CASE Update
  BY <1>1, <1>2 DEF Update, AddRouteLine, RefreshTree, RefreshFile, RefreshFails, Swap,
     AddOwn, AddHead, AddedAll, Return, lookups
<1>3. ASSUME NEW c \in Clients, Answer(c) PROVE ClientTypes'
  <2>1. Requests # {} => SomeRequest \in Requests
    BY DEF SomeRequest
  <2>2. ask[c] \in Requests
    BY <1>0, <1>3 DEF ClientTypes
  <2>q. QED  BY <1>0, <1>3, <2>1, <2>2 DEF ClientTypes, Answer
<1>4. ASSUME NEW c \in Clients, NEW q \in Requests, Fetch(c, q) PROVE ClientTypes'
  <2>1. Declared(table, q) \in Lines \cup {NoRoute}
    <3>1. table \in Seq(Lines)
      BY <1>0 DEF ListTypes
    <3>2. Prefix(table, Len(table), q) \in Lines \cup {NoRoute}
      BY <3>1, PrefixIsALine
    <3>q. QED  BY <3>1, <3>2, PrefixOfAll
  <2>2. Incomplete \in BOOLEAN
    BY <1>0 DEF Incomplete, Building, TableTypes
  <2>q. QED  BY <1>0, <1>4, <2>1, <2>2 DEF ClientTypes, Fetch
<1>5. CASE UNCHANGED vars
  BY <1>1, <1>5 DEF vars, lookups
<1>6. ASSUME NEW c \in Clients, Visit(c) PROVE ClientTypes'
  BY <1>1, <1>6 DEF Visit
<1>q. QED  BY <1>2, <1>3, <1>4, <1>5, <1>6 DEF Next, Lookup

\* The leaf that a visit finds, and what is known of the one it keeps.
LEMMA WalkedIs ==
  ASSUME TypeOK, NEW c \in Clients
  PROVE  Walked(c) \in Seq(TreeLeaves)
BY Types DEF TreeTypes, Walked

LEMMA VisitFinds ==
  ASSUME NEW t \in Seq(TreeLeaves), NEW q, NEW k, HitsOn(t, q, k) # {}
  PROVE  /\ Least(HitsOn(t, q, k)) \in HitsOn(t, q, k)
         /\ \A i \in HitsOn(t, q, k) : Least(HitsOn(t, q, k)) <= i
         /\ Least(HitsOn(t, q, k)) \in 1..Len(t)
         /\ t[Least(HitsOn(t, q, k))].route \in Lines
<1>1. HitsOn(t, q, k) \in SUBSET Nat /\ HitsOn(t, q, k) \subseteq 1..Len(t)
  BY DEF HitsOn
<1>2. \A i \in 1..Len(t) : t[i].route \in Lines
  <2>1. \A i \in 1..Len(t) : t[i] \in TreeLeaves
    BY ElementOfSeq
  <2>q. QED  BY <2>1 DEF TreeLeaves
<1>q. QED  BY <1>1, <1>2, LeastIs

\* What Visit does to the walk of its client.
LEMMA VisitDoes ==
  ASSUME TypeOK, NEW c \in Clients, Visit(c)
  PROVE  /\ best' = [best EXCEPT ![c] = Nearer(Walked(c), ask[c], turn[c], best[c])]
         /\ turn' = [turn EXCEPT ![c] = turn[c] + 1] /\ turn[c] \in 1..Branches
         /\ UNCHANGED <<updater, tree, pc, ask, view, due, excused, began, history>>
<1>1. c \in DOMAIN best /\ c \in DOMAIN turn /\ turn[c] \in 1..(Branches + 1)
  BY Types DEF WalkTypes
<1>q. QED  BY <1>1 DEF Visit, Nearer, HitsOn, Branches

LEMMA WalkTypeStep == IInv /\ [Next]_vars => WalkTypes'
<1> SUFFICES ASSUME IInv, [Next]_vars PROVE WalkTypes'
  OBVIOUS
<1>0. TypeOK /\ WalkTypes /\ TreeTypes /\ NoLeaf \in [order : Nat, route : Lines \cup {NoRoute}]
  BY Types DEF IInv, NoLeaf
<1>1. CASE UNCHANGED <<turn, best, began>>
  BY <1>0, <1>1 DEF WalkTypes
<1>2. CASE Update
  BY <1>1, <1>2 DEF Update, AddRouteLine, RefreshTree, RefreshFile, RefreshFails, Swap,
     AddOwn, AddHead, AddedAll, Return, lookups
<1>3. ASSUME NEW c \in Clients, Answer(c) PROVE WalkTypes'
  BY <1>0, <1>3 DEF WalkTypes, Answer, Branches
<1>4. ASSUME NEW c \in Clients, NEW q \in Requests, Fetch(c, q) PROVE WalkTypes'
  <2>1. Len(tree) \in Nat
    BY <1>0, LenProperties DEF TreeTypes
  <2>q. QED  BY <1>0, <1>4, <2>1 DEF WalkTypes, Fetch
<1>5. ASSUME NEW c \in Clients, Visit(c) PROVE WalkTypes'
  <2>1. Nearer(Walked(c), ask[c], turn[c], best[c]) \in [order : Nat, route : Lines \cup {NoRoute}]
    BY <1>0, WalkedIs, VisitFinds DEF Nearer, WalkTypes
  <2>2. turn[c] + 1 \in 1..(Branches + 1)
    BY <1>0, <1>5, VisitDoes DEF Branches
  <2>q. QED  BY <1>0, <1>5, <2>1, <2>2, VisitDoes DEF WalkTypes
<1>6. CASE UNCHANGED vars
  BY <1>1, <1>6 DEF vars, lookups
<1>q. QED  BY <1>2, <1>3, <1>4, <1>5, <1>6 DEF Next, Lookup

LEMMA TypeStep == IInv /\ [Next]_vars => TypeOK'
<1>1. ListTypes' /\ TableTypes' /\ TreeTypes' /\ ClientTypes' /\ WalkTypes' => TypeOK'
  BY DEF TypeOK, ListTypes, TableTypes, TreeTypes, ClientTypes, WalkTypes
<1>q. QED  BY <1>1, ListTypeStep, TableTypeStep, TreeTypeStep, ClientTypeStep, WalkTypeStep

\* AddOwn: the leaf of the line the loop is at.
LEMMA AddOwnStep == IInv /\ TypeOK' /\ AddOwn => TreeInv'
<1> SUFFICES ASSUME IInv, TypeOK', AddOwn PROVE TreeInv'
  OBVIOUS
<1> DEFINE l == table[at]
           P(q) == Prefix(table, at - 1, q)
<1>1. /\ step = "adding" /\ routes = table /\ ~partial /\ at \in 1..Len(table)
      /\ table \in Seq(Lines) /\ tree \in Seq(TreeLeaves) /\ UNCHANGED <<routes, table>>
  BY LineAt DEF AddOwn
<1>2. l \in Lines
  BY LineAt
<1>3. \A q \in Requests : Find(tree, q) = P(q)
  BY <1>1 DEF IInv, TreeInv, Growing
<1>4. \A q \in Requests : P(q) \in {NoRoute, Declared(table, q)}
  BY <1>1, PrefixDecides
<1>5. \A q \in Requests : Prefix(table, at, q) = IF P(q) # NoRoute THEN P(q)
                             ELSE IF Accepts(l, q) THEN l ELSE NoRoute
  BY <1>1, PrefixGrows
<1>6. \A q \in Requests : Prefix(table, at, q) \in {NoRoute, Declared(table, q)}
  BY <1>1, PrefixDecides
<1>7. CASE tree' = tree /\ step' = "done" /\ partial' = TRUE
  BY <1>1, <1>3, <1>4, <1>7
     DEF TreeInv, Growing, TableIsDeclaration, NeverMisroutes, Building
<1>8. CASE tree' = Append(tree, OwnLeaf(l)) /\ UNCHANGED partial
  <2>1. \A q \in Requests : Find(tree', q) = IF P(q) # NoRoute THEN P(q)
              ELSE IF Matches(OwnLeaf(l).key, q) THEN l ELSE NoRoute
    BY <1>1, <1>2, <1>3, <1>8, FindAppend, LeavesOfALine
  <2>2. \A q \in Requests : Matches(OwnLeaf(l).key, q) => Accepts(l, q)
    BY <1>2, LeavesAccept
  <2>3. NeverMisroutes'
    BY <1>1, <1>5, <1>6, <2>1, <2>2 DEF NeverMisroutes
  <2>4. CASE l.method = "GET" /\ step' = "head" /\ at' = at
    BY <1>1, <1>8, <2>1, <2>3, <2>4 DEF TreeInv, Growing, TableIsDeclaration, Building
  <2>5. CASE l.method # "GET" /\ step' = "adding" /\ at' = at + 1
    <3>1. \A q \in Requests : Matches(OwnLeaf(l).key, q) <=> Accepts(l, q)
      BY <1>2, <2>5, LeavesAccept
    <3>2. \A q \in Requests : Find(tree', q) = Prefix(table, at' - 1, q)
      BY <1>1, <1>5, <2>1, <2>5, <3>1
    <3>q. QED
      BY <1>1, <1>8, <2>3, <2>5, <3>2 DEF TreeInv, Growing, TableIsDeclaration, Building
  <2>q. QED  BY <1>1, <1>8, <2>4, <2>5 DEF AddOwn, Put
<1>q. QED  BY <1>1, <1>7, <1>8 DEF AddOwn, Put

\* AddHead: the second leaf of a GET.
LEMMA AddHeadStep == IInv /\ TypeOK' /\ AddHead => TreeInv'
<1> SUFFICES ASSUME IInv, TypeOK', AddHead PROVE TreeInv'
  OBVIOUS
<1> DEFINE l == table[at]
           P(q) == Prefix(table, at - 1, q)
<1>1. /\ step = "head" /\ routes = table /\ ~partial /\ at \in 1..Len(table)
      /\ table \in Seq(Lines) /\ tree \in Seq(TreeLeaves) /\ UNCHANGED <<routes, table>>
      /\ l.method = "GET" /\ at' = at + 1
  BY LineAt DEF AddHead
<1>2. l \in Lines
  BY LineAt
<1>3. \A q \in Requests : Find(tree, q) = IF P(q) # NoRoute THEN P(q)
              ELSE IF Matches(OwnLeaf(l).key, q) THEN l ELSE NoRoute
  BY <1>1 DEF IInv, TreeInv, Growing
<1>4. \A q \in Requests : Accepts(l, q) <=> \/ Matches(OwnLeaf(l).key, q)
                                            \/ Matches(HeadLeaf(l).key, q)
  BY <1>1, <1>2, LeavesAccept
<1>5. \A q \in Requests : Prefix(table, at, q) = IF P(q) # NoRoute THEN P(q)
                             ELSE IF Accepts(l, q) THEN l ELSE NoRoute
  BY <1>1, PrefixGrows
<1>6. \A q \in Requests : Prefix(table, at, q) \in {NoRoute, Declared(table, q)}
  BY <1>1, PrefixDecides
<1>7. l # NoRoute
  BY <1>2, RouterAssumption DEF RouterAssumption
<1>8. CASE tree' = tree /\ step' = "done" /\ partial' = TRUE
  BY <1>1, <1>8 DEF IInv, TreeInv, Growing, TableIsDeclaration, NeverMisroutes, Building
<1>9. CASE tree' = Append(tree, HeadLeaf(l)) /\ step' = "adding" /\ UNCHANGED partial
  <2>1. \A q \in Requests : Find(tree', q) = IF Find(tree, q) # NoRoute THEN Find(tree, q)
              ELSE IF Matches(HeadLeaf(l).key, q) THEN l ELSE NoRoute
    BY <1>1, <1>2, <1>9, FindAppend, LeavesOfALine
  <2>2. \A q \in Requests : Find(tree', q) = Prefix(table, at, q)
    BY <1>3, <1>4, <1>5, <1>7, <2>1
  <2>3. NeverMisroutes'
    BY <1>1, <1>6, <2>2 DEF NeverMisroutes
  <2>q. QED
    BY <1>1, <1>9, <2>2, <2>3 DEF TreeInv, Growing, TableIsDeclaration, Building
<1>q. QED  BY <1>1, <1>8, <1>9 DEF AddHead, Put

LEMMA TreeStep == IInv /\ TypeOK' /\ [Next]_vars => TreeInv'
<1> SUFFICES ASSUME IInv, TypeOK', [Next]_vars PROVE TreeInv'
  OBVIOUS
<1>1. ASSUME NEW l \in Lines, AddRouteLine(l) PROVE TreeInv'
  BY <1>1 DEF IInv, AddRouteLine, TreeInv, Growing, TableIsDeclaration, NeverMisroutes,
     Building
<1>2. CASE RefreshTree
  BY <1>2 DEF IInv, RefreshTree, TreeInv, Growing, TableIsDeclaration, NeverMisroutes,
     Building, history
<1>3. ASSUME NEW f \in Files, RefreshFile(f) PROVE TreeInv'
  BY <1>3 DEF IInv, RefreshFile, TreeInv, Growing, TableIsDeclaration, NeverMisroutes,
     Building
<1>4. CASE RefreshFails
  BY <1>4 DEF IInv, RefreshFails, TreeInv, Growing, TableIsDeclaration, NeverMisroutes,
     Building
<1>5. CASE Swap
  <2>1. \A q : Find(<< >>, q) = NoRoute
    BY DEF Find
  <2>2. \A q : Prefix(table', 0, q) = NoRoute
    BY NothingDeclared
  <2>3. table' = routes /\ Len(routes) \in Nat
    BY <1>5, Types, LenProperties DEF IInv, ListTypes, Swap
  <2>q. QED
    BY <1>5, <2>1, <2>2, <2>3 DEF IInv, Swap, TreeInv, Growing, TableIsDeclaration,
       NeverMisroutes, Building
<1>6. CASE AddOwn
  BY <1>6, AddOwnStep
<1>7. CASE AddHead
  BY <1>7, AddHeadStep
<1>8. CASE AddedAll
  <2>1. /\ step = "adding" /\ step' = "done" /\ at = Len(table) + 1
        /\ UNCHANGED <<tree, table, partial>> /\ table \in Seq(Lines)
    <3>1. table \in Seq(Lines) /\ Len(table) \in Nat /\ at \in Nat
      BY Types, LenProperties DEF IInv, ListTypes, TableTypes
    <3>q. QED  BY <1>8, <3>1 DEF IInv, TreeInv, Growing, Building, AddedAll, history
  <2>2. \A q \in Requests : Find(tree, q) = Declared(table, q)
    <3>1. \A q \in Requests : Find(tree, q) = Prefix(table, at - 1, q)
      BY <2>1 DEF IInv, TreeInv, Growing
    <3>2. at - 1 = Len(table)
      BY <2>1
    <3>q. QED  BY <2>1, <3>1, <3>2, PrefixOfAll
  <2>q. QED
    BY <2>1, <2>2 DEF TreeInv, Growing, TableIsDeclaration, NeverMisroutes, Building
<1>9. CASE Return
  BY <1>9 DEF IInv, Return, TreeInv, Growing, TableIsDeclaration, NeverMisroutes, Building
<1>10. CASE UNCHANGED <<updater, tree, history>>
  BY <1>10 DEF IInv, TreeInv, Growing, TableIsDeclaration, NeverMisroutes, Building,
     updater, history
<1>11. ASSUME NEW c \in Clients, Visit(c) \/ Answer(c) \/ \E q \in Requests : Fetch(c, q) PROVE TreeInv'
  BY <1>10, <1>11 DEF Visit, Answer, Fetch
<1>q. QED
  BY <1>1, <1>2, <1>3, <1>4, <1>5, <1>6, <1>7, <1>8, <1>9, <1>10, <1>11
     DEF Next, Update, Lookup, vars

-----------------------------------------------------------------------------
\* A client's answer is settled when it fetches the tree, or when that is replaced.
LEMMA AskedStep == IInv /\ TypeOK' /\ TreeInv' /\ [Next]_vars => \A c \in Clients : Asked(c)'
<1> SUFFICES ASSUME IInv, TypeOK', TreeInv', [Next]_vars, NEW c \in Clients PROVE Asked(c)'
  OBVIOUS
<1>0. Asked(c) /\ TreeInv /\ ClientTypes /\ ClientTypes'
  BY Types DEF IInv, TypeOK, ClientTypes
<1>1. CASE /\ UNCHANGED <<pc, ask, view, due, excused, table>>
           /\ ~Incomplete => ~Incomplete'
  BY <1>0, <1>1 DEF Asked
<1>2. ASSUME NEW l \in Lines, AddRouteLine(l) PROVE Asked(c)'
  BY <1>1, <1>2 DEF AddRouteLine, lookups, Incomplete, Building
<1>3. CASE RefreshTree \/ RefreshFails \/ \E f \in Files : RefreshFile(f)
  BY <1>1, <1>3 DEF RefreshTree, RefreshFails, RefreshFile, lookups, history, Incomplete,
     Building
<1>4. CASE AddOwn \/ AddHead \/ AddedAll
  BY <1>1, <1>4 DEF AddOwn, AddHead, AddedAll, lookups, history, Incomplete, Building
<1>5. CASE Return
  BY <1>1, <1>5 DEF Return, lookups, Incomplete, Building
<1>6. CASE Swap
  <2>1. CASE pc[c] = "find" /\ view[c] = Current
    <3>1. view'[c] = tree /\ tree # Current
      BY <1>6, <2>1, Types, RouterAssumption DEF IInv, TreeTypes, Swap, RouterAssumption
    <3>2. UNCHANGED <<pc, ask, due, excused>> /\ ask[c] \in Requests
      BY <1>0, <1>6 DEF Swap, ClientTypes
    <3>3. due[c] = Declared(table, ask[c]) /\ (excused[c] \/ ~Incomplete)
      BY <1>0, <2>1 DEF Asked
    <3>4. step = "swap"
      BY <1>6 DEF Swap
    <3>5. /\ Find(tree, ask[c]) \in {NoRoute, Declared(table, ask[c])}
          /\ ~partial => Find(tree, ask[c]) = Declared(table, ask[c])
      BY <1>0, <3>2, <3>4 DEF TreeInv, NeverMisroutes, TableIsDeclaration
    <3>q. QED  BY <2>1, <3>1, <3>2, <3>3, <3>5 DEF Asked, Incomplete
  <2>2. CASE ~(pc[c] = "find" /\ view[c] = Current)
    <3>1. view'[c] = view[c]
      BY <1>6, <2>2 DEF Swap
    <3>q. QED  BY <1>0, <1>6, <2>2, <3>1 DEF Asked, Swap
  <2>q. QED  BY <2>1, <2>2
<1>7. ASSUME NEW d \in Clients, Answer(d) PROVE Asked(c)'
  <2>1. UNCHANGED <<table, partial, step>>
    BY <1>7 DEF Answer, updater, history
  <2>2. CASE c = d
    BY <1>0, <1>7, <2>2 DEF Answer, Asked, ClientTypes
  <2>3. CASE c # d
    <3>1. /\ pc'[c] = pc[c] /\ ask'[c] = ask[c] /\ view'[c] = view[c]
          /\ due'[c] = due[c] /\ excused'[c] = excused[c]
      BY <1>0, <1>7, <2>3, Types DEF IInv, TreeTypes, ClientTypes, Answer
    <3>q. QED  BY <1>0, <2>1, <3>1 DEF Asked, Incomplete, Building
  <2>q. QED  BY <2>2, <2>3
<1>8. ASSUME NEW d \in Clients, NEW q \in Requests, Fetch(d, q) PROVE Asked(c)'
  <2>1. UNCHANGED <<table, partial, step>>
    BY <1>8 DEF Fetch, updater, history
  <2>2. CASE c = d
    <3>1. /\ ask'[c] = q /\ view'[c] = Current /\ due'[c] = Declared(table, q)
          /\ excused'[c] = Incomplete
      BY <1>0, <1>8, <2>2, Types DEF IInv, TreeTypes, ClientTypes, Fetch
    <3>q. QED  BY <2>1, <3>1 DEF Asked, Incomplete, Building
  <2>3. CASE c # d
    <3>1. /\ pc'[c] = pc[c] /\ ask'[c] = ask[c] /\ view'[c] = view[c]
          /\ due'[c] = due[c] /\ excused'[c] = excused[c]
      BY <1>0, <1>8, <2>3, Types DEF IInv, TreeTypes, ClientTypes, Fetch
    <3>q. QED  BY <1>0, <2>1, <3>1 DEF Asked, Incomplete, Building
  <2>q. QED  BY <2>2, <2>3
<1>9. CASE UNCHANGED vars
  BY <1>1, <1>9 DEF vars, updater, lookups, history, Incomplete, Building
<1>10. ASSUME NEW d \in Clients, Visit(d) PROVE Asked(c)'
  BY <1>1, <1>10 DEF Visit, updater, history, Incomplete, Building
<1>q. QED
  BY <1>2, <1>3, <1>4, <1>5, <1>6, <1>7, <1>8, <1>9, <1>10 DEF Next, Update, Lookup

\* A tree that grows at its end takes nothing from a walk.
LEMMA WalkGrows ==
  ASSUME NEW t \in Seq(TreeLeaves), NEW leaf \in TreeLeaves, NEW n \in 0..Len(t),
         NEW q, NEW k, NEW found, WalkIs(t, q, k, n, found)
  PROVE  WalkIs(Append(t, leaf), q, k, n, found)
<1> DEFINE u == Append(t, leaf)
<1>1. /\ DOMAIN t = 1..Len(t) /\ DOMAIN u = 1..(Len(t) + 1) /\ Len(t) \in Nat
      /\ \A i \in 1..Len(t) : u[i] = t[i]
  OBVIOUS
<1> HIDE DEF u
<1>2. found = NoLeaf \/ Found(u, q, found)
  BY <1>1 DEF WalkIs, Found
<1>3. \A i \in 1..n : u[i] = t[i]
  BY <1>1
<1>4. WalkIs(u, q, k, n, found)
  BY <1>2, <1>3 DEF WalkIs
<1>q. QED  BY <1>4 DEF u

\* One more branch.
LEMMA WalkVisits ==
  ASSUME NEW t \in Seq(TreeLeaves), NEW n \in 0..Len(t), NEW q, NEW k \in 1..Branches,
         NEW found \in [order : Nat, route : Lines \cup {NoRoute}],
         WalkIs(t, q, k, n, found)
  PROVE  WalkIs(t, q, k + 1, n, Nearer(t, q, k, found))
<1> DEFINE H == HitsOn(t, q, k)
           g == Nearer(t, q, k, found)
<1>1. DOMAIN t = 1..Len(t) /\ Len(t) \in Nat /\ n \in Nat /\ n <= Len(t)
  OBVIOUS
<1>2. \A i \in 1..n : Matches(t[i].key, q) /\ Branch(t[i].key) < k + 1
                     => i \in H \/ Branch(t[i].key) < k
  <2>1. \A key : Branch(key) \in Nat
    BY DEF Branch
  <2>q. QED  BY <1>1, <2>1 DEF HitsOn, Branches
<1>3. CASE H = {}
  <2>1. g = found
    BY <1>3 DEF Nearer
  <2>q. QED  BY <1>2, <1>3, <2>1 DEF WalkIs
<1>4. CASE H # {} /\ (found = NoLeaf \/ Least(H) < found.order)
  <2>1. g = [order |-> Least(H), route |-> t[Least(H)].route]
    BY <1>4 DEF Nearer
  <2>2. /\ Least(H) \in H /\ Least(H) \in 1..Len(t)
        /\ \A i \in H : Least(H) <= i
    BY <1>4, VisitFinds
  <2>3. g # NoLeaf /\ Found(t, q, g) /\ g.order = Least(H)
    BY <1>1, <2>1, <2>2 DEF Found, NoLeaf, HitsOn
  <2>4. \A i \in 1..n : Matches(t[i].key, q) /\ Branch(t[i].key) < k => Least(H) <= i
    <3>1. \A i \in 1..n : Matches(t[i].key, q) /\ Branch(t[i].key) < k
            => found # NoLeaf /\ found.order <= i
      BY DEF WalkIs
    <3>2. found.order \in Nat /\ Least(H) \in Nat
      BY <2>2
    <3>q. QED  BY <1>1, <1>4, <3>1, <3>2
  <2> HIDE DEF g, H
  <2>5. WalkIs(t, q, k + 1, n, g)
    BY <1>2, <2>2, <2>3, <2>4 DEF WalkIs
  <2>q. QED  BY <2>5 DEF g
<1>5. CASE H # {} /\ found # NoLeaf /\ ~(Least(H) < found.order)
  <2>1. g = found
    BY <1>5 DEF Nearer
  <2>2. /\ Least(H) \in 1..Len(t) /\ \A i \in H : Least(H) <= i
    BY <1>5, VisitFinds
  <2>3. \A i \in H : found.order <= i
    <3>1. H \subseteq Nat /\ found.order \in Nat /\ Least(H) \in Nat
      BY <1>1, <2>2 DEF HitsOn
    <3>2. found.order <= Least(H)
      BY <1>5, <3>1
    <3>q. QED  BY <2>2, <3>1, <3>2
  <2> HIDE DEF g, H
  <2>4. WalkIs(t, q, k + 1, n, g)
    BY <1>2, <1>5, <2>1, <2>3 DEF WalkIs
  <2>q. QED  BY <2>4 DEF g
<1>q. QED  BY <1>3, <1>4, <1>5

\* Past the last branch: a walk that found no leaf passed none of those that were there
\* when it began, and one that found one of these found the first.
LEMMA WalkEnds ==
  ASSUME NEW t \in Seq(TreeLeaves), NEW n \in 0..Len(t), NEW q, NEW found,
         WalkIs(t, q, Branches + 1, n, found)
  PROVE  /\ found = NoLeaf /\ n = Len(t) => Find(t, q) = NoRoute
         /\ Found(t, q, found) /\ found.order <= n => Find(t, q) = found.route
<1> DEFINE H == {i \in DOMAIN t : Matches(t[i].key, q)}
<1>1. DOMAIN t = 1..Len(t) /\ Len(t) \in Nat /\ n \in Nat /\ n <= Len(t)
  OBVIOUS
<1>2. \A key : Branch(key) < Branches + 1
  BY DEF Branch, Branches
<1>3. \A i \in 1..n : i \in H => found # NoLeaf /\ found.order <= i
  BY <1>1, <1>2 DEF WalkIs
<1>4. H \in SUBSET Nat /\ H \subseteq 1..Len(t)
  BY <1>1
<1>5. Find(t, q) = IF H = {} THEN NoRoute ELSE t[Least(H)].route
  BY DEF Find
<1>6. ASSUME found = NoLeaf, n = Len(t) PROVE Find(t, q) = NoRoute
  BY <1>3, <1>4, <1>5, <1>6
<1>7. ASSUME Found(t, q, found), found.order <= n PROVE Find(t, q) = found.route
  <2>1. found.order \in H
    BY <1>7 DEF Found
  <2>2. Least(H) \in H /\ Least(H) <= found.order
    BY <1>4, <2>1, LeastIs
  <2>3. found.order \in Nat /\ Least(H) \in Nat /\ Least(H) \in 1..n
    BY <1>1, <1>4, <1>7, <2>1, <2>2
  <2>4. found.order <= Least(H)
    BY <1>3, <2>2, <2>3
  <2>5. Least(H) = found.order
    BY <2>2, <2>3, <2>4
  <2>q. QED  BY <1>5, <1>7, <2>1, <2>5 DEF Found
<1>q. QED  BY <1>6, <1>7

LEMMA AppendHas ==
  ASSUME NEW S, NEW t \in Seq(S), NEW e \in S
  PROVE  \A i \in DOMAIN Append(t, e) :
            Append(t, e)[i] = e \/ (i \in DOMAIN t /\ Append(t, e)[i] = t[i])
OBVIOUS

\* Leaves are made from the lines they lead to.
LEMMA HonestStep == IInv /\ [Next]_vars => Honest(tree)'
<1> SUFFICES ASSUME IInv, [Next]_vars PROVE Honest(tree)'
  OBVIOUS
<1>1. CASE UNCHANGED tree
  BY <1>1 DEF IInv, Honest
<1>2. CASE AddOwn \/ AddHead
  <2>1. PICK leaf \in {OwnLeaf(routes[at]), HeadLeaf(routes[at])} :
          /\ tree' = tree \/ tree' = Append(tree, leaf)
          /\ leaf = OwnLeaf(routes[at]) \/ routes[at].method = "GET"
    <3>1. CASE AddOwn
      BY <3>1 DEF AddOwn, Put
    <3>2. CASE AddHead
      <4>1. routes[at].method = "GET"
        BY <3>2, LineAt
      <4>q. QED  BY <3>2, <4>1 DEF AddHead, Put
    <3>q. QED  BY <1>2, <3>1, <3>2
  <2>2. routes[at] \in Lines /\ tree \in Seq(TreeLeaves)
    BY <1>2, LineAt
  <2>3. leaf \in TreeLeaves /\ leaf.route = routes[at]
    BY <2>1, <2>2, LeavesOfALine
  <2>4. \A q \in Requests : Matches(leaf.key, q) => Accepts(leaf.route, q)
    BY <2>1, <2>2, <2>3, LeavesAccept
  <2>5. CASE tree' = Append(tree, leaf)
    <3>1. \A i \in DOMAIN tree' : tree'[i] = leaf \/ (i \in DOMAIN tree /\ tree'[i] = tree[i])
      BY <2>2, <2>3, <2>5, AppendHas
    <3>q. QED  BY <2>4, <3>1 DEF IInv, Honest
  <2>q. QED  BY <1>1, <2>1, <2>5
<1>3. CASE Swap
  BY <1>3 DEF Swap, Honest
<1>q. QED
  BY <1>1, <1>2, <1>3 DEF Next, Update, Lookup, AddRouteLine, RefreshTree, RefreshFile,
     RefreshFails, AddedAll, Return, Visit, Answer, Fetch, vars

\* A client's walk goes on through the tree it fetched; that one may grow, unless it was
\* complete.
LEMMA WalkStep == IInv /\ TypeOK' /\ [Next]_vars => \A c \in Clients : Walking(c)'
<1> SUFFICES ASSUME IInv, TypeOK', [Next]_vars, NEW c \in Clients PROVE Walking(c)'
  OBVIOUS
<1>0. /\ TypeOK /\ ClientTypes /\ WalkTypes /\ TreeTypes /\ Walking(c) /\ Asked(c)
      /\ Honest(tree) /\ Walked(c) \in Seq(TreeLeaves)
  BY Types, WalkedIs DEF IInv
<1>1. CASE UNCHANGED <<pc, ask, turn, best, excused, began>> /\ Walked(c)' = Walked(c)
  BY <1>0, <1>1 DEF Walking
<1>2. CASE UNCHANGED <<tree, lookups>>
  BY <1>1, <1>2 DEF Walked, lookups
<1>3. CASE Swap
  <2>1. CASE pc[c] = "find"
    <3>1. Walked(c)' = Walked(c)
      BY <1>0, <1>3, <2>1, RouterAssumption DEF Swap, Walked, TreeTypes, RouterAssumption
    <3>q. QED  BY <1>1, <1>3, <3>1 DEF Swap
  <2>2. CASE pc[c] # "find"
    BY <1>0, <1>3, <2>2 DEF Swap, Walking
  <2>q. QED  BY <2>1, <2>2
<1>4. CASE AddOwn \/ AddHead
  <2>1. PICK leaf \in TreeLeaves : tree' = tree \/ tree' = Append(tree, leaf)
    <3>1. OwnLeaf(routes[at]) \in TreeLeaves /\ HeadLeaf(routes[at]) \in TreeLeaves
      BY <1>4, LineAt, LeavesOfALine
    <3>q. QED  BY <1>4, <3>1 DEF AddOwn, AddHead, Put
  <2>2. UNCHANGED lookups
    BY <1>4 DEF AddOwn, AddHead
  <2>3. CASE view[c] = Current /\ pc[c] = "find" /\ tree' = Append(tree, leaf)
    <3>1. Walked(c) = tree /\ Walked(c)' = tree'
      BY <2>2, <2>3 DEF Walked, lookups
    <3>2. Honest(tree')
      BY HonestStep DEF Honest
    <3>3. began[c] \in 0..Len(tree) /\ Len(tree') = Len(tree) + 1
      BY <1>0, <2>3, <3>1 DEF Walking, WalkTypes, TreeTypes
    <3>4. WalkIs(tree', ask[c], turn[c], began[c], best[c])
      BY <1>0, <2>3, <3>1, <3>3, WalkGrows DEF Walking, TreeTypes
    <3>5. excused[c]
      BY <1>0, <1>4, <2>3 DEF Asked, Incomplete, Building, AddOwn, AddHead
    <3>6. Len(tree) \in Nat
      BY <1>0, LenProperties DEF TreeTypes
    <3>q. QED  BY <2>2, <2>3, <3>1, <3>2, <3>3, <3>4, <3>5, <3>6 DEF Walking, lookups
  <2>4. CASE view[c] # Current \/ pc[c] # "find" \/ tree' = tree
    <3>1. CASE pc[c] = "find"
      <4>1. Walked(c)' = Walked(c)
        BY <2>2, <2>4, <3>1 DEF Walked, lookups
      <4>q. QED  BY <1>1, <2>2, <4>1 DEF lookups
    <3>2. CASE pc[c] # "find"
      BY <1>0, <2>2, <3>2 DEF Walking, lookups
    <3>q. QED  BY <3>1, <3>2
  <2>q. QED  BY <2>1, <2>3, <2>4
<1>5. ASSUME NEW d \in Clients, Visit(d) PROVE Walking(c)'
  <2>1. /\ best' = [best EXCEPT ![d] = Nearer(Walked(d), ask[d], turn[d], best[d])]
        /\ turn' = [turn EXCEPT ![d] = turn[d] + 1] /\ turn[d] \in 1..Branches
        /\ UNCHANGED <<tree, pc, ask, view, excused, began>>
    BY <1>0, <1>5, VisitDoes
  <2>2. Walked(c)' = Walked(c)
    BY <2>1 DEF Walked
  <2>3. CASE c # d
    <3>1. best'[c] = best[c] /\ turn'[c] = turn[c]
      BY <1>0, <2>1, <2>3 DEF WalkTypes
    <3>q. QED  BY <1>0, <2>1, <2>2, <3>1 DEF Walking
  <2>4. CASE c = d
    <3>1. /\ best'[c] = Nearer(Walked(c), ask[c], turn[c], best[c])
          /\ turn'[c] = turn[c] + 1 /\ turn[c] \in 1..Branches
      BY <1>0, <2>1, <2>4 DEF WalkTypes
    <3>2. pc[c] = "find"
      BY <1>5, <2>4 DEF Visit
    <3>3. began[c] \in 0..Len(Walked(c)) /\ best[c] \in [order : Nat, route : Lines \cup {NoRoute}]
      BY <1>0, <3>2, LenProperties DEF Walking, WalkTypes
    <3>4. WalkIs(Walked(c), ask[c], turn[c] + 1, began[c], best'[c])
      BY <1>0, <3>1, <3>2, <3>3, WalkVisits DEF Walking
    <3>q. QED  BY <1>0, <2>1, <2>2, <3>1, <3>2, <3>4 DEF Walking
  <2>q. QED  BY <2>3, <2>4
<1>6. ASSUME NEW d \in Clients, Answer(d) PROVE Walking(c)'
  <2>1. CASE c = d
    BY <1>0, <1>6, <2>1 DEF Answer, Walking, ClientTypes, WalkTypes
  <2>2. CASE c # d
    <3>1. /\ pc'[c] = pc[c] /\ ask'[c] = ask[c] /\ view'[c] = view[c] /\ turn'[c] = turn[c]
          /\ best'[c] = best[c] /\ excused'[c] = excused[c] /\ began'[c] = began[c]
          /\ tree' = tree
      BY <1>0, <1>6, <2>2 DEF Answer, ClientTypes, WalkTypes, TreeTypes
    <3>2. Walked(c)' = Walked(c)
      BY <3>1 DEF Walked
    <3>q. QED  BY <1>0, <3>1, <3>2 DEF Walking
  <2>q. QED  BY <2>1, <2>2
<1>7. ASSUME NEW d \in Clients, NEW q \in Requests, Fetch(d, q) PROVE Walking(c)'
  <2>1. CASE c = d
    <3>1. /\ pc[c] = "idle" /\ pc'[c] = "find" /\ view'[c] = Current /\ tree' = tree
          /\ began'[c] = Len(tree) /\ turn'[c] = turn[c] /\ best'[c] = best[c]
      BY <1>0, <1>7, <2>1 DEF Fetch, ClientTypes, WalkTypes, TreeTypes
    <3>2. Walked(c)' = tree
      BY <3>1 DEF Walked
    <3>3. turn[c] = 1 /\ best[c] = NoLeaf
      BY <1>0, <3>1 DEF Walking
    <3>4. WalkIs(tree, ask'[c], 1, Len(tree), NoLeaf)
      <4>1. \A key : ~(Branch(key) < 1)
        BY DEF Branch
      <4>q. QED  BY <4>1 DEF WalkIs
    <3>5. Len(tree) \in Nat
      BY <1>0, LenProperties DEF TreeTypes
    <3>q. QED  BY <1>0, <3>1, <3>2, <3>3, <3>4, <3>5 DEF Walking
  <2>2. CASE c # d
    <3>1. /\ pc'[c] = pc[c] /\ ask'[c] = ask[c] /\ view'[c] = view[c] /\ turn'[c] = turn[c]
          /\ best'[c] = best[c] /\ excused'[c] = excused[c] /\ began'[c] = began[c]
          /\ tree' = tree
      BY <1>0, <1>7, <2>2 DEF Fetch, ClientTypes, WalkTypes, TreeTypes
    <3>2. Walked(c)' = Walked(c)
      BY <3>1 DEF Walked
    <3>q. QED  BY <1>0, <3>1, <3>2 DEF Walking
  <2>q. QED  BY <2>1, <2>2
<1>q. QED
  BY <1>2, <1>3, <1>4, <1>5, <1>6, <1>7
     DEF Next, Update, Lookup, AddRouteLine, RefreshTree, RefreshFile, RefreshFails,
         AddedAll, Return, vars

\* A line that was refused comes only from AddRouteLine.
LEMMA HealedStep == IInv /\ [Next]_vars => Healed'
<1> SUFFICES ASSUME IInv, [Next]_vars PROVE Healed'
  OBVIOUS
<1>0. Healed /\ ListTypes /\ tree \in Seq(TreeLeaves)
  BY Types DEF IInv, TreeTypes
<1>1. ASSUME NEW l \in Lines, AddRouteLine(l) PROVE Healed'
  <2>1. \A i \in DOMAIN Append(routes, l) :
           Append(routes, l)[i] = l \/ (i \in DOMAIN routes /\ Append(routes, l)[i] = routes[i])
    BY <1>0 DEF ListTypes
  <2>2. routes' = Append(routes, l) /\ unchecked' = unchecked \cup {l} /\ step' = "swap"
    BY <1>1 DEF AddRouteLine
  <2>q. QED  BY <1>0, <2>1, <2>2 DEF Healed, Known
<1>2. CASE RefreshTree
  BY <1>0, <1>2 DEF Healed, Known, RefreshTree, history
<1>3. ASSUME NEW f \in Files, RefreshFile(f) PROVE Healed'
  BY <1>3 DEF Healed, Known, RefreshFile
<1>4. CASE RefreshFails
  <2>1. routes' = << >> /\ UNCHANGED <<tree, step, unchecked>>
    BY <1>4 DEF RefreshFails
  <2>q. QED  BY <1>0, <2>1 DEF Healed, Known
<1>5. CASE Swap
  BY <1>0, <1>5 DEF Healed, Known, Swap
<1>6. CASE AddOwn \/ AddHead
  <2>1. PICK leaf \in TreeLeaves : /\ leaf.route = routes[at]
                                   /\ tree' = Append(tree, leaf) \/ tree' = tree
    <3>1. /\ OwnLeaf(routes[at]) \in TreeLeaves /\ OwnLeaf(routes[at]).route = routes[at]
          /\ HeadLeaf(routes[at]) \in TreeLeaves /\ HeadLeaf(routes[at]).route = routes[at]
      BY <1>6, LineAt, LeavesOfALine
    <3>q. QED  BY <1>6, <3>1 DEF AddOwn, AddHead, Put
  <2>2. at \in DOMAIN routes
    BY <1>0, <1>6, LineAt DEF ListTypes
  <2>3. step # "swap" /\ UNCHANGED <<routes, unchecked>>
    BY <1>6 DEF AddOwn, AddHead, history
  <2>4. \A i \in DOMAIN Append(tree, leaf) :
           Append(tree, leaf)[i] = leaf \/ (i \in DOMAIN tree /\ Append(tree, leaf)[i] = tree[i])
    BY <1>0, AppendHas
  <2>5. Known(routes[at]) /\ \A i \in DOMAIN tree : Known(tree[i].route)
    BY <1>0, <2>2, <2>3 DEF Healed
  <2>6. \A i \in DOMAIN tree' : Known(tree'[i].route)
    BY <2>1, <2>4, <2>5
  <2>q. QED  BY <1>0, <2>3, <2>6 DEF Healed, Known
<1>7. CASE AddedAll \/ Return
  BY <1>0, <1>7 DEF Healed, Known, AddedAll, Return, history
<1>8. CASE UNCHANGED <<updater, tree, history>>
  BY <1>0, <1>8 DEF Healed, Known, updater, history
<1>9. ASSUME NEW c \in Clients, Visit(c) \/ Answer(c) \/ \E q \in Requests : Fetch(c, q) PROVE Healed'
  BY <1>8, <1>9 DEF Visit, Answer, Fetch
<1>q. QED
  BY <1>1, <1>2, <1>3, <1>4, <1>5, <1>6, <1>7, <1>8, <1>9 DEF Next, Update, Lookup, vars

-----------------------------------------------------------------------------
\* A leaf after all of S answers what they do not.
LEMMA ByGrows ==
  ASSUME NEW rs \in Seq(Lines), NEW s \in Slots(rs), NEW S \in SUBSET Past(rs, s), NEW q
  PROVE  By(rs, S \cup {s}, q) =
           IF By(rs, S, q) # NoRoute THEN By(rs, S, q)
           ELSE IF Matches(SlotLeaf(rs, s).key, q) THEN rs[s[1]] ELSE NoRoute
<1> DEFINE H == SlotHits(rs, S, q)
           G == SlotHits(rs, S \cup {s}, q)
<1>1. s[1] \in 1..Len(rs) /\ Len(rs) \in Nat
  BY LenProperties DEF Slots
<1>2. H \in SUBSET Nat /\ G \in SUBSET Nat /\ \A n \in H : n \in 1..Len(rs) /\ n <= s[1]
  BY <1>1 DEF SlotHits, Past, Slots, Earlier
<1>3. G = H \cup (IF Matches(SlotLeaf(rs, s).key, q) THEN {s[1]} ELSE {})
  BY <1>1 DEF SlotHits
<1>4. ASSUME H # {} PROVE By(rs, S, q) # NoRoute
  <2>1. Least(H) \in H
    BY <1>2, <1>4, LeastIs
  <2>2. rs[Least(H)] \in Lines
    BY <1>2, <2>1, ElementOfSeq
  <2>q. QED  BY <1>4, <2>2, RouterAssumption DEF By, RouterAssumption
<1>5. CASE H # {}
  <2>1. Least(H) \in H /\ Least(H) <= s[1]
    BY <1>2, <1>5, LeastIs
  <2>2. H \subseteq G /\ \A j \in G : j \in H \/ Least(H) <= j
    BY <1>3, <2>1
  <2>3. Least(G) = Least(H)
    BY <1>2, <1>5, <2>2, SameLeast
  <2>q. QED  BY <1>3, <1>4, <1>5, <2>3 DEF By
<1>6. CASE H = {} /\ Matches(SlotLeaf(rs, s).key, q)
  <2>1. G = {s[1]}
    BY <1>3, <1>6
  <2>2. Least(G) = s[1]
    BY <1>2, <2>1, LeastIs
  <2>q. QED  BY <1>6, <2>1, <2>2 DEF By
<1>7. CASE H = {} /\ ~Matches(SlotLeaf(rs, s).key, q)
  BY <1>3, <1>7 DEF By
<1>q. QED  BY <1>5, <1>6, <1>7

\* The leaves of a table that is a line longer.
LEMMA SlotsOfMore ==
  ASSUME NEW rs \in Seq(Lines), NEW l \in Lines
  PROVE  LET more == Append(rs, l) IN
         /\ \A n \in 1..Len(rs) : more[n] = rs[n]
         /\ Slots(rs) = {s \in Slots(more) : s[1] <= Len(rs)}
         /\ \A s \in Slots(rs) : /\ SlotLeaf(more, s) = SlotLeaf(rs, s)
                                 /\ Past(more, s) = Past(rs, s)
<1> DEFINE more == Append(rs, l)
<1>1. Len(rs) \in Nat /\ Len(more) = Len(rs) + 1 /\ \A n \in 1..Len(rs) : more[n] = rs[n]
  OBVIOUS
<1> HIDE DEF more
<1>2. Slots(rs) = {s \in Slots(more) : s[1] <= Len(rs)}
  BY <1>1 DEF Slots
<1>3. \A s \in Slots(rs) : SlotLeaf(more, s) = SlotLeaf(rs, s)
  BY <1>1 DEF Slots, SlotLeaf
<1>4. ASSUME NEW s \in Slots(rs) PROVE Past(more, s) = Past(rs, s)
  <2>1. \A t \in Slots(more) : Earlier(t, s) => t \in Slots(rs)
    BY <1>1, <1>2 DEF Slots, Earlier
  <2>q. QED  BY <1>2, <2>1 DEF Past
<1>q. QED  BY <1>1, <1>2, <1>3, <1>4 DEF more

LEMMA LongerTable ==
  ASSUME NEW rs \in Seq(Lines), NEW l \in Lines, NEW q,
         By(rs, KeptSlots(rs), q) # NoRoute
  PROVE  By(Append(rs, l), KeptSlots(Append(rs, l)), q) = By(rs, KeptSlots(rs), q)
<1> DEFINE more == Append(rs, l)
           H == SlotHits(rs, KeptSlots(rs), q)
           G == SlotHits(more, KeptSlots(more), q)
<1>1. Len(rs) \in Nat /\ Len(more) = Len(rs) + 1 /\ more \in Seq(Lines)
  OBVIOUS
<1>2. /\ \A n \in 1..Len(rs) : more[n] = rs[n]
      /\ Slots(rs) = {s \in Slots(more) : s[1] <= Len(rs)}
      /\ \A s \in Slots(rs) : SlotLeaf(more, s) = SlotLeaf(rs, s) /\ Past(more, s) = Past(rs, s)
  BY SlotsOfMore
<1> HIDE DEF more
<1>3. \A s \in Slots(rs) : Past(rs, s) \subseteq Slots(rs)
  BY DEF Past
<1>4. \A s \in Slots(rs) : Clash(more, s) <=> Clash(rs, s)
  BY <1>2, <1>3 DEF Clash, SlotNode
<1>5. \A s \in Slots(rs) : s \in KeptSlots(more) <=> s \in KeptSlots(rs)
  BY <1>2, <1>3, <1>4 DEF KeptSlots
<1>6. H \in SUBSET Nat /\ G \in SUBSET Nat /\ H \subseteq 1..Len(rs)
  BY DEF SlotHits
<1>7. \A n \in 1..Len(rs) : n \in G <=> n \in H
  BY <1>1, <1>2, <1>5 DEF SlotHits, KeptSlots, Slots
<1>8. H # {} /\ By(rs, KeptSlots(rs), q) = rs[Least(H)]
  BY DEF By
<1>9. Least(H) \in H
  BY <1>6, <1>8, LeastIs
<1>10. \A j \in G : j \in H \/ Least(H) <= j
  BY <1>1, <1>6, <1>7, <1>9 DEF SlotHits
<1>11. Least(G) = Least(H)
  BY <1>6, <1>7, <1>8, <1>10, SameLeast
<1>12. By(more, KeptSlots(more), q) = more[Least(G)]
  BY <1>6, <1>7, <1>8 DEF By
<1>q. QED  BY <1>2, <1>6, <1>8, <1>9, <1>11, <1>12 DEF more

\* Where the loop stands, and what Put did, in terms of slots.
LEMMA CurIs ==
  IInv /\ (AddOwn \/ AddHead) =>
    /\ Cur \in Slots(table) /\ SlotLeaf(table, Cur) \in TreeLeaves
    /\ SlotLeaf(table, Cur) = IF AddHead THEN HeadLeaf(table[at]) ELSE OwnLeaf(table[at])
    /\ SlotLeaf(table, Cur).route = table[at]
<1> SUFFICES ASSUME IInv, AddOwn \/ AddHead
             PROVE  /\ Cur \in Slots(table) /\ SlotLeaf(table, Cur) \in TreeLeaves
                    /\ SlotLeaf(table, Cur) =
                         IF AddHead THEN HeadLeaf(table[at]) ELSE OwnLeaf(table[at])
                    /\ SlotLeaf(table, Cur).route = table[at]
  OBVIOUS
<1>1. /\ at \in 1..Len(table) /\ table[at] \in Lines
      /\ step = IF AddHead THEN "head" ELSE "adding"
      /\ AddHead => table[at].method = "GET"
  BY LineAt
<1>3. Cur = <<at, Cur[2]>> /\ Cur[2] = IF AddHead THEN "head" ELSE "own"
  BY <1>1 DEF Cur
<1>4. Cur \in Slots(table)
  BY <1>1, <1>3 DEF Slots
<1>5. SlotLeaf(table, Cur) = IF AddHead THEN HeadLeaf(table[at]) ELSE OwnLeaf(table[at])
  BY <1>3 DEF SlotLeaf
<1>q. QED  BY <1>1, <1>4, <1>5, LeavesOfALine

\* The slot after another one.
LEMMA NextSlot ==
  ASSUME NEW rs \in Seq(Lines), NEW n \in 1..Len(rs)
  PROVE  /\ rs[n].method = "GET" =>
              Past(rs, <<n, "head">>) = Past(rs, <<n, "own">>) \cup {<<n, "own">>}
         /\ rs[n].method # "GET" =>
              Past(rs, <<n + 1, "own">>) = Past(rs, <<n, "own">>) \cup {<<n, "own">>}
         /\ rs[n].method = "GET" =>
              Past(rs, <<n + 1, "own">>) = Past(rs, <<n, "head">>) \cup {<<n, "head">>}
<1>0. Len(rs) \in Nat
  OBVIOUS
<1>1. <<n, "own">> \in Slots(rs) /\ (rs[n].method = "GET" => <<n, "head">> \in Slots(rs))
  BY DEF Slots
<1>2. \A s \in Slots(rs) : s = <<s[1], s[2]>> /\ s[1] \in Nat /\ s[2] \in {"own", "head"}
  BY <1>0 DEF Slots
<1>3. \A m \in Nat : Past(rs, <<m, "own">>) = {s \in Slots(rs) : s[1] < m}
  BY DEF Past, Earlier
<1>4. ASSUME NEW s \in Slots(rs)
      PROVE  /\ s = <<n, "own">> <=> s[1] = n /\ s[2] = "own"
             /\ s = <<n, "head">> <=> s[1] = n /\ s[2] = "head"
  BY <1>2
<1>5. Past(rs, <<n, "head">>) = {s \in Slots(rs) : s[1] < n \/ s = <<n, "own">>}
  BY <1>4 DEF Past, Earlier
<1>6. \A s \in Slots(rs) : s[1] < n + 1 <=> s[1] < n \/ s[1] = n
  BY <1>2
<1>7. \A s \in Slots(rs) : s[1] = n =>
        s = <<n, "own">> \/ (s = <<n, "head">> /\ rs[n].method = "GET")
  BY <1>4 DEF Slots
<1>8. rs[n].method = "GET" =>
        Past(rs, <<n, "head">>) = Past(rs, <<n, "own">>) \cup {<<n, "own">>}
  BY <1>1, <1>3, <1>5
<1>9. rs[n].method # "GET" =>
        Past(rs, <<n + 1, "own">>) = Past(rs, <<n, "own">>) \cup {<<n, "own">>}
  BY <1>1, <1>3, <1>4, <1>6, <1>7
<1>10. rs[n].method = "GET" =>
        Past(rs, <<n + 1, "own">>) = Past(rs, <<n, "head">>) \cup {<<n, "head">>}
  <2> SUFFICES ASSUME rs[n].method = "GET"
               PROVE  Past(rs, <<n + 1, "own">>) = Past(rs, <<n, "head">>) \cup {<<n, "head">>}
    OBVIOUS
  <2> DEFINE own == <<n, "own">>
             head == <<n, "head">>
  <2>1. \A s \in Slots(rs) : s[1] = n <=> s = own \/ s = head
    BY <1>4, <1>7
  <2>2. \A s \in Slots(rs) : s[1] < n + 1 <=> (s[1] < n \/ s = own) \/ s = head
    BY <1>6, <2>1
  <2>3. head \in Slots(rs)
    BY <1>1
  <2>4. n + 1 \in Nat
    OBVIOUS
  <2>5. Past(rs, <<n + 1, "own">>) = {s \in Slots(rs) : s[1] < n + 1}
    BY <1>3, <2>4
  <2>6. Past(rs, head) = {s \in Slots(rs) : s[1] < n \/ s = own}
    BY <1>5
  <2> HIDE DEF own, head
  <2>q. QED  BY <2>2, <2>3, <2>5, <2>6 DEF head
<1>q. QED  BY <1>8, <1>9, <1>10

\* Earlier is an order.
LEMMA EarlierOrders ==
  ASSUME NEW rs \in Seq(Lines), NEW s \in Slots(rs), NEW t \in Slots(rs), NEW u \in Slots(rs)
  PROVE  /\ Earlier(s, t) /\ Earlier(t, u) => Earlier(s, u)
         /\ s = t \/ Earlier(s, t) \/ Earlier(t, s)
         /\ ~Earlier(s, s)
<1>0. Len(rs) \in Nat
  OBVIOUS
<1>2. \A x \in Slots(rs) : x = <<x[1], x[2]>> /\ x[1] \in Nat /\ x[2] \in {"own", "head"}
  BY <1>0 DEF Slots
<1>q. QED  BY <1>2 DEF Earlier

\* At the first clash, and at the end, the leaves before are those that are kept.
LEMMA KeptAtClash ==
  ASSUME NEW rs \in Seq(Lines), NEW s \in Slots(rs), Clash(rs, s),
         \A t \in Past(rs, s) : ~Clash(rs, t)
  PROVE  KeptSlots(rs) = Past(rs, s)
<1>1. ASSUME NEW t \in Past(rs, s) PROVE t \in KeptSlots(rs)
  BY <1>1, EarlierOrders DEF Past, KeptSlots
<1>2. ASSUME NEW t \in KeptSlots(rs) PROVE t \in Past(rs, s)
  BY <1>2, EarlierOrders DEF Past, KeptSlots
<1>q. QED  BY <1>1, <1>2

LEMMA KeptAtEnd ==
  ASSUME NEW rs \in Seq(Lines), \A t \in Past(rs, <<Len(rs) + 1, "own">>) : ~Clash(rs, t)
  PROVE  KeptSlots(rs) = Past(rs, <<Len(rs) + 1, "own">>)
<1>1. \A t \in Slots(rs) : Earlier(t, <<Len(rs) + 1, "own">>)
  BY LenProperties DEF Slots, Earlier
<1>2. Past(rs, <<Len(rs) + 1, "own">>) = Slots(rs)
  BY <1>1 DEF Past
<1>q. QED  BY <1>2 DEF KeptSlots, Past

\* updateTree goes from slot to slot.
LEMMA PositionStep == IInv /\ TypeOK' /\ [Next]_vars => Positioned'
<1> SUFFICES ASSUME IInv, TypeOK', [Next]_vars PROVE Positioned'
  OBVIOUS
<1>0. Positioned /\ TreeInv
  BY DEF IInv
<1>1. CASE ~Building /\ ~Building' /\ UNCHANGED <<tree, table>>
  BY <1>0, <1>1 DEF Positioned
<1>2. ASSUME NEW l \in Lines, AddRouteLine(l) PROVE Positioned'
  BY <1>1, <1>2 DEF AddRouteLine, Building
<1>3. CASE RefreshTree \/ RefreshFails \/ Return \/ \E f \in Files : RefreshFile(f)
  BY <1>1, <1>3 DEF RefreshTree, RefreshFails, RefreshFile, Return, Building, history
<1>4. CASE Swap
  <2>1. Cur' = <<1, "own">> /\ tree' = << >> /\ Building'
    BY <1>4 DEF Swap, Cur, Building
  <2>2. Past(table', <<1, "own">>) = {}
    BY DEF Past, Earlier, Slots
  <2>3. \A q : By(table', {}, q) = NoRoute /\ Find(<< >>, q) = NoRoute
    BY DEF By, SlotHits, Find
  <2>4. \A key : ~Taken(<< >>, key)
    BY DEF Taken
  <2>q. QED  BY <2>1, <2>2, <2>3, <2>4 DEF Positioned
<1>5. CASE AddOwn \/ AddHead
  <2> DEFINE leaf == SlotLeaf(table, Cur)
             now == Past(table, Cur)
  <2>1. /\ at \in 1..Len(table) /\ table[at] \in Lines /\ table \in Seq(Lines)
        /\ tree \in Seq(TreeLeaves) /\ routes = table /\ table' = table
        /\ step = IF AddHead THEN "head" ELSE "adding"
        /\ AddHead => table[at].method = "GET"
    BY <1>5, LineAt
  <2>2. Cur \in Slots(table) /\ leaf \in TreeLeaves /\ leaf.route = table[at]
        /\ leaf = IF AddHead THEN HeadLeaf(table[at]) ELSE OwnLeaf(table[at])
    BY <1>5, CurIs
  <2>3. /\ \A q \in Requests : Find(tree, q) = By(table, now, q)
        /\ \A s \in now : ~Clash(table, s)
        /\ \A key : Taken(tree, key) <=> \E s \in now : SlotNode(table, s) = Node(key)
    BY <1>0, <2>1 DEF Positioned, Building
  <2>4. Taken(tree, leaf.key) <=> Clash(table, Cur)
    BY <2>3 DEF Clash, SlotNode
  <2>5. CASE Taken(tree, leaf.key) /\ tree' = tree /\ step' = "done"
    <3>1. KeptSlots(table) = now
      BY <2>1, <2>2, <2>3, <2>4, <2>5, KeptAtClash
    <3>q. QED  BY <2>1, <2>3, <2>5, <3>1 DEF Positioned, Building
  <2>6. CASE /\ ~Taken(tree, leaf.key) /\ tree' = Append(tree, leaf) /\ Building'
             /\ Past(table, Cur') = now \cup {Cur}
    <3>1. \A q \in Requests : Find(tree', q) = By(table, now \cup {Cur}, q)
      <4>1. Cur[1] = at
        BY DEF Cur
      <4>2. now \in SUBSET Past(table, Cur)
        OBVIOUS
      <4>3. ASSUME NEW q \in Requests
            PROVE  By(table, now \cup {Cur}, q) =
                     IF By(table, now, q) # NoRoute THEN By(table, now, q)
                     ELSE IF Matches(leaf.key, q) THEN table[at] ELSE NoRoute
        BY <2>1, <2>2, <4>1, <4>2, ByGrows
      <4>4. ASSUME NEW q \in Requests
            PROVE  Find(tree', q) = IF Find(tree, q) # NoRoute THEN Find(tree, q)
                     ELSE IF Matches(leaf.key, q) THEN table[at] ELSE NoRoute
        BY <2>1, <2>2, <2>6, FindAppend
      <4>q. QED  BY <2>3, <4>3, <4>4
    <3>2. \A s \in now \cup {Cur} : ~Clash(table, s)
      BY <2>3, <2>4, <2>6
    <3>3. \A key : Taken(tree', key) <=> Taken(tree, key) \/ Node(leaf.key) = Node(key)
      <4>1. /\ DOMAIN tree' = DOMAIN tree \cup {Len(tree) + 1} /\ tree'[Len(tree) + 1] = leaf
            /\ \A i \in DOMAIN tree : tree'[i] = tree[i]
        BY <2>1, <2>2, <2>6
      <4>q. QED  BY <4>1 DEF Taken
    <3>4. \A key : Taken(tree', key) <=> \E s \in now \cup {Cur} : SlotNode(table, s) = Node(key)
      BY <2>3, <3>3 DEF SlotNode
    <3>q. QED  BY <2>1, <2>6, <3>1, <3>2, <3>4 DEF Positioned
  <2>7. CASE AddHead
    <3>1. Cur = <<at, "head">>
      BY <2>1, <2>7 DEF Cur
    <3>2. ASSUME step' = "adding" PROVE Past(table, Cur') = now \cup {Cur} /\ Building'
      <4>1. Cur' = <<at + 1, "own">>
        BY <2>7, <3>2 DEF AddHead, Cur
      <4>q. QED  BY <2>1, <2>7, <3>1, <3>2, <4>1, NextSlot DEF Building
    <3>q. QED  BY <2>1, <2>2, <2>5, <2>6, <2>7, <3>2 DEF AddHead, Put
  <2>8. CASE AddOwn /\ ~AddHead
    <3>1. Cur = <<at, "own">>
      BY <2>1, <2>8 DEF Cur
    <3>2. ASSUME table[at].method = "GET", step' = "head"
          PROVE  Past(table, Cur') = now \cup {Cur} /\ Building'
      <4>1. Cur' = <<at, "head">>
        BY <2>1, <2>8, <3>2 DEF AddOwn, Cur
      <4>q. QED  BY <2>1, <3>1, <3>2, <4>1, NextSlot DEF Building
    <3>3. ASSUME table[at].method # "GET", step' = "adding"
          PROVE  Past(table, Cur') = now \cup {Cur} /\ Building'
      <4>1. Cur' = <<at + 1, "own">>
        BY <2>1, <2>8, <3>3 DEF AddOwn, Cur
      <4>q. QED  BY <2>1, <3>1, <3>3, <4>1, NextSlot DEF Building
    <3>q. QED  BY <2>1, <2>2, <2>5, <2>6, <2>8, <3>2, <3>3 DEF AddOwn, Put
  <2>q. QED  BY <1>5, <2>7, <2>8
<1>6. CASE AddedAll
  <2>1. /\ Building /\ ~Building' /\ UNCHANGED <<tree, table>> /\ table \in Seq(Lines)
        /\ Cur = <<Len(table) + 1, "own">>
    <3>1. table \in Seq(Lines) /\ Len(table) \in Nat /\ at \in Nat
      BY Types, LenProperties DEF IInv, ListTypes, TableTypes
    <3>q. QED  BY <1>0, <1>6, <3>1 DEF TreeInv, Growing, Building, AddedAll, history, Cur
  <2>2. KeptSlots(table) = Past(table, Cur)
    BY <1>0, <2>1, KeptAtEnd DEF Positioned
  <2>q. QED  BY <1>0, <2>1, <2>2 DEF Positioned
<1>7. CASE UNCHANGED <<updater, tree, history>>
  BY <1>0, <1>7 DEF Positioned, Building, Cur, updater, history
<1>8. ASSUME NEW c \in Clients, Visit(c) \/ Answer(c) \/ \E q \in Requests : Fetch(c, q) PROVE Positioned'
  BY <1>7, <1>8 DEF Visit, Answer, Fetch
<1>q. QED
  BY <1>2, <1>3, <1>4, <1>5, <1>6, <1>7, <1>8 DEF Next, Update, Lookup, vars

LEMMA StandingStep == IInv /\ [Next]_vars => Standing'
<1> SUFFICES ASSUME IInv, [Next]_vars PROVE Standing'
  OBVIOUS
<1>0. Standing /\ Positioned /\ TreeInv /\ routes \in Seq(Lines)
  BY Types DEF IInv, ListTypes
<1>e. \A q : Find(<< >>, q) = NoRoute
  BY DEF Find
<1>1. ASSUME NEW l \in Lines, AddRouteLine(l) PROVE Standing'
  <2>1. /\ step = "idle" /\ step' = "swap" /\ routes' = Append(routes, l)
        /\ before' = (IF orphaned THEN << >> ELSE tree)
    BY <1>1 DEF AddRouteLine
  <2>2. ASSUME NEW q \in Requests, Find(before', q) # NoRoute
        PROVE  By(routes', KeptSlots(routes'), q) = Find(before', q)
    <3>1. before' = tree /\ routes = table
      BY <1>0, <1>e, <2>1, <2>2 DEF Standing
    <3>2. Find(tree, q) = By(routes, KeptSlots(routes), q)
      BY <1>0, <2>1, <3>1 DEF Positioned, Building
    <3>q. QED  BY <1>0, <2>1, <2>2, <3>1, <3>2, LongerTable
  <2>q. QED  BY <2>1, <2>2 DEF Standing
<1>2. CASE RefreshTree \/ \E f \in Files : RefreshFile(f)
  <2>1. step' = "swap" /\ before' = << >>
    BY <1>0, <1>2 DEF Standing, RefreshTree, RefreshFile, history
  <2>q. QED  BY <1>e, <2>1 DEF Standing
<1>3. CASE RefreshFails
  <2>1. /\ step' = "idle" /\ before' = << >> /\ (tree' # << >> => orphaned')
        /\ UNCHANGED <<tree, table>>
    BY <1>0, <1>3 DEF Standing, RefreshFails
  <2>q. QED  BY <1>e, <2>1 DEF Standing
<1>4. CASE Swap
  BY <1>0, <1>4 DEF Standing, Swap
<1>5. CASE AddOwn \/ AddHead
  <2>1. step' \in {"adding", "head", "done"}
    BY <1>5 DEF AddOwn, AddHead, Put
  <2>2. step \in {"adding", "head"} /\ UNCHANGED <<routes, table, before>>
    BY <1>5 DEF AddOwn, AddHead, history
  <2>q. QED  BY <1>0, <2>1, <2>2 DEF Standing
<1>6. CASE AddedAll
  BY <1>0, <1>6 DEF Standing, AddedAll, history
<1>7. CASE Return
  <2>1. step' = "idle" /\ before' = << >> /\ step = "done" /\ UNCHANGED <<routes, table>>
    BY <1>7 DEF Return
  <2>q. QED  BY <1>0, <1>e, <2>1 DEF Standing
<1>8. CASE UNCHANGED <<updater, tree, history>>
  BY <1>0, <1>8 DEF Standing, updater, history
<1>9. ASSUME NEW c \in Clients, Visit(c) \/ Answer(c) \/ \E q \in Requests : Fetch(c, q) PROVE Standing'
  BY <1>8, <1>9 DEF Visit, Answer, Fetch
<1>q. QED
  BY <1>1, <1>2, <1>3, <1>4, <1>5, <1>6, <1>7, <1>8, <1>9 DEF Next, Update, Lookup, vars

-----------------------------------------------------------------------------
LEMMA InitInv == Init => IInv
<1> SUFFICES ASSUME Init PROVE IInv
  OBVIOUS
<1>0. /\ \A q : Find(<< >>, q) = NoRoute /\ Declared(<< >>, q) = NoRoute
      /\ \A q, S : By(<< >>, S, q) = NoRoute
      /\ << >> \in Seq(Lines) /\ << >> \in Seq(TreeLeaves)
  BY DEF Find, Declared, By, SlotHits
<1>1. ListTypes /\ TreeTypes
  BY <1>0 DEF Init, ListTypes, TreeTypes
<1>2. TableTypes
  BY DEF Init, TableTypes
<1>3. SomeRequest \in Requests
  <2>1. \E q : q \in Requests
    <3>1. PICK m \in Methods, u \in Urls : TRUE
      BY RouterAssumption DEF RouterAssumption
    <3>2. [method |-> m, url |-> u] \in Requests
      BY <3>1 DEF Requests
    <3>q. QED  BY <3>2
  <2>q. QED  BY <2>1 DEF SomeRequest
<1>a. /\ routes = << >> /\ table = << >> /\ tree = << >> /\ before = << >>
      /\ step = "idle" /\ \A c \in Clients : pc[c] = "idle"
  BY DEF Init
<1>b. ~Building /\ DOMAIN tree = {} /\ DOMAIN routes = {}
  BY <1>a DEF Building
<1>4. TreeInv
  <2>1. Growing
    BY <1>a, <1>b DEF Growing
  <2>2. TableIsDeclaration /\ NeverMisroutes
    BY <1>0, <1>a DEF TableIsDeclaration, NeverMisroutes
  <2>q. QED  BY <2>1, <2>2 DEF TreeInv
<1>c. Healed /\ Honest(tree) /\ \A c \in Clients : Asked(c)
  BY <1>a, <1>b DEF Healed, Honest, Asked
<1>w. WalkTypes /\ \A c \in Clients : Walking(c)
  <2>1. /\ turn = [c \in Clients |-> 1] /\ best = [c \in Clients |-> NoLeaf]
        /\ began = [c \in Clients |-> 0]
    BY DEF Init
  <2>2. NoLeaf \in [order : Nat, route : Lines \cup {NoRoute}] /\ 1 \in 1..(Branches + 1)
    BY DEF NoLeaf, Branches
  <2>q. QED  BY <1>a, <2>1, <2>2 DEF WalkTypes, Walking
<1>5. Positioned
  BY <1>0, <1>a, <1>b DEF Positioned
<1>d. Standing
  BY <1>0, <1>a DEF Standing
<1>6. ClientTypes
  BY <1>3 DEF Init, ClientTypes
<1>q. QED  BY <1>1, <1>2, <1>4, <1>c, <1>w, <1>5, <1>d, <1>6, Types DEF IInv

LEMMA StepInv == IInv /\ [Next]_vars => IInv'
<1>1. IInv /\ [Next]_vars => TypeOK' /\ TreeInv' /\ Healed' /\ Positioned' /\ Standing'
  BY TypeStep, TreeStep, HealedStep, PositionStep, StandingStep
<1>2. IInv /\ [Next]_vars => Honest(tree)' /\ \A c \in Clients : Asked(c)' /\ Walking(c)'
  BY TypeStep, TreeStep, HonestStep, AskedStep, WalkStep
<1>q. QED  BY <1>1, <1>2 DEF IInv

LEMMA Invariant == Spec => []IInv
<1>1. QED  BY InitInv, StepInv, PTL DEF Spec

-----------------------------------------------------------------------------
\* Every variable keeps its type; routes and leaves are made of declared lines
\* only (App.go:550-577, Router.go:171-200).
THEOREM TypeCorrect == Spec => []TypeOK
<1>1. IInv => TypeOK
  BY DEF IInv
<1>q. QED  BY Invariant, <1>1, PTL

\* Whatever the routes are, a tree that updateTree has finished without an
\* error answers every request as the list of routes declares (updateTree,
\* Router.go:184-200).
THEOREM TreeIsDeclaration == Spec => []TableIsDeclaration
<1>1. IInv => TableIsDeclaration
  BY DEF IInv, TreeInv
<1>q. QED  BY Invariant, <1>1, PTL

\* At no moment, not while updateTree is filling the tree and not after it gave
\* up, does the tree send a request to a route that the list would not send it
\* to (updateTree, Router.go:184-200).
THEOREM NothingMisrouted == Spec => []NeverMisroutes
<1>1. IInv => NeverMisroutes
  BY DEF IInv, TreeInv
<1>q. QED  BY Invariant, <1>1, PTL

\* The tree a client walks, asked all at once, answers by the table the lookup began on.
LEMMA ServedIs ==
  ASSUME IInv, NEW c \in Clients, pc[c] = "find"
  PROVE  \/ Served(c) = due[c]
         \/ Served(c) = NoRoute /\ excused[c]
<1>1. Asked(c) /\ ask[c] \in Requests
  BY Types DEF IInv, ClientTypes
<1>2. CASE view[c] # Current
  BY <1>1, <1>2 DEF Asked, Served, Walked
<1>3. CASE view[c] = Current
  <2>1. Served(c) = Find(tree, ask[c]) /\ due[c] = Declared(table, ask[c])
    BY <1>1, <1>3 DEF Asked, Served, Walked
  <2>2. Find(tree, ask[c]) \in {NoRoute, Declared(table, ask[c])}
    BY <1>1 DEF IInv, TreeInv, NeverMisroutes
  <2>3. excused[c] \/ Find(tree, ask[c]) = Declared(table, ask[c])
    <3>1. excused[c] \/ ~Incomplete
      BY <1>1, <1>3 DEF Asked
    <3>2. step \in {"idle", "swap", "adding", "head", "done"}
      BY Types DEF IInv, TableTypes
    <3>q. QED
      BY <1>1, <3>1, <3>2 DEF IInv, TreeInv, TableIsDeclaration, Incomplete, Building
  <2>q. QED  BY <2>1, <2>2, <2>3
<1>q. QED  BY <1>2, <1>3

\* A walk that ends on a leaf which was there when it began ends on the first one, whatever
\* is added meanwhile; a lookup that began on a complete tree can end on no other.  For any
\* number of clients and of changes (Route, Router.go:125-135; updateTree, 184-200).
THEOREM AnswersStayRight == Spec => []AnswersAreRight
<1>1. IInv => AnswersAreRight
  <2> SUFFICES ASSUME IInv, NEW c \in Clients, pc[c] = "find", turn[c] > Branches
               PROVE  \/ best[c].route = due[c]
                      \/ excused[c] /\ \/ best[c] = NoLeaf
                                       \/ /\ best[c].order > began[c]
                                          /\ Accepts(best[c].route, ask[c])
    BY DEF AnswersAreRight
  <2> DEFINE t == Walked(c)
  <2>0. /\ t \in Seq(TreeLeaves) /\ ask[c] \in Requests /\ began[c] \in Nat
        /\ Len(t) \in Nat /\ DOMAIN t = 1..Len(t)
    BY Types, WalkedIs DEF IInv, ClientTypes, WalkTypes
  <2>1. turn[c] = Branches + 1
    BY Types DEF IInv, WalkTypes, Branches
  <2>2. /\ Honest(t) /\ began[c] \in 0..Len(t) /\ (excused[c] \/ began[c] = Len(t))
        /\ WalkIs(t, ask[c], Branches + 1, began[c], best[c])
    BY <2>0, <2>1 DEF IInv, Walking
  <2> HIDE DEF t
  <2>3. /\ best[c] = NoLeaf /\ began[c] = Len(t) => Find(t, ask[c]) = NoRoute
        /\ Found(t, ask[c], best[c]) /\ best[c].order <= began[c]
             => Find(t, ask[c]) = best[c].route
    BY <2>0, <2>2, WalkEnds
  <2>4. \/ Find(t, ask[c]) = due[c]
        \/ Find(t, ask[c]) = NoRoute /\ excused[c]
    BY ServedIs DEF Served, t
  <2>5. CASE best[c] = NoLeaf
    BY <2>2, <2>3, <2>4, <2>5 DEF NoLeaf
  <2>6. CASE Found(t, ask[c], best[c])
    <3>1. best[c].order \in 1..Len(t) /\ best[c].route = t[best[c].order].route
      BY <2>0, <2>6 DEF Found
    <3>2. Accepts(best[c].route, ask[c])
      BY <2>0, <2>2, <2>6 DEF Found, Honest
    <3>3. best[c].route # NoRoute
      <4>1. t[best[c].order] \in TreeLeaves
        BY <2>0, <3>1
      <4>q. QED  BY <3>1, <4>1, RouterAssumption DEF TreeLeaves, RouterAssumption
    <3>4. CASE best[c].order <= began[c]
      BY <2>3, <2>4, <2>6, <3>3, <3>4
    <3>5. CASE best[c].order > began[c]
      BY <2>0, <2>2, <3>1, <3>2, <3>5
    <3>q. QED  BY <2>0, <3>1, <3>4, <3>5
  <2>q. QED  BY <2>2, <2>5, <2>6 DEF WalkIs
<1>q. QED  BY Invariant, <1>1, PTL

\* A line that AddRouteLine adds takes nothing away from the lines before it,
\* whatever they are (AddRouteLine, App.go:550-577; updateTree,
\* Router.go:184-200).
THEOREM LinesStay == Spec => []LinesSurvive
<1>1. IInv => LinesSurvive
  <2> SUFFICES ASSUME IInv, step = "done", NEW q \in Requests, Find(before, q) # NoRoute
               PROVE  Find(tree, q) = Find(before, q)
    BY DEF LinesSurvive
  <2>1. Find(tree, q) = By(table, KeptSlots(table), q)
    BY DEF IInv, Positioned, Building
  <2>2. By(table, KeptSlots(table), q) = Find(before, q)
    BY DEF IInv, Standing
  <2>q. QED  BY <2>1, <2>2
<1>q. QED  BY Invariant, <1>1, PTL

\* Only AddRouteLine brings a route into the tree that was not validated, and
\* re-reading the file takes it out (Refresh, Router.go:171-182).
THEOREM RefreshIsTheCure == Spec => []RefreshHeals
<1>1. IInv => RefreshHeals
  BY DEF IInv, Healed, Known, RefreshHeals
<1>q. QED  BY Invariant, <1>1, PTL

-----------------------------------------------------------------------------
\* The lines themselves: routeParseLine.  Induction over the natural numbers, with a set
\* in the place of a predicate.
LEMMA AllNumbers ==
  ASSUME NEW S, 0 \in S, \A n \in Nat : n \in S => n + 1 \in S
  PROVE  \A n \in Nat : n \in S
<1> SUFFICES ASSUME NEW m \in Nat \ S PROVE FALSE
  OBVIOUS
<1>1. PICK i \in Nat \ S : \A j \in Nat \ S : ~ (<<j, i>> \in Less)
  BY LessIsWellFounded, WFMin
<1>2. i - 1 \in Nat /\ i - 1 < i /\ i = (i - 1) + 1
  BY <1>1
<1>3. i - 1 \in S
  BY <1>1, <1>2 DEF Less
<1>q. QED  BY <1>1, <1>2, <1>3

LEMMA MinIs ==
  ASSUME NEW S \in SUBSET Nat, S # {}
  PROVE  Min(S) \in S /\ \A y \in S : Min(S) <= y
<1>1. Min(S) = Least(S)
  BY DEF Min, Least
<1>q. QED  BY <1>1, LeastIs

-----------------------------------------------------------------------------
\* The two recursive functions, built value by value.
Scans(line, n, g) ==
  g = [m \in 0..n |-> IF m = 0 THEN Start ELSE Scan(g[m - 1], line[m])]

LEMMA ScansExist ==
  ASSUME NEW line, NEW n \in Nat
  PROVE  \E g : Scans(line, n, g)
<1> DEFINE S == {m \in Nat : \E g : Scans(line, m, g)}
<1>1. 0 \in S
  <2>1. Scans(line, 0, [m \in 0..0 |-> Start])
    BY DEF Scans
  <2>q. QED  BY <2>1
<1>2. ASSUME NEW k \in Nat, k \in S PROVE k + 1 \in S
  <2>1. PICK g : Scans(line, k, g)
    BY <1>2
  <2> DEFINE h == [m \in 0..(k + 1) |-> IF m \in 0..k THEN g[m] ELSE Scan(g[k], line[m])]
  <2>2. \A m \in 0..k : g[m] = IF m = 0 THEN Start ELSE Scan(g[m - 1], line[m])
    BY <2>1 DEF Scans
  <2>3. ASSUME NEW m \in 0..(k + 1)
        PROVE  h[m] = IF m = 0 THEN Start ELSE Scan(h[m - 1], line[m])
    <3>1. CASE m = 0
      BY <2>2, <3>1
    <3>2. CASE m # 0 /\ m \in 0..k
      <4>1. m - 1 \in 0..k /\ h[m - 1] = g[m - 1] /\ h[m] = g[m]
        BY <3>2
      <4>q. QED  BY <2>2, <3>2, <4>1
    <3>3. CASE m = k + 1
      <4>1. m - 1 = k /\ h[m - 1] = g[k] /\ h[m] = Scan(g[k], line[m]) /\ m # 0
        BY <3>3
      <4>q. QED  BY <4>1
    <3>q. QED  BY <3>1, <3>2, <3>3
  <2>4. h = [m \in 0..(k + 1) |-> IF m = 0 THEN Start ELSE Scan(h[m - 1], line[m])]
    BY <2>3
  <2>5. Scans(line, k + 1, h)
    BY <2>4 DEF Scans
  <2> HIDE DEF h
  <2>q. QED  BY <2>5
<1> HIDE DEF S
<1>3. n \in S
  BY <1>1, <1>2, AllNumbers
<1>q. QED  BY <1>3 DEF S

Keeps(args, n, g) ==
  g = [m \in 0..n |-> IF m = 0 THEN << >>
                      ELSE IF m > 1 /\ Blank(args[m]) /\ ~InString(args, m) THEN g[m - 1]
                      ELSE Append(g[m - 1], args[m])]

LEMMA KeepsExist ==
  ASSUME NEW args, NEW n \in Nat
  PROVE  \E g : Keeps(args, n, g)
<1> DEFINE Next_(m, b) == IF m > 1 /\ Blank(args[m]) /\ ~InString(args, m) THEN b
                          ELSE Append(b, args[m])
           S == {m \in Nat : \E g : Keeps(args, m, g)}
<1>1. 0 \in S
  <2>1. Keeps(args, 0, [m \in 0..0 |-> << >>])
    BY DEF Keeps
  <2>q. QED  BY <2>1
<1>2. ASSUME NEW k \in Nat, k \in S PROVE k + 1 \in S
  <2>1. PICK g : Keeps(args, k, g)
    BY <1>2
  <2> DEFINE h == [m \in 0..(k + 1) |-> IF m \in 0..k THEN g[m] ELSE Next_(m, g[k])]
  <2>2. \A m \in 0..k : g[m] = IF m = 0 THEN << >> ELSE Next_(m, g[m - 1])
    BY <2>1 DEF Keeps
  <2> HIDE DEF Next_
  <2>3. ASSUME NEW m \in 0..(k + 1)
        PROVE  h[m] = IF m = 0 THEN << >> ELSE Next_(m, h[m - 1])
    <3>1. CASE m = 0
      BY <2>2, <3>1
    <3>2. CASE m # 0 /\ m \in 0..k
      <4>1. m - 1 \in 0..k /\ h[m - 1] = g[m - 1] /\ h[m] = g[m]
        BY <3>2
      <4>q. QED  BY <2>2, <3>2, <4>1
    <3>3. CASE m = k + 1
      <4>1. m - 1 = k /\ h[m - 1] = g[k] /\ h[m] = Next_(m, g[k]) /\ m # 0
        BY <3>3
      <4>q. QED  BY <4>1
    <3>q. QED  BY <3>1, <3>2, <3>3
  <2>4. h = [m \in 0..(k + 1) |-> IF m = 0 THEN << >> ELSE Next_(m, h[m - 1])]
    BY <2>3
  <2>5. Keeps(args, k + 1, h)
    BY <2>4 DEF Keeps, Next_
  <2> HIDE DEF h
  <2>q. QED  BY <2>5
<1> HIDE DEF S
<1>3. n \in S
  BY <1>1, <1>2, AllNumbers
<1>q. QED  BY <1>3 DEF S

\* routeParseLine returns what the last state of its loop comes to.
Output(s) == LET e == EndOfLine(s)
             IN  IF e.found THEN [f \in Results |-> e[f]] ELSE Rejected

Runs(line, a) == \A n \in 1..Len(line) : a[n] = Scan(a[n - 1], line[n])

LEMMA ScansAre ==
  ASSUME NEW line \in Seq(Runes)
  PROVE  \E a : /\ routeParseLine(line) = Output(a[Len(line)])
                /\ a[0] = Start
                /\ Runs(line, a)
<1> DEFINE N == Len(line)
           L == CHOOSE g : g = [n \in 0..N |-> IF n = 0 THEN Start ELSE Scan(g[n - 1], line[n])]
<1>1. N \in Nat
  BY LenProperties
<1>2. L = [n \in 0..N |-> IF n = 0 THEN Start ELSE Scan(L[n - 1], line[n])]
  BY <1>1, ScansExist DEF Scans
<1>3. routeParseLine(line) = Output(L[N])
  BY DEF routeParseLine, Output, Rejected
<1> HIDE DEF L
<1>4. L[0] = Start /\ \A n \in 1..N : L[n] = Scan(L[n - 1], line[n])
  BY <1>1, <1>2
<1>q. QED  BY <1>3, <1>4 DEF Runs

LEMMA KeptIs ==
  ASSUME NEW args \in Seq(Runes)
  PROVE  /\ Kept(args, 0) = << >>
         /\ \A n \in 1..Len(args) :
              Kept(args, n) = IF n > 1 /\ Blank(args[n]) /\ ~InString(args, n)
                              THEN Kept(args, n - 1)
                              ELSE Append(Kept(args, n - 1), args[n])
<1> DEFINE N == Len(args)
           K == CHOOSE g : g = [m \in 0..N |->
                  IF m = 0 THEN << >>
                  ELSE IF m > 1 /\ Blank(args[m]) /\ ~InString(args, m) THEN g[m - 1]
                  ELSE Append(g[m - 1], args[m])]
<1>1. N \in Nat
  BY LenProperties
<1>2. K = [m \in 0..N |->
             IF m = 0 THEN << >>
             ELSE IF m > 1 /\ Blank(args[m]) /\ ~InString(args, m) THEN K[m - 1]
             ELSE Append(K[m - 1], args[m])]
  BY <1>1, KeepsExist DEF Keeps
<1>3. \A n : Kept(args, n) = K[n]
  BY DEF Kept
<1> HIDE DEF K
<1>4. K[0] = << >>
  BY <1>1, <1>2
<1>5. ASSUME NEW n \in 1..N
      PROVE  K[n] = IF n > 1 /\ Blank(args[n]) /\ ~InString(args, n) THEN K[n - 1]
                    ELSE Append(K[n - 1], args[n])
  <2>1. n \in 0..N /\ n # 0
    BY <1>1
  <2>q. QED  BY <1>2, <2>1
<1>q. QED  BY <1>3, <1>4, <1>5

-----------------------------------------------------------------------------
\* Where something is looked for.
LEMMA FromIs ==
  ASSUME NEW line \in Seq(Runes), NEW i \in 1..Len(line) + 1, NEW runes
  PROVE  /\ From(line, i, runes) \in i..Len(line) + 1
         /\ \A k \in i..From(line, i, runes) - 1 : line[k] \notin runes
         /\ From(line, i, runes) <= Len(line) => line[From(line, i, runes)] \in runes
<1> DEFINE N == Len(line)
           W == {j \in i..N : line[j] \in runes}
           S == W \cup {N + 1}
<1>1. N \in Nat /\ i \in Nat
  BY LenProperties
<1>2. S \in SUBSET Nat /\ S # {}
  BY <1>1
<1>3. From(line, i, runes) = Min(S)
  BY DEF From
<1>4. \A j \in S : j \in i..N + 1 /\ (j <= N => line[j] \in runes)
  BY <1>1
<1>5. \A k \in i..N : line[k] \in runes => k \in S
  OBVIOUS
<1> HIDE DEF S
<1>6. Min(S) \in S /\ \A y \in S : Min(S) <= y
  BY <1>2, MinIs
<1> DEFINE m == Min(S)
<1>7. m \in i..N + 1 /\ (m <= N => line[m] \in runes)
  BY <1>4, <1>6
<1>8. ASSUME NEW k \in i..m - 1 PROVE line[k] \notin runes
  <2>1. k \in i..N /\ k < m
    BY <1>1, <1>7
  <2>2. k \notin S
    BY <1>1, <1>6, <1>7, <2>1
  <2>q. QED  BY <1>5, <2>1, <2>2
<1>q. QED  BY <1>3, <1>7, <1>8

LEMMA FromSkips ==
  ASSUME NEW line \in Seq(Runes), NEW i \in 1..Len(line), NEW runes, line[i] \notin runes
  PROVE  From(line, i, runes) = From(line, i + 1, runes)
<1> DEFINE N == Len(line)
           W == {j \in i..N : line[j] \in runes}
           U == {j \in i + 1..N : line[j] \in runes}
<1>1. N \in Nat /\ i \in Nat /\ i <= N
  BY LenProperties
<1>2. ASSUME NEW j PROVE j \in W <=> j \in U
  <2>1. j \in i..N <=> j = i \/ j \in i + 1..N
    BY <1>1
  <2>q. QED  BY <2>1
<1>3. W = U
  BY <1>2
<1>q. QED  BY <1>3 DEF From

-----------------------------------------------------------------------------
\* Backslashes and strings, one rune after the other.
LEMMA EscapesAre ==
  ASSUME NEW args \in Seq(Runes), NEW i \in Nat, i >= 2
  PROVE  /\ Escapes(args, i) \in Nat
         /\ Escapes(args, 2) = 0
         /\ Escapes(args, i + 1) = IF args[i] = "escape" THEN Escapes(args, i) + 1 ELSE 0
<1> DEFINE J(n) == {j \in 2..n : \A k \in j..n - 1 : args[k] = "escape"}
<1>1. ASSUME NEW n \in Nat, n >= 2
      PROVE  /\ Min(J(n)) \in J(n) /\ Min(J(n)) \in 2..n
             /\ \A y \in J(n) : Min(J(n)) <= y
  <2>1. n \in 2..n
    BY <1>1
  <2>2. n..n - 1 = {}
    BY <1>1
  <2>3. n \in J(n)
    BY <2>1, <2>2
  <2>4. J(n) \in SUBSET Nat
    OBVIOUS
  <2>5. Min(J(n)) \in J(n) /\ \A y \in J(n) : Min(J(n)) <= y
    BY <2>3, <2>4, MinIs
  <2>6. \A y \in J(n) : y \in 2..n
    OBVIOUS
  <2> HIDE DEF J
  <2>q. QED  BY <2>5, <2>6
<1>2. \A n : Escapes(args, n) = n - Min(J(n))
  BY DEF Escapes
<1>3. Escapes(args, 2) = 0
  <2> HIDE DEF J
  <2>1. Min(J(2)) \in 2..2
    BY <1>1
  <2>2. Min(J(2)) = 2
    BY <2>1
  <2>q. QED  BY <1>2, <2>2
<1>4. Escapes(args, i) \in Nat
  <2> HIDE DEF J
  <2>1. Min(J(i)) \in 2..i
    BY <1>1
  <2>2. i - Min(J(i)) \in Nat
    BY <2>1
  <2>q. QED  BY <1>2, <2>2
<1>5. \A j \in 2..i : j \in J(i + 1) <=> j \in J(i) /\ args[i] = "escape"
  <2> SUFFICES ASSUME NEW j \in 2..i PROVE j \in J(i + 1) <=> j \in J(i) /\ args[i] = "escape"
    OBVIOUS
  <2>1. j \in 2..i + 1 /\ (i + 1) - 1 = i
    OBVIOUS
  <2>2. \A k : k \in j..i <=> k \in j..i - 1 \/ k = i
    OBVIOUS
  <2>q. QED  BY <2>1, <2>2
<1>6. \A j \in J(i + 1) : j \in 2..i + 1
  OBVIOUS
<1>7. i + 1 \in J(i + 1)
  <2>1. i + 1 \in 2..i + 1 /\ (i + 1)..(i + 1) - 1 = {}
    OBVIOUS
  <2>q. QED  BY <2>1
<1> DEFINE m == Min(J(i))
           m1 == Min(J(i + 1))
<1>8. /\ m \in J(i) /\ m \in 2..i /\ \A y \in J(i) : m <= y
      /\ m1 \in J(i + 1) /\ m1 \in 2..i + 1 /\ \A y \in J(i + 1) : m1 <= y
  <2>1. i + 1 \in Nat /\ i + 1 >= 2
    OBVIOUS
  <2> HIDE DEF J
  <2>q. QED  BY <1>1, <2>1
<1> HIDE DEF J, m, m1
<1>9. CASE args[i] = "escape"
  <2>1. m \in J(i + 1)
    BY <1>5, <1>8, <1>9
  <2>2. m1 <= m /\ m <= i
    BY <1>8, <2>1
  <2>3. m1 \in 2..i
    BY <1>8, <2>2
  <2>4. m1 \in J(i)
    BY <1>5, <1>8, <2>3
  <2>5. m <= m1
    BY <1>8, <2>4
  <2>6. m1 = m
    BY <1>8, <2>2, <2>5
  <2>7. Escapes(args, i + 1) = (i + 1) - m /\ Escapes(args, i) = i - m
    BY <1>2, <2>6 DEF m, m1
  <2>8. (i + 1) - m = (i - m) + 1
    BY <1>8
  <2>q. QED  BY <1>3, <1>4, <1>9, <2>7, <2>8
<1>10. CASE args[i] # "escape"
  <2>1. ~(m1 \in 2..i)
    BY <1>5, <1>8, <1>10
  <2>2. m1 = i + 1
    BY <1>8, <2>1
  <2>3. Escapes(args, i + 1) = (i + 1) - (i + 1)
    BY <1>2, <2>2 DEF m1
  <2>q. QED  BY <1>3, <1>4, <1>10, <2>3
<1>q. QED  BY <1>9, <1>10

LEMMA InStringIs ==
  ASSUME NEW args \in Seq(Runes), NEW i \in Nat, i >= 2
  PROVE  /\ InString(args, 2) <=> args[1] = "quote"
         /\ InString(args, i + 1) <=>
              IF args[i] = "quote" /\ ~Escaped(args, i) THEN ~InString(args, i)
              ELSE InString(args, i)
<1> DEFINE Quote(j) == args[j] = "quote" /\ (j = 1 \/ ~Escaped(args, j))
           Q(n) == {j \in 1..n : Quote(j)}
<1>1. \A n : InString(args, n) <=> Cardinality(Q(n - 1)) % 2 = 1
  BY DEF InString
<1>2. ASSUME NEW n \in Nat PROVE IsFiniteSet(Q(n)) /\ Cardinality(Q(n)) \in Nat
  <2>1. IsFiniteSet(1..n)
    BY FS_Interval
  <2>2. Q(n) \subseteq 1..n
    OBVIOUS
  <2>q. QED  BY <2>1, <2>2, FS_Subset, FS_CardinalityType
<1>3. ASSUME NEW n \in Nat, ~Quote(n + 1) PROVE Q(n + 1) = Q(n)
  <2>1. \A j : j \in 1..n + 1 <=> j \in 1..n \/ j = n + 1
    OBVIOUS
  <2> HIDE DEF Quote
  <2>q. QED  BY <1>3, <2>1
<1>4. ASSUME NEW n \in Nat, Quote(n + 1)
      PROVE  Cardinality(Q(n + 1)) = Cardinality(Q(n)) + 1
  <2>1. \A j : j \in 1..n + 1 <=> j \in 1..n \/ j = n + 1
    OBVIOUS
  <2>2. n + 1 \notin 1..n
    OBVIOUS
  <2> HIDE DEF Quote
  <2>3. Q(n + 1) = Q(n) \cup {n + 1} /\ n + 1 \notin Q(n)
    BY <1>4, <2>1, <2>2
  <2>q. QED  BY <1>2, <2>3, FS_AddElement
<1>5. Cardinality(Q(0)) = 0
  <2>1. Q(0) = {}
    OBVIOUS
  <2>q. QED  BY <2>1, FS_EmptySet
<1> HIDE DEF Q
<1>6. Q(2 - 1) = Q(0 + 1)
  OBVIOUS
<1>7. InString(args, 2) <=> args[1] = "quote"
  <2>1. CASE args[1] = "quote"
    <3>1. Cardinality(Q(0 + 1)) = 0 + 1
      BY <1>4, <1>5, <2>1
    <3>q. QED  BY <1>1, <1>6, <2>1, <3>1
  <2>2. CASE args[1] # "quote"
    <3>1. Cardinality(Q(0 + 1)) = 0
      BY <1>3, <1>5, <2>2
    <3>q. QED  BY <1>1, <1>6, <2>2, <3>1
  <2>q. QED  BY <2>1, <2>2
<1>8. /\ i - 1 \in Nat /\ (i - 1) + 1 = i /\ (i + 1) - 1 = (i - 1) + 1 /\ i # 1
  OBVIOUS
<1>9. CASE args[i] = "quote" /\ ~Escaped(args, i)
  <2>1. Cardinality(Q((i - 1) + 1)) = Cardinality(Q(i - 1)) + 1
    BY <1>4, <1>8, <1>9
  <2>2. \A c \in Nat : (c + 1) % 2 = 1 <=> ~(c % 2 = 1)
    OBVIOUS
  <2> DEFINE c == Cardinality(Q(i - 1))
  <2>3. c \in Nat
    BY <1>2, <1>8
  <2>4. InString(args, i + 1) <=> (c + 1) % 2 = 1
    BY <1>1, <1>8, <2>1
  <2>5. InString(args, i) <=> c % 2 = 1
    BY <1>1
  <2> HIDE DEF c
  <2>6. InString(args, i + 1) <=> ~InString(args, i)
    BY <2>2, <2>3, <2>4, <2>5
  <2>q. QED  BY <1>7, <1>9, <2>6
<1>10. CASE ~(args[i] = "quote" /\ ~Escaped(args, i))
  <2>1. Q((i - 1) + 1) = Q(i - 1)
    BY <1>3, <1>8, <1>10
  <2>2. InString(args, i + 1) <=> InString(args, i)
    BY <1>1, <1>8, <2>1
  <2>q. QED  BY <1>7, <1>10, <2>2
<1>q. QED  BY <1>9, <1>10

-----------------------------------------------------------------------------
\* The states of the scanner.
States == [stage : 0..4, begin : BOOLEAN, quoted : BOOLEAN, bbackslashes : Nat,
           buf : Seq(Runes), method : Seq(Runes), path : Seq(Runes),
           action : Seq(Runes), fixedArgs : Seq(Runes), tls : BOOLEAN,
           found : BOOLEAN, returned : BOOLEAN]

\* A stage that has not met its word, and one within its word.
Waits(s, stage) == s \in States /\ s.stage = stage /\ ~s.begin /\ ~s.returned
Reads(s, stage) == s \in States /\ s.stage = stage /\ s.begin /\ ~s.returned

EndsOf(stage) == IF stage = 2 THEN {"_", "("} ELSE IF stage = 4 THEN {"_", "#"} ELSE {"_"}

LEMMA EndsAre ==
  /\ EndsOf(0) = {"_"} /\ EndsOf(1) = {"_"} /\ EndsOf(2) = {"_", "("}
  /\ EndsOf(4) = {"_", "#"} /\ Blanks = {"_"} /\ Solids = Runes \ {"_"}
<1>1. Blanks = {"_"} /\ Solids = Runes \ {"_"}
  BY DEF Blanks, Solids, Blank, Runes
<1>2. EndsOf(0) = {"_"} /\ EndsOf(1) = {"_"}
  BY DEF EndsOf
<1>3. EndsOf(2) = {"_", "("}
  BY DEF EndsOf
<1>4. EndsOf(4) = {"_", "#"}
  BY DEF EndsOf
<1>q. QED  BY <1>1, <1>2, <1>3, <1>4

LEMMA OneRune == ASSUME NEW R, NEW r \in R PROVE <<r>> \in Seq(R)
OBVIOUS

LEMMA StartWaits == Waits(Start, 0)
<1>1. << >> \in Seq(Runes)
  BY EmptySeq
<1>q. QED  BY <1>1 DEF Waits, States, Start

\* One turn, case by case.
LEMMA ScanIs ==
  ASSUME NEW s, NEW r, ~s.returned
  PROVE  /\ s.stage = 0 => Scan(s, r) = Method(s, r)
         /\ s.stage = 1 => Scan(s, r) = Path(s, r)
         /\ s.stage = 2 => Scan(s, r) = Action(s, r)
         /\ s.stage = 3 => Scan(s, r) = FixedArgs(s, r)
         /\ s.stage = 4 => Scan(s, r) = Tls(s, r)
<1> HIDE DEF Method, Path, Action, FixedArgs, Tls
<1>q. QED  BY DEF Scan

LEMMA MethodIs ==
  ASSUME NEW s, NEW r, ~s.returned, s.stage = 0
  PROVE  /\ ~s.begin /\ r = "_" => Scan(s, r) = s
         /\ ~s.begin /\ r # "_" => Scan(s, r) = Begin(s, r)
         /\ s.begin /\ r # "_" => Scan(s, r) = Keep(s, r)
         /\ s.begin /\ r = "_" /\ s.buf = <<"M">> =>
              Scan(s, r) = GoTo([s EXCEPT !.method = s.buf], 1)
         /\ s.begin /\ r = "_" /\ s.buf # <<"M">> => Scan(s, r) = Returned(s, FALSE)
<1>1. /\ ~s.begin /\ r = "_" => Method(s, r) = s
      /\ ~s.begin /\ r # "_" => Method(s, r) = Begin(s, r)
      /\ s.begin /\ r # "_" => Method(s, r) = Keep(s, r)
      /\ s.begin /\ r = "_" /\ s.buf = <<"M">> =>
           Method(s, r) = GoTo([s EXCEPT !.method = s.buf], 1)
      /\ s.begin /\ r = "_" /\ s.buf # <<"M">> => Method(s, r) = Returned(s, FALSE)
  BY DEF Method, Blank
<1>2. Scan(s, r) = Method(s, r)
  BY ScanIs
<1>q. QED  BY <1>1, <1>2

LEMMA PathIs ==
  ASSUME NEW s, NEW r, ~s.returned, s.stage = 1
  PROVE  /\ ~s.begin /\ r = "_" => Scan(s, r) = s
         /\ ~s.begin /\ r = "/" => Scan(s, r) = Begin(s, r)
         /\ ~s.begin /\ r # "_" /\ r # "/" => Scan(s, r) = Returned(s, FALSE)
         /\ s.begin /\ r # "_" => Scan(s, r) = Keep(s, r)
         /\ s.begin /\ r = "_" => Scan(s, r) = GoTo([s EXCEPT !.path = s.buf], 2)
<1>1. /\ ~s.begin /\ r = "_" => Path(s, r) = s
      /\ ~s.begin /\ r = "/" => Path(s, r) = Begin(s, r)
      /\ ~s.begin /\ r # "_" /\ r # "/" => Path(s, r) = Returned(s, FALSE)
      /\ s.begin /\ r # "_" => Path(s, r) = Keep(s, r)
      /\ s.begin /\ r = "_" => Path(s, r) = GoTo([s EXCEPT !.path = s.buf], 2)
  BY DEF Path, Blank
<1>2. Scan(s, r) = Path(s, r)
  BY ScanIs
<1>q. QED  BY <1>1, <1>2

LEMMA ActionIs ==
  ASSUME NEW s, NEW r, ~s.returned, s.stage = 2
  PROVE  /\ ~s.begin /\ r = "_" => Scan(s, r) = s
         /\ ~s.begin /\ r # "_" => Scan(s, r) = Begin(s, r)
         /\ s.begin /\ r # "_" /\ r # "(" => Scan(s, r) = Keep(s, r)
         /\ s.begin /\ r = "_" => Scan(s, r) = GoTo([s EXCEPT !.action = s.buf], 4)
         /\ s.begin /\ r = "(" => Scan(s, r) = GoTo([s EXCEPT !.action = s.buf], 3)
<1>1. /\ ~s.begin /\ r = "_" => Action(s, r) = s
      /\ ~s.begin /\ r # "_" => Action(s, r) = Begin(s, r)
      /\ s.begin /\ r # "_" /\ r # "(" => Action(s, r) = Keep(s, r)
      /\ s.begin /\ r = "_" => Action(s, r) = GoTo([s EXCEPT !.action = s.buf], 4)
      /\ s.begin /\ r = "(" => Action(s, r) = GoTo([s EXCEPT !.action = s.buf], 3)
  BY DEF Action, Blank
<1>2. Scan(s, r) = Action(s, r)
  BY ScanIs
<1>q. QED  BY <1>1, <1>2

LEMMA FixedArgsIs ==
  ASSUME NEW s, NEW r, ~s.returned, s.stage = 3
  PROVE  /\ ~s.begin /\ r = "_" => Scan(s, r) = s
         /\ ~s.begin /\ r = "#" => Scan(s, r) = Returned(s, FALSE)
         /\ ~s.begin /\ r # "_" /\ r # "#" =>
              Scan(s, r) = [Begin(s, r) EXCEPT !.quoted = (r = "quote")]
         /\ s.begin /\ s.quoted => Scan(s, r) = Quoted(s, r)
         /\ s.begin /\ ~s.quoted /\ r = ")" =>
              Scan(s, r) = GoTo([s EXCEPT !.fixedArgs = s.buf, !.found = TRUE,
                                               !.bbackslashes = 0], 4)
         /\ s.begin /\ ~s.quoted /\ r \notin {")", "_", ",", "quote"} =>
              Scan(s, r) = Returned(s, FALSE)
         /\ s.begin /\ ~s.quoted /\ r = "_" => Scan(s, r) = s
         /\ s.begin /\ ~s.quoted /\ r \in {",", "quote"} =>
              Scan(s, r) = [Keep(s, r) EXCEPT !.quoted = (r = "quote")]
<1>1. /\ ~s.begin /\ r = "_" => FixedArgs(s, r) = s
      /\ ~s.begin /\ r = "#" => FixedArgs(s, r) = Returned(s, FALSE)
      /\ ~s.begin /\ r # "_" /\ r # "#" =>
           FixedArgs(s, r) = [Begin(s, r) EXCEPT !.quoted = (r = "quote")]
      /\ s.begin /\ s.quoted => FixedArgs(s, r) = Quoted(s, r)
      /\ s.begin /\ ~s.quoted /\ r = ")" =>
           FixedArgs(s, r) = GoTo([s EXCEPT !.fixedArgs = s.buf, !.found = TRUE,
                                           !.bbackslashes = 0], 4)
      /\ s.begin /\ ~s.quoted /\ r \notin {")", "_", ",", "quote"} =>
           FixedArgs(s, r) = Returned(s, FALSE)
      /\ s.begin /\ ~s.quoted /\ r = "_" => FixedArgs(s, r) = s
      /\ s.begin /\ ~s.quoted /\ r \in {",", "quote"} =>
           FixedArgs(s, r) = [Keep(s, r) EXCEPT !.quoted = (r = "quote")]
  BY DEF FixedArgs, Blank
<1>2. Scan(s, r) = FixedArgs(s, r)
  BY ScanIs
<1>q. QED  BY <1>1, <1>2

LEMMA TlsIs ==
  ASSUME NEW s, NEW r, ~s.returned, s.stage = 4
  PROVE  /\ ~s.begin /\ r = "_" => Scan(s, r) = s
         /\ ~s.begin /\ r = "#" => Scan(s, r) = Returned(s, TRUE)
         /\ ~s.begin /\ r # "_" /\ r # "#" => Scan(s, r) = Begin(s, r)
         /\ s.begin /\ r = "#" => Scan(s, r) = Returned(s, FALSE)
         /\ s.begin /\ r = "_" /\ s.buf = <<"TLS">> =>
              Scan(s, r) = Returned([s EXCEPT !.tls = TRUE], TRUE)
         /\ s.begin /\ r = "_" /\ s.buf # <<"TLS">> => Scan(s, r) = Returned(s, FALSE)
         /\ s.begin /\ r # "_" /\ r # "#" => Scan(s, r) = Keep(s, r)
<1>1. /\ ~s.begin /\ r = "_" => Tls(s, r) = s
      /\ ~s.begin /\ r = "#" => Tls(s, r) = Returned(s, TRUE)
      /\ ~s.begin /\ r # "_" /\ r # "#" => Tls(s, r) = Begin(s, r)
      /\ s.begin /\ r = "#" => Tls(s, r) = Returned(s, FALSE)
      /\ s.begin /\ r = "_" /\ s.buf = <<"TLS">> =>
           Tls(s, r) = Returned([s EXCEPT !.tls = TRUE], TRUE)
      /\ s.begin /\ r = "_" /\ s.buf # <<"TLS">> => Tls(s, r) = Returned(s, FALSE)
      /\ s.begin /\ r # "_" /\ r # "#" => Tls(s, r) = Keep(s, r)
  BY DEF Tls, Blank
<1>2. Scan(s, r) = Tls(s, r)
  BY ScanIs
<1>q. QED  BY <1>1, <1>2

LEMMA BlankIsSkipped ==
  ASSUME NEW s, NEW stage \in 0..4, Waits(s, stage)
  PROVE  Scan(s, "_") = s
<1>0. CASE stage = 0
  BY <1>0, MethodIs DEF Waits
<1>1. CASE stage = 1
  BY <1>1, PathIs DEF Waits
<1>2. CASE stage = 2
  BY <1>2, ActionIs DEF Waits
<1>3. CASE stage = 3
  BY <1>3, FixedArgsIs DEF Waits
<1>4. CASE stage = 4
  BY <1>4, TlsIs DEF Waits
<1>5. stage = 0 \/ stage = 1 \/ stage = 2 \/ stage = 3 \/ stage = 4
  OBVIOUS
<1>q. QED  BY <1>0, <1>1, <1>2, <1>3, <1>4, <1>5

\* What a word may begin with.
BeginsWord(stage, r) == ~Blank(r) /\ (stage = 1 => r = "/") /\ (stage = 4 => r # "#")

LEMMA WordBegins ==
  ASSUME NEW s, NEW stage \in {0, 1, 2, 4}, Waits(s, stage), NEW r \in Runes,
         BeginsWord(stage, r)
  PROVE  Scan(s, r) = Begin(s, r) /\ Reads(Begin(s, r), stage) /\ Begin(s, r).buf = <<r>>
<1>1. <<r>> \in Seq(Runes)
  BY OneRune
<1>2. Reads(Begin(s, r), stage) /\ Begin(s, r).buf = <<r>>
  BY <1>1 DEF Begin, Reads, Waits, States
<1>3. Scan(s, r) = Begin(s, r)
  <2>0. CASE stage = 0
    BY <2>0, MethodIs DEF Waits, BeginsWord, Blank
  <2>1. CASE stage = 1
    BY <2>1, PathIs DEF Waits, BeginsWord, Blank
  <2>2. CASE stage = 2
    BY <2>2, ActionIs DEF Waits, BeginsWord, Blank
  <2>4. CASE stage = 4
    BY <2>4, TlsIs DEF Waits, BeginsWord, Blank
  <2>q. QED  BY <2>0, <2>1, <2>2, <2>4
<1>q. QED  BY <1>2, <1>3

LEMMA WordGoesOn ==
  ASSUME NEW s, NEW stage \in {0, 1, 2, 4}, Reads(s, stage), NEW r \in Runes,
         r \notin EndsOf(stage)
  PROVE  Scan(s, r) = Keep(s, r) /\ Reads(Keep(s, r), stage)
         /\ Keep(s, r).buf = Append(s.buf, r)
<1>1. s.buf \in Seq(Runes)
  BY DEF Reads, States
<1>2. Append(s.buf, r) \in Seq(Runes)
  BY <1>1, AppendProperties
<1>3. Reads(Keep(s, r), stage) /\ Keep(s, r).buf = Append(s.buf, r)
  BY <1>2 DEF Keep, Reads, States
<1>4. r # "_" /\ (stage = 2 => r # "(") /\ (stage = 4 => r # "#")
  BY EndsAre
<1>5. Scan(s, r) = Keep(s, r)
  <2>0. CASE stage = 0
    BY <2>0, <1>4, MethodIs DEF Reads
  <2>1. CASE stage = 1
    BY <2>1, <1>4, PathIs DEF Reads
  <2>2. CASE stage = 2
    BY <2>2, <1>4, ActionIs DEF Reads
  <2>4. CASE stage = 4
    BY <2>4, <1>4, TlsIs DEF Reads
  <2>q. QED  BY <2>0, <2>1, <2>2, <2>4
<1>q. QED  BY <1>3, <1>5

\* What is left as it is while the scanner stays in a stage.
Unread(s, t) == /\ t.stage = s.stage /\ t.quoted = s.quoted
                /\ t.bbackslashes = s.bbackslashes /\ t.method = s.method
                /\ t.path = s.path /\ t.action = s.action /\ t.fixedArgs = s.fixedArgs
                /\ t.tls = s.tls /\ t.found = s.found

LEMMA BeginKeepUnread ==
  ASSUME NEW s \in States, NEW r
  PROVE  Unread(s, Begin(s, r)) /\ Unread(s, Keep(s, r))
BY DEF Unread, Begin, Keep, States

LEMMA BlanksAreSkipped ==
  ASSUME NEW line \in Seq(Runes), NEW a, Runs(line, a), NEW stage \in 0..4,
         NEW i \in 1..Len(line) + 1, Waits(a[i - 1], stage)
  PROVE  a[From(line, i, Solids) - 1] = a[i - 1]
<1> DEFINE N == Len(line)
           j == From(line, i, Solids)
           S == {n \in Nat : i + n <= j => a[i + n - 1] = a[i - 1]}
<1>1. N \in Nat /\ i \in Nat
  BY LenProperties
<1>2. j \in i..N + 1 /\ \A k \in i..j - 1 : Blank(line[k])
  <2>1. j \in i..N + 1 /\ \A k \in i..j - 1 : line[k] \notin Solids
    BY FromIs
  <2>2. \A k \in i..j - 1 : line[k] \in Runes
    <3>1. \A k \in 1..N : line[k] \in Runes
      BY ElementOfSeq
    <3>2. \A k \in i..j - 1 : k \in 1..N
      BY <1>1, <2>1
    <3>q. QED  BY <3>1, <3>2
  <2>q. QED  BY <2>1, <2>2, EndsAre DEF Blank
<1> HIDE DEF j
<1>3. 0 \in S
  BY <1>1
<1>4. ASSUME NEW n \in Nat, n \in S PROVE n + 1 \in S
  <2> SUFFICES ASSUME i + (n + 1) <= j PROVE a[i + (n + 1) - 1] = a[i - 1]
    OBVIOUS
  <2>1. /\ i + n <= j /\ i + n \in i..j - 1 /\ i + n \in 1..N
        /\ i + (n + 1) - 1 = i + n
    BY <1>1, <1>2
  <2>2. a[i + n - 1] = a[i - 1]
    BY <1>4, <2>1
  <2>3. a[i + n] = Scan(a[i + n - 1], line[i + n])
    BY <2>1 DEF Runs
  <2>4. Blank(line[i + n])
    BY <1>2, <2>1
  <2>5. a[i + n] = a[i - 1]
    BY <2>2, <2>3, <2>4, BlankIsSkipped DEF Blank
  <2>q. QED  BY <2>1, <2>5
<1> HIDE DEF S
<1>5. j - i \in Nat /\ i + (j - i) = j
  BY <1>1, <1>2
<1>6. j - i \in S
  BY <1>3, <1>4, <1>5, AllNumbers
<1>7. a[i + (j - i) - 1] = a[i - 1]
  BY <1>1, <1>2, <1>5, <1>6 DEF S
<1>q. QED  BY <1>5, <1>7 DEF j

LEMMA SubSeqGrows ==
  ASSUME NEW R, NEW s \in Seq(R), NEW i \in 1..Len(s), NEW k \in i..Len(s) - 1
  PROVE  Append(SubSeq(s, i, k), s[k + 1]) = SubSeq(s, i, k + 1)
<1> DEFINE N == Len(s)
           u == SubSeq(s, i, k)
           v == SubSeq(s, i, k + 1)
<1>1. N \in Nat /\ i \in Nat /\ k \in Nat
  BY LenProperties
<1>2. /\ u \in Seq(R) /\ Len(u) = k - i + 1
      /\ \A n \in 1..k - i + 1 : u[n] = s[i + n - 1]
  BY <1>1, SubSeqProperties
<1>3. /\ v \in Seq(R) /\ Len(v) = k + 1 - i + 1
      /\ \A n \in 1..k + 1 - i + 1 : v[n] = s[i + n - 1]
  BY <1>1, SubSeqProperties
<1>4. s[k + 1] \in R
  <2>1. k + 1 \in 1..N
    BY <1>1
  <2>q. QED  BY <2>1, ElementOfSeq
<1> DEFINE w == Append(u, s[k + 1])
<1>5. /\ w \in Seq(R) /\ Len(w) = Len(u) + 1
      /\ \A n \in 1..Len(u) : w[n] = u[n]
      /\ w[Len(u) + 1] = s[k + 1]
  BY <1>2, <1>4, AppendProperties
<1> HIDE DEF u, v, w, N
<1>6. Len(w) = Len(v)
  BY <1>1, <1>2, <1>3, <1>5
<1>7. ASSUME NEW n \in 1..Len(v) PROVE w[n] = v[n]
  <2>1. v[n] = s[i + n - 1]
    BY <1>3
  <2>2. CASE n \in 1..Len(u)
    BY <1>2, <1>5, <2>1, <2>2
  <2>3. CASE n = Len(u) + 1
    <3>1. i + n - 1 = k + 1
      BY <1>1, <1>2, <2>3
    <3>q. QED  BY <1>5, <2>1, <2>3, <3>1
  <2>q. QED  BY <1>1, <1>2, <1>3, <2>2, <2>3
<1>8. w = v
  BY <1>3, <1>5, <1>6, <1>7, SeqEqual
<1>q. QED  BY <1>8 DEF w, u, v

LEMMA SubSeqOne ==
  ASSUME NEW R, NEW s \in Seq(R), NEW i \in 1..Len(s)
  PROVE  SubSeq(s, i, i) = <<s[i]>>
<1>1. Len(s) \in Nat
  BY LenProperties
<1>2. SubSeq(s, i, i) \in Seq(R) /\ Len(SubSeq(s, i, i)) = i - i + 1
      /\ \A n \in 1..i - i + 1 : SubSeq(s, i, i)[n] = s[i + n - 1]
  BY <1>1, SubSeqProperties
<1> DEFINE u == SubSeq(s, i, i)
           v == <<s[i]>>
<1>3. u \in Seq(R) /\ Len(u) = 1 /\ u[1] = s[i]
  BY <1>1, <1>2
<1>4. v \in Seq(R) /\ Len(v) = 1 /\ v[1] = s[i]
  <2>1. s[i] \in R
    BY ElementOfSeq
  <2>q. QED  BY <2>1, OneRune
<1> HIDE DEF u, v
<1>5. u = v
  BY <1>3, <1>4, SeqEqual
<1>q. QED  BY <1>5 DEF u, v

\* A word is read from its first rune up to the one that ends it.
LEMMA WordIsRead ==
  ASSUME NEW line \in Seq(Runes), NEW a, Runs(line, a), NEW stage \in {0, 1, 2, 4},
         NEW i \in 1..Len(line), Waits(a[i - 1], stage), BeginsWord(stage, line[i])
  PROVE  LET end == From(line, i + 1, EndsOf(stage)) - 1
         IN  /\ Reads(a[end], stage) /\ Unread(a[i - 1], a[end])
             /\ a[end].buf = SubSeq(line, i, end)
<1> DEFINE N == Len(line)
           e == From(line, i + 1, EndsOf(stage))
           G(k) == /\ Reads(a[k], stage) /\ Unread(a[i - 1], a[k])
                   /\ a[k].buf = SubSeq(line, i, k)
           S == {n \in Nat : i + n < e => G(i + n)}
<1>1. N \in Nat /\ i \in Nat /\ \A k \in 1..N : line[k] \in Runes
  BY LenProperties, ElementOfSeq
<1>2. e \in i + 1..N + 1 /\ \A k \in i + 1..e - 1 : line[k] \notin EndsOf(stage)
  <2>1. i + 1 \in 1..N + 1
    BY <1>1
  <2>q. QED  BY <2>1, FromIs
<1> HIDE DEF e
<1>3. 0 \in S
  <2>1. line[i] \in Runes
    BY <1>1
  <2>2. a[i] = Scan(a[i - 1], line[i])
    BY DEF Runs
  <2>3. a[i] = Begin(a[i - 1], line[i]) /\ Reads(a[i], stage) /\ a[i].buf = <<line[i]>>
    BY <2>1, <2>2, WordBegins
  <2>4. Unread(a[i - 1], a[i])
    BY <2>3, BeginKeepUnread DEF Waits
  <2>5. SubSeq(line, i, i) = <<line[i]>>
    BY SubSeqOne
  <2>6. i + 0 = i
    BY <1>1
  <2>q. QED  BY <2>3, <2>4, <2>5, <2>6
<1>4. ASSUME NEW n \in Nat, n \in S PROVE n + 1 \in S
  <2> SUFFICES ASSUME i + (n + 1) < e PROVE G(i + (n + 1))
    OBVIOUS
  <2> DEFINE k == i + n
  <2>1. /\ k \in Nat /\ k < e /\ k + 1 \in i + 1..e - 1 /\ k + 1 \in 1..N
        /\ k \in i..N - 1 /\ i + (n + 1) = k + 1 /\ (k + 1) - 1 = k
    BY <1>1, <1>2
  <2>2. G(k)
    BY <1>4, <2>1
  <2> HIDE DEF k
  <2>3. line[k + 1] \in Runes /\ line[k + 1] \notin EndsOf(stage)
    BY <1>1, <1>2, <2>1
  <2>4. a[k + 1] = Scan(a[k], line[k + 1])
    BY <2>1 DEF Runs
  <2> DEFINE s == a[k]
           r == line[k + 1]
  <2>9. Reads(s, stage) /\ r \in Runes /\ r \notin EndsOf(stage)
    BY <2>2, <2>3
  <2>10. a[k + 1] = Scan(s, r)
    BY <2>4
  <2> HIDE DEF s, r
  <2>11. Scan(s, r) = Keep(s, r) /\ Reads(Keep(s, r), stage)
         /\ Keep(s, r).buf = Append(s.buf, r)
    BY <2>9, WordGoesOn
  <2>5. /\ a[k + 1] = Keep(a[k], line[k + 1]) /\ Reads(a[k + 1], stage)
        /\ a[k + 1].buf = Append(a[k].buf, line[k + 1])
    BY <2>10, <2>11 DEF s, r
  <2>6. Unread(a[k], a[k + 1])
    BY <2>2, <2>5, BeginKeepUnread DEF Reads
  <2>7. Unread(a[i - 1], a[k + 1])
    BY <2>2, <2>6 DEF Unread
  <2>8. a[k + 1].buf = SubSeq(line, i, k + 1)
    BY <2>1, <2>2, <2>5, SubSeqGrows
  <2>q. QED  BY <2>1, <2>5, <2>7, <2>8
<1> HIDE DEF S, G
<1>5. e - 1 - i \in Nat /\ i + (e - 1 - i) = e - 1 /\ e - 1 < e
  BY <1>1, <1>2
<1>6. e - 1 - i \in S
  BY <1>3, <1>4, <1>5, AllNumbers
<1>7. G(e - 1)
  BY <1>5, <1>6 DEF S
<1>q. QED  BY <1>7 DEF G, e

-----------------------------------------------------------------------------
\* What the states come to.
RecordOf(s) == [method |-> s.method, path |-> s.path, action |-> s.action,
                fixedArgs |-> s.fixedArgs, tls |-> s.tls, found |-> s.found]

Records == [method : Seq(Runes), path : Seq(Runes), action : Seq(Runes),
            fixedArgs : Seq(Runes), tls : BOOLEAN, found : BOOLEAN]

\* The meaning of what was read so far; of arguments there may be none.
Means(s, result) == /\ result \in Records /\ result.tls = FALSE /\ result.found = TRUE
                    /\ s.tls = FALSE /\ s.method = result.method /\ s.path = result.path
                    /\ s.action = result.action /\ s.fixedArgs = result.fixedArgs
                    /\ s.found <=> result.fixedArgs # << >>

LEMMA RecordIs ==
  ASSUME NEW s \in States
  PROVE  [f \in Results |-> s[f]] = RecordOf(s)
<1>1. DOMAIN RecordOf(s) = Results
  BY DEF RecordOf, Results
<1>2. ASSUME NEW f \in Results PROVE RecordOf(s)[f] = s[f]
  BY <1>2 DEF RecordOf, Results
<1>3. RecordOf(s) = [f \in DOMAIN RecordOf(s) |-> RecordOf(s)[f]]
  BY DEF RecordOf
<1> HIDE DEF Results
<1>q. QED  BY <1>1, <1>2, <1>3

LEMMA EndOfLineIs ==
  ASSUME NEW s
  PROVE  /\ s.returned => EndOfLine(s) = s
         /\ ~s.returned /\ s.stage \in {0, 1, 3} => EndOfLine(s) = Returned(s, FALSE)
         /\ ~s.returned /\ s.stage = 2 =>
              EndOfLine(s) = Returned([s EXCEPT !.action = s.buf], TRUE)
         /\ ~s.returned /\ s.stage = 4 /\ ~s.begin => EndOfLine(s) = Returned(s, TRUE)
         /\ ~s.returned /\ s.stage = 4 /\ s.begin /\ s.buf = <<"TLS">> =>
              EndOfLine(s) = Returned([s EXCEPT !.tls = TRUE], TRUE)
         /\ ~s.returned /\ s.stage = 4 /\ s.begin /\ s.buf # <<"TLS">> =>
              EndOfLine(s) = Returned(s, s.found)
<1>1. s.returned => EndOfLine(s) = s
  BY DEF EndOfLine
<1>2. ~s.returned /\ s.stage \in {0, 1, 3} => EndOfLine(s) = Returned(s, FALSE)
  BY DEF EndOfLine
<1>3. ~s.returned /\ s.stage = 2 =>
        EndOfLine(s) = Returned([s EXCEPT !.action = s.buf], TRUE)
  BY DEF EndOfLine
<1>4. ~s.returned /\ s.stage = 4 /\ ~s.begin => EndOfLine(s) = Returned(s, TRUE)
  BY DEF EndOfLine
<1>5. ~s.returned /\ s.stage = 4 /\ s.begin /\ s.buf = <<"TLS">> =>
        EndOfLine(s) = Returned([s EXCEPT !.tls = TRUE], TRUE)
  BY DEF EndOfLine
<1>6. ~s.returned /\ s.stage = 4 /\ s.begin /\ s.buf # <<"TLS">> =>
        EndOfLine(s) = Returned(s, s.found)
  <2>1. s.stage = 4 => s.stage \notin {0, 1, 3} /\ s.stage # 2
    OBVIOUS
  <2>q. QED  BY <2>1, Zenon DEF EndOfLine
<1>q. QED  BY <1>1, <1>2, <1>3, <1>4, <1>5, <1>6

LEMMA ReturnedIs ==
  ASSUME NEW s \in States, NEW found \in BOOLEAN
  PROVE  /\ Returned(s, found) \in States /\ Returned(s, found).returned
         /\ Returned(s, found).found = found
         /\ Returned(s, found).method = s.method /\ Returned(s, found).path = s.path
         /\ Returned(s, found).action = s.action
         /\ Returned(s, found).fixedArgs = s.fixedArgs /\ Returned(s, found).tls = s.tls
BY DEF Returned, States

\* The answer of a state from which the loop or the line has no more to say.
LEMMA Answered ==
  ASSUME NEW s, NEW t \in States, EndOfLine(s) = t
  PROVE  /\ ~t.found => Output(s) = Rejected
         /\ t.found => Output(s) = RecordOf(t)
BY RecordIs DEF Output

LEMMA RejectedIs ==
  ASSUME NEW s \in States, EndOfLine(s) = Returned(s, FALSE) \/ (s.returned /\ ~s.found)
  PROVE  Output(s) = Rejected
<1>1. CASE EndOfLine(s) = Returned(s, FALSE)
  <2>1. Returned(s, FALSE) \in States /\ ~Returned(s, FALSE).found
    BY ReturnedIs
  <2>q. QED  BY <1>1, <2>1, Answered
<1>2. CASE s.returned /\ ~s.found
  BY <1>2, EndOfLineIs, Answered
<1>q. QED  BY <1>1, <1>2

LEMMA AcceptedIs ==
  ASSUME NEW s, NEW t \in States,
         EndOfLine(s) = Returned(t, TRUE) \/ s = Returned(t, TRUE)
  PROVE  Output(s) = RecordOf(Returned(t, TRUE))
<1> DEFINE u == Returned(t, TRUE)
<1>1. u \in States /\ u.returned /\ u.found = TRUE
  BY ReturnedIs
<1> HIDE DEF u
<1>2. EndOfLine(s) = u
  <2>1. s = u => EndOfLine(s) = s
    BY <1>1, EndOfLineIs
  <2>q. QED  BY <2>1 DEF u
<1>3. Output(s) = RecordOf(u)
  BY <1>1, <1>2, Answered
<1>q. QED  BY <1>3 DEF u

LEMMA SameRecord ==
  ASSUME NEW t \in States, NEW result \in Records,
         t.method = result.method, t.path = result.path, t.action = result.action,
         t.fixedArgs = result.fixedArgs, t.tls = result.tls, t.found = result.found
  PROVE  RecordOf(t) = result
BY DEF RecordOf, Records

LEMMA FoundIs ==
  ASSUME NEW s \in States, NEW result, Means(s, result)
  PROVE  /\ RecordOf(Returned(s, TRUE)) = result
         /\ RecordOf(Returned([s EXCEPT !.tls = TRUE], TRUE)) = [result EXCEPT !.tls = TRUE]
<1>1. RecordOf(Returned(s, TRUE)) = result
  <2>1. s.tls = result.tls /\ result.found = TRUE /\ result \in Records
    BY DEF Means
  <2>2. Returned(s, TRUE).found = TRUE
    BY ReturnedIs
  <2>3. Returned(s, TRUE) \in States /\ Returned(s, TRUE).tls = s.tls
    BY ReturnedIs
  <2>q. QED  BY <2>1, <2>2, <2>3, ReturnedIs, SameRecord DEF Means
<1> DEFINE t == [s EXCEPT !.tls = TRUE]
           r == [result EXCEPT !.tls = TRUE]
<1>2. /\ t \in States /\ t.tls /\ t.method = s.method /\ t.path = s.path
      /\ t.action = s.action /\ t.fixedArgs = s.fixedArgs
  BY DEF States
<1>3. /\ r \in Records /\ r.tls /\ r.found = result.found /\ r.method = result.method
      /\ r.path = result.path /\ r.action = result.action
      /\ r.fixedArgs = result.fixedArgs
  BY DEF Means, Records
<1> HIDE DEF t, r
<1>4. RecordOf(Returned(t, TRUE)) = r
  <2>1. t.tls = TRUE /\ r.tls = TRUE /\ r.found = TRUE
    BY <1>2, <1>3 DEF States, Records, Means
  <2>2. Returned(t, TRUE).found = TRUE
    BY <1>2, ReturnedIs
  <2>3. Returned(t, TRUE) \in States /\ Returned(t, TRUE).tls = t.tls
    BY <1>2, ReturnedIs
  <2>4. /\ Returned(t, TRUE).method = r.method /\ Returned(t, TRUE).path = r.path
        /\ Returned(t, TRUE).action = r.action
        /\ Returned(t, TRUE).fixedArgs = r.fixedArgs
    <3>1. /\ Returned(t, TRUE).method = t.method /\ Returned(t, TRUE).path = t.path
          /\ Returned(t, TRUE).action = t.action
          /\ Returned(t, TRUE).fixedArgs = t.fixedArgs
      BY <1>2, ReturnedIs
    <3>q. QED  BY <1>2, <1>3, <3>1 DEF Means
  <2>q. QED  BY <1>3, <2>1, <2>2, <2>3, <2>4, SameRecord
<1>q. QED  BY <1>1, <1>4 DEF t, r

LEMMA NothingAfter ==
  ASSUME NEW line \in Seq(Runes), NEW a, Runs(line, a), NEW i \in 0..Len(line),
         a[i].returned
  PROVE  a[Len(line)] = a[i]
<1> DEFINE N == Len(line)
           S == {n \in Nat : i + n <= N => a[i + n] = a[i]}
<1>1. N \in Nat /\ i \in Nat
  BY LenProperties
<1>2. 0 \in S
  BY <1>1
<1>3. ASSUME NEW n \in Nat, n \in S PROVE n + 1 \in S
  <2> SUFFICES ASSUME i + (n + 1) <= N PROVE a[i + (n + 1)] = a[i]
    OBVIOUS
  <2>1. i + n <= N /\ i + (n + 1) \in 1..N /\ i + (n + 1) - 1 = i + n
    BY <1>1
  <2>2. a[i + n] = a[i]
    BY <1>3, <2>1
  <2>3. a[i + (n + 1)] = Scan(a[i], line[i + (n + 1)])
    BY <2>1, <2>2 DEF Runs
  <2>4. \A r : Scan(a[i], r) = a[i]
    BY DEF Scan
  <2>q. QED  BY <2>3, <2>4
<1> HIDE DEF S
<1>4. N - i \in Nat /\ i + (N - i) = N
  BY <1>1
<1>5. N - i \in S
  BY <1>2, <1>3, <1>4, AllNumbers
<1>q. QED  BY <1>1, <1>4, <1>5 DEF S

-----------------------------------------------------------------------------
IsTls(word) == word = <<"TLS">>
IsHash(r) == r = "#"
EndsTls(r) == r \in {"_", "#"}

ParameterSays(line, from, result, end, word) ==
  /\ word = << >> => Parameter(line, from, result) = result
  /\ word # << >> /\ IsTls(word) /\ (end > Len(line) \/ Blank(line[end])) =>
       Parameter(line, from, result) = [result EXCEPT !.tls = TRUE]
  /\ word # << >> /\ IsTls(word) /\ ~(end > Len(line) \/ Blank(line[end])) =>
       Parameter(line, from, result) = Rejected
  /\ word # << >> /\ ~IsTls(word) /\ end > Len(line)
       /\ result.fixedArgs # << >> => Parameter(line, from, result) = result
  /\ word # << >> /\ ~IsTls(word)
       /\ ~(end > Len(line) /\ result.fixedArgs # << >>) =>
       Parameter(line, from, result) = Rejected

LEMMA ParameterCases ==
  ASSUME NEW line, NEW from, NEW result, NEW i, NEW end, NEW word,
         i = From(line, from, Solids), end = From(line, i, {"_", "#"}),
         word = SubSeq(line, i, end - 1)
  PROVE  ParameterSays(line, from, result, end, word)
<1> DEFINE late == end > Len(line)
           tls == IsTls(word)
           some == result.fixedArgs # << >>
<1>1. Parameter(line, from, result) =
        IF word = << >> THEN result
        ELSE IF tls /\ (late \/ Blank(line[end])) THEN [result EXCEPT !.tls = TRUE]
        ELSE IF ~tls /\ late /\ some THEN result
        ELSE Rejected
  BY Zenon DEF Parameter, IsTls
<1> HIDE DEF late, tls, some
<1>2. /\ word = << >> => Parameter(line, from, result) = result
      /\ word # << >> /\ tls /\ (late \/ Blank(line[end])) =>
           Parameter(line, from, result) = [result EXCEPT !.tls = TRUE]
      /\ word # << >> /\ tls /\ ~(late \/ Blank(line[end])) =>
           Parameter(line, from, result) = Rejected
      /\ word # << >> /\ ~tls /\ late /\ some => Parameter(line, from, result) = result
      /\ word # << >> /\ ~tls /\ ~(late /\ some) => Parameter(line, from, result) = Rejected
  BY <1>1
<1>q. QED  BY <1>2 DEF late, tls, some, ParameterSays

\* What follows the action, or the arguments.
LEMMA ParameterIsRead ==
  ASSUME NEW line \in Seq(Runes), NEW a, Runs(line, a),
         NEW from \in 1..Len(line) + 1, Waits(a[from - 1], 4),
         NEW result, Means(a[from - 1], result)
  PROVE  Output(a[Len(line)]) = Parameter(line, from, result)
<1> DEFINE N == Len(line)
           i == From(line, from, Solids)
           end == From(line, i, {"_", "#"})
           word == SubSeq(line, i, end - 1)
           s == a[from - 1]
<1>1. N \in Nat /\ from \in Nat /\ \A k \in 1..N : line[k] \in Runes
  BY LenProperties, ElementOfSeq
<1>2. i \in from..N + 1 /\ (i <= N => line[i] \in Solids)
  BY FromIs
<1>3. i \in 1..N + 1
  BY <1>1, <1>2
<1>4. /\ end \in i..N + 1 /\ \A k \in i..end - 1 : ~EndsTls(line[k])
      /\ end <= N => EndsTls(line[end])
  BY <1>3, FromIs DEF EndsTls
<1>5. a[i - 1] = s
  BY BlanksAreSkipped
<1>6. s \in States
  BY DEF Waits
<1> HIDE DEF i, end, word, s
<1>p. /\ word = << >> => Parameter(line, from, result) = result
      /\ word # << >> /\ IsTls(word) /\ (end > N \/ Blank(line[end])) =>
           Parameter(line, from, result) = [result EXCEPT !.tls = TRUE]
      /\ word # << >> /\ IsTls(word) /\ ~(end > N \/ Blank(line[end])) =>
           Parameter(line, from, result) = Rejected
      /\ word # << >> /\ ~IsTls(word) /\ end > N /\ result.fixedArgs # << >> =>
           Parameter(line, from, result) = result
      /\ word # << >> /\ ~IsTls(word) /\ ~(end > N /\ result.fixedArgs # << >>) =>
           Parameter(line, from, result) = Rejected
  <2>1. /\ i = From(line, from, Solids) /\ end = From(line, i, {"_", "#"})
        /\ word = SubSeq(line, i, end - 1)
    BY DEF i, end, word
  <2>2. N = Len(line)
    OBVIOUS
  <2> HIDE DEF N
  <2>3. ParameterSays(line, from, result, end, word)
    BY <2>1, ParameterCases
  <2>q. QED  BY <2>2, <2>3 DEF ParameterSays
<1>7. CASE i = N + 1
  <2>1. end = N + 1
    BY <1>1, <1>4, <1>7
  <2>2. word = << >>
    BY <1>1, <1>7, <2>1 DEF word
  <2>3. Parameter(line, from, result) = result
    BY <2>2, <1>p
  <2>4. a[N] = s
    <3>1. i - 1 = N
      BY <1>1, <1>7
    <3>q. QED  BY <1>5, <3>1
  <2>5. EndOfLine(s) = Returned(s, TRUE)
    BY EndOfLineIs DEF Waits, s
  <2>6. Output(s) = RecordOf(Returned(s, TRUE))
    BY <1>6, <2>5, AcceptedIs
  <2>q. QED  BY <1>6, <2>3, <2>4, <2>6, FoundIs DEF s
<1>8. CASE i \in 1..N /\ IsHash(line[i])
  <2>1. end = i
    <3>0. EndsTls(line[i])
      BY <1>8 DEF IsHash, EndsTls
    <3>1. ~(i \in i..end - 1)
      BY <1>4, <3>0
    <3>q. QED  BY <1>1, <1>3, <1>4, <3>1
  <2>2. word = << >>
    BY <1>1, <1>3, <2>1 DEF word
  <2>3. Parameter(line, from, result) = result
    BY <2>2, <1>p
  <2>4. a[i] = Scan(s, line[i])
    BY <1>5, <1>8 DEF Runs
  <2>5. a[i] = Returned(s, TRUE)
    BY <1>8, <2>4, TlsIs DEF Waits, s, IsHash
  <2>6. a[i].returned /\ a[i].found /\ a[i] \in States
    BY <1>6, <2>5, ReturnedIs
  <2>7. a[N] = a[i]
    <3>1. i \in 0..N
      BY <1>1, <1>8
    <3>q. QED  BY <2>6, <3>1, NothingAfter
  <2>8. Output(a[N]) = RecordOf(a[i])
    BY <1>6, <2>5, <2>7, AcceptedIs
  <2>q. QED  BY <1>6, <2>3, <2>5, <2>8, FoundIs DEF s
<1>9. CASE i \in 1..N /\ ~IsHash(line[i])
  <2>0. line[i] \in Runes /\ ~Blank(line[i]) /\ ~EndsTls(line[i])
    <3>1. line[i] \in Runes /\ line[i] \in Solids
      BY <1>1, <1>2, <1>9
    <3>q. QED  BY <1>9, <3>1, EndsAre DEF Blank, EndsTls, IsHash
  <2>1. BeginsWord(4, line[i])
    BY <1>9, <2>0 DEF BeginsWord, IsHash
  <2>2. end = From(line, i + 1, EndsOf(4))
    <3>1. From(line, i, {"_", "#"}) = From(line, i + 1, {"_", "#"})
      BY <1>9, <2>0, FromSkips DEF EndsTls
    <3>q. QED  BY <3>1, EndsAre DEF end
  <2> DEFINE t == a[end - 1]
  <2>3. Reads(t, 4) /\ Unread(s, t) /\ t.buf = word
    <3>1. Waits(a[i - 1], 4)
      BY <1>5 DEF s
    <3>2. i \in 1..Len(line) /\ 4 \in {0, 1, 2, 4}
      BY <1>9
    <3>q. QED  BY <1>5, <2>1, <2>2, <3>1, <3>2, WordIsRead DEF word
  <2>4. Means(t, result) /\ t \in States
    BY <2>3 DEF Means, Unread, s, Reads
  <2>5. word # << >> /\ end - 1 \in i..N
    <3> HIDE DEF t
    <3>1. end # i
      BY <1>4, <1>9, <2>0
    <3>2. i \in Nat /\ end - 1 \in i..N
      BY <1>1, <1>4, <1>9, <3>1
    <3>3. Len(word) = end - 1 - i + 1
      BY <1>9, <3>2, SubSeqProperties DEF word
    <3>4. Len(word) # 0
      BY <3>2, <3>3
    <3>5. Len(<< >>) = 0
      OBVIOUS
    <3>q. QED  BY <3>2, <3>4, <3>5
  <2> HIDE DEF t
  <2>6. CASE end = N + 1
    <3>1. a[N] = t
      <4>1. end - 1 = N
        BY <1>1, <2>6
      <4>q. QED  BY <4>1 DEF t
    <3>2. end > N
      BY <1>1, <2>6
    <3>3. CASE IsTls(word)
      <4>1. Parameter(line, from, result) = [result EXCEPT !.tls = TRUE]
        BY <2>5, <3>2, <3>3, <1>p
      <4> DEFINE u == [t EXCEPT !.tls = TRUE]
      <4>2. EndOfLine(t) = Returned(u, TRUE)
        BY <2>3, <3>3, EndOfLineIs DEF Reads, IsTls
      <4>3. u \in States
        BY <2>4 DEF States
      <4>5. Output(t) = RecordOf(Returned(u, TRUE))
        BY <4>2, <4>3, AcceptedIs
      <4>q. QED  BY <2>4, <3>1, <4>1, <4>5, FoundIs
    <3>4. CASE ~IsTls(word)
      <4>1. EndOfLine(t) = Returned(t, t.found)
        BY <2>3, <3>4, EndOfLineIs DEF Reads, IsTls
      <4>2. t.found \in BOOLEAN
        BY <2>4 DEF States
      <4>3. CASE result.fixedArgs # << >>
        <5>1. Parameter(line, from, result) = result
          BY <2>5, <3>2, <3>4, <4>3, <1>p
        <5>2. t.found = TRUE
          BY <2>4, <4>2, <4>3 DEF Means
        <5>4. Output(t) = RecordOf(Returned(t, TRUE))
          BY <2>4, <4>1, <5>2, AcceptedIs
        <5>q. QED  BY <2>4, <3>1, <5>1, <5>4, FoundIs
      <4>4. CASE result.fixedArgs = << >>
        <5>1. Parameter(line, from, result) = Rejected
          BY <2>5, <3>4, <4>4, <1>p
        <5>2. t.found = FALSE
          BY <2>4, <4>2, <4>4 DEF Means
        <5>3. Output(t) = Rejected
          BY <2>4, <4>1, <5>2, RejectedIs
        <5>q. QED  BY <3>1, <5>1, <5>3
      <4>q. QED  BY <4>3, <4>4
    <3>q. QED  BY <3>3, <3>4
  <2>7. CASE end \in 1..N
    <3>1. /\ a[end] = Scan(t, line[end]) /\ EndsTls(line[end])
          /\ ~(end > N) /\ end \in 0..N
      <4>1. end <= N /\ ~(end > N) /\ end \in 0..N
        BY <1>1, <2>7
      <4>q. QED  BY <1>4, <2>7, <4>1 DEF Runs, t
    <3>2. CASE Blank(line[end]) /\ IsTls(word)
      <4> DEFINE u == [t EXCEPT !.tls = TRUE]
      <4>1. Parameter(line, from, result) = [result EXCEPT !.tls = TRUE]
        BY <2>5, <3>2, <1>p
      <4>2. a[end] = Returned(u, TRUE)
        BY <2>3, <3>1, <3>2, TlsIs DEF Reads, IsTls, Blank
      <4>3. u \in States
        BY <2>4 DEF States
      <4> HIDE DEF u
      <4>4. a[end].returned /\ a[end].found /\ a[end] \in States
        BY <4>2, <4>3, ReturnedIs
      <4>5. a[N] = a[end]
        BY <3>1, <4>4, NothingAfter
      <4>6. Output(a[N]) = RecordOf(a[end])
        BY <4>2, <4>3, <4>5, AcceptedIs
      <4>q. QED  BY <2>4, <4>1, <4>2, <4>6, FoundIs DEF u
    <3>3. CASE ~(Blank(line[end]) /\ IsTls(word))
      <4>1. Parameter(line, from, result) = Rejected
        <5>2. CASE IsTls(word)
          BY <2>5, <3>1, <3>3, <5>2, <1>p
        <5>3. CASE ~IsTls(word)
          BY <2>5, <3>1, <5>3, <1>p
        <5>q. QED  BY <5>2, <5>3
      <4>2. a[end] = Returned(t, FALSE)
        <5>1. line[end] = "#" \/ (line[end] = "_" /\ ~IsTls(word))
          BY <3>1, <3>3 DEF EndsTls, Blank
        <5>q. QED  BY <2>3, <3>1, <5>1, TlsIs DEF Reads, IsTls
      <4>3. a[end].returned /\ ~a[end].found /\ a[end] \in States
        BY <2>4, <4>2, ReturnedIs
      <4>4. a[N] = a[end]
        BY <3>1, <4>3, NothingAfter
      <4>q. QED  BY <4>1, <4>3, <4>4, RejectedIs
    <3>q. QED  BY <3>2, <3>3
  <2>8. end = N + 1 \/ end \in 1..N
    BY <1>1, <1>4, <1>9
  <2>q. QED  BY <2>6, <2>7, <2>8
<1>10. i = N + 1 \/ i \in 1..N
  BY <1>1, <1>3
<1>q. QED  BY <1>7, <1>8, <1>9, <1>10

-----------------------------------------------------------------------------
\* Arguments.  A state within them: what was kept, whether a string is open, and
\* how many backslashes came last.
SameRecords(s, t) == /\ t.method = s.method /\ t.path = s.path /\ t.action = s.action
                     /\ t.fixedArgs = s.fixedArgs /\ t.tls = s.tls /\ t.found = s.found

Plain(r) == r \in {"_", ",", "quote"}
IsQuote(r) == r = "quote"
IsEscape(r) == r = "escape"
IsClose(r) == r = ")"

LEMMA ArgTurn ==
  ASSUME NEW s, Reads(s, 3), NEW r \in Runes,
         s.quoted \/ (s.bbackslashes = 0 /\ Plain(r))
  PROVE  /\ Reads(Scan(s, r), 3) /\ SameRecords(s, Scan(s, r))
         /\ Scan(s, r).quoted <=> IF IsQuote(r) /\ ~(s.bbackslashes % 2 = 1)
                                  THEN ~s.quoted ELSE s.quoted
         /\ Scan(s, r).bbackslashes = IF IsEscape(r) THEN s.bbackslashes + 1 ELSE 0
         /\ ~Scan(s, r).quoted => Scan(s, r).bbackslashes = 0
         /\ Scan(s, r).buf = IF Blank(r) /\ ~s.quoted THEN s.buf ELSE Append(s.buf, r)
<1> DEFINE t == Scan(s, r)
           n == s.bbackslashes
           grown == Append(s.buf, r)
<1>1. /\ s \in States /\ s.begin /\ ~s.returned /\ s.stage = 3
      /\ n \in Nat /\ s.buf \in Seq(Runes) /\ s.quoted \in BOOLEAN
  BY DEF Reads, States
<1>2. grown \in Seq(Runes)
  BY <1>1, AppendProperties
<1>3. n % 2 = 0 <=> ~(n % 2 = 1)
  BY <1>1
<1>4. Keep(s, r) = [s EXCEPT !.buf = grown]
  BY DEF Keep
<1> HIDE DEF grown
<1>5. CASE s.quoted
  <2> DEFINE q == ~(r = "quote" /\ n % 2 = 0)
             m == IF r = "escape" THEN n + 1 ELSE 0
             u == [[s EXCEPT !.buf = grown] EXCEPT !.quoted = q, !.bbackslashes = m]
  <2>1. t = Quoted(s, r)
    BY <1>1, <1>5, FixedArgsIs
  <2>2. Keep(s, r).bbackslashes = n
    BY <1>1, <1>4 DEF States
  <2>3. t = u
    BY <1>4, <2>1, <2>2 DEF Quoted
  <2>4. m \in Nat /\ q \in BOOLEAN
    BY <1>1
  <2>5. ~q => r = "quote"
    OBVIOUS
  <2>6. r = "quote" => r # "escape"
    OBVIOUS
  <2>7. ~q => m = 0
    BY <2>5, <2>6
  <2>8. q <=> IF IsQuote(r) /\ ~(n % 2 = 1) THEN ~s.quoted ELSE s.quoted
    BY <1>3, <1>5 DEF IsQuote
  <2>9. m = IF IsEscape(r) THEN n + 1 ELSE 0
    BY DEF IsEscape
  <2> HIDE DEF q, m, t, n
  <2>10. /\ u \in States /\ u.stage = 3 /\ u.begin = s.begin /\ u.returned = s.returned
         /\ SameRecords(s, u) /\ u.quoted = q /\ u.bbackslashes = m /\ u.buf = grown
    BY <1>1, <1>2, <2>4 DEF States, SameRecords
  <2> HIDE DEF u
  <2>11. Reads(t, 3) /\ SameRecords(s, t)
    BY <1>1, <2>3, <2>10 DEF Reads
  <2>12. t.buf = IF Blank(r) /\ ~s.quoted THEN s.buf ELSE grown
    BY <1>5, <2>3, <2>10
  <2>q. QED  BY <2>3, <2>7, <2>8, <2>9, <2>10, <2>11, <2>12 DEF t, n, grown
<1>6. CASE ~s.quoted
  <2>1. n = 0 /\ Plain(r) /\ s.quoted = FALSE
    BY <1>1, <1>6
  <2>2. ~(n % 2 = 1)
    BY <2>1
  <2>3. CASE r = "_"
    <3>1. t = s
      BY <1>1, <1>6, <2>3, FixedArgsIs
    <3>2. ~IsQuote(r) /\ ~IsEscape(r) /\ Blank(r)
      BY <2>3 DEF IsQuote, IsEscape, Blank
    <3>3. SameRecords(s, t) /\ Reads(t, 3)
      BY <3>1 DEF SameRecords
    <3> HIDE DEF t, n
    <3>q. QED  BY <1>6, <2>1, <2>2, <3>1, <3>2, <3>3 DEF t, n, grown
  <2>4. CASE r # "_"
    <3> DEFINE q == r = "quote"
               u == [[s EXCEPT !.buf = grown] EXCEPT !.quoted = q]
    <3>1. r \in {",", "quote"}
      BY <2>1, <2>4 DEF Plain
    <3>0. Scan(s, r) = [Keep(s, r) EXCEPT !.quoted = (r = "quote")]
      <4>1. ~s.returned /\ s.stage = 3
        BY <1>1
      <4>2. ~s.returned /\ s.stage = 3 => (s.begin /\ ~s.quoted /\ r \in {",", "quote"} =>
              Scan(s, r) = [Keep(s, r) EXCEPT !.quoted = (r = "quote")])
        BY FixedArgsIs
      <4>q. QED  BY <1>1, <1>6, <3>1, <4>1, <4>2
    <3>2. t = u
      BY <1>4, <3>0, Zenon
    <3>3. ~IsEscape(r) /\ ~Blank(r)
      BY <3>1 DEF IsEscape, Blank
    <3>4. q <=> IF IsQuote(r) /\ ~(n % 2 = 1) THEN ~s.quoted ELSE s.quoted
      BY <2>1, <2>2 DEF IsQuote
    <3>5. q \in BOOLEAN
      OBVIOUS
    <3> HIDE DEF q, t, n
    <3>6. /\ u \in States /\ u.stage = 3 /\ u.begin = s.begin /\ u.returned = s.returned
          /\ SameRecords(s, u) /\ u.quoted = q /\ u.bbackslashes = s.bbackslashes
          /\ u.buf = grown
      BY <1>1, <1>2, <3>5 DEF States, SameRecords
    <3> HIDE DEF u
    <3>7. Reads(t, 3) /\ SameRecords(s, t)
      BY <1>1, <3>2, <3>6 DEF Reads
    <3>q. QED  BY <2>1, <3>2, <3>3, <3>4, <3>6, <3>7 DEF t, n, grown
  <2>q. QED  BY <2>3, <2>4
<1>q. QED  BY <1>5, <1>6

\* What the scanner knows after the first k runes of the arguments: what was kept
\* of them, whether a string is open and how many backslashes came last; base is
\* the state before them.
ArgState(args, s, base, k) ==
  /\ Reads(s, 3) /\ SameRecords(base, s)
  /\ s.quoted <=> InString(args, k + 1)
  /\ s.bbackslashes = Escapes(args, k + 1)
  /\ ~s.quoted => s.bbackslashes = 0
  /\ s.buf = Kept(args, k) /\ s.buf # << >>

LEMMA ArgGoesOn ==
  ASSUME NEW args \in Seq(Runes), NEW k \in 1..Len(args) - 1, NEW s, NEW base,
         ArgState(args, s, base, k), InString(args, k + 1) \/ Plain(args[k + 1])
  PROVE  ArgState(args, Scan(s, args[k + 1]), base, k + 1)
<1> DEFINE i == k + 1
           r == args[i]
           t == Scan(s, r)
           grown == Append(s.buf, r)
<1>1. /\ Len(args) \in Nat /\ i \in Nat /\ i >= 2 /\ i \in 1..Len(args) /\ i > 1
      /\ i - 1 = k
  BY LenProperties
<1>2. r \in Runes
  BY <1>1, ElementOfSeq
<1>3. /\ Reads(s, 3) /\ SameRecords(base, s) /\ s.buf # << >> /\ s.buf \in Seq(Runes)
      /\ s.quoted <=> InString(args, i)
      /\ s.bbackslashes = Escapes(args, i)
      /\ ~s.quoted => s.bbackslashes = 0
      /\ s.buf = Kept(args, k)
  BY DEF ArgState, Reads, States
<1>4. Escaped(args, i) <=> s.bbackslashes % 2 = 1
  BY <1>3 DEF Escaped
<1>5. InString(args, i + 1) <=>
        IF IsQuote(r) /\ ~Escaped(args, i) THEN ~InString(args, i) ELSE InString(args, i)
  BY <1>1, InStringIs DEF IsQuote
<1>6. Escapes(args, i + 1) = IF IsEscape(r) THEN Escapes(args, i) + 1 ELSE 0
  BY <1>1, EscapesAre DEF IsEscape
<1>7. Kept(args, i) = IF Blank(r) /\ ~InString(args, i) THEN Kept(args, k) ELSE grown
  <2>1. Kept(args, i) = IF i > 1 /\ Blank(r) /\ ~InString(args, i) THEN Kept(args, i - 1)
                        ELSE Append(Kept(args, i - 1), r)
    BY <1>1, KeptIs
  <2>q. QED  BY <1>1, <1>3, <2>1
<1>8. s.quoted \/ (s.bbackslashes = 0 /\ Plain(r))
  BY <1>3
<1> HIDE DEF r, i
<1>9. /\ Reads(t, 3) /\ SameRecords(s, t)
      /\ t.quoted <=> IF IsQuote(r) /\ ~(s.bbackslashes % 2 = 1)
                      THEN ~s.quoted ELSE s.quoted
      /\ t.bbackslashes = IF IsEscape(r) THEN s.bbackslashes + 1 ELSE 0
      /\ ~t.quoted => t.bbackslashes = 0
      /\ t.buf = IF Blank(r) /\ ~s.quoted THEN s.buf ELSE grown
  BY <1>2, <1>3, <1>8, ArgTurn
<1>10. grown # << >>
  <2>1. Len(grown) = Len(s.buf) + 1 /\ Len(s.buf) \in Nat
    BY <1>2, <1>3, AppendProperties, LenProperties
  <2>2. Len(<< >>) = 0
    OBVIOUS
  <2> HIDE DEF grown
  <2>3. Len(grown) # 0
    BY <2>1
  <2>q. QED  BY <2>2, <2>3
<1> HIDE DEF t, grown
<1>11. t.quoted <=> InString(args, i + 1)
  BY <1>3, <1>4, <1>5, <1>9
<1>12. t.bbackslashes = Escapes(args, i + 1)
  BY <1>3, <1>6, <1>9
<1>13. t.buf = Kept(args, i) /\ t.buf # << >>
  BY <1>3, <1>7, <1>9, <1>10
<1>14. SameRecords(base, t)
  BY <1>3, <1>9 DEF SameRecords
<1>15. ArgState(args, t, base, i)
  BY <1>9, <1>11, <1>12, <1>13, <1>14 DEF ArgState
<1>q. QED  BY <1>15 DEF t, i, r

\* The first rune of the arguments is no blank and no comment.
LEMMA ArgsBegin ==
  ASSUME NEW args \in Seq(Runes), 1 \in 1..Len(args), NEW s, Waits(s, 3),
         s.quoted = FALSE, s.bbackslashes = 0, ~Blank(args[1]), ~IsHash(args[1])
  PROVE  ArgState(args, Scan(s, args[1]), s, 1)
<1> DEFINE r == args[1]
           q == r = "quote"
           t == [Begin(s, r) EXCEPT !.quoted = q]
<1>1. r \in Runes
  BY ElementOfSeq
<1>2. Scan(s, r) = t
  BY FixedArgsIs DEF Waits, Blank, IsHash
<1>3. <<r>> \in Seq(Runes) /\ <<r>> # << >>
  BY <1>1, OneRune
<1>4. q \in BOOLEAN
  OBVIOUS
<1>5. InString(args, 1 + 1) <=> q
  BY InStringIs
<1>6. Escapes(args, 1 + 1) = 0
  BY EscapesAre
<1>7. Kept(args, 1) = <<r>>
  <2>1. Kept(args, 0) = << >>
    BY KeptIs
  <2>2. Kept(args, 1) = IF 1 > 1 /\ Blank(r) /\ ~InString(args, 1) THEN Kept(args, 1 - 1)
                        ELSE Append(Kept(args, 1 - 1), r)
    BY KeptIs
  <2>3. Kept(args, 1) = Append(Kept(args, 0), r)
    BY <2>2
  <2>4. Append(<< >>, r) = <<r>>
    OBVIOUS
  <2>q. QED  BY <2>1, <2>3, <2>4
<1> HIDE DEF q, r
<1>8. /\ t \in States /\ t.stage = 3 /\ t.begin /\ ~t.returned /\ SameRecords(s, t)
      /\ t.quoted = q /\ t.bbackslashes = 0 /\ t.buf = <<r>>
  BY <1>3, <1>4 DEF Begin, Waits, States, SameRecords
<1> HIDE DEF t
<1>9. ArgState(args, t, s, 1)
  BY <1>3, <1>5, <1>6, <1>7, <1>8 DEF ArgState, Reads
<1>q. QED  BY <1>2, <1>9 DEF r

\* Where the arguments end.
LEMMA ArgsEndIs ==
  ASSUME NEW args \in Seq(Runes), 1 \in 1..Len(args)
  PROVE  /\ ArgsEnd(args) \in 2..Len(args) + 1
         /\ \A k \in 2..ArgsEnd(args) - 1 : ~(IsClose(args[k]) /\ ~InString(args, k))
         /\ ArgsEnd(args) <= Len(args) =>
              IsClose(args[ArgsEnd(args)]) /\ ~InString(args, ArgsEnd(args))
<1> DEFINE N == Len(args)
           Ends(i) == IsClose(args[i]) /\ ~InString(args, i)
           W == {i \in 2..N : Ends(i)}
           S == W \cup {N + 1}
<1>1. N \in Nat /\ 1 <= N
  BY LenProperties
<1>2. ArgsEnd(args) = Min(S)
  BY DEF ArgsEnd, IsClose
<1> HIDE DEF Ends
<1>3. S \in SUBSET Nat /\ S # {}
  BY <1>1
<1>4. \A j \in S : j \in 2..N + 1 /\ (j <= N => Ends(j))
  BY <1>1
<1>5. \A k \in 2..N : Ends(k) => k \in S
  OBVIOUS
<1> HIDE DEF S
<1>6. Min(S) \in S /\ \A y \in S : Min(S) <= y
  BY <1>3, MinIs
<1> DEFINE m == Min(S)
<1>7. m \in 2..N + 1 /\ (m <= N => Ends(m))
  BY <1>4, <1>6
<1>8. ASSUME NEW k \in 2..m - 1 PROVE ~Ends(k)
  <2>1. k \in 2..N /\ k < m
    BY <1>1, <1>7
  <2>2. k \notin S
    BY <1>1, <1>6, <1>7, <2>1
  <2>q. QED  BY <1>5, <2>1, <2>2
<1>q. QED  BY <1>2, <1>7, <1>8 DEF Ends

\* A rune that has no place outside strings.
Misplaced(args, j) == ~InString(args, j) /\ ~Plain(args[j])

LEMMA ArgRejects ==
  ASSUME NEW args \in Seq(Runes), NEW k \in 1..Len(args) - 1, NEW s, NEW base,
         ArgState(args, s, base, k), Misplaced(args, k + 1), ~IsClose(args[k + 1])
  PROVE  /\ Scan(s, args[k + 1]).returned /\ ~Scan(s, args[k + 1]).found
         /\ Scan(s, args[k + 1]) \in States
<1> DEFINE r == args[k + 1]
<1>1. s \in States /\ ~s.returned /\ s.stage = 3 /\ s.begin /\ ~s.quoted
  BY DEF ArgState, Reads, Misplaced
<1>2. r \notin {")", "_", ",", "quote"}
  BY DEF Misplaced, Plain, IsClose
<1> HIDE DEF r
<1>3. ~s.returned /\ s.stage = 3 => (s.begin /\ ~s.quoted /\ r \notin {")", "_", ",", "quote"} =>
        Scan(s, r) = Returned(s, FALSE))
  BY FixedArgsIs
<1>4. Scan(s, r) = Returned(s, FALSE)
  BY <1>1, <1>2, <1>3
<1>5. Scan(s, r).returned /\ ~Scan(s, r).found /\ Scan(s, r) \in States
  BY <1>1, <1>4, ReturnedIs
<1>q. QED  BY <1>5 DEF r

\* A stage begins.
LEMMA GoToWaits ==
  ASSUME NEW v \in States, NEW stage \in 0..4, v.returned = FALSE
  PROVE  /\ Waits(GoTo(v, stage), stage)
         /\ GoTo(v, stage).quoted = v.quoted
         /\ GoTo(v, stage).bbackslashes = v.bbackslashes
         /\ GoTo(v, stage).buf = << >> /\ SameRecords(v, GoTo(v, stage))
<1> DEFINE t == GoTo(v, stage)
<1>1. << >> \in Seq(Runes)
  BY EmptySeq
<1>2. t = [v EXCEPT !.stage = stage, !.begin = FALSE, !.buf = << >>]
  BY DEF GoTo
<1> HIDE DEF t
<1>3. /\ t \in States /\ t.stage = stage /\ t.begin = FALSE /\ t.returned = v.returned
      /\ t.quoted = v.quoted /\ t.bbackslashes = v.bbackslashes /\ t.buf = << >>
  BY <1>1, <1>2 DEF States
<1>4. /\ t.method = v.method /\ t.path = v.path /\ t.action = v.action
      /\ t.fixedArgs = v.fixedArgs /\ t.tls = v.tls /\ t.found = v.found
  BY <1>2 DEF States
<1>q. QED  BY <1>3, <1>4 DEF t, Waits, SameRecords

LEMMA ArgsClose ==
  ASSUME NEW args \in Seq(Runes), NEW k \in 1..Len(args) - 1, NEW s, NEW base,
         ArgState(args, s, base, k), ~InString(args, k + 1), IsClose(args[k + 1]),
         NEW result, Means(base, result)
  PROVE  /\ Waits(Scan(s, args[k + 1]), 4)
         /\ Means(Scan(s, args[k + 1]), [result EXCEPT !.fixedArgs = Kept(args, k)])
<1> DEFINE r == args[k + 1]
           v == [s EXCEPT !.fixedArgs = s.buf, !.found = TRUE, !.bbackslashes = 0]
           t == GoTo(v, 4)
           u == [result EXCEPT !.fixedArgs = s.buf]
<1>1. /\ s \in States /\ ~s.returned /\ s.stage = 3 /\ s.begin /\ ~s.quoted
      /\ s.buf = Kept(args, k) /\ s.buf # << >> /\ SameRecords(base, s)
      /\ s.buf \in Seq(Runes)
  BY DEF ArgState, Reads, States
<1>2. ~s.returned /\ s.stage = 3 => (s.begin /\ ~s.quoted /\ r = ")" => Scan(s, r) = t)
  BY FixedArgsIs
<1>3. r = ")"
  BY DEF IsClose
<1> HIDE DEF r
<1>4. Scan(s, r) = t
  BY <1>1, <1>2, <1>3
<1>6. /\ v \in States /\ v.returned = FALSE
      /\ v.tls = s.tls /\ v.method = s.method /\ v.path = s.path /\ v.action = s.action
      /\ v.fixedArgs = s.buf /\ v.found = TRUE
  BY <1>1 DEF States
<1> HIDE DEF v
<1>7. /\ Waits(t, 4) /\ t.tls = s.tls /\ t.method = s.method /\ t.path = s.path
      /\ t.action = s.action /\ t.fixedArgs = s.buf /\ t.found = TRUE
  <2>1. 4 \in 0..4
    OBVIOUS
  <2>2. Waits(t, 4) /\ SameRecords(v, t)
    BY <1>6, <2>1, GoToWaits
  <2> HIDE DEF t
  <2>q. QED  BY <1>1, <1>6, <2>2 DEF SameRecords
<1>8. /\ u \in Records /\ u.tls = FALSE /\ u.found = TRUE /\ u.method = result.method
      /\ u.path = result.path /\ u.action = result.action /\ u.fixedArgs = s.buf
  BY <1>1 DEF Means, Records
<1> HIDE DEF t, u
<1>9. Means(t, u)
  BY <1>1, <1>7, <1>8 DEF Means, SameRecords
<1>10. u = [result EXCEPT !.fixedArgs = Kept(args, k)]
  BY <1>1 DEF u
<1>q. QED  BY <1>4, <1>7, <1>9, <1>10 DEF r

\* Up to the end of the arguments the scanner either reads or has met a rune that
\* is misplaced.
ArgProgress(args, s, base, k) ==
  \/ ArgState(args, s, base, k) /\ \A j \in 2..k : ~Misplaced(args, j)
  \/ /\ s.returned /\ ~s.found /\ s \in States
     /\ \E j \in 2..k : Misplaced(args, j)

LEMMA ArgsProgress ==
  ASSUME NEW args \in Seq(Runes), NEW b, Runs(args, b), Waits(b[0], 3),
         b[0].quoted = FALSE, b[0].bbackslashes = 0, 1 \in 1..Len(args),
         ~Blank(args[1]), ~IsHash(args[1])
  PROVE  \A k \in 1..ArgsEnd(args) - 1 : ArgProgress(args, b[k], b[0], k)
<1> DEFINE N == Len(args)
           end == ArgsEnd(args)
           S == {n \in Nat : n + 1 < end => ArgProgress(args, b[n + 1], b[0], n + 1)}
<1>1. /\ N \in Nat /\ end \in 2..N + 1
      /\ \A k \in 2..end - 1 : ~(IsClose(args[k]) /\ ~InString(args, k))
  BY LenProperties, ArgsEndIs
<1> HIDE DEF end
<1>2. 0 \in S
  <2>1. b[1] = Scan(b[1 - 1], args[1])
    BY DEF Runs
  <2>2. b[1] = Scan(b[0], args[1])
    BY <2>1
  <2>3. ArgState(args, b[1], b[0], 1)
    BY <2>2, ArgsBegin
  <2>4. \A j \in 2..1 : ~Misplaced(args, j)
    <3>1. 2..1 = {}
      OBVIOUS
    <3>q. QED  BY <3>1
  <2>5. ArgProgress(args, b[1], b[0], 1)
    BY <2>3, <2>4 DEF ArgProgress
  <2>6. 0 + 1 = 1
    OBVIOUS
  <2>q. QED  BY <2>5, <2>6
<1>3. ASSUME NEW n \in Nat, n \in S PROVE n + 1 \in S
  <2> DEFINE k == n + 1
             s == b[k]
  <2> SUFFICES ASSUME k + 1 < end PROVE ArgProgress(args, b[k + 1], b[0], k + 1)
    OBVIOUS
  <2>1. /\ k < end /\ k \in 1..N - 1 /\ k + 1 \in 2..end - 1 /\ k + 1 \in 1..N
        /\ (k + 1) - 1 = k /\ k + 1 \in 2..k + 1 /\ n + 1 = k
        /\ \A j : j \in 2..k => j \in 2..k + 1
        /\ \A j \in 2..k + 1 : j \in 2..k \/ j = k + 1
    BY <1>1
  <2>2. ArgProgress(args, s, b[0], k)
    BY <1>3, <2>1
  <2>3. b[k + 1] = Scan(s, args[k + 1])
    BY <2>1 DEF Runs
  <2>4. ~(IsClose(args[k + 1]) /\ ~InString(args, k + 1))
    BY <1>1, <2>1
  <2> HIDE DEF k, s
  <2>5. CASE ArgState(args, s, b[0], k) /\ \A j \in 2..k : ~Misplaced(args, j)
    <3>1. CASE Misplaced(args, k + 1)
      <4>1. ~IsClose(args[k + 1])
        BY <2>4, <3>1 DEF Misplaced
      <4>2. b[k + 1].returned /\ ~b[k + 1].found /\ b[k + 1] \in States
        BY <2>1, <2>3, <2>5, <3>1, <4>1, ArgRejects
      <4>q. QED  BY <2>1, <3>1, <4>2 DEF ArgProgress
    <3>2. CASE ~Misplaced(args, k + 1)
      <4>1. InString(args, k + 1) \/ Plain(args[k + 1])
        BY <3>2 DEF Misplaced
      <4>2. ArgState(args, b[k + 1], b[0], k + 1)
        BY <2>1, <2>3, <2>5, <4>1, ArgGoesOn
      <4>q. QED  BY <2>1, <2>5, <3>2, <4>2 DEF ArgProgress
    <3>q. QED  BY <3>1, <3>2
  <2>6. CASE /\ s.returned /\ ~s.found /\ s \in States
             /\ \E j \in 2..k : Misplaced(args, j)
    <3>1. b[k + 1] = s
      BY <2>3, <2>6 DEF Scan
    <3>q. QED  BY <2>1, <2>6, <3>1 DEF ArgProgress
  <2>q. QED  BY <2>2, <2>5, <2>6 DEF ArgProgress
<1> HIDE DEF S
<1>4. SUFFICES ASSUME NEW k \in 1..end - 1 PROVE ArgProgress(args, b[k], b[0], k)
  BY DEF end
<1>5. k - 1 \in Nat /\ (k - 1) + 1 = k /\ k < end
  BY <1>1
<1>6. k - 1 \in S
  BY <1>2, <1>3, <1>5, AllNumbers
<1>q. QED  BY <1>5, <1>6 DEF S

\* What Arguments says of the runes from the first argument on.
ArgsMean(args, result) ==
  IF \/ ArgsEnd(args) > Len(args)
     \/ IsHash(args[1])
     \/ \E j \in 2..ArgsEnd(args) - 1 : Misplaced(args, j)
    THEN Rejected
    ELSE Parameter(args, ArgsEnd(args) + 1,
                   [result EXCEPT !.fixedArgs = Kept(args, ArgsEnd(args) - 1)])

LEMMA ArgumentsAre ==
  ASSUME NEW line, NEW from, NEW result
  PROVE  Arguments(line, from, result) =
           ArgsMean(SubSeq(line, From(line, from, Solids), Len(line)), result)
BY Zenon DEF Arguments, ArgsMean, IsHash, Misplaced, Plain

\* The scanner of the arguments and of what follows them.
LEMMA ArgsAreRead ==
  ASSUME NEW args \in Seq(Runes), NEW b, Runs(args, b), Waits(b[0], 3),
         b[0].quoted = FALSE, b[0].bbackslashes = 0, NEW result, Means(b[0], result),
         1 \in 1..Len(args), ~Blank(args[1])
  PROVE  Output(b[Len(args)]) = ArgsMean(args, result)
<1> DEFINE N == Len(args)
           end == ArgsEnd(args)
           s == b[end - 1]
           u == [result EXCEPT !.fixedArgs = Kept(args, end - 1)]
           late == end > N
           hash == IsHash(args[1])
           bad == \E j \in 2..end - 1 : Misplaced(args, j)
<1>1. /\ N \in Nat /\ end \in 2..N + 1
      /\ end <= N => IsClose(args[end]) /\ ~InString(args, end)
  BY LenProperties, ArgsEndIs
<1>2. ArgsMean(args, result) = IF late \/ hash \/ bad THEN Rejected
                               ELSE Parameter(args, end + 1, u)
  BY DEF ArgsMean
<1>3. CASE hash
  <2>1. b[1] = Scan(b[1 - 1], args[1])
    BY DEF Runs
  <2>2. b[1] = Scan(b[0], args[1])
    BY <2>1
  <2>3. b[0] \in States /\ ~b[0].returned /\ b[0].stage = 3 /\ ~b[0].begin
    BY DEF Waits
  <2>4. b[1] = Returned(b[0], FALSE)
    BY <1>3, <2>2, <2>3, FixedArgsIs DEF IsHash
  <2>5. b[1].returned /\ ~b[1].found /\ b[1] \in States
    BY <2>3, <2>4, ReturnedIs
  <2>6. 1 \in 0..N
    BY <1>1
  <2>7. b[N] = b[1]
    BY <2>5, <2>6, NothingAfter
  <2>8. Output(b[N]) = Rejected
    BY <2>5, <2>7, RejectedIs
  <2>q. QED  BY <1>2, <1>3, <2>8
<1> HIDE DEF end, u, late, bad
<1>4. CASE ~hash
  <2>1. \A k \in 1..end - 1 : ArgProgress(args, b[k], b[0], k)
    BY <1>4, ArgsProgress DEF end
  <2>2. end - 1 \in 1..end - 1 /\ end - 1 \in 0..N
    BY <1>1
  <2>3. ArgProgress(args, s, b[0], end - 1)
    BY <2>1, <2>2
  <2>4. CASE bad
    <3>1. s.returned /\ ~s.found /\ s \in States
      BY <2>3, <2>4 DEF ArgProgress, bad
    <3>2. b[N] = s
      BY <2>2, <3>1, NothingAfter
    <3>3. Output(b[N]) = Rejected
      BY <3>1, <3>2, RejectedIs
    <3>q. QED  BY <1>2, <2>4, <3>3
  <2>5. CASE ~bad
    <3>1. ArgState(args, s, b[0], end - 1)
      BY <2>3, <2>5 DEF ArgProgress, bad
    <3>2. CASE late
      <4>1. end = N + 1 /\ end - 1 = N
        BY <1>1, <3>2 DEF late
      <4>2. b[N] = s
        BY <4>1
      <4>3. s \in States /\ ~s.returned /\ s.stage = 3
        BY <3>1 DEF ArgState, Reads
      <4>4. EndOfLine(s) = Returned(s, FALSE)
        BY <4>3, EndOfLineIs
      <4>5. Output(b[N]) = Rejected
        BY <4>2, <4>3, <4>4, RejectedIs
      <4>q. QED  BY <1>2, <3>2, <4>5
    <3>3. CASE ~late
      <4> DEFINE k == end - 1
      <4>1. /\ end \in 1..N /\ end <= N /\ k \in 1..N - 1 /\ k + 1 = end
            /\ end + 1 \in 1..N + 1 /\ (end + 1) - 1 = end
        BY <1>1, <3>3 DEF late
      <4>2. b[end] = Scan(s, args[end])
        BY <4>1 DEF Runs
      <4>3. IsClose(args[k + 1]) /\ ~InString(args, k + 1)
        BY <1>1, <4>1
      <4>4. ArgState(args, s, b[0], k)
        BY <3>1
      <4> HIDE DEF k, s
      <4>5. /\ Waits(Scan(s, args[k + 1]), 4)
            /\ Means(Scan(s, args[k + 1]), [result EXCEPT !.fixedArgs = Kept(args, k)])
        BY <4>1, <4>3, <4>4, ArgsClose
      <4>6. Waits(b[end], 4) /\ Means(b[end], u)
        BY <4>1, <4>2, <4>5 DEF u, k
      <4>7. Waits(b[(end + 1) - 1], 4) /\ Means(b[(end + 1) - 1], u)
        BY <4>1, <4>6
      <4>8. Output(b[N]) = Parameter(args, end + 1, u)
        BY <4>1, <4>7, ParameterIsRead
      <4>q. QED  BY <1>2, <1>4, <2>5, <3>3, <4>8
    <3>q. QED  BY <3>2, <3>3
  <2>q. QED  BY <2>4, <2>5
<1>q. QED  BY <1>3, <1>4

\* The arguments within a line, after their parenthesis.
LEMMA ArgumentsAreRead ==
  ASSUME NEW line \in Seq(Runes), NEW a, Runs(line, a),
         NEW from \in 1..Len(line) + 1, Waits(a[from - 1], 3),
         a[from - 1].quoted = FALSE, a[from - 1].bbackslashes = 0,
         NEW result, Means(a[from - 1], result)
  PROVE  Output(a[Len(line)]) = Arguments(line, from, result)
<1> DEFINE N == Len(line)
           i == From(line, from, Solids)
           args == SubSeq(line, i, N)
           M == Len(args)
           b == [k \in 0..M |-> a[i - 1 + k]]
           s == a[from - 1]
<1>1. N \in Nat /\ from \in Nat /\ \A k \in 1..N : line[k] \in Runes
  BY LenProperties, ElementOfSeq
<1>2. i \in from..N + 1 /\ (i <= N => line[i] \in Solids)
  BY FromIs
<1>3. i \in 1..N + 1
  BY <1>1, <1>2
<1>4. a[i - 1] = s
  BY BlanksAreSkipped
<1>5. Arguments(line, from, result) = ArgsMean(args, result)
  BY ArgumentsAre
<1> HIDE DEF i
<1>6. /\ args \in Seq(Runes)
      /\ M = IF i <= N THEN N - i + 1 ELSE 0
      /\ \A k \in 1..N - i + 1 : args[k] = line[i + k - 1]
  BY <1>1, <1>3, SubSeqProperties
<1>7. M = N - i + 1
  BY <1>1, <1>3, <1>6
<1> HIDE DEF args
<1> HIDE DEF s
<1>8. s \in States /\ ~s.returned /\ s.stage = 3 /\ ~s.begin
  BY DEF Waits, s
<1>9. CASE i = N + 1
  <2>1. M = 0
    BY <1>1, <1>7, <1>9
  <2>2. args = << >>
    BY <1>6, <2>1, EmptySeq
  <2>3. ArgsEnd(args) = 1
    <3>1. \A j : j \notin 2..0
      OBVIOUS
    <3>2. {j \in 2..0 : args[j] = ")" /\ ~InString(args, j)} = {}
      BY <3>1
    <3>3. ArgsEnd(args) = Min({} \cup {0 + 1})
      BY <2>1, <3>2 DEF ArgsEnd
    <3>4. {} \cup {0 + 1} = {1} /\ {1} \in SUBSET Nat /\ {1} # {}
      OBVIOUS
    <3>5. Min({1}) \in {1}
      BY <3>4, MinIs
    <3>q. QED  BY <3>3, <3>4, <3>5
  <2>4. ArgsMean(args, result) = Rejected
    <3>1. ArgsEnd(args) > M
      BY <2>1, <2>3
    <3>q. QED  BY <3>1 DEF ArgsMean
  <2>5. a[N] = s
    <3>1. i - 1 = N
      BY <1>1, <1>9
    <3>q. QED  BY <1>4, <3>1
  <2>6. EndOfLine(s) = Returned(s, FALSE)
    BY <1>8, EndOfLineIs
  <2>7. Output(a[N]) = Rejected
    BY <1>8, <2>5, <2>6, RejectedIs
  <2>q. QED  BY <1>5, <2>4, <2>7
<1>10. CASE i \in 1..N
  <2>1. /\ M \in Nat /\ 1 \in 1..M /\ i - 1 + M = N /\ i - 1 + 0 = i - 1
        /\ i + 1 - 1 = i /\ 1 \in 1..N - i + 1 /\ 0 \in 0..M /\ M \in 0..M
    BY <1>1, <1>7, <1>10
  <2>2. Runs(args, b)
    <3>1. ASSUME NEW k \in 1..M PROVE b[k] = Scan(b[k - 1], args[k])
      <4>1. /\ k \in 0..M /\ k - 1 \in 0..M /\ i - 1 + k \in 1..N
            /\ (i - 1 + k) - 1 = i - 1 + (k - 1) /\ i + k - 1 = i - 1 + k
            /\ k \in 1..N - i + 1
        BY <1>1, <1>7, <1>10, <2>1
      <4>2. b[k] = a[i - 1 + k] /\ b[k - 1] = a[(i - 1 + k) - 1]
        BY <4>1
      <4>3. args[k] = line[i - 1 + k]
        BY <1>6, <4>1
      <4>4. a[i - 1 + k] = Scan(a[(i - 1 + k) - 1], line[i - 1 + k])
        BY <4>1 DEF Runs
      <4>q. QED  BY <4>2, <4>3, <4>4
    <3> HIDE DEF b, M
    <3>q. QED  BY <3>1 DEF Runs, M
  <2>3. b[0] = s /\ b[M] = a[N]
    BY <1>4, <2>1
  <2> HIDE DEF b
  <2>4. ~Blank(args[1])
    <3>1. args[1] = line[i]
      BY <1>6, <2>1
    <3>2. line[i] \in Solids
      BY <1>1, <1>2, <1>10
    <3>q. QED  BY <3>1, <3>2, EndsAre DEF Blank
  <2>5. Waits(b[0], 3) /\ b[0].quoted = FALSE /\ b[0].bbackslashes = 0 /\ Means(b[0], result)
    BY <2>3 DEF s
  <2>6. Output(b[M]) = ArgsMean(args, result)
    BY <1>6, <2>1, <2>2, <2>4, <2>5, ArgsAreRead
  <2>q. QED  BY <1>5, <2>3, <2>6
<1>11. i = N + 1 \/ i \in 1..N
  BY <1>1, <1>3
<1>q. QED  BY <1>9, <1>10, <1>11

-----------------------------------------------------------------------------
\* Method, path and action, from the last to the first: what is left of a line
\* means what the scanner makes of it.
IsOpen(r) == r = "("

\* A state at the beginning of a stage before the arguments.
Fresh(s, stage, result) ==
  /\ Waits(s, stage) /\ s.quoted = FALSE /\ s.bbackslashes = 0 /\ s.buf = << >>
  /\ Means(s, result) /\ result.fixedArgs = << >>

ActionMeans(line, i, result) ==
  LET w == From(line, i, Solids)
      e == From(line, w + 1, {"_", "("})
      r == [result EXCEPT !.action = SubSeq(line, w, e - 1)]
  IN  IF e > Len(line) THEN r
      ELSE IF IsOpen(line[e]) THEN Arguments(line, e + 1, r)
      ELSE Parameter(line, e, r)

PathMeans(line, i, result) ==
  LET p == From(line, i, Solids)
      e == From(line, p, Blanks)
  IN  IF e > Len(line) \/ line[p] # "/" THEN Rejected
      ELSE ActionMeans(line, e, [result EXCEPT !.path = SubSeq(line, p, e - 1)])

MethodMeans(line) ==
  LET m == From(line, 1, Solids)
      e == From(line, m, Blanks)
      word == SubSeq(line, m, e - 1)
  IN  IF word # <<"M">> THEN Rejected
      ELSE PathMeans(line, e, [method |-> word, path |-> << >>, action |-> << >>,
                               fixedArgs |-> << >>, tls |-> FALSE, found |-> TRUE])

\* A blank before a word says nothing.
LEMMA BlankBefore ==
  ASSUME NEW line \in Seq(Runes), NEW i \in 1..Len(line), Blank(line[i]), NEW result
  PROVE  /\ From(line, i, Solids) = From(line, i + 1, Solids)
         /\ Parameter(line, i, result) = Parameter(line, i + 1, result)
         /\ ActionMeans(line, i, result) = ActionMeans(line, i + 1, result)
         /\ PathMeans(line, i, result) = PathMeans(line, i + 1, result)
<1>1. From(line, i, Solids) = From(line, i + 1, Solids)
  <2>1. line[i] \notin Solids
    BY EndsAre DEF Blank
  <2>q. QED  BY <2>1, FromSkips
<1>2. Parameter(line, i, result) = Parameter(line, i + 1, result)
  BY <1>1, Zenon DEF Parameter
<1>3. ActionMeans(line, i, result) = ActionMeans(line, i + 1, result)
  BY <1>1, Zenon DEF ActionMeans
<1>4. PathMeans(line, i, result) = PathMeans(line, i + 1, result)
  BY <1>1, Zenon DEF PathMeans
<1>q. QED  BY <1>1, <1>2, <1>3, <1>4

\* After a word the state begins the next stage and means what the word adds.
LEMMA NextStage ==
  ASSUME NEW s, NEW stage \in {0, 1, 2}, Reads(s, stage), s.quoted = FALSE,
         s.bbackslashes = 0, NEW result, Means(s, result), result.fixedArgs = << >>,
         NEW next \in 0..4
  PROVE  /\ Fresh(GoTo([s EXCEPT !.path = s.buf], next), next,
                  [result EXCEPT !.path = s.buf])
         /\ Fresh(GoTo([s EXCEPT !.action = s.buf], next), next,
                  [result EXCEPT !.action = s.buf])
<1>1. s \in States /\ s.returned = FALSE /\ s.buf \in Seq(Runes)
  BY DEF Reads, States
<1>2. Fresh(GoTo([s EXCEPT !.path = s.buf], next), next, [result EXCEPT !.path = s.buf])
  <2> DEFINE v == [s EXCEPT !.path = s.buf]
             u == [result EXCEPT !.path = s.buf]
             t == GoTo(v, next)
  <2>1. /\ v \in States /\ v.returned = FALSE /\ v.quoted = FALSE /\ v.bbackslashes = 0
        /\ v.path = s.buf /\ v.method = s.method /\ v.action = s.action
        /\ v.fixedArgs = s.fixedArgs /\ v.tls = s.tls /\ v.found = s.found
    BY <1>1 DEF States
  <2>2. /\ u \in Records /\ u.tls = FALSE /\ u.found = TRUE /\ u.method = result.method
        /\ u.path = s.buf /\ u.action = result.action /\ u.fixedArgs = result.fixedArgs
    BY <1>1 DEF Means, Records
  <2> HIDE DEF v, u
  <2>3. /\ Waits(t, next) /\ t.quoted = v.quoted /\ t.bbackslashes = v.bbackslashes
        /\ t.buf = << >> /\ SameRecords(v, t)
    BY <2>1, GoToWaits
  <2> HIDE DEF t
  <2>4. Means(t, u)
    BY <2>1, <2>2, <2>3 DEF Means, SameRecords
  <2>5. Fresh(t, next, u)
    BY <2>1, <2>2, <2>3, <2>4 DEF Fresh
  <2>q. QED  BY <2>5 DEF t, u, v
<1>3. Fresh(GoTo([s EXCEPT !.action = s.buf], next), next, [result EXCEPT !.action = s.buf])
  <2> DEFINE v == [s EXCEPT !.action = s.buf]
             u == [result EXCEPT !.action = s.buf]
             t == GoTo(v, next)
  <2>1. /\ v \in States /\ v.returned = FALSE /\ v.quoted = FALSE /\ v.bbackslashes = 0
        /\ v.action = s.buf /\ v.method = s.method /\ v.path = s.path
        /\ v.fixedArgs = s.fixedArgs /\ v.tls = s.tls /\ v.found = s.found
    BY <1>1 DEF States
  <2>2. /\ u \in Records /\ u.tls = FALSE /\ u.found = TRUE /\ u.method = result.method
        /\ u.action = s.buf /\ u.path = result.path /\ u.fixedArgs = result.fixedArgs
    BY <1>1 DEF Means, Records
  <2> HIDE DEF v, u
  <2>3. /\ Waits(t, next) /\ t.quoted = v.quoted /\ t.bbackslashes = v.bbackslashes
        /\ t.buf = << >> /\ SameRecords(v, t)
    BY <2>1, GoToWaits
  <2> HIDE DEF t
  <2>4. Means(t, u)
    BY <2>1, <2>2, <2>3 DEF Means, SameRecords
  <2>5. Fresh(t, next, u)
    BY <2>1, <2>2, <2>3, <2>4 DEF Fresh
  <2>q. QED  BY <2>5 DEF t, u, v
<1>q. QED  BY <1>2, <1>3

LEMMA ActionIsRead ==
  ASSUME NEW line \in Seq(Runes), NEW a, Runs(line, a), NEW i \in 1..Len(line) + 1,
         NEW result, Fresh(a[i - 1], 2, result), result.action = << >>
  PROVE  Output(a[Len(line)]) = ActionMeans(line, i, result)
<1> DEFINE N == Len(line)
           w == From(line, i, Solids)
           e == From(line, w + 1, {"_", "("})
           word == SubSeq(line, w, e - 1)
           r == [result EXCEPT !.action = word]
           s == a[i - 1]
           t == a[e - 1]
           late == e > N
           open == IsOpen(line[e])
<1>1. N \in Nat /\ i \in Nat /\ \A k \in 1..N : line[k] \in Runes
  BY LenProperties, ElementOfSeq
<1>2. w \in i..N + 1 /\ (w <= N => line[w] \in Solids)
  BY FromIs
<1>3. w \in 1..N + 1
  BY <1>1, <1>2
<1>4. Waits(s, 2) /\ s.quoted = FALSE /\ s.bbackslashes = 0 /\ s.buf = << >>
      /\ Means(s, result) /\ result.fixedArgs = << >>
  BY DEF Fresh
<1>5. a[w - 1] = s
  <2>1. 2 \in 0..4
    OBVIOUS
  <2>q. QED  BY <1>4, <2>1, BlanksAreSkipped
<1>6. ActionMeans(line, i, result) = IF late THEN r
                                     ELSE IF open THEN Arguments(line, e + 1, r)
                                     ELSE Parameter(line, e, r)
  BY Zenon DEF ActionMeans
<1> HIDE DEF w, s
<1>7. CASE w = N + 1
  <2>1. e = N + 1 /\ late
    <3>1. {j \in w + 1..N : line[j] \in {"_", "("}} = {}
      <4>1. \A j : j \notin w + 1..N
        BY <1>1, <1>7
      <4>q. QED  BY <4>1
    <3>2. e = Min({} \cup {N + 1})
      BY <3>1 DEF From
    <3>3. {} \cup {N + 1} = {N + 1} /\ {N + 1} \in SUBSET Nat /\ {N + 1} # {}
      BY <1>1
    <3>4. Min({N + 1}) \in {N + 1}
      BY <3>3, MinIs
    <3>5. e = N + 1
      BY <3>2, <3>3, <3>4
    <3> HIDE DEF e
    <3>q. QED  BY <1>1, <3>5
  <2>2. word = << >>
    <3> HIDE DEF e
    <3>1. e - 1 < w
      BY <1>1, <1>7, <2>1
    <3>2. Len(word) = 0 /\ word \in Seq(Runes)
      <4>1. w \in Nat /\ e - 1 \in Nat /\ \A k \in w..e - 1 : k \in 1..N
        BY <1>1, <1>7, <2>1
      <4>q. QED  BY <1>1, <1>7, <2>1, SubSeqProperties
    <3>q. QED  BY <3>2, EmptySeq
  <2>3. r = result
    BY <1>4, <2>2 DEF Means, Records
  <2>4. a[N] = s
    <3>1. w - 1 = N
      BY <1>1, <1>7
    <3>q. QED  BY <1>5, <3>1
  <2>5. s \in States /\ ~s.returned /\ s.stage = 2
    BY <1>4 DEF Waits
  <2>6. EndOfLine(s) = Returned([s EXCEPT !.action = s.buf], TRUE)
    BY <2>5, EndOfLineIs
  <2>7. [s EXCEPT !.action = s.buf] = s
    BY <1>4, <2>5 DEF Means, States
  <2>8. Output(s) = RecordOf(Returned(s, TRUE))
    BY <2>5, <2>6, <2>7, AcceptedIs
  <2>9. RecordOf(Returned(s, TRUE)) = result
    BY <1>4, <2>5, FoundIs
  <2> HIDE DEF r, late
  <2>q. QED  BY <1>6, <2>1, <2>3, <2>4, <2>8, <2>9
<1>8. CASE w \in 1..N
  <2>1. w + 1 \in 1..N + 1 /\ w - 1 + 1 = w
    BY <1>1, <1>8
  <2>2. e \in w + 1..N + 1 /\ (e <= N => line[e] \in {"_", "("})
    BY <2>1, FromIs
  <2>e. e \in w + 1..N + 1
    BY <2>2
  <2>3. line[w] \in Runes /\ ~Blank(line[w])
    <3>1. line[w] \in Runes /\ line[w] \in Solids
      BY <1>1, <1>2, <1>8
    <3>q. QED  BY <3>1, EndsAre DEF Blank
  <2>4. BeginsWord(2, line[w])
    BY <2>3 DEF BeginsWord
  <2>5. e = From(line, w + 1, EndsOf(2))
    BY EndsAre
  <2>6. Reads(t, 2) /\ Unread(s, t) /\ t.buf = word
    <3>1. Waits(a[w - 1], 2) /\ 2 \in {0, 1, 2, 4} /\ w \in 1..Len(line)
      BY <1>4, <1>5, <1>8
    <3>2. LET end == From(line, w + 1, EndsOf(2)) - 1
          IN  /\ Reads(a[end], 2) /\ Unread(a[w - 1], a[end])
              /\ a[end].buf = SubSeq(line, w, end)
      BY <2>4, <3>1, WordIsRead
    <3>q. QED  BY <1>5, <2>5, <3>2
  <2> HIDE DEF e, word
  <2>7. Means(t, result) /\ t \in States /\ t.quoted = FALSE /\ t.bbackslashes = 0
        /\ ~t.returned /\ t.stage = 2 /\ t.begin
    BY <1>4, <2>6 DEF Means, Unread, Reads
  <2> HIDE DEF t
  <2>8. ASSUME NEW next \in 0..4
        PROVE  Fresh(GoTo([t EXCEPT !.action = t.buf], next), next, r)
    <3>1. 2 \in {0, 1, 2}
      OBVIOUS
    <3>2. Fresh(GoTo([t EXCEPT !.action = t.buf], next), next,
                [result EXCEPT !.action = t.buf])
      BY <1>4, <2>6, <2>7, <3>1, NextStage
    <3>q. QED  BY <2>6, <3>2
  <2> HIDE DEF r
  <2>9. CASE late
    <3>1. e - 1 = N
      BY <1>1, <1>8, <2>e, <2>9 DEF late
    <3>2. a[N] = t
      BY <3>1 DEF t
    <3> DEFINE v == [t EXCEPT !.action = t.buf]
    <3>3. EndOfLine(t) = Returned(v, TRUE)
      BY <2>7, EndOfLineIs
    <3>4. v \in States
      BY <2>6, <2>7 DEF States, Reads
    <3>5. Means(v, r)
      <4>1. /\ v.tls = t.tls /\ v.method = t.method /\ v.path = t.path
            /\ v.action = t.buf /\ v.fixedArgs = t.fixedArgs /\ v.found = t.found
        BY <2>7 DEF States
      <4>2. t.buf \in Seq(Runes)
        BY <2>7 DEF States
      <4>3. r = [result EXCEPT !.action = t.buf]
        BY <2>6 DEF r
      <4>4. /\ r \in Records /\ r.tls = FALSE /\ r.found = TRUE
            /\ r.method = result.method /\ r.path = result.path /\ r.action = t.buf
            /\ r.fixedArgs = result.fixedArgs
        BY <2>7, <4>2, <4>3 DEF Means, Records
      <4> HIDE DEF v
      <4>q. QED  BY <2>7, <4>1, <4>4 DEF Means
    <3> HIDE DEF v
    <3>6. Output(t) = RecordOf(Returned(v, TRUE))
      BY <3>3, <3>4, AcceptedIs
    <3>7. RecordOf(Returned(v, TRUE)) = r
      BY <3>4, <3>5, FoundIs
    <3>q. QED  BY <1>6, <2>9, <3>2, <3>6, <3>7
  <2>10. CASE ~late
    <3>1. /\ e \in 1..N /\ e <= N /\ e + 1 \in 1..N + 1 /\ (e + 1) - 1 = e
      BY <1>1, <1>8, <2>e, <2>10 DEF late
    <3>2. a[e] = Scan(t, line[e])
      BY <3>1 DEF Runs, t
    <3>3. CASE open
      <4>1. line[e] = "("
        BY <3>3 DEF open, IsOpen
      <4>2. a[e] = GoTo([t EXCEPT !.action = t.buf], 3)
        BY <2>7, <3>2, <4>1, ActionIs
      <4>3. 3 \in 0..4
        OBVIOUS
      <4>4. Fresh(a[e], 3, r)
        BY <2>8, <4>2, <4>3
      <4>5. Fresh(a[(e + 1) - 1], 3, r)
        BY <3>1, <4>4
      <4>6. Output(a[N]) = Arguments(line, e + 1, r)
        BY <3>1, <4>5, ArgumentsAreRead DEF Fresh
      <4>q. QED  BY <1>6, <2>10, <3>3, <4>6
    <3>4. CASE ~open
      <4>1. line[e] = "_"
        BY <2>2, <3>1, <3>4 DEF open, IsOpen
      <4>2. a[e] = GoTo([t EXCEPT !.action = t.buf], 4)
        BY <2>7, <3>2, <4>1, ActionIs
      <4>3. 4 \in 0..4
        OBVIOUS
      <4>4. Fresh(a[e], 4, r)
        BY <2>8, <4>2, <4>3
      <4>5. Fresh(a[(e + 1) - 1], 4, r)
        BY <3>1, <4>4
      <4>6. Output(a[N]) = Parameter(line, e + 1, r)
        BY <3>1, <4>5, ParameterIsRead DEF Fresh
      <4>7. Parameter(line, e, r) = Parameter(line, e + 1, r)
        BY <3>1, <4>1, BlankBefore DEF Blank
      <4>q. QED  BY <1>6, <2>10, <3>4, <4>6, <4>7
    <3>q. QED  BY <3>3, <3>4
  <2>q. QED  BY <2>9, <2>10
<1>9. w = N + 1 \/ w \in 1..N
  BY <1>1, <1>3
<1>q. QED  BY <1>7, <1>8, <1>9

LEMMA PathIsRead ==
  ASSUME NEW line \in Seq(Runes), NEW a, Runs(line, a), NEW i \in 1..Len(line) + 1,
         NEW result, Fresh(a[i - 1], 1, result), result.action = << >>
  PROVE  Output(a[Len(line)]) = PathMeans(line, i, result)
<1> DEFINE N == Len(line)
           p == From(line, i, Solids)
           e == From(line, p, Blanks)
           word == SubSeq(line, p, e - 1)
           r == [result EXCEPT !.path = word]
           s == a[i - 1]
           t == a[e - 1]
           late == e > N
           slash == line[p] = "/"
<1>1. N \in Nat /\ i \in Nat /\ \A k \in 1..N : line[k] \in Runes
  BY LenProperties, ElementOfSeq
<1>2. p \in i..N + 1 /\ (p <= N => line[p] \in Solids)
  BY FromIs
<1>3. p \in 1..N + 1
  BY <1>1, <1>2
<1>4. e \in p..N + 1 /\ (e <= N => line[e] \in Blanks)
  BY <1>3, FromIs
<1>5. /\ Waits(s, 1) /\ s.quoted = FALSE /\ s.bbackslashes = 0 /\ Means(s, result)
      /\ result.fixedArgs = << >> /\ s \in States /\ ~s.returned /\ s.stage = 1
      /\ ~s.begin
  BY DEF Fresh, Waits
<1>6. a[p - 1] = s
  <2>1. 1 \in 0..4
    OBVIOUS
  <2>q. QED  BY <1>5, <2>1, BlanksAreSkipped
<1>7. PathMeans(line, i, result) = IF late \/ ~slash THEN Rejected
                                   ELSE ActionMeans(line, e, r)
  BY Zenon DEF PathMeans
<1> HIDE DEF p, s, slash
<1>8. CASE p = N + 1
  <2> HIDE DEF e
  <2>1. late
    BY <1>1, <1>4, <1>8
  <2>2. p - 1 = N
    BY <1>1, <1>8
  <2>3. a[N] = s
    BY <1>6, <2>2
  <2>4. EndOfLine(s) = Returned(s, FALSE)
    BY <1>5, EndOfLineIs
  <2>5. Output(a[N]) = Rejected
    BY <1>5, <2>3, <2>4, RejectedIs
  <2>q. QED  BY <1>7, <2>1, <2>5
<1>9. CASE p \in 1..N
  <2>1. line[p] \in Runes /\ ~Blank(line[p]) /\ line[p] \notin Blanks
    <3>1. line[p] \in Runes /\ line[p] \in Solids
      BY <1>1, <1>2, <1>9
    <3>q. QED  BY <3>1, EndsAre DEF Blank
  <2>2. a[p] = Scan(s, line[p]) /\ p \in 0..N
    BY <1>1, <1>6, <1>9 DEF Runs
  <2>3. CASE ~slash
    <3>1. a[p] = Returned(s, FALSE)
      BY <1>5, <2>1, <2>2, <2>3, PathIs DEF Blank, slash
    <3>2. a[p].returned /\ ~a[p].found /\ a[p] \in States
      BY <1>5, <3>1, ReturnedIs
    <3>3. a[N] = a[p]
      BY <2>2, <3>2, NothingAfter
    <3>4. Output(a[N]) = Rejected
      BY <3>2, <3>3, RejectedIs
    <3>q. QED  BY <1>7, <2>3, <3>4
  <2>4. CASE slash
    <3>1. BeginsWord(1, line[p])
      BY <2>1, <2>4 DEF BeginsWord, slash
    <3>2. e = From(line, p + 1, EndsOf(1))
      <4>1. From(line, p, Blanks) = From(line, p + 1, Blanks)
        BY <1>9, <2>1, FromSkips
      <4>q. QED  BY <4>1, EndsAre
    <3>3. Reads(t, 1) /\ Unread(s, t) /\ t.buf = word
      <4>1. Waits(a[p - 1], 1) /\ 1 \in {0, 1, 2, 4} /\ p \in 1..Len(line)
        BY <1>5, <1>6, <1>9
      <4>2. LET end == From(line, p + 1, EndsOf(1)) - 1
            IN  /\ Reads(a[end], 1) /\ Unread(a[p - 1], a[end])
                /\ a[end].buf = SubSeq(line, p, end)
        BY <3>1, <4>1, WordIsRead
      <4>q. QED  BY <1>6, <3>2, <4>2
    <3> HIDE DEF e, word
    <3>4. Means(t, result) /\ t \in States /\ t.quoted = FALSE /\ t.bbackslashes = 0
          /\ ~t.returned /\ t.stage = 1 /\ t.begin
      BY <1>5, <3>3 DEF Means, Unread, Reads
    <3>5. e \in p..N + 1
      BY <1>4
    <3> HIDE DEF t, r
    <3>6. CASE late
      <4>1. e - 1 = N
        BY <1>1, <1>9, <3>5, <3>6
      <4>2. a[N] = t
        BY <4>1 DEF t
      <4>3. EndOfLine(t) = Returned(t, FALSE)
        BY <3>4, EndOfLineIs
      <4>4. Output(a[N]) = Rejected
        BY <3>4, <4>2, <4>3, RejectedIs
      <4>q. QED  BY <1>7, <3>6, <4>4
    <3>7. CASE ~late
      <4>1. /\ e \in 1..N /\ e <= N /\ e + 1 \in 1..N + 1 /\ (e + 1) - 1 = e
        BY <1>1, <1>9, <3>5, <3>7
      <4>2. a[e] = Scan(t, line[e])
        BY <4>1 DEF Runs, t
      <4>3. line[e] = "_"
        BY <1>4, <4>1, EndsAre
      <4>4. a[e] = GoTo([t EXCEPT !.path = t.buf], 2)
        BY <3>4, <4>2, <4>3, PathIs
      <4>5. Fresh(GoTo([t EXCEPT !.path = t.buf], 2), 2, [result EXCEPT !.path = t.buf])
        <5>1. 1 \in {0, 1, 2} /\ 2 \in 0..4
          OBVIOUS
        <5>q. QED  BY <1>5, <3>3, <3>4, <5>1, NextStage
      <4>6. Fresh(a[(e + 1) - 1], 2, r)
        BY <3>3, <4>1, <4>4, <4>5 DEF r
      <4>7. r.action = << >>
        BY <1>5 DEF r, Means, Records
      <4>8. Output(a[N]) = ActionMeans(line, e + 1, r)
        BY <4>1, <4>6, <4>7, ActionIsRead
      <4>9. ActionMeans(line, e, r) = ActionMeans(line, e + 1, r)
        BY <4>1, <4>3, BlankBefore DEF Blank
      <4>q. QED  BY <1>7, <2>4, <3>7, <4>8, <4>9
    <3>q. QED  BY <3>6, <3>7
  <2>q. QED  BY <2>3, <2>4
<1>10. p = N + 1 \/ p \in 1..N
  BY <1>1, <1>3
<1>q. QED  BY <1>8, <1>9, <1>10

IsMethod(word) == word = <<"M">>
NoneYet(word) == [method |-> word, path |-> << >>, action |-> << >>,
                  fixedArgs |-> << >>, tls |-> FALSE, found |-> TRUE]

LEMMA MethodIsRead ==
  ASSUME NEW line \in Seq(Runes), NEW a, Runs(line, a), a[0] = Start
  PROVE  Output(a[Len(line)]) = MethodMeans(line)
<1> DEFINE N == Len(line)
           m == From(line, 1, Solids)
           e == From(line, m, Blanks)
           word == SubSeq(line, m, e - 1)
           r == NoneYet(word)
           t == a[e - 1]
<1>1. N \in Nat /\ 1 \in 1..N + 1 /\ \A k \in 1..N : line[k] \in Runes
  BY LenProperties, ElementOfSeq
<1>2. m \in 1..N + 1 /\ (m <= N => line[m] \in Solids)
  BY <1>1, FromIs
<1>3. e \in m..N + 1 /\ (e <= N => line[e] \in Blanks)
  BY <1>2, FromIs
<1>4. /\ Waits(Start, 0) /\ Start \in States /\ ~Start.returned /\ Start.stage = 0
      /\ ~Start.begin
  BY StartWaits DEF Waits
<1>5. a[m - 1] = Start
  <2>1. 0 \in 0..4 /\ 1 - 1 = 0
    OBVIOUS
  <2>2. Waits(a[1 - 1], 0)
    BY <1>4, <2>1
  <2>q. QED  BY <1>1, <2>1, <2>2, BlanksAreSkipped
<1>6. MethodMeans(line) = IF ~IsMethod(word) THEN Rejected ELSE PathMeans(line, e, r)
  BY Zenon DEF MethodMeans, IsMethod, NoneYet
<1> HIDE DEF m
<1>7. CASE m = N + 1
  <2>1. ~IsMethod(word)
    <3> HIDE DEF e
    <3>1. m \in Nat /\ e - 1 \in Nat /\ e - 1 < m /\ \A k \in m..e - 1 : k \in 1..N
      BY <1>1, <1>3, <1>7
    <3>2. Len(word) = 0
      BY <3>1, SubSeqProperties
    <3>3. Len(<<"M">>) = 1
      OBVIOUS
    <3> HIDE DEF word
    <3>4. word = <<"M">> => Len(word) = 1
      BY <3>3
    <3>q. QED  BY <3>2, <3>4 DEF IsMethod
  <2>2. m - 1 = N
    BY <1>1, <1>7
  <2>3. a[N] = Start
    BY <1>5, <2>2
  <2>4. EndOfLine(Start) = Returned(Start, FALSE)
    BY <1>4, EndOfLineIs
  <2>5. Output(a[N]) = Rejected
    BY <1>4, <2>3, <2>4, RejectedIs
  <2>q. QED  BY <1>6, <2>1, <2>5
<1>8. CASE m \in 1..N
  <2>1. line[m] \in Runes /\ ~Blank(line[m]) /\ line[m] \notin Blanks
    <3>1. line[m] \in Runes /\ line[m] \in Solids
      BY <1>1, <1>2, <1>8
    <3>q. QED  BY <3>1, EndsAre DEF Blank
  <2>2. BeginsWord(0, line[m])
    BY <2>1 DEF BeginsWord
  <2>3. e = From(line, m + 1, EndsOf(0))
    <3>1. From(line, m, Blanks) = From(line, m + 1, Blanks)
      BY <1>8, <2>1, FromSkips
    <3>q. QED  BY <3>1, EndsAre
  <2>4. Reads(t, 0) /\ Unread(Start, t) /\ t.buf = word
    <3>1. Waits(a[m - 1], 0) /\ 0 \in {0, 1, 2, 4} /\ m \in 1..Len(line)
      BY <1>4, <1>5, <1>8
    <3>2. LET end == From(line, m + 1, EndsOf(0)) - 1
          IN  /\ Reads(a[end], 0) /\ Unread(a[m - 1], a[end])
              /\ a[end].buf = SubSeq(line, m, end)
      BY <2>2, <3>1, WordIsRead
    <3>q. QED  BY <1>5, <2>3, <3>2
  <2> HIDE DEF e, word
  <2>5. /\ t \in States /\ t.quoted = FALSE /\ t.bbackslashes = 0 /\ t.returned = FALSE
        /\ t.stage = 0 /\ t.begin /\ t.path = << >> /\ t.action = << >>
        /\ t.fixedArgs = << >> /\ t.tls = FALSE /\ t.found = FALSE
    BY <2>4 DEF Unread, Reads, Start, States
  <2>6. e \in m..N + 1
    BY <1>3
  <2> HIDE DEF t, r
  <2>7. CASE e = N + 1
    <3>1. e - 1 = N /\ e \in 1..N + 1
      BY <1>1, <2>7
    <3>2. a[N] = t
      BY <3>1 DEF t
    <3>3. EndOfLine(t) = Returned(t, FALSE)
      BY <2>5, EndOfLineIs
    <3>4. Output(a[N]) = Rejected
      BY <2>5, <3>2, <3>3, RejectedIs
    <3>5. PathMeans(line, e, r) = Rejected
      <4> DEFINE p == From(line, e, Solids)
                 z == From(line, p, Blanks)
      <4>1. p \in e..N + 1
        BY <3>1, FromIs
      <4>2. p = N + 1 /\ p \in 1..N + 1
        BY <1>1, <2>7, <4>1
      <4>3. z \in p..N + 1
        BY <4>2, FromIs
      <4> HIDE DEF p
      <4>4. z > N
        BY <1>1, <4>2, <4>3
      <4>5. PathMeans(line, e, r) =
              IF z > N \/ line[p] # "/" THEN Rejected
              ELSE ActionMeans(line, z, [r EXCEPT !.path = SubSeq(line, p, z - 1)])
        BY Zenon DEF PathMeans, p
      <4> HIDE DEF z
      <4>q. QED  BY <4>4, <4>5
    <3>q. QED  BY <1>6, <3>4, <3>5
  <2>8. CASE e \in 1..N
    <3>1. e \in 0..N /\ e <= N /\ e + 1 \in 1..N + 1 /\ (e + 1) - 1 = e
      BY <1>1, <2>8
    <3>2. a[e] = Scan(t, line[e])
      BY <2>8 DEF Runs, t
    <3>3. line[e] = "_"
      BY <1>3, <3>1, EndsAre
    <3>4. CASE ~IsMethod(word)
      <4>1. a[e] = Returned(t, FALSE)
        BY <2>4, <2>5, <3>2, <3>3, <3>4, MethodIs DEF IsMethod
      <4>2. a[e].returned /\ ~a[e].found /\ a[e] \in States
        BY <2>5, <4>1, ReturnedIs
      <4>3. a[N] = a[e]
        BY <3>1, <4>2, NothingAfter
      <4>4. Output(a[N]) = Rejected
        BY <4>2, <4>3, RejectedIs
      <4>q. QED  BY <1>6, <3>4, <4>4
    <3>5. CASE IsMethod(word)
      <4> DEFINE v == [t EXCEPT !.method = t.buf]
                 u == GoTo(v, 1)
      <4>1. a[e] = u
        <5>1. t.buf = <<"M">>
          BY <2>4, <3>5 DEF IsMethod
        <5>2. ~t.returned /\ t.stage = 0
          BY <2>5
        <5>3. t.begin /\ line[e] = "_" /\ t.buf = <<"M">> => Scan(t, line[e]) = u
          BY <5>2, MethodIs
        <5>q. QED  BY <2>5, <3>2, <3>3, <5>1, <5>3
      <4>2. word \in Seq(Runes)
        BY <2>4, <2>5 DEF States
      <4>3. /\ v \in States /\ v.returned = FALSE /\ v.quoted = FALSE /\ v.bbackslashes = 0
            /\ v.method = word /\ v.path = << >> /\ v.action = << >>
            /\ v.fixedArgs = << >> /\ v.tls = FALSE /\ v.found = FALSE
        BY <2>4, <2>5, <4>2 DEF States
      <4> HIDE DEF v
      <4>4. /\ Waits(u, 1) /\ u.quoted = v.quoted /\ u.bbackslashes = v.bbackslashes
            /\ u.buf = << >> /\ SameRecords(v, u)
        <5>1. 1 \in 0..4
          OBVIOUS
        <5>q. QED  BY <4>3, <5>1, GoToWaits
      <4> HIDE DEF u
      <4>5. << >> \in Seq(Runes)
        BY EmptySeq
      <4>6. /\ r \in Records /\ r.method = word /\ r.path = << >> /\ r.action = << >>
            /\ r.fixedArgs = << >> /\ r.tls = FALSE /\ r.found = TRUE
        BY <4>2, <4>5 DEF r, NoneYet, Records
      <4>7. Means(u, r)
        BY <4>3, <4>4, <4>6 DEF Means, SameRecords
      <4>8. Fresh(u, 1, r)
        BY <4>3, <4>4, <4>6, <4>7 DEF Fresh
      <4>9. Fresh(a[(e + 1) - 1], 1, r)
        BY <3>1, <4>1, <4>8
      <4>10. Output(a[N]) = PathMeans(line, e + 1, r)
        BY <3>1, <4>6, <4>9, PathIsRead
      <4>11. PathMeans(line, e, r) = PathMeans(line, e + 1, r)
        BY <2>8, <3>3, BlankBefore DEF Blank
      <4>q. QED  BY <1>6, <3>5, <4>10, <4>11
    <3>q. QED  BY <3>4, <3>5
  <2>9. e = N + 1 \/ e \in 1..N
    BY <1>1, <1>8, <2>6
  <2>q. QED  BY <2>7, <2>8, <2>9
<1>9. m = N + 1 \/ m \in 1..N
  BY <1>1, <1>2
<1>q. QED  BY <1>7, <1>8, <1>9

\* A result filled word by word.
LEMMA Filled ==
  ASSUME NEW method, NEW path, NEW action
  PROVE  [[NoneYet(method) EXCEPT !.path = path] EXCEPT !.action = action] =
           [method |-> method, path |-> path, action |-> action,
            fixedArgs |-> << >>, tls |-> FALSE, found |-> TRUE]
<1> DEFINE r == [[NoneYet(method) EXCEPT !.path = path] EXCEPT !.action = action]
           q == [method |-> method, path |-> path, action |-> action,
                 fixedArgs |-> << >>, tls |-> FALSE, found |-> TRUE]
<1>1. DOMAIN r = Results /\ DOMAIN q = Results
  BY DEF NoneYet, Results
<1>0. /\ r.method = method /\ r.path = path /\ r.action = action
      /\ r.fixedArgs = << >> /\ r.tls = FALSE /\ r.found = TRUE
  BY DEF NoneYet
<1>2. ASSUME NEW f \in Results PROVE r[f] = q[f]
  <2>1. /\ q.method = method /\ q.path = path /\ q.action = action
        /\ q.fixedArgs = << >> /\ q.tls = FALSE /\ q.found = TRUE
    OBVIOUS
  <2> HIDE DEF r, q
  <2>2. /\ r.method = q.method /\ r.path = q.path /\ r.action = q.action
        /\ r.fixedArgs = q.fixedArgs /\ r.tls = q.tls /\ r.found = q.found
    BY <1>0, <2>1
  <2>3. \/ f = "method" \/ f = "path" \/ f = "action" \/ f = "fixedArgs" \/ f = "tls"
        \/ f = "found"
    BY DEF Results
  <2>q. QED  BY <2>2, <2>3, Zenon
<1>3. r = [f \in DOMAIN r |-> r[f]]
  BY DEF NoneYet
<1>4. q = [f \in DOMAIN q |-> q[f]]
  OBVIOUS
<1> HIDE DEF r, q
<1>5. r = q
  BY <1>1, <1>2, <1>3, <1>4
<1>q. QED  BY <1>5 DEF r, q

\* Word by word, Meaning says the same.
LEMMA MeaningIs ==
  ASSUME NEW line
  PROVE  Meaning(line) = MethodMeans(line)
<1> DEFINE m == From(line, 1, Solids)
           mEnd == From(line, m, Blanks)
           p == From(line, mEnd, Solids)
           pEnd == From(line, p, Blanks)
           w == From(line, pEnd, Solids)
           wEnd == From(line, w + 1, {"_", "("})
           method == SubSeq(line, m, mEnd - 1)
           path == SubSeq(line, p, pEnd - 1)
           action == SubSeq(line, w, wEnd - 1)
           result == [method |-> method, path |-> path, action |-> action,
                      fixedArgs |-> << >>, tls |-> FALSE, found |-> TRUE]
           none == NoneYet(method)
           some == [none EXCEPT !.path = path]
           all == [some EXCEPT !.action = action]
           noMethod == method # <<"M">>
           noPath == pEnd > Len(line) \/ line[p] # "/"
           Rest(r) == IF wEnd > Len(line) THEN r
                      ELSE IF IsOpen(line[wEnd]) THEN Arguments(line, wEnd + 1, r)
                      ELSE Parameter(line, wEnd, r)
<1>1. Meaning(line) = IF noMethod \/ noPath THEN Rejected ELSE Rest(result)
  BY Zenon DEF Meaning, IsOpen
<1>2. MethodMeans(line) = IF noMethod THEN Rejected ELSE PathMeans(line, mEnd, none)
  BY Zenon DEF MethodMeans, NoneYet
<1>3. PathMeans(line, mEnd, none) = IF noPath THEN Rejected ELSE ActionMeans(line, pEnd, some)
  BY Zenon DEF PathMeans
<1>4. ActionMeans(line, pEnd, some) = Rest(all)
  BY Zenon DEF ActionMeans
<1> HIDE DEF m, mEnd, p, pEnd, w, wEnd, method, path, action
<1>5. all = result
  BY Filled
<1> HIDE DEF noMethod, noPath, Rest, result, none, some, all
<1>q. QED  BY <1>1, <1>2, <1>3, <1>4, <1>5

\* routeParseLine (Router.go:280-496) accepts and reads a line of any length as its words
\* mean it, whatever is quoted, escaped or missing in it.
THEOREM LinesAreExact ==
  ASSUME NEW line \in Seq(Runes)
  PROVE  routeParseLine(line) = Meaning(line)
<1>1. PICK a : /\ routeParseLine(line) = Output(a[Len(line)])
               /\ a[0] = Start
               /\ Runs(line, a)
  BY ScansAre
<1>2. Output(a[Len(line)]) = MethodMeans(line)
  BY <1>1, MethodIsRead
<1>q. QED  BY <1>1, <1>2, MeaningIs

\* The lines of the run are sequences of runes.
LineInv == kind = "line" => text \in Seq(Runes)

LEMMA BeginningsAreLines == Beginnings \subseteq Seq(Runes)
<1>1. << >> \in Seq(Runes)
  BY EmptySeq
<1>2. \A r \in {"_", "(", "quote", ")"} : <<r>> \in Seq(Runes)
  BY OneRune DEF Runes
<1>3. /\ <<"M", "_", "/">> \in Seq(Runes) /\ Call \in Seq(Runes)
      /\ <<"(", "quote">> \in Seq(Runes)
      /\ <<"(", "quote", ")", "quote", ")">> \in Seq(Runes)
  BY DEF Runes, Call
<1>4. \A s \in Seq(Runes) : Call \o s \in Seq(Runes)
  BY <1>3, ConcatProperties
<1>q. QED  BY <1>1, <1>2, <1>3, <1>4 DEF Beginnings

LEMMA LineStart == TextInit => LineInv
<1> SUFFICES ASSUME TextInit, kind = "line" PROVE text \in Seq(Runes)
  BY DEF LineInv
<1>1. text \in Beginnings
  BY DEF TextInit
<1>q. QED  BY <1>1, BeginningsAreLines

LEMMA LineStep == LineInv /\ [TextNext]_textVars => LineInv'
<1> SUFFICES ASSUME LineInv, [TextNext]_textVars PROVE LineInv'
  OBVIOUS
<1>1. CASE UNCHANGED textVars
  BY <1>1 DEF LineInv, textVars
<1>2. ASSUME NEW r \in Alphabet(kind), text' = Append(text, r), kind' = kind PROVE LineInv'
  <2>1. CASE kind = "line"
    <3>1. r \in Runes
      BY <1>2, <2>1 DEF Alphabet
    <3>2. Append(text, r) \in Seq(Runes)
      BY <2>1, <3>1, AppendProperties DEF LineInv
    <3>q. QED  BY <1>2, <3>2 DEF LineInv
  <2>2. CASE kind # "line"
    BY <1>2, <2>2 DEF LineInv
  <2>q. QED  BY <2>1, <2>2
<1>q. QED  BY <1>1, <1>2 DEF TextNext

\* A line is accepted when, and only when, it is a method, a path, an action, arguments
\* if any, TLS if wanted and a comment, and is read right (Router.go:280-496): for lines
\* of any length, whatever bounds are set.
THEOREM LinesRead == TextSpec => []LinesAreRead
<1>1. LineInv => LinesAreRead
  BY LinesAreExact DEF LineInv, LinesAreRead
<1>q. QED  BY <1>1, LineStart, LineStep, PTL DEF TextSpec
=============================================================================
