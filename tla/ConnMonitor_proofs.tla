------------------------- MODULE ConnMonitor_proofs -------------------------
(***************************************************************************)
(* Proofs about ConnMonitor, for any number of requests, observers, paths  *)
(* and ids.  Typing comes first; mutual exclusion and the exactness of the *)
(* registry are then proved on top of it, one invariant at a time.         *)
(***************************************************************************)
EXTENDS ConnMonitor, FiniteSetTheorems, TLAPS

\* A request past its arrival has a path.
PathKnown == \A r \in Requests : pc[r] # "idle" => path[r] \in Paths

\* Typing, in inductive form.
Typing == TypeOK /\ PathKnown

-----------------------------------------------------------------------------
\* Adding or taking one element moves the size of a finite set by one.
LEMMA OneMore ==
  ASSUME NEW S, IsFiniteSet(S), NEW x
  PROVE  /\ Cardinality(S) \in Nat
         /\ Cardinality(S \cup {x}) =
              IF x \in S THEN Cardinality(S) ELSE Cardinality(S) + 1
<1>1. CASE x \in S
  <2>1. S \cup {x} = S
    BY <1>1
  <2> QED BY <1>1, <2>1, FS_CardinalityType
<1>2. CASE x \notin S
  BY <1>2, FS_AddElement, FS_CardinalityType
<1> QED BY <1>1, <1>2

LEMMA OneLess ==
  ASSUME NEW S, IsFiniteSet(S), NEW x \in S
  PROVE  Cardinality(S \ {x}) = Cardinality(S) - 1
BY FS_RemoveElement

-----------------------------------------------------------------------------
\* What the two updates of the list do to the counters.

\* Add's branch on the list (appMonitor.go:85): one more on p, no other counter
\* moves, and the result is again a list of positive counters.
LEMMA BumpLemma ==
  ASSUME NEW p \in Paths, DOMAIN list \subseteq Paths,
         list \in [DOMAIN list -> Nat \ {0}], list' = Bump(p)
  PROVE  /\ DOMAIN list' \subseteq Paths
         /\ list' \in [DOMAIN list' -> Nat \ {0}]
         /\ \A q \in Paths : Cnt(q)' = IF q = p THEN Cnt(q) + 1 ELSE Cnt(q)
BY DEF Bump, Cnt

\* Remove's branch (appMonitor.go:112): one less on p, which is deleted rather
\* than left at zero.
LEMMA DropLemma ==
  ASSUME NEW p \in Paths, DOMAIN list \subseteq Paths,
         list \in [DOMAIN list -> Nat \ {0}], list' = Drop(p)
  PROVE  /\ DOMAIN list' \subseteq Paths
         /\ list' \in [DOMAIN list' -> Nat \ {0}]
         /\ \A q \in Paths : Cnt(q)' =
              IF q = p /\ p \in DOMAIN list THEN Cnt(q) - 1 ELSE Cnt(q)
BY DEF Drop, Restrict, Cnt

-----------------------------------------------------------------------------
\* Every step keeps the types, and a request past its arrival keeps its path.
LEMMA TypingInvariant == Spec => []Typing
<1> USE ActorsAssumption
<1>1. ASSUME Init PROVE Typing
  <2> USE DEF Init, Procs, RequestPCs, ObserverPCs
  <2>1. /\ DOMAIN list \subseteq Paths /\ list \in [DOMAIN list -> Nat \ {0}]
        /\ DOMAIN entries \subseteq Ids /\ entries \in [DOMAIN entries -> Paths]
    BY <1>1
  <2>2. /\ pc \in [Procs -> RequestPCs \cup ObserverPCs]
        /\ path \in [Requests -> Paths \cup {None}]
        /\ rid \in [Procs -> Ids \cup {None}]
    BY <1>1
  <2>3. /\ copy \in [Observers -> SUBSET {"maps", "locked"}]
        /\ seen \in [Observers -> SUBSET Int]
    BY <1>1
  <2>4. PathKnown
    BY <1>1 DEF PathKnown
  <2> QED BY <1>1, <2>1, <2>2, <2>3, <2>4 DEF Typing, TypeOK
<1>2. Typing /\ [Next]_vars => Typing'
  <2> SUFFICES ASSUME Typing, [Next]_vars PROVE Typing'
    OBVIOUS
  <2> USE DEF Typing, TypeOK, PathKnown, Procs, RequestPCs, ObserverPCs, Goto,
              table, vars
  <2>0. CASE UNCHANGED vars
    BY <2>0
  <2>1. ASSUME NEW r \in Requests, NEW p \in Paths, Arrive(r, p) PROVE Typing'
    BY <2>1 DEF Arrive
  <2>2. ASSUME NEW p \in Procs, NEW from, NEW to \in RequestPCs \cup ObserverPCs,
               from # "idle", Acquire(p, from, to) PROVE Typing'
    BY <2>2 DEF Acquire
  <2>3. ASSUME NEW r \in Requests, NEW id \in Ids, Add(r, id) PROVE Typing'
    <3>1. path[r] \in Paths
      BY <2>3 DEF Add
    <3>2. DOMAIN list' \subseteq Paths /\ list' \in [DOMAIN list' -> Nat \ {0}]
      BY <2>3, <3>1, BumpLemma DEF Add
    <3>3. DOMAIN entries' \subseteq Ids /\ entries' \in [DOMAIN entries' -> Paths]
      BY <2>3, <3>1 DEF Add
    <3>4. seen' \in [Observers -> SUBSET Int]
      <4>1. Cardinality(Open) \in Nat
        BY FS_Subset, FS_CardinalityType DEF Open
      <4> QED BY <2>3, <4>1 DEF Add, Witness
    <3> QED BY <2>3, <3>2, <3>3, <3>4 DEF Add
  <2>4. ASSUME NEW r \in Requests, Return(r) PROVE Typing'
    BY <2>4 DEF Return
  <2>5. ASSUME NEW r \in Requests, Remove(r) PROVE Typing'
    <3>1. /\ DOMAIN list' \subseteq Paths /\ list' \in [DOMAIN list' -> Nat \ {0}]
          /\ DOMAIN entries' \subseteq Ids /\ entries' \in [DOMAIN entries' -> Paths]
      <4>1. CASE rid[r] \in DOMAIN entries
        <5>1. entries[rid[r]] \in Paths /\ list' = Drop(entries[rid[r]])
          BY <2>5, <4>1 DEF Remove
        <5>2. DOMAIN list' \subseteq Paths /\ list' \in [DOMAIN list' -> Nat \ {0}]
          BY <5>1, DropLemma
        <5> QED BY <2>5, <4>1, <5>2 DEF Remove, Restrict
      <4>2. CASE rid[r] \notin DOMAIN entries
        BY <2>5, <4>2 DEF Remove
      <4> QED BY <4>1, <4>2
    <3>2. seen' \in [Observers -> SUBSET Int]
      <4>1. Cardinality(Open) \in Nat
        BY FS_Subset, FS_CardinalityType DEF Open
      <4> QED BY <2>5, <4>1 DEF Remove, Witness
    <3> QED BY <2>5, <3>1, <3>2 DEF Remove
  <2>6. ASSUME NEW o \in Observers, CopyMaps(o) PROVE Typing'
    <3>1. seen' \in [Observers -> SUBSET Int]
      <4>1. Cardinality(Open) \in Nat
        BY FS_Subset, FS_CardinalityType DEF Open
      <4> QED BY <2>6, <4>1 DEF CopyMaps
    <3>2. copy' \in [Observers -> SUBSET {"maps", "locked"}]
      BY <2>6 DEF CopyMaps
    <3> QED BY <2>6, <3>1, <3>2 DEF CopyMaps
  <2>7. ASSUME NEW o \in Observers, CopyLocker(o) PROVE Typing'
    <3>1. copy' \in [Observers -> SUBSET {"maps", "locked"}]
      BY <2>7 DEF CopyLocker
    <3> QED BY <2>7, <3>1 DEF CopyLocker
  <2>8. ASSUME NEW o \in Observers, Count(o) \/ Get(o) \/ GetDuringWrite(o)
        PROVE  Typing'
    BY <2>8 DEF Count, Get, GetDuringWrite, Leave
  <2>9. ASSUME NEW o \in Observers, StartGet(o) \/ CallSlow(o) \/ GetSlow(o)
        PROVE  Typing'
    BY <2>9 DEF StartGet, CallSlow, GetSlow
  <2>10. ASSUME NEW o \in Observers, NEW id \in Ids, CallCancel(o, id)
         PROVE  Typing'
    BY <2>10 DEF CallCancel
  <2>11. ASSUME NEW o \in Observers, CancelMissing(o) \/ CancelFound(o)
         PROVE  Typing'
    BY <2>11 DEF CancelMissing, CancelFound
  <2> QED
    <3>1. ASSUME NEW r \in Requests, RequestStep(r) PROVE Typing'
      BY <3>1, <2>1, <2>2, <2>3, <2>4, <2>5 DEF RequestStep, AddLock
    <3>2. ASSUME NEW o \in Observers, ObserverStep(o) PROVE Typing'
      BY <3>2, <2>2, <2>6, <2>7, <2>8, <2>9, <2>10, <2>11
         DEF ObserverStep, SlowLock, CancelLock
    <3>3. ASSUME NEW p \in Procs, RemoveLock(p) PROVE Typing'
      BY <3>3, <2>2 DEF RemoveLock
    <3> QED BY <2>0, <3>1, <3>2, <3>3 DEF Next
<1> QED BY <1>1, <1>2, PTL DEF Spec

\* The type invariant: every variable keeps its type, counters stay positive
\* and the entries only ever name paths requests asked for.
THEOREM TypeCorrect == Spec => []TypeOK
<1>1. Typing => TypeOK
  BY DEF Typing
<1> QED BY <1>1, TypingInvariant, PTL

-----------------------------------------------------------------------------
\* connectionPaths.locker is held by exactly the goroutine between a Lock and
\* its deferred Unlock; Cancel keeps it while it waits inside Remove.
THEOREM MutualExclusion == Spec => []MutexHeldByOne
<1> USE ActorsAssumption
<1>1. Init => MutexHeldByOne
  BY DEF Init, MutexHeldByOne, Holds, Inside, Procs
<1>2. Typing /\ MutexHeldByOne /\ [Next]_vars => MutexHeldByOne'
  <2> SUFFICES ASSUME Typing, MutexHeldByOne, [Next]_vars PROVE MutexHeldByOne'
    OBVIOUS
  <2> USE DEF Typing, TypeOK, MutexHeldByOne, Holds, Inside, Procs, Goto, vars
  <2>0. CASE UNCHANGED vars
    BY <2>0
  <2>1. ASSUME NEW r \in Requests, RequestStep(r) PROVE MutexHeldByOne'
    <3>1. ASSUME NEW p \in Paths, Arrive(r, p) PROVE MutexHeldByOne'
      BY <3>1 DEF Arrive
    <3>2. CASE AddLock(r)
      BY <3>2 DEF AddLock, Acquire
    <3>3. ASSUME NEW id \in Ids, Add(r, id) PROVE MutexHeldByOne'
      BY <3>3 DEF Add
    <3>4. CASE Return(r)
      BY <3>4 DEF Return
    <3>5. CASE Remove(r)
      BY <3>5 DEF Remove
    <3> QED BY <2>1, <3>1, <3>2, <3>3, <3>4, <3>5 DEF RequestStep
  <2>2. ASSUME NEW o \in Observers, CopyMaps(o) \/ CopyLocker(o) \/ Count(o)
                 \/ StartGet(o) \/ Get(o) \/ GetDuringWrite(o)
        PROVE  MutexHeldByOne'
    BY <2>2 DEF CopyMaps, CopyLocker, Count, StartGet, Get, GetDuringWrite, Leave
  <2>3. ASSUME NEW o \in Observers, CallSlow(o) \/ SlowLock(o) \/ GetSlow(o)
        PROVE  MutexHeldByOne'
    BY <2>3 DEF CallSlow, SlowLock, Acquire, GetSlow
  <2>4. ASSUME NEW o \in Observers, CancelLock(o) \/ CancelMissing(o)
                 \/ CancelFound(o) \/ \E id \in Ids : CallCancel(o, id)
        PROVE  MutexHeldByOne'
    BY <2>4 DEF CallCancel, CancelLock, Acquire, CancelMissing, CancelFound
  <2>5. ASSUME NEW p \in Procs, RemoveLock(p) PROVE MutexHeldByOne'
    BY <2>5 DEF RemoveLock, Acquire
  <2> QED BY <2>0, <2>1, <2>2, <2>3, <2>4, <2>5 DEF Next, ObserverStep
<1> QED BY <1>1, <1>2, TypingInvariant, PTL DEF Spec
-----------------------------------------------------------------------------
(***************************************************************************)
(* The exactness of the registry, in inductive form: as long as ids do not *)
(* collide, rid is a bijection between the open requests and the entries.  *)
(***************************************************************************)
Exact ==
    /\ DOMAIN entries = {rid[r] : r \in Open}
    /\ \A r \in Open : entries[rid[r]] = path[r]
    /\ \A r, s \in Open : rid[r] = rid[s] => r = s
    /\ \A p \in Paths : Cnt(p) = Cardinality(OpenOn(p))
    /\ Cardinality(DOMAIN entries) = Cardinality(Open)

ExactUnlessCollided == ~collided => Exact

\* A step that touches neither the tables nor the open requests.
LEMMA QuietStep ==
  ASSUME Exact, UNCHANGED <<list, entries>>, Open' = Open,
         \A r \in Open : rid[r]' = rid[r] /\ path[r]' = path[r]
  PROVE  Exact'
<1>1. \A p \in Paths : OpenOn(p)' = OpenOn(p)
  BY DEF OpenOn
<1> QED BY <1>1 DEF Exact, Cnt

\* Sets of requests and of ids are finite.
LEMMA Finiteness ==
  ASSUME Typing
  PROVE  /\ IsFiniteSet(Open) /\ Cardinality(Open) \in Nat
         /\ IsFiniteSet(DOMAIN entries) /\ Cardinality(DOMAIN entries) \in Nat
         /\ \A p : IsFiniteSet(OpenOn(p)) /\ Cardinality(OpenOn(p)) \in Nat
         /\ \A p : IsFiniteSet(IdsOn(p)) /\ Cardinality(IdsOn(p)) \in Nat
<1>1. IsFiniteSet(Open) /\ Cardinality(Open) \in Nat
  BY ActorsAssumption, FS_Subset, FS_CardinalityType DEF Open
<1>2. IsFiniteSet(DOMAIN entries) /\ Cardinality(DOMAIN entries) \in Nat
  BY ActorsAssumption, FS_Subset, FS_CardinalityType DEF Typing, TypeOK
<1>3. ASSUME NEW p PROVE IsFiniteSet(OpenOn(p)) /\ Cardinality(OpenOn(p)) \in Nat
  <2>1. OpenOn(p) \subseteq Open
    BY DEF OpenOn
  <2> QED BY <1>1, <2>1, FS_Subset, FS_CardinalityType
<1>4. ASSUME NEW p PROVE IsFiniteSet(IdsOn(p)) /\ Cardinality(IdsOn(p)) \in Nat
  <2>1. IdsOn(p) \subseteq DOMAIN entries
    BY DEF IdsOn
  <2> QED BY <1>2, <2>1, FS_Subset, FS_CardinalityType
<1> QED BY <1>1, <1>2, <1>3, <1>4

\* Add under a fresh id: the request and its entry join, its counter goes up.
LEMMA AddExact ==
  ASSUME Typing, Exact, NEW r \in Requests, NEW id \in Ids, Add(r, id),
         id \notin DOMAIN entries
  PROVE  Exact'
<1> USE DEF Typing, TypeOK, Procs
<1>1. path[r] \in Paths /\ r \notin Open
  BY DEF Add, PathKnown, Open, IsOpen
<1>2. Open' = Open \cup {r}
  BY DEF Add, Goto, Open, IsOpen
<1>3. /\ rid'[r] = id /\ \A s \in Open : rid'[s] = rid[s]
      /\ path' = path
  BY <1>1 DEF Add, Open
<1>4. DOMAIN entries' = DOMAIN entries \cup {id}
  BY DEF Add
<1>5. DOMAIN entries' = {rid'[s] : s \in Open'}
  BY <1>2, <1>3, <1>4 DEF Exact
<1>6. \A s \in Open' : entries'[rid'[s]] = path'[s]
  <2>1. entries'[id] = path[r] /\ \A i \in DOMAIN entries : entries'[i] = entries[i]
    BY DEF Add
  <2> QED BY <1>2, <1>3, <2>1 DEF Exact
<1>7. \A s, t \in Open' : rid'[s] = rid'[t] => s = t
  BY <1>2, <1>3 DEF Exact
<1>8. ASSUME NEW p \in Paths PROVE Cnt(p)' = Cardinality(OpenOn(p)')
  <2>1. Cnt(p)' = IF p = path[r] THEN Cnt(p) + 1 ELSE Cnt(p)
    BY <1>1, BumpLemma DEF Add
  <2>2. OpenOn(p)' = IF p = path[r] THEN OpenOn(p) \cup {r} ELSE OpenOn(p)
    BY <1>2, <1>3 DEF OpenOn
  <2>3. r \notin OpenOn(p) /\ IsFiniteSet(OpenOn(p))
    BY <1>1, Finiteness DEF OpenOn
  <2>4. Cardinality(OpenOn(p) \cup {r}) = Cardinality(OpenOn(p)) + 1
    BY <2>3, FS_AddElement
  <2> QED BY <2>1, <2>2, <2>4 DEF Exact
<1>9. Cardinality(DOMAIN entries') = Cardinality(Open')
  <2>1. /\ Cardinality(DOMAIN entries \cup {id}) = Cardinality(DOMAIN entries) + 1
        /\ Cardinality(Open \cup {r}) = Cardinality(Open) + 1
    BY <1>1, Finiteness, FS_AddElement
  <2> QED BY <1>2, <1>4, <2>1 DEF Exact
<1> QED BY <1>5, <1>6, <1>7, <1>8, <1>9 DEF Exact

\* Remove: the request and its own entry leave, its counter goes down.
LEMMA RemoveExact ==
  ASSUME Typing, Exact, NEW r \in Requests, Remove(r)
  PROVE  Exact'
<1> USE DEF Typing, TypeOK, Procs
<1>1. r \in Open /\ rid[r] \in DOMAIN entries /\ entries[rid[r]] = path[r]
  BY DEF Remove, Open, IsOpen, Exact
<1>2. path[r] \in Paths
  BY <1>1
<1>3. Open' = Open \ {r}
  BY ActorsAssumption DEF Remove, Goto, Open, IsOpen
<1>4. \A s \in Open \ {r} : rid'[s] = rid[s] /\ path'[s] = path[s]
  BY DEF Remove, Open
<1>5. /\ list' = Drop(path[r])
      /\ DOMAIN entries' = DOMAIN entries \ {rid[r]}
      /\ \A i \in DOMAIN entries \ {rid[r]} : entries'[i] = entries[i]
  BY <1>1 DEF Remove, Restrict
<1>6. DOMAIN entries' = {rid'[s] : s \in Open'}
  BY <1>1, <1>3, <1>4, <1>5 DEF Exact
<1>7. \A s \in Open' : entries'[rid'[s]] = path'[s]
  BY <1>1, <1>3, <1>4, <1>5 DEF Exact
<1>8. \A s, t \in Open' : rid'[s] = rid'[t] => s = t
  BY <1>3, <1>4 DEF Exact
<1>9. ASSUME NEW p \in Paths PROVE Cnt(p)' = Cardinality(OpenOn(p)')
  <2>1. r \in OpenOn(path[r]) /\ Cnt(path[r]) = Cardinality(OpenOn(path[r]))
    BY <1>1, <1>2 DEF OpenOn, Exact
  <2>2. Cardinality(OpenOn(path[r]) \ {r}) = Cardinality(OpenOn(path[r])) - 1
    BY <2>1, Finiteness, FS_RemoveElement
  <2>3. path[r] \in DOMAIN list
    <3>1. Cardinality(OpenOn(path[r])) # 0
      BY <2>1, Finiteness, FS_EmptySet
    <3> QED BY <2>1, <3>1 DEF Cnt
  <2>4. Cnt(p)' = IF p = path[r] THEN Cnt(p) - 1 ELSE Cnt(p)
    BY <1>2, <1>5, <2>3, DropLemma
  <2>5. OpenOn(p)' = IF p = path[r] THEN OpenOn(p) \ {r} ELSE OpenOn(p)
    BY <1>3, <1>4 DEF OpenOn
  <2> QED BY <2>2, <2>4, <2>5 DEF Exact
<1>10. Cardinality(DOMAIN entries') = Cardinality(Open')
  <2>1. Cardinality(DOMAIN entries \ {rid[r]}) = Cardinality(DOMAIN entries) - 1
    <3>1. IsFiniteSet(DOMAIN entries)
      BY Finiteness
    <3> QED BY <1>1, <3>1, OneLess
  <2>2. Cardinality(Open \ {r}) = Cardinality(Open) - 1
    <3>1. IsFiniteSet(Open)
      BY Finiteness
    <3> QED BY <1>1, <3>1, FS_RemoveElement
  <2> QED BY <1>3, <1>5, <2>1, <2>2 DEF Exact
<1> QED BY <1>6, <1>7, <1>8, <1>9, <1>10 DEF Exact

\* Every other step is quiet.
LEMMA OthersQuiet ==
  ASSUME Typing, MutexHeldByOne, Exact, [Next]_vars,
         ~ \E r \in Requests : Remove(r) \/ \E id \in Ids : Add(r, id)
  PROVE  Exact'
<1> USE ActorsAssumption DEF Typing, TypeOK, Procs, Goto, Open, IsOpen, table, vars
<1>0. CASE UNCHANGED vars
  BY <1>0, QuietStep
<1>1. ASSUME NEW r \in Requests, NEW p \in Paths, Arrive(r, p) PROVE Exact'
  BY <1>1, QuietStep DEF Arrive
<1>2. ASSUME NEW p \in Procs, NEW from, NEW to, Acquire(p, from, to),
             from \in {"add", "slow", "cancel", "remove"},
             to \in {"adding", "slowing", "cancelling", "removing"},
             to = "removing" <=> from = "remove"
      PROVE  Exact'
  BY <1>2, QuietStep DEF Acquire
<1>3. ASSUME NEW r \in Requests, Return(r) PROVE Exact'
  BY <1>3, QuietStep DEF Return
<1>4. ASSUME NEW o \in Observers, CopyMaps(o) \/ CopyLocker(o) \/ Count(o)
               \/ StartGet(o) \/ Get(o) \/ GetDuringWrite(o)
      PROVE  Exact'
  <2>1. Open' = Open /\ UNCHANGED <<list, entries, rid, path>>
    BY <1>4 DEF CopyMaps, CopyLocker, Count, StartGet, Get, GetDuringWrite, Leave
  <2> QED BY <2>1, QuietStep
<1>5. ASSUME NEW o \in Observers, CallSlow(o) \/ GetSlow(o) PROVE Exact'
  BY <1>5, QuietStep DEF CallSlow, GetSlow
<1>6. ASSUME NEW o \in Observers, CancelMissing(o) \/ CancelFound(o)
               \/ \E id \in Ids : CallCancel(o, id)
      PROVE  Exact'
  <2>1. Open' = Open /\ UNCHANGED <<list, entries, path>>
        /\ \A r \in Open : rid'[r] = rid[r]
    BY <1>6 DEF CancelMissing, CancelFound, CallCancel
  <2> QED BY <2>1, QuietStep
<1> QED
  BY <1>0, <1>1, <1>2, <1>3, <1>4, <1>5, <1>6
     DEF Next, RequestStep, ObserverStep, AddLock, RemoveLock, SlowLock, CancelLock

LEMMA ExactInvariant == Spec => []ExactUnlessCollided
<1>1. Init => ExactUnlessCollided
  <2> SUFFICES ASSUME Init PROVE Exact
    BY DEF ExactUnlessCollided
  <2>1. Open = {}
    BY DEF Init, Open, IsOpen, Procs
  <2>2. DOMAIN entries = {} /\ \A p \in Paths : OpenOn(p) = {} /\ Cnt(p) = 0
    BY <2>1 DEF Init, OpenOn, Cnt
  <2> QED BY <2>1, <2>2, FS_EmptySet DEF Exact
<1>2. Typing /\ MutexHeldByOne /\ ExactUnlessCollided /\ [Next]_vars
        => ExactUnlessCollided'
  <2> SUFFICES ASSUME Typing, MutexHeldByOne, ExactUnlessCollided, [Next]_vars,
                      ~collided'
               PROVE  Exact'
    BY DEF ExactUnlessCollided
  <2>1. ~collided
    BY DEF Next, RequestStep, ObserverStep, Arrive, AddLock, Acquire, Add, Return,
           RemoveLock, Remove, CopyMaps, CopyLocker, Count, StartGet, Get,
           GetDuringWrite, Leave, CallSlow, SlowLock, GetSlow, CallCancel,
           CancelLock, CancelMissing, CancelFound, vars
  <2>2. Exact
    BY <2>1 DEF ExactUnlessCollided
  <2>3. ASSUME NEW r \in Requests, Remove(r) PROVE Exact'
    BY <2>2, <2>3, RemoveExact
  <2>4. ASSUME NEW r \in Requests, NEW id \in Ids, Add(r, id) PROVE Exact'
    <3>1. id \notin DOMAIN entries
      BY <2>4 DEF Add
    <3> QED BY <2>2, <2>4, <3>1, AddExact
  <2> QED BY <2>2, <2>3, <2>4, OthersQuiet
<1> QED BY <1>1, <1>2, TypingInvariant, MutualExclusion, PTL DEF Spec

\* appMonitor.go:72-121 keeps its promise: unless two open requests drew the
\* same id, the entries are those of the open requests and every counter is
\* the number of requests open on its path, after any interleaving.
THEOREM RegistryExact == Spec => []RegistryIsExact
<1>1. ExactUnlessCollided => RegistryIsExact
  BY DEF ExactUnlessCollided, Exact, RegistryIsExact
<1> QED BY <1>1, ExactInvariant, PTL

-----------------------------------------------------------------------------
\* The counter of a path covers the entries filed under it, collisions or not:
\* a collision can leak counters, it cannot make one too small for the table.
THEOREM ListCovers == Spec => []ListCoversEntries
<1>1. Init => ListCoversEntries
  <2> SUFFICES ASSUME Init, NEW p \in Paths PROVE Cnt(p) >= Cardinality(IdsOn(p))
    BY DEF ListCoversEntries
  <2>1. IdsOn(p) = {} /\ Cnt(p) = 0
    BY DEF Init, IdsOn, Cnt
  <2> QED BY <2>1, FS_EmptySet
<1>2. Typing /\ ListCoversEntries /\ [Next]_vars => ListCoversEntries'
  <2> SUFFICES ASSUME Typing, ListCoversEntries, [Next]_vars, NEW q \in Paths
               PROVE  Cnt(q)' >= Cardinality(IdsOn(q)')
    BY DEF ListCoversEntries
  <2>0. Cnt(q) \in Nat /\ Cnt(q) >= Cardinality(IdsOn(q))
    BY DEF ListCoversEntries, Typing, TypeOK, Cnt
  <2>1. ASSUME NEW r \in Requests, NEW id \in Ids, Add(r, id)
        PROVE  Cnt(q)' >= Cardinality(IdsOn(q)')
    <3>1. path[r] \in Paths
      BY <2>1 DEF Add, Typing, TypeOK, PathKnown
    <3>2. Cnt(q)' = IF q = path[r] THEN Cnt(q) + 1 ELSE Cnt(q)
      BY <2>1, <3>1, BumpLemma DEF Add, Typing, TypeOK
    <3>3. CASE q = path[r]
      <4>1. IdsOn(q)' = IdsOn(q) \cup {id}
        BY <2>1, <3>3 DEF Add, IdsOn
      <4>2. IsFiniteSet(IdsOn(q))
        BY Finiteness
      <4>3. /\ Cardinality(IdsOn(q)) \in Nat
            /\ Cardinality(IdsOn(q) \cup {id}) =
                 IF id \in IdsOn(q) THEN Cardinality(IdsOn(q))
                                   ELSE Cardinality(IdsOn(q)) + 1
        BY <4>2, OneMore
      <4> QED BY <2>0, <3>2, <3>3, <4>1, <4>3
    <3>4. CASE q # path[r]
      <4>1. IdsOn(q)' \subseteq IdsOn(q)
        BY <2>1, <3>4 DEF Add, IdsOn
      <4>2. Cardinality(IdsOn(q)') <= Cardinality(IdsOn(q))
        BY <4>1, Finiteness, FS_Subset
      <4> QED BY <2>0, <3>2, <3>4, <4>1, <4>2, Finiteness, FS_Subset,
                 FS_CardinalityType
    <3> QED BY <3>3, <3>4
  <2>2. ASSUME NEW r \in Requests, Remove(r), rid[r] \in DOMAIN entries
        PROVE  Cnt(q)' >= Cardinality(IdsOn(q)')
    <3> DEFINE p == entries[rid[r]]
    <3>1. p \in Paths /\ list' = Drop(p)
      BY <2>2 DEF Remove, Typing, TypeOK
    <3>2. IdsOn(q)' = IdsOn(q) \ {rid[r]}
      BY <2>2 DEF Remove, Restrict, IdsOn
    <3>3. Cnt(q)' = IF q = p /\ p \in DOMAIN list THEN Cnt(q) - 1 ELSE Cnt(q)
      BY <3>1, DropLemma DEF Typing, TypeOK
    <3>4. CASE q = p
      <4>1. rid[r] \in IdsOn(q)
        BY <2>2, <3>4 DEF IdsOn
      <4>2. Cardinality(IdsOn(q) \ {rid[r]}) = Cardinality(IdsOn(q)) - 1
        BY <4>1, Finiteness, FS_RemoveElement
      <4>3. Cardinality(IdsOn(q)) \in Nat
        BY Finiteness
      <4> QED BY <2>0, <3>2, <3>3, <4>2, <4>3
    <3>5. CASE q # p
      <4>1. Cardinality(IdsOn(q) \ {rid[r]}) <= Cardinality(IdsOn(q))
        BY Finiteness, FS_Subset
      <4>2. Cardinality(IdsOn(q) \ {rid[r]}) \in Nat /\ Cardinality(IdsOn(q)) \in Nat
        BY Finiteness, FS_Subset, FS_CardinalityType
      <4> QED BY <2>0, <3>2, <3>3, <3>5, <4>1, <4>2
    <3> QED BY <3>4, <3>5
  <2>3. CASE UNCHANGED <<list, entries>>
    <3>1. Cnt(q)' = Cnt(q) /\ IdsOn(q)' = IdsOn(q)
      BY <2>3 DEF Cnt, IdsOn
    <3> QED BY <2>0, <3>1
  <2>4. \/ UNCHANGED <<list, entries>>
        \/ \E r \in Requests : Remove(r) /\ rid[r] \in DOMAIN entries
        \/ \E r \in Requests, id \in Ids : Add(r, id)
    BY DEF Next, RequestStep, ObserverStep, Arrive, AddLock, Acquire, Return,
           RemoveLock, Remove, CopyMaps, CopyLocker, Count, StartGet, Get,
           GetDuringWrite, Leave, CallSlow, SlowLock, GetSlow, CallCancel,
           CancelLock, CancelMissing, CancelFound, table, vars
  <2> QED BY <2>1, <2>2, <2>3, <2>4
<1> QED BY <1>1, <1>2, TypingInvariant, PTL DEF Spec

-----------------------------------------------------------------------------
\* While ActiveThreads runs, the present number of open requests is among those
\* it has witnessed, and so is zero if it copied maps that did not exist yet.
Witnessed ==
    /\ made \/ Open = {}
    /\ \A o \in Observers : pc[o] \in InCount =>
         /\ Cardinality(Open) \in seen[o]
         /\ "maps" \in copy[o] \/ 0 \in seen[o]

\* A step that leaves the open requests, and every count under way, alone.
LEMMA UnobservedStep ==
  ASSUME Witnessed, UNCHANGED made, Open' = Open,
         \A o \in Observers : pc'[o] \in InCount =>
             pc[o] \in InCount /\ seen'[o] = seen[o] /\ copy[o] \subseteq copy'[o]
  PROVE  Witnessed'
BY DEF Witnessed

LEMMA WitnessedInvariant == Spec => []Witnessed
<1> USE ActorsAssumption
<1>1. Init => Witnessed
  BY DEF Init, Witnessed, Open, IsOpen, InCount, Procs
<1>2. Typing /\ MutexHeldByOne /\ Witnessed /\ [Next]_vars => Witnessed'
  <2> SUFFICES ASSUME Typing, MutexHeldByOne, Witnessed, [Next]_vars
               PROVE  Witnessed'
    OBVIOUS
  <2> USE DEF Typing, TypeOK, Procs, Goto, InCount
  <2>0. CASE UNCHANGED vars
    BY <2>0 DEF vars, table, Witnessed, Open, IsOpen
  <2>1. ASSUME NEW r \in Requests, NEW id \in Ids, Add(r, id) PROVE Witnessed'
    <3>1. r \notin Open /\ Open' = Open \cup {r}
      BY <2>1 DEF Add, Open, IsOpen
    <3>2. IsFiniteSet(Open)
      BY Finiteness
    <3>3. Cardinality(Open') = Cardinality(Open) + 1
      BY <3>1, <3>2, FS_AddElement
    <3>4. ASSUME NEW o \in Observers, pc'[o] \in InCount
          PROVE  /\ pc[o] \in InCount /\ copy'[o] = copy[o]
                 /\ seen'[o] = seen[o] \cup {Cardinality(Open) + 1}
      BY <2>1, <3>4 DEF Add, Witness
    <3> QED BY <2>1, <3>3, <3>4 DEF Witnessed, Add
  <2>2. ASSUME NEW r \in Requests, Remove(r) PROVE Witnessed'
    <3>1. r \in Open /\ Open' = Open \ {r}
      BY <2>2 DEF Remove, Open, IsOpen
    <3>2. IsFiniteSet(Open)
      BY Finiteness
    <3>3. Cardinality(Open') = Cardinality(Open) - 1
      BY <3>1, <3>2, OneLess
    <3>4. ASSUME NEW o \in Observers, pc'[o] \in InCount
          PROVE  /\ pc[o] \in InCount /\ copy'[o] = copy[o]
                 /\ seen'[o] = seen[o] \cup {Cardinality(Open) - 1}
      BY <2>2, <3>4 DEF Remove, Witness
    <3> QED BY <2>2, <3>3, <3>4 DEF Witnessed, Remove
  <2>3. ASSUME NEW o \in Observers, CopyMaps(o) PROVE Witnessed'
    <3>1. Open' = Open
      BY <2>3 DEF CopyMaps, Open, IsOpen
    <3>2. Open = {} => Cardinality(Open) = 0
      BY FS_EmptySet
    <3>3. ASSUME NEW p \in Observers, pc'[p] \in InCount
          PROVE  /\ Cardinality(Open) \in seen'[p]
                 /\ "maps" \in copy'[p] \/ 0 \in seen'[p]
      <4>1. CASE p = o
        BY <2>3, <3>2, <4>1 DEF CopyMaps, Witnessed
      <4>2. CASE p # o
        BY <2>3, <3>3, <4>2 DEF CopyMaps, Witnessed
      <4> QED BY <4>1, <4>2
    <3> QED BY <2>3, <3>1, <3>3 DEF Witnessed, CopyMaps, table
  <2>4. ASSUME NEW o \in Observers, CopyLocker(o) \/ Count(o) \/ StartGet(o)
                 \/ Get(o) \/ GetDuringWrite(o)
        PROVE  Witnessed'
    <3>1. UNCHANGED made /\ Open' = Open
      BY <2>4 DEF CopyLocker, Count, StartGet, Get, GetDuringWrite, Leave, table,
                  Open, IsOpen
    <3>2. ASSUME NEW p \in Observers, pc'[p] \in InCount
          PROVE  pc[p] \in InCount /\ seen'[p] = seen[p] /\ copy[p] \subseteq copy'[p]
      <4>1. CASE CopyLocker(o)
        BY <3>2, <4>1 DEF CopyLocker
      <4>2. CASE StartGet(o)
        BY <3>2, <4>2 DEF StartGet
      <4>3. CASE Count(o) \/ Get(o) \/ GetDuringWrite(o)
        BY <3>2, <4>3 DEF Count, Get, GetDuringWrite, Leave
      <4> QED BY <2>4, <4>1, <4>2, <4>3
    <3> QED BY <3>1, <3>2, UnobservedStep
  <2>5. ASSUME NEW r \in Requests, Return(r) \/ \E p \in Paths : Arrive(r, p)
        PROVE  Witnessed'
    <3>1. Open' = Open /\ UNCHANGED <<made, seen, copy>>
      BY <2>5 DEF Return, Arrive, table, Open, IsOpen
    <3>2. \A p \in Observers : pc'[p] = pc[p]
      BY <2>5 DEF Return, Arrive
    <3> QED BY <3>1, <3>2, UnobservedStep
  <2>6. ASSUME NEW p \in Procs, NEW from, NEW to, Acquire(p, from, to),
               from \in {"add", "slow", "cancel", "remove"},
               to \in {"adding", "slowing", "cancelling", "removing"},
               to = "removing" <=> from = "remove"
        PROVE  Witnessed'
    <3>1. Open' = Open /\ UNCHANGED <<made, seen, copy>>
      BY <2>6 DEF Acquire, table, Open, IsOpen
    <3>2. \A o \in Observers : pc'[o] \in InCount => pc'[o] = pc[o]
      BY <2>6 DEF Acquire
    <3> QED BY <3>1, <3>2, UnobservedStep
  <2>7. ASSUME NEW o \in Observers, CallSlow(o) \/ GetSlow(o) \/ CancelMissing(o)
                 \/ CancelFound(o) \/ \E id \in Ids : CallCancel(o, id)
        PROVE  Witnessed'
    <3>1. Open' = Open /\ UNCHANGED <<made, seen, copy>>
      BY <2>7 DEF CallSlow, GetSlow, CancelMissing, CancelFound, CallCancel, table,
                  Open, IsOpen
    <3>2. \A p \in Observers : pc'[p] \in InCount => pc'[p] = pc[p]
      BY <2>7 DEF CallSlow, GetSlow, CancelMissing, CancelFound, CallCancel
    <3> QED BY <3>1, <3>2, UnobservedStep
  <2> QED
    BY <2>0, <2>1, <2>2, <2>3, <2>4, <2>5, <2>6, <2>7
       DEF Next, RequestStep, ObserverStep, AddLock, RemoveLock, SlowLock, CancelLock
<1> QED BY <1>1, <1>2, TypingInvariant, MutualExclusion, PTL DEF Spec

\* ActiveThreads (appMonitor.go:182), which reads the shared map under a mutex
\* of its own, still answers with a number of open requests that was the true
\* one at some moment of the call, unless two open requests share an id.
THEOREM CountIsLinearizable == Spec => []CountWasTrue
<1>1. Witnessed /\ ExactUnlessCollided => CountWasTrue
  <2> SUFFICES ASSUME Witnessed, ExactUnlessCollided, NEW o \in Observers,
                      pc[o] = "count", ~collided
               PROVE  CountResult(o) \in seen[o]
    BY DEF CountWasTrue
  <2>1. Cardinality(DOMAIN entries) = Cardinality(Open)
    BY DEF ExactUnlessCollided, Exact
  <2> QED BY <2>1 DEF Witnessed, InCount, CountResult
<1> QED BY <1>1, WitnessedInvariant, ExactInvariant, PTL
=============================================================================
