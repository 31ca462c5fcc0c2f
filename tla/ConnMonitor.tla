----------------------------- MODULE ConnMonitor -----------------------------
(***************************************************************************)
(* The connection registry (appMonitor.go): a path counter `list' and a    *)
(* table `entries' of open requests, both guarded by one sync.Mutex.       *)
(*                                                                         *)
(* App.ServeHTTP registers every request before it dispatches it and takes *)
(* it out again in a deferred call.  Application code reads the registry   *)
(* through App.Monitor: ActiveThreads and ActiveConnectionPaths have VALUE *)
(* receivers, so each call works on a private copy of the mutex and on the *)
(* shared maps; SlowConnectionPaths and Cancel have pointer receivers and  *)
(* use the real mutex.                                                     *)
(*                                                                         *)
(* The body of routineMonitoring's loop is absent: its condition autoClose *)
(* is only ever assigned on a copy (EnableAutoClose has a value receiver). *)
(***************************************************************************)
EXTENDS Naturals, FiniteSets, Functions

CONSTANTS Requests,     \* goroutines serving a request, one at a time each
          Observers,    \* goroutines of the application that use App.Monitor
          Paths,        \* r.URL.String()
          Ids,          \* what newRequestId can return
          None,         \* no path, no id, nobody
          MaxCount      \* bound: no request arrives on a path counted so often

ASSUME ActorsAssumption ==
    /\ IsFiniteSet(Requests)
    /\ IsFiniteSet(Ids)
    /\ Requests \cap Observers = {}
    /\ None \notin Requests \cup Observers \cup Paths \cup Ids

VARIABLES lock,         \* the holder of connectionPaths.locker, or None
          made,         \* the two maps exist (they are created on first use)
          list,         \* connectionPaths.list, a partial function on Paths
          entries,      \* connectionPaths.entries: id -> its Path
          pc,           \* where each goroutine stands
          path,         \* the path of a request
          rid,          \* its id, or the id an observer asked to cancel
          copy,         \* what an observer's private copy of the registry
                        \* holds: the maps, a locked mutex
          seen,         \* history: open counts true during ActiveThreads
          collided,     \* history: an id was given to two open requests
          crashed       \* the runtime killed the process

table == <<made, list, entries>>
vars == <<lock, table, pc, path, rid, copy, seen, collided, crashed>>

Procs == Requests \cup Observers

\* The goroutine holds the mutex (of an observer in "remove", see Holds).
Inside == {"adding", "removing", "slowing", "cancelling"}

RequestPCs == {"idle", "add", "adding", "serving", "remove", "removing"}
ObserverPCs == {"rest", "copycount", "count", "copypaths", "paths",
                "iterating", "slow", "slowing", "cancel", "cancelling",
                "remove"}

-----------------------------------------------------------------------------
\* Helpers: the counter of a path, and the two updates of the list.  (An
\* operator no other one uses is a slip of the code that a property must
\* notice: BumpToOne of Bump, and so on; PROJECT.json pairs them.)

Cnt(p) == IF p \in DOMAIN list THEN list[p] ELSE 0

BumpToOne(p) == [q \in DOMAIN list \cup {p} |-> IF q = p THEN 1 ELSE list[q]]

Bump(p) == [q \in DOMAIN list \cup {p} |->
              IF q = p THEN Cnt(p) + 1 ELSE list[q]]

DropWhole(p) == Restrict(list, DOMAIN list \ {p})

Drop(p) == IF p \notin DOMAIN list THEN list
           ELSE IF list[p] = 1 THEN Restrict(list, DOMAIN list \ {p})
           ELSE [list EXCEPT ![p] = @ - 1]

\* Requests that Add has registered and whose deferred Remove has not run.
IsOpen(r) == pc[r] \in {"serving", "remove", "removing"}
Open == {r \in Requests : IsOpen(r)}
OpenOn(p) == {r \in Open : path[r] = p}

IdsOn(p) == {id \in DOMAIN entries : entries[id] = p}

CountPaths(o) == IF "maps" \in copy[o] THEN Cardinality(DOMAIN list) ELSE 0

\* What ActiveThreads returns to o: len(entries), of a map that may be nil.
CountResult(o) == IF "maps" \in copy[o] THEN Cardinality(DOMAIN entries) ELSE 0

InCount == {"copycount", "count"}

\* The number of open requests is now n, and every ActiveThreads call under
\* way witnesses it.
Witness(n) == seen' = [o \in Observers |->
                  IF pc[o] \in InCount THEN seen[o] \cup {n} ELSE seen[o]]

Goto(p, where) == pc' = [pc EXCEPT ![p] = where]

Acquire(p, from, to) ==
    /\ pc[p] = from
    /\ lock = None
    /\ lock' = p
    /\ Goto(p, to)
    /\ UNCHANGED <<table, path, rid, copy, seen, collided, crashed>>

-----------------------------------------------------------------------------
Init ==
    /\ lock = None
    /\ made = FALSE
    /\ list = [p \in {} |-> 0]
    /\ entries = [id \in {} |-> None]
    /\ pc = [p \in Procs |-> IF p \in Requests THEN "idle" ELSE "rest"]
    /\ path = [r \in Requests |-> None]
    /\ rid = [p \in Procs |-> None]
    /\ copy = [o \in Observers |-> {}]
    /\ seen = [o \in Observers |-> {}]
    /\ collided = FALSE
    /\ crashed = FALSE

-----------------------------------------------------------------------------
\* A request.

\* ServeHTTP starts and calls Add, which waits for the mutex.
Arrive(r, p) ==
    /\ pc[r] = "idle"
    /\ Cnt(p) < MaxCount
    /\ Goto(r, "add")
    /\ path' = [path EXCEPT ![r] = p]
    /\ UNCHANGED <<lock, table, rid, copy, seen, collided, crashed>>

AddLock(r) == Acquire(r, "add", "adding")

\* Add: create the maps, count the path, file an entry under a fresh id.  The
\* id is a clock reading and four random digits: nothing excludes one in use,
\* and a map assignment then replaces the older entry.
Add(r, id) ==
    /\ pc[r] = "adding"
    /\ made' = TRUE
    /\ list' = Bump(path[r])
    /\ entries' = [i \in DOMAIN entries \cup {id} |->
                     IF i = id THEN path[r] ELSE entries[i]]
    /\ collided' = (collided \/ id \in DOMAIN entries)
    /\ rid' = [rid EXCEPT ![r] = id]
    /\ lock' = None
    /\ Goto(r, "serving")
    /\ Witness(Cardinality(Open) + 1)
    /\ UNCHANGED <<path, copy, crashed>>

\* The handler returns or panics; either way the deferred Remove is next.
Return(r) ==
    /\ pc[r] = "serving"
    /\ Goto(r, "remove")
    /\ UNCHANGED <<lock, table, path, rid, copy, seen, collided, crashed>>

\* Remove's Lock, reached from ServeHTTP and, with the mutex already held by
\* the caller itself, from Cancel.
RemoveLock(p) == Acquire(p, "remove", "removing")

Remove(r) ==
    /\ pc[r] = "removing"
    /\ r \in Requests
    /\ made' = TRUE
    /\ IF rid[r] \in DOMAIN entries
         THEN /\ list' = Drop(entries[rid[r]])
              /\ entries' = Restrict(entries, DOMAIN entries \ {rid[r]})
         ELSE UNCHANGED <<list, entries>>
    /\ rid' = [rid EXCEPT ![r] = None]
    /\ path' = [path EXCEPT ![r] = None]
    /\ lock' = None
    /\ Goto(r, "idle")
    /\ Witness(Cardinality(Open) - 1)
    /\ UNCHANGED <<copy, collided, crashed>>

-----------------------------------------------------------------------------
\* ActiveThreads and ActiveConnectionPaths: the receiver is copied field by
\* field, without the mutex; first the map headers, then the mutex itself.

CopyMaps(o) ==
    /\ pc[o] = "rest"
    /\ \E op \in {"copycount", "copypaths"} : Goto(o, op)
    /\ copy' = [copy EXCEPT ![o] = IF made THEN {"maps"} ELSE {}]
    /\ seen' = [seen EXCEPT ![o] = {Cardinality(Open)}]
    /\ UNCHANGED <<lock, table, path, rid, collided, crashed>>

CopyLocker(o) ==
    /\ \/ pc[o] = "copycount" /\ Goto(o, "count")
       \/ pc[o] = "copypaths" /\ Goto(o, "paths")
    /\ copy' = IF lock = None THEN copy
               ELSE [copy EXCEPT ![o] = @ \cup {"locked"}]
    /\ UNCHANGED <<lock, table, path, rid, seen, collided, crashed>>

\* Back to the caller; the copy and what was seen of the call are gone.
Leave(o) ==
    /\ Goto(o, "rest")
    /\ copy' = [copy EXCEPT ![o] = {}]
    /\ seen' = [seen EXCEPT ![o] = {}]
    /\ UNCHANGED <<lock, table, path, rid, collided>>

CountOnSharedMutex(o) ==
    /\ pc[o] = "count"
    /\ lock = None
    /\ Leave(o)
    /\ UNCHANGED crashed

\* Count returns len(entries).  A copy made of a held mutex is never unlocked:
\* its caller stays at "count" for good.
Count(o) ==
    /\ pc[o] = "count"
    /\ "locked" \notin copy[o]
    /\ Leave(o)
    /\ UNCHANGED crashed

\* Get ranges over the shared map under the private mutex.
StartGet(o) ==
    /\ pc[o] = "paths"
    /\ "locked" \notin copy[o]
    /\ Goto(o, "iterating")
    /\ UNCHANGED <<lock, table, path, rid, copy, seen, collided, crashed>>

Get(o) ==
    /\ pc[o] = "iterating"
    /\ Leave(o)
    /\ UNCHANGED crashed

\* ... and finds a writer inside the map: "concurrent map iteration and map
\* write" is fatal for the whole process.
GetDuringWrite(o) ==
    /\ pc[o] = "iterating"
    /\ "maps" \in copy[o]
    /\ \E p \in Procs : pc[p] \in {"adding", "removing"}
    /\ crashed' = TRUE
    /\ Leave(o)

-----------------------------------------------------------------------------
\* SlowConnectionPaths and Cancel, on the real mutex.

CallSlow(o) ==
    /\ pc[o] = "rest"
    /\ Goto(o, "slow")
    /\ UNCHANGED <<lock, table, path, rid, copy, seen, collided, crashed>>

SlowLock(o) == Acquire(o, "slow", "slowing")

GetSlowNoUnlock(o) ==
    /\ pc[o] = "slowing"
    /\ Goto(o, "rest")
    /\ UNCHANGED <<lock, table, path, rid, copy, seen, collided, crashed>>

GetSlow(o) ==
    /\ pc[o] = "slowing"
    /\ lock' = None
    /\ Goto(o, "rest")
    /\ UNCHANGED <<table, path, rid, copy, seen, collided, crashed>>

CallCancel(o, id) ==
    /\ pc[o] = "rest"
    /\ Goto(o, "cancel")
    /\ rid' = [rid EXCEPT ![o] = id]
    /\ UNCHANGED <<lock, table, path, copy, seen, collided, crashed>>

CancelLock(o) == Acquire(o, "cancel", "cancelling")

CancelMissing(o) ==
    /\ pc[o] = "cancelling"
    /\ rid[o] \notin DOMAIN entries
    /\ lock' = None
    /\ rid' = [rid EXCEPT ![o] = None]
    /\ Goto(o, "rest")
    /\ UNCHANGED <<table, path, copy, seen, collided, crashed>>

\* The entry is there: Cancel ends a context nobody waits on (it derives a new
\* one from the request's) and calls Remove without giving the mutex back.
CancelFound(o) ==
    /\ pc[o] = "cancelling"
    /\ rid[o] \in DOMAIN entries
    /\ Goto(o, "remove")
    /\ UNCHANGED <<lock, table, path, rid, copy, seen, collided, crashed>>

-----------------------------------------------------------------------------
RequestStep(r) ==
    \/ \E p \in Paths : Arrive(r, p)
    \/ AddLock(r)
    \/ \E id \in Ids : Add(r, id)
    \/ Return(r)
    \/ Remove(r)

ObserverStep(o) ==
    \/ CopyMaps(o)
    \/ CopyLocker(o)
    \/ Count(o)
    \/ StartGet(o)
    \/ Get(o)
    \/ GetDuringWrite(o)
    \/ CallSlow(o)
    \/ SlowLock(o)
    \/ GetSlow(o)
    \/ \E id \in Ids : CallCancel(o, id)
    \/ CancelLock(o)
    \/ CancelMissing(o)
    \/ CancelFound(o)

Next == /\ ~crashed
        /\ \/ \E r \in Requests : RequestStep(r)
           \/ \E o \in Observers : ObserverStep(o)
           \/ \E p \in Procs : RemoveLock(p)

\* Goroutines are scheduled, and a sync.Mutex hands itself to its oldest
\* waiter after a millisecond (starvation mode): whoever waits for it and sees
\* it free again and again gets it.  Handlers and callers owe nothing.
Fairness ==
    /\ \A r \in Requests :
         /\ SF_vars(~crashed /\ (AddLock(r) \/ RemoveLock(r)))
         /\ WF_vars(~crashed /\ (Remove(r) \/ \E id \in Ids : Add(r, id)))
    /\ \A o \in Observers :
         /\ SF_vars(~crashed /\ (SlowLock(o) \/ CancelLock(o)))
         /\ WF_vars(~crashed /\ \/ GetSlow(o) \/ CancelMissing(o) \/ CancelFound(o)
                                \/ CopyLocker(o) \/ Count(o) \/ StartGet(o)
                                \/ Get(o) \/ GetDuringWrite(o))

Spec == Init /\ [][Next]_vars
FairSpec == Spec /\ Fairness

-----------------------------------------------------------------------------
\* Every variable has its type; the counters of the list are never zero.
TypeOK ==
    /\ lock \in Procs \cup {None}
    /\ made \in BOOLEAN
    /\ DOMAIN list \subseteq Paths
    /\ list \in [DOMAIN list -> Nat \ {0}]
    /\ DOMAIN entries \subseteq Ids
    /\ entries \in [DOMAIN entries -> Paths]
    /\ pc \in [Procs -> RequestPCs \cup ObserverPCs]
    /\ path \in [Requests -> Paths \cup {None}]
    /\ rid \in [Procs -> Ids \cup {None}]
    /\ copy \in [Observers -> SUBSET {"maps", "locked"}]
    /\ seen \in [Observers -> SUBSET Int]
    /\ collided \in BOOLEAN
    /\ crashed \in BOOLEAN

\* The mutex is held by exactly the goroutine that is between a Lock and its
\* deferred Unlock (an observer at "remove" still holds it from Cancel).
Holds(p) == pc[p] \in Inside \/ (p \in Observers /\ pc[p] = "remove")
MutexHeldByOne == \A p \in Procs : lock = p <=> Holds(p)

\* Unless two open requests drew the same id, the registry is exact whatever
\* order Add, Remove and Cancel ran in: the entries are those of the open
\* requests, and the counter of every path is the number of requests open on
\* it (so no counter leaks, and none is lost).
RegistryIsExact ==
    ~collided =>
      /\ DOMAIN entries = {rid[r] : r \in Open}
      /\ \A r \in Open : entries[rid[r]] = path[r]
      /\ \A p \in Paths : Cnt(p) = Cardinality(OpenOn(p))

\* Even after a collision the list never counts fewer connections on a path
\* than there are entries for it.
ListCoversEntries == \A p \in Paths : Cnt(p) >= Cardinality(IdsOn(p))

\* Although it reads without the mutex, an ActiveThreads call that returns
\* gives a number of open requests that was the true one at some moment of
\* the call.
CountWasTrue ==
    \A o \in Observers :
      pc[o] = "count" /\ "locked" \notin copy[o] /\ ~collided
        => CountResult(o) \in seen[o]

\* A goroutine waits for a mutex it holds itself: Cancel, having found its
\* entry, inside Remove.
WaitsOnItself(p) == pc[p] = "remove" /\ lock = p
Wedged == \E p \in Procs : WaitsOnItself(p)

\* The mutex lets everybody through: a request that arrives is registered, a
\* request that ends is taken out, unless a Cancel that found its entry has
\* wedged the registry or the process has died.
RequestsPass ==
    \A r \in Requests :
      /\ pc[r] = "add" ~> (pc[r] = "serving" \/ Wedged \/ crashed)
      /\ pc[r] = "remove" ~> (pc[r] = "idle" \/ Wedged \/ crashed)

\* A reader without the mutex comes back, unless the mutex it copied was held.
ReadersReturn ==
    \A o \in Observers :
      pc[o] \in {"copycount", "copypaths"}
        ~> (pc[o] = "rest" \/ "locked" \in copy[o] \/ crashed)

\* What "closing slow client" (App_Routines.go:59) takes for granted of Cancel:
\* no goroutine ever waits for a mutex it holds.
NobodyWaitsOnItself == ~Wedged
=============================================================================
