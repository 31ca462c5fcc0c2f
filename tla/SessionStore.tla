---------------------------- MODULE SessionStore ----------------------------
(***************************************************************************)
(* Sessions: App.GetSession, FlushSession and DestroySession (core.go) over *)
(* the four storage drivers, used by requests that run concurrently and     *)
(* present cookies the application has handed out.                          *)
(*                                                                         *)
(* The drivers differ in what a stored session is and in how it is written: *)
(*   memory  the map holds a pointer: every request works on ONE object,    *)
(*           and GetSession flushes it from a goroutine of its own;         *)
(*   redis   GetSession decodes a copy and writes it back at once; writing  *)
(*           creates the key when it is not there (Set);                    *)
(*   mongo   the same, but writing only replaces an existing document;      *)
(*   mysql   GetSession does not write the data; writing only updates an    *)
(*           existing row.                                                  *)
(* The data of a session is a set of marks, one per request that set a key. *)
(***************************************************************************)
EXTENDS Naturals, FiniteSets

CONSTANTS Procs,        \* goroutines that serve requests
          Sids,         \* uuids
          None,         \* no session id
          Drivers,      \* the drivers the runs choose from
          MaxPending    \* bound: no request asks for a session with as many
                        \* flush goroutines still to run

ASSUME SessionAssumption ==
    /\ None \notin Sids
    /\ Drivers \subseteq {"memory", "redis", "mongo", "mysql"}
    /\ MaxPending \in Nat

VARIABLES driver,       \* curSessionDb
          issued,       \* ids sent to clients in a cookie
          stored,       \* ids the store has
          data,         \* the stored data; under memory, of the shared object
          old,          \* ids past the driver's age limit
          pending,      \* number of `go sessfile.Flush()' still to run
          pc,           \* where each request stands
          sid,          \* the session a request asks for or has
          mine,         \* the request's own copy of the data
          bound,        \* whose r and w the shared object of memory has
          committed,    \* history: marks whose request flushed them
          overlapped,   \* history: ids two requests held at once
          destroyed     \* history: ids given to DestroySession

store == <<stored, data, old>>
history == <<committed, overlapped, destroyed>>
vars == <<driver, issued, store, pending, pc, sid, mine, bound, history>>

Shared == driver = "memory"
Upserts == driver \in {"memory", "redis"}
TouchWrites == driver \in {"redis", "mongo"}

\* A request that has got a session from the store and not given it up.
Holds(p, s) == pc[p] \in {"touch", "bind", "using"} /\ sid[p] = s
Holders(s) == {p \in Procs : Holds(p, s)}

View(p) == IF Shared THEN data[sid[p]] ELSE mine[p]

Goto(p, where) == pc' = [pc EXCEPT ![p] = where]

-----------------------------------------------------------------------------
\* What the drivers do to the store.  (An operator no other one uses is a slip
\* of the code that a property must notice.)

PutCreates(s, d) ==
    /\ stored' = stored \cup {s}
    /\ IF Shared THEN UNCHANGED <<data, old>>
       ELSE data' = [data EXCEPT ![s] = d] /\ old' = old \ {s}

\* PutSession of content d.  The drivers that do not create write nothing when
\* the session is not there; memory stores the pointer, whose time stamp and
\* data are what they are.
Put(s, d) ==
    IF Shared
    THEN stored' = stored \cup {s} /\ UNCHANGED <<data, old>>
    ELSE IF s \in stored \/ Upserts
    THEN /\ stored' = stored \cup {s}
         /\ data' = [data EXCEPT ![s] = d]
         /\ old' = old \ {s}
    ELSE UNCHANGED store

\* RemoveSession and the deletions of Cleanup.
Delete(s) ==
    /\ stored' = stored \ {s}
    /\ data' = IF Shared THEN data ELSE [data EXCEPT ![s] = {}]
    /\ old' = old \ {s}

-----------------------------------------------------------------------------
Init ==
    /\ driver \in Drivers
    /\ issued = {}
    /\ stored = {}
    /\ data = [s \in Sids |-> {}]
    /\ old = {}
    /\ pending = [s \in Sids |-> 0]
    /\ pc = [p \in Procs |-> "idle"]
    /\ sid = [p \in Procs |-> None]
    /\ mine = [p \in Procs |-> {}]
    /\ bound = [s \in Sids |-> None]
    /\ committed = [s \in Sids |-> {}]
    /\ overlapped = {}
    /\ destroyed = {}

\* A request asks for its session, with the cookie of one that was issued or
\* with none (or one _validateSidString refuses).
Ask(p) ==
    /\ pc[p] = "idle"
    /\ \/ /\ Goto(p, "new")
          /\ UNCHANGED sid
       \/ \E s \in issued : /\ pending[s] < MaxPending
                            /\ sid' = [sid EXCEPT ![p] = s]
                            /\ Goto(p, "load")
    /\ UNCHANGED <<driver, issued, store, pending, mine, bound, history>>

\* The driver finds the session.  Memory refreshes it under its lock and starts
\* the flush; the others make a copy; mysql prolongs a short life (shortexpires)
\* but not the life since the last flush (expires).
Load(p) ==
    LET s == sid[p] IN
    /\ pc[p] = "load"
    /\ s \in stored
    /\ IF Shared
         THEN /\ pending' = [pending EXCEPT ![s] = @ + 1]
              /\ old' = old \ {s}
              /\ UNCHANGED mine
         ELSE /\ mine' = [mine EXCEPT ![p] = data[s]]
              /\ UNCHANGED pending
              /\ \/ UNCHANGED old
                 \/ driver = "mysql" /\ old' = old \ {s}
    /\ overlapped' = IF Holders(s) = {} THEN overlapped ELSE overlapped \cup {s}
    /\ Goto(p, IF TouchWrites THEN "touch" ELSE "bind")
    /\ UNCHANGED <<driver, issued, stored, data, sid, bound, committed, destroyed>>

\* It is not there, or a remote driver fails: a new session is made instead.
LoadFails(p) ==
    /\ pc[p] = "load"
    /\ sid[p] \notin stored \/ ~Shared
    /\ sid' = [sid EXCEPT ![p] = None]
    /\ Goto(p, "new")
    /\ UNCHANGED <<driver, issued, store, pending, mine, bound, history>>

TouchBlank(p) ==
    /\ pc[p] = "touch"
    /\ Put(sid[p], {})
    /\ Goto(p, "bind")
    /\ UNCHANGED <<driver, issued, pending, sid, mine, bound, history>>

\* redis and mongo: GetSession flushes the copy it has just read, and goes on
\* whether that worked or not.
Touch(p) ==
    /\ pc[p] = "touch"
    /\ Put(sid[p], mine[p]) \/ UNCHANGED store
    /\ Goto(p, "bind")
    /\ UNCHANGED <<driver, issued, pending, sid, mine, bound, history>>

BindOnce(p) ==
    /\ pc[p] = "bind"
    /\ bound' = IF Shared /\ bound[sid[p]] = None
                THEN [bound EXCEPT ![sid[p]] = p] ELSE bound
    /\ Goto(p, "using")
    /\ UNCHANGED <<driver, issued, store, pending, sid, mine, history>>

\* App.GetSession writes the request and the response writer into the session.
Bind(p) ==
    /\ pc[p] = "bind"
    /\ bound' = IF Shared THEN [bound EXCEPT ![sid[p]] = p] ELSE bound
    /\ Goto(p, "using")
    /\ UNCHANGED <<driver, issued, store, pending, sid, mine, history>>

\* memory: the goroutine GetSession started puts the pointer back in the map.
FlushLater(s) ==
    /\ pending[s] > 0
    /\ pending' = [pending EXCEPT ![s] = @ - 1]
    /\ Put(s, data[s])
    /\ UNCHANGED <<driver, issued, pc, sid, mine, bound, history>>

NewUnderAnyId(p, s) ==
    /\ pc[p] = "new"
    /\ stored' = stored \cup {s}
    /\ issued' = issued \cup {s}
    /\ sid' = [sid EXCEPT ![p] = s]
    /\ UNCHANGED mine
    /\ UNCHANGED bound
    /\ Goto(p, "using")
    /\ UNCHANGED <<driver, data, old, pending, history>>

\* A session under a fresh uuid.
New(p, s) ==
    /\ pc[p] = "new"
    /\ s \notin issued
    /\ stored' = stored \cup {s}
    /\ issued' = issued \cup {s}
    /\ sid' = [sid EXCEPT ![p] = s]
    /\ mine' = [mine EXCEPT ![p] = {}]
    /\ bound' = IF Shared THEN [bound EXCEPT ![s] = p] ELSE bound
    /\ Goto(p, "using")
    /\ UNCHANGED <<driver, data, old, pending, history>>

\* The driver cannot store it: the request is answered with status 500.
NewFails(p) ==
    /\ pc[p] = "new"
    /\ ~Shared
    /\ Goto(p, "idle")
    /\ UNCHANGED <<driver, issued, store, pending, sid, mine, bound, history>>

-----------------------------------------------------------------------------
\* What a handler does with its session.

Modify(p) ==
    /\ pc[p] = "using"
    /\ IF Shared
         THEN data' = [data EXCEPT ![sid[p]] = @ \cup {p}] /\ UNCHANGED mine
         ELSE mine' = [mine EXCEPT ![p] = @ \cup {p}] /\ UNCHANGED data
    /\ UNCHANGED <<driver, issued, stored, old, pending, pc, sid, bound, history>>

\* FlushSession.  (When a remote driver fails, nothing is written.)
Flush(p) ==
    /\ pc[p] = "using"
    /\ Put(sid[p], mine[p])
    /\ committed' = IF sid[p] \in stored \/ Upserts
                    THEN [committed EXCEPT ![sid[p]] = @ \cup View(p)]
                    ELSE committed
    /\ UNCHANGED <<driver, issued, pending, pc, sid, mine, bound, overlapped,
                   destroyed>>

\* The request is over; its copy is garbage.  (So is the session of a
\* DestroySession whose RemoveSession fails: the error is dropped, the store
\* keeps the session, and the step is a Finish.)
Leave(p) ==
    /\ Goto(p, "idle")
    /\ sid' = [sid EXCEPT ![p] = None]
    /\ mine' = [mine EXCEPT ![p] = {}]

\* DestroySession, after which the handler leaves the session alone.
Destroy(p) ==
    /\ pc[p] = "using"
    /\ Delete(sid[p])
    /\ destroyed' = destroyed \cup {sid[p]}
    /\ Leave(p)
    /\ UNCHANGED <<driver, issued, pending, bound, committed, overlapped>>

Finish(p) ==
    /\ pc[p] = "using"
    /\ Leave(p)
    /\ UNCHANGED <<driver, issued, store, pending, bound, history>>

-----------------------------------------------------------------------------
\* The clock.  Requests are short next to the age limit (15 days; 60 days in
\* redis): a session grows old only while no request has it.
Age(s) ==
    /\ s \in stored \ old
    /\ Holders(s) = {}
    /\ old' = old \cup {s}
    /\ UNCHANGED <<driver, issued, stored, data, pending, pc, sid, mine, bound,
                   history>>

\* routineSessionMaintenance calls Cleanup (redis expires the key by itself).
Cleanup(s) ==
    /\ s \in stored \cap old
    /\ Delete(s)
    /\ UNCHANGED <<driver, issued, pending, pc, sid, mine, bound, history>>

-----------------------------------------------------------------------------
RequestStep(p) ==
    \/ Ask(p) \/ Load(p) \/ LoadFails(p) \/ Touch(p) \/ Bind(p)
    \/ \E s \in Sids : New(p, s)
    \/ NewFails(p) \/ Modify(p) \/ Flush(p) \/ Destroy(p) \/ Finish(p)

Next == \/ \E p \in Procs : RequestStep(p)
        \/ \E s \in Sids : FlushLater(s) \/ Age(s) \/ Cleanup(s)

Spec == Init /\ [][Next]_vars

-----------------------------------------------------------------------------
\* Every variable has its type; a request past the lookup has an issued id, and
\* nothing is stored, held or pending under an id that was not issued.
TypeOK ==
    /\ driver \in Drivers
    /\ issued \subseteq Sids
    /\ stored \subseteq issued
    /\ old \subseteq stored
    /\ data \in [Sids -> SUBSET Procs]
    /\ pending \in [Sids -> Nat]
    /\ pc \in [Procs -> {"idle", "load", "new", "touch", "bind", "using"}]
    /\ sid \in [Procs -> issued \cup {None}]
    /\ mine \in [Procs -> SUBSET Procs]
    /\ bound \in [Sids -> Procs \cup {None}]
    /\ committed \in [Sids -> SUBSET Procs]
    /\ overlapped \subseteq issued
    /\ destroyed \subseteq issued
    /\ \A p \in Procs : pc[p] \in {"load", "touch", "bind", "using"} => sid[p] # None
    /\ \A s \in Sids \ issued : pending[s] = 0

\* The data a request flushed stays in the session as long as the session is
\* stored, unless two requests held it at once; under memory even then.
FlushedDataIsKept ==
    \A s \in stored :
      Shared \/ s \notin overlapped => committed[s] \subseteq data[s]

\* A session that DestroySession removed is in the store again only if the memory driver's own
\* flush, or another request that held it, can have put it back; mongo and mysql
\* never let it return.
DestroyedStaysAway ==
    \A s \in destroyed \cap stored :
      driver = "memory" \/ (driver = "redis" /\ s \in overlapped)

\* The response writer in a session belongs to the request that uses it,
\* as long as no other request has used the session at the same time.
SessionIsBoundToItsUser ==
    \A p \in Procs :
      pc[p] = "using" /\ Shared /\ sid[p] \notin overlapped => bound[sid[p]] = p

\* A session is served again as long as it is stored or, with a driver whose
\* writes create, as long as somebody can still write it.
Live(s) == \/ s \in stored
           \/ Upserts /\ (pending[s] > 0 \/ Holders(s) # {})

status == [s \in Sids |-> IF s \notin issued THEN "unborn"
                          ELSE IF Live(s) THEN "live" ELSE "gone"]

Life == INSTANCE SessionLife WITH Sids <- Sids, status <- status

\* The session layer implements SessionLife: ids are born once, and one that is
\* gone never comes back, whatever cookies the clients keep sending.
ImplementsLife == Life!Spec
=============================================================================
