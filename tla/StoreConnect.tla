---------------------------- MODULE StoreConnect ----------------------------
(***************************************************************************)
(* How the drivers sessmgo, sessredis and sessmysql get and lose their      *)
(* connection while requests, the maintenance of sessions (App_Routines.go) *)
(* and CloseSessionStorage, deferred by Listen, use them at once.           *)
(*                                                                         *)
(* All share the fields of one driver object: mongo and redis without a     *)
(* lock; mysql has a mutex, which db() takes and close() does not.  Every   *)
(* step below is one access to these fields with the call it is for; a      *)
(* field that has changed since is read as it is then.                      *)
(***************************************************************************)
EXTENDS Naturals, FiniteSets

CONSTANTS Requests,     \* goroutines that serve requests
          Routine,      \* routineSessionMaintenance
          Conns,        \* bound: connections that can be made
          Drivers,      \* the drivers the runs choose from
          Nil

ASSUME ConnectAssumption ==
    /\ Routine \notin Requests
    /\ Nil \notin Conns \cup Requests \cup {Routine}
    /\ Drivers \subseteq {"mongo", "redis", "mysql"}

VARIABLES driver,
          app,          \* SetApp was called: not if initAnySessionStorage chose
          ms,           \* mongo's ms, redis' client, mysql's dbi
          mdb,          \* mongo's mdb: that of which session
          state,        \* of each connection: "unused", "open", "closed"
          ready,        \* logged in; has its address; has the table
          mutex,        \* mysql
          pc,           \* where each goroutine stands
          handle,       \* mysql: the db a call has got from db()
          closer,       \* where Close stands
          pinged,       \* mysql: lastPing is within 5 minutes
          bad,          \* history: what calls ended with that no server refused
          refused,      \* history: refusals that outlast their call
          raced,        \* history: a call ran beside one that was connecting
          disturbed,    \* history: a call ran beside Close
          died          \* the process ended with a panic

fields == <<ms, mdb>>
conns == <<state, ready>>
history == <<raced, disturbed>>
vars == <<driver, app, fields, conns, mutex, pc, handle, closer, pinged, bad, refused,
          history, died>>

Procs == Requests \cup {Routine}

Connecting(p) == pc[p] \in {"dial", "db", "login", "client", "newclient", "addr",
                            "dbsize"}
InCall(p) == pc[p] \notin {"idle", "has"}

Goto(p, where) == pc' = [pc EXCEPT ![p] = where]

\* The call of p returns nil, an error, or not at all: net/http recovers a
\* panic of a request, and nobody one of the maintenance.
Succeed(p) == /\ Goto(p, IF p = Routine THEN "idle" ELSE "has")
              /\ UNCHANGED <<bad, died>>

\* An error because a server refused, and one although none did.
Refused(p) == Goto(p, "idle") /\ UNCHANGED <<bad, died>>

Fail(p) == /\ Goto(p, "idle")
           /\ bad' = bad \cup {"error"}
           /\ UNCHANGED died

Panic(p) == /\ Goto(p, "idle")
            /\ IF p = Routine
                 THEN died' = TRUE /\ UNCHANGED bad
                 ELSE bad' = bad \cup {"panic"} /\ UNCHANGED died

GoOn(p, where) == Goto(p, where) /\ UNCHANGED <<bad, died>>

Open(c) == state' = [state EXCEPT ![c] = "open"]
Shut(c) == state' = [state EXCEPT ![c] = "closed"]

-----------------------------------------------------------------------------
Init ==
    /\ driver \in Drivers
    /\ app \in BOOLEAN
    /\ ms = Nil /\ mdb = Nil
    /\ state = [c \in Conns |-> "unused"]
    /\ ready = {}
    /\ mutex = Nil
    /\ pc = [p \in Procs |-> "idle"]
    /\ handle = [p \in Procs |-> Nil]
    /\ closer = "no"
    /\ pinged = FALSE
    /\ bad = {} /\ refused = {} /\ raced = FALSE /\ disturbed = FALSE
    /\ died = FALSE

\* A request asks for its session, or flushes the one it has.
Call(p) ==
    /\ p \in Requests
    /\ pc[p] \in {"idle", "has"}
    /\ GoOn(p, "check")
    /\ UNCHANGED <<driver, app, fields, conns, mutex, handle, closer, pinged, refused>>

\* RemoveSession: mongo and redis do not look whether there is a connection.
CallRemove(p) ==
    /\ pc[p] = "has"
    /\ GoOn(p, IF driver = "mysql" THEN "check" ELSE "op")
    /\ UNCHANGED <<driver, app, fields, conns, mutex, handle, closer, pinged, refused>>

CallCleanupBlindly ==
    /\ driver # "redis" /\ pc[Routine] = "idle"
    /\ GoOn(Routine, IF driver = "mysql" THEN "check" ELSE "op")
    /\ UNCHANGED <<driver, app, fields, conns, mutex, handle, closer, pinged, refused>>

\* Cleanup: mongo does nothing before it is connected, redis nothing at all.
CallCleanup ==
    /\ pc[Routine] = "idle"
    /\ \/ driver = "mysql" /\ GoOn(Routine, "check")
       \/ driver = "mongo" /\ mdb # Nil /\ GoOn(Routine, "op")
    /\ UNCHANGED <<driver, app, fields, conns, mutex, handle, closer, pinged, refused>>

Finish(p) ==
    /\ pc[p] = "has"
    /\ GoOn(p, "idle")
    /\ UNCHANGED <<driver, app, fields, conns, mutex, handle, closer, pinged, refused>>

-----------------------------------------------------------------------------
\* mongo.

CheckMongo(p) ==
    /\ driver = "mongo" /\ pc[p] = "check"
    /\ IF ms # Nil THEN GoOn(p, "op")
       ELSE IF app THEN GoOn(p, "dial") ELSE Panic(p)
    /\ UNCHANGED <<driver, app, fields, conns, mutex, handle, closer, pinged, refused>>

\* m.ms is assigned what Dial returns, also nil.
Dial(p) ==
    /\ pc[p] = "dial"
    /\ \/ \E c \in Conns : /\ state[c] = "unused"
                           /\ ms' = c /\ Open(c)
                           /\ GoOn(p, "db")
       \/ ms' = Nil /\ UNCHANGED state /\ Refused(p)
    /\ UNCHANGED <<driver, app, mdb, ready, mutex, handle, closer, pinged, refused>>

UseDb(p) ==
    /\ pc[p] = "db"
    /\ IF ms = Nil THEN Panic(p) /\ UNCHANGED mdb
       ELSE mdb' = ms /\ GoOn(p, "login")
    /\ UNCHANGED <<driver, app, ms, conns, mutex, handle, closer, pinged, refused>>

\* mgo panics when a session is used after its Close.
Gone(c) == c = Nil \/ (c # Nil /\ state[c] = "closed")

\* The fields stay as they are when the login fails.  (The two EnsureIndex drop
\* their errors, and use m.mdb as the operation does that follows.)
Login(p) ==
    /\ pc[p] = "login"
    /\ IF Gone(mdb) THEN Panic(p) /\ UNCHANGED ready
            /\ UNCHANGED refused
       ELSE \/ ready' = ready \cup {mdb} /\ GoOn(p, "op") /\ UNCHANGED refused
            \/ UNCHANGED ready /\ Refused(p) /\ refused' = refused \cup {"login"}
    /\ UNCHANGED <<driver, app, fields, state, mutex, handle, closer, pinged>>

\* The operation itself, with m.mdb as it is now.
OpMongo(p) ==
    /\ driver = "mongo" /\ pc[p] = "op"
    /\ IF Gone(mdb) THEN Panic(p)
       ELSE IF mdb \notin ready THEN Fail(p)
       ELSE Succeed(p) \/ Refused(p)
    /\ UNCHANGED <<driver, app, fields, conns, mutex, handle, closer, pinged, refused>>

-----------------------------------------------------------------------------
\* redis: a client connects when it is used; one without an address connects to
\* the library's default.

CheckRedis(p) ==
    /\ driver = "redis" /\ pc[p] = "check"
    /\ GoOn(p, IF ms # Nil THEN "op" ELSE "client")
    /\ UNCHANGED <<driver, app, fields, conns, mutex, handle, closer, pinged, refused>>

LookForClient(p) ==
    /\ pc[p] = "client"
    /\ GoOn(p, IF ms # Nil THEN "addr" ELSE "newclient")
    /\ UNCHANGED <<driver, app, fields, conns, mutex, handle, closer, pinged, refused>>

NewClient(p) ==
    /\ pc[p] = "newclient"
    /\ \E c \in Conns : state[c] = "unused" /\ ms' = c /\ Open(c)
    /\ GoOn(p, "addr")
    /\ UNCHANGED <<driver, app, mdb, ready, mutex, handle, closer, pinged, refused>>

SetAddr(p) ==
    /\ pc[p] = "addr"
    /\ IF app THEN ready' = ready \cup {ms} /\ GoOn(p, "dbsize")
       ELSE Panic(p) /\ UNCHANGED ready
    /\ UNCHANGED <<driver, app, fields, state, mutex, handle, closer, pinged, refused>>

Dbsize(p) ==
    /\ pc[p] = "dbsize"
    /\ GoOn(p, "op") \/ Refused(p)
    /\ UNCHANGED <<driver, app, fields, conns, mutex, handle, closer, pinged, refused>>

OpRedis(p) ==
    /\ driver = "redis" /\ pc[p] = "op"
    /\ IF ms \in ready THEN Succeed(p) \/ Refused(p)
       ELSE Goto(p, "has") /\ bad' = bad \cup {"elsewhere"} /\ UNCHANGED died
    /\ UNCHANGED <<driver, app, fields, conns, mutex, handle, closer, pinged, refused>>

-----------------------------------------------------------------------------
\* mysql: db() is called with the mutex held; a panic in it unlocks, too.

LockAnyway(p) ==
    /\ driver = "mysql" /\ pc[p] = "check"
    /\ IF app THEN mutex' = p /\ GoOn(p, "dbi")
       ELSE Panic(p) /\ UNCHANGED mutex
    /\ UNCHANGED <<driver, app, fields, conns, handle, closer, pinged, refused>>

Lock(p) ==
    /\ driver = "mysql" /\ pc[p] = "check"
    /\ IF app THEN mutex = Nil /\ mutex' = p /\ GoOn(p, "dbi")
       ELSE Panic(p) /\ UNCHANGED mutex
    /\ UNCHANGED <<driver, app, fields, conns, handle, closer, pinged, refused>>

\* Without a db one is opened; one that was pinged within 5 minutes is taken.
LookForDb(p) ==
    /\ pc[p] = "dbi"
    /\ \/ ms = Nil /\ GoOn(p, "open") /\ UNCHANGED pinged
       \/ ms # Nil /\ GoOn(p, "ping") /\ pinged' = FALSE
       \/ ms # Nil /\ pinged /\ GoOn(p, "return") /\ UNCHANGED pinged
    /\ UNCHANGED <<driver, app, fields, conns, mutex, handle, closer, refused>>

PingKeepsDb(p) ==
    /\ pc[p] = "ping"
    /\ \/ /\ ms = Nil /\ Panic(p) /\ mutex' = Nil
          /\ UNCHANGED <<state, pinged, refused>>
       \/ /\ ms # Nil /\ state[ms] = "open"
          /\ GoOn(p, "return") /\ pinged' = TRUE
          /\ UNCHANGED <<state, mutex, refused>>
       \/ /\ ms # Nil
          /\ GoOn(p, "open") /\ UNCHANGED state
          /\ refused' = refused \cup IF state[ms] = "open" THEN {"ping"} ELSE {}
          /\ UNCHANGED <<mutex, pinged>>
    /\ UNCHANGED <<driver, app, fields, ready, handle, closer>>

\* The db is closed when it does not answer, also under a call that has got it
\* from db(), and another one opened.
Ping(p) ==
    /\ pc[p] = "ping"
    /\ \/ /\ ms = Nil /\ Panic(p) /\ mutex' = Nil
          /\ UNCHANGED <<state, pinged, refused>>
       \/ /\ ms # Nil /\ state[ms] = "open"
          /\ GoOn(p, "return") /\ pinged' = TRUE
          /\ UNCHANGED <<state, mutex, refused>>
       \/ /\ ms # Nil
          /\ Shut(ms) /\ GoOn(p, "open")
          /\ refused' = refused \cup IF state[ms] = "open" THEN {"ping"} ELSE {}
          /\ UNCHANGED <<mutex, pinged>>
    /\ UNCHANGED <<driver, app, fields, ready, handle, closer>>

OpenDb(p) ==
    /\ pc[p] = "open"
    /\ \/ \E c \in Conns : /\ state[c] = "unused"
                           /\ ms' = c /\ Open(c)
                           /\ GoOn(p, "table") /\ UNCHANGED mutex
       \/ ms' = Nil /\ UNCHANGED state /\ Refused(p) /\ mutex' = Nil
    /\ UNCHANGED <<driver, app, mdb, ready, handle, closer, pinged, refused>>

\* The table is there or is created; when that fails dbi remains.
Table(p) ==
    /\ pc[p] = "table"
    /\ \/ /\ ms = Nil /\ Panic(p) /\ mutex' = Nil
          /\ UNCHANGED <<ready, refused>>
       \/ /\ ms # Nil /\ state[ms] = "closed" /\ Fail(p) /\ mutex' = Nil
          /\ UNCHANGED <<ready, refused>>
       \/ /\ ms # Nil /\ state[ms] = "open" /\ GoOn(p, "return")
          /\ ready' = ready \cup {ms}
          /\ UNCHANGED <<mutex, refused>>
       \/ /\ ms # Nil /\ state[ms] = "open" /\ Refused(p) /\ mutex' = Nil
          /\ refused' = refused \cup {"table"}
          /\ UNCHANGED ready
    /\ UNCHANGED <<driver, app, fields, state, handle, closer, pinged>>

ReturnDb(p) ==
    /\ pc[p] = "return"
    /\ handle' = [handle EXCEPT ![p] = ms]
    /\ mutex' = Nil
    /\ GoOn(p, "op")
    /\ UNCHANGED <<driver, app, fields, conns, closer, pinged, refused>>

\* A db that was closed answers every call with an error.
OpMysql(p) ==
    /\ driver = "mysql" /\ pc[p] = "op"
    /\ IF handle[p] = Nil THEN Panic(p)
       ELSE IF state[handle[p]] = "closed" \/ handle[p] \notin ready
         THEN Fail(p)
         ELSE Succeed(p) \/ Refused(p)
    /\ handle' = [handle EXCEPT ![p] = Nil]
    /\ UNCHANGED <<driver, app, fields, conns, mutex, closer, pinged, refused>>

-----------------------------------------------------------------------------
\* Close, once, at the end of Listen, without the mutex; redis has nothing to close.

CloseStart ==
    /\ closer = "no"
    /\ \/ driver = "redis" /\ closer' = "done" /\ UNCHANGED died
       \/ driver = "mysql" /\ ~app /\ closer' = "done" /\ died' = TRUE     \* m.w is nil
       \/ /\ driver = "mongo" \/ (driver = "mysql" /\ app)
          /\ closer' = IF ms = Nil THEN "done" ELSE "close"
          /\ UNCHANGED died
    /\ UNCHANGED <<driver, app, fields, conns, mutex, pc, handle, pinged, bad, refused>>

CloseConn ==
    /\ closer = "close"
    /\ IF ms = Nil
         THEN died' = TRUE /\ closer' = "done" /\ UNCHANGED state
         ELSE Shut(ms) /\ closer' = "clear" /\ UNCHANGED died
    /\ UNCHANGED <<driver, app, fields, ready, mutex, pc, handle, pinged, bad, refused>>

CloseClearMdb ==
    /\ closer = "clear" /\ driver = "mongo"
    /\ mdb' = Nil
    /\ closer' = "ms"
    /\ UNCHANGED <<driver, app, ms, conns, mutex, pc, handle, pinged, bad, refused, died>>

CloseClear ==
    /\ closer = IF driver = "mongo" THEN "ms" ELSE "clear"
    /\ ms' = Nil
    /\ closer' = "done"
    /\ UNCHANGED <<driver, app, mdb, conns, mutex, pc, handle, pinged, bad, refused, died>>

-----------------------------------------------------------------------------
MongoStep(p) == CheckMongo(p) \/ Dial(p) \/ UseDb(p) \/ Login(p) \/ OpMongo(p)

RedisStep(p) == \/ CheckRedis(p) \/ LookForClient(p) \/ NewClient(p) \/ SetAddr(p)
                \/ Dbsize(p) \/ OpRedis(p)

MysqlStep(p) == \/ Lock(p) \/ LookForDb(p) \/ Ping(p) \/ OpenDb(p) \/ Table(p)
                \/ ReturnDb(p) \/ OpMysql(p)

Step == \/ \E p \in Requests : Call(p) \/ CallRemove(p) \/ Finish(p)
        \/ CallCleanup
        \/ \E p \in Procs : MongoStep(p) \/ RedisStep(p) \/ MysqlStep(p)
        \/ CloseStart \/ CloseConn \/ CloseClearMdb \/ CloseClear

Next == /\ ~died
        /\ Step
        /\ raced' = (raced \/ \E p, q \in Procs : p # q /\ Connecting(p)' /\ InCall(q)')
        /\ disturbed' = (disturbed \/ (closer' # "no" /\ \E p \in Procs : InCall(p)'))

Spec == Init /\ [][Next]_vars

-----------------------------------------------------------------------------
\* Properties.

\* Every variable has its type.
TypeOK ==
    /\ driver \in Drivers /\ app \in BOOLEAN
    /\ ms \in Conns \cup {Nil} /\ mdb \in Conns \cup {Nil}
    /\ state \in [Conns -> {"unused", "open", "closed"}]
    /\ ready \subseteq Conns
    /\ mutex \in Procs \cup {Nil}
    /\ pc \in [Procs -> {"idle", "has", "check", "op", "dial", "db", "login", "client",
                         "newclient", "addr", "dbsize", "dbi", "ping", "open", "table",
                         "return"}]
    /\ handle \in [Procs -> Conns \cup {Nil}]
    /\ closer \in {"no", "close", "clear", "ms", "done"}
    /\ pinged \in BOOLEAN
    /\ bad \subseteq {"error", "panic", "elsewhere"}
    /\ refused \subseteq {"login", "table", "ping"}
    /\ raced \in BOOLEAN /\ disturbed \in BOOLEAN /\ died \in BOOLEAN

Closing == closer # "no"

\* A call of which the server refused nothing fails or panics only beside Close,
\* beside the first connecting of mongo, or after one refusal that the driver does not
\* get over: a login, the table of a db, or a ping, at which mysql closes the db under
\* the other calls.  redis alone answers wrongly, from another server, beside its first
\* connecting.  Errors of Dial, Dbsize, Open and the call itself are over with the call.
CallsSucceed ==
    /\ "error" \in bad =>
         \/ driver = "mongo" /\ (raced \/ "login" \in refused)
         \/ driver = "mysql" /\ (Closing \/ refused # {})
    /\ "panic" \in bad =>
         \/ driver = "mongo" /\ (raced \/ Closing)
         \/ driver = "mysql" /\ Closing
         \/ ~app
    /\ "elsewhere" \in bad => driver = "redis" /\ (raced \/ ~app)

\* With a driver that InitSessionStorage chose, nothing but Close, which may meet
\* the maintenance of sessions or a connection another request drops, ends the
\* process: the maintenance runs from the start on and before the first request.
ProcessSurvives == died => Closing \/ ~app

\* Until Close every open connection is the driver's, and after a Close that no
\* call ran beside none is open; a first connecting of mongo or redis that ran beside
\* a call may lose one.
ConnectionsAreNotLost ==
    ~raced =>
      /\ ~Closing => \A c \in Conns : state[c] = "open" => c = ms
      /\ closer = "done" /\ ~disturbed /\ driver # "redis" =>
           \A c \in Conns : state[c] # "open"
=============================================================================
