------------------------ MODULE StoreConnect_proofs ------------------------
(***************************************************************************)
(* Proofs about StoreConnect: for any number of requests and connections,   *)
(* when a call fails that no server refused, when the process ends, and     *)
(* which connections may be lost.                                           *)
(*                                                                         *)
(* Each driver has an invariant of its own.  That of mysql rests on its     *)
(* mutex (who is in db() has it); those of mongo and redis hold until a     *)
(* call runs beside one that connects (raced), and say what a call relies   *)
(* on that reads a field again which it has checked before.                 *)
(***************************************************************************)
EXTENDS StoreConnect, TLAPS

\* Where the calls of each driver go.
Places ==
  /\ driver = "mongo" =>
       /\ \A p \in Procs : pc[p] \in {"idle", "has", "check", "op", "dial", "db", "login"}
       /\ pc[Routine] \in {"idle", "op"}
  /\ driver = "redis" =>
       /\ \A p \in Procs : pc[p] \in {"idle", "has", "check", "op", "client", "newclient",
                                      "addr", "dbsize"}
       /\ pc[Routine] = "idle" /\ closer \in {"no", "done"}
  /\ driver = "mysql" =>
       \A p \in Procs : pc[p] \in {"idle", "has", "check", "op", "dbi", "ping", "open",
                                   "table", "return"}

\* What the two histories remember.
Alone == ~raced => \A p, q \in Procs : p # q => ~(Connecting(p) /\ InCall(q))
Undisturbed == ~disturbed /\ Closing => \A p \in Procs : ~InCall(p)

\* A Close that no call runs beside closes what is open.
Closes == driver # "redis" /\ ~raced /\ ~disturbed =>
            /\ closer = "close" => \A c \in Conns : state[c] = "open" => c = ms
            /\ closer \in {"clear", "ms", "done"} => \A c \in Conns : state[c] # "open"

InDb(p) == pc[p] \in {"dbi", "ping", "open", "table", "return"}

Locked == driver = "mysql" =>
  /\ \A p \in Procs : InDb(p) => mutex = p
  /\ ~app => ms = Nil /\ \A p \in Procs : ~InDb(p) /\ pc[p] # "op"

MysqlInv == driver = "mysql" /\ ~Closing =>
  /\ \A p \in Procs :
       /\ pc[p] \in {"ping", "table", "return"} => ms # Nil
       /\ pc[p] = "open" => ms = Nil \/ state[ms] = "closed"
       /\ pc[p] = "table" => state[ms] = "open"
       /\ pc[p] = "op" => handle[p] # Nil
  /\ \A c \in Conns : state[c] = "open" => c = ms

MysqlSound == driver = "mysql" /\ ~Closing /\ refused = {} =>
  /\ ms # Nil => state[ms] = "open" /\ (ms \in ready \/ \E p \in Procs : pc[p] = "table")
  /\ \A p \in Procs : handle[p] # Nil => state[handle[p]] = "open" /\ handle[p] \in ready

MongoInv == driver = "mongo" /\ ~Closing =>
  /\ \A c \in Conns : state[c] # "closed"
  /\ mdb # Nil => state[mdb] # "unused"
  /\ ms # Nil => state[ms] # "unused"
  /\ pc[Routine] = "op" => mdb # Nil
  /\ \A p \in Procs : pc[p] = "login" => mdb # Nil

MongoAlone == driver = "mongo" /\ ~Closing /\ ~raced =>
  /\ \A p \in Procs : /\ pc[p] \in {"has", "op"} => mdb # Nil
                      /\ pc[p] = "dial" => ms = Nil
                      /\ pc[p] = "db" => ms # Nil
  /\ ms # Nil /\ mdb = Nil => \E p \in Procs : pc[p] = "db"
  /\ \A c \in Conns : state[c] = "open" => c = ms

MongoSound == driver = "mongo" /\ ~raced /\ "login" \notin refused =>
  (mdb # Nil /\ state[mdb] # "closed" /\ mdb \notin ready => \E p \in Procs : pc[p] = "login")

RedisInv == driver = "redis" =>
  \A p \in Procs : pc[p] \in {"addr", "dbsize", "op", "has"} => ms # Nil

RedisAlone == driver = "redis" /\ ~raced =>
  /\ \A p \in Procs : pc[p] = "newclient" => ms = Nil
  /\ \A c \in Conns : state[c] = "open" => c = ms
  /\ app /\ ms # Nil /\ ms \notin ready => \E p \in Procs : pc[p] = "addr"

\* CallsSucceed and ProcessSurvives, of each driver.
MongoCalls == driver = "mongo" => CallsSucceed /\ ProcessSurvives
RedisCalls == driver = "redis" => CallsSucceed /\ ProcessSurvives
MysqlCalls == driver = "mysql" => CallsSucceed /\ ProcessSurvives

IInv == /\ TypeOK /\ Places /\ Alone /\ Undisturbed /\ Closes
        /\ Locked /\ MysqlInv /\ MysqlSound
        /\ MongoInv /\ MongoAlone /\ MongoSound
        /\ RedisInv /\ RedisAlone
        /\ MongoCalls /\ RedisCalls /\ MysqlCalls

-----------------------------------------------------------------------------
\* What the last two conjuncts of Next say.
Remembers ==
  /\ raced => raced'
  /\ ~raced' => \A p, q \in Procs : p # q => ~(Connecting(p)' /\ InCall(q)')
  /\ disturbed => disturbed'
  /\ ~disturbed' /\ closer' # "no" => \A p \in Procs : ~InCall(p)'
  /\ raced' \in BOOLEAN /\ disturbed' \in BOOLEAN

LEMMA History == Next => Remembers
  BY DEF Next, Remembers

LEMMA DriverStays == Next => UNCHANGED <<driver, app>>
<1>1. Step => UNCHANGED <<driver, app>>
  <2>1. ASSUME NEW p \in Procs, Call(p) \/ CallRemove(p) \/ Finish(p)
        PROVE  UNCHANGED <<driver, app>>
    BY <2>1 DEF Call, CallRemove, Finish
  <2>2. ASSUME NEW p \in Procs, MongoStep(p) PROVE UNCHANGED <<driver, app>>
    BY <2>2 DEF MongoStep, CheckMongo, Dial, UseDb, Login, OpMongo
  <2>3. ASSUME NEW p \in Procs, RedisStep(p) PROVE UNCHANGED <<driver, app>>
    BY <2>3 DEF RedisStep, CheckRedis, LookForClient, NewClient, SetAddr, Dbsize, OpRedis
  <2>4. ASSUME NEW p \in Procs, MysqlStep(p) PROVE UNCHANGED <<driver, app>>
    BY <2>4 DEF MysqlStep, Lock, LookForDb, Ping, OpenDb, Table, ReturnDb, OpMysql
  <2>5. CASE CallCleanup \/ CloseStart \/ CloseConn \/ CloseClearMdb \/ CloseClear
    BY <2>5 DEF CallCleanup, CloseStart, CloseConn, CloseClearMdb, CloseClear
  <2>q. QED  BY <2>1, <2>2, <2>3, <2>4, <2>5 DEF Step, Procs
<1>q. QED  BY <1>1 DEF Next

\* With mongo only its own steps are taken: the others wait at places it does not go to.
LEMMA MongoSteps ==
  ASSUME Places, driver = "mongo", Next
  PROVE  \/ \E p \in Procs : \/ Call(p) \/ CallRemove(p) \/ Finish(p)
                             \/ MongoStep(p)
         \/ CallCleanup \/ CloseStart \/ CloseConn \/ CloseClearMdb \/ CloseClear
<1>1. ASSUME NEW p \in Procs, RedisStep(p) PROVE FALSE
  BY <1>1 DEF Places, RedisStep, CheckRedis, LookForClient, NewClient, SetAddr, Dbsize,
     OpRedis
<1>2. ASSUME NEW p \in Procs, MysqlStep(p) PROVE FALSE
  BY <1>2 DEF Places, MysqlStep, Lock, LookForDb, Ping, OpenDb, Table, ReturnDb, OpMysql
<1>q. QED  BY <1>1, <1>2 DEF Next, Step, Procs

\* With redis only its own steps are taken: the others wait at places it does not go to.
LEMMA RedisSteps ==
  ASSUME Places, driver = "redis", Next
  PROVE  \/ \E p \in Procs : \/ Call(p) \/ CallRemove(p) \/ Finish(p)
                             \/ RedisStep(p)
         \/ CallCleanup \/ CloseStart \/ CloseConn \/ CloseClearMdb \/ CloseClear
<1>1. ASSUME NEW p \in Procs, MongoStep(p) PROVE FALSE
  BY <1>1 DEF Places, MongoStep, CheckMongo, Dial, UseDb, Login, OpMongo
<1>2. ASSUME NEW p \in Procs, MysqlStep(p) PROVE FALSE
  BY <1>2 DEF Places, MysqlStep, Lock, LookForDb, Ping, OpenDb, Table, ReturnDb, OpMysql
<1>q. QED  BY <1>1, <1>2 DEF Next, Step, Procs

\* With mysql only its own steps are taken: the others wait at places it does not go to.
LEMMA MysqlSteps ==
  ASSUME Places, driver = "mysql", Next
  PROVE  \/ \E p \in Procs : \/ Call(p) \/ CallRemove(p) \/ Finish(p)
                             \/ MysqlStep(p)
         \/ CallCleanup \/ CloseStart \/ CloseConn \/ CloseClearMdb \/ CloseClear
<1>1. ASSUME NEW p \in Procs, MongoStep(p) PROVE FALSE
  BY <1>1 DEF Places, MongoStep, CheckMongo, Dial, UseDb, Login, OpMongo
<1>2. ASSUME NEW p \in Procs, RedisStep(p) PROVE FALSE
  BY <1>2 DEF Places, RedisStep, CheckRedis, LookForClient, NewClient, SetAddr, Dbsize,
     OpRedis
<1>q. QED  BY <1>1, <1>2 DEF Next, Step, Procs

\* Every step keeps the types.
LEMMA TypeStep == TypeOK /\ Places /\ RedisInv /\ [Next]_vars => TypeOK'
<1> SUFFICES ASSUME TypeOK, Places, RedisInv, [Next]_vars PROVE TypeOK'
  OBVIOUS
<1>1. CASE UNCHANGED vars
  BY <1>1 DEF TypeOK, Places, RedisInv, Remembers, Procs, vars, fields, conns, history,
     Closing, InCall, Connecting
<1>2. CASE Next
  <2>h. Remembers
    BY <1>2, History
  <2>1. ASSUME NEW p \in Procs, Call(p) PROVE TypeOK'
    BY <2>1, <2>h, ConnectAssumption DEF TypeOK, Places, RedisInv, Remembers, Procs, Call,
       GoOn, Goto, fields, conns
  <2>2. ASSUME NEW p \in Procs, CallRemove(p) PROVE TypeOK'
    BY <2>2, <2>h, ConnectAssumption DEF TypeOK, Places, RedisInv, Remembers, Procs,
       CallRemove, GoOn, Goto, fields, conns
  <2>3. ASSUME NEW p \in Procs, Finish(p) PROVE TypeOK'
    BY <2>3, <2>h, ConnectAssumption DEF TypeOK, Places, RedisInv, Remembers, Procs,
       Finish, GoOn, Goto, fields, conns
  <2>4. CASE CallCleanup
    BY <2>4, <2>h, ConnectAssumption DEF TypeOK, Places, RedisInv, Remembers, Procs,
       CallCleanup, GoOn, Goto, fields, conns
  <2>5. ASSUME NEW p \in Procs, CheckMongo(p) PROVE TypeOK'
    BY <2>5, <2>h, ConnectAssumption DEF TypeOK, Places, RedisInv, Remembers, Procs,
       CheckMongo, GoOn, Panic, Goto, fields, conns
  <2>6. ASSUME NEW p \in Procs, Dial(p) PROVE TypeOK'
    BY <2>6, <2>h, ConnectAssumption DEF TypeOK, Places, RedisInv, Remembers, Procs, Dial,
       Open, GoOn, Refused, Goto, fields, conns
  <2>7. ASSUME NEW p \in Procs, UseDb(p) PROVE TypeOK'
    BY <2>7, <2>h, ConnectAssumption DEF TypeOK, Places, RedisInv, Remembers, Procs,
       UseDb, Panic, GoOn, Goto, fields, conns
  <2>8. ASSUME NEW p \in Procs, Login(p) PROVE TypeOK'
    <3>1. UNCHANGED ready \/ (mdb \in Conns /\ ready' = ready \cup {mdb})
      BY <2>8 DEF Login, Gone, TypeOK
    <3>q. QED
      BY <2>8, <2>h, <3>1 DEF TypeOK, Procs, Remembers, Login, Gone, Panic, GoOn, Refused,
         Goto, fields
  <2>9. ASSUME NEW p \in Procs, OpMongo(p) PROVE TypeOK'
    BY <2>9, <2>h, ConnectAssumption DEF TypeOK, Places, RedisInv, Remembers, Procs,
       OpMongo, Gone, Panic, Fail, Succeed, Refused, Goto, fields, conns
  <2>10. ASSUME NEW p \in Procs, CheckRedis(p) PROVE TypeOK'
    BY <2>10, <2>h, ConnectAssumption DEF TypeOK, Places, RedisInv, Remembers, Procs,
       CheckRedis, GoOn, Goto, fields, conns
  <2>11. ASSUME NEW p \in Procs, LookForClient(p) PROVE TypeOK'
    BY <2>11, <2>h, ConnectAssumption DEF TypeOK, Places, RedisInv, Remembers, Procs,
       LookForClient, GoOn, Goto, fields, conns
  <2>12. ASSUME NEW p \in Procs, NewClient(p) PROVE TypeOK'
    BY <2>12, <2>h, ConnectAssumption DEF TypeOK, Places, RedisInv, Remembers, Procs,
       NewClient, Open, GoOn, Goto, fields, conns
  <2>13. ASSUME NEW p \in Procs, SetAddr(p) PROVE TypeOK'
    <3>1. driver = "redis"
      BY <2>13, ConnectAssumption DEF SetAddr, TypeOK, Places
    <3>2. ms \in Conns
      BY <2>13, <3>1 DEF SetAddr, TypeOK, RedisInv
    <3>q. QED
      BY <2>13, <2>h, <3>2 DEF TypeOK, Procs, Remembers, SetAddr, GoOn, Panic, Goto,
         fields
  <2>14. ASSUME NEW p \in Procs, Dbsize(p) PROVE TypeOK'
    BY <2>14, <2>h, ConnectAssumption DEF TypeOK, Places, RedisInv, Remembers, Procs,
       Dbsize, GoOn, Refused, Goto, fields, conns
  <2>15. ASSUME NEW p \in Procs, OpRedis(p) PROVE TypeOK'
    BY <2>15, <2>h, ConnectAssumption DEF TypeOK, Places, RedisInv, Remembers, Procs,
       OpRedis, Succeed, Refused, Goto, fields, conns
  <2>16. ASSUME NEW p \in Procs, Lock(p) PROVE TypeOK'
    BY <2>16, <2>h, ConnectAssumption DEF TypeOK, Places, RedisInv, Remembers, Procs,
       Lock, GoOn, Panic, Goto, fields, conns
  <2>17. ASSUME NEW p \in Procs, LookForDb(p) PROVE TypeOK'
    BY <2>17, <2>h, ConnectAssumption DEF TypeOK, Places, RedisInv, Remembers, Procs,
       LookForDb, GoOn, Goto, fields, conns
  <2>18. ASSUME NEW p \in Procs, Ping(p) PROVE TypeOK'
    BY <2>18, <2>h, ConnectAssumption DEF TypeOK, Places, RedisInv, Remembers, Procs,
       Ping, Panic, GoOn, Shut, Goto, fields, conns
  <2>19. ASSUME NEW p \in Procs, OpenDb(p) PROVE TypeOK'
    BY <2>19, <2>h, ConnectAssumption DEF TypeOK, Places, RedisInv, Remembers, Procs,
       OpenDb, Open, GoOn, Refused, Goto, fields, conns
  <2>20. ASSUME NEW p \in Procs, Table(p) PROVE TypeOK'
    BY <2>20, <2>h, ConnectAssumption DEF TypeOK, Places, RedisInv, Remembers, Procs,
       Table, Panic, Fail, GoOn, Refused, Goto, fields, conns
  <2>21. ASSUME NEW p \in Procs, ReturnDb(p) PROVE TypeOK'
    BY <2>21, <2>h, ConnectAssumption DEF TypeOK, Places, RedisInv, Remembers, Procs,
       ReturnDb, GoOn, Goto, fields, conns
  <2>22. ASSUME NEW p \in Procs, OpMysql(p) PROVE TypeOK'
    BY <2>22, <2>h, ConnectAssumption DEF TypeOK, Places, RedisInv, Remembers, Procs,
       OpMysql, Panic, Fail, Succeed, Refused, Goto, fields, conns
  <2>23. CASE CloseStart
    BY <2>23, <2>h, ConnectAssumption DEF TypeOK, Places, RedisInv, Remembers, Procs,
       CloseStart, Goto, fields, conns
  <2>24. CASE CloseConn
    BY <2>24, <2>h, ConnectAssumption DEF TypeOK, Places, RedisInv, Remembers, Procs,
       CloseConn, Shut, Goto, fields, conns
  <2>25. CASE CloseClearMdb
    BY <2>25, <2>h, ConnectAssumption DEF TypeOK, Places, RedisInv, Remembers, Procs,
       CloseClearMdb, Goto, fields, conns
  <2>26. CASE CloseClear
    BY <2>26, <2>h, ConnectAssumption DEF TypeOK, Places, RedisInv, Remembers, Procs,
       CloseClear, Goto, fields, conns
  <2>q. QED
    BY <1>2, <2>1, <2>2, <2>3, <2>4, <2>5, <2>6, <2>7, <2>8, <2>9, <2>10, <2>11, <2>12,
       <2>13, <2>14, <2>15, <2>16, <2>17, <2>18, <2>19, <2>20, <2>21, <2>22, <2>23, <2>24,
       <2>25, <2>26 DEF Next, Step, MongoStep, RedisStep, MysqlStep, Procs
<1>q. QED  BY <1>1, <1>2

\* Calls stay where their driver's go.
LEMMA PlacesStep == TypeOK /\ Places /\ [Next]_vars => Places'
<1> SUFFICES ASSUME TypeOK, Places, [Next]_vars PROVE Places'
  OBVIOUS
<1>1. CASE UNCHANGED vars
  BY <1>1 DEF Places, TypeOK, Procs, vars, fields, conns, history, Closing, InCall,
     Connecting
<1>2. CASE Next
  <2>h. Remembers
    BY <1>2, History
  <2>1. ASSUME NEW p \in Procs, Call(p) PROVE Places'
    BY <2>1, <2>h, ConnectAssumption DEF TypeOK, Places, Procs, Call, GoOn, Goto, fields,
       conns
  <2>2. ASSUME NEW p \in Procs, CallRemove(p) PROVE Places'
    BY <2>2, <2>h, ConnectAssumption DEF TypeOK, Places, Procs, CallRemove, GoOn, Goto,
       fields, conns
  <2>3. ASSUME NEW p \in Procs, Finish(p) PROVE Places'
    BY <2>3, <2>h, ConnectAssumption DEF TypeOK, Places, Procs, Finish, GoOn, Goto,
       fields, conns
  <2>4. CASE CallCleanup
    BY <2>4, <2>h, ConnectAssumption DEF TypeOK, Places, Procs, CallCleanup, GoOn, Goto,
       fields, conns
  <2>5. ASSUME NEW p \in Procs, CheckMongo(p) PROVE Places'
    BY <2>5, <2>h, ConnectAssumption DEF TypeOK, Places, Procs, CheckMongo, GoOn, Panic,
       Goto, fields, conns
  <2>6. ASSUME NEW p \in Procs, Dial(p) PROVE Places'
    BY <2>6, <2>h, ConnectAssumption DEF TypeOK, Places, Procs, Dial, Open, GoOn, Refused,
       Goto, fields, conns
  <2>7. ASSUME NEW p \in Procs, UseDb(p) PROVE Places'
    BY <2>7, <2>h, ConnectAssumption DEF TypeOK, Places, Procs, UseDb, Panic, GoOn, Goto,
       fields, conns
  <2>8. ASSUME NEW p \in Procs, Login(p) PROVE Places'
    BY <2>8, <2>h, ConnectAssumption DEF TypeOK, Places, Procs, Login, Gone, Panic, GoOn,
       Refused, Goto, fields, conns
  <2>9. ASSUME NEW p \in Procs, OpMongo(p) PROVE Places'
    BY <2>9, <2>h, ConnectAssumption DEF TypeOK, Places, Procs, OpMongo, Gone, Panic,
       Fail, Succeed, Refused, Goto, fields, conns
  <2>10. ASSUME NEW p \in Procs, CheckRedis(p) PROVE Places'
    BY <2>10, <2>h, ConnectAssumption DEF TypeOK, Places, Procs, CheckRedis, GoOn, Goto,
       fields, conns
  <2>11. ASSUME NEW p \in Procs, LookForClient(p) PROVE Places'
    BY <2>11, <2>h, ConnectAssumption DEF TypeOK, Places, Procs, LookForClient, GoOn,
       Goto, fields, conns
  <2>12. ASSUME NEW p \in Procs, NewClient(p) PROVE Places'
    BY <2>12, <2>h, ConnectAssumption DEF TypeOK, Places, Procs, NewClient, Open, GoOn,
       Goto, fields, conns
  <2>13. ASSUME NEW p \in Procs, SetAddr(p) PROVE Places'
    BY <2>13, <2>h, ConnectAssumption DEF TypeOK, Places, Procs, SetAddr, GoOn, Panic,
       Goto, fields, conns
  <2>14. ASSUME NEW p \in Procs, Dbsize(p) PROVE Places'
    BY <2>14, <2>h, ConnectAssumption DEF TypeOK, Places, Procs, Dbsize, GoOn, Refused,
       Goto, fields, conns
  <2>15. ASSUME NEW p \in Procs, OpRedis(p) PROVE Places'
    BY <2>15, <2>h, ConnectAssumption DEF TypeOK, Places, Procs, OpRedis, Succeed,
       Refused, Goto, fields, conns
  <2>16. ASSUME NEW p \in Procs, Lock(p) PROVE Places'
    BY <2>16, <2>h, ConnectAssumption DEF TypeOK, Places, Procs, Lock, GoOn, Panic, Goto,
       fields, conns
  <2>17. ASSUME NEW p \in Procs, LookForDb(p) PROVE Places'
    BY <2>17, <2>h, ConnectAssumption DEF TypeOK, Places, Procs, LookForDb, GoOn, Goto,
       fields, conns
  <2>18. ASSUME NEW p \in Procs, Ping(p) PROVE Places'
    BY <2>18, <2>h, ConnectAssumption DEF TypeOK, Places, Procs, Ping, Panic, GoOn, Shut,
       Goto, fields, conns
  <2>19. ASSUME NEW p \in Procs, OpenDb(p) PROVE Places'
    BY <2>19, <2>h, ConnectAssumption DEF TypeOK, Places, Procs, OpenDb, Open, GoOn,
       Refused, Goto, fields, conns
  <2>20. ASSUME NEW p \in Procs, Table(p) PROVE Places'
    BY <2>20, <2>h, ConnectAssumption DEF TypeOK, Places, Procs, Table, Panic, Fail, GoOn,
       Refused, Goto, fields, conns
  <2>21. ASSUME NEW p \in Procs, ReturnDb(p) PROVE Places'
    BY <2>21, <2>h, ConnectAssumption DEF TypeOK, Places, Procs, ReturnDb, GoOn, Goto,
       fields, conns
  <2>22. ASSUME NEW p \in Procs, OpMysql(p) PROVE Places'
    BY <2>22, <2>h, ConnectAssumption DEF TypeOK, Places, Procs, OpMysql, Panic, Fail,
       Succeed, Refused, Goto, fields, conns
  <2>23. CASE CloseStart
    BY <2>23, <2>h, ConnectAssumption DEF TypeOK, Places, Procs, CloseStart, Goto, fields,
       conns
  <2>24. CASE CloseConn
    BY <2>24, <2>h, ConnectAssumption DEF TypeOK, Places, Procs, CloseConn, Shut, Goto,
       fields, conns
  <2>25. CASE CloseClearMdb
    BY <2>25, <2>h, ConnectAssumption DEF TypeOK, Places, Procs, CloseClearMdb, Goto,
       fields, conns
  <2>26. CASE CloseClear
    BY <2>26, <2>h, ConnectAssumption DEF TypeOK, Places, Procs, CloseClear, Goto, fields,
       conns
  <2>q. QED
    BY <1>2, <2>1, <2>2, <2>3, <2>4, <2>5, <2>6, <2>7, <2>8, <2>9, <2>10, <2>11, <2>12,
       <2>13, <2>14, <2>15, <2>16, <2>17, <2>18, <2>19, <2>20, <2>21, <2>22, <2>23, <2>24,
       <2>25, <2>26 DEF Next, Step, MongoStep, RedisStep, MysqlStep, Procs
<1>q. QED  BY <1>1, <1>2

\* db() runs under the mutex.
LEMMA LockedStep == TypeOK /\ Places /\ Locked /\ [Next]_vars => Locked'
<1> SUFFICES ASSUME TypeOK, Places, Locked, [Next]_vars PROVE Locked'
  OBVIOUS
<1>1. CASE UNCHANGED vars
  BY <1>1 DEF Locked, TypeOK, Places, InDb, Procs, vars, fields, conns, history, Closing,
     InCall, Connecting
<1>2. CASE Next
  <2>0. SUFFICES ASSUME driver = "mysql" PROVE Locked'
    BY <1>2, DriverStays DEF Locked
  <2>h. Remembers
    BY <1>2, History
  <2>1. ASSUME NEW p \in Procs, Call(p) PROVE Locked'
    BY <2>0, <2>1, <2>h, ConnectAssumption DEF TypeOK, Locked, Places, InDb, Procs, Call,
       GoOn, Goto, fields, conns
  <2>2. ASSUME NEW p \in Procs, CallRemove(p) PROVE Locked'
    BY <2>0, <2>2, <2>h, ConnectAssumption DEF TypeOK, Locked, Places, InDb, Procs,
       CallRemove, GoOn, Goto, fields, conns
  <2>3. ASSUME NEW p \in Procs, Finish(p) PROVE Locked'
    BY <2>0, <2>3, <2>h, ConnectAssumption DEF TypeOK, Locked, Places, InDb, Procs,
       Finish, GoOn, Goto, fields, conns
  <2>4. CASE CallCleanup
    BY <2>0, <2>4, <2>h, ConnectAssumption DEF TypeOK, Locked, Places, InDb, Procs,
       CallCleanup, GoOn, Goto, fields, conns
  <2>5. ASSUME NEW p \in Procs, Lock(p) PROVE Locked'
    BY <2>0, <2>5, <2>h, ConnectAssumption DEF TypeOK, Locked, Places, InDb, Procs, Lock,
       GoOn, Panic, Goto, fields, conns
  <2>6. ASSUME NEW p \in Procs, LookForDb(p) PROVE Locked'
    BY <2>0, <2>6, <2>h, ConnectAssumption DEF TypeOK, Locked, Places, InDb, Procs,
       LookForDb, GoOn, Goto, fields, conns
  <2>7. ASSUME NEW p \in Procs, Ping(p) PROVE Locked'
    BY <2>0, <2>7, <2>h, ConnectAssumption DEF TypeOK, Locked, Places, InDb, Procs, Ping,
       Panic, GoOn, Shut, Goto, fields, conns
  <2>8. ASSUME NEW p \in Procs, OpenDb(p) PROVE Locked'
    BY <2>0, <2>8, <2>h, ConnectAssumption DEF TypeOK, Locked, Places, InDb, Procs,
       OpenDb, Open, GoOn, Refused, Goto, fields, conns
  <2>9. ASSUME NEW p \in Procs, Table(p) PROVE Locked'
    BY <2>0, <2>9, <2>h, ConnectAssumption DEF TypeOK, Locked, Places, InDb, Procs, Table,
       Panic, Fail, GoOn, Refused, Goto, fields, conns
  <2>10. ASSUME NEW p \in Procs, ReturnDb(p) PROVE Locked'
    BY <2>0, <2>10, <2>h, ConnectAssumption DEF TypeOK, Locked, Places, InDb, Procs,
       ReturnDb, GoOn, Goto, fields, conns
  <2>11. ASSUME NEW p \in Procs, OpMysql(p) PROVE Locked'
    BY <2>0, <2>11, <2>h, ConnectAssumption DEF TypeOK, Locked, Places, InDb, Procs,
       OpMysql, Panic, Fail, Succeed, Refused, Goto, fields, conns
  <2>12. CASE CloseStart
    BY <2>0, <2>12, <2>h, ConnectAssumption DEF TypeOK, Locked, Places, InDb, Procs,
       CloseStart, Goto, fields, conns
  <2>13. CASE CloseConn
    BY <2>0, <2>13, <2>h, ConnectAssumption DEF TypeOK, Locked, Places, InDb, Procs,
       CloseConn, Shut, Goto, fields, conns
  <2>14. CASE CloseClearMdb
    BY <2>0, <2>14, <2>h, ConnectAssumption DEF TypeOK, Locked, Places, InDb, Procs,
       CloseClearMdb, Goto, fields, conns
  <2>15. CASE CloseClear
    BY <2>0, <2>15, <2>h, ConnectAssumption DEF TypeOK, Locked, Places, InDb, Procs,
       CloseClear, Goto, fields, conns
  <2>q. QED
    BY <1>2, <2>0, MysqlSteps, <2>1, <2>2, <2>3, <2>4, <2>5, <2>6, <2>7, <2>8, <2>9,
       <2>10, <2>11, <2>12, <2>13, <2>14, <2>15 DEF MysqlStep, Procs
<1>q. QED  BY <1>1, <1>2

\* Until Close dbi is what the call in db() made of it.
LEMMA MysqlStepInv == TypeOK /\ Places /\ Locked /\ MysqlInv /\ [Next]_vars => MysqlInv'
<1> SUFFICES ASSUME TypeOK, Places, Locked, MysqlInv, [Next]_vars PROVE MysqlInv'
  OBVIOUS
<1>1. CASE UNCHANGED vars
  BY <1>1 DEF MysqlInv, TypeOK, Places, Locked, InDb, Closing, Procs, vars, fields, conns,
     history, InCall, Connecting
<1>2. CASE Next
  <2>0. SUFFICES ASSUME driver = "mysql" PROVE MysqlInv'
    BY <1>2, DriverStays DEF MysqlInv
  <2>h. Remembers
    BY <1>2, History
  <2>1. ASSUME NEW p \in Procs, Call(p) PROVE MysqlInv'
    BY <2>0, <2>1, <2>h, ConnectAssumption DEF TypeOK, MysqlInv, Places, Locked, InDb,
       Closing, Procs, Call, GoOn, Goto, fields, conns
  <2>2. ASSUME NEW p \in Procs, CallRemove(p) PROVE MysqlInv'
    BY <2>0, <2>2, <2>h, ConnectAssumption DEF TypeOK, MysqlInv, Places, Locked, InDb,
       Closing, Procs, CallRemove, GoOn, Goto, fields, conns
  <2>3. ASSUME NEW p \in Procs, Finish(p) PROVE MysqlInv'
    BY <2>0, <2>3, <2>h, ConnectAssumption DEF TypeOK, MysqlInv, Places, Locked, InDb,
       Closing, Procs, Finish, GoOn, Goto, fields, conns
  <2>4. CASE CallCleanup
    BY <2>0, <2>4, <2>h, ConnectAssumption DEF TypeOK, MysqlInv, Places, Locked, InDb,
       Closing, Procs, CallCleanup, GoOn, Goto, fields, conns
  <2>5. ASSUME NEW p \in Procs, Lock(p) PROVE MysqlInv'
    BY <2>0, <2>5, <2>h, ConnectAssumption DEF TypeOK, MysqlInv, Places, Locked, InDb,
       Closing, Procs, Lock, GoOn, Panic, Goto, fields, conns
  <2>6. ASSUME NEW p \in Procs, LookForDb(p) PROVE MysqlInv'
    BY <2>0, <2>6, <2>h, ConnectAssumption DEF TypeOK, MysqlInv, Places, Locked, InDb,
       Closing, Procs, LookForDb, GoOn, Goto, fields, conns
  <2>7. ASSUME NEW p \in Procs, Ping(p) PROVE MysqlInv'
    BY <2>0, <2>7, <2>h, ConnectAssumption DEF TypeOK, MysqlInv, Places, Locked, InDb,
       Closing, Procs, Ping, Panic, GoOn, Shut, Goto, fields, conns
  <2>8. ASSUME NEW p \in Procs, OpenDb(p) PROVE MysqlInv'
    BY <2>0, <2>8, <2>h, ConnectAssumption DEF TypeOK, MysqlInv, Places, Locked, InDb,
       Closing, Procs, OpenDb, Open, GoOn, Refused, Goto, fields, conns
  <2>9. ASSUME NEW p \in Procs, Table(p) PROVE MysqlInv'
    BY <2>0, <2>9, <2>h, ConnectAssumption DEF TypeOK, MysqlInv, Places, Locked, InDb,
       Closing, Procs, Table, Panic, Fail, GoOn, Refused, Goto, fields, conns
  <2>10. ASSUME NEW p \in Procs, ReturnDb(p) PROVE MysqlInv'
    BY <2>0, <2>10, <2>h, ConnectAssumption DEF TypeOK, MysqlInv, Places, Locked, InDb,
       Closing, Procs, ReturnDb, GoOn, Goto, fields, conns
  <2>11. ASSUME NEW p \in Procs, OpMysql(p) PROVE MysqlInv'
    BY <2>0, <2>11, <2>h, ConnectAssumption DEF TypeOK, MysqlInv, Places, Locked, InDb,
       Closing, Procs, OpMysql, Panic, Fail, Succeed, Refused, Goto, fields, conns
  <2>12. CASE CloseStart
    BY <2>0, <2>12, <2>h, ConnectAssumption DEF TypeOK, MysqlInv, Places, Locked, InDb,
       Closing, Procs, CloseStart, Goto, fields, conns
  <2>13. CASE CloseConn
    BY <2>0, <2>13, <2>h, ConnectAssumption DEF TypeOK, MysqlInv, Places, Locked, InDb,
       Closing, Procs, CloseConn, Shut, Goto, fields, conns
  <2>14. CASE CloseClearMdb
    BY <2>0, <2>14, <2>h, ConnectAssumption DEF TypeOK, MysqlInv, Places, Locked, InDb,
       Closing, Procs, CloseClearMdb, Goto, fields, conns
  <2>15. CASE CloseClear
    BY <2>0, <2>15, <2>h, ConnectAssumption DEF TypeOK, MysqlInv, Places, Locked, InDb,
       Closing, Procs, CloseClear, Goto, fields, conns
  <2>q. QED
    BY <1>2, <2>0, MysqlSteps, <2>1, <2>2, <2>3, <2>4, <2>5, <2>6, <2>7, <2>8, <2>9,
       <2>10, <2>11, <2>12, <2>13, <2>14, <2>15 DEF MysqlStep, Procs
<1>q. QED  BY <1>1, <1>2

\* Without a refusal dbi and every handle are open and have the table.
LEMMA MysqlSoundStep == TypeOK /\ Places /\ Locked /\ MysqlInv /\ MysqlSound /\
    [Next]_vars => MysqlSound'
<1> SUFFICES ASSUME TypeOK, Places, Locked, MysqlInv, MysqlSound, [Next]_vars PROVE
    MysqlSound'
  OBVIOUS
<1>1. CASE UNCHANGED vars
  BY <1>1 DEF MysqlSound, TypeOK, Places, Locked, MysqlInv, InDb, Closing, Procs, vars,
     fields, conns, history, InCall, Connecting
<1>2. CASE Next
  <2>0. SUFFICES ASSUME driver = "mysql" PROVE MysqlSound'
    BY <1>2, DriverStays DEF MysqlSound
  <2>h. Remembers
    BY <1>2, History
  <2>1. ASSUME NEW p \in Procs, Call(p) PROVE MysqlSound'
    BY <2>0, <2>1, <2>h, ConnectAssumption DEF TypeOK, MysqlSound, Places, Locked,
       MysqlInv, InDb, Closing, Procs, Call, GoOn, Goto, fields, conns
  <2>2. ASSUME NEW p \in Procs, CallRemove(p) PROVE MysqlSound'
    BY <2>0, <2>2, <2>h, ConnectAssumption DEF TypeOK, MysqlSound, Places, Locked,
       MysqlInv, InDb, Closing, Procs, CallRemove, GoOn, Goto, fields, conns
  <2>3. ASSUME NEW p \in Procs, Finish(p) PROVE MysqlSound'
    BY <2>0, <2>3, <2>h, ConnectAssumption DEF TypeOK, MysqlSound, Places, Locked,
       MysqlInv, InDb, Closing, Procs, Finish, GoOn, Goto, fields, conns
  <2>4. CASE CallCleanup
    BY <2>0, <2>4, <2>h, ConnectAssumption DEF TypeOK, MysqlSound, Places, Locked,
       MysqlInv, InDb, Closing, Procs, CallCleanup, GoOn, Goto, fields, conns
  <2>5. ASSUME NEW p \in Procs, Lock(p) PROVE MysqlSound'
    BY <2>0, <2>5, <2>h, ConnectAssumption DEF TypeOK, MysqlSound, Places, Locked,
       MysqlInv, InDb, Closing, Procs, Lock, GoOn, Panic, Goto, fields, conns
  <2>6. ASSUME NEW p \in Procs, LookForDb(p) PROVE MysqlSound'
    BY <2>0, <2>6, <2>h, ConnectAssumption DEF TypeOK, MysqlSound, Places, Locked,
       MysqlInv, InDb, Closing, Procs, LookForDb, GoOn, Goto, fields, conns
  <2>7. ASSUME NEW p \in Procs, Ping(p) PROVE MysqlSound'
    BY <2>0, <2>7, <2>h, ConnectAssumption DEF TypeOK, MysqlSound, Places, Locked,
       MysqlInv, InDb, Closing, Procs, Ping, Panic, GoOn, Shut, Goto, fields, conns
  <2>8. ASSUME NEW p \in Procs, OpenDb(p) PROVE MysqlSound'
    BY <2>0, <2>8, <2>h, ConnectAssumption DEF TypeOK, MysqlSound, Places, Locked,
       MysqlInv, InDb, Closing, Procs, OpenDb, Open, GoOn, Refused, Goto, fields, conns
  <2>9. ASSUME NEW p \in Procs, Table(p) PROVE MysqlSound'
    BY <2>0, <2>9, <2>h, ConnectAssumption DEF TypeOK, MysqlSound, Places, Locked,
       MysqlInv, InDb, Closing, Procs, Table, Panic, Fail, GoOn, Refused, Goto, fields,
       conns
  <2>10. ASSUME NEW p \in Procs, ReturnDb(p) PROVE MysqlSound'
    BY <2>0, <2>10, <2>h, ConnectAssumption DEF TypeOK, MysqlSound, Places, Locked,
       MysqlInv, InDb, Closing, Procs, ReturnDb, GoOn, Goto, fields, conns
  <2>11. ASSUME NEW p \in Procs, OpMysql(p) PROVE MysqlSound'
    BY <2>0, <2>11, <2>h, ConnectAssumption DEF TypeOK, MysqlSound, Places, Locked,
       MysqlInv, InDb, Closing, Procs, OpMysql, Panic, Fail, Succeed, Refused, Goto,
       fields, conns
  <2>12. CASE CloseStart
    BY <2>0, <2>12, <2>h, ConnectAssumption DEF TypeOK, MysqlSound, Places, Locked,
       MysqlInv, InDb, Closing, Procs, CloseStart, Goto, fields, conns
  <2>13. CASE CloseConn
    BY <2>0, <2>13, <2>h, ConnectAssumption DEF TypeOK, MysqlSound, Places, Locked,
       MysqlInv, InDb, Closing, Procs, CloseConn, Shut, Goto, fields, conns
  <2>14. CASE CloseClearMdb
    BY <2>0, <2>14, <2>h, ConnectAssumption DEF TypeOK, MysqlSound, Places, Locked,
       MysqlInv, InDb, Closing, Procs, CloseClearMdb, Goto, fields, conns
  <2>15. CASE CloseClear
    BY <2>0, <2>15, <2>h, ConnectAssumption DEF TypeOK, MysqlSound, Places, Locked,
       MysqlInv, InDb, Closing, Procs, CloseClear, Goto, fields, conns
  <2>q. QED
    BY <1>2, <2>0, MysqlSteps, <2>1, <2>2, <2>3, <2>4, <2>5, <2>6, <2>7, <2>8, <2>9,
       <2>10, <2>11, <2>12, <2>13, <2>14, <2>15 DEF MysqlStep, Procs
<1>q. QED  BY <1>1, <1>2

\* Until Close nothing of mongo is closed.
LEMMA MongoStepInv == TypeOK /\ Places /\ MongoInv /\ [Next]_vars => MongoInv'
<1> SUFFICES ASSUME TypeOK, Places, MongoInv, [Next]_vars PROVE MongoInv'
  OBVIOUS
<1>1. CASE UNCHANGED vars
  BY <1>1 DEF MongoInv, TypeOK, Places, Closing, Gone, Procs, vars, fields, conns,
     history, InCall, Connecting
<1>2. CASE Next
  <2>0. SUFFICES ASSUME driver = "mongo" PROVE MongoInv'
    BY <1>2, DriverStays DEF MongoInv
  <2>h. Remembers
    BY <1>2, History
  <2>1. ASSUME NEW p \in Procs, Call(p) PROVE MongoInv'
    BY <2>0, <2>1, <2>h, ConnectAssumption DEF TypeOK, MongoInv, Places, Closing, Gone,
       Procs, Call, GoOn, Goto, fields, conns
  <2>2. ASSUME NEW p \in Procs, CallRemove(p) PROVE MongoInv'
    BY <2>0, <2>2, <2>h, ConnectAssumption DEF TypeOK, MongoInv, Places, Closing, Gone,
       Procs, CallRemove, GoOn, Goto, fields, conns
  <2>3. ASSUME NEW p \in Procs, Finish(p) PROVE MongoInv'
    BY <2>0, <2>3, <2>h, ConnectAssumption DEF TypeOK, MongoInv, Places, Closing, Gone,
       Procs, Finish, GoOn, Goto, fields, conns
  <2>4. CASE CallCleanup
    BY <2>0, <2>4, <2>h, ConnectAssumption DEF TypeOK, MongoInv, Places, Closing, Gone,
       Procs, CallCleanup, GoOn, Goto, fields, conns
  <2>5. ASSUME NEW p \in Procs, CheckMongo(p) PROVE MongoInv'
    BY <2>0, <2>5, <2>h, ConnectAssumption DEF TypeOK, MongoInv, Places, Closing, Gone,
       Procs, CheckMongo, GoOn, Panic, Goto, fields, conns
  <2>6. ASSUME NEW p \in Procs, Dial(p) PROVE MongoInv'
    BY <2>0, <2>6, <2>h, ConnectAssumption DEF TypeOK, MongoInv, Places, Closing, Gone,
       Procs, Dial, Open, GoOn, Refused, Goto, fields, conns
  <2>7. ASSUME NEW p \in Procs, UseDb(p) PROVE MongoInv'
    BY <2>0, <2>7, <2>h, ConnectAssumption DEF TypeOK, MongoInv, Places, Closing, Gone,
       Procs, UseDb, Panic, GoOn, Goto, fields, conns
  <2>8. ASSUME NEW p \in Procs, Login(p) PROVE MongoInv'
    BY <2>0, <2>8, <2>h, ConnectAssumption DEF TypeOK, MongoInv, Places, Closing, Gone,
       Procs, Login, Panic, GoOn, Refused, Goto, fields, conns
  <2>9. ASSUME NEW p \in Procs, OpMongo(p) PROVE MongoInv'
    BY <2>0, <2>9, <2>h, ConnectAssumption DEF TypeOK, MongoInv, Places, Closing, Gone,
       Procs, OpMongo, Panic, Fail, Succeed, Refused, Goto, fields, conns
  <2>10. CASE CloseStart
    BY <2>0, <2>10, <2>h, ConnectAssumption DEF TypeOK, MongoInv, Places, Closing, Gone,
       Procs, CloseStart, Goto, fields, conns
  <2>11. CASE CloseConn
    BY <2>0, <2>11, <2>h, ConnectAssumption DEF TypeOK, MongoInv, Places, Closing, Gone,
       Procs, CloseConn, Shut, Goto, fields, conns
  <2>12. CASE CloseClearMdb
    BY <2>0, <2>12, <2>h, ConnectAssumption DEF TypeOK, MongoInv, Places, Closing, Gone,
       Procs, CloseClearMdb, Goto, fields, conns
  <2>13. CASE CloseClear
    BY <2>0, <2>13, <2>h, ConnectAssumption DEF TypeOK, MongoInv, Places, Closing, Gone,
       Procs, CloseClear, Goto, fields, conns
  <2>q. QED
    BY <1>2, <2>0, MongoSteps, <2>1, <2>2, <2>3, <2>4, <2>5, <2>6, <2>7, <2>8, <2>9,
       <2>10, <2>11, <2>12, <2>13 DEF MongoStep, Procs
<1>q. QED  BY <1>1, <1>2

\* A mongo connection that is made alone is made whole.
LEMMA MongoAloneStep == TypeOK /\ Places /\ Alone /\ MongoInv /\ MongoAlone /\ [Next]_vars
    => MongoAlone'
<1> SUFFICES ASSUME TypeOK, Places, Alone, MongoInv, MongoAlone, [Next]_vars PROVE
    MongoAlone'
  OBVIOUS
<1>1. CASE UNCHANGED vars
  BY <1>1 DEF MongoAlone, TypeOK, Places, Alone, MongoInv, Closing, Gone, Remembers,
     InCall, Connecting, Procs, vars, fields, conns, history
<1>2. CASE Next
  <2>0. SUFFICES ASSUME driver = "mongo" PROVE MongoAlone'
    BY <1>2, DriverStays DEF MongoAlone
  <2>h. Remembers
    BY <1>2, History
  <2>1. ASSUME NEW p \in Procs, Call(p) PROVE MongoAlone'
    BY <2>0, <2>1, <2>h, ConnectAssumption DEF TypeOK, MongoAlone, Places, Alone,
       MongoInv, Closing, Gone, Remembers, InCall, Connecting, Procs, Call, GoOn, Goto,
       fields, conns
  <2>2. ASSUME NEW p \in Procs, CallRemove(p) PROVE MongoAlone'
    BY <2>0, <2>2, <2>h, ConnectAssumption DEF TypeOK, MongoAlone, Places, Alone,
       MongoInv, Closing, Gone, Remembers, InCall, Connecting, Procs, CallRemove, GoOn,
       Goto, fields, conns
  <2>3. ASSUME NEW p \in Procs, Finish(p) PROVE MongoAlone'
    BY <2>0, <2>3, <2>h, ConnectAssumption DEF TypeOK, MongoAlone, Places, Alone,
       MongoInv, Closing, Gone, Remembers, InCall, Connecting, Procs, Finish, GoOn, Goto,
       fields, conns
  <2>4. CASE CallCleanup
    BY <2>0, <2>4, <2>h, ConnectAssumption DEF TypeOK, MongoAlone, Places, Alone,
       MongoInv, Closing, Gone, Remembers, InCall, Connecting, Procs, CallCleanup, GoOn,
       Goto, fields, conns
  <2>5. ASSUME NEW p \in Procs, CheckMongo(p) PROVE MongoAlone'
    BY <2>0, <2>5, <2>h, ConnectAssumption DEF TypeOK, MongoAlone, Places, Alone,
       MongoInv, Closing, Gone, Remembers, InCall, Connecting, Procs, CheckMongo, GoOn,
       Panic, Goto, fields, conns
  <2>6. ASSUME NEW p \in Procs, Dial(p) PROVE MongoAlone'
    BY <2>0, <2>6, <2>h, ConnectAssumption DEF TypeOK, MongoAlone, Places, Alone,
       MongoInv, Closing, Gone, Remembers, InCall, Connecting, Procs, Dial, Open, GoOn,
       Refused, Goto, fields, conns
  <2>7. ASSUME NEW p \in Procs, UseDb(p) PROVE MongoAlone'
    BY <2>0, <2>7, <2>h, ConnectAssumption DEF TypeOK, MongoAlone, Places, Alone,
       MongoInv, Closing, Gone, Remembers, InCall, Connecting, Procs, UseDb, Panic, GoOn,
       Goto, fields, conns
  <2>8. ASSUME NEW p \in Procs, Login(p) PROVE MongoAlone'
    BY <2>0, <2>8, <2>h, ConnectAssumption DEF TypeOK, MongoAlone, Places, Alone,
       MongoInv, Closing, Gone, Remembers, InCall, Connecting, Procs, Login, Panic, GoOn,
       Refused, Goto, fields, conns
  <2>9. ASSUME NEW p \in Procs, OpMongo(p) PROVE MongoAlone'
    BY <2>0, <2>9, <2>h, ConnectAssumption DEF TypeOK, MongoAlone, Places, Alone,
       MongoInv, Closing, Gone, Remembers, InCall, Connecting, Procs, OpMongo, Panic,
       Fail, Succeed, Refused, Goto, fields, conns
  <2>10. CASE CloseStart
    BY <2>0, <2>10, <2>h, ConnectAssumption DEF TypeOK, MongoAlone, Places, Alone,
       MongoInv, Closing, Gone, Remembers, InCall, Connecting, Procs, CloseStart, Goto,
       fields, conns
  <2>11. CASE CloseConn
    BY <2>0, <2>11, <2>h, ConnectAssumption DEF TypeOK, MongoAlone, Places, Alone,
       MongoInv, Closing, Gone, Remembers, InCall, Connecting, Procs, CloseConn, Shut,
       Goto, fields, conns
  <2>12. CASE CloseClearMdb
    BY <2>0, <2>12, <2>h, ConnectAssumption DEF TypeOK, MongoAlone, Places, Alone,
       MongoInv, Closing, Gone, Remembers, InCall, Connecting, Procs, CloseClearMdb, Goto,
       fields, conns
  <2>13. CASE CloseClear
    BY <2>0, <2>13, <2>h, ConnectAssumption DEF TypeOK, MongoAlone, Places, Alone,
       MongoInv, Closing, Gone, Remembers, InCall, Connecting, Procs, CloseClear, Goto,
       fields, conns
  <2>q. QED
    BY <1>2, <2>0, MongoSteps, <2>1, <2>2, <2>3, <2>4, <2>5, <2>6, <2>7, <2>8, <2>9,
       <2>10, <2>11, <2>12, <2>13 DEF MongoStep, Procs
<1>q. QED  BY <1>1, <1>2

\* Until a login fails the session that is used is logged in.
LEMMA MongoSoundStep == TypeOK /\ Places /\ Alone /\ MongoSound /\ [Next]_vars =>
    MongoSound'
<1> SUFFICES ASSUME TypeOK, Places, Alone, MongoSound, [Next]_vars PROVE MongoSound'
  OBVIOUS
<1>1. CASE UNCHANGED vars
  BY <1>1 DEF MongoSound, TypeOK, Places, Alone, Gone, Remembers, InCall, Connecting,
     Procs, vars, fields, conns, history, Closing
<1>2. CASE Next
  <2>0. SUFFICES ASSUME driver = "mongo" PROVE MongoSound'
    BY <1>2, DriverStays DEF MongoSound
  <2>h. Remembers
    BY <1>2, History
  <2>1. ASSUME NEW p \in Procs, Call(p) PROVE MongoSound'
    BY <2>0, <2>1, <2>h, ConnectAssumption DEF TypeOK, MongoSound, Places, Alone, Gone,
       Remembers, InCall, Connecting, Procs, Call, GoOn, Goto, fields, conns
  <2>2. ASSUME NEW p \in Procs, CallRemove(p) PROVE MongoSound'
    BY <2>0, <2>2, <2>h, ConnectAssumption DEF TypeOK, MongoSound, Places, Alone, Gone,
       Remembers, InCall, Connecting, Procs, CallRemove, GoOn, Goto, fields, conns
  <2>3. ASSUME NEW p \in Procs, Finish(p) PROVE MongoSound'
    BY <2>0, <2>3, <2>h, ConnectAssumption DEF TypeOK, MongoSound, Places, Alone, Gone,
       Remembers, InCall, Connecting, Procs, Finish, GoOn, Goto, fields, conns
  <2>4. CASE CallCleanup
    BY <2>0, <2>4, <2>h, ConnectAssumption DEF TypeOK, MongoSound, Places, Alone, Gone,
       Remembers, InCall, Connecting, Procs, CallCleanup, GoOn, Goto, fields, conns
  <2>5. ASSUME NEW p \in Procs, CheckMongo(p) PROVE MongoSound'
    BY <2>0, <2>5, <2>h, ConnectAssumption DEF TypeOK, MongoSound, Places, Alone, Gone,
       Remembers, InCall, Connecting, Procs, CheckMongo, GoOn, Panic, Goto, fields, conns
  <2>6. ASSUME NEW p \in Procs, Dial(p) PROVE MongoSound'
    BY <2>0, <2>6, <2>h, ConnectAssumption DEF TypeOK, MongoSound, Places, Alone, Gone,
       Remembers, InCall, Connecting, Procs, Dial, Open, GoOn, Refused, Goto, fields,
       conns
  <2>7. ASSUME NEW p \in Procs, UseDb(p) PROVE MongoSound'
    BY <2>0, <2>7, <2>h, ConnectAssumption DEF TypeOK, MongoSound, Places, Alone, Gone,
       Remembers, InCall, Connecting, Procs, UseDb, Panic, GoOn, Goto, fields, conns
  <2>8. ASSUME NEW p \in Procs, Login(p) PROVE MongoSound'
    BY <2>0, <2>8, <2>h, ConnectAssumption DEF TypeOK, MongoSound, Places, Alone, Gone,
       Remembers, InCall, Connecting, Procs, Login, Panic, GoOn, Refused, Goto, fields,
       conns
  <2>9. ASSUME NEW p \in Procs, OpMongo(p) PROVE MongoSound'
    BY <2>0, <2>9, <2>h, ConnectAssumption DEF TypeOK, MongoSound, Places, Alone, Gone,
       Remembers, InCall, Connecting, Procs, OpMongo, Panic, Fail, Succeed, Refused, Goto,
       fields, conns
  <2>10. CASE CloseStart
    BY <2>0, <2>10, <2>h, ConnectAssumption DEF TypeOK, MongoSound, Places, Alone, Gone,
       Remembers, InCall, Connecting, Procs, CloseStart, Goto, fields, conns
  <2>11. CASE CloseConn
    BY <2>0, <2>11, <2>h, ConnectAssumption DEF TypeOK, MongoSound, Places, Alone, Gone,
       Remembers, InCall, Connecting, Procs, CloseConn, Shut, Goto, fields, conns
  <2>12. CASE CloseClearMdb
    BY <2>0, <2>12, <2>h, ConnectAssumption DEF TypeOK, MongoSound, Places, Alone, Gone,
       Remembers, InCall, Connecting, Procs, CloseClearMdb, Goto, fields, conns
  <2>13. CASE CloseClear
    BY <2>0, <2>13, <2>h, ConnectAssumption DEF TypeOK, MongoSound, Places, Alone, Gone,
       Remembers, InCall, Connecting, Procs, CloseClear, Goto, fields, conns
  <2>q. QED
    BY <1>2, <2>0, MongoSteps, <2>1, <2>2, <2>3, <2>4, <2>5, <2>6, <2>7, <2>8, <2>9,
       <2>10, <2>11, <2>12, <2>13 DEF MongoStep, Procs
<1>q. QED  BY <1>1, <1>2

\* A call that passed the check has a client.
LEMMA RedisStepInv == TypeOK /\ Places /\ RedisInv /\ [Next]_vars => RedisInv'
<1> SUFFICES ASSUME TypeOK, Places, RedisInv, [Next]_vars PROVE RedisInv'
  OBVIOUS
<1>1. CASE UNCHANGED vars
  BY <1>1 DEF RedisInv, TypeOK, Places, Procs, vars, fields, conns, history, Closing,
     InCall, Connecting
<1>2. CASE Next
  <2>0. SUFFICES ASSUME driver = "redis" PROVE RedisInv'
    BY <1>2, DriverStays DEF RedisInv
  <2>h. Remembers
    BY <1>2, History
  <2>1. ASSUME NEW p \in Procs, Call(p) PROVE RedisInv'
    BY <2>0, <2>1, <2>h, ConnectAssumption DEF TypeOK, RedisInv, Places, Procs, Call,
       GoOn, Goto, fields, conns
  <2>2. ASSUME NEW p \in Procs, CallRemove(p) PROVE RedisInv'
    BY <2>0, <2>2, <2>h, ConnectAssumption DEF TypeOK, RedisInv, Places, Procs,
       CallRemove, GoOn, Goto, fields, conns
  <2>3. ASSUME NEW p \in Procs, Finish(p) PROVE RedisInv'
    BY <2>0, <2>3, <2>h, ConnectAssumption DEF TypeOK, RedisInv, Places, Procs, Finish,
       GoOn, Goto, fields, conns
  <2>4. CASE CallCleanup
    BY <2>0, <2>4, <2>h, ConnectAssumption DEF TypeOK, RedisInv, Places, Procs,
       CallCleanup, GoOn, Goto, fields, conns
  <2>5. ASSUME NEW p \in Procs, CheckRedis(p) PROVE RedisInv'
    BY <2>0, <2>5, <2>h, ConnectAssumption DEF TypeOK, RedisInv, Places, Procs,
       CheckRedis, GoOn, Goto, fields, conns
  <2>6. ASSUME NEW p \in Procs, LookForClient(p) PROVE RedisInv'
    BY <2>0, <2>6, <2>h, ConnectAssumption DEF TypeOK, RedisInv, Places, Procs,
       LookForClient, GoOn, Goto, fields, conns
  <2>7. ASSUME NEW p \in Procs, NewClient(p) PROVE RedisInv'
    BY <2>0, <2>7, <2>h, ConnectAssumption DEF TypeOK, RedisInv, Places, Procs, NewClient,
       Open, GoOn, Goto, fields, conns
  <2>8. ASSUME NEW p \in Procs, SetAddr(p) PROVE RedisInv'
    BY <2>0, <2>8, <2>h, ConnectAssumption DEF TypeOK, RedisInv, Places, Procs, SetAddr,
       GoOn, Panic, Goto, fields, conns
  <2>9. ASSUME NEW p \in Procs, Dbsize(p) PROVE RedisInv'
    BY <2>0, <2>9, <2>h, ConnectAssumption DEF TypeOK, RedisInv, Places, Procs, Dbsize,
       GoOn, Refused, Goto, fields, conns
  <2>10. ASSUME NEW p \in Procs, OpRedis(p) PROVE RedisInv'
    BY <2>0, <2>10, <2>h, ConnectAssumption DEF TypeOK, RedisInv, Places, Procs, OpRedis,
       Succeed, Refused, Goto, fields, conns
  <2>11. CASE CloseStart
    BY <2>0, <2>11, <2>h, ConnectAssumption DEF TypeOK, RedisInv, Places, Procs,
       CloseStart, Goto, fields, conns
  <2>12. CASE CloseConn
    BY <2>0, <2>12, <2>h, ConnectAssumption DEF TypeOK, RedisInv, Places, Procs,
       CloseConn, Shut, Goto, fields, conns
  <2>13. CASE CloseClearMdb
    BY <2>0, <2>13, <2>h, ConnectAssumption DEF TypeOK, RedisInv, Places, Procs,
       CloseClearMdb, Goto, fields, conns
  <2>14. CASE CloseClear
    BY <2>0, <2>14, <2>h, ConnectAssumption DEF TypeOK, RedisInv, Places, Procs,
       CloseClear, Goto, fields, conns
  <2>q. QED
    BY <1>2, <2>0, RedisSteps, <2>1, <2>2, <2>3, <2>4, <2>5, <2>6, <2>7, <2>8, <2>9,
       <2>10, <2>11, <2>12, <2>13, <2>14 DEF RedisStep, Procs
<1>q. QED  BY <1>1, <1>2

\* A redis client that is made alone gets its address.
LEMMA RedisAloneStep == TypeOK /\ Places /\ Alone /\ RedisInv /\ RedisAlone /\ [Next]_vars
    => RedisAlone'
<1> SUFFICES ASSUME TypeOK, Places, Alone, RedisInv, RedisAlone, [Next]_vars PROVE
    RedisAlone'
  OBVIOUS
<1>1. CASE UNCHANGED vars
  BY <1>1 DEF RedisAlone, TypeOK, Places, Alone, RedisInv, Remembers, InCall, Connecting,
     Procs, vars, fields, conns, history, Closing
<1>2. CASE Next
  <2>0. SUFFICES ASSUME driver = "redis" PROVE RedisAlone'
    BY <1>2, DriverStays DEF RedisAlone
  <2>h. Remembers
    BY <1>2, History
  <2>1. ASSUME NEW p \in Procs, Call(p) PROVE RedisAlone'
    BY <2>0, <2>1, <2>h, ConnectAssumption DEF TypeOK, RedisAlone, Places, Alone,
       RedisInv, Remembers, InCall, Connecting, Procs, Call, GoOn, Goto, fields, conns
  <2>2. ASSUME NEW p \in Procs, CallRemove(p) PROVE RedisAlone'
    BY <2>0, <2>2, <2>h, ConnectAssumption DEF TypeOK, RedisAlone, Places, Alone,
       RedisInv, Remembers, InCall, Connecting, Procs, CallRemove, GoOn, Goto, fields,
       conns
  <2>3. ASSUME NEW p \in Procs, Finish(p) PROVE RedisAlone'
    BY <2>0, <2>3, <2>h, ConnectAssumption DEF TypeOK, RedisAlone, Places, Alone,
       RedisInv, Remembers, InCall, Connecting, Procs, Finish, GoOn, Goto, fields, conns
  <2>4. CASE CallCleanup
    BY <2>0, <2>4, <2>h, ConnectAssumption DEF TypeOK, RedisAlone, Places, Alone,
       RedisInv, Remembers, InCall, Connecting, Procs, CallCleanup, GoOn, Goto, fields,
       conns
  <2>5. ASSUME NEW p \in Procs, CheckRedis(p) PROVE RedisAlone'
    BY <2>0, <2>5, <2>h, ConnectAssumption DEF TypeOK, RedisAlone, Places, Alone,
       RedisInv, Remembers, InCall, Connecting, Procs, CheckRedis, GoOn, Goto, fields,
       conns
  <2>6. ASSUME NEW p \in Procs, LookForClient(p) PROVE RedisAlone'
    BY <2>0, <2>6, <2>h, ConnectAssumption DEF TypeOK, RedisAlone, Places, Alone,
       RedisInv, Remembers, InCall, Connecting, Procs, LookForClient, GoOn, Goto, fields,
       conns
  <2>7. ASSUME NEW p \in Procs, NewClient(p) PROVE RedisAlone'
    BY <2>0, <2>7, <2>h, ConnectAssumption DEF TypeOK, RedisAlone, Places, Alone,
       RedisInv, Remembers, InCall, Connecting, Procs, NewClient, Open, GoOn, Goto,
       fields, conns
  <2>8. ASSUME NEW p \in Procs, SetAddr(p) PROVE RedisAlone'
    BY <2>0, <2>8, <2>h, ConnectAssumption DEF TypeOK, RedisAlone, Places, Alone,
       RedisInv, Remembers, InCall, Connecting, Procs, SetAddr, GoOn, Panic, Goto, fields,
       conns
  <2>9. ASSUME NEW p \in Procs, Dbsize(p) PROVE RedisAlone'
    BY <2>0, <2>9, <2>h, ConnectAssumption DEF TypeOK, RedisAlone, Places, Alone,
       RedisInv, Remembers, InCall, Connecting, Procs, Dbsize, GoOn, Refused, Goto,
       fields, conns
  <2>10. ASSUME NEW p \in Procs, OpRedis(p) PROVE RedisAlone'
    BY <2>0, <2>10, <2>h, ConnectAssumption DEF TypeOK, RedisAlone, Places, Alone,
       RedisInv, Remembers, InCall, Connecting, Procs, OpRedis, Succeed, Refused, Goto,
       fields, conns
  <2>11. CASE CloseStart
    BY <2>0, <2>11, <2>h, ConnectAssumption DEF TypeOK, RedisAlone, Places, Alone,
       RedisInv, Remembers, InCall, Connecting, Procs, CloseStart, Goto, fields, conns
  <2>12. CASE CloseConn
    BY <2>0, <2>12, <2>h, ConnectAssumption DEF TypeOK, RedisAlone, Places, Alone,
       RedisInv, Remembers, InCall, Connecting, Procs, CloseConn, Shut, Goto, fields,
       conns
  <2>13. CASE CloseClearMdb
    BY <2>0, <2>13, <2>h, ConnectAssumption DEF TypeOK, RedisAlone, Places, Alone,
       RedisInv, Remembers, InCall, Connecting, Procs, CloseClearMdb, Goto, fields, conns
  <2>14. CASE CloseClear
    BY <2>0, <2>14, <2>h, ConnectAssumption DEF TypeOK, RedisAlone, Places, Alone,
       RedisInv, Remembers, InCall, Connecting, Procs, CloseClear, Goto, fields, conns
  <2>q. QED
    BY <1>2, <2>0, RedisSteps, <2>1, <2>2, <2>3, <2>4, <2>5, <2>6, <2>7, <2>8, <2>9,
       <2>10, <2>11, <2>12, <2>13, <2>14 DEF RedisStep, Procs
<1>q. QED  BY <1>1, <1>2

\* Close leaves nothing open when no call runs beside it.
LEMMA ClosesStep == TypeOK /\ Places /\ Alone /\ Undisturbed /\ Locked /\ MysqlInv /\
    MongoAlone /\ Closes /\ [Next]_vars => Closes'
<1> SUFFICES ASSUME TypeOK, Places, Alone, Undisturbed, Locked, MysqlInv, MongoAlone,
    Closes, [Next]_vars PROVE Closes'
  OBVIOUS
<1>1. CASE UNCHANGED vars
  BY <1>1 DEF Closes, TypeOK, Places, Alone, Undisturbed, Locked, MysqlInv, MongoAlone,
     Closing, Remembers, InCall, Connecting, Procs, vars, fields, conns, history
<1>2. CASE Next
  <2>h. Remembers
    BY <1>2, History
  <2>1. ASSUME NEW p \in Procs, Call(p) PROVE Closes'
    BY <2>1, <2>h, ConnectAssumption DEF TypeOK, Closes, Places, Alone, Undisturbed,
       Locked, MysqlInv, MongoAlone, Closing, Remembers, InCall, Connecting, Procs, Call,
       GoOn, Goto, fields, conns
  <2>2. ASSUME NEW p \in Procs, CallRemove(p) PROVE Closes'
    BY <2>2, <2>h, ConnectAssumption DEF TypeOK, Closes, Places, Alone, Undisturbed,
       Locked, MysqlInv, MongoAlone, Closing, Remembers, InCall, Connecting, Procs,
       CallRemove, GoOn, Goto, fields, conns
  <2>3. ASSUME NEW p \in Procs, Finish(p) PROVE Closes'
    BY <2>3, <2>h, ConnectAssumption DEF TypeOK, Closes, Places, Alone, Undisturbed,
       Locked, MysqlInv, MongoAlone, Closing, Remembers, InCall, Connecting, Procs,
       Finish, GoOn, Goto, fields, conns
  <2>4. CASE CallCleanup
    BY <2>4, <2>h, ConnectAssumption DEF TypeOK, Closes, Places, Alone, Undisturbed,
       Locked, MysqlInv, MongoAlone, Closing, Remembers, InCall, Connecting, Procs,
       CallCleanup, GoOn, Goto, fields, conns
  <2>5. ASSUME NEW p \in Procs, CheckMongo(p) PROVE Closes'
    BY <2>5, <2>h, ConnectAssumption DEF TypeOK, Closes, Places, Alone, Undisturbed,
       Locked, MysqlInv, MongoAlone, Closing, Remembers, InCall, Connecting, Procs,
       CheckMongo, GoOn, Panic, Goto, fields, conns
  <2>6. ASSUME NEW p \in Procs, Dial(p) PROVE Closes'
    BY <2>6, <2>h, ConnectAssumption DEF TypeOK, Closes, Places, Alone, Undisturbed,
       Locked, MysqlInv, MongoAlone, Closing, Remembers, InCall, Connecting, Procs, Dial,
       Open, GoOn, Refused, Goto, fields, conns
  <2>7. ASSUME NEW p \in Procs, UseDb(p) PROVE Closes'
    BY <2>7, <2>h, ConnectAssumption DEF TypeOK, Closes, Places, Alone, Undisturbed,
       Locked, MysqlInv, MongoAlone, Closing, Remembers, InCall, Connecting, Procs, UseDb,
       Panic, GoOn, Goto, fields, conns
  <2>8. ASSUME NEW p \in Procs, Login(p) PROVE Closes'
    BY <2>8, <2>h, ConnectAssumption DEF TypeOK, Closes, Places, Alone, Undisturbed,
       Locked, MysqlInv, MongoAlone, Closing, Remembers, InCall, Connecting, Procs, Login,
       Gone, Panic, GoOn, Refused, Goto, fields, conns
  <2>9. ASSUME NEW p \in Procs, OpMongo(p) PROVE Closes'
    BY <2>9, <2>h, ConnectAssumption DEF TypeOK, Closes, Places, Alone, Undisturbed,
       Locked, MysqlInv, MongoAlone, Closing, Remembers, InCall, Connecting, Procs,
       OpMongo, Gone, Panic, Fail, Succeed, Refused, Goto, fields, conns
  <2>10. ASSUME NEW p \in Procs, CheckRedis(p) PROVE Closes'
    BY <2>10, <2>h, ConnectAssumption DEF TypeOK, Closes, Places, Alone, Undisturbed,
       Locked, MysqlInv, MongoAlone, Closing, Remembers, InCall, Connecting, Procs,
       CheckRedis, GoOn, Goto, fields, conns
  <2>11. ASSUME NEW p \in Procs, LookForClient(p) PROVE Closes'
    BY <2>11, <2>h, ConnectAssumption DEF TypeOK, Closes, Places, Alone, Undisturbed,
       Locked, MysqlInv, MongoAlone, Closing, Remembers, InCall, Connecting, Procs,
       LookForClient, GoOn, Goto, fields, conns
  <2>12. ASSUME NEW p \in Procs, NewClient(p) PROVE Closes'
    BY <2>12, <2>h, ConnectAssumption DEF TypeOK, Closes, Places, Alone, Undisturbed,
       Locked, MysqlInv, MongoAlone, Closing, Remembers, InCall, Connecting, Procs,
       NewClient, Open, GoOn, Goto, fields, conns
  <2>13. ASSUME NEW p \in Procs, SetAddr(p) PROVE Closes'
    BY <2>13, <2>h, ConnectAssumption DEF TypeOK, Closes, Places, Alone, Undisturbed,
       Locked, MysqlInv, MongoAlone, Closing, Remembers, InCall, Connecting, Procs,
       SetAddr, GoOn, Panic, Goto, fields, conns
  <2>14. ASSUME NEW p \in Procs, Dbsize(p) PROVE Closes'
    BY <2>14, <2>h, ConnectAssumption DEF TypeOK, Closes, Places, Alone, Undisturbed,
       Locked, MysqlInv, MongoAlone, Closing, Remembers, InCall, Connecting, Procs,
       Dbsize, GoOn, Refused, Goto, fields, conns
  <2>15. ASSUME NEW p \in Procs, OpRedis(p) PROVE Closes'
    BY <2>15, <2>h, ConnectAssumption DEF TypeOK, Closes, Places, Alone, Undisturbed,
       Locked, MysqlInv, MongoAlone, Closing, Remembers, InCall, Connecting, Procs,
       OpRedis, Succeed, Refused, Goto, fields, conns
  <2>16. ASSUME NEW p \in Procs, Lock(p) PROVE Closes'
    BY <2>16, <2>h, ConnectAssumption DEF TypeOK, Closes, Places, Alone, Undisturbed,
       Locked, MysqlInv, MongoAlone, Closing, Remembers, InCall, Connecting, Procs, Lock,
       GoOn, Panic, Goto, fields, conns
  <2>17. ASSUME NEW p \in Procs, LookForDb(p) PROVE Closes'
    BY <2>17, <2>h, ConnectAssumption DEF TypeOK, Closes, Places, Alone, Undisturbed,
       Locked, MysqlInv, MongoAlone, Closing, Remembers, InCall, Connecting, Procs,
       LookForDb, GoOn, Goto, fields, conns
  <2>18. ASSUME NEW p \in Procs, Ping(p) PROVE Closes'
    BY <2>18, <2>h, ConnectAssumption DEF TypeOK, Closes, Places, Alone, Undisturbed,
       Locked, MysqlInv, MongoAlone, Closing, Remembers, InCall, Connecting, Procs, Ping,
       Panic, GoOn, Shut, Goto, fields, conns
  <2>19. ASSUME NEW p \in Procs, OpenDb(p) PROVE Closes'
    BY <2>19, <2>h, ConnectAssumption DEF TypeOK, Closes, Places, Alone, Undisturbed,
       Locked, MysqlInv, MongoAlone, Closing, Remembers, InCall, Connecting, Procs,
       OpenDb, Open, GoOn, Refused, Goto, fields, conns
  <2>20. ASSUME NEW p \in Procs, Table(p) PROVE Closes'
    BY <2>20, <2>h, ConnectAssumption DEF TypeOK, Closes, Places, Alone, Undisturbed,
       Locked, MysqlInv, MongoAlone, Closing, Remembers, InCall, Connecting, Procs, Table,
       Panic, Fail, GoOn, Refused, Goto, fields, conns
  <2>21. ASSUME NEW p \in Procs, ReturnDb(p) PROVE Closes'
    BY <2>21, <2>h, ConnectAssumption DEF TypeOK, Closes, Places, Alone, Undisturbed,
       Locked, MysqlInv, MongoAlone, Closing, Remembers, InCall, Connecting, Procs,
       ReturnDb, GoOn, Goto, fields, conns
  <2>22. ASSUME NEW p \in Procs, OpMysql(p) PROVE Closes'
    BY <2>22, <2>h, ConnectAssumption DEF TypeOK, Closes, Places, Alone, Undisturbed,
       Locked, MysqlInv, MongoAlone, Closing, Remembers, InCall, Connecting, Procs,
       OpMysql, Panic, Fail, Succeed, Refused, Goto, fields, conns
  <2>23. CASE CloseStart
    BY <2>23, <2>h, ConnectAssumption DEF TypeOK, Closes, Places, Alone, Undisturbed,
       Locked, MysqlInv, MongoAlone, Closing, Remembers, InCall, Connecting, Procs,
       CloseStart, Goto, fields, conns
  <2>24. CASE CloseConn
    BY <2>24, <2>h, ConnectAssumption DEF TypeOK, Closes, Places, Alone, Undisturbed,
       Locked, MysqlInv, MongoAlone, Closing, Remembers, InCall, Connecting, Procs,
       CloseConn, Shut, Goto, fields, conns
  <2>25. CASE CloseClearMdb
    BY <2>25, <2>h, ConnectAssumption DEF TypeOK, Closes, Places, Alone, Undisturbed,
       Locked, MysqlInv, MongoAlone, Closing, Remembers, InCall, Connecting, Procs,
       CloseClearMdb, Goto, fields, conns
  <2>26. CASE CloseClear
    BY <2>26, <2>h, ConnectAssumption DEF TypeOK, Closes, Places, Alone, Undisturbed,
       Locked, MysqlInv, MongoAlone, Closing, Remembers, InCall, Connecting, Procs,
       CloseClear, Goto, fields, conns
  <2>q. QED
    BY <1>2, <2>1, <2>2, <2>3, <2>4, <2>5, <2>6, <2>7, <2>8, <2>9, <2>10, <2>11, <2>12,
       <2>13, <2>14, <2>15, <2>16, <2>17, <2>18, <2>19, <2>20, <2>21, <2>22, <2>23, <2>24,
       <2>25, <2>26 DEF Next, Step, MongoStep, RedisStep, MysqlStep, Procs
<1>q. QED  BY <1>1, <1>2

\* What a call of mongo relies on is there.
LEMMA MongoCallsStep == TypeOK /\ Places /\ Alone /\ MongoInv /\ MongoAlone /\ MongoSound
    /\ MongoCalls /\ [Next]_vars => MongoCalls'
<1> SUFFICES ASSUME TypeOK, Places, Alone, MongoInv, MongoAlone, MongoSound, MongoCalls,
    [Next]_vars PROVE MongoCalls'
  OBVIOUS
<1>1. CASE UNCHANGED vars
  BY <1>1 DEF MongoCalls, TypeOK, Places, Alone, MongoInv, MongoAlone, MongoSound,
     CallsSucceed, ProcessSurvives, Closing, Gone, Remembers, InCall, Connecting, Procs,
     vars, fields, conns, history
<1>2. CASE Next
  <2>0. SUFFICES ASSUME driver = "mongo" PROVE MongoCalls'
    BY <1>2, DriverStays DEF MongoCalls
  <2>h. Remembers
    BY <1>2, History
  <2>1. ASSUME NEW p \in Procs, Call(p) PROVE MongoCalls'
    BY <2>0, <2>1, <2>h, ConnectAssumption DEF TypeOK, MongoCalls, Places, Alone,
       MongoInv, MongoAlone, MongoSound, CallsSucceed, ProcessSurvives, Closing, Gone,
       Remembers, InCall, Connecting, Procs, Call, GoOn, Goto, fields, conns
  <2>2. ASSUME NEW p \in Procs, CallRemove(p) PROVE MongoCalls'
    BY <2>0, <2>2, <2>h, ConnectAssumption DEF TypeOK, MongoCalls, Places, Alone,
       MongoInv, MongoAlone, MongoSound, CallsSucceed, ProcessSurvives, Closing, Gone,
       Remembers, InCall, Connecting, Procs, CallRemove, GoOn, Goto, fields, conns
  <2>3. ASSUME NEW p \in Procs, Finish(p) PROVE MongoCalls'
    BY <2>0, <2>3, <2>h, ConnectAssumption DEF TypeOK, MongoCalls, Places, Alone,
       MongoInv, MongoAlone, MongoSound, CallsSucceed, ProcessSurvives, Closing, Gone,
       Remembers, InCall, Connecting, Procs, Finish, GoOn, Goto, fields, conns
  <2>4. CASE CallCleanup
    BY <2>0, <2>4, <2>h, ConnectAssumption DEF TypeOK, MongoCalls, Places, Alone,
       MongoInv, MongoAlone, MongoSound, CallsSucceed, ProcessSurvives, Closing, Gone,
       Remembers, InCall, Connecting, Procs, CallCleanup, GoOn, Goto, fields, conns
  <2>5. ASSUME NEW p \in Procs, CheckMongo(p) PROVE MongoCalls'
    BY <2>0, <2>5, <2>h, ConnectAssumption DEF TypeOK, MongoCalls, Places, Alone,
       MongoInv, MongoAlone, MongoSound, CallsSucceed, ProcessSurvives, Closing, Gone,
       Remembers, InCall, Connecting, Procs, CheckMongo, GoOn, Panic, Goto, fields, conns
  <2>6. ASSUME NEW p \in Procs, Dial(p) PROVE MongoCalls'
    BY <2>0, <2>6, <2>h, ConnectAssumption DEF TypeOK, MongoCalls, Places, Alone,
       MongoInv, MongoAlone, MongoSound, CallsSucceed, ProcessSurvives, Closing, Gone,
       Remembers, InCall, Connecting, Procs, Dial, Open, GoOn, Refused, Goto, fields,
       conns
  <2>7. ASSUME NEW p \in Procs, UseDb(p) PROVE MongoCalls'
    BY <2>0, <2>7, <2>h, ConnectAssumption DEF TypeOK, MongoCalls, Places, Alone,
       MongoInv, MongoAlone, MongoSound, CallsSucceed, ProcessSurvives, Closing, Gone,
       Remembers, InCall, Connecting, Procs, UseDb, Panic, GoOn, Goto, fields, conns
  <2>8. ASSUME NEW p \in Procs, Login(p) PROVE MongoCalls'
    BY <2>0, <2>8, <2>h, ConnectAssumption DEF TypeOK, MongoCalls, Places, Alone,
       MongoInv, MongoAlone, MongoSound, CallsSucceed, ProcessSurvives, Closing, Gone,
       Remembers, InCall, Connecting, Procs, Login, Panic, GoOn, Refused, Goto, fields,
       conns
  <2>9. ASSUME NEW p \in Procs, OpMongo(p) PROVE MongoCalls'
    BY <2>0, <2>9, <2>h, ConnectAssumption DEF TypeOK, MongoCalls, Places, Alone,
       MongoInv, MongoAlone, MongoSound, CallsSucceed, ProcessSurvives, Closing, Gone,
       Remembers, InCall, Connecting, Procs, OpMongo, Panic, Fail, Succeed, Refused, Goto,
       fields, conns
  <2>10. CASE CloseStart
    BY <2>0, <2>10, <2>h, ConnectAssumption DEF TypeOK, MongoCalls, Places, Alone,
       MongoInv, MongoAlone, MongoSound, CallsSucceed, ProcessSurvives, Closing, Gone,
       Remembers, InCall, Connecting, Procs, CloseStart, Goto, fields, conns
  <2>11. CASE CloseConn
    BY <2>0, <2>11, <2>h, ConnectAssumption DEF TypeOK, MongoCalls, Places, Alone,
       MongoInv, MongoAlone, MongoSound, CallsSucceed, ProcessSurvives, Closing, Gone,
       Remembers, InCall, Connecting, Procs, CloseConn, Shut, Goto, fields, conns
  <2>12. CASE CloseClearMdb
    BY <2>0, <2>12, <2>h, ConnectAssumption DEF TypeOK, MongoCalls, Places, Alone,
       MongoInv, MongoAlone, MongoSound, CallsSucceed, ProcessSurvives, Closing, Gone,
       Remembers, InCall, Connecting, Procs, CloseClearMdb, Goto, fields, conns
  <2>13. CASE CloseClear
    BY <2>0, <2>13, <2>h, ConnectAssumption DEF TypeOK, MongoCalls, Places, Alone,
       MongoInv, MongoAlone, MongoSound, CallsSucceed, ProcessSurvives, Closing, Gone,
       Remembers, InCall, Connecting, Procs, CloseClear, Goto, fields, conns
  <2>q. QED
    BY <1>2, <2>0, MongoSteps, <2>1, <2>2, <2>3, <2>4, <2>5, <2>6, <2>7, <2>8, <2>9,
       <2>10, <2>11, <2>12, <2>13 DEF MongoStep, Procs
<1>q. QED  BY <1>1, <1>2

\* What a call of redis relies on is there.
LEMMA RedisCallsStep == TypeOK /\ Places /\ Alone /\ RedisInv /\ RedisAlone /\ RedisCalls
    /\ [Next]_vars => RedisCalls'
<1> SUFFICES ASSUME TypeOK, Places, Alone, RedisInv, RedisAlone, RedisCalls, [Next]_vars
    PROVE RedisCalls'
  OBVIOUS
<1>1. CASE UNCHANGED vars
  BY <1>1 DEF RedisCalls, TypeOK, Places, Alone, RedisInv, RedisAlone, CallsSucceed,
     ProcessSurvives, Closing, Remembers, InCall, Connecting, Procs, vars, fields, conns,
     history
<1>2. CASE Next
  <2>0. SUFFICES ASSUME driver = "redis" PROVE RedisCalls'
    BY <1>2, DriverStays DEF RedisCalls
  <2>h. Remembers
    BY <1>2, History
  <2>1. ASSUME NEW p \in Procs, Call(p) PROVE RedisCalls'
    BY <2>0, <2>1, <2>h, ConnectAssumption DEF TypeOK, RedisCalls, Places, Alone,
       RedisInv, RedisAlone, CallsSucceed, ProcessSurvives, Closing, Remembers, InCall,
       Connecting, Procs, Call, GoOn, Goto, fields, conns
  <2>2. ASSUME NEW p \in Procs, CallRemove(p) PROVE RedisCalls'
    BY <2>0, <2>2, <2>h, ConnectAssumption DEF TypeOK, RedisCalls, Places, Alone,
       RedisInv, RedisAlone, CallsSucceed, ProcessSurvives, Closing, Remembers, InCall,
       Connecting, Procs, CallRemove, GoOn, Goto, fields, conns
  <2>3. ASSUME NEW p \in Procs, Finish(p) PROVE RedisCalls'
    BY <2>0, <2>3, <2>h, ConnectAssumption DEF TypeOK, RedisCalls, Places, Alone,
       RedisInv, RedisAlone, CallsSucceed, ProcessSurvives, Closing, Remembers, InCall,
       Connecting, Procs, Finish, GoOn, Goto, fields, conns
  <2>4. CASE CallCleanup
    BY <2>0, <2>4, <2>h, ConnectAssumption DEF TypeOK, RedisCalls, Places, Alone,
       RedisInv, RedisAlone, CallsSucceed, ProcessSurvives, Closing, Remembers, InCall,
       Connecting, Procs, CallCleanup, GoOn, Goto, fields, conns
  <2>5. ASSUME NEW p \in Procs, CheckRedis(p) PROVE RedisCalls'
    BY <2>0, <2>5, <2>h, ConnectAssumption DEF TypeOK, RedisCalls, Places, Alone,
       RedisInv, RedisAlone, CallsSucceed, ProcessSurvives, Closing, Remembers, InCall,
       Connecting, Procs, CheckRedis, GoOn, Goto, fields, conns
  <2>6. ASSUME NEW p \in Procs, LookForClient(p) PROVE RedisCalls'
    BY <2>0, <2>6, <2>h, ConnectAssumption DEF TypeOK, RedisCalls, Places, Alone,
       RedisInv, RedisAlone, CallsSucceed, ProcessSurvives, Closing, Remembers, InCall,
       Connecting, Procs, LookForClient, GoOn, Goto, fields, conns
  <2>7. ASSUME NEW p \in Procs, NewClient(p) PROVE RedisCalls'
    BY <2>0, <2>7, <2>h, ConnectAssumption DEF TypeOK, RedisCalls, Places, Alone,
       RedisInv, RedisAlone, CallsSucceed, ProcessSurvives, Closing, Remembers, InCall,
       Connecting, Procs, NewClient, Open, GoOn, Goto, fields, conns
  <2>8. ASSUME NEW p \in Procs, SetAddr(p) PROVE RedisCalls'
    BY <2>0, <2>8, <2>h, ConnectAssumption DEF TypeOK, RedisCalls, Places, Alone,
       RedisInv, RedisAlone, CallsSucceed, ProcessSurvives, Closing, Remembers, InCall,
       Connecting, Procs, SetAddr, GoOn, Panic, Goto, fields, conns
  <2>9. ASSUME NEW p \in Procs, Dbsize(p) PROVE RedisCalls'
    BY <2>0, <2>9, <2>h, ConnectAssumption DEF TypeOK, RedisCalls, Places, Alone,
       RedisInv, RedisAlone, CallsSucceed, ProcessSurvives, Closing, Remembers, InCall,
       Connecting, Procs, Dbsize, GoOn, Refused, Goto, fields, conns
  <2>10. ASSUME NEW p \in Procs, OpRedis(p) PROVE RedisCalls'
    BY <2>0, <2>10, <2>h, ConnectAssumption DEF TypeOK, RedisCalls, Places, Alone,
       RedisInv, RedisAlone, CallsSucceed, ProcessSurvives, Closing, Remembers, InCall,
       Connecting, Procs, OpRedis, Succeed, Refused, Goto, fields, conns
  <2>11. CASE CloseStart
    BY <2>0, <2>11, <2>h, ConnectAssumption DEF TypeOK, RedisCalls, Places, Alone,
       RedisInv, RedisAlone, CallsSucceed, ProcessSurvives, Closing, Remembers, InCall,
       Connecting, Procs, CloseStart, Goto, fields, conns
  <2>12. CASE CloseConn
    BY <2>0, <2>12, <2>h, ConnectAssumption DEF TypeOK, RedisCalls, Places, Alone,
       RedisInv, RedisAlone, CallsSucceed, ProcessSurvives, Closing, Remembers, InCall,
       Connecting, Procs, CloseConn, Shut, Goto, fields, conns
  <2>13. CASE CloseClearMdb
    BY <2>0, <2>13, <2>h, ConnectAssumption DEF TypeOK, RedisCalls, Places, Alone,
       RedisInv, RedisAlone, CallsSucceed, ProcessSurvives, Closing, Remembers, InCall,
       Connecting, Procs, CloseClearMdb, Goto, fields, conns
  <2>14. CASE CloseClear
    BY <2>0, <2>14, <2>h, ConnectAssumption DEF TypeOK, RedisCalls, Places, Alone,
       RedisInv, RedisAlone, CallsSucceed, ProcessSurvives, Closing, Remembers, InCall,
       Connecting, Procs, CloseClear, Goto, fields, conns
  <2>q. QED
    BY <1>2, <2>0, RedisSteps, <2>1, <2>2, <2>3, <2>4, <2>5, <2>6, <2>7, <2>8, <2>9,
       <2>10, <2>11, <2>12, <2>13, <2>14 DEF RedisStep, Procs
<1>q. QED  BY <1>1, <1>2

\* What a call of mysql relies on is there.
LEMMA MysqlCallsStep == TypeOK /\ Places /\ Locked /\ MysqlInv /\ MysqlSound /\ MysqlCalls
    /\ [Next]_vars => MysqlCalls'
<1> SUFFICES ASSUME TypeOK, Places, Locked, MysqlInv, MysqlSound, MysqlCalls, [Next]_vars
    PROVE MysqlCalls'
  OBVIOUS
<1>1. CASE UNCHANGED vars
  BY <1>1 DEF MysqlCalls, TypeOK, Places, Locked, MysqlInv, MysqlSound, CallsSucceed,
     ProcessSurvives, Closing, InDb, Remembers, Procs, vars, fields, conns, history,
     InCall, Connecting
<1>2. CASE Next
  <2>0. SUFFICES ASSUME driver = "mysql" PROVE MysqlCalls'
    BY <1>2, DriverStays DEF MysqlCalls
  <2>h. Remembers
    BY <1>2, History
  <2>1. ASSUME NEW p \in Procs, Call(p) PROVE MysqlCalls'
    BY <2>0, <2>1, <2>h, ConnectAssumption DEF TypeOK, MysqlCalls, Places, Locked,
       MysqlInv, MysqlSound, CallsSucceed, ProcessSurvives, Closing, InDb, Remembers,
       Procs, Call, GoOn, Goto, fields, conns
  <2>2. ASSUME NEW p \in Procs, CallRemove(p) PROVE MysqlCalls'
    BY <2>0, <2>2, <2>h, ConnectAssumption DEF TypeOK, MysqlCalls, Places, Locked,
       MysqlInv, MysqlSound, CallsSucceed, ProcessSurvives, Closing, InDb, Remembers,
       Procs, CallRemove, GoOn, Goto, fields, conns
  <2>3. ASSUME NEW p \in Procs, Finish(p) PROVE MysqlCalls'
    BY <2>0, <2>3, <2>h, ConnectAssumption DEF TypeOK, MysqlCalls, Places, Locked,
       MysqlInv, MysqlSound, CallsSucceed, ProcessSurvives, Closing, InDb, Remembers,
       Procs, Finish, GoOn, Goto, fields, conns
  <2>4. CASE CallCleanup
    BY <2>0, <2>4, <2>h, ConnectAssumption DEF TypeOK, MysqlCalls, Places, Locked,
       MysqlInv, MysqlSound, CallsSucceed, ProcessSurvives, Closing, InDb, Remembers,
       Procs, CallCleanup, GoOn, Goto, fields, conns
  <2>5. ASSUME NEW p \in Procs, Lock(p) PROVE MysqlCalls'
    BY <2>0, <2>5, <2>h, ConnectAssumption DEF TypeOK, MysqlCalls, Places, Locked,
       MysqlInv, MysqlSound, CallsSucceed, ProcessSurvives, Closing, InDb, Remembers,
       Procs, Lock, GoOn, Panic, Goto, fields, conns
  <2>6. ASSUME NEW p \in Procs, LookForDb(p) PROVE MysqlCalls'
    BY <2>0, <2>6, <2>h, ConnectAssumption DEF TypeOK, MysqlCalls, Places, Locked,
       MysqlInv, MysqlSound, CallsSucceed, ProcessSurvives, Closing, InDb, Remembers,
       Procs, LookForDb, GoOn, Goto, fields, conns
  <2>7. ASSUME NEW p \in Procs, Ping(p) PROVE MysqlCalls'
    BY <2>0, <2>7, <2>h, ConnectAssumption DEF TypeOK, MysqlCalls, Places, Locked,
       MysqlInv, MysqlSound, CallsSucceed, ProcessSurvives, Closing, InDb, Remembers,
       Procs, Ping, Panic, GoOn, Shut, Goto, fields, conns
  <2>8. ASSUME NEW p \in Procs, OpenDb(p) PROVE MysqlCalls'
    BY <2>0, <2>8, <2>h, ConnectAssumption DEF TypeOK, MysqlCalls, Places, Locked,
       MysqlInv, MysqlSound, CallsSucceed, ProcessSurvives, Closing, InDb, Remembers,
       Procs, OpenDb, Open, GoOn, Refused, Goto, fields, conns
  <2>9. ASSUME NEW p \in Procs, Table(p) PROVE MysqlCalls'
    BY <2>0, <2>9, <2>h, ConnectAssumption DEF TypeOK, MysqlCalls, Places, Locked,
       MysqlInv, MysqlSound, CallsSucceed, ProcessSurvives, Closing, InDb, Remembers,
       Procs, Table, Panic, Fail, GoOn, Refused, Goto, fields, conns
  <2>10. ASSUME NEW p \in Procs, ReturnDb(p) PROVE MysqlCalls'
    BY <2>0, <2>10, <2>h, ConnectAssumption DEF TypeOK, MysqlCalls, Places, Locked,
       MysqlInv, MysqlSound, CallsSucceed, ProcessSurvives, Closing, InDb, Remembers,
       Procs, ReturnDb, GoOn, Goto, fields, conns
  <2>11. ASSUME NEW p \in Procs, OpMysql(p) PROVE MysqlCalls'
    BY <2>0, <2>11, <2>h, ConnectAssumption DEF TypeOK, MysqlCalls, Places, Locked,
       MysqlInv, MysqlSound, CallsSucceed, ProcessSurvives, Closing, InDb, Remembers,
       Procs, OpMysql, Panic, Fail, Succeed, Refused, Goto, fields, conns
  <2>12. CASE CloseStart
    BY <2>0, <2>12, <2>h, ConnectAssumption DEF TypeOK, MysqlCalls, Places, Locked,
       MysqlInv, MysqlSound, CallsSucceed, ProcessSurvives, Closing, InDb, Remembers,
       Procs, CloseStart, Goto, fields, conns
  <2>13. CASE CloseConn
    BY <2>0, <2>13, <2>h, ConnectAssumption DEF TypeOK, MysqlCalls, Places, Locked,
       MysqlInv, MysqlSound, CallsSucceed, ProcessSurvives, Closing, InDb, Remembers,
       Procs, CloseConn, Shut, Goto, fields, conns
  <2>14. CASE CloseClearMdb
    BY <2>0, <2>14, <2>h, ConnectAssumption DEF TypeOK, MysqlCalls, Places, Locked,
       MysqlInv, MysqlSound, CallsSucceed, ProcessSurvives, Closing, InDb, Remembers,
       Procs, CloseClearMdb, Goto, fields, conns
  <2>15. CASE CloseClear
    BY <2>0, <2>15, <2>h, ConnectAssumption DEF TypeOK, MysqlCalls, Places, Locked,
       MysqlInv, MysqlSound, CallsSucceed, ProcessSurvives, Closing, InDb, Remembers,
       Procs, CloseClear, Goto, fields, conns
  <2>q. QED
    BY <1>2, <2>0, MysqlSteps, <2>1, <2>2, <2>3, <2>4, <2>5, <2>6, <2>7, <2>8, <2>9,
       <2>10, <2>11, <2>12, <2>13, <2>14, <2>15 DEF MysqlStep, Procs
<1>q. QED  BY <1>1, <1>2

-----------------------------------------------------------------------------
\* The invariant holds at first and is kept.
LEMMA InitInv == Init => IInv
<1>1. Init => TypeOK /\ Places
  BY ConnectAssumption DEF Init, TypeOK, Places, Procs
<1>2. Init => Alone /\ Undisturbed /\ Closes
  BY DEF Init, Alone, Undisturbed, Closes, Procs, Connecting, InCall, Closing
<1>3. Init => Locked /\ MysqlInv /\ MysqlSound
  BY DEF Init, Locked, MysqlInv, MysqlSound, Procs, InDb
<1>4. Init => MongoInv /\ MongoAlone /\ MongoSound
  BY DEF Init, MongoInv, MongoAlone, MongoSound, Procs
<1>5. Init => RedisInv /\ RedisAlone
  BY DEF Init, RedisInv, RedisAlone, Procs
<1>6. Init => MongoCalls /\ RedisCalls /\ MysqlCalls
  BY DEF Init, MongoCalls, RedisCalls, MysqlCalls, CallsSucceed, ProcessSurvives
<1>q. QED  BY <1>1, <1>2, <1>3, <1>4, <1>5, <1>6 DEF IInv

LEMMA StepInv == IInv /\ [Next]_vars => IInv'
<1> SUFFICES ASSUME IInv, [Next]_vars PROVE IInv'
  OBVIOUS
<1> USE DEF IInv
<1>1. TypeOK' /\ Places' /\ Closes'
  BY TypeStep, PlacesStep, ClosesStep
<1>2. Locked' /\ MysqlInv' /\ MysqlSound' /\ MysqlCalls'
  BY LockedStep, MysqlStepInv, MysqlSoundStep, MysqlCallsStep
<1>3. MongoInv' /\ MongoAlone' /\ MongoSound' /\ MongoCalls'
  BY MongoStepInv, MongoAloneStep, MongoSoundStep, MongoCallsStep
<1>4. RedisInv' /\ RedisAlone' /\ RedisCalls'
  BY RedisStepInv, RedisAloneStep, RedisCallsStep
<1>5. Alone' /\ Undisturbed'
  <2>1. CASE UNCHANGED vars
    BY <2>1 DEF vars, history, Alone, Undisturbed, Connecting, InCall, Closing
  <2>2. CASE Next
    BY <2>2, History DEF Remembers, Alone, Undisturbed, Closing
  <2>q. QED  BY <2>1, <2>2
<1>q. QED  BY <1>1, <1>2, <1>3, <1>4, <1>5

LEMMA Invariant == Spec => []IInv
<1>1. QED  BY InitInv, StepInv, PTL DEF Spec

\* Every variable has its type.
THEOREM TypeCorrect == Spec => []TypeOK
<1>1. IInv => TypeOK
  BY DEF IInv
<1>q. QED  BY <1>1, Invariant, PTL

\* Which calls fail although no server refused them: of mongo and redis, those beside
\* the first connecting; of mysql, those beside Close; and those after a refusal the
\* driver does not get over.
THEOREM CallsOnlyFailWhen == Spec => []CallsSucceed
<1>1. IInv => CallsSucceed
  BY ConnectAssumption DEF IInv, TypeOK, MongoCalls, RedisCalls, MysqlCalls
<1>q. QED  BY <1>1, Invariant, PTL

\* Nothing but Close, or a driver that was not given its App, ends the process.
THEOREM ProcessSurvivesAlways == Spec => []ProcessSurvives
<1>1. IInv => ProcessSurvives
  BY ConnectAssumption DEF IInv, TypeOK, MongoCalls, RedisCalls, MysqlCalls
<1>q. QED  BY <1>1, Invariant, PTL

\* No connection is lost unless a call ran beside the first connecting.
THEOREM NoneLost == Spec => []ConnectionsAreNotLost
<1>1. ASSUME IInv PROVE ConnectionsAreNotLost
  <2>1. ASSUME ~raced, ~Closing, NEW c \in Conns, state[c] = "open" PROVE c = ms
    BY <1>1, <2>1, ConnectAssumption DEF IInv, TypeOK, MysqlInv, MongoAlone, RedisAlone
  <2>2. ASSUME ~raced, closer = "done", ~disturbed, driver # "redis", NEW c \in Conns
        PROVE  state[c] # "open"
    BY <1>1, <2>2 DEF IInv, Closes
  <2>q. QED  BY <2>1, <2>2 DEF ConnectionsAreNotLost
<1>q. QED  BY <1>1, Invariant, PTL

=============================================================================
