----------------------- MODULE SessionExpiry_proofs -----------------------
(***************************************************************************)
(* Proofs about SessionExpiry: for any number of requests, any lives and    *)
(* terms, and a clock that runs however long, a driver keeps a session for  *)
(* as long as Due says, and a redis key always gets a time to live.         *)
(*                                                                         *)
(* KeptWhilePromised speaks of the moment a session goes; the invariant     *)
(* relates, per driver, the dates of the store to the history they stand    *)
(* for.  Two of its parts are about requests under way: the time stamp a    *)
(* mongo request will write (StampsAreLast), and a mysql request that found *)
(* the count at its end and will prolong nothing (NothingToProlong).        *)
(***************************************************************************)
EXTENDS SessionExpiry, TLAPS

Before == ~made => /\ AllIdle /\ ~issued /\ ~stored
                   /\ ttl = Never /\ shortcount = 0
                   /\ visits = 0 /\ lastVisit = 0 /\ lastWrite = 0

Alone == ~overlapped =>
           \A p, q \in Procs : pc[p] # "idle" /\ pc[q] # "idle" => p = q

StampsAreLast == driver = "mongo" /\ ~overlapped =>
                   \A p \in Procs : pc[p] # "idle" => lastVisit <= stamp[p]

MongoKept == driver = "mongo" /\ stored /\ ~overlapped /\ ~failed => lastVisit <= updated

RedisKept == driver = "redis" /\ stored /\ ttl # Never /\ ~failed =>
               lastVisit + ReadLife <= ttl

Written == driver = "mysql" /\ stored => lastWrite <= expires

Counted == driver = "mysql" /\ stored /\ ~overlapped /\ ~failed =>
             /\ shortcount = visits
             /\ \A p \in Procs : pc[p] = "read" => count[p] = shortcount

Behind == shortcount <= visits /\ \A p \in Procs : count[p] <= visits

ShortKept == driver = "mysql" /\ stored /\ ~failed /\ shortcount < 4 =>
               lastVisit + Term <= shortexpires

NothingToProlong ==
  driver = "mysql" /\ stored /\ ~failed /\ shortcount < 4 =>
    \A p \in Procs : pc[p] = "read" /\ count[p] = 4 =>
      stamp[p] + Short[1] <= shortexpires

Sweeping == cleaning => driver = "mysql"

IInv == /\ TypeOK /\ Before /\ Alone /\ Sweeping
        /\ StampsAreLast /\ MongoKept
        /\ RedisKept
        /\ Written /\ Counted /\ Behind /\ ShortKept /\ NothingToProlong

\* What the parts of GetSession and of redis' calls leave behind has its type.
LEMMA VisitedTypes ==
  ASSUME TypeOK, NEW p \in Procs, Visited(p), UNCHANGED now
  PROVE  /\ pc' \in [Procs -> {"idle", "newexpire", "usingnew", "read", "readset",
                              "readexpire", "using", "flushset"}]
         /\ stamp' \in [Procs -> 0..now'] /\ count' \in [Procs -> 0..4]
         /\ visits' \in 0..4 /\ lastVisit' \in 0..now'
<1>1. visits' \in 0..4 /\ lastVisit' \in 0..now'
  BY DEF TypeOK, Visited, Latest
<1>2. stamp' \in [Procs -> 0..now'] /\ count' \in [Procs -> 0..4]
  BY DEF TypeOK, Visited
<1>q. QED  BY <1>1, <1>2 DEF TypeOK, Visited, Goto

LEMMA CallTypes ==
  ASSUME TypeOK, NEW life \in Nat, Set \/ SetFails \/ Expire(life) \/ Fail
  PROVE  stored' \in BOOLEAN /\ ttl' \in Int /\ failed' \in BOOLEAN
<1>1. CASE Set            BY <1>1 DEF TypeOK, Set, Write, Never
<1>2. CASE SetFails
  <2>1. failed' \in BOOLEAN  BY <1>2 DEF SetFails
  <2>2. CASE Write  BY <2>1, <2>2 DEF Write, Never
  <2>3. CASE UNCHANGED <<stored, ttl>>  BY <2>1, <2>3 DEF TypeOK
  <2>q. QED  BY <1>2, <2>2, <2>3 DEF SetFails
<1>3. CASE Expire(life)   BY <1>3 DEF TypeOK, Expire
<1>4. CASE Fail           BY <1>4 DEF TypeOK, Fail
<1>q. QED  BY <1>1, <1>2, <1>3, <1>4

\* Every step keeps the types.
LEMMA TypeStep == TypeOK /\ Before /\ [Next]_vars => TypeOK'
<1> SUFFICES ASSUME TypeOK, Before, [Next]_vars PROVE TypeOK'
  OBVIOUS
<1>1. ASSUME NEW p \in Procs, New(p) PROVE TypeOK'
  BY <1>1, ExpiryAssumption DEF ExpiryAssumption, TypeOK, Before, Horizon, New, Goto,
     history
<1>2. ASSUME NEW p \in Procs, Get(p) PROVE TypeOK'
  BY <1>2, ExpiryAssumption DEF ExpiryAssumption, TypeOK, Before, Horizon, Get, Goto,
     AllIdle, identity, row, dates
<1>3. ASSUME NEW p \in Procs, TouchMongo(p) PROVE TypeOK'
  <2>1. UNCHANGED now /\ Visited(p)  BY <1>3 DEF TouchMongo
  <2>2. updated' \in 0..now' /\ failed' \in BOOLEAN  BY <1>3 DEF TypeOK, TouchMongo
  <2>q. QED  BY <1>3, <2>1, <2>2, VisitedTypes DEF TypeOK, TouchMongo, identity, Horizon
<1>4. ASSUME NEW p \in Procs, Prolong(p) PROVE TypeOK'
  <2>1. UNCHANGED now /\ Visited(p)  BY <1>4 DEF Prolong
  <2>2. Prolonged(p) => shortcount' \in 0..4 /\ shortexpires' \in Nat
    <3>1. CASE count[p] < 4
      <4>1. count[p] + 1 \in 0..4  BY <3>1 DEF TypeOK
      <4>2. Short[count[p] + 1] \in Nat
        BY <4>1, ExpiryAssumption DEF ExpiryAssumption
      <4>q. QED  BY <3>1, <4>1, <4>2 DEF TypeOK, Prolonged
    <3>2. CASE ~(count[p] < 4)  BY <3>2 DEF TypeOK, Prolonged
    <3>q. QED  BY <3>1, <3>2
  <2>3. shortcount' \in 0..4 /\ shortexpires' \in Nat /\ failed' \in BOOLEAN
    BY <1>4, <2>2 DEF TypeOK, Prolong
  <2>q. QED  BY <1>4, <2>1, <2>3, VisitedTypes DEF TypeOK, Prolong, identity, Horizon
<1>5. ASSUME NEW p \in Procs, NewExpire(p) PROVE TypeOK'
  <2>1. stored' \in BOOLEAN /\ ttl' \in Int /\ failed' \in BOOLEAN
    BY <1>5, CallTypes, ExpiryAssumption DEF ExpiryAssumption, NewExpire
  <2>2. issued' \in BOOLEAN  BY <1>5 DEF TypeOK, NewExpire
  <2>q. QED  BY <1>5, <2>1, <2>2 DEF TypeOK, NewExpire, RedisOnly, Goto, local, Horizon
<1>6. ASSUME NEW p \in Procs, TouchRedis(p) PROVE TypeOK'
  <2>1. stored' \in BOOLEAN /\ ttl' \in Int /\ failed' \in BOOLEAN
    BY <1>6, CallTypes, ExpiryAssumption DEF ExpiryAssumption, TouchRedis
  <2>2. CASE Visited(p)
    <3>1. UNCHANGED now  BY <1>6 DEF TouchRedis, RedisOnly
    <3>q. QED  BY <1>6, <2>1, <2>2, <3>1, VisitedTypes DEF TypeOK, TouchRedis, RedisOnly,
        Horizon
  <2>3. CASE ~Visited(p)
    <3>1. UNCHANGED <<local, visits, lastVisit>>  BY <1>6, <2>3 DEF TouchRedis
    <3>2. \E where \in {"readset", "readexpire"} : Goto(p, where)
      BY <1>6, <2>3 DEF TouchRedis
    <3>q. QED
      BY <1>6, <2>1, <3>1, <3>2 DEF TypeOK, TouchRedis, RedisOnly, Goto, local, Horizon
  <2>q. QED  BY <2>2, <2>3
<1>7. ASSUME NEW p \in Procs, Flush(p) PROVE TypeOK'
  <2>1. updated' \in 0..now /\ lastWrite' \in 0..now
    BY <1>7 DEF TypeOK, Flush
  <2>2. expires' \in Nat
    <3>1. FlushExpires(p) \in Nat
      BY ExpiryAssumption DEF ExpiryAssumption, TypeOK, FlushExpires
    <3>q. QED  BY <1>7, <3>1 DEF TypeOK, Flush
  <2>3. failed' \in BOOLEAN  BY <1>7 DEF TypeOK, Flush
  <2>q. QED  BY <1>7, <2>1, <2>2, <2>3 DEF TypeOK, Flush, identity, local, Horizon
<1>8. ASSUME NEW p \in Procs, FlushRedis(p) PROVE TypeOK'
  <2>1. stored' \in BOOLEAN /\ ttl' \in Int /\ failed' \in BOOLEAN
    BY <1>8, CallTypes, ExpiryAssumption DEF ExpiryAssumption, FlushRedis
  <2>2. pc' = pc \/ \E where \in {"flushset", "using"} : Goto(p, where)
    BY <1>8 DEF FlushRedis
  <2>q. QED  BY <1>8, <2>1, <2>2 DEF TypeOK, FlushRedis, RedisOnly, Goto, local, Horizon
<1>9. ASSUME NEW p \in Procs, Finish(p) PROVE TypeOK'
  BY <1>9, ExpiryAssumption DEF ExpiryAssumption, TypeOK, Before, Horizon, Finish, Goto,
     identity, row, dates, history
<1>10. CASE CleanupMongo
  BY <1>10, ExpiryAssumption DEF ExpiryAssumption, TypeOK, Before, Horizon, CleanupMongo,
     Remove, identity, dates, local, history
<1>11. CASE CleanupShort
  BY <1>11, ExpiryAssumption DEF ExpiryAssumption, TypeOK, Before, Horizon, CleanupShort,
     Remove, identity, dates, local, history
<1>12. CASE CleanupExpired
  BY <1>12, ExpiryAssumption DEF ExpiryAssumption, TypeOK, Before, Horizon,
     CleanupExpired, Remove, identity, row, dates, local, history
<1>13. CASE Tick
  BY <1>13, ExpiryAssumption DEF ExpiryAssumption, TypeOK, Before, Horizon, Tick,
     identity, dates, local, history
<1>14. CASE UNCHANGED vars
  BY <1>14 DEF TypeOK, Before, Horizon, vars, identity, row, dates, local, history
<1>q. QED
  BY <1>1, <1>2, <1>3, <1>4, <1>5, <1>6, <1>7, <1>8, <1>9, <1>10, <1>11, <1>12, <1>13,
     <1>14 DEF Next, Touch

\* Nothing has happened before the session is made.
LEMMA BeforeStep == TypeOK /\ Before /\ [Next]_vars => Before'
<1> SUFFICES ASSUME TypeOK, Before, [Next]_vars PROVE Before'
  OBVIOUS
<1>1. ASSUME NEW p \in Procs, New(p) PROVE Before'
  BY <1>1 DEF Before, AllIdle, Never, TypeOK, New, Goto, history
<1>2. ASSUME NEW p \in Procs, Get(p) PROVE Before'
  BY <1>2 DEF Before, AllIdle, Never, TypeOK, Get, Goto, identity, row, dates
<1>3. ASSUME NEW p \in Procs, TouchMongo(p) \/ Prolong(p) \/ NewExpire(p) \/ TouchRedis(p)
    \/ Flush(p) \/ FlushRedis(p) \/ Finish(p) PROVE Before'
  BY <1>3 DEF Before, AllIdle, Never, TypeOK, TouchMongo, Visited, Goto, Latest, identity,
     Prolong, Prolonged, NewExpire, Expire, Fail, RedisOnly, TouchRedis, Set, SetFails,
     Write, Flush, FlushRedis, Finish, row, dates, history
<1>4. CASE CleanupMongo \/ CleanupShort \/ CleanupExpired \/ Tick
  BY <1>4 DEF Before, AllIdle, Never, TypeOK, CleanupMongo, Remove, identity, dates,
     history, CleanupShort, CleanupExpired, row, Tick
<1>5. CASE UNCHANGED vars
  BY <1>5 DEF Before, AllIdle, Never, TypeOK, vars, identity, row, dates, history
<1>q. QED
  BY <1>1, <1>2, <1>3, <1>4, <1>5 DEF Next, Touch

\* Get notes it when two requests have the session.
LEMMA AloneStep == TypeOK /\ Before /\ Alone /\ [Next]_vars => Alone'
<1> SUFFICES ASSUME TypeOK, Before, Alone, [Next]_vars PROVE Alone'
  OBVIOUS
<1>1. ASSUME NEW p \in Procs, New(p) PROVE Alone'
  BY <1>1 DEF Alone, Before, AllIdle, TypeOK, New, Goto, history
<1>2. ASSUME NEW p \in Procs, Get(p) PROVE Alone'
  BY <1>2 DEF Alone, Before, AllIdle, TypeOK, Get, Goto, identity
<1>3. ASSUME NEW p \in Procs, TouchMongo(p) \/ Prolong(p) \/ NewExpire(p) \/ TouchRedis(p)
    \/ Flush(p) \/ FlushRedis(p) \/ Finish(p) PROVE Alone'
  BY <1>3 DEF Alone, Before, AllIdle, TypeOK, TouchMongo, Visited, Goto, identity,
     Prolong, NewExpire, RedisOnly, TouchRedis, Flush, FlushRedis, Finish, history
<1>4. CASE CleanupMongo \/ CleanupShort \/ CleanupExpired \/ Tick
  BY <1>4 DEF Alone, Before, AllIdle, TypeOK, CleanupMongo, identity, history,
     CleanupShort, CleanupExpired, Tick
<1>5. CASE UNCHANGED vars
  BY <1>5 DEF Alone, Before, AllIdle, TypeOK, vars, identity, history
<1>q. QED
  BY <1>1, <1>2, <1>3, <1>4, <1>5 DEF Next, Touch

\* A mongo request that is alone read the session after every visit.
LEMMA StampStep == TypeOK /\ Before /\ Alone /\ StampsAreLast /\ [Next]_vars =>
    StampsAreLast'
<1> SUFFICES ASSUME TypeOK, Before, Alone, StampsAreLast, [Next]_vars PROVE StampsAreLast'
  OBVIOUS
<1>1. ASSUME NEW p \in Procs, New(p) PROVE StampsAreLast'
  BY <1>1 DEF StampsAreLast, Before, AllIdle, Alone, TypeOK, New, Goto, history
<1>2. ASSUME NEW p \in Procs, Get(p) PROVE StampsAreLast'
  BY <1>2 DEF StampsAreLast, Before, AllIdle, Alone, TypeOK, Get, Goto, identity
<1>3. ASSUME NEW p \in Procs, TouchMongo(p) PROVE StampsAreLast'
  BY <1>3 DEF StampsAreLast, Before, AllIdle, Alone, TypeOK, TouchMongo, Visited, Goto,
     Latest, identity
<1>4. ASSUME NEW p \in Procs, Prolong(p) \/ NewExpire(p) \/ TouchRedis(p) \/ Flush(p) \/
    FlushRedis(p) \/ Finish(p) PROVE StampsAreLast'
  BY <1>4 DEF StampsAreLast, Before, AllIdle, Alone, TypeOK, Prolong, Visited, Goto,
     Latest, identity, NewExpire, RedisOnly, local, TouchRedis, Flush, FlushRedis, Finish,
     history
<1>5. CASE CleanupMongo \/ CleanupShort \/ CleanupExpired \/ Tick
  BY <1>5 DEF StampsAreLast, Before, AllIdle, Alone, TypeOK, CleanupMongo, identity,
     local, history, CleanupShort, CleanupExpired, Tick
<1>6. CASE UNCHANGED vars
  BY <1>6 DEF StampsAreLast, Before, AllIdle, Alone, TypeOK, vars, identity, local,
     history
<1>q. QED
  BY <1>1, <1>2, <1>3, <1>4, <1>5, <1>6 DEF Next, Touch

\* What it writes is then the date of the last visit.
LEMMA MongoStep == TypeOK /\ Before /\ Alone /\ StampsAreLast /\ MongoKept /\ [Next]_vars
    => MongoKept'
<1> SUFFICES ASSUME TypeOK, Before, Alone, StampsAreLast, MongoKept, [Next]_vars PROVE
    MongoKept'
  OBVIOUS
<1>1. ASSUME NEW p \in Procs, New(p) PROVE MongoKept'
  BY <1>1 DEF MongoKept, Before, AllIdle, Alone, StampsAreLast, TypeOK, New, history
<1>2. ASSUME NEW p \in Procs, Get(p) PROVE MongoKept'
  BY <1>2 DEF MongoKept, Before, AllIdle, Alone, StampsAreLast, TypeOK, Get, identity,
     row, dates
<1>3. ASSUME NEW p \in Procs, TouchMongo(p) PROVE MongoKept'
  BY <1>3 DEF MongoKept, Before, AllIdle, Alone, StampsAreLast, TypeOK, TouchMongo,
     Visited, Latest, identity
<1>4. ASSUME NEW p \in Procs, Flush(p) PROVE MongoKept'
  BY <1>4 DEF MongoKept, Before, AllIdle, Alone, StampsAreLast, TypeOK, Flush, identity
<1>5. ASSUME NEW p \in Procs, Prolong(p) \/ NewExpire(p) \/ TouchRedis(p) \/ FlushRedis(p)
    \/ Finish(p) PROVE MongoKept'
  BY <1>5 DEF MongoKept, Before, AllIdle, Alone, StampsAreLast, TypeOK, Prolong, Visited,
     Latest, identity, NewExpire, Expire, Fail, RedisOnly, TouchRedis, Set, SetFails,
     Write, FlushRedis, Finish, row, dates, history
<1>6. CASE CleanupMongo \/ CleanupShort \/ CleanupExpired \/ Tick
  BY <1>6 DEF MongoKept, Before, AllIdle, Alone, StampsAreLast, TypeOK, CleanupMongo,
     Remove, identity, dates, history, CleanupShort, CleanupExpired, row, Tick
<1>7. CASE UNCHANGED vars
  BY <1>7 DEF MongoKept, Before, AllIdle, Alone, StampsAreLast, TypeOK, vars, identity,
     row, dates, history
<1>q. QED
  BY <1>1, <1>2, <1>3, <1>4, <1>5, <1>6, <1>7 DEF Next, Touch

LEMMA Sums == \A a, b, c, d \in Nat : a <= b /\ c <= d => a + c <= b + d
  OBVIOUS

\* EXPIRE gives a key at least the 30 days of the last visit.
LEMMA ExpireRenews ==
  ASSUME TypeOK, NEW life \in Nat, ReadLife <= life, Expire(life), lastVisit' \in 0..now
  PROVE  RedisKept'
<1>1. CASE stored
  <2>1. ttl' = now + life  BY <1>1 DEF Expire
  <2>2. lastVisit' + ReadLife <= ttl'
    <3>1. now \in Nat  BY DEF TypeOK
    <3>2. ReadLife \in Nat  BY ExpiryAssumption DEF ExpiryAssumption
    <3>3. lastVisit' \in Nat /\ lastVisit' <= now  BY <3>1
    <3>4. lastVisit' + ReadLife <= now + life  BY <3>1, <3>2, <3>3, Sums
    <3>q. QED  BY <2>1, <3>4
  <2>q. QED  BY <2>2 DEF RedisKept
<1>2. CASE ~stored  BY <1>2 DEF Expire, RedisKept
<1>q. QED  BY <1>1, <1>2

LEMMA CallsKeep ==
  ASSUME TypeOK, Set \/ SetFails \/ Fail, RedisKept, UNCHANGED lastVisit
  PROVE  RedisKept'
<1>1. CASE Set       BY <1>1 DEF Set, Write, RedisKept
<1>2. CASE SetFails  BY <1>2 DEF SetFails, RedisKept
<1>3. CASE Fail      BY <1>3 DEF Fail, RedisKept
<1>q. QED  BY <1>1, <1>2, <1>3

\* So a redis key outlives them, whatever calls interleave.
LEMMA RedisStep == TypeOK /\ Before /\ RedisKept /\ [Next]_vars => RedisKept'
<1> SUFFICES ASSUME TypeOK, Before, RedisKept, [Next]_vars PROVE RedisKept'
  OBVIOUS
<1>1. ASSUME NEW p \in Procs, New(p) PROVE RedisKept'
  BY <1>1, ExpiryAssumption DEF ExpiryAssumption, RedisKept, Before, Never, TypeOK, New,
     history
<1>2. ASSUME NEW p \in Procs, NewExpire(p) PROVE RedisKept'
  <2>1. UNCHANGED lastVisit  BY <1>2 DEF NewExpire
  <2>2. CASE Fail  BY <2>1, <2>2, CallsKeep
  <2>3. CASE Expire(WriteLife)
    BY <2>1, <2>3, ExpireRenews, ExpiryAssumption DEF ExpiryAssumption, TypeOK
  <2>q. QED  BY <1>2, <2>2, <2>3 DEF NewExpire
<1>3. ASSUME NEW p \in Procs, TouchRedis(p) PROVE RedisKept'
  <2>1. lastVisit' \in 0..now
    BY <1>3 DEF TypeOK, TouchRedis, Visited, Latest
  <2>2. CASE Expire(WriteLife) \/ Expire(ReadLife)
    BY <2>1, <2>2, ExpireRenews, ExpiryAssumption DEF ExpiryAssumption
  <2>3. CASE Set \/ SetFails
    BY <2>3 DEF Set, SetFails, Write, RedisKept
  <2>4. CASE Fail  BY <2>4 DEF Fail, RedisKept
  <2>q. QED  BY <1>3, <2>2, <2>3, <2>4 DEF TouchRedis
<1>4. ASSUME NEW p \in Procs, FlushRedis(p) PROVE RedisKept'
  <2>1. UNCHANGED lastVisit  BY <1>4 DEF FlushRedis
  <2>2. CASE Set \/ SetFails \/ Fail  BY <2>1, <2>2, CallsKeep
  <2>3. CASE Expire(WriteLife)
    BY <2>1, <2>3, ExpireRenews, ExpiryAssumption DEF ExpiryAssumption, TypeOK
  <2>q. QED  BY <1>4, <2>2, <2>3 DEF FlushRedis
<1>5. CASE Tick
  BY <1>5, ExpiryAssumption DEF ExpiryAssumption, RedisKept, Before, Never, TypeOK, Tick,
     identity, dates, history
<1>6. ASSUME NEW p \in Procs, Get(p) \/ TouchMongo(p) \/ Prolong(p) \/ Flush(p) \/
    Finish(p) PROVE RedisKept'
  BY <1>6, ExpiryAssumption DEF ExpiryAssumption, RedisKept, Before, Never, TypeOK, Get,
     AllIdle, identity, row, dates, TouchMongo, Visited, Latest, Prolong, Flush, Finish,
     history
<1>7. CASE CleanupMongo \/ CleanupShort \/ CleanupExpired
  BY <1>7, ExpiryAssumption DEF ExpiryAssumption, RedisKept, Before, Never, TypeOK,
     CleanupMongo, Remove, identity, dates, history, CleanupShort, CleanupExpired, row
<1>8. CASE UNCHANGED vars
  BY <1>8 DEF RedisKept, Before, Never, TypeOK, vars, identity, row, dates, history
<1>q. QED
  BY <1>1, <1>2, <1>3, <1>4, <1>5, <1>6, <1>7, <1>8 DEF Next, Touch

\* A flush never sets a date in the past.
LEMMA WrittenStep == TypeOK /\ Before /\ Written /\ [Next]_vars => Written'
<1> SUFFICES ASSUME TypeOK, Before, Written, [Next]_vars PROVE Written'
  OBVIOUS
<1>1. ASSUME NEW p \in Procs, New(p) PROVE Written'
  BY <1>1, ExpiryAssumption DEF ExpiryAssumption, Written, Before, TypeOK, New, history
<1>2. ASSUME NEW p \in Procs, Flush(p) PROVE Written'
  BY <1>2, ExpiryAssumption DEF ExpiryAssumption, Written, Before, TypeOK, Flush,
     FlushExpires, identity
<1>3. ASSUME NEW p \in Procs, Get(p) \/ TouchMongo(p) \/ Prolong(p) \/ NewExpire(p) \/
    TouchRedis(p) \/ FlushRedis(p) \/ Finish(p) PROVE Written'
  BY <1>3, ExpiryAssumption DEF ExpiryAssumption, Written, Before, TypeOK, Get, AllIdle,
     identity, row, dates, TouchMongo, Prolong, NewExpire, Expire, Fail, RedisOnly,
     TouchRedis, Set, SetFails, Write, FlushRedis, Finish, history
<1>4. CASE CleanupMongo \/ CleanupShort \/ CleanupExpired \/ Tick
  BY <1>4, ExpiryAssumption DEF ExpiryAssumption, Written, Before, TypeOK, CleanupMongo,
     Remove, identity, dates, history, CleanupShort, CleanupExpired, row, Tick
<1>5. CASE UNCHANGED vars
  BY <1>5 DEF Written, Before, TypeOK, vars, identity, row, dates, history
<1>q. QED
  BY <1>1, <1>2, <1>3, <1>4, <1>5 DEF Next, Touch

\* Without overlap mysql counts the visits.
LEMMA CountedStep == TypeOK /\ Before /\ Alone /\ Counted /\ [Next]_vars => Counted'
<1> SUFFICES ASSUME TypeOK, Before, Alone, Counted, [Next]_vars PROVE Counted'
  OBVIOUS
<1>1. ASSUME NEW p \in Procs, New(p) PROVE Counted'
  BY <1>1, ExpiryAssumption DEF ExpiryAssumption, Counted, Before, AllIdle, Alone, TypeOK,
     New, Goto, history
<1>2. ASSUME NEW p \in Procs, Get(p) PROVE Counted'
  BY <1>2, ExpiryAssumption DEF ExpiryAssumption, Counted, Before, AllIdle, Alone, TypeOK,
     Get, Goto, identity, row, dates
<1>3. ASSUME NEW p \in Procs, Prolong(p) PROVE Counted'
  BY <1>3, ExpiryAssumption DEF ExpiryAssumption, Counted, Before, AllIdle, Alone, TypeOK,
     Prolong, Prolonged, Visited, Goto, identity
<1>4. ASSUME NEW p \in Procs, TouchMongo(p) \/ NewExpire(p) \/ TouchRedis(p) \/ Flush(p)
    \/ FlushRedis(p) \/ Finish(p) PROVE Counted'
  BY <1>4, ExpiryAssumption DEF ExpiryAssumption, Counted, Before, AllIdle, Alone, TypeOK,
     TouchMongo, Visited, Goto, identity, NewExpire, Expire, Fail, RedisOnly, local,
     TouchRedis, Set, SetFails, Write, Flush, FlushRedis, Finish, row, dates, history
<1>5. CASE CleanupMongo \/ CleanupShort \/ CleanupExpired \/ Tick
  BY <1>5, ExpiryAssumption DEF ExpiryAssumption, Counted, Before, AllIdle, Alone, TypeOK,
     CleanupMongo, Remove, identity, dates, local, history, CleanupShort, CleanupExpired,
     row, Tick
<1>6. CASE UNCHANGED vars
  BY <1>6 DEF Counted, Before, AllIdle, Alone, TypeOK, vars, identity, row, dates, local,
     history
<1>q. QED
  BY <1>1, <1>2, <1>3, <1>4, <1>5, <1>6 DEF Next, Touch

\* With overlap it may miss visits, and never counts one too many.
LEMMA BehindStep == TypeOK /\ Before /\ Behind /\ [Next]_vars => Behind'
<1> SUFFICES ASSUME TypeOK, Before, Behind, [Next]_vars PROVE Behind'
  OBVIOUS
<1>1. ASSUME NEW p \in Procs, New(p) PROVE Behind'
  BY <1>1, ExpiryAssumption DEF ExpiryAssumption, Behind, Before, AllIdle, TypeOK, New,
     history
<1>2. ASSUME NEW p \in Procs, Get(p) PROVE Behind'
  BY <1>2, ExpiryAssumption DEF ExpiryAssumption, Behind, Before, AllIdle, TypeOK, Get,
     row, dates
<1>3. ASSUME NEW p \in Procs, Prolong(p) PROVE Behind'
  BY <1>3, ExpiryAssumption DEF ExpiryAssumption, Behind, Before, AllIdle, TypeOK,
     Prolong, Prolonged, Visited
<1>4. ASSUME NEW p \in Procs, TouchMongo(p) \/ NewExpire(p) \/ TouchRedis(p) \/ Flush(p)
    \/ FlushRedis(p) \/ Finish(p) PROVE Behind'
  BY <1>4, ExpiryAssumption DEF ExpiryAssumption, Behind, Before, AllIdle, TypeOK,
     TouchMongo, Visited, NewExpire, RedisOnly, local, TouchRedis, Flush, FlushRedis,
     Finish, row, dates, history
<1>5. CASE CleanupMongo \/ CleanupShort \/ CleanupExpired \/ Tick
  BY <1>5, ExpiryAssumption DEF ExpiryAssumption, Behind, Before, AllIdle, TypeOK,
     CleanupMongo, dates, local, history, CleanupShort, CleanupExpired, row, Tick
<1>6. CASE UNCHANGED vars
  BY <1>6 DEF Behind, Before, AllIdle, TypeOK, vars, row, dates, local, history
<1>q. QED
  BY <1>1, <1>2, <1>3, <1>4, <1>5, <1>6 DEF Next, Touch

\* The short life covers the term, also when a statement sets back a count that another
\* has raised.
LEMMA ShortStep == TypeOK /\ Before /\ Alone /\ Counted /\ Behind /\ ShortKept /\
    NothingToProlong /\ [Next]_vars => ShortKept'
<1> SUFFICES ASSUME TypeOK, Before, Alone, Counted, Behind, ShortKept, NothingToProlong,
    [Next]_vars PROVE ShortKept'
  OBVIOUS
<1>1. ASSUME NEW p \in Procs, New(p) PROVE ShortKept'
  BY <1>1, ExpiryAssumption DEF ExpiryAssumption, ShortKept, Before, AllIdle, Alone,
     Counted, NothingToProlong, Term, TypeOK, New, history
<1>2. ASSUME NEW p \in Procs, Get(p) PROVE ShortKept'
  BY <1>2, ExpiryAssumption DEF ExpiryAssumption, ShortKept, Before, AllIdle, Alone,
     Counted, NothingToProlong, Term, TypeOK, Get, identity, row, dates
<1>3. ASSUME NEW p \in Procs, TouchMongo(p) PROVE ShortKept'
  BY <1>3, ExpiryAssumption DEF ExpiryAssumption, ShortKept, Before, AllIdle, Alone,
     Counted, NothingToProlong, Term, TypeOK, TouchMongo, Visited, Latest, identity
<1>4. ASSUME NEW p \in Procs, Prolong(p) PROVE ShortKept'
  <2>. SUFFICES ASSUME driver = "mysql", stored, ~failed', shortcount' < 4
                PROVE  lastVisit' + Term' <= shortexpires'
    BY <1>4 DEF ShortKept, Prolong, identity
  <2>1. /\ pc[p] = "read" /\ UNCHANGED <<now, overlapped>> /\ Prolonged(p) /\ ~failed
        /\ visits' = IF visits < 4 THEN visits + 1 ELSE 4
        /\ lastVisit' = Latest(lastVisit, stamp[p])
    BY <1>4 DEF TypeOK, Prolong, Visited
  <2>2. /\ visits' \in 1..4 /\ lastVisit' \in 0..now /\ stamp[p] \in 0..now
        /\ lastVisit' \in {lastVisit, stamp[p]}
    BY <2>1 DEF TypeOK, Latest
  <2>3. CASE count[p] < 4
    <3>1. count[p] + 1 \in 1..4 /\ shortexpires' = now + Short[count[p] + 1]
      BY <2>1, <2>3 DEF TypeOK, Prolonged
    <3>2. Term' <= Short[count[p] + 1]
      <4>1. CASE overlapped
        BY <2>1, <2>2, <3>1, <4>1, ExpiryAssumption DEF ExpiryAssumption, Term
      <4>2. CASE ~overlapped
        BY <2>1, <2>2, <2>3, <3>1, <4>2, ExpiryAssumption
        DEF ExpiryAssumption, Term, Counted, TypeOK
      <4>q. QED  BY <4>1, <4>2
    <3>3. Term' \in Nat /\ Short[count[p] + 1] \in Nat
      BY <2>1, <2>2, <3>1, ExpiryAssumption DEF ExpiryAssumption, Term, TypeOK
    <3>q. QED  BY <2>2, <3>1, <3>2, <3>3 DEF TypeOK
  <2>4. CASE ~(count[p] < 4)
    <3>1. count[p] = 4 /\ UNCHANGED <<shortcount, shortexpires>>
      BY <2>1, <2>4 DEF TypeOK, Prolonged
    <3>2. overlapped
      BY <2>1, <3>1 DEF Counted
    <3>3. Term' = Short[1] /\ Short[1] \in Nat
      BY <2>1, <2>2, <3>2, ExpiryAssumption DEF ExpiryAssumption, Term
    <3>4. stamp[p] + Short[1] <= shortexpires'
      BY <2>1, <3>1 DEF NothingToProlong
    <3>5. lastVisit + Short[1] <= shortexpires'
      <4>1. lastVisit + Term <= shortexpires'
        BY <2>1, <3>1 DEF ShortKept
      <4>2. Term = Short[1]
        BY <3>1, <3>2 DEF Behind, Term, TypeOK
      <4>q. QED  BY <4>1, <4>2
    <3>q. QED  BY <2>2, <3>3, <3>4, <3>5
  <2>q. QED  BY <2>3, <2>4
<1>5. ASSUME NEW p \in Procs, NewExpire(p) PROVE ShortKept'
  BY <1>5, ExpiryAssumption DEF ExpiryAssumption, ShortKept, Before, AllIdle, Alone,
     Counted, NothingToProlong, Term, TypeOK, NewExpire, Expire, Fail, RedisOnly
<1>6. ASSUME NEW p \in Procs, TouchRedis(p) PROVE ShortKept'
  BY <1>6, ExpiryAssumption DEF ExpiryAssumption, ShortKept, Before, AllIdle, Alone,
     Counted, NothingToProlong, Term, TypeOK, TouchRedis, Set, SetFails, Write, Expire,
     Fail, RedisOnly, Visited, Latest
<1>7. ASSUME NEW p \in Procs, Flush(p) PROVE ShortKept'
  BY <1>7, ExpiryAssumption DEF ExpiryAssumption, ShortKept, Before, AllIdle, Alone,
     Counted, NothingToProlong, Term, TypeOK, Flush, identity
<1>8. ASSUME NEW p \in Procs, FlushRedis(p) PROVE ShortKept'
  BY <1>8, ExpiryAssumption DEF ExpiryAssumption, ShortKept, Before, AllIdle, Alone,
     Counted, NothingToProlong, Term, TypeOK, FlushRedis, Set, SetFails, Write, Expire,
     Fail, RedisOnly
<1>9. ASSUME NEW p \in Procs, Finish(p) PROVE ShortKept'
  BY <1>9, ExpiryAssumption DEF ExpiryAssumption, ShortKept, Before, AllIdle, Alone,
     Counted, NothingToProlong, Term, TypeOK, Finish, identity, row, dates, history
<1>10. CASE CleanupMongo
  BY <1>10, ExpiryAssumption DEF ExpiryAssumption, ShortKept, Before, AllIdle, Alone,
     Counted, NothingToProlong, Term, TypeOK, CleanupMongo, Remove, identity, dates,
     history
<1>11. CASE CleanupShort
  BY <1>11, ExpiryAssumption DEF ExpiryAssumption, ShortKept, Before, AllIdle, Alone,
     Counted, NothingToProlong, Term, TypeOK, CleanupShort, Remove, identity, dates,
     history
<1>12. CASE CleanupExpired
  BY <1>12, ExpiryAssumption DEF ExpiryAssumption, ShortKept, Before, AllIdle, Alone,
     Counted, NothingToProlong, Term, TypeOK, CleanupExpired, Remove, identity, row,
     dates, history
<1>13. CASE Tick
  BY <1>13, ExpiryAssumption DEF ExpiryAssumption, ShortKept, Before, AllIdle, Alone,
     Counted, NothingToProlong, Term, TypeOK, Tick, identity, dates, history
<1>14. CASE UNCHANGED vars
  BY <1>14 DEF ShortKept, Before, AllIdle, Alone, Counted, NothingToProlong, Term, TypeOK,
     vars, identity, row, dates, history
<1>q. QED
  BY <1>1, <1>2, <1>3, <1>4, <1>5, <1>6, <1>7, <1>8, <1>9, <1>10, <1>11, <1>12, <1>13,
     <1>14 DEF Next, Touch

\* ... and a visit that finds the count at its end prolongs nothing: if
\* another then sets the count back, it was later and its term is longer.
LEMMA NothingStep == TypeOK /\ Before /\ NothingToProlong /\ [Next]_vars =>
    NothingToProlong'
<1> SUFFICES ASSUME TypeOK, Before, NothingToProlong, [Next]_vars PROVE NothingToProlong'
  OBVIOUS
<1>1. ASSUME NEW p \in Procs, New(p) PROVE NothingToProlong'
  BY <1>1, ExpiryAssumption DEF ExpiryAssumption, NothingToProlong, Before, AllIdle,
     TypeOK, New, Goto, history
<1>2. ASSUME NEW p \in Procs, Get(p) PROVE NothingToProlong'
  BY <1>2, ExpiryAssumption DEF ExpiryAssumption, NothingToProlong, Before, AllIdle,
     TypeOK, Get, Goto, identity, row, dates
<1>3. ASSUME NEW p \in Procs, Prolong(p) PROVE NothingToProlong'
  BY <1>3, ExpiryAssumption DEF ExpiryAssumption, NothingToProlong, Before, AllIdle,
     TypeOK, Prolong, Prolonged, Visited, Goto, identity
<1>4. ASSUME NEW p \in Procs, TouchMongo(p) \/ NewExpire(p) \/ TouchRedis(p) \/ Flush(p)
    \/ FlushRedis(p) \/ Finish(p) PROVE NothingToProlong'
  BY <1>4, ExpiryAssumption DEF ExpiryAssumption, NothingToProlong, Before, AllIdle,
     TypeOK, TouchMongo, Visited, Goto, identity, NewExpire, Expire, Fail, RedisOnly,
     local, TouchRedis, Set, SetFails, Write, Flush, FlushRedis, Finish, row, dates,
     history
<1>5. CASE CleanupMongo \/ CleanupShort \/ CleanupExpired \/ Tick
  BY <1>5, ExpiryAssumption DEF ExpiryAssumption, NothingToProlong, Before, AllIdle,
     TypeOK, CleanupMongo, Remove, identity, dates, local, history, CleanupShort,
     CleanupExpired, row, Tick
<1>6. CASE UNCHANGED vars
  BY <1>6 DEF NothingToProlong, Before, AllIdle, TypeOK, vars, identity, row, dates,
     local, history
<1>q. QED
  BY <1>1, <1>2, <1>3, <1>4, <1>5, <1>6 DEF Next, Touch

\* Only mysql's Cleanup has two steps.
LEMMA SweepStep == TypeOK /\ Sweeping /\ [Next]_vars => Sweeping'
<1> SUFFICES ASSUME TypeOK, Sweeping, [Next]_vars PROVE Sweeping'
  OBVIOUS
<1>1. CASE CleanupShort
  BY <1>1 DEF Sweeping, TypeOK, CleanupShort, identity
<1>2. CASE CleanupExpired
  BY <1>2 DEF Sweeping, TypeOK, CleanupExpired, identity
<1>3. ASSUME NEW p \in Procs, New(p) \/ Get(p) \/ TouchMongo(p) \/ Prolong(p) \/
    NewExpire(p) \/ TouchRedis(p) \/ Flush(p) \/ FlushRedis(p) \/ Finish(p) PROVE
    Sweeping'
  BY <1>3 DEF Sweeping, TypeOK, New, Get, AllIdle, identity, TouchMongo, Prolong,
     NewExpire, RedisOnly, TouchRedis, Flush, FlushRedis, Finish
<1>4. CASE CleanupMongo \/ Tick
  BY <1>4 DEF Sweeping, TypeOK, CleanupMongo, identity, Tick
<1>5. CASE UNCHANGED vars
  BY <1>5 DEF Sweeping, TypeOK, vars, identity
<1>q. QED
  BY <1>1, <1>2, <1>3, <1>4, <1>5 DEF Next, Touch

\* EXPIRE gives a key that is there a time to live.
LEMMA ExpireGives ==
  ASSUME TypeOK, NEW life \in Nat, Expire(life)
  PROVE  KeysExpire'
<1>1. CASE stored
  <2>1. ttl' # Never
    <3>1. now \in Nat  BY DEF TypeOK
    <3>2. ttl' = now + life  BY <1>1 DEF Expire
    <3>q. QED  BY <3>1, <3>2 DEF Never
  <2>q. QED  BY <2>1 DEF KeysExpire
<1>2. CASE ~stored  BY <1>2 DEF Expire, KeysExpire
<1>q. QED  BY <1>1, <1>2

\* A redis key has no time to live only while a call that gives it one is under way.
LEMMA ExpireStep == TypeOK /\ Before /\ KeysExpire /\ [Next]_vars => KeysExpire'
<1> SUFFICES ASSUME TypeOK, Before, KeysExpire, [Next]_vars PROVE KeysExpire'
  OBVIOUS
<1>1. ASSUME NEW p \in Procs, New(p) PROVE KeysExpire'
  BY <1>1 DEF KeysExpire, Before, AllIdle, Never, TypeOK, New, Goto, history
<1>2. ASSUME NEW p \in Procs, Get(p) PROVE KeysExpire'
  BY <1>2 DEF KeysExpire, Before, AllIdle, Never, TypeOK, Get, Goto, identity, row, dates
<1>3. ASSUME NEW p \in Procs, NewExpire(p) PROVE KeysExpire'
  <2>1. CASE Fail  BY <2>1 DEF Fail, KeysExpire
  <2>2. CASE Expire(WriteLife)  
    BY <2>2, ExpireGives, ExpiryAssumption DEF ExpiryAssumption
  <2>q. QED  BY <1>3, <2>1, <2>2 DEF NewExpire
<1>4. ASSUME NEW p \in Procs, TouchRedis(p) PROVE KeysExpire'
  <2>1. CASE Fail \/ SetFails  BY <2>1 DEF Fail, SetFails, KeysExpire
  <2>2. CASE Expire(WriteLife) \/ Expire(ReadLife)
    BY <2>2, ExpireGives, ExpiryAssumption DEF ExpiryAssumption
  <2>3. CASE Set /\ Goto(p, "readset")
    BY <2>3 DEF TypeOK, Goto, KeysExpire
  <2>q. QED  BY <1>4, <2>1, <2>2, <2>3 DEF TouchRedis
<1>5. ASSUME NEW p \in Procs, FlushRedis(p) PROVE KeysExpire'
  <2>1. CASE Fail \/ SetFails  BY <2>1 DEF Fail, SetFails, KeysExpire
  <2>2. CASE Expire(WriteLife)  
    BY <2>2, ExpireGives, ExpiryAssumption DEF ExpiryAssumption
  <2>3. CASE Set /\ Goto(p, "flushset")
    BY <2>3 DEF TypeOK, Goto, KeysExpire
  <2>q. QED  BY <1>5, <2>1, <2>2, <2>3 DEF FlushRedis
<1>6. ASSUME NEW p \in Procs, Finish(p) PROVE KeysExpire'
  BY <1>6 DEF KeysExpire, Before, AllIdle, Never, TypeOK, Finish, Goto, identity, row,
     dates, history
<1>7. ASSUME NEW p \in Procs, TouchMongo(p) \/ Prolong(p) \/ Flush(p) PROVE KeysExpire'
  BY <1>7 DEF KeysExpire, Before, AllIdle, Never, TypeOK, TouchMongo, Visited, Goto,
     identity, Prolong, Flush
<1>8. CASE CleanupMongo \/ CleanupShort \/ CleanupExpired \/ Tick
  BY <1>8 DEF KeysExpire, Before, AllIdle, Never, TypeOK, CleanupMongo, Remove, identity,
     dates, history, CleanupShort, CleanupExpired, row, Tick
<1>9. CASE UNCHANGED vars
  BY <1>9 DEF KeysExpire, Before, AllIdle, Never, TypeOK, vars, identity, row, dates,
     history
<1>q. QED
  BY <1>1, <1>2, <1>3, <1>4, <1>5, <1>6, <1>7, <1>8, <1>9 DEF Next, Touch

LEMMA Invariance == Spec => []IInv
<1>1. Init => IInv
  <2>1. Init => TypeOK
    <3>1. 0 \in 0..Horizon /\ Never \in Int
      BY ExpiryAssumption DEF ExpiryAssumption, Horizon, Never
    <3>2. Init => /\ now \in 0..Horizon /\ ttl \in Int
                  /\ updated \in 0..now /\ lastVisit \in 0..now /\ lastWrite \in 0..now
      BY <3>1 DEF Init
    <3>3. Init => /\ stamp \in [Procs -> 0..now] /\ count \in [Procs -> 0..4]
                  /\ shortcount \in 0..4 /\ visits \in 0..4
                  /\ expires \in Nat /\ shortexpires \in Nat
      BY DEF Init
    <3>4. Init => pc \in [Procs -> {"idle", "newexpire", "usingnew", "read", "readset",
                                   "readexpire", "using", "flushset"}]
      BY DEF Init
    <3>5. Init => /\ driver \in Drivers /\ made \in BOOLEAN /\ issued \in BOOLEAN
                  /\ stored \in BOOLEAN /\ cleaning \in BOOLEAN
                  /\ overlapped \in BOOLEAN /\ failed \in BOOLEAN
      BY DEF Init
    <3>q. QED  BY <3>2, <3>3, <3>4, <3>5 DEF TypeOK
  <2>2. Init => /\ Before /\ Alone /\ Sweeping /\ StampsAreLast /\ MongoKept
                /\ RedisKept /\ Written
                /\ Counted /\ Behind
    BY DEF Init, Before, AllIdle, Alone, Sweeping, StampsAreLast, MongoKept, RedisKept,
           Written,
           Counted, Behind
  <2>3. Init => ShortKept /\ NothingToProlong
    BY DEF Init, ShortKept, NothingToProlong
  <2>q. QED  BY <2>1, <2>2, <2>3 DEF IInv
<1>2. IInv /\ [Next]_vars => IInv'
  BY TypeStep, BeforeStep, AloneStep, SweepStep, StampStep, MongoStep, RedisStep, WrittenStep,
     CountedStep, BehindStep, ShortStep, NothingStep DEF IInv
<1>q. QED  BY <1>1, <1>2, PTL DEF Spec

\* Every variable has its type, and no history is ahead of the clock.
THEOREM TypeCorrect == Spec => []TypeOK
  BY Invariance, PTL DEF IInv

\* Unless a call failed, a redis key that has no time to live is about to get one:
\* PutSession's SET takes it away, and only the same call's EXPIRE gives it back.
THEOREM KeysGetALife == Spec => []KeysExpire
<1>1. Init => KeysExpire  BY DEF Init, KeysExpire
<1>2. IInv /\ KeysExpire /\ [Next]_vars => KeysExpire'  BY ExpireStep DEF IInv
<1>q. QED  BY <1>1, <1>2, Invariance, PTL DEF Spec

\* A session goes only when it is due.  Only the three deletions and the clock take one.
LEMMA GoesWhenDue == IInv /\ [Next]_vars => (stored /\ ~stored' => Due \/ failed)
<1> SUFFICES ASSUME IInv, [Next]_vars, stored, ~stored', ~failed PROVE Due
  OBVIOUS
<1>0. Term \in Nat
  BY ExpiryAssumption DEF ExpiryAssumption, IInv, TypeOK, Term
<1>1. CASE CleanupMongo
  BY <1>1, ExpiryAssumption DEF ExpiryAssumption, CleanupMongo, identity, Due, IInv, TypeOK,
     MongoKept
<1>2. CASE CleanupShort
  <2>1. driver = "mysql" /\ shortcount < 4 /\ shortexpires < now /\ now' = now
    BY <1>2 DEF CleanupShort
  <2>2. lastVisit + Term < now'
    BY <1>0, <2>1 DEF IInv, TypeOK, ShortKept
  <2>3. overlapped \/ visits < 4
    BY <2>1 DEF IInv, Counted
  <2>q. QED  BY <2>1, <2>2, <2>3 DEF Due
<1>3. CASE CleanupExpired
  <2>1. driver = "mysql" /\ expires < now - Keep /\ now' = now
    BY <1>3 DEF CleanupExpired, IInv, Sweeping
  <2>2. lastWrite + Keep < now'
    BY <2>1, ExpiryAssumption DEF ExpiryAssumption, IInv, TypeOK, Written
  <2>q. QED  BY <2>1, <2>2 DEF Due
<1>4. CASE Tick
  <2>1. driver = "redis" /\ ttl # Never /\ ttl <= now'
    BY <1>4 DEF Tick
  <2>2. lastVisit + ReadLife <= now'
    BY <1>4, <2>1, ExpiryAssumption DEF ExpiryAssumption, Tick, IInv, TypeOK, RedisKept
  <2>q. QED  BY <2>1, <2>2 DEF Due
<1>5. ASSUME NEW p \in Procs, New(p) \/ Get(p) \/ Finish(p) \/ TouchMongo(p) \/ Prolong(p)
                               \/ Flush(p)
      PROVE  stored'
  BY <1>5 DEF New, Get, Finish, TouchMongo, Prolong, Flush, row
<1>6. ASSUME NEW p \in Procs, NewExpire(p) \/ TouchRedis(p) \/ FlushRedis(p)
      PROVE  stored'
  BY <1>6 DEF NewExpire, TouchRedis, FlushRedis, Set, SetFails, Write, Expire, Fail
<1>7. CASE UNCHANGED vars
  BY <1>7 DEF vars, row
<1>q. QED
  BY <1>1, <1>2, <1>3, <1>4, <1>5, <1>6, <1>7 DEF Next, Touch

\* With any driver, any lives and any requests: unless a call failed, nobody takes a
\* session from the store before it is due.
THEOREM SessionsAreKept == Spec => KeptWhilePromised
<1>1. IInv /\ [Next]_vars => [stored /\ ~stored' => Due \/ failed]_vars
  BY GoesWhenDue
<1>q. QED  BY <1>1, Invariance, PTL DEF Spec, KeptWhilePromised
=============================================================================
