--------------------------- MODULE SessionExpiry ---------------------------
(***************************************************************************)
(* How long the drivers that keep sessions elsewhere keep one: the dates of *)
(* ONE session (sessmgo, sessredis, sessmysql), the requests that present   *)
(* its cookie, the maintenance of sessions and the clock.                   *)
(*   mongo   `updated' is set from the clock of the request that reads the  *)
(*           session, and written with every flush of that request;         *)
(*   redis   the key has a time to live: SET takes it away, EXPIRE gives a  *)
(*           new one, and these are calls of their own;                     *)
(*   mysql   `expires' is set by a flush; `shortexpires' by a visit, from a *)
(*           `shortcount' that another statement has read.                  *)
(* Calls of a driver fail at any time, and GetSession drops most of their   *)
(* errors.  (sessmemory does all under one lock: see SessionStore.)         *)
(***************************************************************************)
EXTENDS Integers

CONSTANTS Procs,        \* goroutines that serve requests
          Drivers,      \* the drivers the runs choose from
          Short,        \* 0..4: 10 minutes, 30 minutes, 5 hours, 5 days, 5 months
          NewLife,      \* an hour, GetExpires without a request
          FlushLife,    \* 3 hours, GetExpires for a cookie that has no date
          Keep,         \* 15 days, routineSessionMaintenance
          ReadLife,     \* 30 days, redis
          WriteLife,    \* 60 days, redis
          CookieLife,   \* a month
          Grace         \* bound: how long after the end of the cookie requests
                        \* that sent it may still run
ASSUME ExpiryAssumption ==
    /\ Drivers \subseteq {"mongo", "redis", "mysql"}
    /\ Short \in [0..4 -> Nat]
    /\ \A i, j \in 0..4 : i <= j => Short[i] <= Short[j]
    /\ NewLife \in Nat /\ FlushLife \in Nat /\ Keep \in Nat
    /\ ReadLife \in Nat /\ WriteLife \in Nat /\ ReadLife <= WriteLife
    /\ CookieLife \in Nat /\ Grace \in Nat

VARIABLES driver,
          now,
          made,         \* the session was created
          issued,       \* ... and the client has its cookie
          stored,       \* ... and the store has it
          updated,      \* mongo
          ttl,          \* redis: when the key goes; Never
          expires, shortexpires, shortcount,    \* mysql
          cleaning,     \* mysql: Cleanup is between its two deletions
          pc,           \* where each request stands
          stamp,        \* the time it read the session
          count,        \* mysql: the shortcount it read
          visits,       \* history: completed GetSession calls, up to 4
          lastVisit,    \* history: when the last of them read the session
          lastWrite,    \* history: when mysql last stored it
          overlapped,   \* history: two requests had the session at once
          failed        \* history: a call of the driver failed

dates == <<updated, ttl, expires, shortexpires, shortcount>>
row == <<stored, dates>>
identity == <<driver, made, issued>>
local == <<stamp, count>>
history == <<visits, lastVisit, lastWrite, overlapped, failed>>
vars == <<identity, now, row, cleaning, pc, local, history>>

Never == -1

Latest(a, b) == IF a < b THEN b ELSE a

Goto(p, where) == pc' = [pc EXCEPT ![p] = where]

AllIdle == \A p \in Procs : pc[p] = "idle"

-----------------------------------------------------------------------------
Init ==
    /\ driver \in Drivers
    /\ now = 0
    /\ made = FALSE /\ issued = FALSE /\ stored = FALSE
    /\ updated = 0
    /\ ttl = Never
    /\ expires = 0 /\ shortexpires = 0 /\ shortcount = 0
    /\ cleaning = FALSE
    /\ pc = [p \in Procs |-> "idle"]
    /\ stamp = [p \in Procs |-> 0]
    /\ count = [p \in Procs |-> 0]
    /\ visits = 0 /\ lastVisit = 0 /\ lastWrite = 0
    /\ overlapped = FALSE /\ failed = FALSE

\* The driver's NewSession, at time 0, for a request without a cookie: the
\* request goes on with a session that GetExpires finds no cookie for.
New(p) ==
    /\ ~made
    /\ made' = TRUE
    /\ stored' = TRUE
    /\ stamp' = [stamp EXCEPT ![p] = now]
    /\ updated' = IF driver = "mongo" THEN now ELSE updated
    /\ expires' = IF driver = "mysql" THEN now + NewLife ELSE expires
    /\ shortexpires' = IF driver = "mysql" THEN now + Short[0] ELSE shortexpires
    /\ Goto(p, IF driver = "redis" THEN "newexpire" ELSE "usingnew")
    /\ issued' = (driver # "redis")
    /\ UNCHANGED <<driver, now, ttl, shortcount, cleaning, count, history>>

-----------------------------------------------------------------------------
\* GetSession, for a request whose client still has the cookie.

\* The driver reads the session.  (When it is gone, or the call fails, the
\* request gets a session of another id.)
Get(p) ==
    /\ issued /\ stored
    /\ pc[p] = "idle"
    /\ now < CookieLife
    /\ stamp' = [stamp EXCEPT ![p] = now]
    /\ count' = [count EXCEPT ![p] = shortcount]
    /\ overlapped' = (overlapped \/ ~AllIdle)
    /\ Goto(p, "read")
    /\ UNCHANGED <<identity, now, row, cleaning, visits, lastVisit, lastWrite,
                   failed>>

\* GetSession returns the session to the handler; what it has read is garbage,
\* but for the time stamp in a mongo session.
Visited(p) ==
    /\ stamp' = IF driver = "mongo" THEN stamp ELSE [stamp EXCEPT ![p] = 0]
    /\ count' = [count EXCEPT ![p] = 0]
    /\ visits' = IF visits < 4 THEN visits + 1 ELSE 4
    /\ lastVisit' = Latest(lastVisit, stamp[p])
    /\ Goto(p, "using")

\* mongo: Flush replaces the document, if it is there.
TouchMongo(p) ==
    /\ driver = "mongo" /\ pc[p] = "read"
    /\ \/ /\ updated' = IF stored THEN stamp[p] ELSE updated
          /\ UNCHANGED failed
       \/ failed' = TRUE /\ UNCHANGED updated
    /\ Visited(p)
    /\ UNCHANGED <<identity, now, stored, ttl, expires, shortexpires, shortcount,
                   cleaning, lastWrite, overlapped>>

\* What an UPDATE of GetSession makes of the two columns.
ProlongCountOnly(p) ==
    /\ shortcount' = IF count[p] < 4 THEN count[p] + 1 ELSE shortcount
    /\ UNCHANGED shortexpires

Prolonged(p) ==
    IF count[p] < 4
    THEN /\ shortcount' = count[p] + 1
         /\ shortexpires' = now + Short[count[p] + 1]
    ELSE UNCHANGED <<shortcount, shortexpires>>

\* mysql: one UPDATE per count, for the row as it was read; none at the last.
Prolong(p) ==
    /\ driver = "mysql" /\ pc[p] = "read"
    /\ \/ /\ IF stored THEN Prolonged(p) ELSE UNCHANGED <<shortcount, shortexpires>>
          /\ UNCHANGED failed
       \/ failed' = TRUE /\ UNCHANGED <<shortcount, shortexpires>>
    /\ Visited(p)
    /\ UNCHANGED <<identity, now, stored, updated, ttl, expires, cleaning,
                   lastWrite, overlapped>>

\* redis: PutSession is SET, which creates the key and ends its time to live,
\* and EXPIRE, which does nothing when the key is not there.  When SET fails,
\* or its answer is lost, EXPIRE is not called.
Write == stored' = TRUE /\ ttl' = Never

Set == Write /\ UNCHANGED failed

SetFails == failed' = TRUE /\ (Write \/ UNCHANGED <<stored, ttl>>)

RenewOnly(life) ==
    /\ ttl' = IF stored /\ ttl # Never THEN now + life ELSE ttl
    /\ UNCHANGED <<stored, failed>>

Expire(life) ==
    /\ ttl' = IF stored THEN now + life ELSE ttl
    /\ UNCHANGED <<stored, failed>>

Fail == failed' = TRUE /\ UNCHANGED <<stored, ttl>>

RedisOnly == UNCHANGED <<driver, made, now, updated, expires, shortexpires,
                         shortcount, cleaning, overlapped>>

\* NewSession's EXPIRE; when it fails the request is answered with status 500,
\* and no cookie tells of the session in the store.
NewExpire(p) ==
    /\ pc[p] = "newexpire"
    /\ \/ Expire(WriteLife) /\ issued' = TRUE /\ Goto(p, "usingnew")
       \/ Fail /\ Goto(p, "idle") /\ UNCHANGED issued
    /\ RedisOnly
    /\ UNCHANGED <<local, visits, lastVisit, lastWrite>>

\* GetSession flushes what it has read (SET, EXPIRE 60 days), drops the error,
\* and lets the key expire in 30 days, whether that works or not.
TouchRedis(p) ==
    /\ driver = "redis"
    /\ \/ /\ pc[p] = "read"
          /\ \/ Set /\ Goto(p, "readset")
             \/ SetFails /\ Goto(p, "readexpire")
          /\ UNCHANGED <<local, visits, lastVisit>>
       \/ /\ pc[p] = "readset"
          /\ Expire(WriteLife) \/ Fail
          /\ Goto(p, "readexpire")
          /\ UNCHANGED <<local, visits, lastVisit>>
       \/ /\ pc[p] = "readexpire"
          /\ Expire(ReadLife) \/ Fail
          /\ Visited(p)
    /\ RedisOnly
    /\ UNCHANGED <<issued, lastWrite>>

-----------------------------------------------------------------------------
\* The handler.

\* GetExpires, for the request that made the session and for one with a cookie.
FlushExpires(p) == IF pc[p] = "usingnew" THEN now ELSE now + FlushLife

\* FlushSession; the time stamp in a mongo session is that of its read.
Flush(p) ==
    /\ driver # "redis" /\ pc[p] \in {"using", "usingnew"}
    /\ \/ /\ updated' = IF driver = "mongo" /\ stored THEN stamp[p] ELSE updated
          /\ expires' = IF driver = "mysql" /\ stored THEN FlushExpires(p) ELSE expires
          /\ lastWrite' = IF driver = "mysql" THEN now ELSE lastWrite
          /\ UNCHANGED failed
       \/ failed' = TRUE /\ UNCHANGED <<updated, expires, lastWrite>>
    /\ UNCHANGED <<identity, now, stored, ttl, shortexpires, shortcount, cleaning,
                   pc, local, visits, lastVisit, overlapped>>

FlushRedis(p) ==
    /\ driver = "redis"
    /\ \/ /\ pc[p] \in {"using", "usingnew"}
          /\ \/ Set /\ Goto(p, "flushset")
             \/ SetFails /\ UNCHANGED pc
       \/ /\ pc[p] = "flushset"
          /\ Expire(WriteLife) \/ Fail
          /\ Goto(p, "using")
    /\ RedisOnly
    /\ UNCHANGED <<issued, local, visits, lastVisit, lastWrite>>

Finish(p) ==
    /\ pc[p] \in {"using", "usingnew"}
    /\ Goto(p, "idle")
    /\ stamp' = [stamp EXCEPT ![p] = 0]
    /\ count' = [count EXCEPT ![p] = 0]
    /\ UNCHANGED <<identity, now, row, cleaning, history>>

-----------------------------------------------------------------------------
\* routineSessionMaintenance and Cleanup.  (DestroySession: see SessionStore.)

Remove == stored' = FALSE

CleanupMongo ==
    /\ driver = "mongo" /\ stored
    /\ updated < now - Keep
    /\ Remove
    /\ UNCHANGED <<identity, now, dates, cleaning, pc, local, history>>

\* mysql: the first DELETE takes a session whose short life is over, and unless
\* it fails the second one whose life since a flush is over for 15 days.
CleanupShort ==
    /\ driver = "mysql" /\ made
    /\ ~cleaning /\ cleaning' = TRUE
    /\ IF shortcount < 4 /\ shortexpires < now THEN Remove ELSE UNCHANGED stored
    /\ UNCHANGED <<identity, now, dates, pc, local, history>>

CleanupShortOnly ==
    /\ cleaning /\ cleaning' = FALSE
    /\ UNCHANGED <<identity, now, row, pc, local, history>>

CleanupExpired ==
    /\ cleaning /\ cleaning' = FALSE
    /\ IF expires < now - Keep THEN Remove ELSE UNCHANGED stored
    /\ UNCHANGED <<identity, now, dates, pc, local, history>>

\* Bounds: making a session and one pass of Cleanup take no time, and the clock
\* stops when all dates of a session no request can have any more have passed.
Horizon == CookieLife + Grace + WriteLife + Keep + FlushLife + 1

\* The clock; redis drops a key when its time has come.
Tick ==
    /\ made
    /\ now < Horizon
    /\ now < CookieLife + Grace \/ AllIdle
    /\ ~cleaning /\ \A p \in Procs : pc[p] # "newexpire"
    /\ now' = now + 1
    /\ stored' = (stored /\ ~(driver = "redis" /\ ttl # Never /\ ttl <= now + 1))
    /\ UNCHANGED <<identity, dates, cleaning, pc, local, history>>

-----------------------------------------------------------------------------
Touch(p) == TouchMongo(p) \/ Prolong(p) \/ NewExpire(p) \/ TouchRedis(p)

Next == \/ \E p \in Procs : \/ New(p) \/ Get(p) \/ Touch(p)
                            \/ Flush(p) \/ FlushRedis(p) \/ Finish(p)
        \/ CleanupMongo \/ CleanupShort \/ CleanupExpired
        \/ Tick

\* Time passes, and the maintenance comes every 15 minutes for as long as the
\* process runs.  Calls of the driver return, and handlers end.
Fairness ==
    /\ SF_vars(Tick)
    /\ WF_vars(CleanupMongo \/ CleanupShort \/ CleanupExpired)
    /\ \A p \in Procs : /\ WF_vars(Touch(p) \/ (pc[p] = "flushset" /\ FlushRedis(p)))
                        /\ SF_vars(Finish(p))

Spec == Init /\ [][Next]_vars
FairSpec == Spec /\ Fairness

-----------------------------------------------------------------------------
\* Every variable has its type; no history is ahead of the clock.
TypeOK ==
    /\ driver \in Drivers
    /\ made \in BOOLEAN /\ issued \in BOOLEAN /\ stored \in BOOLEAN
    /\ now \in 0..Horizon
    /\ updated \in 0..now
    /\ ttl \in Int /\ expires \in Nat /\ shortexpires \in Nat
    /\ shortcount \in 0..4
    /\ cleaning \in BOOLEAN
    /\ pc \in [Procs -> {"idle", "newexpire", "usingnew", "read", "readset",
                         "readexpire", "using", "flushset"}]
    /\ stamp \in [Procs -> 0..now]
    /\ count \in [Procs -> 0..4]
    /\ visits \in 0..4
    /\ lastVisit \in 0..now /\ lastWrite \in 0..now
    /\ overlapped \in BOOLEAN /\ failed \in BOOLEAN

\* How long, at the latest visit, mysql promised to keep the session for another:
\* longer with each visit, but two that overlap may both count as the second.
Term == Short[IF overlapped /\ visits > 1 THEN 1 ELSE visits]

\* What a driver owes a session: mongo 15 days after the last visit, unless two
\* requests overlapped; redis 30 days; mysql the term of its visits, and never
\* more than 15 days after the last flush, however many visits there were.
Due == CASE driver = "mongo" -> overlapped \/ lastVisit + Keep < now'
         [] driver = "redis" -> lastVisit + ReadLife <= now'
         [] driver = "mysql" -> \/ lastWrite + Keep < now'
                                \/ /\ overlapped \/ visits < 4
                                   /\ lastVisit + Term < now'

\* Unless a call of the driver failed, a session leaves the store only when it
\* is due, also under requests and a maintenance that interleave call by call.
KeptWhilePromised == [][stored /\ ~stored' => Due \/ failed]_vars

\* A key of redis has no time to live only while a call that will give it one
\* is under way, unless such a call failed.
KeysExpire ==
    driver = "redis" /\ stored /\ ttl = Never =>
      failed \/ \E p \in Procs : pc[p] \in {"newexpire", "readset", "flushset"}

\* In the end the session is gone for good, with every driver and whatever
\* failed, but for a key of redis that EXPIRE failed for.
AbandonedSessionsGo == <>[](stored => driver = "redis" /\ failed /\ ttl = Never)
=============================================================================
