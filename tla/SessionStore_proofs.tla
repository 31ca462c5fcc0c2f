------------------------ MODULE SessionStore_proofs ------------------------
(***************************************************************************)
(* Proofs about SessionStore, for any number of requests and sessions and  *)
(* every driver: typing, then what overlap does to data, to destruction    *)
(* and to the binding of a session, then the refinement of SessionLife.    *)
(***************************************************************************)
EXTENDS SessionStore, TLAPS

LEMMA TypingStep == TypeOK /\ [Next]_vars => TypeOK'
<1> SUFFICES ASSUME TypeOK, [Next]_vars PROVE TypeOK'
  OBVIOUS
<1> USE SessionAssumption DEF TypeOK, Goto, store, history
<1>0. CASE UNCHANGED vars
  BY <1>0 DEF vars
<1>1. ASSUME NEW p \in Procs, Ask(p) PROVE TypeOK'
  BY <1>1 DEF Ask
<1>2. ASSUME NEW p \in Procs, Load(p) PROVE TypeOK'
  BY <1>2 DEF Load
<1>3. ASSUME NEW p \in Procs, LoadFails(p) PROVE TypeOK'
  BY <1>3 DEF LoadFails
<1>4. ASSUME NEW p \in Procs, Touch(p) PROVE TypeOK'
  BY <1>4 DEF Touch, Put
<1>5. ASSUME NEW p \in Procs, Bind(p) PROVE TypeOK'
  BY <1>5 DEF Bind
<1>6. ASSUME NEW p \in Procs, NEW s \in Sids, New(p, s) PROVE TypeOK'
  BY <1>6 DEF New
<1>7. ASSUME NEW p \in Procs, NewFails(p) PROVE TypeOK'
  BY <1>7 DEF NewFails
<1>8. ASSUME NEW p \in Procs, Modify(p) PROVE TypeOK'
  BY <1>8 DEF Modify
<1>9. ASSUME NEW p \in Procs, Flush(p) PROVE TypeOK'
  BY <1>9 DEF Flush, Put, View
<1>10. ASSUME NEW p \in Procs, Destroy(p) PROVE TypeOK'
  BY <1>10 DEF Destroy, Delete, Leave
<1>11. ASSUME NEW p \in Procs, Finish(p) PROVE TypeOK'
  BY <1>11 DEF Finish, Leave
<1>12. ASSUME NEW s \in Sids, FlushLater(s) PROVE TypeOK'
  BY <1>12 DEF FlushLater, Put
<1>13. ASSUME NEW s \in Sids, Age(s) PROVE TypeOK'
  BY <1>13 DEF Age
<1>14. ASSUME NEW s \in Sids, Cleanup(s) PROVE TypeOK'
  BY <1>14 DEF Cleanup, Delete
<1> QED
  BY <1>0, <1>1, <1>2, <1>3, <1>4, <1>5, <1>6, <1>7, <1>8, <1>9, <1>10, <1>11,
     <1>12, <1>13, <1>14 DEF Next, RequestStep

\* The type invariant; with it, nothing is stored, held or pending under an id
\* that App.GetSession did not issue.
THEOREM TypeCorrect == Spec => []TypeOK
<1>1. Init => TypeOK
  BY SessionAssumption DEF Init, TypeOK
<1> QED BY <1>1, TypingStep, PTL DEF Spec

-----------------------------------------------------------------------------
(***************************************************************************)
(* The inductive invariant behind the three statements on overlap.         *)
(***************************************************************************)

\* Nothing has happened to an id that was not issued.
FreshIsBlank == \A s \in Sids \ issued : committed[s] = {} /\ Holders(s) = {}

\* Two holders at once make an overlap.
SoleHolder ==
    \A p, q \in Procs : \A s \in Sids \ overlapped :
      Holds(p, s) /\ Holds(q, s) => p = q

\* What was flushed is in the store and in the copy of whoever has the session.
Kept ==
    \A s \in Sids : Shared \/ s \notin overlapped =>
      /\ s \in stored \/ Shared => committed[s] \subseteq data[s]
      /\ ~Shared => \A p \in Procs : Holds(p, s) => committed[s] \subseteq mine[p]

\* A destroyed session is out of the store and, under redis, out of every hand.
Away ==
    \A s \in destroyed :
      /\ driver \in {"mongo", "mysql"} => s \notin stored
      /\ driver = "redis" /\ s \notin overlapped => s \notin stored /\ Holders(s) = {}

\* Only the memory driver flushes later.
LaterIsMemory == \A s \in Sids : pending[s] > 0 => Shared

OverlapInv == /\ LaterIsMemory
              /\ FreshIsBlank /\ SoleHolder /\ Kept /\ Away
              /\ SessionIsBoundToItsUser

LEMMA OverlapStep == TypeOK /\ OverlapInv /\ [Next]_vars => OverlapInv'
<1> SUFFICES ASSUME TypeOK, OverlapInv, [Next]_vars PROVE OverlapInv'
  OBVIOUS
<1> USE SessionAssumption
    DEF TypeOK, OverlapInv, FreshIsBlank, SoleHolder, Kept, Away,
        LaterIsMemory, SessionIsBoundToItsUser, Goto, store, history, Holds, Holders, Shared,
        Upserts, TouchWrites
<1>0. CASE UNCHANGED vars
  BY <1>0 DEF vars
<1>1. ASSUME NEW p \in Procs, Ask(p) \/ LoadFails(p) \/ NewFails(p) PROVE OverlapInv'
  BY <1>1 DEF Ask, LoadFails, NewFails
<1>2. ASSUME NEW p \in Procs, Load(p) PROVE OverlapInv'
  <2>1. LaterIsMemory' /\ FreshIsBlank'
    BY <1>2 DEF Load
  <2>2. SoleHolder'
    BY <1>2 DEF Load
  <2>3. Kept'
    BY <1>2 DEF Load
  <2>4. Away'
    BY <1>2 DEF Load
  <2>5. SessionIsBoundToItsUser'
    BY <1>2 DEF Load
  <2> QED BY <2>1, <2>2, <2>3, <2>4, <2>5
<1>3. ASSUME NEW p \in Procs, Touch(p) PROVE OverlapInv'
  <2>1. LaterIsMemory' /\ FreshIsBlank' /\ SoleHolder'
    BY <1>3 DEF Touch
  <2>2. Kept'
    BY <1>3 DEF Touch, Put
  <2>3. Away'
    BY <1>3 DEF Touch, Put
  <2>4. SessionIsBoundToItsUser'
    BY <1>3 DEF Touch
  <2> QED BY <2>1, <2>2, <2>3, <2>4
<1>4. ASSUME NEW p \in Procs, Bind(p) PROVE OverlapInv'
  <2>1. LaterIsMemory' /\ FreshIsBlank' /\ SoleHolder' /\ Kept' /\ Away'
    BY <1>4 DEF Bind
  <2>2. SessionIsBoundToItsUser'
    BY <1>4 DEF Bind
  <2> QED BY <2>1, <2>2
<1>5. ASSUME NEW p \in Procs, NEW s \in Sids, New(p, s) PROVE OverlapInv'
  <2>1. LaterIsMemory' /\ FreshIsBlank' /\ SoleHolder'
    BY <1>5 DEF New
  <2>2. Kept'
    BY <1>5 DEF New
  <2>3. Away'
    BY <1>5 DEF New
  <2>4. SessionIsBoundToItsUser'
    BY <1>5 DEF New
  <2> QED BY <2>1, <2>2, <2>3, <2>4
<1>6. ASSUME NEW p \in Procs, Modify(p) PROVE OverlapInv'
  <2>1. LaterIsMemory' /\ FreshIsBlank' /\ SoleHolder' /\ Away' /\ SessionIsBoundToItsUser'
    BY <1>6 DEF Modify
  <2>2. Kept'
    BY <1>6 DEF Modify
  <2> QED BY <2>1, <2>2
<1>7. ASSUME NEW p \in Procs, Flush(p) PROVE OverlapInv'
  <2>1. LaterIsMemory' /\ FreshIsBlank' /\ SoleHolder' /\ SessionIsBoundToItsUser'
    BY <1>7 DEF Flush
  <2>2. Kept'
    BY <1>7 DEF Flush, Put, View
  <2>3. Away'
    BY <1>7 DEF Flush, Put
  <2> QED BY <2>1, <2>2, <2>3
<1>8. ASSUME NEW p \in Procs, Destroy(p) PROVE OverlapInv'
  <2>1. LaterIsMemory' /\ FreshIsBlank' /\ SoleHolder' /\ SessionIsBoundToItsUser'
    BY <1>8 DEF Destroy, Leave
  <2>2. Kept'
    BY <1>8 DEF Destroy, Delete, Leave
  <2>3. Away'
    BY <1>8 DEF Destroy, Delete, Leave
  <2> QED BY <2>1, <2>2, <2>3
<1>9. ASSUME NEW p \in Procs, Finish(p) PROVE OverlapInv'
  BY <1>9 DEF Finish, Leave
<1>10. ASSUME NEW s \in Sids, FlushLater(s) PROVE OverlapInv'
  BY <1>10 DEF FlushLater, Put
<1>11. ASSUME NEW s \in Sids, Age(s) PROVE OverlapInv'
  BY <1>11 DEF Age
<1>12. ASSUME NEW s \in Sids, Cleanup(s) PROVE OverlapInv'
  BY <1>12 DEF Cleanup, Delete
<1> QED
  BY <1>0, <1>1, <1>2, <1>3, <1>4, <1>5, <1>6, <1>7, <1>8, <1>9, <1>10, <1>11,
     <1>12 DEF Next, RequestStep

LEMMA OverlapInvariant == Spec => []OverlapInv
<1>1. Init => OverlapInv
  BY SessionAssumption
     DEF Init, OverlapInv, LaterIsMemory, FreshIsBlank, SoleHolder, Kept, Away,
         SessionIsBoundToItsUser, Holds, Holders
<1> QED BY <1>1, OverlapStep, TypeCorrect, PTL DEF Spec

\* FlushSession (core.go:460): what a request flushed stays in the session while
\* it is stored, unless two requests had the session at once (under memory,
\* where they share one object, even then).
THEOREM FlushedIsKept == Spec => []FlushedDataIsKept
<1>1. TypeOK /\ OverlapInv => FlushedDataIsKept
  BY DEF TypeOK, OverlapInv, Kept, FlushedDataIsKept
<1> QED BY <1>1, OverlapInvariant, TypeCorrect, PTL

\* DestroySession (core.go:464): under mongo and mysql the session never returns
\* to the store, under redis only if another request had it as well.
THEOREM DestroyedIsAway == Spec => []DestroyedStaysAway
<1>1. TypeOK /\ OverlapInv => DestroyedStaysAway
  BY SessionAssumption DEF TypeOK, OverlapInv, Away, DestroyedStaysAway
<1> QED BY <1>1, OverlapInvariant, TypeCorrect, PTL

\* core.go:377-378: a request that has a session to itself finds its own
\* response writer in it.
THEOREM BoundToItsUser == Spec => []SessionIsBoundToItsUser
<1>1. OverlapInv => SessionIsBoundToItsUser
  BY DEF OverlapInv
<1> QED BY <1>1, OverlapInvariant, PTL

-----------------------------------------------------------------------------
(***************************************************************************)
(* The refinement: every step of the session layer lets at most one id be  *)
(* born or end.                                                            *)
(***************************************************************************)

\* The life of an id depends on the store, the flushes and the holders.
LEMMA LifeShrinks ==
  ASSUME NEW t, driver' = driver, pending'[t] = pending[t],
         Holders(t)' \subseteq Holders(t), t \in stored' => t \in stored
  PROVE  Live(t)' => Live(t)
BY DEF Live, Upserts

LEMMA LifeSame ==
  ASSUME NEW t, driver' = driver, pending'[t] = pending[t],
         Holders(t)' = Holders(t), t \in stored' <=> t \in stored
  PROVE  Live(t)' <=> Live(t)
BY DEF Live, Upserts

\* A step that changes the life of no id but s, and s only forward.
LEMMA LifeStep ==
  ASSUME NEW s \in Sids,
         \A t \in Sids \ {s} : (t \in issued' <=> t \in issued) /\ (Live(t)' <=> Live(t)),
         s \in issued => s \in issued' /\ (Live(s)' => Live(s)),
         s \notin issued /\ s \in issued' => Live(s)'
  PROVE  [Life!Next]_status
<1>1. \A t \in Sids \ {s} : status'[t] = status[t]
  BY DEF status
<1>2. \/ status'[s] = status[s]
      \/ status[s] = "unborn" /\ status'[s] = "live"
      \/ status[s] = "live" /\ status'[s] = "gone"
  BY DEF status
<1>3. status' = [status EXCEPT ![s] = status'[s]]
  BY <1>1 DEF status
<1>4. CASE status'[s] = status[s]
  BY <1>3, <1>4 DEF status
<1>5. CASE status[s] = "unborn" /\ status'[s] = "live"
  BY <1>3, <1>5 DEF Life!Next, Life!Create
<1>6. CASE status[s] = "live" /\ status'[s] = "gone"
  BY <1>3, <1>6 DEF Life!Next, Life!End
<1> QED BY <1>2, <1>4, <1>5, <1>6

\* A step that changes the life of no id at all.
LEMMA LifeStutter ==
  ASSUME issued' = issued, \A t \in Sids : Live(t)' <=> Live(t)
  PROVE  [Life!Next]_status
BY DEF status

LEMMA LifeRefined == TypeOK /\ OverlapInv /\ [Next]_vars => [Life!Next]_status
<1> SUFFICES ASSUME TypeOK, OverlapInv, [Next]_vars PROVE [Life!Next]_status
  OBVIOUS
<1> USE DEF TypeOK, Goto, store
<1>0. CASE UNCHANGED vars
  BY <1>0, LifeStutter DEF vars, Live, Holders, Holds, Upserts
<1>1. ASSUME NEW p \in Procs, Ask(p) \/ LoadFails(p) \/ NewFails(p) \/ Bind(p)
                                \/ Modify(p)
      PROVE  [Life!Next]_status
  <2>1. issued' = issued /\ driver' = driver /\ pending' = pending /\ stored' = stored
    BY <1>1 DEF Ask, LoadFails, NewFails, Bind, Modify
  <2>2. \A t \in Sids : Holders(t)' = Holders(t)
    BY <1>1 DEF Ask, LoadFails, NewFails, Bind, Modify, Holders, Holds
  <2> QED BY <2>1, <2>2, LifeSame, LifeStutter
<1>2. ASSUME NEW p \in Procs, Load(p) PROVE [Life!Next]_status
  <2>0. PICK s \in Sids : s = sid[p]
    BY <1>2, SessionAssumption DEF Load
  <2>1. issued' = issued /\ stored' = stored /\ driver' = driver
    BY <1>2, <2>0 DEF Load
  <2>2. Live(s)' /\ Live(s)
    BY <1>2, <2>0 DEF Load, Live
  <2>3. \A t \in Sids \ {s} : pending'[t] = pending[t] /\ Holders(t)' = Holders(t)
    BY <1>2, <2>0 DEF Load, Holders, Holds, Shared
  <2>4. ASSUME NEW t \in Sids PROVE Live(t)' <=> Live(t)
    BY <2>1, <2>2, <2>3, LifeSame
  <2> QED BY <2>1, <2>4, LifeStutter
<1>3. ASSUME NEW p \in Procs, Touch(p) \/ Flush(p) PROVE [Life!Next]_status
  <2>0. PICK s \in Sids : s = sid[p]
    BY <1>3, SessionAssumption DEF Touch, Flush
  <2>1. issued' = issued /\ driver' = driver /\ pending' = pending
    BY <1>3, <2>0 DEF Touch, Flush
  <2>2. \A t \in Sids : Holders(t)' = Holders(t)
    BY <1>3, <2>0 DEF Touch, Flush, Holders, Holds
  <2>3. \A t \in Sids \ {s} : t \in stored' <=> t \in stored
    BY <1>3, <2>0 DEF Touch, Flush, Put
  <2>4. Live(s)' <=> Live(s)
    <3>1. p \in Holders(s) /\ p \in Holders(s)'
      BY <1>3, <2>0 DEF Touch, Flush, Holders, Holds
    <3> QED BY <1>3, <2>0, <2>1, <3>1 DEF Touch, Flush, Put, Live, Upserts, Shared
  <2>5. ASSUME NEW t \in Sids PROVE Live(t)' <=> Live(t)
    BY <2>1, <2>2, <2>3, <2>4, LifeSame
  <2> QED BY <2>1, <2>5, LifeStutter
<1>4. ASSUME NEW p \in Procs, NEW s \in Sids, New(p, s) PROVE [Life!Next]_status
  <2>1. /\ issued' = issued \cup {s} /\ stored' = stored \cup {s}
        /\ driver' = driver /\ pending' = pending /\ s \notin issued
    BY <1>4 DEF New
  <2>2. \A t \in Sids \ {s} : Holders(t)' = Holders(t)
    BY <1>4 DEF New, Holders, Holds
  <2>3. \A t \in Sids \ {s} : Live(t)' <=> Live(t)
    BY <2>1, <2>2, LifeSame
  <2>4. Live(s)'
    BY <2>1 DEF Live
  <2> QED BY <2>1, <2>3, <2>4, LifeStep
<1>5. ASSUME NEW p \in Procs, Destroy(p) \/ Finish(p) PROVE [Life!Next]_status
  <2>0. PICK s \in Sids : s = sid[p]
    BY <1>5, SessionAssumption DEF Destroy, Finish
  <2>1. issued' = issued /\ driver' = driver /\ pending' = pending
    BY <1>5 DEF Destroy, Finish
  <2>2. \A t \in Sids \ {s} : Holders(t)' = Holders(t)
    BY <1>5, <2>0 DEF Destroy, Finish, Leave, Holders, Holds
  <2>3. Holders(s)' \subseteq Holders(s)
    BY <1>5, <2>0 DEF Destroy, Finish, Leave, Holders, Holds
  <2>4. /\ \A t \in Sids \ {s} : t \in stored' <=> t \in stored
        /\ s \in stored' => s \in stored
    BY <1>5, <2>0 DEF Destroy, Finish, Delete
  <2>5. \A t \in Sids \ {s} : Live(t)' <=> Live(t)
    BY <2>1, <2>2, <2>4, LifeSame
  <2>6. Live(s)' => Live(s)
    BY <2>1, <2>3, <2>4, LifeShrinks
  <2> QED BY <2>1, <2>5, <2>6, LifeStep
<1>6. ASSUME NEW s \in Sids, FlushLater(s) \/ Age(s) \/ Cleanup(s)
      PROVE  [Life!Next]_status
  <2>1. issued' = issued /\ driver' = driver
    BY <1>6 DEF FlushLater, Age, Cleanup
  <2>2. \A t : Holders(t)' = Holders(t)
    BY <1>6 DEF FlushLater, Age, Cleanup, Holders, Holds
  <2>3. \A t \in Sids \ {s} : pending'[t] = pending[t] /\ (t \in stored' <=> t \in stored)
    BY <1>6 DEF FlushLater, Age, Cleanup, Put, Delete
  <2>4. \A t \in Sids \ {s} : Live(t)' <=> Live(t)
    BY <2>1, <2>2, <2>3, LifeSame
  <2>5. Live(s)' => Live(s)
    <3>1. CASE FlushLater(s)
      BY <3>1 DEF FlushLater, Live, OverlapInv, LaterIsMemory, Upserts, Shared
    <3>2. CASE Age(s) \/ Cleanup(s)
      <4>1. pending'[s] = pending[s] /\ (s \in stored' => s \in stored)
        BY <3>2 DEF Age, Cleanup, Delete
      <4> QED BY <2>1, <2>2, <4>1, LifeShrinks
    <3> QED BY <1>6, <3>1, <3>2
  <2> QED BY <2>1, <2>4, <2>5, LifeStep
<1> QED BY <1>0, <1>1, <1>2, <1>3, <1>4, <1>5, <1>6 DEF Next, RequestStep

\* The session layer implements SessionLife with every driver: ids are born from
\* fresh uuids only and none that is gone is served again.
THEOREM RefinesLife == Spec => ImplementsLife
<1>1. Init => Life!Init
  BY DEF Init, Life!Init, status
<1> QED BY <1>1, LifeRefined, TypeCorrect, OverlapInvariant, PTL
        DEF Spec, ImplementsLife, Life!Spec
=============================================================================
