---------------------------- MODULE RunTool_proofs ----------------------------
(***************************************************************************)
(* Proofs about `goboots run', for any bounds: the variables have their     *)
(* types; at most one application runs, which is that of the last build;    *)
(* a signal in the loop leaves nothing; announced edits are built.          *)
(***************************************************************************)
EXTENDS RunTool, TLAPS

\* The parts of the inductive invariant, by the place runApp has reached.
\* Between stop and the next start nothing runs that cm.Start could leave alone.
StoppedInRestart ==
    pc \in {"start", "prebuild", "build", "command", "launch", "sleep"}
      => cm.proc \notin {"running", "killed"}

\* The file that is about to be started is the build's, or missing.
BinaryIsTheBuilds ==
    /\ pc \in {"prebuild", "build"} => binary = None
    /\ pc \in {"command", "launch"} /\ binary # None
         => binary = tried /\ tried \notin broken

Inv == OnlyTheLastBuildRuns /\ StoppedInRestart /\ BinaryIsTheBuilds

(* The events of an edit, and that one of them restarts if it is announced.   *)
LEMMA EditEventsAre ==
  ASSUME NEW es \in EditEvents
  PROVE  /\ es \in Seq(EventKinds)
         /\ Announces(es) => \E i \in DOMAIN es : Restarts(es[i])
<1>1. \A e \in {"written", "created", "other"} : e \in EventKinds
  BY DEF EventKinds
<1>2. CASE es = <<"written">>
  BY <1>1, <1>2 DEF Announces, Restarts
<1>3. CASE es = <<"created">>
  BY <1>1, <1>3 DEF Announces, Restarts
<1>4. CASE es = <<"other">>
  BY <1>1, <1>4 DEF Announces, Restarts
<1>5. CASE es = <<"other", "created">>
  BY <1>1, <1>5 DEF Announces, Restarts
<1> QED
  BY <1>2, <1>3, <1>4, <1>5 DEF EditEvents

(* A step adds events of its own at the end of the queue, or takes the first: *)
(* it stays a queue of events.                                                *)
LEMMA EventsStayEvents ==
  ASSUME events \in Seq(EventKinds), [Next]_vars
  PROVE  events' \in Seq(EventKinds)
<1>k. /\ \A e \in {"scratch", "binaryRemoved"} : Append(events, e) \in Seq(EventKinds)
      /\ \A es \in EditEvents : events \o es \in Seq(EventKinds)
      /\ events \o <<"binaryCreated">> \in Seq(EventKinds)
      /\ events \o <<"binaryCreated", "binaryWritten">> \in Seq(EventKinds)
  <2>1. \A e \in {"scratch", "binaryCreated", "binaryWritten", "binaryRemoved"} :
          e \in EventKinds
    BY DEF EventKinds
  <2>2. \A es \in EditEvents : es \in Seq(EventKinds)
    BY EditEventsAre
  <2> QED
    BY <2>1, <2>2
<1>1. events # <<>> => Tail(events) \in Seq(EventKinds)
  OBVIOUS
<1>2. CASE Edit \/ AppWrites \/ RemoveBinary \/ Prebuild \/ SignalRemove
  BY <1>2, <1>k DEF Edit, AppWrites, RemoveBinary, Prebuild, SignalRemove
<1>3. CASE Build
  BY <1>3, <1>k DEF Build
<1>4. CASE TakeEvent \/ Drain
  BY <1>4, <1>1 DEF TakeEvent, Drain
<1>5. CASE \/ AppDies \/ BuildWontStart \/ MakeCommand \/ Launch \/ Stop \/ Reap
           \/ Wake \/ DrainEnds \/ SignalEarly \/ Signal \/ SignalKill \/ Exit
           \/ UNCHANGED vars
  BY <1>5 DEF AppDies, BuildWontStart, MakeCommand, Launch, Stop, Reap, Wake,
              DrainEnds, SignalEarly, Signal, SignalKill, Exit, vars
<1> QED
  BY <1>2, <1>3, <1>4, <1>5 DEF Next

\* The parts of TypeOK that are not about the queue.
EnvironmentOK ==
    /\ source \in Revisions /\ announced \in Revisions
    /\ broken \subseteq Revisions
    /\ noisy \in BOOLEAN /\ generates \in BOOLEAN /\ copies \in BOOLEAN

ToolOK ==
    /\ drains \in 0 .. MaxDrains
    /\ pc \in {"start", "prebuild", "build", "command", "launch", "select", "stop",
               "reap", "sleep"}
    /\ binary \in Builds /\ tried \in Revisions \cup {None}
    /\ cm \in [proc : {"nil", "unstarted", "running", "killed", "dead"},
               rev : Builds]
    /\ orphans \subseteq Builds
    /\ sig \in {"off", "armed", "kill", "remove", "exit", "exited", "gone"}
    /\ sigDuring \in {"no", "loop", "restart"}

(* Only edits change what is around the tool, within the bound.               *)
LEMMA EnvironmentStep ==
  ASSUME EnvironmentOK, [Next]_vars PROVE EnvironmentOK'
<1> USE DEF EnvironmentOK, environment, Revisions
<1>1. CASE Edit
  BY <1>1, BoundsAssumption DEF Edit, BoundsAssumption
<1>2. CASE ~Edit
  BY <1>2 DEF Next, vars, AppWrites, AppDies, RemoveBinary, Prebuild, Build,
              BuildWontStart, MakeCommand, Launch, TakeEvent, Stop, Reap, Wake,
              Drain, DrainEnds, SignalEarly, Signal, SignalKill, SignalRemove,
              Exit
<1> QED
  BY <1>1, <1>2

(* Every step leaves the tool in a state of its kind.                         *)
LEMMA ToolStep ==
  ASSUME EnvironmentOK, ToolOK, [Next]_vars PROVE ToolOK'
<1> USE BoundsAssumption DEF BoundsAssumption, ToolOK, EnvironmentOK,
        environment, Revisions, Builds, None, Leftover, NoCommand, NoProcess
<1>1. CASE Edit \/ AppWrites
  BY <1>1 DEF Edit, AppWrites
<1>2. CASE AppDies
  BY <1>2 DEF AppDies
<1>3. CASE RemoveBinary
  BY <1>3 DEF RemoveBinary
<1>4. CASE Build
  BY <1>4 DEF Build
<1>5. CASE BuildWontStart
  BY <1>5 DEF BuildWontStart, Assign, Loop
<1>6. CASE MakeCommand
  BY <1>6 DEF MakeCommand, Assign
<1>7. CASE Launch
  BY <1>7 DEF Launch, Loop
<1>8. CASE TakeEvent
  BY <1>8 DEF TakeEvent
<1>9. CASE Stop
  BY <1>9 DEF Stop, Killed
<1>10. CASE Reap
  BY <1>10 DEF Reap
<1>11. CASE Wake
  BY <1>11 DEF Wake
<1>12. CASE Drain
  BY <1>12 DEF Drain
<1>13. CASE DrainEnds
  BY <1>13 DEF DrainEnds
<1>14. CASE SignalEarly \/ Signal \/ Exit
  BY <1>14 DEF SignalEarly, Signal, Exit
<1>15. CASE SignalKill
  BY <1>15 DEF SignalKill, Killed
<1>16. CASE SignalRemove
  BY <1>16 DEF SignalRemove
<1>17. CASE UNCHANGED vars
  BY <1>17 DEF vars
<1>18. CASE Prebuild
  BY <1>18 DEF Prebuild
<1> QED
  BY <1>1, <1>2, <1>3, <1>4, <1>5, <1>6, <1>7, <1>8, <1>9, <1>10, <1>11,
     <1>12, <1>13, <1>14, <1>15, <1>16, <1>17, <1>18 DEF Next

(* late is a truth value.                                                     *)
LEMMA LateStep ==
  ASSUME late \in BOOLEAN, [Next]_vars PROVE late' \in BOOLEAN
<1>1. CASE Wake
  BY <1>1 DEF Wake
<1>2. CASE ~Wake
  BY <1>2 DEF Next, vars, Edit, AppWrites, AppDies, RemoveBinary, Prebuild, Build,
              BuildWontStart, MakeCommand, Launch, TakeEvent, Stop, Reap,
              Drain, DrainEnds, SignalEarly, Signal, SignalKill, SignalRemove,
              Exit
<1> QED
  BY <1>1, <1>2

(* Every variable keeps its type: the queue of events is a queue of events,   *)
(* whoever writes, drains and takes them, and the drains stay within bounds.  *)
THEOREM TypeCorrect == Spec => []TypeOK
<1> DEFINE Typed == /\ events \in Seq(EventKinds) /\ late \in BOOLEAN
                    /\ EnvironmentOK /\ ToolOK
<1>1. Init => Typed
  <2> SUFFICES ASSUME Init PROVE Typed
    OBVIOUS
  <2>1. events \in Seq(EventKinds)
    BY DEF Init
  <2>2. late \in BOOLEAN
    BY DEF Init
  <2>3. EnvironmentOK
    BY BoundsAssumption DEF BoundsAssumption, Init, EnvironmentOK, Revisions
  <2>4. ToolOK
    BY BoundsAssumption DEF BoundsAssumption, Init, ToolOK, Revisions, Builds,
                            None, Leftover, NoCommand
  <2> QED
    BY <2>1, <2>2, <2>3, <2>4
<1>2. Typed /\ [Next]_vars => Typed'
  BY EventsStayEvents, LateStep, EnvironmentStep, ToolStep
<1>3. Typed => TypeOK
  BY DEF TypeOK, EnvironmentOK, ToolOK
<1> QED
  BY <1>1, <1>2, <1>3, PTL DEF Spec

(* No step of runApp, of its goroutines, of the application or of a signal    *)
(* breaks the invariant.                                                      *)
LEMMA InvIsInductive == TypeOK /\ Inv /\ [Next]_vars => Inv'
<1> SUFFICES ASSUME TypeOK, Inv, [Next]_vars PROVE Inv'
  OBVIOUS
<1> USE DEF Inv, OnlyTheLastBuildRuns, StoppedInRestart, BinaryIsTheBuilds,
            environment
<1>t. cm \in [proc : {"nil", "unstarted", "running", "killed", "dead"},
              rev : Builds]
  BY DEF TypeOK
<1>1. CASE Edit \/ AppWrites
  BY <1>1 DEF Edit, AppWrites
<1>2. CASE AppDies
  BY <1>t, <1>2 DEF AppDies
<1>3. CASE RemoveBinary
  BY <1>3 DEF RemoveBinary
<1>4. CASE Build
  BY <1>4 DEF Build
<1>5. CASE BuildWontStart
  BY <1>5 DEF BuildWontStart, Assign, Loop, NoCommand
<1>6. CASE MakeCommand
  BY <1>6 DEF MakeCommand, Assign, NoProcess
<1>7. CASE Launch
  BY <1>7 DEF Launch, Loop
<1>8. CASE TakeEvent
  BY <1>8 DEF TakeEvent
<1>9. CASE Stop
  BY <1>t, <1>9 DEF Stop, Killed
<1>10. CASE Reap
  BY <1>10 DEF Reap, HasProcess
<1>11. CASE Wake
  BY <1>11 DEF Wake
<1>12. CASE Drain \/ DrainEnds
  BY <1>12 DEF Drain, DrainEnds
<1>13. CASE SignalEarly \/ Signal \/ Exit
  BY <1>13 DEF SignalEarly, Signal, Exit
<1>14. CASE SignalKill
  BY <1>t, <1>14 DEF SignalKill, Killed
<1>15. CASE SignalRemove
  BY <1>15 DEF SignalRemove
<1>16. CASE UNCHANGED vars
  BY <1>16 DEF vars
<1>17. CASE Prebuild
  BY <1>17 DEF Prebuild
<1> QED
  BY <1>1, <1>2, <1>3, <1>4, <1>5, <1>6, <1>7, <1>8, <1>9, <1>10, <1>11,
     <1>12, <1>13, <1>14, <1>15, <1>16, <1>17 DEF Next

(* Whatever is edited, drained, killed or signalled, at most one application  *)
(* runs under the tool and it is what the last build made.                    *)
THEOREM OnlyTheLastBuild == Spec => []OnlyTheLastBuildRuns
<1>1. Init => Inv
  BY DEF Init, Inv, OnlyTheLastBuildRuns, StoppedInRestart, BinaryIsTheBuilds,
         NoCommand
<1>2. Inv => OnlyTheLastBuildRuns
  BY DEF Inv
<1> QED
  BY TypeCorrect, InvIsInductive, <1>1, <1>2, PTL DEF Spec

-----------------------------------------------------------------------------
(* From a signal in the loop on, runApp gets no further than its sleep; the   *)
(* application is killed before the binary is removed, and that before exit.  *)
SignalInLoop ==
    /\ sig \in {"off", "armed"} => sigDuring = "no"
    /\ sigDuring = "loop" =>
         /\ pc \in {"select", "stop", "reap", "sleep"}
         /\ sig \in {"remove", "exit", "exited"} => cm.proc # "running"
         /\ sig \in {"exit", "exited"} => binary = None

(* No step of runApp or of the handler breaks it.                             *)
LEMMA SignalInLoopStep ==
  ASSUME TypeOK, SignalInLoop, [Next]_vars PROVE SignalInLoop'
<1> USE DEF SignalInLoop, environment
<1>t. /\ cm \in [proc : {"nil", "unstarted", "running", "killed", "dead"},
                 rev : Builds]
      /\ sig \in {"off", "armed", "kill", "remove", "exit", "exited", "gone"}
  BY DEF TypeOK
<1>1. CASE Edit \/ AppWrites \/ Drain \/ DrainEnds
  BY <1>1 DEF Edit, AppWrites, Drain, DrainEnds
<1>2. CASE AppDies
  BY <1>t, <1>2 DEF AppDies
<1>3. CASE RemoveBinary \/ Prebuild \/ Build
  BY <1>3 DEF RemoveBinary, Prebuild, Build
<1>4. CASE BuildWontStart \/ MakeCommand \/ Launch
  BY <1>4 DEF BuildWontStart, MakeCommand, Launch, Loop
<1>5. CASE TakeEvent \/ Reap \/ Wake
  BY <1>5 DEF TakeEvent, Reap, Wake
<1>6. CASE Stop
  BY <1>t, <1>6 DEF Stop, Killed
<1>7. CASE SignalEarly \/ SignalRemove \/ Exit
  BY <1>7 DEF SignalEarly, SignalRemove, Exit
<1>8. CASE Signal
  BY <1>t, <1>8 DEF Signal, HasProcess
<1>9. CASE SignalKill
  BY <1>t, <1>9 DEF SignalKill, Killed
<1>10. CASE UNCHANGED vars
  BY <1>10 DEF vars
<1> QED
  BY <1>1, <1>2, <1>3, <1>4, <1>5, <1>6, <1>7, <1>8, <1>9, <1>10 DEF Next

(* A signal that comes while runApp is in its loop leaves neither the         *)
(* application nor the binary.                                                *)
THEOREM ExitIsClean == Spec => []ExitLeavesNothing
<1>1. Init => SignalInLoop
  BY DEF Init, SignalInLoop
<1>2. SignalInLoop => ExitLeavesNothing
  BY DEF SignalInLoop, ExitLeavesNothing
<1> QED
  BY TypeCorrect, SignalInLoopStep, <1>1, <1>2, PTL DEF Spec

-----------------------------------------------------------------------------
Pending(q) == \E i \in DOMAIN q : Restarts(q[i])

(* As long as no drain was late: drains run during the sleep only, and an     *)
(* announced edit is built, or will be because a restart is under way before  *)
(* its build, or because an event that restarts is in the queue -- or there   *)
(* was no go tool to build it with.                                           *)
EditsOnTheirWay ==
  /\ announced <= source
  /\ ~late =>
      /\ drains > 0 => pc = "sleep"
      /\ \/ tried >= announced
         \/ pc \in {"stop", "reap", "sleep", "start", "prebuild", "build"}
         \/ pc = "select" /\ cm.proc = "nil"
         \/ Pending(events)

(* An event that restarts stays in a queue that grows, and in the rest of one *)
(* whose first event does not restart.                                        *)
LEMMA PendingStays ==
  ASSUME NEW q \in Seq(EventKinds), Pending(q)
  PROVE  /\ \A e \in EventKinds : Pending(Append(q, e))
         /\ \A p \in Seq(EventKinds) : Pending(q \o p)
         /\ ~Restarts(Head(q)) => Pending(Tail(q))
<1>1. PICK i \in DOMAIN q : Restarts(q[i])
  BY DEF Pending
<1>2. i \in 1 .. Len(q) /\ Len(q) \in Nat
  BY <1>1
<1>3. ASSUME NEW e \in EventKinds PROVE Pending(Append(q, e))
  <2>1. i \in DOMAIN Append(q, e) /\ Append(q, e)[i] = q[i]
    BY <1>2
  <2> QED
    BY <1>1, <2>1 DEF Pending
<1>4. ASSUME NEW p \in Seq(EventKinds) PROVE Pending(q \o p)
  <2>1. i \in DOMAIN (q \o p) /\ (q \o p)[i] = q[i]
    BY <1>2
  <2> QED
    BY <1>1, <2>1 DEF Pending
<1>5. ASSUME ~Restarts(Head(q)) PROVE Pending(Tail(q))
  <2>1. i # 1
    BY <1>1, <1>2, <1>5
  <2>2. i - 1 \in DOMAIN Tail(q) /\ Tail(q)[i - 1] = q[i]
    BY <1>2, <2>1
  <2> QED
    BY <1>1, <2>2 DEF Pending
<1> QED
  BY <1>3, <1>4, <1>5

(* An edit that is announced puts an event that restarts into the queue.      *)
LEMMA EditIsPending ==
  ASSUME NEW q \in Seq(EventKinds), NEW es \in EditEvents, Announces(es)
  PROVE  Pending(q \o es)
<1>1. es \in Seq(EventKinds)
  BY EditEventsAre
<1>2. PICK i \in DOMAIN es : Restarts(es[i])
  BY EditEventsAre
<1>3. i \in 1 .. Len(es) /\ Len(es) \in Nat /\ Len(q) \in Nat
  BY <1>1
<1>4. Len(q) + i \in DOMAIN (q \o es) /\ (q \o es)[Len(q) + i] = es[i]
  BY <1>1, <1>3
<1> QED
  BY <1>2, <1>4 DEF Pending

(* No step loses an edit.                                                     *)
LEMMA EditsOnTheirWayStep ==
  ASSUME TypeOK, EditsOnTheirWay, [Next]_vars PROVE EditsOnTheirWay'
<1> USE DEF EditsOnTheirWay
<1>t. /\ source \in Int /\ announced \in Int /\ tried \in Int /\ drains \in Nat
      /\ events \in Seq(EventKinds) /\ late \in BOOLEAN
  BY BoundsAssumption DEF TypeOK, Revisions, None, BoundsAssumption
<1>k. /\ "scratch" \in EventKinds /\ "binaryRemoved" \in EventKinds
      /\ <<"binaryCreated">> \in Seq(EventKinds)
      /\ <<"binaryCreated", "binaryWritten">> \in Seq(EventKinds)
  BY DEF EventKinds
<1>p. Pending(events) =>
        /\ \A e \in {"scratch", "binaryRemoved"} : Pending(Append(events, e))
        /\ Pending(events \o <<"binaryCreated">>)
        /\ Pending(events \o <<"binaryCreated", "binaryWritten">>)
        /\ ~Restarts(Head(events)) => Pending(Tail(events))
  BY <1>t, <1>k, PendingStays
<1>1. CASE Edit
  <2>1. source' = source + 1 /\ UNCHANGED <<late, drains, pc, tried, cm>>
    BY <1>1 DEF Edit
  <2>2. PICK es \in EditEvents :
          \/ events' = events /\ announced' = announced
          \/ events' = events \o es /\ announced' = announced
          \/ events' = events \o es /\ announced' = source' /\ Announces(es)
    BY <1>1 DEF Edit
  <2>3. es \in Seq(EventKinds)
    BY EditEventsAre
  <2>4. Pending(events) => Pending(events \o es)
    BY <1>t, <2>3, PendingStays
  <2>5. CASE announced' = announced
    <3>1. Pending(events) => Pending(events')
      BY <2>2, <2>4
    <3>2. announced' <= source'
      BY <1>t, <2>1, <2>5
    <3> QED
      BY <2>1, <2>5, <3>1, <3>2
  <2>6. CASE events' = events \o es /\ announced' = source' /\ Announces(es)
    <3>1. Pending(events')
      BY <1>t, <2>6, EditIsPending
    <3> QED
      BY <1>t, <2>1, <2>6, <3>1
  <2> QED
    BY <2>2, <2>5, <2>6
<1>2. CASE AppWrites
  BY <1>t, <1>p, <1>2 DEF AppWrites, environment
<1>3. CASE RemoveBinary \/ SignalRemove
  BY <1>t, <1>p, <1>3 DEF RemoveBinary, SignalRemove, environment
<1>4. CASE Build \/ BuildWontStart
  BY <1>t, <1>4 DEF Build, BuildWontStart, Assign, NoCommand, Loop, environment
<1>5. CASE MakeCommand \/ Launch
  BY <1>5 DEF MakeCommand, Launch, Loop, environment
<1>6. CASE TakeEvent
  BY <1>p, <1>6 DEF TakeEvent, environment
<1>7. CASE Stop \/ Reap
  BY <1>7 DEF Stop, Reap, environment
<1>8. CASE Wake
  <2>1. CASE drains > 0
    BY <1>8, <2>1 DEF Wake, environment
  <2>2. CASE ~(drains > 0)
    BY <1>8, <2>2 DEF Wake, environment
  <2> QED
    BY <2>1, <2>2
<1>9. CASE Drain
  BY <1>9 DEF Drain, environment
<1>10. CASE DrainEnds
  BY <1>t, <1>10 DEF DrainEnds, environment
<1>11. CASE AppDies \/ SignalEarly \/ Signal \/ SignalKill \/ Exit
  <2>1. cm.proc = "nil" => cm'.proc = "nil"
    BY <1>11 DEF AppDies, SignalEarly, Signal, SignalKill, Exit, Killed
  <2>2. UNCHANGED <<source, announced, late, drains, pc, tried, events>>
    BY <1>11 DEF AppDies, SignalEarly, Signal, SignalKill, Exit, environment
  <2> QED
    BY <2>1, <2>2
<1>12. CASE UNCHANGED vars
  BY <1>12 DEF vars, environment
<1>13. CASE Prebuild
  BY <1>13 DEF Prebuild, environment
<1> QED
  BY <1>1, <1>2, <1>3, <1>4, <1>5, <1>6, <1>7, <1>8, <1>9, <1>10, <1>11,
     <1>12, <1>13 DEF Next

(* Live reloading for any number of edits: at rest, unless a drain was late   *)
(* or the go tool could not be started, every edit with a Write or Create     *)
(* event has been read by the last build.                                     *)
THEOREM EditsAreBuilt == Spec => []EditsReachTheBuild
<1>1. Init => EditsOnTheirWay
  BY DEF Init, EditsOnTheirWay, None
<1>2. EditsOnTheirWay => EditsReachTheBuild
  BY DEF EditsOnTheirWay, EditsReachTheBuild, AtRest, Pending
<1> QED
  BY TypeCorrect, EditsOnTheirWayStep, <1>1, <1>2, PTL DEF Spec
=============================================================================
