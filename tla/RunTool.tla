------------------------------- MODULE RunTool -------------------------------
(***************************************************************************)
(* The command `goboots run' (goboots/run.go): it builds the application,   *)
(* starts it, and on every event of the file watcher that matters kills it, *)
(* waits, builds and starts it again.  A goroutine per restart throws       *)
(* events away for a while; another one waits for a signal.                 *)
(*                                                                         *)
(* The watcher is a queue of events.  A directory made after the walk over  *)
(* the tree is never watched: the branch that would add it (243) wants a    *)
(* name that ends with a separator, and fsnotify gives none.  Edits there,  *)
(* and those that .donotwatch keeps away, are made without an event.        *)
(*                                                                         *)
(* Durations: the 10 ms of the signal goroutine are shorter than the        *)
(* 1500 ms before a start.  That the drain, 1100 times a millisecond, is    *)
(* over by then is NOT assumed; `late' says that it was not.                *)
(***************************************************************************)
EXTENDS Integers, Sequences

CONSTANTS MaxEdits,     \* bound: edits of the sources
          MaxQueue,     \* bound: with that many events the application writes no file,
                        \* and with more the -prebuild command none
          MaxDrains     \* bound: drains at once

ASSUME BoundsAssumption ==
    MaxEdits \in Nat /\ MaxQueue \in Nat /\ MaxDrains \in Nat \ {0}

VARIABLES source,       \* revision of the sources
          broken,       \* the revisions that do not compile
          announced,    \* the last revision whose edit made an event of Write or Create
          noisy,        \* the application writes into watched directories
          generates,    \* so does the -prebuild command, which every start runs
          copies,       \* the go tool copies its result, it cannot rename it
          events,       \* of the watcher
          drains,       \* how many goroutines throw events away
          late,         \* history: a drain was still there at a start
          pc,           \* where runApp stands
          binary,       \* revision of the file _goboots_main_
          tried,        \* revision the last build read
          cm,           \* the command and its process
          orphans,      \* revisions of processes that cm no longer holds
          sig,          \* where the signal goroutine stands
          sigDuring     \* what runApp did when the signal came

environment == <<source, broken, announced, noisy, generates, copies>>
vars == <<environment, events, drains, late, pc, binary, tried, cm, orphans,
          sig, sigDuring>>

Revisions == 0 .. MaxEdits
None == -1              \* no revision
Leftover == -2          \* the binary of an earlier session
Builds == Revisions \cup {None, Leftover}

EventKinds == {"written", "created", "other", "scratch",
               "binaryCreated", "binaryWritten", "binaryRemoved"}

\* The events of an edit.  A source that is removed or renamed makes one of another Op, and
\* so does a write where the system reports it together with something else; a source
\* that is moved makes one there and a Create here.
EditEvents == {<<"written">>, <<"created">>, <<"other">>, <<"other", "created">>}
Announces(es) == \E i \in DOMAIN es : es[i] \in {"written", "created"}

\* Where a file may be: in a directory that the walk met; in one whose name
\* starts with a dot or an underscore; in one, or itself, named by .donotwatch;
\* in a directory that was made later.  Only the first is watched with effect.
Places == {"walked", "hidden", "donotwatch", "new"}
Watched(place) == place = "walked"

\* cm is nil, or has no Process, or one.
NoCommand == [proc |-> "nil", rev |-> None]
NoProcess == [proc |-> "unstarted", rev |-> None]
HasProcess == cm.proc \in {"running", "killed", "dead"}

Up == sig \notin {"exited", "gone"}

RestartsOnWriteOnly(e) == e \in {"written", "scratch", "binaryWritten"}

RestartsForTheBinary(e) == e \notin {"other", "binaryRemoved"}

\* Write and Create only; a created binary is the tool's own.
Restarts(e) == e \notin {"other", "binaryCreated", "binaryRemoved"}

Killed(c) == IF c.proc = "running" THEN [c EXCEPT !.proc = "killed"] ELSE c

\* cm = c: a process that is still alive is left to itself.
Assign(c) ==
    /\ cm' = c
    /\ orphans' = IF cm.proc \in {"running", "killed"}
                    THEN orphans \cup {cm.rev} ELSE orphans

\* start is over; after the first one the signals are ours.
Loop == pc' = "select" /\ sig' = IF sig = "off" THEN "armed" ELSE sig

-----------------------------------------------------------------------------
Init ==
    /\ source = 0 /\ announced = 0
    /\ broken \in SUBSET Revisions
    /\ noisy \in BOOLEAN /\ generates \in BOOLEAN /\ copies \in BOOLEAN
    /\ events = <<>>
    /\ drains = 0 /\ late = FALSE
    /\ pc = "start"
    /\ binary \in {None, Leftover}
    /\ tried = None
    /\ cm = NoCommand /\ orphans = {}
    /\ sig = "off" /\ sigDuring = "no"

\* Somebody edits the sources.
Edit ==
    /\ source < MaxEdits
    /\ source' = source + 1
    /\ \E place \in Places, es \in EditEvents :
         /\ events' = IF Watched(place) THEN events \o es ELSE events
         /\ announced' = IF Watched(place) /\ Announces(es) THEN source' ELSE announced
    /\ UNCHANGED <<broken, noisy, generates, copies, drains, late, pc, binary, tried, cm,
                   orphans, sig, sigDuring>>

\* The application, a log of its own perhaps.
AppWrites ==
    /\ noisy /\ cm.proc = "running" /\ Len(events) < MaxQueue
    /\ events' = Append(events, "scratch")
    /\ UNCHANGED <<environment, drains, late, pc, binary, tried, cm, orphans,
                   sig, sigDuring>>

\* The application ends, because it was killed or by itself.
AppDies ==
    /\ cm.proc \in {"running", "killed"}
    /\ cm' = [cm EXCEPT !.proc = "dead"]
    /\ UNCHANGED <<environment, events, drains, late, pc, binary, tried,
                   orphans, sig, sigDuring>>

-----------------------------------------------------------------------------
\* start: the old binary is removed.
RemoveBinary ==
    /\ Up /\ pc = "start"
    /\ pc' = "prebuild"
    /\ binary' = None
    /\ events' = IF binary = None THEN events
                                  ELSE Append(events, "binaryRemoved")
    /\ UNCHANGED <<environment, drains, late, tried, cm, orphans, sig,
                   sigDuring>>

\* The -prebuild command runs to its end, in the watched tree.
Prebuild ==
    /\ Up /\ pc = "prebuild"
    /\ pc' = "build"
    /\ \/ UNCHANGED events
       \/ /\ generates /\ Len(events) <= MaxQueue
          /\ events' = Append(events, "scratch")
    /\ UNCHANGED <<environment, drains, late, binary, tried, cm, orphans, sig,
                   sigDuring>>

\* The build needs no tool to end: it ends even when the tool has exited.
Build ==
    /\ pc = "build"
    /\ pc' = "command"
    /\ tried' = source
    /\ IF source \in broken
         THEN UNCHANGED <<binary, events>>
         ELSE /\ binary' = source
              /\ events' = events \o (IF copies
                             THEN <<"binaryCreated", "binaryWritten">>
                             ELSE <<"binaryCreated">>)
    /\ UNCHANGED <<environment, drains, late, cm, orphans, sig, sigDuring>>

\* There is no go tool to start: nothing is built.
BuildWontStart ==
    /\ Up /\ pc = "build"
    /\ Assign(NoCommand)
    /\ Loop
    /\ UNCHANGED <<environment, events, drains, late, binary, tried, sigDuring>>

\* cm = exec.Command(...), which has no Process yet.
MakeCommand ==
    /\ Up /\ pc = "command"
    /\ pc' = "launch"
    /\ Assign(NoProcess)
    /\ UNCHANGED <<environment, events, drains, late, binary, tried, sig,
                   sigDuring>>

\* cm.Start(); without a binary, or for another reason, it fails.
Launch ==
    /\ Up /\ pc = "launch"
    /\ \/ binary # None /\ cm' = [proc |-> "running", rev |-> binary]
       \/ UNCHANGED cm
    /\ Loop
    /\ UNCHANGED <<environment, events, drains, late, binary, tried, orphans,
                   sigDuring>>

TakeEvent ==
    /\ Up /\ pc = "select" /\ events # <<>>
    /\ events' = Tail(events)
    /\ pc' = IF Restarts(Head(events)) THEN "stop" ELSE "select"
    /\ UNCHANGED <<environment, drains, late, binary, tried, cm, orphans, sig,
                   sigDuring>>

\* stop: kill, and wait below, if there is a process at all.
Stop ==
    /\ Up /\ pc = "stop"
    /\ pc' = "reap"
    /\ cm' = Killed(cm)
    /\ UNCHANGED <<environment, events, drains, late, binary, tried, orphans,
                   sig, sigDuring>>

ReapAtOnce ==
    /\ Up /\ pc = "reap"
    /\ drains < MaxDrains
    /\ drains' = drains + 1
    /\ pc' = "sleep"
    /\ UNCHANGED <<environment, events, late, binary, tried, cm, orphans, sig,
                   sigDuring>>

\* The process is gone: start a drain and sleep.
Reap ==
    /\ Up /\ pc = "reap"
    /\ HasProcess => cm.proc = "dead"
    /\ drains < MaxDrains
    /\ drains' = drains + 1
    /\ pc' = "sleep"
    /\ UNCHANGED <<environment, events, late, binary, tried, cm, orphans, sig,
                   sigDuring>>

\* 1500 ms later; by then a signal that came in the loop has ended the tool.
Wake ==
    /\ Up /\ pc = "sleep"
    /\ sigDuring # "loop"
    /\ pc' = "start"
    /\ late' = (late \/ drains > 0)
    /\ UNCHANGED <<environment, events, drains, binary, tried, cm, orphans,
                   sig, sigDuring>>

Drain ==
    /\ Up /\ drains > 0 /\ events # <<>>
    /\ events' = Tail(events)
    /\ UNCHANGED <<environment, drains, late, pc, binary, tried, cm, orphans,
                   sig, sigDuring>>

DrainEnds ==
    /\ Up /\ drains > 0
    /\ drains' = drains - 1
    /\ UNCHANGED <<environment, events, late, pc, binary, tried, cm, orphans,
                   sig, sigDuring>>

-----------------------------------------------------------------------------
\* A signal before signal.Notify ends the tool at once.
SignalEarly ==
    /\ sig = "off"
    /\ sig' = "gone"
    /\ UNCHANGED <<environment, events, drains, late, pc, binary, tried, cm,
                   orphans, sigDuring>>

SignalNoKill ==
    /\ Up /\ sig = "armed"
    /\ sig' = "remove"
    /\ sigDuring' = IF pc \in {"select", "stop", "reap"} THEN "loop"
                                                         ELSE "restart"
    /\ UNCHANGED <<environment, events, drains, late, pc, binary, tried, cm,
                   orphans>>

\* The goroutine gets the signal and looks at cm.
Signal ==
    /\ Up /\ sig = "armed"
    /\ sig' = IF HasProcess THEN "kill" ELSE "remove"
    /\ sigDuring' = IF pc \in {"select", "stop", "reap"} THEN "loop"
                                                         ELSE "restart"
    /\ UNCHANGED <<environment, events, drains, late, pc, binary, tried, cm,
                   orphans>>

\* It reads cm again to kill; a nil cm or Process by then is a panic.
SignalKill ==
    /\ sig = "kill"
    /\ sig' = IF HasProcess THEN "remove" ELSE "gone"
    /\ cm' = Killed(cm)
    /\ UNCHANGED <<environment, events, drains, late, pc, binary, tried,
                   orphans, sigDuring>>

SignalRemove ==
    /\ sig = "remove"
    /\ sig' = "exit"
    /\ binary' = None
    /\ events' = IF binary = None THEN events
                                  ELSE Append(events, "binaryRemoved")
    /\ UNCHANGED <<environment, drains, late, pc, tried, cm, orphans,
                   sigDuring>>

Exit ==
    /\ sig = "exit"
    /\ sig' = "exited"
    /\ UNCHANGED <<environment, events, drains, late, pc, binary, tried, cm,
                   orphans, sigDuring>>

-----------------------------------------------------------------------------
Run == RemoveBinary \/ Prebuild \/ Build \/ BuildWontStart \/ MakeCommand
       \/ Launch \/ TakeEvent \/ Stop \/ Reap \/ Wake

Handler == SignalKill \/ SignalRemove \/ Exit

Next ==
    \/ Edit \/ AppWrites \/ AppDies
    \/ RemoveBinary \/ Prebuild \/ Build \/ BuildWontStart \/ MakeCommand \/ Launch
    \/ TakeEvent \/ Stop \/ Reap \/ Wake
    \/ Drain \/ DrainEnds
    \/ SignalEarly \/ Signal \/ SignalKill \/ SignalRemove \/ Exit

Spec == Init /\ [][Next]_vars

\* Goroutines are scheduled, prebuild commands and builds end, a killed process dies.
Fairness ==
    /\ WF_vars(Run) /\ WF_vars(DrainEnds) /\ WF_vars(Handler)
    /\ WF_vars(AppDies /\ cm.proc = "killed")

FairSpec == Spec /\ Fairness

-----------------------------------------------------------------------------
(* Types of all variables; at most MaxDrains drains, never fewer than none.   *)
TypeOK ==
    /\ source \in Revisions /\ announced \in Revisions
    /\ broken \subseteq Revisions
    /\ noisy \in BOOLEAN /\ generates \in BOOLEAN /\ copies \in BOOLEAN
    /\ events \in Seq(EventKinds)
    /\ drains \in 0 .. MaxDrains /\ late \in BOOLEAN
    /\ pc \in {"start", "prebuild", "build", "command", "launch", "select", "stop",
               "reap", "sleep"}
    /\ binary \in Builds /\ tried \in Revisions \cup {None}
    /\ cm \in [proc : {"nil", "unstarted", "running", "killed", "dead"},
               rev : Builds]
    /\ orphans \subseteq Builds
    /\ sig \in {"off", "armed", "kill", "remove", "exit", "exited", "gone"}
    /\ sigDuring \in {"no", "loop", "restart"}

(* At most one application runs under the tool, and it is what the last      *)
(* build made: not one whose port the next start would still find taken, not *)
(* the binary of an earlier build, or session, after a build that failed     *)
(* (stop waits for the process, start removes the file first).               *)
OnlyTheLastBuildRuns ==
    /\ orphans = {}
    /\ cm.proc = "running" => cm.rev = tried /\ tried \notin broken

AtRest == pc = "select" /\ drains = 0 /\ ~\E i \in DOMAIN events : Restarts(events[i])

(* Live reloading: when nothing is left to do, the last build has read every  *)
(* edit that was announced, whichever events the drains threw away.  Removing *)
(* or renaming a source away announces nothing: the loop drops such events.   *)
(* Two exceptions: a drain outlived the pause before a start (it may eat the  *)
(* event of an edit that came after the build); the go tool could not even be *)
(* started, so that there is no command and the edits wait for the next one.  *)
EditsReachTheBuild ==
    Up /\ AtRest /\ ~late /\ cm.proc # "nil" => tried >= announced

(* A signal that finds the tool in its loop leaves nothing behind: no         *)
(* application and no binary.  One during a restart may leave both (the       *)
(* goroutine looks at a command that is about to be replaced).                *)
ExitLeavesNothing ==
    sig = "exited" /\ sigDuring = "loop" => cm.proc # "running" /\ binary = None

(* The tool comes to rest when edits end: it does not restart because of the  *)
(* files it makes itself.  With an application or a -prebuild command that    *)
(* writes into a watched directory, or a go tool that copies its result (a    *)
(* Write event of the binary, which only the Create branch filters), it may   *)
(* restart for ever.                                                          *)
SettlesDown == ~noisy /\ ~generates /\ ~copies => <>[](AtRest \/ ~Up)
=============================================================================
