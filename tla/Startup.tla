------------------------------- MODULE Startup -------------------------------
(***************************************************************************)
(* App.Listen and what it starts (App.go, App_Routines.go): it loads the    *)
(* application, starts the goroutines listen and listenTLS, each of which   *)
(* calls loadAll again before it serves, starts the maintenance of sessions *)
(* and waits for the first error in mainChan.                               *)
(*                                                                         *)
(* loadAll returns at once when loadedAll is set; nothing else keeps two of *)
(* them apart, and listen and listenTLS ignore what it returns.             *)
(*                                                                         *)
(* The application was made by NewApp, so it has a Config; main is still    *)
(* there when Listen has returned (what the process does then is its own).  *)
(***************************************************************************)
EXTENDS Naturals, Sequences, FiniteSets

VARIABLES host,         \* Config.HostAddr is set
          tls,          \* TLS is "off", "on", or lacks a "key"
          at,           \* where Listen, listen and listenTLS stand
          router,       \* app.Router: "none"; "manual", made by AddRouteLine;
                        \* "made", being loaded; "loaded"; "empty", its load failed
          loadedAll,
          mainChan,
          result,       \* what Listen returned
          db,           \* curSessionDb: "none", "open", "closed"; "appless", a memory
                        \* or mysql storage that SetApp was not called on
          routine,      \* routineSessionMaintenance: "no", "sleeping", "running"
          crashed,      \* the process died
          failed        \* history: Listen's own loadAll returned an error

config == <<host, tls>>
listenVars == <<config, at, router, loadedAll, mainChan, result, db, routine, crashed,
          failed>>

Main == "Listen"
Servers == {"listen", "listenTLS"}
Loaders == {Main} \cup Servers

\* The steps of loadAll.
Loading == {"check", "config", "refresh", "locale", "views"}

CapacityZero == 0
Capacity == 10          \* of mainChan

Enabled(p) == IF p = "listen" THEN host ELSE tls = "on"

\* Where p goes when its loadAll has returned an error, or none.
AfterErrorUnreported(p) == IF p = Main THEN "spawn" ELSE "loaded"

AfterError(p) == IF p = Main THEN "send" ELSE "loaded"

AfterLoad(p) == IF p = Main THEN "spawn" ELSE "loaded"

Moves(p, where) == at' = [at EXCEPT ![p] = where]

-----------------------------------------------------------------------------
ListenInit ==
    /\ host \in BOOLEAN
    /\ tls \in {"off", "on", "key"}
    /\ at = [p \in Loaders |-> IF p = Main THEN "check" ELSE "none"]
    /\ router \in {"none", "manual"}
    /\ loadedAll = FALSE
    /\ mainChan = << >>
    /\ result = "none"
    /\ db \in {"none", "open"}
    /\ routine = "no"
    /\ crashed = FALSE
    /\ failed = FALSE

-----------------------------------------------------------------------------
\* loadAll, by p.

Fail(p) == /\ Moves(p, AfterError(p))
           /\ failed' = (failed \/ p = Main)

Check(p) ==
    /\ at[p] = "check"
    /\ Moves(p, IF loadedAll THEN AfterLoad(p) ELSE "config")
    /\ UNCHANGED <<config, router, loadedAll, mainChan, result, db, routine,
                   crashed, failed>>

\* loadConfig up to loadRoutesNew, which leaves a router alone that is there:
\* also one whose routes another loadAll has failed to load.
LoadRoutes(p) ==
    /\ at[p] = "config"
    /\ IF router = "none"
         THEN router' = "made" /\ Moves(p, "refresh")
         ELSE UNCHANGED router /\ Moves(p, "locale")
    /\ UNCHANGED <<config, loadedAll, mainChan, result, db, routine, crashed,
                   failed>>

Refresh(p) ==
    /\ at[p] = "refresh"
    /\ \/ router' = "loaded" /\ Moves(p, "locale") /\ UNCHANGED failed
       \/ router' = "empty" /\ Fail(p)
    /\ UNCHANGED <<config, loadedAll, mainChan, result, db, routine, crashed>>

\* The rest of loadConfig: translations may be missing.
LoadLocale(p) ==
    /\ at[p] = "locale"
    /\ \/ Moves(p, "views") /\ UNCHANGED failed
       \/ Fail(p)
    /\ UNCHANGED <<config, router, loadedAll, mainChan, result, db, routine,
                   crashed>>

\* loadTemplates.
LoadViewsUnmarked(p) ==
    /\ at[p] = "views"
    /\ \/ /\ UNCHANGED loadedAll
          /\ Moves(p, AfterLoad(p))
          /\ UNCHANGED failed
       \/ Fail(p) /\ UNCHANGED loadedAll
    /\ UNCHANGED <<config, router, mainChan, result, db, routine, crashed>>

LoadViews(p) ==
    /\ at[p] = "views"
    /\ \/ /\ loadedAll' = TRUE
          /\ Moves(p, AfterLoad(p))
          /\ UNCHANGED failed
       \/ Fail(p) /\ UNCHANGED loadedAll
    /\ UNCHANGED <<config, router, mainChan, result, db, routine, crashed>>

\* Two goroutines fill a.templateMap: "concurrent map writes" ends the process.
LoadViewsTwice ==
    /\ Cardinality({p \in Loaders : at[p] = "views"}) > 1
    /\ crashed' = TRUE
    /\ UNCHANGED <<config, at, router, loadedAll, mainChan, result, db, routine,
                   failed>>

-----------------------------------------------------------------------------
\* Listen.

\* A send waits while the channel is full (and, without a buffer, until Listen
\* receives).
Room == \/ Len(mainChan) < Capacity
        \/ at[Main] = "wait" /\ mainChan = << >>

SendAndRetry(p) ==
    /\ at[p] = "send"
    /\ mainChan' = Append(mainChan, IF p = Main THEN "load" ELSE p)
    /\ Moves(p, IF p = Main THEN "spawn" ELSE "send")
    /\ UNCHANGED <<config, router, loadedAll, result, db, routine, crashed, failed>>

Send(p) ==
    /\ at[p] = "send"
    /\ Room
    /\ mainChan' = Append(mainChan, IF p = Main THEN "load" ELSE p)
    /\ Moves(p, IF p = Main THEN "spawn" ELSE "end")
    /\ UNCHANGED <<config, router, loadedAll, result, db, routine, crashed, failed>>

\* The goroutines are started, and runRoutines.
Spawn ==
    /\ at[Main] = "spawn"
    /\ at' = [p \in Loaders |-> IF p = Main THEN "wait" ELSE "check"]
    /\ routine' = "sleeping"
    /\ UNCHANGED <<config, router, loadedAll, mainChan, result, db, crashed, failed>>

\* Close of a mysql storage without an app is a nil dereference.
CloseSessionStorage ==
    /\ db' = IF db = "open" THEN "closed" ELSE db
    /\ crashed' \in IF db = "appless" THEN BOOLEAN ELSE {FALSE}

\* Listen receives the first error, closes the session storage and returns.
ReceiveLast ==
    /\ at[Main] = "wait"
    /\ mainChan # << >>
    /\ result' = mainChan[Len(mainChan)]
    /\ mainChan' = SubSeq(mainChan, 1, Len(mainChan) - 1)
    /\ CloseSessionStorage
    /\ Moves(Main, "returned")
    /\ UNCHANGED <<config, router, loadedAll, routine, failed>>

Receive ==
    /\ at[Main] = "wait"
    /\ mainChan # << >>
    /\ result' = Head(mainChan)
    /\ mainChan' = Tail(mainChan)
    /\ CloseSessionStorage
    /\ Moves(Main, "returned")
    /\ UNCHANGED <<config, router, loadedAll, routine, failed>>

-----------------------------------------------------------------------------
\* listen and listenTLS, after loadAll.  Without an address they end; listenTLS
\* reports a missing key, or that it could not write a temporary file.
ServeWithoutKey(p) ==
    /\ at[p] = "loaded"
    /\ Moves(p, IF Enabled(p) THEN "serving" ELSE "end")
    /\ UNCHANGED <<config, router, loadedAll, mainChan, result, db, routine,
                   crashed, failed>>

Serve(p) ==
    /\ at[p] = "loaded"
    /\ Moves(p, IF Enabled(p) THEN "serving"
               ELSE IF p = "listenTLS" /\ tls = "key" THEN "send" ELSE "end")
    /\ UNCHANGED <<config, router, loadedAll, mainChan, result, db, routine,
                   crashed, failed>>

NoTempFile ==
    /\ at["listenTLS"] = "loaded"
    /\ tls = "on"
    /\ Moves("listenTLS", "send")
    /\ UNCHANGED <<config, router, loadedAll, mainChan, result, db, routine,
                   crashed, failed>>

\* The server returns an error: it could not bind, or was closed.
Stop(p) ==
    /\ at[p] = "serving"
    /\ Moves(p, "send")
    /\ UNCHANGED <<config, router, loadedAll, mainChan, result, db, routine,
                   crashed, failed>>

\* A request asks for a session: initAnySessionStorage takes what is registered, and
\* does not call SetApp on it.
InitAnySessionStorage ==
    /\ \E p \in Servers : at[p] = "serving"
    /\ db = "none"
    /\ db' \in {"open", "appless"}
    /\ UNCHANGED <<config, at, router, loadedAll, mainChan, result, routine,
                   crashed, failed>>

\* routineSessionMaintenance, after its sleep; no curSessionDb is a panic, and so is
\* a Cleanup that has no app to log to.
Cleanup ==
    /\ routine # "no"
    /\ routine' = "running"
    /\ crashed' = (db \in {"none", "appless"})
    /\ UNCHANGED <<config, at, router, loadedAll, mainChan, result, db, failed>>

-----------------------------------------------------------------------------
LoadStep(p) == Check(p) \/ LoadRoutes(p) \/ Refresh(p) \/ LoadLocale(p) \/ LoadViews(p)

ListenNext == /\ ~crashed
        /\ \/ \E p \in Loaders : LoadStep(p) \/ Send(p)
           \/ LoadViewsTwice
           \/ Spawn
           \/ Receive
           \/ \E p \in Servers : Serve(p) \/ Stop(p)
           \/ NoTempFile
           \/ InitAnySessionStorage
           \/ Cleanup

\* Goroutines run.  Servers need not stop, and nobody need send requests.
ListenFairness ==
    /\ \A p \in Loaders : WF_listenVars(~crashed /\ (LoadStep(p) \/ Send(p)))
    /\ \A p \in Servers : WF_listenVars(~crashed /\ Serve(p))
    /\ WF_listenVars(~crashed /\ (Spawn \/ Receive))
    /\ WF_listenVars(~crashed /\ Cleanup)

ListenSpec == ListenInit /\ [][ListenNext]_listenVars
FairListenSpec == ListenSpec /\ ListenFairness

-----------------------------------------------------------------------------
\* Properties.

Messages == {"load"} \cup Servers

\* Every variable has its type; mainChan holds no more than it can.
ListenTypeOK ==
    /\ host \in BOOLEAN /\ tls \in {"off", "on", "key"}
    /\ at \in [Loaders -> Loading \cup {"none", "send", "spawn", "wait", "returned",
                                        "loaded", "serving", "end"}]
    /\ router \in {"none", "manual", "made", "loaded", "empty"}
    /\ loadedAll \in BOOLEAN
    /\ mainChan \in Seq(Messages) /\ Len(mainChan) <= Capacity
    /\ result \in Messages \cup {"none"}
    /\ db \in {"none", "open", "closed", "appless"}
    /\ routine \in {"no", "sleeping", "running"}
    /\ crashed \in BOOLEAN /\ failed \in BOOLEAN

\* When the first load fails, that is what Listen returns: no error of the two
\* servers, which are started all the same, gets ahead of it.
FirstErrorReturned == result # "none" /\ failed => result = "load"

\* A server of an application that is not loaded, or was loaded over a router
\* that failed to load, is up only while Listen is about to report the failed
\* load or has done so.
ServesWhatIsLoaded ==
    \A p \in Servers :
      at[p] = "serving" /\ ~(loadedAll /\ router \in {"manual", "loaded"}) =>
        \/ result = "load"
        \/ mainChan # << >> /\ Head(mainChan) = "load"

\* Once its first load has succeeded, and with a session storage chosen before Listen
\* or one that needs no app, the three calls of loadAll, the maintenance of sessions and
\* the close at the end do not bring the process down.
GoodStartNeverCrashes == crashed => failed \/ db \in {"none", "appless"}

\* Every error that is reported makes Listen return.
ErrorsEndListen ==
    \A p \in Loaders : at[p] = "send" ~> at[Main] = "returned" \/ crashed

\* With an address to serve on, Listen ends up serving or says why not.
ServesOrSaysWhy ==
    host \/ tls # "off" =>
      <>(crashed \/ at[Main] = "returned" \/ \E p \in Servers : at[p] = "serving")
=============================================================================
