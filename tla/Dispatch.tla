------------------------------ MODULE Dispatch ------------------------------
(***************************************************************************)
(* One request after the other and several at once on their way through     *)
(* App.ServeHTTP, enroute and handleReq: route, websocket upgrade, filters, *)
(* PreFilter, the controller's method, Out.Render, the closers.             *)
(*                                                                         *)
(* What the application's own code does is chosen freely: filters refuse,    *)
(* PreFilter answers or is silent, a method returns an Out or nil, any of    *)
(* them registers functions with In.Defer, uses the session's Flash or       *)
(* panics.  With the memory driver the requests of the model share one       *)
(* session, so they share its Flash.  A driver with a database hands each    *)
(* request a Session of its own (a Flash is never saved), or fails to: then  *)
(* GetSession answers the request itself, and the application goes on.       *)
(***************************************************************************)
EXTENDS Naturals, Sequences, FiniteSets

CONSTANTS Requests,     \* goroutines that serve a request
          Asked,        \* what requests ask and meet
          MaxDefers,    \* bound on the functions a request registers
          MaxFailures   \* bound on the responses before a failure to make a session

\* The route of a request: "none", an explicit "404", a "ghost" whose
\* controller is not registered, a controller without the method, or a call.
ASSUME DispatchAssumption ==
    /\ MaxDefers \in Nat /\ MaxFailures \in Nat
    /\ Asked \subseteq [method : {"GET", "POST"}, upgrade : BOOLEAN, gzip : BOOLEAN,
                        route : {"none", "404", "ghost", "nomethod", "call"},
                        redirect : BOOLEAN]

VARIABLES req,          \* what each request asks and meets
          driver,       \* curSessionDb: "memory" or one with a "database"
          pc,           \* where it stands
          gzip,         \* the gzip writer among in.closers: "none", "open", "closed"
          defers,       \* number of functions in in.defers
          out,          \* the Out the application made: how many of them it has
          ran,          \* number of deferred functions run
          gone,         \* the client went away: the request's context is done
          session,      \* in.session is set
          apart,        \* In.New made a second In before in.session was set
          flash,        \* the requests that put something in the shared Flash
          wrote,        \* who wrote a response, in order
          alive,        \* the process runs
          early         \* history: handleReq returned before it cleared the Flash

given == <<req, driver>>
io == <<gzip, wrote>>
content == <<defers, out, ran, session, apart, flash>>
fate == <<gone, alive, early>>
vars == <<given, pc, io, content, fate>>

NoOut == MaxDefers + 1

Goto(r, where) == pc' = [pc EXCEPT ![r] = where]
LeaveEarly(r) == /\ Goto(r, "close")
                 /\ early' = [early EXCEPT ![r] = TRUE]
                 /\ UNCHANGED <<gone, alive>>

\* Past enroute an upgraded connection is the application's: writes to the
\* ResponseWriter fail.
Hijacked(r) == req[r].upgrade /\ pc[r] \notin {"enroute", "mux"}
Writes(r, who) ==
    wrote' = IF Hijacked(r) THEN wrote ELSE [wrote EXCEPT ![r] = Append(@, who)]

\* The application's code runs: a filter, PreFilter, a method, a function
\* registered with In.Defer, a template.
Running(r) == pc[r] \in {"filters", "prefilter", "method", "madepre", "made",
                         "renderpre", "render"}

-----------------------------------------------------------------------------
Init ==
    /\ req \in [Requests -> Asked]
    /\ driver \in {"memory", "database"}
    /\ pc = [r \in Requests |-> "enroute"]
    /\ gzip = [r \in Requests |-> "none"]
    /\ defers = [r \in Requests |-> 0]
    /\ out = [r \in Requests |-> NoOut]
    /\ ran = [r \in Requests |-> 0]
    /\ gone = [r \in Requests |-> FALSE]
    /\ session = [r \in Requests |-> FALSE]
    /\ apart = [r \in Requests |-> FALSE]
    /\ flash = {}
    /\ wrote = [r \in Requests |-> << >>]
    /\ alive = TRUE
    /\ early = [r \in Requests |-> FALSE]

-----------------------------------------------------------------------------
\* enroute.  A GET that asks for a websocket is looked up under the method WS.

Upgrades(r) == req[r].upgrade /\ req[r].method = "GET"

\* Nothing is routed: ServeHTTP asks the ServeMux.
NotRouted(r) ==
    /\ pc[r] = "enroute"
    /\ req[r].route = "none"
    /\ Goto(r, "mux")
    /\ UNCHANGED <<given, io, content, fate>>

ServeMux(r) ==
    /\ pc[r] = "mux"
    /\ Writes(r, "mux")
    /\ Goto(r, "done")
    /\ UNCHANGED <<given, gzip, content, fate>>

\* enroute answers by itself: a 404 line, a redirect to https, an upgrade that
\* is not a GET or that fails (the upgrader has written why).
Refusal(r) ==
    IF req[r].route = "404" THEN {"404"}
    ELSE IF req[r].redirect THEN {"redirect"}
    ELSE IF req[r].upgrade /\ ~Upgrades(r) THEN {"405"}
    ELSE IF req[r].upgrade THEN {"upgrader"} ELSE {}

RefuseAndGoOn(r) ==
    /\ pc[r] = "enroute"
    /\ req[r].route \in {"404", "nomethod", "call"}
    /\ \E who \in Refusal(r) : Writes(r, who)
    /\ Goto(r, "mux")
    /\ UNCHANGED <<given, gzip, content, fate>>

Refuse(r) ==
    /\ pc[r] = "enroute"
    /\ req[r].route \in {"404", "nomethod", "call"}
    /\ \E who \in Refusal(r) : Writes(r, who)
    /\ Goto(r, "done")
    /\ UNCHANGED <<given, gzip, content, fate>>

\* The controller is not registered: Logger.Fatalf ends the process.
NoController(r) ==
    /\ pc[r] = "enroute"
    /\ req[r].route = "ghost"
    /\ alive' = FALSE
    /\ UNCHANGED <<given, pc, io, content, gone, early>>

Accept(r) ==
    /\ pc[r] = "enroute"
    /\ req[r].route \in {"nomethod", "call"}
    /\ Refusal(r) \subseteq {"upgrader"}
    /\ Goto(r, "filters")
    /\ UNCHANGED <<given, io, content, fate>>

-----------------------------------------------------------------------------
\* handleReq.

\* CompressFilter puts a gzip writer in the place of in.W.
CompressFilter(r) ==
    /\ pc[r] = "filters"
    /\ req[r].gzip /\ ~Hijacked(r) /\ gzip[r] = "none"
    /\ gzip' = [gzip EXCEPT ![r] = "open"]
    /\ UNCHANGED <<given, pc, wrote, content, fate>>

\* A filter refuses the request, having written what it likes.
FilterRefuses(r) ==
    /\ pc[r] = "filters"
    /\ Writes(r, "filter") \/ UNCHANGED wrote
    /\ LeaveEarly(r)
    /\ UNCHANGED <<given, gzip, content>>

FiltersPass(r) ==
    /\ pc[r] = "filters"
    /\ Goto(r, "prefilter")
    /\ UNCHANGED <<given, io, content, fate>>

\* PreFilter answers nil, Continue, or an Out of its own.
PreFilterStops(r) ==
    /\ pc[r] = "prefilter"
    /\ LeaveEarly(r)
    /\ UNCHANGED <<given, io, content>>

PreFilterContinues(r) ==
    /\ pc[r] = "prefilter"
    /\ req[r].route = "call"
    /\ Goto(r, "method")
    /\ UNCHANGED <<given, io, content, fate>>

NoMethod(r) ==
    /\ pc[r] = "prefilter"
    /\ req[r].route = "nomethod"
    /\ Writes(r, "501")
    /\ LeaveEarly(r)
    /\ UNCHANGED <<given, gzip, content>>

\* The controller's method returns nil.
ReturnNil(r) ==
    /\ pc[r] = "method"
    /\ Goto(r, "clear")
    /\ UNCHANGED <<given, io, content, fate>>

\* Output...: an Out takes the functions registered so far along; one of an In
\* that New made takes none.  Then the functions of BeforeOutput run, and may do
\* what the application does at "made": what they defer is not in this Out.
MakeOut(r) ==
    /\ pc[r] \in {"prefilter", "method"}
    /\ \E n \in {defers[r], 0} : out' = [out EXCEPT ![r] = n]
    /\ \E template \in BOOLEAN : session' = [session EXCEPT ![r] = @ \/ template]
    /\ Goto(r, IF pc[r] = "method" THEN "made" ELSE "madepre")
    /\ UNCHANGED <<given, io, defers, ran, apart, flash, fate>>

\* It is returned and rendered: nothing happens when the client has gone.
AfterRender(r) == IF pc[r] \in {"madepre", "renderpre"} THEN LeaveEarly(r)
                  ELSE Goto(r, "clear") /\ UNCHANGED fate

RenderStarts(r) ==
    /\ pc[r] \in {"madepre", "made"}
    /\ IF gone[r] THEN AfterRender(r)
       ELSE /\ Goto(r, IF pc[r] = "made" THEN "render" ELSE "renderpre")
            /\ UNCHANGED fate
    /\ UNCHANGED <<given, io, content>>

\* First the functions run, in the order of their registration.
RunDeferred(r) ==
    /\ pc[r] \in {"renderpre", "render"}
    /\ ran[r] < out[r]
    /\ ran' = [ran EXCEPT ![r] = @ + 1]
    /\ UNCHANGED <<given, pc, io, defers, out, session, apart, flash, fate>>

RenderContentFirst(r) ==
    /\ pc[r] \in {"renderpre", "render"}
    /\ Writes(r, "out") \/ UNCHANGED wrote
    /\ AfterRender(r)
    /\ UNCHANGED <<given, gzip, content>>

\* Then the content is written; a value JSON cannot express is a panic that
\* Render recovers, and no content.
RenderContent(r) ==
    /\ pc[r] \in {"renderpre", "render"}
    /\ ran[r] = out[r]
    /\ Writes(r, "out") \/ UNCHANGED wrote
    /\ AfterRender(r)
    /\ UNCHANGED <<given, gzip, content>>

KeepFlash(r) ==
    /\ pc[r] = "clear"
    /\ UNCHANGED flash
    /\ Goto(r, "close")
    /\ UNCHANGED <<given, io, defers, out, ran, session, apart, fate>>

ClearFlash(r) ==
    /\ pc[r] = "clear"
    /\ flash' = IF session[r] THEN {} ELSE flash
    /\ Goto(r, "close")
    /\ UNCHANGED <<given, io, defers, out, ran, session, apart, fate>>

\* The deferred closeall.
CloseNothing(r) ==
    /\ pc[r] = "close"
    /\ Goto(r, "done")
    /\ UNCHANGED <<given, io, content, fate>>

CloseAll(r) ==
    /\ pc[r] = "close"
    /\ gzip' = [gzip EXCEPT ![r] = IF @ = "open" THEN "closed" ELSE @]
    /\ Goto(r, "done")
    /\ UNCHANGED <<given, wrote, content, fate>>

-----------------------------------------------------------------------------
\* What the application's code may do on the way.

Defer(r) ==
    /\ Running(r)
    /\ defers[r] < MaxDefers
    /\ defers' = [defers EXCEPT ![r] = @ + 1]
    /\ UNCHANGED <<given, pc, io, out, ran, session, apart, flash, fate>>

\* In.Session(), to put something in the Flash or not.
UseSession(r) ==
    /\ Running(r)
    /\ session' = [session EXCEPT ![r] = TRUE]
    /\ \E put \in SUBSET {r} : flash' = IF driver = "memory" THEN flash \cup put ELSE flash
    /\ UNCHANGED <<given, pc, io, defers, out, ran, apart, fate>>

\* In.New copies in.session.  An In made before there was one gets the session
\* by itself, and the request's own In, which handleReq looks at, does not.
New(r) ==
    /\ Running(r)
    /\ ~session[r]
    /\ apart' = [apart EXCEPT ![r] = TRUE]
    /\ UNCHANGED <<given, pc, io, defers, out, ran, session, flash, fate>>

UseSessionApart(r) ==
    /\ Running(r)
    /\ apart[r]
    /\ flash' = IF driver = "memory" THEN flash \cup {r} ELSE flash
    /\ UNCHANGED <<given, pc, io, defers, out, ran, session, apart, fate>>

\* A database driver may fail to make the session: GetSession writes a 500 of its own and
\* returns nil; the In has no session, and asks for one again the next time.
CannotMakeSession(r) == /\ driver = "database"
                        /\ ~session[r] \/ apart[r]
                        /\ Len(wrote[r]) < MaxFailures
                        /\ Writes(r, "500")

NoSession(r) ==
    /\ Running(r)
    /\ CannotMakeSession(r)
    /\ UNCHANGED <<given, pc, gzip, content, fate>>

\* An Out of a template takes the Flash of the session that is not there: a panic.
OutWithoutSession(r) ==
    /\ pc[r] \in {"prefilter", "method"}
    /\ CannotMakeSession(r)
    /\ LeaveEarly(r)
    /\ UNCHANGED <<given, gzip, content>>

\* A panic runs closeall; net/http recovers it.
Panic(r) ==
    /\ Running(r)
    /\ LeaveEarly(r)
    /\ UNCHANGED <<given, io, content>>

ClientLeaves(r) ==
    /\ pc[r] # "done"
    /\ ~gone[r]
    /\ gone' = [gone EXCEPT ![r] = TRUE]
    /\ UNCHANGED <<given, pc, io, content, alive, early>>

-----------------------------------------------------------------------------
Step(r) == \/ NotRouted(r) \/ ServeMux(r) \/ Refuse(r) \/ NoController(r)
           \/ Accept(r) \/ CompressFilter(r) \/ FilterRefuses(r) \/ FiltersPass(r)
           \/ PreFilterStops(r) \/ PreFilterContinues(r) \/ NoMethod(r)
           \/ ReturnNil(r) \/ MakeOut(r) \/ RenderStarts(r) \/ RunDeferred(r)
           \/ RenderContent(r) \/ ClearFlash(r) \/ CloseAll(r)
           \/ Defer(r) \/ UseSession(r) \/ New(r) \/ UseSessionApart(r)
           \/ NoSession(r) \/ OutWithoutSession(r)
           \/ Panic(r) \/ ClientLeaves(r)

Next == alive /\ \E r \in Requests : Step(r)

Spec == Init /\ [][Next]_vars

-----------------------------------------------------------------------------
\* Properties.

Writers == {"mux", "404", "redirect", "405", "upgrader", "filter", "501", "500", "out"}

\* The last part that wrote, if any.
Answer(r) == IF wrote[r] = << >> THEN "none" ELSE wrote[r][Len(wrote[r])]

\* Every variable has its type.
TypeOK ==
    /\ req \in [Requests -> Asked]
    /\ driver \in {"memory", "database"}
    /\ pc \in [Requests -> {"enroute", "mux", "filters", "prefilter", "method",
                            "madepre", "made", "renderpre", "render",
                            "clear", "close", "done"}]
    /\ gzip \in [Requests -> {"none", "open", "closed"}]
    /\ defers \in [Requests -> 0..MaxDefers]
    /\ out \in [Requests -> 0..NoOut]
    /\ ran \in [Requests -> 0..MaxDefers]
    /\ gone \in [Requests -> BOOLEAN]
    /\ session \in [Requests -> BOOLEAN]
    /\ apart \in [Requests -> BOOLEAN]
    /\ flash \subseteq Requests
    /\ wrote \in [Requests -> Seq(Writers)]
    /\ alive \in BOOLEAN
    /\ early \in [Requests -> BOOLEAN]

\* Of enroute, the ServeMux, the filters, handleReq and Render at most one answers a
\* request, and nothing is written after it.  Before it there may be the 500 of a
\* GetSession whose driver failed (the application goes on then), but only if that driver
\* has a database and the request was handed to handleReq.
OneResponse ==
    \A r \in Requests :
      /\ \A i \in DOMAIN wrote[r] : i < Len(wrote[r]) => wrote[r][i] = "500"
      /\ Len(wrote[r]) > 1 => /\ driver = "database"
                              /\ Answer(r) \in {"500", "filter", "501", "out"}

\* A gzip stream is finished by the time the request is over, on every way out
\* of handleReq, panics and clients that left included.
StreamsAreFinished == \A r \in Requests : pc[r] = "done" => gzip[r] # "open"

\* The functions registered with In.Defer run for the one Out that is rendered:
\* those registered before it was made, all of them before its content, and
\* none when enroute, the ServeMux, a filter or handleReq itself answers.  That
\* GetSession has answered with its 500 does not keep them from running.
DefersPrecedeOutput ==
    \A r \in Requests :
      /\ ran[r] # 0 => /\ ran[r] <= out[r]
                       /\ out[r] <= defers[r]
                       /\ Answer(r) \in {"none", "500", "out"}
      /\ Answer(r) = "out" => ran[r] = out[r]

\* What a request puts in the Flash is gone when the request is over, unless
\* it left before its method had ended, or only an In that New had made before
\* knew the session: then the next request finds it.
FlashEndsWithItsRequest ==
    \A r \in Requests :
      r \in flash /\ pc[r] = "done" => early[r] \/ (apart[r] /\ ~session[r])
=============================================================================
