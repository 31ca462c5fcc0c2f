--------------------------- MODULE Dispatch_proofs ---------------------------
(***************************************************************************)
(* Proofs about Dispatch: for any number of requests and any choice of what *)
(* they ask, one of the framework's parts answers a request, its gzip       *)
(* stream is finished, its deferred functions run before its output, and    *)
(* its Flash is cleared.                                                   *)
(*                                                                         *)
(* The properties say what is so when something has been written or the     *)
(* request is over; the invariant adds what is so at each place before:     *)
(* nothing but a failed GetSession's 500 is written until handleReq writes   *)
(* and leaves, no function runs before there is an Out, and only the         *)
(* application's code puts something in the Flash, having made the session   *)
(* first.                                                                  *)
(*                                                                         *)
(* And about Startup, which starts the servers that dispatch: Listen returns *)
(* the error of a failed load before any other, and after a good load what  *)
(* is served is loaded and nothing of the framework ends the process.  The  *)
(* invariant follows the first load place by place, and the message it      *)
(* leaves at the head of mainChan until Listen receives it.                *)
(***************************************************************************)
EXTENDS Dispatch, Startup, SequenceTheorems, FiniteSetTheorems, TLAPS

\* What has been written: all but the last are 500s of a failed GetSession, of which the
\* memory driver has none.
Told(r) == /\ \A i \in DOMAIN wrote[r] : i < Len(wrote[r]) => wrote[r][i] = "500"
           /\ driver = "memory" => \A i \in DOMAIN wrote[r] : wrote[r][i] # "500"
           /\ Len(wrote[r]) > 1 => Answer(r) \in {"500", "filter", "501", "out"}

Quiet(r) == \A i \in DOMAIN wrote[r] : wrote[r][i] = "500"
Empty(r) == wrote[r] = << >>
Rendered(r) == Answer(r) = "out"

\* Nothing else is written before the request leaves the place where it was, and nothing at
\* all before it is handed to handleReq.
Silent(r) == /\ pc[r] \notin {"clear", "close", "done"} => Quiet(r)
             /\ pc[r] \in {"enroute", "mux"} => Empty(r)

\* The writer is put in place by a filter and taken away by closeall.
Stream(r) == /\ pc[r] \in {"enroute", "mux"} => gzip[r] = "none"
             /\ pc[r] = "done" => gzip[r] # "open"

\* An Out has functions that were registered, and they run when it is rendered.
Deferred(r) ==
    /\ pc[r] \in {"madepre", "made", "renderpre", "render"} => out[r] <= defers[r]
    /\ pc[r] \notin {"renderpre", "render", "clear", "close", "done"} => ran[r] = 0
    /\ ran[r] # 0 => /\ ran[r] <= out[r] /\ out[r] <= defers[r]
                     /\ Quiet(r) \/ Rendered(r)
    /\ Rendered(r) => ran[r] = out[r]

\* Who has put something in the Flash has the session that clears it, or an In
\* apart that does.
Flashed(r) == r \in flash => /\ session[r] \/ apart[r]
                             /\ pc[r] \notin {"enroute", "mux"}
                             /\ pc[r] \in {"close", "done"} =>
                                  early[r] \/ (apart[r] /\ ~session[r])

Fine(r) == Told(r) /\ Silent(r) /\ Stream(r) /\ Deferred(r) /\ Flashed(r)

IInv == TypeOK /\ \A r \in Requests : Fine(r)

LEMMA SameWrote ==
  ASSUME UNCHANGED <<wrote, driver>>
  PROVE  \A s \in Requests : /\ Told(s)' <=> Told(s)
                             /\ Quiet(s)' <=> Quiet(s)
                             /\ Empty(s)' <=> Empty(s)
                             /\ Rendered(s)' <=> Rendered(s)
BY DEF Told, Quiet, Empty, Rendered, Answer

LEMMA QuietIs ==
  ASSUME TypeOK, NEW r \in Requests, Quiet(r)
  PROVE  ~Rendered(r) /\ Answer(r) \in {"none", "500"}
<1>1. wrote[r] \in Seq(Writers)
  BY DEF TypeOK
<1>2. wrote[r] # << >> => Len(wrote[r]) \in DOMAIN wrote[r]
  BY <1>1
<1>q. QED  BY <1>2 DEF Quiet, Rendered, Answer

\* Where only 500s have been written, one more entry may be written.
LEMMA Written ==
  ASSUME TypeOK, NEW r \in Requests, Quiet(r), Told(r), NEW who \in Writers,
         Writes(r, who) \/ UNCHANGED wrote, UNCHANGED driver,
         who = "500" => driver = "database",
         who \in {"500", "filter", "501", "out"} \/ Empty(r)
  PROVE  /\ wrote' \in [Requests -> Seq(Writers)]
         /\ \A s \in Requests : s # r => wrote'[s] = wrote[s]
         /\ Told(r)'
         /\ who = "500" => Quiet(r)'
         /\ who = "out" => Quiet(r)' \/ Rendered(r)'
         /\ who # "out" => ~Rendered(r)'
<1> DEFINE w == wrote[r]
           v == Append(w, who)
<1>1. /\ wrote \in [Requests -> Seq(Writers)] /\ w \in Seq(Writers) /\ Len(w) \in Nat
      /\ driver \in {"memory", "database"}
  BY LenProperties DEF TypeOK
<1>2. CASE wrote' = wrote
  BY <1>1, <1>2, SameWrote, QuietIs
<1>3. CASE wrote' = [wrote EXCEPT ![r] = v]
  <2>1. /\ v \in Seq(Writers) /\ Len(v) = Len(w) + 1 /\ DOMAIN v = 1..(Len(w) + 1)
        /\ DOMAIN w = 1..Len(w)
        /\ v[Len(w) + 1] = who /\ \A i \in 1..Len(w) : v[i] = w[i]
    BY <1>1
  <2> HIDE DEF v
  <2>2. /\ wrote' \in [Requests -> Seq(Writers)] /\ wrote'[r] = v
        /\ \A s \in Requests : s # r => wrote'[s] = wrote[s]
    BY <1>1, <1>3, <2>1
  <2>3. \A i \in 1..Len(w) : v[i] = "500"
    BY <2>1 DEF Quiet
  <2>4. v # << >> /\ Answer(r)' = who
    <3>1. v # << >>
      BY <1>1, <2>1
    <3>q. QED  BY <1>1, <2>1, <2>2, <3>1 DEF Answer
  <2>5. driver = "memory" => Len(w) = 0
    BY <1>1, <2>1 DEF Quiet, Told
  <2>6. Empty(r) => Len(w) = 0
    BY DEF Empty
  <2>7. Told(r)'
    <3>1. \A i \in DOMAIN v : i < Len(v) => v[i] = "500"
      BY <1>1, <2>1, <2>3
    <3>2. driver = "memory" => \A i \in DOMAIN v : v[i] # "500"
      BY <1>1, <2>1, <2>5
    <3>3. Len(v) > 1 => who \in {"500", "filter", "501", "out"}
      BY <1>1, <2>1, <2>6
    <3>q. QED  BY <2>2, <2>4, <3>1, <3>2, <3>3 DEF Told
  <2>8. who = "500" => Quiet(r)'
    BY <1>1, <2>1, <2>2, <2>3 DEF Quiet
  <2>q. QED  BY <2>2, <2>4, <2>7, <2>8 DEF Rendered
<1>q. QED  BY <1>2, <1>3 DEF Writes

\* Every step keeps the types.
LEMMA TypeStep ==
  ASSUME IInv, NEW r \in Requests, Step(r)
  PROVE  TypeOK'
<1>1. CASE NotRouted(r)
  BY <1>1, DispatchAssumption DEF IInv, TypeOK, NoOut, Writers, Fine, Deferred, NotRouted,
     Goto, given, io, content, fate
<1>2. CASE ServeMux(r)
  <2>1. "mux" \in Writers /\ (Writes(r, "mux") \/ UNCHANGED wrote)
    BY <1>2 DEF ServeMux, Writers
  <2>2. /\ Quiet(r) /\ Told(r) /\ UNCHANGED driver
        /\ Empty(r)
    BY <1>2 DEF IInv, Fine, Silent, ServeMux, given
  <2>3. /\ wrote' \in [Requests -> Seq(Writers)]
        /\ \A s \in Requests : s # r => wrote'[s] = wrote[s]
        /\ Told(r)'
        /\ ~Rendered(r)'
    BY <2>1, <2>2, Written DEF IInv
  <2>q. QED
    BY <1>2, <2>3 DEF IInv, TypeOK, NoOut, ServeMux, AfterRender, LeaveEarly, Goto, given,
       io, content, fate
<1>3. CASE Refuse(r)
  <2>0. PICK who \in Writers \ {"out", "500"} : Writes(r, who)
    BY <1>3 DEF Refuse, Refusal, Writers
  <2>1. who \in Writers /\ (Writes(r, who) \/ UNCHANGED wrote)
    BY <1>3, <2>0 DEF Refuse, Writers
  <2>2. /\ Quiet(r) /\ Told(r) /\ UNCHANGED driver
        /\ Empty(r)
    BY <1>3 DEF IInv, Fine, Silent, Refuse, given
  <2>3. /\ wrote' \in [Requests -> Seq(Writers)]
        /\ \A s \in Requests : s # r => wrote'[s] = wrote[s]
        /\ Told(r)'
        /\ ~Rendered(r)'
    BY <2>0, <2>1, <2>2, Written DEF IInv
  <2>q. QED
    BY <1>3, <2>3 DEF IInv, TypeOK, NoOut, Refuse, AfterRender, LeaveEarly, Goto, given, io,
       content, fate
<1>4. CASE NoController(r)
  BY <1>4, DispatchAssumption DEF IInv, TypeOK, NoOut, Writers, Fine, Deferred,
     NoController, Goto, given, io, content, fate
<1>5. CASE Accept(r)
  BY <1>5, DispatchAssumption DEF IInv, TypeOK, NoOut, Writers, Fine, Deferred, Accept,
     Goto, given, io, content, fate
<1>6. CASE CompressFilter(r)
  BY <1>6, DispatchAssumption DEF IInv, TypeOK, NoOut, Writers, Fine, Deferred,
     CompressFilter, Goto, given, io, content, fate
<1>7. CASE FilterRefuses(r)
  <2>1. "filter" \in Writers /\ (Writes(r, "filter") \/ UNCHANGED wrote)
    BY <1>7 DEF FilterRefuses, Writers
  <2>2. /\ Quiet(r) /\ Told(r) /\ UNCHANGED driver
    BY <1>7 DEF IInv, Fine, Silent, FilterRefuses, given
  <2>3. /\ wrote' \in [Requests -> Seq(Writers)]
        /\ \A s \in Requests : s # r => wrote'[s] = wrote[s]
        /\ Told(r)'
        /\ ~Rendered(r)'
    BY <2>1, <2>2, Written DEF IInv
  <2>q. QED
    BY <1>7, <2>3 DEF IInv, TypeOK, NoOut, FilterRefuses, AfterRender, LeaveEarly, Goto,
       given, io, content, fate
<1>8. CASE FiltersPass(r)
  BY <1>8, DispatchAssumption DEF IInv, TypeOK, NoOut, Writers, Fine, Deferred, FiltersPass,
     Goto, given, io, content, fate
<1>9. CASE PreFilterStops(r)
  BY <1>9, DispatchAssumption DEF IInv, TypeOK, NoOut, Writers, Fine, Deferred,
     PreFilterStops, LeaveEarly, Goto, given, io, content, fate
<1>10. CASE PreFilterContinues(r)
  BY <1>10, DispatchAssumption DEF IInv, TypeOK, NoOut, Writers, Fine, Deferred,
     PreFilterContinues, Goto, given, io, content, fate
<1>11. CASE NoMethod(r)
  <2>1. "501" \in Writers /\ (Writes(r, "501") \/ UNCHANGED wrote)
    BY <1>11 DEF NoMethod, Writers
  <2>2. /\ Quiet(r) /\ Told(r) /\ UNCHANGED driver
    BY <1>11 DEF IInv, Fine, Silent, NoMethod, given
  <2>3. /\ wrote' \in [Requests -> Seq(Writers)]
        /\ \A s \in Requests : s # r => wrote'[s] = wrote[s]
        /\ Told(r)'
        /\ ~Rendered(r)'
    BY <2>1, <2>2, Written DEF IInv
  <2>q. QED
    BY <1>11, <2>3 DEF IInv, TypeOK, NoOut, NoMethod, AfterRender, LeaveEarly, Goto, given,
       io, content, fate
<1>12. CASE ReturnNil(r)
  BY <1>12, DispatchAssumption DEF IInv, TypeOK, NoOut, Writers, Fine, Deferred, ReturnNil,
     Goto, given, io, content, fate
<1>13. CASE MakeOut(r)
  BY <1>13, DispatchAssumption DEF IInv, TypeOK, NoOut, Writers, Fine, Deferred, MakeOut,
     Goto, given, io, content, fate
<1>14. CASE RenderStarts(r)
  BY <1>14, DispatchAssumption DEF IInv, TypeOK, NoOut, Writers, Fine, Deferred,
     RenderStarts, AfterRender, LeaveEarly, Goto, given, io, content, fate
<1>15. CASE RunDeferred(r)
  BY <1>15, DispatchAssumption DEF IInv, TypeOK, NoOut, Writers, Fine, Deferred,
     RunDeferred, Goto, given, io, content, fate
<1>16. CASE RenderContent(r)
  <2>1. "out" \in Writers /\ (Writes(r, "out") \/ UNCHANGED wrote)
    BY <1>16 DEF RenderContent, Writers
  <2>2. /\ Quiet(r) /\ Told(r) /\ UNCHANGED driver
    BY <1>16 DEF IInv, Fine, Silent, RenderContent, given
  <2>3. /\ wrote' \in [Requests -> Seq(Writers)]
        /\ \A s \in Requests : s # r => wrote'[s] = wrote[s]
        /\ Told(r)'
        /\ Quiet(r)' \/ Rendered(r)'
    BY <2>1, <2>2, Written DEF IInv
  <2>q. QED
    BY <1>16, <2>3 DEF IInv, TypeOK, NoOut, RenderContent, AfterRender, LeaveEarly, Goto,
       given, io, content, fate
<1>17. CASE ClearFlash(r)
  BY <1>17, DispatchAssumption DEF IInv, TypeOK, NoOut, Writers, Fine, Deferred, ClearFlash,
     Goto, given, io, content, fate
<1>18. CASE CloseAll(r)
  BY <1>18, DispatchAssumption DEF IInv, TypeOK, NoOut, Writers, Fine, Deferred, CloseAll,
     Goto, given, io, content, fate
<1>19. CASE Defer(r)
  BY <1>19, DispatchAssumption DEF IInv, TypeOK, NoOut, Writers, Fine, Deferred, Defer,
     Running, Goto, given, io, content, fate
<1>20. CASE UseSession(r)
  BY <1>20, DispatchAssumption DEF IInv, TypeOK, NoOut, Writers, Fine, Deferred, UseSession,
     Running, Goto, given, io, content, fate
<1>21. CASE NoSession(r)
  <2>1. "500" \in Writers /\ (Writes(r, "500") \/ UNCHANGED wrote)
    BY <1>21 DEF NoSession, Writers, CannotMakeSession
  <2>2. /\ Quiet(r) /\ Told(r) /\ UNCHANGED driver
        /\ driver = "database"
    BY <1>21 DEF IInv, Fine, Silent, NoSession, given, CannotMakeSession, Running
  <2>3. /\ wrote' \in [Requests -> Seq(Writers)]
        /\ \A s \in Requests : s # r => wrote'[s] = wrote[s]
        /\ Told(r)'
        /\ Quiet(r)'
    BY <2>1, <2>2, Written DEF IInv
  <2>q. QED
    BY <1>21, <2>3 DEF IInv, TypeOK, NoOut, NoSession, AfterRender, LeaveEarly, Goto, given,
       io, content, fate
<1>22. CASE OutWithoutSession(r)
  <2>1. "500" \in Writers /\ (Writes(r, "500") \/ UNCHANGED wrote)
    BY <1>22 DEF OutWithoutSession, Writers, CannotMakeSession
  <2>2. /\ Quiet(r) /\ Told(r) /\ UNCHANGED driver
        /\ driver = "database"
    BY <1>22 DEF IInv, Fine, Silent, OutWithoutSession, given, CannotMakeSession
  <2>3. /\ wrote' \in [Requests -> Seq(Writers)]
        /\ \A s \in Requests : s # r => wrote'[s] = wrote[s]
        /\ Told(r)'
        /\ Quiet(r)'
    BY <2>1, <2>2, Written DEF IInv
  <2>q. QED
    BY <1>22, <2>3 DEF IInv, TypeOK, NoOut, OutWithoutSession, AfterRender, LeaveEarly,
       Goto, given, io, content, fate
<1>23. CASE Panic(r)
  BY <1>23, DispatchAssumption DEF IInv, TypeOK, NoOut, Writers, Fine, Deferred, Panic,
     LeaveEarly, Running, Goto, given, io, content, fate
<1>24. CASE ClientLeaves(r)
  BY <1>24, DispatchAssumption DEF IInv, TypeOK, NoOut, Writers, Fine, Deferred,
     ClientLeaves, Goto, given, io, content, fate
<1>25. CASE New(r)
  BY <1>25, DispatchAssumption DEF IInv, TypeOK, NoOut, Writers, Fine, Deferred, New,
     Running, Goto, given, io, content, fate
<1>26. CASE UseSessionApart(r)
  BY <1>26, DispatchAssumption DEF IInv, TypeOK, NoOut, Writers, Fine, Deferred,
     UseSessionApart, Running, Goto, given, io, content, fate
<1>q. QED
  BY <1>1, <1>2, <1>3, <1>4, <1>5, <1>6, <1>7, <1>8, <1>9, <1>10, <1>11, <1>12, <1>13,
     <1>14, <1>15, <1>16, <1>17, <1>18, <1>19, <1>20, <1>21, <1>22, <1>23, <1>24, <1>25, <1>26
     DEF Step

\* Every step keeps every request fine.
LEMMA FineStep ==
  ASSUME IInv, TypeOK', NEW r \in Requests, Step(r)
  PROVE  \A s \in Requests : Fine(s)'
<1>a. \A s \in Requests : Quiet(s) => ~Rendered(s)
  BY QuietIs DEF IInv
<1>1. CASE NotRouted(r)
  <2>1. UNCHANGED <<wrote, driver>>
    BY <1>1 DEF NotRouted, given, io
  <2>2. \A s \in Requests : /\ (Told(s)' <=> Told(s)) /\ (Quiet(s)' <=> Quiet(s))
                             /\ (Empty(s)' <=> Empty(s)) /\ (Rendered(s)' <=> Rendered(s))
    BY <2>1, SameWrote
  <2>q. QED
    BY <1>1, <1>a, <2>2, DispatchAssumption DEF IInv, TypeOK, NoOut, Fine, Silent, Stream,
       Deferred, Flashed, NotRouted, Goto, given, io, content, fate
<1>2. CASE ServeMux(r)
  <2>1. "mux" \in Writers /\ (Writes(r, "mux") \/ UNCHANGED wrote)
    BY <1>2 DEF ServeMux, Writers
  <2>2. /\ Quiet(r) /\ Told(r) /\ UNCHANGED driver
        /\ Empty(r)
    BY <1>2 DEF IInv, Fine, Silent, ServeMux, given
  <2>3. /\ wrote' \in [Requests -> Seq(Writers)]
        /\ \A s \in Requests : s # r => wrote'[s] = wrote[s]
        /\ Told(r)'
        /\ ~Rendered(r)'
    BY <2>1, <2>2, Written DEF IInv
  <2>5. ASSUME NEW s \in Requests, s # r
        PROVE  /\ (Told(s)' <=> Told(s)) /\ (Quiet(s)' <=> Quiet(s))
               /\ (Empty(s)' <=> Empty(s)) /\ (Rendered(s)' <=> Rendered(s))
    BY <2>2, <2>3, <2>5 DEF Told, Quiet, Empty, Rendered, Answer
  <2>q. QED
    BY <1>2, <1>a, <2>2, <2>3, <2>5, DispatchAssumption DEF IInv, TypeOK, NoOut, Fine,
       Silent, Stream, Deferred, Flashed, ServeMux, AfterRender, LeaveEarly, Goto, given, io,
       content, fate
<1>3. CASE Refuse(r)
  <2>0. PICK who \in Writers \ {"out", "500"} : Writes(r, who)
    BY <1>3 DEF Refuse, Refusal, Writers
  <2>1. who \in Writers /\ (Writes(r, who) \/ UNCHANGED wrote)
    BY <1>3, <2>0 DEF Refuse, Writers
  <2>2. /\ Quiet(r) /\ Told(r) /\ UNCHANGED driver
        /\ Empty(r)
    BY <1>3 DEF IInv, Fine, Silent, Refuse, given
  <2>3. /\ wrote' \in [Requests -> Seq(Writers)]
        /\ \A s \in Requests : s # r => wrote'[s] = wrote[s]
        /\ Told(r)'
        /\ ~Rendered(r)'
    BY <2>0, <2>1, <2>2, Written DEF IInv
  <2>5. ASSUME NEW s \in Requests, s # r
        PROVE  /\ (Told(s)' <=> Told(s)) /\ (Quiet(s)' <=> Quiet(s))
               /\ (Empty(s)' <=> Empty(s)) /\ (Rendered(s)' <=> Rendered(s))
    BY <2>2, <2>3, <2>5 DEF Told, Quiet, Empty, Rendered, Answer
  <2>q. QED
    BY <1>3, <1>a, <2>2, <2>3, <2>5, DispatchAssumption DEF IInv, TypeOK, NoOut, Fine,
       Silent, Stream, Deferred, Flashed, Refuse, AfterRender, LeaveEarly, Goto, given, io,
       content, fate
<1>4. CASE NoController(r)
  <2>1. UNCHANGED <<wrote, driver>>
    BY <1>4 DEF NoController, given, io
  <2>2. \A s \in Requests : /\ (Told(s)' <=> Told(s)) /\ (Quiet(s)' <=> Quiet(s))
                             /\ (Empty(s)' <=> Empty(s)) /\ (Rendered(s)' <=> Rendered(s))
    BY <2>1, SameWrote
  <2>q. QED
    BY <1>4, <1>a, <2>2, DispatchAssumption DEF IInv, TypeOK, NoOut, Fine, Silent, Stream,
       Deferred, Flashed, NoController, Goto, given, io, content, fate
<1>5. CASE Accept(r)
  <2>1. UNCHANGED <<wrote, driver>>
    BY <1>5 DEF Accept, given, io
  <2>2. \A s \in Requests : /\ (Told(s)' <=> Told(s)) /\ (Quiet(s)' <=> Quiet(s))
                             /\ (Empty(s)' <=> Empty(s)) /\ (Rendered(s)' <=> Rendered(s))
    BY <2>1, SameWrote
  <2>q. QED
    BY <1>5, <1>a, <2>2, DispatchAssumption DEF IInv, TypeOK, NoOut, Fine, Silent, Stream,
       Deferred, Flashed, Accept, Goto, given, io, content, fate
<1>6. CASE CompressFilter(r)
  <2>1. UNCHANGED <<wrote, driver>>
    BY <1>6 DEF CompressFilter, given, io
  <2>2. \A s \in Requests : /\ (Told(s)' <=> Told(s)) /\ (Quiet(s)' <=> Quiet(s))
                             /\ (Empty(s)' <=> Empty(s)) /\ (Rendered(s)' <=> Rendered(s))
    BY <2>1, SameWrote
  <2>q. QED
    BY <1>6, <1>a, <2>2, DispatchAssumption DEF IInv, TypeOK, NoOut, Fine, Silent, Stream,
       Deferred, Flashed, CompressFilter, Goto, given, io, content, fate
<1>7. CASE FilterRefuses(r)
  <2>1. "filter" \in Writers /\ (Writes(r, "filter") \/ UNCHANGED wrote)
    BY <1>7 DEF FilterRefuses, Writers
  <2>2. /\ Quiet(r) /\ Told(r) /\ UNCHANGED driver
    BY <1>7 DEF IInv, Fine, Silent, FilterRefuses, given
  <2>3. /\ wrote' \in [Requests -> Seq(Writers)]
        /\ \A s \in Requests : s # r => wrote'[s] = wrote[s]
        /\ Told(r)'
        /\ ~Rendered(r)'
    BY <2>1, <2>2, Written DEF IInv
  <2>5. ASSUME NEW s \in Requests, s # r
        PROVE  /\ (Told(s)' <=> Told(s)) /\ (Quiet(s)' <=> Quiet(s))
               /\ (Empty(s)' <=> Empty(s)) /\ (Rendered(s)' <=> Rendered(s))
    BY <2>2, <2>3, <2>5 DEF Told, Quiet, Empty, Rendered, Answer
  <2>q. QED
    BY <1>7, <1>a, <2>2, <2>3, <2>5, DispatchAssumption DEF IInv, TypeOK, NoOut, Fine,
       Silent, Stream, Deferred, Flashed, FilterRefuses, AfterRender, LeaveEarly, Goto, given,
       io, content, fate
<1>8. CASE FiltersPass(r)
  <2>1. UNCHANGED <<wrote, driver>>
    BY <1>8 DEF FiltersPass, given, io
  <2>2. \A s \in Requests : /\ (Told(s)' <=> Told(s)) /\ (Quiet(s)' <=> Quiet(s))
                             /\ (Empty(s)' <=> Empty(s)) /\ (Rendered(s)' <=> Rendered(s))
    BY <2>1, SameWrote
  <2>q. QED
    BY <1>8, <1>a, <2>2, DispatchAssumption DEF IInv, TypeOK, NoOut, Fine, Silent, Stream,
       Deferred, Flashed, FiltersPass, Goto, given, io, content, fate
<1>9. CASE PreFilterStops(r)
  <2>1. UNCHANGED <<wrote, driver>>
    BY <1>9 DEF PreFilterStops, LeaveEarly, given, io
  <2>2. \A s \in Requests : /\ (Told(s)' <=> Told(s)) /\ (Quiet(s)' <=> Quiet(s))
                             /\ (Empty(s)' <=> Empty(s)) /\ (Rendered(s)' <=> Rendered(s))
    BY <2>1, SameWrote
  <2>q. QED
    BY <1>9, <1>a, <2>2, DispatchAssumption DEF IInv, TypeOK, NoOut, Fine, Silent, Stream,
       Deferred, Flashed, PreFilterStops, LeaveEarly, Goto, given, io, content, fate
<1>10. CASE PreFilterContinues(r)
  <2>1. UNCHANGED <<wrote, driver>>
    BY <1>10 DEF PreFilterContinues, given, io
  <2>2. \A s \in Requests : /\ (Told(s)' <=> Told(s)) /\ (Quiet(s)' <=> Quiet(s))
                             /\ (Empty(s)' <=> Empty(s)) /\ (Rendered(s)' <=> Rendered(s))
    BY <2>1, SameWrote
  <2>q. QED
    BY <1>10, <1>a, <2>2, DispatchAssumption DEF IInv, TypeOK, NoOut, Fine, Silent, Stream,
       Deferred, Flashed, PreFilterContinues, Goto, given, io, content, fate
<1>11. CASE NoMethod(r)
  <2>1. "501" \in Writers /\ (Writes(r, "501") \/ UNCHANGED wrote)
    BY <1>11 DEF NoMethod, Writers
  <2>2. /\ Quiet(r) /\ Told(r) /\ UNCHANGED driver
    BY <1>11 DEF IInv, Fine, Silent, NoMethod, given
  <2>3. /\ wrote' \in [Requests -> Seq(Writers)]
        /\ \A s \in Requests : s # r => wrote'[s] = wrote[s]
        /\ Told(r)'
        /\ ~Rendered(r)'
    BY <2>1, <2>2, Written DEF IInv
  <2>5. ASSUME NEW s \in Requests, s # r
        PROVE  /\ (Told(s)' <=> Told(s)) /\ (Quiet(s)' <=> Quiet(s))
               /\ (Empty(s)' <=> Empty(s)) /\ (Rendered(s)' <=> Rendered(s))
    BY <2>2, <2>3, <2>5 DEF Told, Quiet, Empty, Rendered, Answer
  <2>q. QED
    BY <1>11, <1>a, <2>2, <2>3, <2>5, DispatchAssumption DEF IInv, TypeOK, NoOut, Fine,
       Silent, Stream, Deferred, Flashed, NoMethod, AfterRender, LeaveEarly, Goto, given, io,
       content, fate
<1>12. CASE ReturnNil(r)
  <2>1. UNCHANGED <<wrote, driver>>
    BY <1>12 DEF ReturnNil, given, io
  <2>2. \A s \in Requests : /\ (Told(s)' <=> Told(s)) /\ (Quiet(s)' <=> Quiet(s))
                             /\ (Empty(s)' <=> Empty(s)) /\ (Rendered(s)' <=> Rendered(s))
    BY <2>1, SameWrote
  <2>q. QED
    BY <1>12, <1>a, <2>2, DispatchAssumption DEF IInv, TypeOK, NoOut, Fine, Silent, Stream,
       Deferred, Flashed, ReturnNil, Goto, given, io, content, fate
<1>13. CASE MakeOut(r)
  <2>1. \A s \in Requests : IF s = r THEN session[s] => session'[s]
                                      ELSE session'[s] = session[s]
    BY <1>13 DEF MakeOut, IInv, TypeOK
  <2>2. out'[r] \in {defers[r], 0} /\ \A s \in Requests : s # r => out'[s] = out[s]
    BY <1>13 DEF MakeOut, IInv, TypeOK
  <2>3. /\ pc[r] \in {"prefilter", "method"} /\ pc'[r] \in {"madepre", "made"}
        /\ \A s \in Requests : s # r => pc'[s] = pc[s]
        /\ UNCHANGED <<gzip, wrote, defers, ran, apart, flash, early, driver>>
    BY <1>13 DEF MakeOut, IInv, TypeOK, Goto, given, io, fate
  <2>4. \A s \in Requests : /\ (Told(s)' <=> Told(s)) /\ (Quiet(s)' <=> Quiet(s))
                             /\ (Empty(s)' <=> Empty(s)) /\ (Rendered(s)' <=> Rendered(s))
    BY <2>3, SameWrote
  <2>5. ASSUME NEW s \in Requests
        PROVE  Told(s)' /\ Silent(s)' /\ Stream(s)' /\ Flashed(s)'
    BY <2>1, <2>3, <2>4 DEF IInv, TypeOK, Fine, Silent, Stream, Flashed
  <2>6. Deferred(r)'
    <3>0. defers[r] \in Nat
      BY DispatchAssumption DEF DispatchAssumption, IInv, TypeOK
    <3>1. ran[r] = 0 /\ ~Rendered(r)
      BY <1>a, <2>3, <2>4 DEF IInv, Fine, Silent, Deferred
    <3>2. out'[r] <= defers[r]
      BY <2>2, <3>0
    <3>q. QED  BY <2>3, <2>4, <3>1, <3>2 DEF Deferred
  <2>7. ASSUME NEW s \in Requests, s # r PROVE Deferred(s)'
    BY <2>2, <2>3, <2>4, <2>7 DEF IInv, Fine, Deferred
  <2>q. QED
    BY <2>5, <2>6, <2>7 DEF Fine
<1>14. CASE RenderStarts(r)
  <2>1. UNCHANGED <<wrote, driver>>
    BY <1>14 DEF RenderStarts, AfterRender, LeaveEarly, given, io
  <2>2. \A s \in Requests : /\ (Told(s)' <=> Told(s)) /\ (Quiet(s)' <=> Quiet(s))
                             /\ (Empty(s)' <=> Empty(s)) /\ (Rendered(s)' <=> Rendered(s))
    BY <2>1, SameWrote
  <2>q. QED
    BY <1>14, <1>a, <2>2, DispatchAssumption DEF IInv, TypeOK, NoOut, Fine, Silent, Stream,
       Deferred, Flashed, RenderStarts, AfterRender, LeaveEarly, Goto, given, io, content, fate
<1>15. CASE RunDeferred(r)
  <2>1. UNCHANGED <<wrote, driver>>
    BY <1>15 DEF RunDeferred, given, io
  <2>2. \A s \in Requests : /\ (Told(s)' <=> Told(s)) /\ (Quiet(s)' <=> Quiet(s))
                             /\ (Empty(s)' <=> Empty(s)) /\ (Rendered(s)' <=> Rendered(s))
    BY <2>1, SameWrote
  <2>q. QED
    BY <1>15, <1>a, <2>2, DispatchAssumption DEF IInv, TypeOK, NoOut, Fine, Silent, Stream,
       Deferred, Flashed, RunDeferred, Goto, given, io, content, fate
<1>16. CASE RenderContent(r)
  <2>1. "out" \in Writers /\ (Writes(r, "out") \/ UNCHANGED wrote)
    BY <1>16 DEF RenderContent, Writers
  <2>2. /\ Quiet(r) /\ Told(r) /\ UNCHANGED driver
    BY <1>16 DEF IInv, Fine, Silent, RenderContent, given
  <2>3. /\ wrote' \in [Requests -> Seq(Writers)]
        /\ \A s \in Requests : s # r => wrote'[s] = wrote[s]
        /\ Told(r)'
        /\ Quiet(r)' \/ Rendered(r)'
    BY <2>1, <2>2, Written DEF IInv
  <2>5. ASSUME NEW s \in Requests, s # r
        PROVE  /\ (Told(s)' <=> Told(s)) /\ (Quiet(s)' <=> Quiet(s))
               /\ (Empty(s)' <=> Empty(s)) /\ (Rendered(s)' <=> Rendered(s))
    BY <2>2, <2>3, <2>5 DEF Told, Quiet, Empty, Rendered, Answer
  <2>7. /\ pc[r] \in {"renderpre", "render"} /\ ran[r] = out[r]
        /\ pc'[r] = "clear" \/ (pc'[r] = "close" /\ early'[r])
        /\ \A s \in Requests : s # r => pc'[s] = pc[s] /\ early'[s] = early[s]
        /\ UNCHANGED <<gzip, defers, ran, out, session, apart, flash>>
    BY <1>16 DEF RenderContent, IInv, TypeOK, AfterRender, LeaveEarly, Goto, content, fate
  <2>8. Fine(r)'
    BY <1>a, <2>2, <2>3, <2>7 DEF IInv, TypeOK, NoOut, Fine, Silent, Stream, Deferred, Flashed
  <2>9. ASSUME NEW s \in Requests, s # r PROVE Fine(s)'
    BY <2>5, <2>7, <2>9 DEF IInv, Fine, Silent, Stream, Deferred, Flashed
  <2>q. QED
    BY <2>8, <2>9
<1>17. CASE ClearFlash(r)
  <2>1. UNCHANGED <<wrote, driver>>
    BY <1>17 DEF ClearFlash, given, io
  <2>2. \A s \in Requests : /\ (Told(s)' <=> Told(s)) /\ (Quiet(s)' <=> Quiet(s))
                             /\ (Empty(s)' <=> Empty(s)) /\ (Rendered(s)' <=> Rendered(s))
    BY <2>1, SameWrote
  <2>q. QED
    BY <1>17, <1>a, <2>2, DispatchAssumption DEF IInv, TypeOK, NoOut, Fine, Silent, Stream,
       Deferred, Flashed, ClearFlash, Goto, given, io, content, fate
<1>18. CASE CloseAll(r)
  <2>1. UNCHANGED <<wrote, driver>>
    BY <1>18 DEF CloseAll, given, io
  <2>2. \A s \in Requests : /\ (Told(s)' <=> Told(s)) /\ (Quiet(s)' <=> Quiet(s))
                             /\ (Empty(s)' <=> Empty(s)) /\ (Rendered(s)' <=> Rendered(s))
    BY <2>1, SameWrote
  <2>q. QED
    BY <1>18, <1>a, <2>2, DispatchAssumption DEF IInv, TypeOK, NoOut, Fine, Silent, Stream,
       Deferred, Flashed, CloseAll, Goto, given, io, content, fate
<1>19. CASE Defer(r)
  <2>1. UNCHANGED <<wrote, driver>>
    BY <1>19 DEF Defer, Running, given, io
  <2>2. \A s \in Requests : /\ (Told(s)' <=> Told(s)) /\ (Quiet(s)' <=> Quiet(s))
                             /\ (Empty(s)' <=> Empty(s)) /\ (Rendered(s)' <=> Rendered(s))
    BY <2>1, SameWrote
  <2>q. QED
    BY <1>19, <1>a, <2>2, DispatchAssumption DEF IInv, TypeOK, NoOut, Fine, Silent, Stream,
       Deferred, Flashed, Defer, Running, Goto, given, io, content, fate
<1>20. CASE UseSession(r)
  <2>1. UNCHANGED <<wrote, driver>>
    BY <1>20 DEF UseSession, Running, given, io
  <2>2. \A s \in Requests : /\ (Told(s)' <=> Told(s)) /\ (Quiet(s)' <=> Quiet(s))
                             /\ (Empty(s)' <=> Empty(s)) /\ (Rendered(s)' <=> Rendered(s))
    BY <2>1, SameWrote
  <2>q. QED
    BY <1>20, <1>a, <2>2, DispatchAssumption DEF IInv, TypeOK, NoOut, Fine, Silent, Stream,
       Deferred, Flashed, UseSession, Running, Goto, given, io, content, fate
<1>21. CASE NoSession(r)
  <2>1. "500" \in Writers /\ (Writes(r, "500") \/ UNCHANGED wrote)
    BY <1>21 DEF NoSession, Writers, CannotMakeSession
  <2>2. /\ Quiet(r) /\ Told(r) /\ UNCHANGED driver
        /\ driver = "database"
    BY <1>21 DEF IInv, Fine, Silent, NoSession, given, CannotMakeSession, Running
  <2>3. /\ wrote' \in [Requests -> Seq(Writers)]
        /\ \A s \in Requests : s # r => wrote'[s] = wrote[s]
        /\ Told(r)'
        /\ Quiet(r)'
    BY <2>1, <2>2, Written DEF IInv
  <2>5. ASSUME NEW s \in Requests, s # r
        PROVE  /\ (Told(s)' <=> Told(s)) /\ (Quiet(s)' <=> Quiet(s))
               /\ (Empty(s)' <=> Empty(s)) /\ (Rendered(s)' <=> Rendered(s))
    BY <2>2, <2>3, <2>5 DEF Told, Quiet, Empty, Rendered, Answer
  <2>6. ~Rendered(r)'
    <3>1. /\ wrote'[r] \in Seq(Writers)
          /\ wrote'[r] # << >> => Len(wrote'[r]) \in DOMAIN wrote'[r]
      BY <2>3
    <3>q. QED  BY <2>3, <3>1 DEF Quiet, Rendered, Answer
  <2>q. QED
    BY <1>21, <1>a, <2>2, <2>3, <2>5, <2>6, DispatchAssumption DEF IInv, TypeOK, NoOut,
       Fine, Silent, Stream, Deferred, Flashed, NoSession, Running, LeaveEarly, Goto, given,
       io, content, fate
<1>22. CASE OutWithoutSession(r)
  <2>1. "500" \in Writers /\ (Writes(r, "500") \/ UNCHANGED wrote)
    BY <1>22 DEF OutWithoutSession, Writers, CannotMakeSession
  <2>2. /\ Quiet(r) /\ Told(r) /\ UNCHANGED driver
        /\ driver = "database"
    BY <1>22 DEF IInv, Fine, Silent, OutWithoutSession, given, CannotMakeSession
  <2>3. /\ wrote' \in [Requests -> Seq(Writers)]
        /\ \A s \in Requests : s # r => wrote'[s] = wrote[s]
        /\ Told(r)'
        /\ Quiet(r)'
    BY <2>1, <2>2, Written DEF IInv
  <2>5. ASSUME NEW s \in Requests, s # r
        PROVE  /\ (Told(s)' <=> Told(s)) /\ (Quiet(s)' <=> Quiet(s))
               /\ (Empty(s)' <=> Empty(s)) /\ (Rendered(s)' <=> Rendered(s))
    BY <2>2, <2>3, <2>5 DEF Told, Quiet, Empty, Rendered, Answer
  <2>6. ~Rendered(r)'
    <3>1. /\ wrote'[r] \in Seq(Writers)
          /\ wrote'[r] # << >> => Len(wrote'[r]) \in DOMAIN wrote'[r]
      BY <2>3
    <3>q. QED  BY <2>3, <3>1 DEF Quiet, Rendered, Answer
  <2>q. QED
    BY <1>22, <1>a, <2>2, <2>3, <2>5, <2>6, DispatchAssumption DEF IInv, TypeOK, NoOut,
       Fine, Silent, Stream, Deferred, Flashed, OutWithoutSession, Running, LeaveEarly, Goto,
       given, io, content, fate
<1>23. CASE Panic(r)
  <2>1. UNCHANGED <<wrote, driver>>
    BY <1>23 DEF Panic, LeaveEarly, Running, given, io
  <2>2. \A s \in Requests : /\ (Told(s)' <=> Told(s)) /\ (Quiet(s)' <=> Quiet(s))
                             /\ (Empty(s)' <=> Empty(s)) /\ (Rendered(s)' <=> Rendered(s))
    BY <2>1, SameWrote
  <2>q. QED
    BY <1>23, <1>a, <2>2, DispatchAssumption DEF IInv, TypeOK, NoOut, Fine, Silent, Stream,
       Deferred, Flashed, Panic, LeaveEarly, Running, Goto, given, io, content, fate
<1>24. CASE ClientLeaves(r)
  <2>1. UNCHANGED <<wrote, driver>>
    BY <1>24 DEF ClientLeaves, given, io
  <2>2. \A s \in Requests : /\ (Told(s)' <=> Told(s)) /\ (Quiet(s)' <=> Quiet(s))
                             /\ (Empty(s)' <=> Empty(s)) /\ (Rendered(s)' <=> Rendered(s))
    BY <2>1, SameWrote
  <2>q. QED
    BY <1>24, <1>a, <2>2, DispatchAssumption DEF IInv, TypeOK, NoOut, Fine, Silent, Stream,
       Deferred, Flashed, ClientLeaves, Goto, given, io, content, fate
<1>25. CASE New(r)
  <2>1. UNCHANGED <<wrote, driver>>
    BY <1>25 DEF New, Running, given, io
  <2>2. \A s \in Requests : /\ (Told(s)' <=> Told(s)) /\ (Quiet(s)' <=> Quiet(s))
                             /\ (Empty(s)' <=> Empty(s)) /\ (Rendered(s)' <=> Rendered(s))
    BY <2>1, SameWrote
  <2>q. QED
    BY <1>25, <1>a, <2>2, DispatchAssumption DEF IInv, TypeOK, NoOut, Fine, Silent, Stream,
       Deferred, Flashed, New, Running, Goto, given, io, content, fate
<1>26. CASE UseSessionApart(r)
  <2>1. UNCHANGED <<wrote, driver>>
    BY <1>26 DEF UseSessionApart, Running, given, io
  <2>2. \A s \in Requests : /\ (Told(s)' <=> Told(s)) /\ (Quiet(s)' <=> Quiet(s))
                             /\ (Empty(s)' <=> Empty(s)) /\ (Rendered(s)' <=> Rendered(s))
    BY <2>1, SameWrote
  <2>q. QED
    BY <1>26, <1>a, <2>2, DispatchAssumption DEF IInv, TypeOK, NoOut, Fine, Silent, Stream,
       Deferred, Flashed, UseSessionApart, Running, Goto, given, io, content, fate
<1>q. QED
  BY <1>1, <1>2, <1>3, <1>4, <1>5, <1>6, <1>7, <1>8, <1>9, <1>10, <1>11, <1>12, <1>13,
     <1>14, <1>15, <1>16, <1>17, <1>18, <1>19, <1>20, <1>21, <1>22, <1>23, <1>24, <1>25, <1>26
     DEF Step

LEMMA InitInv == Init => IInv
<1> SUFFICES ASSUME Init PROVE IInv
  OBVIOUS
<1>1. \A r \in Requests : wrote[r] = << >> /\ Len(wrote[r]) = 0 /\ DOMAIN wrote[r] = {}
  BY DEF Init
<1>2. \A r \in Requests : Told(r) /\ Quiet(r) /\ Empty(r) /\ ~Rendered(r)
  BY <1>1 DEF Told, Quiet, Empty, Rendered, Answer
<1>3. wrote \in [Requests -> Seq(Writers)]
  BY DEF Init
<1>q. QED
  BY <1>2, <1>3, DispatchAssumption
     DEF Init, IInv, TypeOK, NoOut, Fine, Silent, Stream, Deferred, Flashed

LEMMA StepInv == IInv /\ [Next]_vars => IInv'
<1> SUFFICES ASSUME IInv, [Next]_vars PROVE IInv'
  OBVIOUS
<1>1. ASSUME NEW r \in Requests, Step(r) PROVE IInv'
  BY <1>1, TypeStep, FineStep DEF IInv
<1>2. CASE UNCHANGED vars
  BY <1>2, SameWrote DEF IInv, TypeOK, Fine, Silent, Stream, Deferred, Flashed, vars,
     given, io, content, fate
<1>q. QED  BY <1>1, <1>2 DEF Next

LEMMA Invariant == Spec => []IInv
<1>1. QED  BY InitInv, StepInv, PTL DEF Spec

-----------------------------------------------------------------------------
\* Every variable has its type.
THEOREM TypeCorrect == Spec => []TypeOK
<1>1. IInv => TypeOK
  BY DEF IInv
<1>q. QED  BY <1>1, Invariant, PTL

\* At most one of enroute, the ServeMux, the filters, handleReq and Render answers a request,
\* and nothing is written after it; only the 500s of a GetSession whose driver has a
\* database and failed come before.
THEOREM AnsweredOnce == Spec => []OneResponse
<1>1. IInv => OneResponse
  <2> SUFFICES ASSUME IInv, NEW r \in Requests, Len(wrote[r]) > 1, driver = "memory"
               PROVE  FALSE
    BY DEF IInv, TypeOK, Fine, Told, OneResponse
  <2>1. /\ \A i \in DOMAIN wrote[r] : i < Len(wrote[r]) => wrote[r][i] = "500"
        /\ \A i \in DOMAIN wrote[r] : wrote[r][i] # "500"
    BY DEF IInv, Fine, Told
  <2>2. wrote[r] \in Seq(Writers)
    BY DEF IInv, TypeOK
  <2>3. 1 \in DOMAIN wrote[r]
    BY <2>2
  <2>q. QED  BY <2>1, <2>3
<1>q. QED  BY <1>1, Invariant, PTL

\* Every gzip stream is finished when its request is over.
THEOREM StreamsEnd == Spec => []StreamsAreFinished
<1>1. IInv => StreamsAreFinished
  BY DEF IInv, Fine, Stream, StreamsAreFinished
<1>q. QED  BY <1>1, Invariant, PTL

\* Deferred functions run for the Out that is rendered and before its content; what
\* GetSession writes when its driver fails changes nothing of that.
THEOREM DefersComeFirst == Spec => []DefersPrecedeOutput
<1>1. IInv => DefersPrecedeOutput
  BY QuietIs DEF IInv, Fine, Deferred, Rendered, DefersPrecedeOutput
<1>q. QED  BY <1>1, Invariant, PTL

\* Only a request that left early leaves something in the Flash.
THEOREM FlashIsCleared == Spec => []FlashEndsWithItsRequest
<1>1. IInv => FlashEndsWithItsRequest
  BY DEF IInv, Fine, Flashed, FlashEndsWithItsRequest
<1>q. QED  BY <1>1, Invariant, PTL

-----------------------------------------------------------------------------
\* App.Listen (Startup).  Where Listen and its two goroutines stand: the goroutines are
\* not there before Listen waits.
Started == at[Main] \in {"wait", "returned"}

Stands == /\ at[Main] \in Loading \cup {"send", "spawn", "wait", "returned"}
          /\ \A p \in Servers : at[p] \in Loading \cup {"none", "send", "loaded",
                                                        "serving", "end"}
          /\ ~Started => \A p \in Servers : at[p] = "none"

\* A failed load is the first message, until it is what Listen returns.
Reports == /\ at[Main] \in Loading => ~failed
           /\ at[Main] \in Loading \cup {"send"} => mainChan = << >>
           /\ at[Main] = "send" => failed
           /\ at[Main] # "returned" => result = "none"
           /\ at[Main] \in {"spawn", "wait"} /\ failed =>
                mainChan # << >> /\ Head(mainChan) = "load"
           /\ at[Main] = "returned" /\ failed => result = "load"

\* What Listen's own loadAll has done, step by step; after it the goroutines find
\* everything loaded, unless it failed.
Usable == loadedAll /\ router \in {"manual", "loaded"}
Loads == /\ at[Main] \in {"check", "config"} => router \in {"none", "manual"} /\ ~loadedAll
         /\ at[Main] = "refresh" => router = "made"
         /\ at[Main] \in {"locale", "views"} => router \in {"manual", "loaded"}
         /\ at[Main] \notin Loading /\ ~failed =>
              Usable /\ \A p \in Servers : at[p] \notin Loading \ {"check"}

LInv == ListenTypeOK /\ Stands /\ Reports /\ Loads /\ GoodStartNeverCrashes

Places == Loading \cup {"none", "send", "spawn", "wait", "returned", "loaded", "serving", "end"}

LEMMA Actors == /\ Main \in Loaders /\ Main \notin Servers /\ Servers \subseteq Loaders
                /\ "listenTLS" \in Servers
                /\ \A p \in Loaders : p = Main \/ p \in Servers
  BY DEF Main, Servers, Loaders

LEMMA ListenInitInv == ListenInit => LInv
<1> SUFFICES ASSUME ListenInit PROVE LInv
  OBVIOUS
<1>1. at[Main] = "check" /\ \A p \in Servers : at[p] = "none"
  BY Actors DEF ListenInit
<1>2. mainChan \in Seq(Messages) /\ Len(mainChan) <= Capacity
  <2>1. mainChan = << >>
    BY DEF ListenInit
  <2>2. Len(mainChan) = 0 /\ mainChan \in Seq(Messages)
    BY <2>1, EmptySeq
  <2>q. QED  BY <2>2 DEF Capacity
<1>3. at \in [Loaders -> Places]
  BY DEF ListenInit, Places, Loading
<1>4. ListenTypeOK
  BY <1>2, <1>3 DEF ListenInit, ListenTypeOK, Places
<1>5. Stands
  BY <1>1 DEF Stands, Started, Loading
<1>6. Reports
  BY <1>1 DEF ListenInit, Reports
<1>7. Loads
  BY <1>1 DEF ListenInit, Loads, Loading
<1>8. GoodStartNeverCrashes
  BY DEF ListenInit, GoodStartNeverCrashes
<1>q. QED  BY <1>4, <1>5, <1>6, <1>7, <1>8 DEF LInv

\* What a step of one of the goroutines keeps, if nothing but the place of the goroutine,
\* and what was loaded after a failed load, changes.
LEMMA GoroutineStep ==
  ASSUME LInv, crashed = FALSE, NEW p \in Servers, NEW w,
         at[p] # "none", Moves(p, w),
         w \in Loading \cup {"send", "loaded", "serving", "end"},
         ~failed => w \notin Loading \ {"check"},
         UNCHANGED <<config, mainChan, result, db, routine, crashed, failed>>,
         router' \in {"none", "manual", "made", "loaded", "empty"}, loadedAll' \in BOOLEAN,
         ~failed => UNCHANGED <<router, loadedAll>>
  PROVE  LInv'
<1>1. at[Main] \in {"wait", "returned"}
  BY DEF LInv, Stands, Started
<1>2. /\ at' \in [Loaders -> Places] /\ at'[Main] = at[Main] /\ at'[p] = w
      /\ \A q \in Servers : q # p => at'[q] = at[q]
  BY Actors DEF LInv, ListenTypeOK, Moves, Places
<1>3. ListenTypeOK'
  BY <1>2 DEF LInv, ListenTypeOK, config, Places
<1>4. Stands'
  BY <1>1, <1>2 DEF LInv, Stands, Started
<1>5. Reports'
  BY <1>2 DEF LInv, Reports
<1>6. Loads'
  <2>1. at[Main] \notin Loading
    BY <1>1 DEF Loading
  <2>2. ~failed => Usable' /\ \A q \in Servers : at'[q] \notin Loading \ {"check"}
    BY <1>2, <2>1 DEF LInv, Loads, Usable
  <2>q. QED  BY <1>1, <1>2, <2>1, <2>2 DEF Loads, Loading
<1>7. GoodStartNeverCrashes'
  BY DEF GoodStartNeverCrashes
<1>q. QED  BY <1>3, <1>4, <1>5, <1>6, <1>7 DEF LInv

\* A goroutine's own loadAll.
LEMMA GoroutineLoads ==
  ASSUME LInv, crashed = FALSE, NEW p \in Servers, LoadStep(p)
  PROVE  LInv'
<1>1. p # Main /\ p \in Loaders
  BY Actors
<1>2. AfterError(p) = "loaded" /\ AfterLoad(p) = "loaded"
  BY <1>1 DEF AfterError, AfterLoad
<1>3. /\ ~failed /\ at[p] \in Loading => at[p] = "check" /\ loadedAll
      /\ router \in {"none", "manual", "made", "loaded", "empty"} /\ loadedAll \in BOOLEAN
      /\ failed \in BOOLEAN
  <2>1. at[p] \in Loading => at[Main] \notin Loading
    BY DEF LInv, Stands, Started, Loading
  <2>q. QED  BY <2>1 DEF LInv, Loads, Usable, ListenTypeOK
<1>4. CASE Check(p)
  BY <1>2, <1>3, <1>4, GoroutineStep DEF Check, Loading
<1>5. CASE LoadRoutes(p)
  BY <1>3, <1>5, GoroutineStep DEF LoadRoutes, Loading
<1>6. CASE Refresh(p)
  BY <1>1, <1>2, <1>3, <1>6, GoroutineStep DEF Refresh, Fail, Loading
<1>7. CASE LoadLocale(p)
  BY <1>1, <1>2, <1>3, <1>7, GoroutineStep DEF LoadLocale, Fail, Loading
<1>8. CASE LoadViews(p)
  BY <1>1, <1>2, <1>3, <1>8, GoroutineStep DEF LoadViews, Fail, Loading
<1>q. QED  BY <1>4, <1>5, <1>6, <1>7, <1>8 DEF LoadStep

\* The other steps of a goroutine but its send.
LEMMA GoroutineServes ==
  ASSUME LInv, crashed = FALSE, NEW p \in Servers, Serve(p) \/ Stop(p)
  PROVE  LInv'
<1>1. router \in {"none", "manual", "made", "loaded", "empty"} /\ loadedAll \in BOOLEAN
  BY DEF LInv, ListenTypeOK
<1>2. CASE Serve(p)
  BY <1>1, <1>2, GoroutineStep DEF Serve, Loading
<1>3. CASE Stop(p)
  BY <1>1, <1>3, GoroutineStep DEF Stop, Loading
<1>q. QED  BY <1>2, <1>3

LEMMA NoKeyFile == ASSUME LInv, crashed = FALSE, NoTempFile PROVE LInv'
<1>1. router \in {"none", "manual", "made", "loaded", "empty"} /\ loadedAll \in BOOLEAN
  BY DEF LInv, ListenTypeOK
<1>q. QED  BY <1>1, Actors, GoroutineStep DEF NoTempFile, Loading

\* Listen's own loadAll: a step from one of its places to the next one.
LEMMA ListenStep ==
  ASSUME LInv, crashed = FALSE, at[Main] \in Loading, NEW w, Moves(Main, w),
         w \in Loading \cup {"send", "spawn"}, failed' = (w = "send"),
         UNCHANGED <<config, mainChan, result, db, routine, crashed>>,
         router' \in {"none", "manual", "made", "loaded", "empty"}, loadedAll' \in BOOLEAN,
         w \in {"check", "config"} => router' \in {"none", "manual"} /\ ~loadedAll',
         w = "refresh" => router' = "made",
         w \in {"locale", "views"} => router' \in {"manual", "loaded"},
         w = "spawn" => Usable'
  PROVE  LInv'
<1>1. at[Main] \notin {"send", "spawn", "wait", "returned"}
  BY DEF Loading
<1>2. /\ at' \in [Loaders -> Places] /\ at'[Main] = w
      /\ \A q \in Servers : at'[q] = at[q] /\ at[q] = "none"
  BY <1>1, Actors DEF LInv, ListenTypeOK, Moves, Places, Stands, Started
<1>3. ListenTypeOK'
  BY <1>2 DEF LInv, ListenTypeOK, config, Places
<1>4. Stands'
  BY <1>2 DEF Stands, Started, Loading
<1>5. Reports'
  BY <1>1, <1>2 DEF LInv, Reports, Loading
<1>6. Loads'
  BY <1>2 DEF Loads, Loading, Usable
<1>7. GoodStartNeverCrashes'
  BY DEF GoodStartNeverCrashes
<1>q. QED  BY <1>3, <1>4, <1>5, <1>6, <1>7 DEF LInv

LEMMA ListenLoads == ASSUME LInv, crashed = FALSE, LoadStep(Main) PROVE LInv'
<1>1. AfterError(Main) = "send" /\ AfterLoad(Main) = "spawn"
  BY DEF AfterError, AfterLoad
<1>2. /\ router \in {"none", "manual", "made", "loaded", "empty"} /\ loadedAll \in BOOLEAN
      /\ failed \in BOOLEAN
  BY DEF LInv, ListenTypeOK
<1>3. /\ at[Main] \in Loading => ~failed
      /\ at[Main] \in {"check", "config"} => router \in {"none", "manual"} /\ ~loadedAll
      /\ at[Main] = "refresh" => router = "made"
      /\ at[Main] \in {"locale", "views"} => router \in {"manual", "loaded"}
  BY DEF LInv, Reports, Loads
<1>4. CASE Check(Main)
  BY <1>1, <1>2, <1>3, <1>4, ListenStep DEF Check, Loading
<1>5. CASE LoadRoutes(Main)
  BY <1>2, <1>3, <1>5, ListenStep DEF LoadRoutes, Loading
<1>6. CASE Refresh(Main)
  BY <1>1, <1>2, <1>3, <1>6, ListenStep DEF Refresh, Fail, Loading
<1>7. CASE LoadLocale(Main)
  BY <1>1, <1>2, <1>3, <1>7, ListenStep DEF LoadLocale, Fail, Loading
<1>8. CASE LoadViews(Main)
  BY <1>1, <1>2, <1>3, <1>8, ListenStep DEF LoadViews, Fail, Loading, Usable
<1>q. QED  BY <1>4, <1>5, <1>6, <1>7, <1>8 DEF LoadStep

\* Two goroutines that fill the template map: only after a failed load.
LEMMA ViewsTwice == ASSUME LInv, crashed = FALSE, LoadViewsTwice PROVE LInv'
<1>1. failed
  <2> SUFFICES ASSUME ~failed PROVE FALSE
    OBVIOUS
  <2> DEFINE V == {p \in Loaders : at[p] = "views"}
  <2>1. \A p \in Servers : at[p] # "views"
    BY Actors DEF LInv, Stands, Loads, Started, Loading
  <2>2. V = {} \/ V = {Main}
    BY <2>1, Actors
  <2>3. Cardinality(V) = 0 \/ Cardinality(V) = 1
    BY <2>2, FS_EmptySet, FS_Singleton
  <2>4. Cardinality(V) > 1
    BY DEF LoadViewsTwice
  <2> HIDE DEF V
  <2>q. QED  BY <2>3, <2>4
<1>2. UNCHANGED <<config, at, router, loadedAll, mainChan, result, db, routine, failed>>
  BY DEF LoadViewsTwice
<1>3. crashed' = TRUE
  BY DEF LoadViewsTwice
<1>4. ListenTypeOK'
  BY <1>2, <1>3 DEF LInv, ListenTypeOK, config
<1>5. Stands' /\ Reports' /\ Loads'
  BY <1>2 DEF LInv, Stands, Reports, Loads, Usable, Started
<1>6. GoodStartNeverCrashes'
  BY <1>1, <1>2 DEF GoodStartNeverCrashes
<1>q. QED  BY <1>4, <1>5, <1>6 DEF LInv

\* A message is put behind those that wait.
LEMMA MessageSent ==
  ASSUME LInv, crashed = FALSE, NEW p \in Loaders, Send(p)
  PROVE  LInv'
<1> DEFINE message == IF p = Main THEN "load" ELSE p
<1>0. message \in Messages
  BY Actors DEF Messages
<1>1. /\ mainChan' = Append(mainChan, message) /\ mainChan \in Seq(Messages)
      /\ Len(mainChan) <= Capacity
  BY DEF LInv, ListenTypeOK, Send
<1>2. /\ mainChan' \in Seq(Messages) /\ mainChan' # << >>
      /\ Len(mainChan') = Len(mainChan) + 1 /\ Len(mainChan) \in Nat
      /\ mainChan # << >> => Head(mainChan') = Head(mainChan)
      /\ mainChan = << >> => Head(mainChan') = message
  BY <1>0, <1>1
<1>3. Len(mainChan') <= Capacity
  <2>1. CASE Len(mainChan) < Capacity
    BY <1>2, <2>1 DEF Capacity
  <2>2. CASE mainChan = << >>
    BY <1>2, <2>2 DEF Capacity
  <2>q. QED  BY <2>1, <2>2 DEF Send, Room
<1>4. /\ at[p] = "send"
      /\ UNCHANGED <<config, router, loadedAll, result, db, routine, crashed, failed>>
  BY DEF Send
<1>5. GoodStartNeverCrashes'
  BY <1>4 DEF GoodStartNeverCrashes
<1> HIDE DEF message
<1>6. CASE p = Main
  <2>1. /\ at' \in [Loaders -> Places] /\ at'[Main] = "spawn"
        /\ \A q \in Servers : at'[q] = at[q] /\ at[q] = "none"
    BY <1>4, <1>6, Actors DEF LInv, ListenTypeOK, Send, Moves, Places, Stands, Started
  <2>2. ListenTypeOK'
    BY <1>2, <1>3, <1>4, <2>1 DEF LInv, ListenTypeOK, config, Places
  <2>3. Stands'
    BY <2>1 DEF Stands, Started, Loading
  <2>4. failed /\ mainChan = << >> /\ result = "none" /\ message = "load"
    BY <1>4, <1>6 DEF LInv, Reports, message
  <2>5. Reports'
    BY <1>2, <1>4, <2>1, <2>4 DEF Reports, Loading
  <2>6. Loads'
    BY <1>4, <2>1, <2>4 DEF Loads, Loading
  <2>q. QED  BY <1>5, <2>2, <2>3, <2>5, <2>6 DEF LInv
<1>7. CASE p \in Servers
  <2>1. /\ at' \in [Loaders -> Places] /\ at'[Main] = at[Main] /\ at'[p] = "end"
        /\ \A q \in Servers : q # p => at'[q] = at[q]
    BY <1>7, Actors DEF LInv, ListenTypeOK, Send, Moves, Places
  <2>2. ListenTypeOK'
    BY <1>2, <1>3, <1>4, <2>1 DEF LInv, ListenTypeOK, config, Places
  <2>3. at[Main] \in {"wait", "returned"}
    BY <1>4, <1>7 DEF LInv, Stands, Started
  <2>4. Stands'
    BY <2>1, <2>3 DEF LInv, Stands, Started
  <2>5. Reports'
    BY <1>2, <1>4, <2>1, <2>3 DEF LInv, Reports, Loading
  <2>6. Loads'
    BY <1>4, <2>1, <2>3 DEF LInv, Loads, Usable, Loading
  <2>q. QED  BY <1>5, <2>2, <2>4, <2>5, <2>6 DEF LInv
<1>q. QED  BY <1>6, <1>7, Actors

LEMMA Spawned == ASSUME LInv, crashed = FALSE, Spawn PROVE LInv'
<1>1. /\ at[Main] = "spawn" /\ at' \in [Loaders -> Places] /\ at'[Main] = "wait"
      /\ \A q \in Servers : at'[q] = "check"
  BY Actors DEF Spawn, Places, Loading
<1>2. routine' = "sleeping"
      /\ UNCHANGED <<config, router, loadedAll, mainChan, result, db, crashed, failed>>
  BY DEF Spawn
<1>3. ListenTypeOK'
  BY <1>1, <1>2 DEF LInv, ListenTypeOK, config, Places
<1>4. Stands'
  BY <1>1 DEF Stands, Started, Loading
<1>5. Reports'
  BY <1>1, <1>2 DEF LInv, Reports, Loading
<1>6. Loads'
  BY <1>1, <1>2 DEF LInv, Loads, Usable, Loading
<1>7. GoodStartNeverCrashes'
  BY <1>2 DEF GoodStartNeverCrashes
<1>q. QED  BY <1>3, <1>4, <1>5, <1>6, <1>7 DEF LInv

\* Listen returns the first message.
LEMMA Received == ASSUME LInv, crashed = FALSE, Receive PROVE LInv'
<1>1. /\ at[Main] = "wait" /\ at' \in [Loaders -> Places] /\ at'[Main] = "returned"
      /\ \A q \in Servers : at'[q] = at[q]
  BY Actors DEF LInv, ListenTypeOK, Receive, Moves, Places
<1>2. /\ mainChan \in Seq(Messages) /\ mainChan # << >> /\ Len(mainChan) <= Capacity
      /\ mainChan' = Tail(mainChan) /\ result' = Head(mainChan)
      /\ UNCHANGED <<config, router, loadedAll, routine, failed>>
  BY DEF LInv, ListenTypeOK, Receive
<1>3. /\ mainChan' \in Seq(Messages) /\ Len(mainChan') = Len(mainChan) - 1
      /\ result' \in Messages /\ Len(mainChan) \in Nat
  BY <1>2
<1>4. Len(mainChan') <= Capacity
  BY <1>2, <1>3 DEF Capacity
<1>5. /\ db' = IF db = "open" THEN "closed" ELSE db
      /\ crashed' \in IF db = "appless" THEN BOOLEAN ELSE {FALSE}
  BY DEF Receive, CloseSessionStorage
<1>6. ListenTypeOK'
  BY <1>1, <1>2, <1>3, <1>4, <1>5 DEF LInv, ListenTypeOK, config, Places
<1>7. Stands'
  BY <1>1 DEF LInv, Stands, Started, Loading
<1>8. Reports'
  BY <1>1, <1>2 DEF LInv, Reports, Loading
<1>9. Loads'
  BY <1>1, <1>2 DEF LInv, Loads, Usable, Loading
<1>10. GoodStartNeverCrashes'
  BY <1>5 DEF GoodStartNeverCrashes
<1>q. QED  BY <1>6, <1>7, <1>8, <1>9, <1>10 DEF LInv

\* The maintenance, and a request that asks for a session.
LEMMA SessionSteps ==
  ASSUME LInv, crashed = FALSE, Cleanup \/ InitAnySessionStorage
  PROVE  LInv'
<1>1. UNCHANGED <<config, at, router, loadedAll, mainChan, result, failed>>
  BY DEF Cleanup, InitAnySessionStorage
<1>2. LInv /\ db' \in {"none", "open", "closed", "appless"}
           /\ routine' \in {"no", "sleeping", "running"} /\ crashed' \in BOOLEAN
  <2>1. /\ db \in {"none", "open", "closed", "appless"}
        /\ routine \in {"no", "sleeping", "running"}
    BY DEF LInv, ListenTypeOK
  <2>2. CASE Cleanup
    BY <2>1, <2>2 DEF Cleanup
  <2>3. CASE InitAnySessionStorage
    <3>1. db' \in {"open", "appless"} /\ routine' = routine /\ crashed' = crashed
      BY <2>3 DEF InitAnySessionStorage
    <3>q. QED  BY <2>1, <3>1
  <2>q. QED  BY <2>2, <2>3
<1>t. ListenTypeOK'
  BY <1>1, <1>2 DEF LInv, ListenTypeOK, config
<1>3. Stands' /\ Reports' /\ Loads'
  BY <1>1 DEF LInv, Stands, Reports, Loads, Usable, Started
<1>4. GoodStartNeverCrashes'
  BY DEF GoodStartNeverCrashes, Cleanup, InitAnySessionStorage
<1>q. QED  BY <1>t, <1>3, <1>4 DEF LInv

LEMMA ListenStepInv == LInv /\ [ListenNext]_listenVars => LInv'
<1> SUFFICES ASSUME LInv, [ListenNext]_listenVars PROVE LInv'
  OBVIOUS
<1>1. CASE UNCHANGED listenVars
  <2>1. UNCHANGED <<config, at, router, loadedAll, mainChan, result, db, routine, crashed,
                    failed>>
    BY <1>1 DEF listenVars
  <2>2. ListenTypeOK'
    BY <2>1 DEF LInv, ListenTypeOK, config
  <2>q. QED  BY <2>1, <2>2 DEF LInv, Stands, Reports, Loads, Usable, Started,
                               GoodStartNeverCrashes
<1>2. CASE ListenNext
  <2>1. crashed = FALSE
    BY <1>2 DEF ListenNext, LInv, ListenTypeOK
  <2>2. ASSUME NEW p \in Loaders, LoadStep(p) PROVE LInv'
    BY <2>1, <2>2, Actors, ListenLoads, GoroutineLoads
  <2>3. ASSUME NEW p \in Loaders, Send(p) PROVE LInv'
    BY <2>1, <2>3, MessageSent
  <2>4. ASSUME NEW p \in Servers, Serve(p) \/ Stop(p) PROVE LInv'
    BY <2>1, <2>4, GoroutineServes
  <2>q. QED  BY <1>2, <2>1, <2>2, <2>3, <2>4, ViewsTwice, Spawned, Received, NoKeyFile,
                SessionSteps DEF ListenNext
<1>q. QED  BY <1>1, <1>2

LEMMA ListenInvariant == ListenSpec => []LInv
BY ListenInitInv, ListenStepInv, PTL DEF ListenSpec

\* Every variable of Startup has its type, and mainChan has room for everyone who sends.
THEOREM ListenTypeCorrect == ListenSpec => []ListenTypeOK
<1>1. LInv => ListenTypeOK
  BY DEF LInv
<1>q. QED  BY <1>1, ListenInvariant, PTL

\* A failed load is what Listen returns, although it starts both servers all the same
\* (App.Listen, App.go:198-217).
THEOREM FirstErrorWins == ListenSpec => []FirstErrorReturned
<1>1. LInv => FirstErrorReturned
  BY DEF LInv, Stands, Reports, FirstErrorReturned
<1>q. QED  BY <1>1, ListenInvariant, PTL

\* Only after a failed load is a server up over an application that is not loaded, and
\* then Listen reports the load before any error of a server (App.go:198-230, 382-400).
THEOREM OnlyLoadedIsServed == ListenSpec => []ServesWhatIsLoaded
<1>1. LInv => ServesWhatIsLoaded
  <2> SUFFICES ASSUME LInv, NEW p \in Servers, at[p] = "serving", ~Usable
               PROVE  result = "load" \/ (mainChan # << >> /\ Head(mainChan) = "load")
    BY DEF ServesWhatIsLoaded, Usable
  <2>1. at[Main] \in {"wait", "returned"}
    BY DEF LInv, Stands, Started
  <2>2. failed
    BY <2>1 DEF LInv, Loads, Loading
  <2>q. QED  BY <2>1, <2>2 DEF LInv, Reports
<1>q. QED  BY <1>1, ListenInvariant, PTL

\* After a good load neither the three calls of loadAll nor the maintenance nor the close
\* end the process, with a session storage chosen before Listen or one that needs no app
\* (App.go:382-400, App_Routines.go, core.go:112-116).
THEOREM GoodStartSurvives == ListenSpec => []GoodStartNeverCrashes
<1>1. LInv => GoodStartNeverCrashes
  BY DEF LInv
<1>q. QED  BY <1>1, ListenInvariant, PTL
=============================================================================
