--------------------------- MODULE TemplateReload ---------------------------
(***************************************************************************)
(* Template files, the watcher that reloads them (App.loadTemplates with    *)
(* WatchViewsFolder) and the partials they include                          *)
(* (parseTemplateIncludeDeps).  One language, no LocalePath.                *)
(*                                                                         *)
(* One goroutine receives file events, reads the file and, one after the    *)
(* other, its partials, and stores the parsed result with the list of       *)
(* partials it read.  It then sends itself an event for every template that *)
(* lists the file, each from a goroutine of its own: the channel has no     *)
(* buffer, so those wait until it receives again.  Files are edited         *)
(* meanwhile, also between two of its reads.                                *)
(*                                                                         *)
(* A partial is listed under the path it is included by.  "/x" becomes the  *)
(* absolute path of x, while events name files as the walk over the folder  *)
(* did: by an absolute path when ViewsFolderPath begins with "./" or the     *)
(* process runs in "/", and as in "view/x" with the folder "view" that the   *)
(* skeleton configures.                                                    *)
(***************************************************************************)
EXTENDS Naturals, Sequences, FiniteSets

CONSTANTS Files,
          Watched,          \* those with one of the ViewsExtensions
          Texts,            \* what can be written: [Files -> sets of texts];
                            \* none includes itself, however indirectly
          Gone,             \* the text of a file that is not there
          AbsoluteNames,    \* events name files by their absolute path
          MaxEdits          \* bound on the changes made to files

\* A text: what it includes, in order, and whether it parses.
Includes == [file : Files, rooted : BOOLEAN]

ASSUME TemplateAssumption ==
    /\ IsFiniteSet(Files)
    /\ Watched \subseteq Files
    /\ Gone \notin Files
    /\ AbsoluteNames \in BOOLEAN
    /\ MaxEdits \in Nat
    /\ \A f \in Files : \A x \in Texts[f] :
         x.parses \in BOOLEAN /\ x.includes \in Seq(Includes)

VARIABLES disk,         \* the text of each file
          rev,          \* the edit that gave it to the file
          edits,        \* number of edits so far
          events,       \* fswatcher.Events: file events, in order
          resends,      \* goroutines that wait to send the event of a parent
          cur,          \* the file being reloaded, or Gone
          todo,         \* the files parseTemplateIncludeDeps has still to read
          got,          \* the revisions read
          deps,         \* depList
          sound,        \* everything read so far parses
          templates     \* templateMap: the revisions and deps of each entry

files == <<disk, rev, edits>>
load == <<cur, todo, got, deps, sound>>
vars == <<files, events, resends, load, templates>>

-----------------------------------------------------------------------------
\* The partials of an included file, in order.  Inside a partial of absolute
\* path, "./x" becomes absolute as well.
Root(f) == [file |-> f, rooted |-> FALSE]

Targets(i) ==
    [k \in DOMAIN disk[i.file].includes |->
       LET x == disk[i.file].includes[k]
       IN  [file |-> x.file, rooted |-> i.rooted \/ x.rooted]]

\* What depList gets for them: only the paths events use are of any effect.
Noted(i) == IF AbsoluteNames \/ ~i.rooted THEN {i.file} ELSE {}

\* What a template includes, itself at level 0: after as many levels as there are
\* ways to include a file there is nothing to add.
Spread(S) ==
    S \cup UNION {{Targets(i)[k] : k \in DOMAIN Targets(i)} :
                    i \in {j \in S : disk[j.file] # Gone}}

Reached(f) ==
    LET level[n \in 0..Cardinality(Includes)] ==
          IF n = 0 THEN {Root(f)} ELSE Spread(level[n - 1])
    IN  level[Cardinality(Includes)]

Parts(f) == {g \in Files : \E i \in Reached(f) : i.file = g}

Loadable(f) == \A g \in Parts(f) : disk[g] # Gone /\ disk[g].parses

Text(f) == {<<g, rev[g]>> : g \in Parts(f)}
Listed(f) == {g \in Files : \E i \in Reached(f) \ {Root(f)} : g \in Noted(i)}

NoEntry == [text |-> {}, deps |-> {}]
Has(t) == templates[t] # NoEntry

-----------------------------------------------------------------------------
\* loadTemplates has walked the folder without an error.
Init ==
    /\ disk \in [Files -> {Gone} \cup UNION {Texts[f] : f \in Files}]
    /\ \A f \in Files : disk[f] \in Texts[f] \cup {Gone}
    /\ rev = [f \in Files |-> 0]
    /\ edits = 0
    /\ \A f \in Watched : disk[f] # Gone => Loadable(f)
    /\ templates = [f \in Watched |->
         IF disk[f] = Gone THEN NoEntry ELSE [text |-> Text(f), deps |-> Listed(f)]]
    /\ events = << >>
    /\ resends = {}
    /\ cur = Gone
    /\ todo = << >>
    /\ got = {}
    /\ deps = {}
    /\ sound = TRUE

-----------------------------------------------------------------------------
\* The people who edit the files.

Write(f, x) ==
    /\ edits < MaxEdits
    /\ edits' = edits + 1
    /\ disk' = [disk EXCEPT ![f] = x]
    /\ rev' = [rev EXCEPT ![f] = edits + 1]
    /\ events' = Append(events, f)
    /\ UNCHANGED <<resends, load, templates>>

\* The event of a removal is received and ignored, and is left out.
Unlink(f) ==
    /\ edits < MaxEdits
    /\ disk[f] # Gone
    /\ edits' = edits + 1
    /\ disk' = [disk EXCEPT ![f] = Gone]
    /\ rev' = [rev EXCEPT ![f] = edits + 1]
    /\ UNCHANGED <<events, resends, load, templates>>

-----------------------------------------------------------------------------
\* The watcher.

\* An event is received.  One for a file with another extension is dropped.
StartOn(f) ==
    IF f \in Watched
    THEN cur' = f /\ todo' = <<Root(f)>> /\ UNCHANGED <<got, deps, sound>>
    ELSE UNCHANGED load

Receive ==
    /\ cur = Gone
    /\ events # << >>
    /\ StartOn(Head(events))
    /\ events' = Tail(events)
    /\ UNCHANGED <<files, resends, templates>>

ReceiveResent(f) ==
    /\ cur = Gone
    /\ f \in resends
    /\ StartOn(f)
    /\ resends' = resends \ {f}
    /\ UNCHANGED <<files, events, templates>>

\* The loop is back at its select; the variables of one event are gone.
IdleKeepsReading == /\ cur' = Gone
                    /\ todo' = << >>
                    /\ UNCHANGED <<got, deps, sound>>

Idle == /\ cur' = Gone
        /\ todo' = << >>
        /\ got' = {}
        /\ deps' = {}
        /\ sound' = TRUE

\* The next file is read; its partials are next.  One that is not there ends
\* the reload.
Read ==
    LET i == Head(todo)
        f == i.file IN
    /\ todo # << >>
    /\ IF disk[f] = Gone
         THEN Idle
         ELSE /\ todo' = Targets(i) \o Tail(todo)
              /\ got' = got \cup {<<f, rev[f]>>}
              /\ deps' = IF f = cur THEN deps ELSE deps \cup Noted(i)
              /\ sound' = (sound /\ disk[f].parses)
              /\ UNCHANGED cur
    /\ UNCHANGED <<files, events, resends, templates>>

\* What was read does not parse: the old template stays.
Reject ==
    /\ cur # Gone /\ todo = << >>
    /\ ~sound
    /\ Idle
    /\ UNCHANGED <<files, events, resends, templates>>

\* The template is replaced and its parents get an event each.
StoreEchoes ==
    /\ cur # Gone /\ todo = << >>
    /\ sound
    /\ templates' = [templates EXCEPT ![cur] = [text |-> got, deps |-> deps]]
    /\ resends' = resends \cup {t \in Watched : cur \in templates'[t].deps \cup {t}}
    /\ Idle
    /\ UNCHANGED <<files, events>>

StoreOnly ==
    /\ cur # Gone /\ todo = << >>
    /\ sound
    /\ templates' = [templates EXCEPT ![cur] = [text |-> got, deps |-> deps]]
    /\ Idle
    /\ UNCHANGED <<files, events, resends>>

Store ==
    /\ cur # Gone /\ todo = << >>
    /\ sound
    /\ templates' = [templates EXCEPT ![cur] = [text |-> got, deps |-> deps]]
    /\ resends' = resends \cup {t \in Watched : cur \in templates'[t].deps}
    /\ Idle
    /\ UNCHANGED <<files, events>>

Reload == \/ Receive
          \/ \E f \in Files : ReceiveResent(f)
          \/ Read
          \/ Reject
          \/ Store

Next == \/ \E f \in Files : Unlink(f) \/ \E x \in Texts[f] : Write(f, x)
        \/ Reload

\* The watcher runs, and everyone who waits on its channel gets a turn.
Fairness == /\ SF_vars(Receive)
            /\ \A f \in Files : SF_vars(ReceiveResent(f))
            /\ WF_vars(Read \/ Reject \/ Store)

Spec == Init /\ [][Next]_vars
FairSpec == Spec /\ Fairness

-----------------------------------------------------------------------------
\* Properties.

Revisions == Files \X (0..MaxEdits)

\* Every variable has its type; what is being read belongs to a watched file.
TypeOK ==
    /\ DOMAIN disk = Files /\ \A f \in Files : disk[f] \in Texts[f] \cup {Gone}
    /\ rev \in [Files -> 0..edits]
    /\ edits \in 0..MaxEdits
    /\ events \in Seq(Files)
    /\ resends \subseteq Watched
    /\ cur \in Watched \cup {Gone}
    /\ todo \in Seq(Includes)
    /\ got \subseteq Revisions
    /\ deps \subseteq Files
    /\ sound \in BOOLEAN
    /\ templates \in [Watched -> [text : SUBSET Revisions, deps : SUBSET Files]]
    /\ cur = Gone => todo = << >> /\ got = {} /\ deps = {}

Quiet == events = << >> /\ resends = {} /\ cur = Gone

Fresh(t) == templates[t].text = Text(t)

\* The files an entry was made of.
Shown(t) == {x[1] : x \in templates[t].text}

\* CHANGELOG.md:7, "updating partial templates now trigger a reload on parent
\* templates".  No update is lost: when the watcher has nothing left to do, a
\* template that was loaded with exactly the partials it has now shows each of
\* them as it is on the disk, whatever was edited while the watcher read and in
\* whatever order the events of files and parents came in.  It needs
\* AbsoluteNames.
ParentsFollowPartials ==
    Quiet => \A t \in Watched :
      Has(t) /\ Loadable(t) /\ Shown(t) = Parts(t) /\ Parts(t) \subseteq Watched
        => Fresh(t)

\* A reload never brings an older revision of a file back into a template.
Revs(t, g) == {r \in 0..MaxEdits : <<g, r>> \in templates[t].text}
NeverOlder ==
    [][\A t \in Watched, g \in Files :
         templates'[t] # templates[t] =>
           \A r \in Revs(t, g), q \in Revs(t, g)' : q >= r]_vars

\* The cascade of parents ends: once the files are left alone the watcher comes
\* to rest.
ComesToRest == <>[]Quiet
=============================================================================
