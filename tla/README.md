# goboots in TLA+

goboots is a small web framework in Go: an application registers controllers,
declares routes, puts templates in a folder and calls `App.Listen`.  This
directory specifies the parts of it that have state and run concurrently,
model-checks them with TLC and proves the most important facts about eight of them
with TLAPS.  Paths below are relative to the repository (`src/` in
`PROJECT.json`).

    tlc -workers 2 -config ConnMonitor.cfg MCConnMonitor.tla      # a run
    tlapm ConnMonitor_proofs.tla                                   # the proofs

`PROJECT.json` pairs every definition with the lines it translates, every run
with its question, every property with a slip of the code that breaks it, and
every theorem with the property it proves.  An operator of a module that no other
operator uses is such a slip (`BumpToOne` of `Bump`, `RefuseAndGoOn` of `Refuse`):
substituted for its neighbour, it makes the property fail under the same
configuration.

## 1. Inventory

| part | source | state | operations | interacts with |
|---|---|---|---|---|
| connection registry | `appMonitor.go` | path counters, entries, a mutex | Add, Remove, GetSlow, Cancel, Count, Get | every request; application code through `App.Monitor`; `routineMonitoring` |
| sessions | `core.go`, `session-db-drivers/*` | the store of the chosen driver; a `*Session` per request, shared under memory | GetSession, FlushSession, DestroySession, Cleanup | requests, the maintenance goroutine, cookies |
| router | `Router.go`, `App.AddRouteLine` | `Routes`, `Tree` | Route, Refresh, updateTree, AddRouteLine, Reverse | requests, whoever changes routes at run time |
| templates | `App.loadTemplates`, `templateutils.go` | `templateMap`, watcher | initial walk, watcher loop, includes | the file system, requests |
| start and stop | `App.Listen` ... `App.loadConfig`, `App_Routines.go` | `loadedAll`, `Router`, `mainChan`, `curSessionDb` | Listen, listen, listenTLS, loadAll, routines | all of the above |
| dispatch | `App.ServeHTTP`, `enroute`, `handleReq`, `InOut.go`, `Filter.go` | one `In` and `Out` per request | filters, PreFilter, method, Defer, Render, closers | router, sessions, templates |
| text algorithms | `i18n.go`, `jadefix.go`, `templateutils.go`, `routeParseLine` | none | | loader, router |
| caches | `cache.go` | two maps of records, a mutex each | get, set, delete, invalidate | application code |
| static files | `static.go`, `servePublicFolder` | none | | requests nothing routes |
| `goboots run` | `goboots/run.go` | child process, watcher, binary | start, stop, drain, signal | the go tool, the file system |
| rest of the command | `goboots/` | none | new, scaff, static | the file system |
| configuration, logging, generated SQL, examples | `AppConfig.go`, `logs.go`, `dbgerrors.go`, `files/bindata.go` | none over time | | |

What makes each of them right, and what is hard to test about it:

* **Registry.**  Its counters equal the open requests after any interleaving.
  Hard: readers with value receivers copy a mutex; Cancel re-enters it; ids may
  collide.
* **Sessions.**  Flushed data stays; a destroyed session stays away; ids are fresh.
  Hard: memory shares one object between requests and flushes it from a goroutine of
  its own; redis and mongo write on every read; stores fail.  Their dates are set by
  several calls, between which others come; a first connecting, a reconnecting and
  Close share fields with calls that run.
* **Router.**  The tree means what the declaration says; a table being rebuilt misses
  routes and invents none.  Hard: the tree is filled in place while requests walk it;
  errors leave half a tree, or a tree without its list.
* **Templates.**  Whatever is edited, and when, the last text is shown.  Hard: files
  change between two reads of one reload; events of files and of parents mix.
* **Start.**  Listen reports the first error and does not serve what failed to load.
  Hard: three goroutines load the same application, two of them ignoring errors.
* **Dispatch.**  One answer per request, finished streams, no leftovers.  Hard: a
  dozen returns, panics, clients that leave, a store that fails under the handler.
* **goboots run.**  One application runs, built from the last edit.  Hard: events come
  during builds, a goroutine throws some away, the tool and its prebuild command make
  events themselves, and a signal may come at any step.
* **Text.**  A line means what it says, a template keeps its text.  Hard: escapes,
  unclosed markers, ends of input.

`PROJECT.json` lists the hazards line by line, with the properties that would catch
them, or why none does.

## 2. Modules

| module | models | abstract specification | proofs |
|---|---|---|---|
| `ConnMonitor` | registry | | `ConnMonitor_proofs` |
| `SessionStore` | sessions over the four drivers | `SessionLife` | `SessionStore_proofs` |
| `SessionExpiry` | the dates of a session, call by call | the operator `Due` | `SessionExpiry_proofs` |
| `StoreConnect` | connecting, reconnecting, Close | | `StoreConnect_proofs` |
| `Router` | routes, tree, lookups | the operator `Declared` | `Router_proofs` |
| `TemplateReload` | watcher and includes | the operator `Text` | `Templates_proofs` |
| `Startup` | Listen and its goroutines | | `Dispatch_proofs` |
| `Dispatch` | a request from ServeHTTP to the closers | | `Dispatch_proofs` |
| `RunTool` | the loop of `goboots run` | | `RunTool_proofs` |
| `RouteLine` | routeParseLine | the operator `Meaning` | `Router_proofs` |
| `TemplateText` | parseTemplateIncludeDeps, LocalizeTemplate, tempJadeFix | `Included`, `Replaced`, `Within` | `Templates_proofs` |

`MC<module>` gives the constants of a module their values for TLC; `MCDispatch` and
`MCRunTool` also leave some initial states out (section 3).  `Startup` has no constants
and needs none.  `MCTexts` feeds texts to
`RouteLine` and `TemplateText`, which have no variables.

### ConnMonitor

`lock` is the mutex (its holder), `list` and `entries` are the two maps as partial
functions, `pc` is where each goroutine stands.  `Add` and `Remove` are one critical
section each, from Lock to the deferred Unlock; the waiting for the mutex is a step
of its own (`AddLock`, `RemoveLock`).  `ActiveThreads` and `ActiveConnectionPaths`
have value receivers: `CopyMaps` copies the map headers, `CopyLocker` the mutex in
whatever state it is, and the call goes on with the copy and the shared maps: it
hangs for ever on a copied held mutex, and the runtime ends the process when it
iterates a map that is being written.  `CancelFound` calls `Remove` with the mutex
held, as the code does.  `EnableAutoClose` has a value receiver and changes nothing
that is read, so `routineMonitoring`'s body never runs and has no action.

### SessionStore, SessionLife

One variable, `driver`, chooses among memory, redis, mongo and mysql; what they
differ in is in `Shared` (memory: a pointer), `Upserts` (writing creates) and
`TouchWrites` (reading writes the whole session back).  A request asks with a cookie
that was issued or with none (`Ask`), loads or fails to (`Load`, `LoadFails`), is
written back (`Touch`) or later from the goroutine of memory's GetSession
(`FlushLater`), bound to the request (`Bind`), modified, flushed, destroyed.  Data is
a set of marks, one per request that wrote.  Time is one bit per session, `old`: past
the limit of Cleanup.  A session grows old only while no request holds it: the limits
are days, requests are short.

`SessionLife` is what this promises: an id is born once, lives, and is gone for good.
Refinement maps an id to "live" while it is stored or, for drivers that create on
write, while somebody can still write it.

### SessionExpiry

ONE session of mongo, redis or mysql, the requests that present its cookie and the
clock.  `SessionStore` has one bit of time and one step per operation; here every call
of a driver is a step and may fail, and the dates are numbers: mongo's `updated`, which
a request takes from the clock when it reads and writes with every flush; the time to
live of a redis key, which SET takes away and EXPIRE, another call, gives back; and
mysql's `expires` (a flush), `shortexpires` and `shortcount` (a visit, by an UPDATE for
the count that a SELECT has read).  Cleanup of mysql is two DELETEs.  The lives (10
minutes to 5 months, 15, 30 and 60 days, the cookie's month) are constants of which
only the order the code relies on is assumed.  `FlushExpires` is GetExpires: a request
cookie never has a date, so a flush is good for 3 hours, and for none in the request
that made the session.  `Due` is what a driver owes.

### StoreConnect

The fields of one driver object: mongo's `ms` and `mdb`, redis' client (`ms`), mysql's
`dbi` (`ms`) with its mutex.  A step is one access to them with the call it is for, so
goroutines interleave between the test for nil, the assignment and the use.  A
connection is unused, open or closed, and `ready` when it is logged in (mongo), has its
address (redis) or its table (mysql).  Servers refuse freely; `refused` records those
refusals that outlast their call.  `bad` collects how calls ended that no server
refused: an error, a panic that net/http recovers, an answer from another server (a
redis client without its address uses the library's default).  `app` says whether
SetApp was called: `initAnySessionStorage` (`core.go:126`) does not.  Close works on the
fields without the mutex.

### Router

`routes` and `tree` are the two fields.  A change is a sequence of steps: the list
is changed, `Swap` puts an EMPTY tree in place, `AddOwn` and `AddHead` put leaves
in, one step each, until the last or the first that is taken.  The tree of
`github.com/robfig/pathtree` is external: a sequence of leaves of which the first
match wins and in which wildcard elements coincide.  A client fetches the tree
(`Fetch`), possibly the one that is about to be replaced, walks it (`Visit`, a step per
branch: the literal element before the variable one, first for the method and then for
the path), keeps the leaf of the lowest order it has met, and returns it (`Answer`).
Leaves may be added behind a walk and ahead of it; `began` is the number there were
when it began.  `Find` is the same search made at one moment.  Lines are parsed already and
are "404", "call" or "broken" (what validateRoute refuses and AddRouteLine does
not).  `Declared` is the meaning of a list of lines independently of trees.

### TemplateReload

A text says what it includes and whether it parses; an edit gives a file a text and a
new revision and posts an event.  The watcher reads a file and its partials one after
the other (`Read`), files changing in between, then stores the set of revisions read
and the partials (`Store`), and sends itself an event per parent from goroutines
(`resends`, received in any order), or drops what does not parse (`Reject`).
`AbsoluteNames` says whether the events name files by absolute paths, as partials
included as `/x` are listed.  What a template includes (`Reached`) is a recursive
function of the depth (`Spread` adds one level), with as many levels as there are
includes; it is used by the first state and by the properties only.

### Startup

Listen, listen and listenTLS run loadAll step by step; each step that can fail may.
A storage chosen by initAnySessionStorage may be "appless": Close of mysql's is then a
nil dereference at the end of Listen.
`mainChan` is the channel with its capacity.  `crashed` is the end of the process by a
concurrent map write or a nil session store.  A server binds and runs or returns an
error (`Stop`).

### Dispatch

`req` is what a request asks and meets: method, websocket upgrade, gzip, how it is
routed, redirect to TLS.  Every return of enroute and handleReq is an action.  What the
application does is free: filters, PreFilter, methods, deferred functions and templates
may use the session, register functions, make a second In or panic.  The functions of
BeforeOutput run after an Out has taken the deferred functions, so they are what the
application does at "made".  `apart` says that In.New made an In before in.session was
set: that In gets the session by itself, and handleReq, which looks at its own, clears
no Flash.  `wrote` is the sequence of parts of the framework that answered; `ran` counts
the functions of In.Defer that ran; `early` records that handleReq was left before it
cleared the Flash.  `driver` is the storage of sessions: under "memory" the requests
share a session and its Flash; under a "database" each has a Session of its own, and the
driver may fail to make it.  GetSession then writes a 500 and returns nil
(`core.go:402`), and the application goes on (`NoSession`) or, for an Out of a template,
panics on the nil (`OutWithoutSession`, `InOut.go:272`).

### RunTool

`pc` is where runApp stands between the lines of start (remove the old binary, run the
-prebuild command, build, make the command, start it), the select loop and stop (kill,
wait, sleep).  `cm` is the command with its process, which may be missing (the build
failed) or dead; `orphans` would hold processes that are still alive when `cm` is
replaced.  `events` is the watcher's queue: edits, files the application (`noisy`) or
the prebuild command (`generates`) writes, and what the tool does to its own binary.
`EditEvents` are the events of an edit, of which the loop takes Write and Create and
drops the others (`run.go:239`); `announced` is the last revision whose edit made one it
takes.  Without a go tool (`BuildWontStart`) nothing is built and there is no command.
Each restart starts a drain, which takes events from the queue until it ends.  `late`
records that a drain was still there when a start began: 1100 turns of at least a
millisecond take 1100 ms on paper and longer where a timer is coarse.  The signal
goroutine looks at `cm`, looks at it again to kill, removes the binary and exits, one
step each.  Revisions stand for the sources; some do not compile.  The flag `ok` that
stop polls without synchronisation is read again in every turn of the loop, as the sleep
in it makes the build do.

### RouteLine, TemplateText, MCTexts

The scanners are the code's, rune by rune, as recursive functions of the position, which
can be proved about; `routeParseLine` has one function per stage.  Beside them stands
what they are meant to do, put without the scanner's state: `Meaning` cuts a line into
words, `Replaced` finds markers, `Within` asks which delimiter came last, `Included` is
the text as line 13 of `templateutils.go` documents directives: each partial in the
place of its directive, or in a definition before the text whose name is closed as it
was opened.  The code writes that name without its closing quote (lines 58 and 93),
which is `IncludedUnquoted`; `IncludesAreRead` says that this is what it writes and that
it is what is documented exactly when no partial is named (`Defines`).  Runes that play
no part are one rune, `x`; whole method names and the word TLS are one rune each.

## 3. Runs

| run | bounds | states | question |
|---|---|---|---|
| `registry` | 2 requests, 1 observer, 2 paths, 2 ids that may collide, counters up to 2, `FairSpec` | 96 k | safety of the registry, who gets through |
| `cancel` (violation) | as above | | Cancel waits for itself |
| `sessions` | 2 requests, 2 ids, 1 pending flush, 4 drivers | 2.3 M | data, destruction, identity, refinement |
| `expiry` | 2 requests, 3 drivers, lives of 0 to 4 units, a cookie of 3, `FairSpec` | 903 k | how long a session is kept, and that it goes |
| `connect` | 2 requests and the maintenance, 3 connections, 3 drivers, symmetry | 164 k | which calls fail, what ends the process, lost connections |
| `routes` | 1 client, 4 lines, 4 files of up to 3 lines, lines added up to a list of 2 | 3.4 M | the table while it changes |
| `templates` | 4 files, 3 edits, `FairSpec` | 220 k | no update lost, none undone, rest |
| `templates_parents` (violation) | relative names | | parents of rooted partials |
| `startup` | no constants, `FairListenSpec` | 18 k | Listen |
| `dispatch` | 2 requests of 9 kinds, 1 deferred function each, 1 failure to make a session, symmetry | 6.1 M | a request, whole |
| `runtool` | 2 edits, 2 drains, 1 file of the application or of the prebuild command in the queue, `MCSpec` | 4.9 M | goboots run |
| `texts` | 5 runes after 6 beginnings of a line; templates of 10 runes (3 different) and 8 (4 different); 7 runes (5 different) after 3 beginnings with includes | 1.5 M | text algorithms |

The type invariants are theorems (section 4) and stand in no configuration, but for
`Startup`'s, which says that `mainChan` has room for everyone who sends.

Why the bounds are enough.  The registry has one mutex: two requests and a reader show
each pair of critical sections in each order, and a collision of ids needs two.
Interference over a session needs two requests; a second id shows that a new session
does not disturb the first.  In `SessionExpiry` two requests show a read, count or stamp
that is stale when it is written; the lives are the smallest numbers in the order of the
real ones, so each date can pass before, together with or after each other, and the
clock stops when all have passed.  In `StoreConnect` two requests race to connect, the
maintenance, whose panic ends the process, is the third, and three connections are one
each, or a lost one, one that is closed and its successor.  The wrong orders of a table
need a duplicate, a wildcard before and after a literal, a GET with its HEAD and a
broken line, which the four lines are; clients do not affect each other, so one is
enough, and a walk that a rebuilding overlaps needs one leaf behind it and one ahead.
In `RunTool` one edit comes during a build and the next during the restart it
causes, and a second drain shows one that overlaps a start; `MCSpec` begins with at most
one of an application that writes, a prebuild command that writes and a go tool that
copies, each of which is enough for a restart without an edit.  Five runes take each stage
of the line scanner from its first rune into the next stage; ten hold two markers, a key
and a stray rune on each side; seven behind a directive hold another and the bytes that
decide whether it is read.  Three edits make a chain (a partial, its parent, the partial
again) across a depth of two includes.  Two requests share a Flash; with a
database they share nothing, so `MCDispatch` lets at most one of them past enroute.  In
`Dispatch` one failure to make a session before the answer shows the second answer; a
deferred function is registered before the Out, so it must run, or after it, so it must
not.

All configurations switch deadlock checking off: a wedged registry, a process that
ended, a file bound that is used up and a finished request are states in which the
system really stops, or the bound does.

**Fairness.**  `ConnMonitor`: goroutines are scheduled (weak), and a goroutine that
waits for a `sync.Mutex` gets it if it is free again and again (strong): Go's mutex
hands itself to the oldest waiter after a millisecond.  Handlers need not return and
nobody need arrive.  `SessionExpiry`: time passes (strong, as it waits for calls
under way), the maintenance comes (weak), calls return and handlers end.
`TemplateReload`: the watcher runs (weak), and every sender to
its channel gets a turn (strong: Go queues senders first in, first out, and `select`
has one case).  Editors owe nothing.  `Startup`: goroutines run; servers need not
stop.  `RunTool`: goroutines run, prebuild commands and builds end, a killed process
dies; nobody need edit, write or signal.

### What the runs found

* `cancel`: `connectionPaths.Cancel` (`appMonitor.go:146`) calls `Remove` with the mutex
  held; the caller waits for itself and every later request waits behind it.  It
  needs a call of `App.Monitor.Cancel` by the application, because `EnableAutoClose`
  (`appMonitor.go:198`) does not enable anything.
* `templates_parents`: with a views folder such as `view`, an update of a partial that
  is included as `/x` does not reload its parent (`App.go:759`,
  `templateutils.go:69`), against `CHANGELOG.md:7`.
* `connect` and `expiry` have no violation, because their properties name what happens:
  a login of mongo that is refused once is never tried again, and every later call
  fails (`sessmgo/sess.go:95`); first calls that connect at once use each other's half
  made connection, and redis answers one from the default server (`sessredis/sess.go:21`);
  a failed ping closes the db under other calls (`sessmysql/sess.go:42`); a session that
  is read daily and never flushed is deleted after 15 days (`sessmysql/sess.go:218`); a
  redis key whose EXPIRE failed stays for ever (`sessredis/sess.go:52`).
* `NoController` in `Dispatch`: a route to an unregistered controller ends the process
  (`App.go:932`, Fatalf) although the comment above and the code below mean a 501.
* `texts` has no violation, because its properties name what is wrong: a template whose
  last three runes open a key makes `LocalizeTemplate` read beyond its end and panic
  (`i18n.go:46`), in the loader or in the watcher's goroutine; a `%` just before the
  last rune is lost and that rune doubled (`i18n.go:33`); an include directive that
  ends the template is taken as text when it is shorter than 14 bytes
  (`templateutils.go:33`), an empty one panics (line 56), and a partial with a name,
  which line 13 documents as `{{partial "NAME" /path}}`, is written as
  `{{define "NAME}}`, without the closing quote (lines 58 and 93), so that no template
  with a named partial parses: `IncludesAreRead` has the documented text and the written
  one side by side, and they are equal only where there is no name; an unknown word at the end
  of a line is refused, but not after arguments (`Router.go:495` returns what
  `Router.go:405` set); `Action()` is refused, since the first rune after the
  parenthesis is taken as an argument (`Router.go:377`).
* `runtool` likewise: a signal during a restart may leave the application, the binary,
  or both, or panic; with a tool chain that copies its result, or an application or a
  -prebuild command (`run.go:164`, run by every start) that writes into a watched
  directory, it restarts for ever; a source that is removed or renamed makes an event
  that `run.go:239` drops, so the change waits for the next edit; directories made after
  the start are never watched (`run.go:242` waits for a name that ends in a separator).
* `dispatch` likewise: when a database driver cannot make a session, GetSession answers
  the request with a 500 and returns nil (`core.go:402`); nothing tells In.Session's
  caller so, and the request is answered once more, or the template's panic ends it.
* `routes` likewise: a lookup overlapped by a rebuilding can miss a literal line, take the
  leaf of a later wildcard line that was put in meanwhile, and so be routed where no
  finished tree would route it (`Router.go:185`); nothing but a leaf added after it began
  can be wrong.

What holds only within limits is in the properties themselves: flushed data of redis and
mongo is lost when two requests hold a session; redis and memory may bring a destroyed
session back; a request that leaves early, or whose session is only in an In that New
made, leaves its Flash to the next; a lookup in a table that is being rebuilt may find
no route, or a later line; after a failed load the servers may serve, until Listen has
reported it.

## 4. Proofs

Eight modules `*_proofs` are checked by TLAPS for every value of the constants under
the ASSUMEs of the modules they are about: disjoint sets of actors, finite where they
are counted; `None`, `Nil`, `Gone` outside the sets they are added to; bounds and lives
are numbers, in the order the code relies on.  Each has `TypeCorrect` and then, with an
invariant `IInv` that the steps preserve one by one, the properties of its run.

**ConnMonitor.**  `MutualExclusion` is inductive given types.  `RegistryExact` is not:
it needs that an open request has an id and a path, that ids of open requests differ
and that no other request has one, all while nothing collided; and, since counters are
cardinalities, lemmas about the cardinality of the set of open requests when one joins
or leaves.  `ListCovers` holds even after collisions, where exactness fails: Remove
drops the counter of the path in the entry it deletes, so a path loses a count only
with an entry.  `CountIsLinearizable` adds that during a call `seen` contains the
present number of open requests, and combines it with `RegistryExact`.

**SessionStore.**  The types carry that nothing is stored, held or pending under an id
that was not issued.  For `FlushedIsKept` the invariant also speaks of private copies:
until two requests have held a session at once, the copy of its holder contains what
was flushed.  `DestroyedIsAway` needs that a destroyed session that is not overlapped
has no holder left.  `RefinesLife` shows that every step of the four drivers is a step
of `SessionLife` or changes no status, from the same invariants.

**SessionExpiry.**  `SessionsAreKept` speaks of the step in which a session goes; the
invariant relates, per driver, the dates in the store to the history they stand for:
mongo's `updated` is no older than the last visit, a redis key with a time to live has
at least what the last read gave it, mysql's `expires` covers the last flush and, up to
the fourth visit, `shortexpires` the last visit.  Two parts are about requests under
way: the time stamp a mongo request will write, and the mysql request that has read the
count at its end and prolongs nothing.  All but `expires` hold until a call failed, and
those of mongo until requests overlapped.

**StoreConnect.**  Each driver has an invariant of its own.  mysql's rests on its mutex:
whoever is in db() holds it, so what it has checked stays, until a Close, which takes no
mutex, begins.  Those of mongo and redis hold until a call ran beside one that connects
(`raced`), and say what is relied on by a call that reads a field again which it has
checked before.  `CallsOnlyFailWhen` and `ProcessSurvivesAlways` follow per driver;
`NoneLost` needs besides that the only open connection is the one in the field.

**Router.**  The tree is compared with the list of routes line by line.  For every
request, what the half-filled tree finds is what the lines put in so far declare
(`Prefix`), the accepting line with the least number; least elements of sets of numbers
come from the well-foundedness of `<`.  A leaf that is put in answers only what no
earlier leaf answers (`FindAppend`, `PrefixGrows`).  `NothingMisrouted` and
`TreeIsDeclaration` are the two ends of it.  `AnswersStayRight`: a client that walks the
present tree asked when the present table was declared, and a tree that was replaced
changes no more.  The invariant of a walk says that the leaf it holds is the first of
the branches it has passed among the leaves there were when it began, unless a leaf
added since comes before; leaves are only added at the end, so at the end of a walk over
a complete tree that leaf is the first match, and otherwise whatever is wrong about it
was added since.  For `LinesStay`
a line has one or two slots (its own method, HEAD beside GET); filling stops for good at
the first slot whose node another has taken, so the invariant says which slots are
`KeptSlots` and where the current one stands among them.  `RefreshIsTheCure`: a list holds a
line that is not valid only if AddRouteLine put it there, and Refresh reads every line
again.

**RouteLine.**  `LinesRead` is the run's `LinesAreRead` for lines of any length; it rests
on `LinesAreExact`.  The scanner's loop is a recursive function, of which there is first
shown that it exists (`ScansExist`), and then what its state is at each position.  A
stage waits for its word (`Waits`) or is within it (`Reads`), and then its buffer is the
part of the line since the word began (`WordIsRead`).  The stages are followed from the
last to the first: what the scanner makes of the rest of a line, when it begins a stage
with nothing left open, is what that rest means (`ParameterIsRead`, `ArgsAreRead`,
`ActionIsRead`, `PathIsRead`, `MethodIsRead`).  The stage of the arguments is the hard
one, for it copies quotes, parentheses and backslashes into its buffer and has only a
flag and a counter to tell what ends them.  `ArgState` says what these stand for: the
flag, that an odd number of unescaped quotes came before; the counter, how many
backslashes came last; the buffer, the runes so far but the blanks outside strings.
Outside strings the counter is zero.
Up to the end of the arguments this holds, or a rune was misplaced and the line is
refused (`ArgProgress`).  `Means` says what later stages need of it: `found` is set when
there were arguments and not otherwise, so that the last return of the function, which
gives `found` as it stands, accepts an unknown last word after arguments only.

**TemplateReload.**  `ReloadsGoForward`: no entry is newer than the disk, and what the
reload under way has read is not older than the entry it will replace, because one
goroutine reloads.  Edits change a file only to a later revision.

`PartialsReachParents` (no update is lost) assumes `AbsoluteNames`; without it the
property is false.  Its invariant `FInv` gives every entry that is behind its files a
reload to come: an event waits, in the queue or in a goroutine, for one of the files
it is made of, or the reload under way is of such a file, has met only texts that
parse and has nothing left to read but what its file includes, so it will be stored.
Then it sends an event to every entry that lists it, and `Lists` says that an entry
lists all files it is made of but its own.  `ReadsCurrent` is the other half: what the
reload has read is what is on the disk, unless an event for it waits or the file is
gone.  The watched file is not behind after it was stored for that reason.

These steps speak of what a template includes at any depth, and `Reached` is recursive.
`ReachedIsExact` takes its place: what a template reaches is the least set that
contains it and the partials of its members.  An induction over the levels shows that
a level is closed or has more members than its number, so the last one, whose number
is that of all includes, is closed.  The texts may include each other here, which the
code does not survive: the theorem covers more than the code does.

**TemplateText.**  `TextsKept` is the run's `TemplatesKeepTheirText` for texts of any
length; it rests on `JadeIsFixed` and `LocalizedRight`, which hold for texts over any set
of runes (`LocalizedRight` keeps the model's mark of a panic out of it).  Both functions
are recursive, so that each needs a proof that it exists: value by value for
`tempJadeFix`, and for `LocalizeTemplate` from the end of the text backwards, because what
it writes at a position needs what it writes behind it.  `tempJadeFix` counts a depth that
may go below zero or above one; where delimiters alternate it is one within an action and
zero outside (`DepthIsWithin`).  For `LocalizeTemplate` the induction runs from the end of
the text too and holds what is written from a position on beside what is meant from there
on (`Right`): the two differ only behind an open marker and at a % before a last rune.

`IncludesRead` is the run's `IncludesAreRead` for texts of any length; it rests on
`IncludesAreExact`, which holds for texts over any runes.  The loops of
`parseTemplateIncludeDeps` keep four things: where they are in a directive, its body so
far and two buffers.  The induction runs over positions from the end of the text
backwards: whatever the buffers hold when the loops begin a position outside directives,
what is returned is that with the definitions and the text that are meant from there on
in their places, or the first thing that is wrong from there on (`Agree`).  What is
meant is first put in the code's own words of where a body is cut (`ReadFrom`), which
`IncludedIs` shows to be `IncludedUnquoted`.  Through a directive the loops are followed
turn by turn up to its first brace, with the body they have read so far equal to the
part of the text between; that the body is empty when a directive begins is part of
`Agree`, and what `Reset` is for.  `NamesAreNotClosed` compares the written with the
documented text (`Apart`): both are wrong at the same directive or at none, the text
around the definitions is the same, and there are definitions in both or in neither, the
first of which differ in the quote.

**Dispatch.**  The properties speak of requests that have written or are over; the
invariant adds what is so before: until the place that writes and leaves nothing is
written but the 500s of a database driver (`Quiet`, `Told`), no deferred function runs before there is an Out, a gzip writer is put in place
by a filter and taken away by the closers, and only the application's code, which made
the session first or uses an In apart, puts something in the Flash.

**Startup.**  The module has no constants, so TLC's run visits every state there is; the
proofs say why no state is bad.  The invariant follows Listen's own load place by place
(`Loads`): once it is over without an error, what the goroutines read is set and their
loads end at the first test, so neither fills the template map beside the other.
A failed load is the first message, stays at the head of `mainChan` while the servers
append theirs, and is what Listen returns (`Reports`); no goroutine is there before
Listen waits (`Stands`).  `Startup` names its specification `ListenSpec`, so that
`Dispatch_proofs` can extend it beside `Dispatch`.

**RunTool.**  `OnlyTheLastBuild` needs that nothing is alive between stop and the next
cm.Start, and that the file is the last build's or missing from the build on.
`ExitIsClean` needs that runApp gets no further than its sleep after a signal in the
loop, which is the assumption on durations.  `EditsAreBuilt`: while no drain was late,
drains run during the sleep only, and an announced edit is built, or a restart is
before its build, or an event that restarts is in the queue; a start that found no go
tool leaves no command, which the property excepts until the next one.

Only model-checked:

* liveness under fairness, which is out of the prover's reach: `RequestsPass`, `ReadersReturn`,
  `AbandonedSessionsGo`, `ComesToRest`, `ErrorsEndListen`, `ServesOrSaysWhy`,
  `SettlesDown`.  Every invariant and every action property that a passing run checks
  is a theorem.

## 5. Not modelled

* The watcher's writes to `templateMap` beside requests that read it (`App.go:753`), and
  the iteration under a private mutex of `appMonitor.go:186`: unlocked Go maps, where
  what can go wrong is that the runtime ends the process.  Where more depends on it
  (`GetDuringWrite`, `LoadViewsTwice`) there is an action.
* The byte and generic caches: only the application's own code calls them.  A mutex
  guards the map in each method and nothing guards the fields of a record that a method
  has returned; there is no protocol between the methods to check.
* Text: the splitting of a routes file into lines, Reverse with its captured parameters;
  several languages of a template.
* Functions deferred with an In that In.New made: its Outs take none here.
* Static files, redirect addresses, cookies, languages, configuration: sequential I/O
  or pure functions without state.  The `goboots` command except `run`.

## 6. Plan

Written first were the modules whose state is shared by goroutines (`ConnMonitor`,
`SessionStore`, `Router`, `TemplateReload`), then the request and the process around
them (`Dispatch`, `Startup`, `RunTool`), then what the drivers do call by call
(`SessionExpiry`, `StoreConnect`); each with its proofs after TLC had agreed.  Left, in
this order:

1. the composition of `Dispatch` with `SessionStore`: whose Flash is cleared when two
   requests of one session overlap (`App.go:1064`);
2. several languages: an entry of the template map per language, and the lookups that
   fall back to another;
3. Reverse, as the inverse of a lookup.

New questions join the existing runs where they can.
