# nmux in TLA+

nmux is a terminal multiplexer written in Rust: a daemon owns sessions of tabs
and panes, runs a process in every pane, keeps the terminal state of each, and
serves it to clients that attach, show it, type into it and change it. This
directory models the parts of nmux whose correctness depends on the order in
which things happen, checks them with TLC on small instances, and proves the
most important properties with TLAPS for all values of the constants.

Paths below are relative to the repository; `session.rs`, `host.rs` and
`terminal.rs` are in `crates/nmux-core/src`; `local.rs`, `daemon.rs`, `socket.rs`,
`speculative_echo.rs`, `local/control.rs`, `local/async_live.rs`,
`local/client_state.rs`, `local/surface.rs` and `bin/nmux.rs` in
`crates/nmux-cli/src`.

1. [The system](#1-the-system)
2. [The modules and the code](#2-the-modules-and-the-code)
3. [The runs](#3-the-runs)
4. [Bounds](#4-bounds)
5. [Fairness](#5-fairness)
6. [The proofs](#6-the-proofs)
7. [Where the code and its documents disagree](#7-where-the-code-and-its-documents-disagree)
8. [What is not modelled](#8-what-is-not-modelled)
9. [The plan](#9-the-plan)

## 1. The system

### Components

**Session actor** (`session.rs`: `Session`, `SessionCore`, `SessionActor`).
State: the workspace tree (tabs, in each a tree of panes whose leaves have a
terminal), its version, the active tab and pane, a surface version per pane, a
scheduler with one queue per lane, a trace of accepted events. Operations:
accept an event and reduce it (`apply_accepted`): add, switch, close a tab,
split or resize a pane, take output. It must keep names and panes distinct,
always have an active pane, move its version with every change, and be
rebuilt by a replay of its trace.

**Surfaces and patches** (`session.rs`: `apply_terminal_update`; `surface.rs`).
State: what a pane shows and what changed last. Every update of the terminal
engine raises the surface version and leaves a patch kind, the rows touched and
a palette difference; frames are built later from those. A client that applies
a patch must show what the daemon has.

**Surface delivery** (`local.rs`, `async_live.rs`, `client_state.rs`). State:
per client the versions it is known to have, a latest-value slot for changed
surfaces with a byte budget, a bounded queue for frames that must not be lost,
a write task; at the other end a cache that outlives the connection. Versions
may be skipped, but no client may be stuck behind, or shown something it cannot
tell is wrong.

**Live serve loop** (`serve_live_concurrent_n_with_session_actor`). One thread
that polls, accepts, drains the input of attached clients, fits panes to the
smallest viewport, removes clients that left, keeps a versioned client
inventory, and publishes. One client's trouble must not be another's.

**Control commands** (`control.rs`). Split a pane, open, close, switch a tab,
make or kill a session. Each talks to two owners of state, the process host and
the actor, and has to undo the first when the second refuses.

**Process host** (`host.rs`, `ScopedLocalPtyHost` in `daemon.rs`). State: per
pane a process, its PTY and the output a reader thread sent. Processes exit on
their own and are noticed later.

**Registry and daemon loop** (`daemon.rs`). State: actors by session name. It
serves connections one at a time, or hands the default session to the live
loop; a kill ends the daemon.

**Output pump** (`host.rs`, `local.rs`). Per pane a reader thread takes output from
the PTY, sends it over a channel and writes a byte to a pipe that all panes share;
the loop waits for the pipe, empties it, and hands what the channels hold to the
terminals. No wake-up may be lost, no byte be lost, doubled or moved.

**Terminal engines** (`terminal.rs`). State: a libghostty terminal per pane id. A
chunk of output is fed to it, and what the pane is to show is read back: screen,
colors, and a history that is not read but carried on from the pane's own copy.

**Client** (`bin/nmux.rs`, `client_state.rs`, `speculative_echo.rs`). A select
loop over socket, keyboard and timers, caches of surfaces, scrollback and
inventory, guesses of echoes, and a state file shared by invocations. What is on
the screen must be the daemon's, or a guess that can still come true.

**Default daemon start-up** (`bin/nmux.rs`, `socket.rs`). A client probes the
daemon behind a socket, replaces it when it is not healthy, and starts one.

### How they interact

    client loop --frames--> read task --mpsc--> live loop --calls--> actor
         ^                                        |    |               |
         |                                        |    +--calls--> process host <-- pump threads
         +--frames-- write task <--watch + mpsc---+
    control client --one connection--> registry / live loop --> control.rs --> host, then actor

The live loop and the actor share a thread, so an event is reduced between two
steps of the loop. The write task, the read task, the pump threads, the
processes and the clients run beside it. The loop and a write task share a
`watch` channel (latest value) and an `mpsc` channel (reliable, bounded).

### What is hard

- Signals overwrite each other while a write task is in the middle of a set of
  them, and a patch only applies to the version right before it.
- What a client is *signalled*, what it was *written* and what it *has* are
  three sets of versions, in three places.
- Names of panes are reused, caches and processes are keyed by them.
- Commands change two owners of state and can fail between.
- Clients leave in every step of an iteration, and their departure changes
  sizes, inventory and the list the loop is walking through.
- The loop's wake-up pipe is emptied in five places, each of which must look at
  the panes afterwards.
- A client waits for scrollback while updates, trees and answers to pings arrive
  on the same connection; a tab switch is answered on another one.
- Copies are carried on rather than read again: the pane's history, the client's
  surfaces, the style table.
- Errors of one client, one process or one pane travel up the same `?` as
  errors of the loop.

`PROJECT.json` lists every such hazard at its line, with the properties that
cover it or the reason why none does.

## 2. The modules and the code

| module | models | composed with |
|---|---|---|
| `SurfaceDelivery` | from a changed surface to the client's cache | implements `SurfaceCache` |
| `SurfaceCache` | what delivery promises, without how | |
| `SurfacePatch` | from an engine's update to a patched copy | |
| `LiveServe` | iterations of the live serve loop | |
| `SessionTree` | the workspace tree and its reducer, as operators | extended by `Sessions` |
| `Sessions` | registry, control commands, process host, attach, probe | `MCSessions` gives it names |
| `DaemonStartup` | bare `nmux`: probe, replace, start, bind, attach, clean up | |
| `OutputPump` | reader threads, wake-up pipe, and the loop that reads | implements `OutputStream` |
| `OutputStream` | what the way from process to terminal promises | |
| `TerminalExtraction` | from a terminal to a pane's surface and scrollback | |
| `SpeculativeEcho` | guesses of echoes, as operators | extended by `LiveClient` |
| `LiveClient` | the live client loop, with a daemon to talk to | `MCLiveClient` gives it scenarios |
| `*_proofs` | the theorems | extend the module they are about |

**`SurfaceDelivery`.** `panes` is the session's pane table reduced to a
surface version, the kind of the last patch and a generation that counts how
often the id was made (history, the code has none). A pass of the loop is
`StartRound` (which leaves differ from `known_surface_versions`) and one
`SignalSurface(p)` for each; `SendSignals` is `enforce_surface_budget` with its
two checks. `unseen` is the changed flag of the `watch` channel. `TakeSignals`
and `WriteSurface(p)` are the write task: it copies the set, and for each pane
decides between patch and snapshot from its own `written` versions.
`ReceiveFrame` is the client's cache, `Attach` the daemon's choice between
*current*, patch and snapshot from the versions a client claims to have, and
`Detach` the end of a connection at any point, with what was on its way. What a
surface shows is the terminal it belongs to (session, id, generation).

**`SurfacePatch`.** Thirteen fields are grouped into seven properties that
`terminal_patch_kind` treats alike. `ApplyUpdate` is `apply_terminal_update`,
including what it forgets; `PatchFrame`, `Acceptable` and `Patched` are the two
ends of a patch. `previous` is history: the surface one version ago.

**`LiveServe`.** `at` is the place in the iteration; each action is the body of
one step of the loop for one client or one pane, since write tasks, clients and
processes may act between any two. `Poll` fixes who is drained before anyone is
accepted, `Accept` and `SendSnapshot` are the two halves of a join, `DrainFrame`
takes one frame, `Fit(p)` is viewport arbitration, and `RemoveClosed`,
`UpdateInventory`, `Publish`, `EndIteration` are the rest in the code's order. A
full reliable queue is an error of the loop (`Post`), a closed one is not.
`Environment` selects the hostile happenings a run allows.

**`SessionTree` and `Sessions`.** An identifier is the sequence of the parts
that the code joins with `-`, so names clash in the model exactly when they
clash in the code. A tab's pane tree is flattened to its leaves in order and a
size for every pane, containers included. A control command is one action: it
is served to its end on the daemon's only thread. Its disjuncts are the code's
early returns, the start that fails, and the start that is rolled back because
the actor refused. `processes` is what the *host believes*: "gone" is a process
that exited and has not been looked at. `replicas` is the result of replaying
the trace, which events reach and `SwitchTab` of an attach does not.

**`DaemonStartup`.** `pc` is where a launcher is in `run_default`: the two tests
for the path, the probe, the three calls of `replace_default_daemon_socket`
("kill", "unlink") each before one of three starts (`place`), the wait for a
socket ("appear"), for an attach ("attach"), and the session ("live",
"attached"). A daemon goes from "starting" over "bound" to "serving", and from
"exiting" over the comparison of identities ("owns") to "down". File system
calls are steps of their own. One pair is not: `bind` and the identity taken
right after it (`daemon.rs:74-81`) are one step, so identity is the daemon
itself. `Refused` and `Closed` are the connect that runs into its deadline and
the stream that ends; deadlines that expire although a daemon is there are
mishaps. After the comparison the listener counts as dropped.

**`OutputPump`.** A byte travels from `tty` over `channel`, `pending` and `handoff`
to `shown`. `pump` is where a reader thread is: sending the bytes and writing to
the pipe are two steps, and between them the loop may do anything. `at` is the
place in the loop's iteration, `then` what follows a pass over the panes, since
the same pass serves the loop itself, an attach and a probe that wait for quiet,
and the wait after input. `discarded` is history: an attach emptied the pipe after
its last look at the panes, and no pass has followed.

**`TerminalExtraction`.** `term` is libghostty's terminal, external, by what nmux
asks of it: two screens, the history of the main one, the cursor's row, the
palette. A chunk is spelled out in pieces (`Write`, `LineFeed`, `EraseHistory`, ...)
and ended by `Extract`, which is `extract_update` followed by the part of
`apply_terminal_update` that stores rows, styles and scrollback; each piece knows
what `vt_output_may_change_rows` makes of it. A line is one run with one style.
Three histories say how far the code's short cuts hold: `lag`, what the main
screen did since its rows were last stored; `unnoticed`, that the screen changed
and no chunk said so; and `marks`, why the scrollback cannot be right any more.
`ClosePane` and `OpenPane` make the pane id anew over the old engine.

**`SpeculativeEcho` and `LiveClient`.** The first is `SpeculativeEchoOverlay`, value
by value: `Predicted` and `Reconciled` take their decisions in the code's order.
The second is `run_live`: `at` goes from the scrollback of the attach over the
loop of the first resize and the updates put aside ("settle") to the select loop.
`fetch` is a request for scrollback, first a probe for the number of lines, then a
range, then the application of what came in between; a client that fetches reads
nothing else. `cache`, `text`, `views` and `shown` are the four copies of a screen
that the code keeps. `sent` and `wire` are the two directions of the connection;
`SwitchTab` uses a connection of its own, so that its answer overtakes the `wire`.
The daemon's half is what the client can tell of it: the handlers of the frames it
sends, the surfaces that processes write, other clients that resize, switch and
close. `marks` is history: a key was swallowed, an update was overtaken, the focus
strayed from the pane that is shown.

## 3. The runs

| run | question | result |
|---|---|---|
| `surface_delivery` | Can reused ids, reattachment, a small byte budget and a busy write task make a client reject a frame, or leave daemon and cache in disagreement? | No: `NeverRejected`, `QuiescentAgreement`, `SurfaceBudgetKept` |
| `surface_delivery_live` | Does a client that stays attached catch up, and is delivery a cache that only moves forward? | Yes: `EventuallyInSync`, `CacheOnlyMovesForward` |
| `surface_patch` | Does a client that reached a version show it? | Yes, up to the palette: `PatchedIsCurrent`, `RefusedOnlyForPalette` |
| `live_serve` | Joins, departures, resizes and input in any order: inventory, sizes, end of connections, life of the loop? | Hold: `InventoryNeverMissed`, `SmallestWins`, `ServesUntilShutdown`, `EventuallyGone` |
| `live_serve_failures` | With early closes, exits, closed tabs, rejected attaches and queues of two frames, is the inventory still right until the loop ends? | Yes: `InventoryAgrees` |
| `sessions` | Any sequence of commands, attaches, probes and resizes with one exit, failed start or failed stop anywhere: do host, trace and tree stay in step, and does a command leave other sessions alone? | Yes: `HostMatchesTree`, `TraceReplays`, `NextPaneIsFree`, `KillStopsDefault`, `RefusalsChangeNothing`, `VersionMovesWithTree`, `OnlyTheNamedSession` |
| `daemon_startup` | Two launchers at once, finding nothing, a broken daemon or a stale socket, with one mishap: do they share a daemon, recover, come to an end? | `Shared` without a mishap, `Recovered` alone, `EventuallySettled` always |
| `output_pump` | Two panes write, exit, are opened and closed while clients attach, probe and type: is output shown, in order, without help? | Yes, but for a wake-up an attach discarded: `InOrder`, `WakeUpPending`, `ShownUnlessDiscarded`, `CloseReturns` |
| `output_lost_wakeup` | Is all output shown in the end? | No (item 22): `AllShown` is violated |
| `live_client` | Keys, paging, focus, tabs, pings and resizes among output and other clients: is the screen true? | Yes, with the exceptions the marks name: `ScreenIsTrue`, `GuessFits`, `QuietScreen`, `PatchesFit`, `OneFetch`, `ScrollReturns` |
| `terminal_extraction` | Text, line feeds, erasures, colors and both screens, in chunks of any length, on a pane id that is used twice: is what the pane shows the terminal's? | Yes, with the exceptions the histories name: `SurfaceIsScreen`, `ScrollbackIsHistory`, `AlternateKeepsScrollback` |
| `terminal_history` | Does the scrollback's version move when lines leave the screen? | No (item 24): `HistoryMovesVersion` is violated |

Every property of the passing runs has a mutant in `PROJECT.json`: an operator
next to the one it replaces, named after it with a suffix, that makes the
mistake the property is there to catch.

## 4. Bounds

- *Two panes, one session, versions to 3, ids made twice, two attaches*
  (`surface_delivery`). A signal that overwrites another needs two versions of
  one pane, a batch that is overtaken needs two panes, a reused id needs two
  generations, a stale cache needs a second attach; version 3 is the first that
  can be reached both by a chain of patches and by a skip. `SnapshotBytes`,
  `PatchBytes` and `SurfaceByteCap` are chosen so that each outcome of the
  budget occurs: it fits, it fits once degraded, it does not fit. In the
  liveness run the cap admits both snapshots (`daemon` stays "serving") and ids
  are not reused, the case the abstract cache speaks of.
- *A pane of two rows, versions to 3, two changed properties per update*
  (`surface_patch`). One change reaches every patch kind but the full refresh of
  rows with colors; two reach it. Version 3 lets a client be two behind.
- *Two clients, one or two panes, two connections, at most two frames*
  (`live_serve*`). A join needs a client that is there already, a departure one
  that stays; that smallest viewport wins needs two viewports of different
  sizes. `ReliableCap = 9` never fills with so few frames, `2` does.
- *Two sessions, versions of all trees together to 7, one mishap*
  (`sessions`). Opening a tab takes two versions, everything else one, so seven
  is a split, a tab with a split in it and a close, in every order; one mishap
  is enough for each way a command can fail half way, and its consequences are
  explored to the end. Larger instances were explored by hand with the same
  result: one session in live mode to version 8 with two mishaps (1.5 million
  states), and two sessions to version 6 with three mishaps.

- *Two launchers, three daemons at a time, one mishap* (`daemon_startup`). A
  broken daemon and a stale socket count as a mishap that already happened. Two
  launchers are what a race takes; each starts at most three daemons, and three
  alive at a time are an old one that cleans up and one of each launcher. A
  launcher finds a healthy daemon when the other has started one; the beginning
  "healthy" was explored by hand.
- *Two panes, two bytes of output, two events, buffers of one byte and a pipe of
  one* (`output_pump`). One byte that is answered and one that is not; a full pipe,
  a full PTY and a handoff that is flushed in the middle are reached at once when
  each holds next to nothing. Two events are an attach and a probe, a close and an
  opening, input and one of these. The violation needs one pane.
- *Three panes in two tabs, one row of two columns, one character and the space*
  (`live_client`). One column to guess in, one to have been wrong about, and a
  wrap; a single row scrolls with every line feed. `MaxMisses` and `RecoveryKeys`
  are 1 where the code has 2 and 3: both thresholds are reached within the keys of
  a scenario. `ViewRows` is 1, so that two lines of scrollback are two pages. A
  scenario says how often each thing may happen; `MCScenarios` has one for each
  pair of things that can disturb each other.
- *A screen of two rows, a history of three lines, six pieces of output, a pane made
  twice, two palette entries and three colors* (`terminal_extraction`). Two rows are
  what tells a line that leaves from one that moves; six pieces fill the history and
  feed more lines at once than the screen has; with three colors an entry can become
  the other's or nobody's. `terminal_history` has room for nine lines, since the
  violation is not about a full history.

`MaxVersion`, `MaxGeneration`, `MaxAttaches`, `MaxChanges`, `MaxFrames`,
`MaxCommands`, `MaxMishaps`, `MaxOutput`, `MaxEvents`, `MaxPanes`, `WireCap` and the
counts of a scenario are bounds of the models; the code has none but `WireCap`. They
appear in guards only. The runs do not check deadlock: a daemon that was stopped, a
client that attached as often as the bound allows, a process that wrote all it may
or a tree at its last version has nothing left to do, and launchers that are attached
leave their daemon waiting.

## 5. Fairness

`SurfaceDelivery!Fairness` is weak fairness of the loop's round
(`StartRound`, `SignalSurface`), of the write task (`TakeSignals`,
`WriteSurface`) and of the client's reading. The loop polls with a timeout of
`LIVE_IDLE_POLL_TIMEOUT`, so an iteration always comes; a task that has work is
scheduled by the runtime; a client that stays attached reads its socket, the
premise of the property. Nothing makes sessions change, clients attach or
connections end. `EventuallyInSync` is of the form <>[] => <>[]: what holds once
the client stays and the daemon serves.

`LiveServe!FairSpec` is weak fairness of the loop as a whole (`LoopStep`) and of
every write task. The order of steps within an iteration is the code's and needs
no fairness of its own; the choice among clients to drain and panes to fit is
finite in each. The loop blocks only in a read from a new connection that sends
nothing, which this model does not have (hazard at `local.rs:2116`).

`DaemonStartup!Fairness` is weak fairness of each launcher, of each daemon and of
each answer. A launcher is sequential code whose waits all have deadlines, but
for the reply to a kill, which the daemon's fairness provides; a daemon answers
what is in its backlog. Starting `nmux`, detaching and mishaps are not fair.
`EventuallySettled` excepts states with `Daemons` used up, a bound of the model.

`OutputPump!FairSpec` is weak fairness of the loop and of each reader thread, and
strong fairness of `EndPass`. The loop's polls have timeouts and its waits for quiet
have deadlines (`EndPass` is the deadline too), so a pass ends even if there is
always more to read; a thread that can read or write is scheduled. Processes write
and exit as they like. `CloseReturns` needs the reader thread only.

`LiveClient!FairSpec` is weak fairness of the daemon's handlers, of the client's
reading, and of what it finishes once begun: both read their sockets without
waiting for a user. Keys, scrolls, output and other clients are not fair, nor are
the daemon's updates. Time-outs of the client are behaviours that end in the middle
of a request, which `ScrollReturns` does not speak of (item 25).

The specifications that have no liveness property have no fairness.

## 6. The proofs

All theorems hold for every value of the constants that satisfies the named
assumptions of the module; `tlapm` checks every leaf.

**Surface delivery** (`SurfaceDelivery_proofs`).
- `TypeCorrect`: `TypeOK` is inductive.
- `FramesAlwaysApply`: no frame is ever rejected. Not inductive, because
  whether a patch applies depends on all frames before it on the wire.
  `Holds(w, c, i, p, v)` says that a client with cache `c` has version `v` of
  pane `p` once it has read `i` frames of `w`; `DeliveryInv` says that every
  frame fits what is held when it arrives, and that the write task's `written`
  is what is held after all of them. Appending and removing a frame are the
  lemmas `FitsAppend` and `FitsTail`.
- `NothingSignalledIsLost`: when all is quiet, belief and cache agree.
  `AgreementInv` relates, for each pane, the loop's belief, the latest signal,
  the batch in progress and `written`, in each of the states of the channel.
- `BudgetAlwaysKept`: for any frame sizes and cap.
- `DeliveryIsACache`: delivery implements `SurfaceCache`, under the premise the run
  has too (`EveryIdOnce`: one session, no pane id used twice; items 1 and 6 of 7 say
  why it is needed). `ForwardInv` follows the versions of a pane from the session to
  the client: what it holds, what is written, the batch, the channel and what is
  published each no older than the one before, and ascending along the wire. A step of
  delivery then publishes, learns one version or stutters.

**Surface patches** (`SurfacePatch_proofs`).
- `PatchesAreFaithful`: a client at a version shows it, up to the palette, for
  any height, palette and content. `PatchSound` is the heart: what the pane
  remembers of its last update is enough to rebuild the surface from the version
  before, and `ClientFollows` that a client one version behind has exactly that.
- `TypeCorrect`: `TypeOK`, which needs no run. That the content stays one an engine can report needs
  `ColorInv`.
- `RefusalsMeanPalette`: `RefusedOnlyForPalette`, for palettes of any size. `ColorInv`: a patch that
  repeats the palette repeats that of the update before it, a difference starts within
  the palette (`DiffStart`: if two palettes of one length differ there is a first place
  where they do), and a client refuses exactly what its own palette is too short for.

**Sessions** (`Sessions_proofs`).
- `TypeCorrect`: every tree stays well formed. Well-formedness is not inductive
  by itself: that the container of a split does not get the name of another
  pane depends on how names are built. `Tree` adds that every name is a number,
  the first pane of its tab, or the container of a split whose new pane is in the
  same tab; from it follow `ContainerIsNew`, `FirstPaneIsNew`, `NextPaneIsNew`.
  `ApplyFollows` is the result about the reducer: any event keeps a tree a tree,
  and a tree that changed has a newer version.
- `HostAlwaysMatches`, `NextPaneAlwaysFree`: `HostInv` joins the trees, the keys
  of the host and their match; one lemma per command follows it through host and
  actor, with its roll back.
- `TraceAlwaysReplays`, `VersionsAlwaysMove`: from the five ways in which a step
  can touch the trees at all (`EveryStepIsATreeStep`).
- `RefusalsAreHarmless`: the action property that a refused command leaves tabs
  and processes alone, but for the close whose stop failed.
- `KillAlwaysStopsDefault`: `KillInv`. A kill stops the leaves in the order of the tabs,
  which `FlattenSeq` computes by recursion. What it yields is shown with the least number
  of tabs for which it would not be so (`LeastNumber`, `GlueExists`, `GlueHasAll`), so
  `EveryLeafIsStopped`; no other process is left because of `HostInv`.
- `OnlyTheNamedChanges`: every step `Routes`, from what each command does with the name
  (`Served`); it needs no invariant.

**Daemon start-up** (`DaemonStartup_proofs`).
- `TypeCorrect`: `TypeOK`, with "at most three starts" in it.
- `LaunchersShare`: `Shared` for any number of launchers and daemons. Not
  inductive: `Settling` adds that the daemon at the path is up and not broken,
  that whoever connects found a socket which is still there, and that whoever
  waits for a socket has one or a daemon about to bind. From these follows that
  no refused connection, closed stream or deadline is possible, hence no
  replacement. A mishap ends the premise for good, since `mishaps` never falls.

**Output pump** (`OutputPump_proofs`).
- `TypeCorrect`: `TypeOK` is inductive.
- `InOrderHolds`: `OutputPump` implements `OutputStream`, for any number of panes and
  any buffer sizes. `Accounted` says that what a process has written is what its
  terminal has been given, then what the handoff, the host, the channel and the PTY
  hold. It is kept only because a pane id nobody uses has nothing left anywhere
  (`Attended`) and because the handoff is empty but while one pane is read
  (`HandoffInv`). From it, every step shows a prefix, writes, renews or stutters.
- `WakeUpPendingHolds`: the poll never sleeps on unread output. `WakeInv` says what
  each place of the loop owes an unread pane: a wake-up in the pipe or on its way,
  the memory of one (`woken`), or a place in the pass that is going on.

**Terminal extraction** (`TerminalExtraction_proofs`).
- `ScrollbackFollowsHistory`: the scrollback is the terminal's history and screen,
  for any height, history limit and palette. That is said of moments when all is
  stored; the invariant has to speak of the moments between. `Carried` says which
  line of the history and of the screen is which line of the stored scrollback, given
  how many lines have left since and which rows were written to; `Announced` that a
  pane that shows the main screen is behind only if the chunk says so; `Pending` that
  such a chunk is still to be extracted. `FeedFollows` (a line leaves the screen) and
  `ExtractFollows` (the copy is put together) are the heart.
- `SurfaceAlwaysScreen`: `SurfaceIsScreen`. A chunk that changed no row keeps the runs and
  makes the style table anew. `MainRows` says that the runs are those the *present* colors
  would give, which is more than the property and inductive: `TablesAlike` shows that a
  table made from the default depends only on which lines have the same color, `SameRuns`
  that a change of the palette which merges and splits no color leaves all runs as they
  are. `AlternateRows` says it of the alternate screen, whose table is carried on. The
  table is a fold; `InterningExists` shows that its recursive function exists, `TableGrows`,
  `TableHolds` and `TableStays` what it yields, each by a least counterexample. The proof
  needs that no color is the default (`0 \notin Colors`): in the code a style without a
  color is not equal to one with any.
- `AlternateAlwaysKeeps`: `AlternateKeepsScrollback`, since a table that grows keeps its
  places (`Extends`).

**Live serve loop** (`LiveServe_proofs`).
- `TypeCorrect`: `TypeOK`, with the cap of every reliable queue in it.
- `PatchesAlwaysFit`, `SubscribersAgree`: `InventoryNeverMissed` and `InventoryAgrees`.
  What a subscriber knows depends on every frame still in its queue. `Reads(v, w, u)`
  says that a client told `v` refuses none of the frames `w` and has then been told
  `u`, by naming what it knows after each of them; `InventoryInv` that every queue can
  be read so and, for a subscriber that is not just joining, leads to the loop's
  inventory. Between publishing and the end of the iteration that inventory still
  lists whoever was just dropped (`Listed`). No premise: it holds with every happening
  of `Environment` and full queues, until the loop ends.
- `SmallestAlwaysWins`: `SmallestWins`, while only viewports change sizes
  (`OnlyViewports`; a user's resize, a closed tab and a new one set sizes of their own).
  `FitInv`: a pane that does not fit is in the list of the iteration or in what is
  being drained, and what a drain has collected is a constraint of the drained client,
  so that hanging up on it loses nothing.
- `OnlyFullQueuesEnd`: `ServesUntilShutdown`, more than the run shows: with users' resizes,
  new tabs and clients for unknown panes, as long as queues have room (`Room`, a premise
  about the whole behavior; item 7 of 7 says what a full queue does) and without the three
  happenings that do end the loop (`NothingBreaks`: a client that leaves while it is being
  accepted, an exit, a closed tab). `PeersInv` says where in the list a client can be gone,
  `ProcessesInv` that whatever pane is constrained has a process to resize.

**Live client** (`LiveClient_proofs`).
- `TypeCorrect`: `TypeOK`, with `PhaseInv` (what is asked for in each phase of the
  client, and that no guess outstands while guessing is suppressed).
- `PatchesAlwaysFit`: an update may be in the wire or put aside, and a tree or a pong
  may be taken from between two of them, so the updates of a pane are followed as a set
  and not by their places. `WrittenAt` and `ComingAt` say that the surfaces a client has
  or will have (`Copies`) have versions up to what the daemon believes written, that the
  last of them is the daemon's, and that every patch has its base among them and turns
  it into the surface it came from (`Follows`); `Ordered` that the next update to be
  applied is the one of the least version. Taking one, shipping one and a step of the
  pane are `FlowTake`, `FlowShip` and `FlowGrow`.
- `GuessAlwaysFits`, `QuietAlwaysTrue`: `PlaceInv` keeps the guess at the end of its row
  in the cached surface, with the cursor there while nothing was overtaken. `GuessInv`
  says why it must end: its key is still on its way, or typed and not answered, or an
  update that ends the guess is on its way or would be written next (`Doomed`). It needs
  that an echo at the end of a row changes that row (`EchoChanges`), and that a cursor
  which no update moves stays where it is in every surface on the way (`ChainAt`, by the
  least version at which it does not).
- `ScreenAlwaysTrue`: `ScreenInv` adds to the property that the tree and the keys have
  the same pane until the client has strayed, and that this pane has a text.
- `OneFetchAlways`: `FetchInv` says it of two sequences, the requests and the answers,
  one of which has exactly one frame about scrollback (`Once`) and the other none.

Assumptions on constants are those a reader would expect (bounds are natural
numbers, the default session is a session) and one that the code does not
enforce: `TabNamesAssumption`, that no client names a tab `split-...` (see 7,
item 16).

**Only model-checked.** Liveness (`EventuallyInSync`, `EventuallyGone`, `Recovered`,
`EventuallySettled`, `ShownUnlessDiscarded`, `CloseReturns`, `ScrollReturns`): TLAPS
does not reason about fairness and ENABLED. Every safety property of a passing run is a
theorem. Two of them are folds over data (the order of leaves, the style table); what these
yield is proved by least counterexample, a well-founded induction that needs no operator
for a parameter.

## 7. Where the code and its documents disagree

Items 22 and 24 are shown by runs; the others were met while reading the code and
are part of the models, excepted by a property that names them, or noted as hazards.

1. A reused pane id starts at surface version 1 (`session.rs:2390`), so a client that
   was away may be told *current* for a terminal it never saw.
2. An update that leaves the surface alone erases the palette difference of the
   patch before it, which is then sent as if the palette had not changed. The
   properties of `SurfacePatch` hold up to the palette.
3. A viewport for a pane whose process has exited ends the serve loop
   (`local.rs:1712`). `live_serve` checks `ServesUntilShutdown` without exits.
4. A resize followed by a rejected frame of the same client is not published to
   the others: what the drain had collected is dropped (`Hangup`).
5. In live mode a command that names another session changes the one being
   served (`control.rs:154`). `OnlyTheNamedSession` excepts live mode.
6. Cached versions are kept per socket and pane id, not per session
   (`client_state.rs:117`), so a session switch can repeat item 1.
7. A reliable queue that fills is an error of the loop, not of its client
   (`local.rs:1653`, `4592`); `live_serve_failures` contains it.
8. A control command in the live loop does not set `changed_workspace`
   (`local.rs:1061`): attached clients learn of it with the next other change.
9. Attaching to a tab switches to it around the actor (`local.rs:4289`), while
   ADR 0043 speaks of "one canonical accepted event stream". `TraceReplays`
   excepts exactly those sessions.
10. A tab whose processes cannot all be stopped leaves processes behind that no
    pane owns and nothing polls; a later split that would reuse the name is
    refused as already running. `NextPaneIsFree` excepts such sessions.
11. An error reading a process, or writing a terminal's reply to one that exited,
    ends the loop. The reader thread's channel is unbounded (`host.rs:632`),
    where ADR 0043 asks for a "small blocking bounded handoff".
12. A connection that ends before its first frame, or before its control reply,
    ends the loop (`local.rs:2116`, `1071`); a first frame that never comes
    blocks it.
13. A size that a viewport committed is not the size a new tab's process starts
    with (`control.rs:417`), and the pane, which is right, is not repaired
    (`local.rs:1709`).
14. A kill of any session ends the whole daemon and stops the processes of the
    default session only (`daemon.rs:195-207`); a session whose first process
    does not start ends it too (`daemon.rs:322`).
15. The host's key "session:pane" is ambiguous for names with colons
    (`daemon.rs:541`). `Sessions` takes it for the pair.
16. A split's container takes a name that is not checked against existing panes
    (`session.rs:2351`); it can be that of the first pane of a tab a client named
    `split-...`. `TabNamesAssumption` excludes it.
17. Between the presence frames of a join and its inventory snapshot the new
    client's write task may end, which is then an error of the loop
    (`local.rs:1044-1050`).
18. `replace_default_daemon_socket` kills and unlinks what is at the path by then,
    not what the probe found. Two launchers that find a stale socket may both
    decide to replace it, and the slower one kills the daemon the faster one has
    started and attached to, or unlinks its socket and leaves it running out of
    reach. `DaemonStartup` has both behaviours from beginning "stale" without a
    further mishap; ADR 0039 gives failures of the daemon as the only causes.
19. `SocketCleanup::drop` compares and removes in two calls (`daemon.rs:647-648`).
    A killed daemon that is between them may remove the socket of the daemon
    that replaces it, although "the daemon removes the socket path it created if
    that path still points at the same socket file" (`docs/running.md:345`).
    `Trespassing` names these states, and `Recovered` excepts them.
20. ADR 0039 has closed sockets replace the daemon; a probe that reads the end of
    the stream does not (`nmux.rs:362-365`), the session that follows does.
21. The reply to the kill is awaited without a timeout (`local.rs:5372`), so a
    daemon that never answers blocks the launcher that wants to replace it.
22. An attach reads the panes until they are quiet and then empties the wake-up pipe;
    output that came between is shown only when something else wakes the loop
    (`local.rs:2178`), although ADR 0037 (28-32) has readiness drive delivery without
    an idle poll. Run `output_lost_wakeup`.
23. A client that waits for scrollback treats the answer to its own ping as an
    unexpected frame and ends (`local.rs:6413`, `RefusePong`), although pings and
    their answers are "side-effect-free live control frames" (`docs/protocol.md:197`).
24. A chunk after which the terminal has more history than the pane has lines of
    scrollback leaves the scrollback as it is (`terminal.rs:1159`), and so does every
    later chunk, until the history is erased: 27 line feeds at once freeze a new pane
    of 24 rows. Run `terminal_history`.
25. Trees that arrive while the client waits for scrollback are dropped (`DropTree`),
    and the wait has the short timeout of live reads: a slower answer ends the client.
26. Updates put aside while the scrollback of the attach was awaited are applied after
    those the first resize brought (`nmux.rs:1131`): the bases no longer match and
    the client ends. `PatchesFit` excepts it ("overtaken").
27. A tree whose active tab lacks the attached pane moves what is shown but not where
    keys go (`nmux.rs:4226`), although `README.md:10` has input routed to the focused
    pane. Selecting the pane that is already highlighted does not help ("strayed").
28. A tree sent before the client's own tab switch can be read after it, and undoes it.
29. A guess for a pane that is not updated any more stays, and keeps every other pane
    from being guessed for. `docs/running.md:450` has guesses off for raw bytes on
    standard input, `stdin_bytes_speculative_echo_enabled` (`nmux.rs:2567`) has them on.
30. Engines are found by pane id and never forgotten (`terminal.rs:247`): a pane that
    reuses an id shows the closed pane's terminal, its size and its history.
31. Vertical tab and form feed feed a line but do not count as changing a row
    (`vt_output_may_change_rows`, `terminal.rs:923`); the pane is behind until a later
    chunk does. A palette change that makes two entries one, or one two, leaves kept
    rows with places of another table in the same way (`unnoticed`).
32. Rows of cached history keep the style places of the table they were stored with,
    while the table is made anew from the screen (`terminal.rs:1380`);
    `docs/protocol.md:77-79` has style ids resolve in the chunk's table.
33. Lines that are changed and fed out in one chunk, a history erased and continued in
    one chunk, or one at its limit leave wrong lines in front of the scrollback
    (`marks`). A pane whose first chunk scrolls has the placeholder lines of a new
    pane as history; the branch that would read the history from the terminal wants
    an empty scrollback, which no served pane has.
34. Switching sessions while attached keeps the old stream, is answered
    *SessionNotFound* in live mode, and the state file is written by whoever comes last.
35. A probe empties the pipe before it reads the panes. If an answer of the terminal
    cannot be written to a process that exited, the panes after it are not read, and
    their wake-ups are gone (`local.rs:4862`; `discarded`).

## 8. What is not modelled

- The sequential and bounded serve paths: the same handlers without an actor,
  for tests and one-shot modes.
- Of the terminal engines: the interim engine, resizing and reflow, OSC 7, titles,
  hyperlinks, DECRQM and other answers (an answer is a byte in `OutputPump`), tmux
  parsing. What libghostty does with a byte is external; `TerminalExtraction` has the
  effects nmux reads back.
- Rendering, key and mouse encoding, wire format, JSON, the menus and overlays of the
  user interface, recorded traces on disk: data without control, or generated.
  Framing errors appear as ended connections.
- The scheduler's choice between lanes: each enqueue is followed by a drain of
  the queue, so no two events ever wait together. `FocusPane` and
  `SetPaneResizePolicy`, which a serving daemon never enqueues. The trace's ring
  of 1024 records.
- Spawning, containers and sandboxes; the size of a PTY is in `LiveServe`.
- In `LiveServe`: scrollback, pings, cycles and process output; surfaces, which
  are in `SurfaceDelivery`. One dimension stands for rows and columns.
- In `LiveClient`: detaching and the client's time-outs, which are behaviours that
  stop; the switch of session, the state file and one-shot commands; read-only
  clients, for which keys are missing and nothing else differs. The tab next to a
  closed one is any tab. Surfaces reach the client as `SurfaceDelivery` says, over one
  queue here.
- Authentication of TCP listeners. Managed daemons, which one command owns, and
  the choice of the socket path.
- The latency benchmark, build information, observability, and the build and release
  tasks (`xtask`): tools beside the program.

## 9. The plan

Done, in this order: `SurfaceDelivery` with `SurfaceCache` and its proofs;
`SurfacePatch` and its proof; `LiveServe` and its proofs; `SessionTree` and `Sessions` with
their proofs; `DaemonStartup` and its proof; `OutputPump` with `OutputStream` and its
proofs; `SpeculativeEcho` and `LiveClient` with their proofs; `TerminalExtraction` and its proof.

Left:

1. Two sessions behind one socket: the client's switch of session, the state file with
   its scope and two clients that share it (items 6 and 34). Abstract specification: a
   cache that never claims what it was not given.
2. Resizing in `TerminalExtraction`, with reflow as an arbitrary new screen and history.
3. Theorems for the two above; of what is modelled, only the liveness of section 6 has none.
