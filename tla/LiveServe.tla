------------------------------ MODULE LiveServe ------------------------------
(***************************************************************************)
(* One iteration after the other of serve_live_concurrent_n_with_session_  *)
(* actor (local.rs): accept what connects, drain the frames of attached    *)
(* clients, fit panes to the smallest client, drop the clients that left,  *)
(* keep the inventory of the others current, and publish.                  *)
(*                                                                         *)
(* The loop is one thread.  Each client's write task and the far end of    *)
(* its socket run beside it, as do the processes of the panes.  Surfaces   *)
(* are the subject of SurfaceDelivery; here a pane is its size, in one     *)
(* dimension.                                                              *)
(***************************************************************************)
EXTENDS Integers, Sequences, FiniteSets

CONSTANTS
  Clients,      \* client processes
  Viewers,      \* those that attach read-only
  Subscribers,  \* those that subscribe to the client inventory
  Panes,        \* pane ids
  NoClient,     \* no client
  RootPane,     \* the pane of the session's first tab
  Manual,       \* panes with ResizePolicy::Manual: new panes never have it
  MaxSize,      \* bound: sizes of panes
  ReliableCap,  \* reliable_frame_cap of AsyncClientOutput
  MaxAttaches,  \* bound: connections
  MaxFrames,    \* bound: frames clients send
  MaxCommands,  \* bound: control commands
  Environment   \* what may happen around the loop, of Happenings

Happenings == {"early_close", "exit", "close_tab", "new_tab", "user_resize", "unknown_pane"}

ASSUME ConstantsAssumption ==
  /\ IsFiniteSet(Clients) /\ Viewers \subseteq Clients /\ Subscribers \subseteq Clients
  /\ NoClient \notin Clients /\ RootPane \in Panes /\ Manual \subseteq {RootPane}
  /\ Environment \subseteq Happenings
  /\ MaxSize \in Nat \ {0} /\ ReliableCap \in Nat \ {0}
  /\ MaxAttaches \in Nat /\ MaxFrames \in Nat /\ MaxCommands \in Nat

VARIABLES
  workspace,   \* the session: version, and of each pane its size (0: no such pane)
               \* and the initial_size in its host specification
  process,     \* the host's process of each pane: "none", "running", "exited"
  pty,         \* the size of each pane's PTY
  daemon,      \* "serving", "stopped" on request, "failed" on an error of the loop
  inventory,   \* inventory_version
  live,        \* clients in the loop's list
  constraint,  \* frontend_resize_constraints (0: none)
  writer,      \* write task: "off", "up", "down" once a write failed, or "legacy"
  output,      \* reliable frames queued for the write task
  input,       \* frames read from the client and not yet drained
  peer,        \* the client process: "away", "connecting", "attached", "gone"
  view,        \* what the client has been told: workspace and inventory
  at,          \* where in its iteration the loop is
  joining,     \* the client being accepted
  todo,        \* clients with frames to drain
  reading,     \* the client being drained
  drained,     \* what draining it has collected
  resizes,     \* panes to fit
  closed,      \* closed_clients of this iteration
  updates,     \* inventory_updates of this iteration
  changed,     \* changed_workspace
  spent        \* counters of the bounds

session == <<workspace, process, pty>>
loop == <<at, joining, todo, reading, drained, resizes, closed, updates, changed>>
links == <<live, constraint, writer, output, input, peer, view>>
vars == <<session, daemon, inventory, links, loop, spent>>
-----------------------------------------------------------------------------
Sizes == 1..MaxSize
Here == {p \in Panes : workspace.size[p] # 0}
Nothing == [input |-> FALSE, resizes |-> {}, changed |-> FALSE]
Unseen == [workspace |-> 0, inventory |-> 0, members |-> {}, missed |-> FALSE]
NoConstraint == [p \in Panes |-> 0]

WorkspaceFrame == [type |-> "workspace", version |-> workspace.version]
Patch(version, joined, left) ==
  [type |-> "patch", base |-> version - 1, version |-> version, joined |-> joined, left |-> left]
Snapshot(members) == [type |-> "snapshot", version |-> inventory, members |-> members]
Presence == [type |-> "presence"]
Error == [type |-> "error"]

\* Mutant: one frame too many.
Full_OffByOne(c) == writer[c] = "up" /\ Len(output[c]) > ReliableCap

\* try_send_reliable: a full queue is an error of the loop, a closed one is not.
Full(c) == writer[c] = "up" /\ Len(output[c]) >= ReliableCap
Queued(cs, frame) ==
  [c \in Clients |-> IF c \in cs /\ writer[c] = "up" /\ ~Full(c) THEN Append(output[c], frame)
                     ELSE output[c]]

\* Mutant: a closed queue is an error like any other.
Post_ClosedIsFatal(cs, frame) ==
  /\ output' = Queued(cs, frame)
  /\ daemon' = IF \E c \in cs : Full(c) \/ writer[c] = "down" THEN "failed" ELSE daemon

\* Queues `frame` to all of cs, or the loop ends.
Post(cs, frame) ==
  /\ output' = Queued(cs, frame)
  /\ daemon' = IF \E c \in cs : Full(c) THEN "failed" ELSE daemon

\* commit_pane_resize
Resized(p, size) == [workspace EXCEPT !.version = @ + 1, !.size[p] = size]

Step(phase) == daemon = "serving" /\ at = phase
Goto(phase) == at' = phase

Init ==
  /\ LET sizes == [p \in Panes |-> IF p = RootPane THEN MaxSize ELSE 0]
     IN  workspace = [version |-> 1, size |-> sizes, initial |-> sizes]
  /\ process = [p \in Panes |-> IF p = RootPane THEN "running" ELSE "none"]
  /\ pty = workspace.size
  /\ daemon = "serving" /\ inventory = 0 /\ live = {}
  /\ constraint = [c \in Clients |-> NoConstraint]
  /\ writer = [c \in Clients |-> "off"]
  /\ output = [c \in Clients |-> <<>>] /\ input = [c \in Clients |-> <<>>]
  /\ peer = [c \in Clients |-> "away"] /\ view = [c \in Clients |-> Unseen]
  /\ at = "poll" /\ joining = NoClient /\ todo = {} /\ reading = NoClient /\ drained = Nothing
  /\ resizes = {} /\ closed = {} /\ updates = {} /\ changed = FALSE
  /\ spent = [attaches |-> 0, frames |-> 0, commands |-> 0]
-----------------------------------------------------------------------------
(* Around the loop *)

Connect(c) ==
  /\ daemon = "serving" /\ peer[c] = "away" /\ c \notin live
  /\ spent.attaches < MaxAttaches
  /\ peer' = [peer EXCEPT ![c] = "connecting"]
  /\ spent' = [spent EXCEPT !.attaches = @ + 1]
  /\ UNCHANGED <<session, daemon, inventory, live, constraint, writer, output, input, view, loop>>

ClientFrames ==
  [type : {"viewport"}, pane : Panes, size : Sizes]
  \cup (IF "user_resize" \in Environment THEN [type : {"command"}, pane : Panes, size : Sizes]
        ELSE {})
  \cup [type : {"input"}, pane : Panes]

SendFrame(c, frame) ==
  /\ daemon = "serving" /\ peer[c] = "attached" /\ spent.frames < MaxFrames
  /\ c # joining
  /\ input' = [input EXCEPT ![c] = Append(@, frame)]
  /\ spent' = [spent EXCEPT !.frames = @ + 1]
  /\ UNCHANGED <<session, daemon, inventory, live, constraint, writer, output, peer, view, loop>>

\* The client ends its connection: the read task passes on its end of file.
Disconnect(c) ==
  /\ daemon = "serving"
  /\ \/ peer[c] = "attached" /\ (c # joining \/ "early_close" \in Environment)
     \/ peer[c] = "connecting" /\ "early_close" \in Environment
  /\ peer' = [peer EXCEPT ![c] = "gone"]
  /\ input' = IF c \in live THEN [input EXCEPT ![c] = Append(@, [type |-> "eof"])] ELSE input
  /\ UNCHANGED <<session, daemon, inventory, live, constraint, writer, output, view, loop, spent>>

ProcessExit(p) ==
  /\ daemon = "serving" /\ "exit" \in Environment /\ process[p] = "running"
  /\ process' = [process EXCEPT ![p] = "exited"]
  /\ UNCHANGED <<workspace, pty, daemon, inventory, links, loop, spent>>

\* What a client makes of a frame; ClientInventoryCache::apply_patch refuses a gap.
Told(v, frame) ==
  CASE frame.type = "workspace" -> [v EXCEPT !.workspace = frame.version]
    [] frame.type = "snapshot" ->
         [v EXCEPT !.inventory = frame.version, !.members = frame.members]
    [] frame.type = "patch" ->
         IF frame.base # v.inventory THEN [v EXCEPT !.missed = TRUE]
         ELSE [v EXCEPT !.inventory = frame.version,
                        !.members = (@ \ frame.left) \cup frame.joined]
    [] OTHER -> v

\* run_client_write_task: one frame to a client that reads it, or the end of the task.
WriteFrame(c) ==
  /\ daemon = "serving" /\ writer[c] = "up" /\ output[c] # <<>>
  /\ IF peer[c] = "attached"
     THEN /\ view' = [view EXCEPT ![c] = Told(@, Head(output[c]))]
          /\ output' = [output EXCEPT ![c] = Tail(@)]
          /\ UNCHANGED writer
     ELSE /\ writer' = [writer EXCEPT ![c] = "down"]
          /\ output' = [output EXCEPT ![c] = <<>>]
          /\ UNCHANGED view
  /\ UNCHANGED <<session, daemon, inventory, live, constraint, input, peer, loop, spent>>
-----------------------------------------------------------------------------
(* Polling and accepting *)

\* poll_live_concurrent_sources: whose frames are drained is decided before anyone is accepted.
Poll ==
  /\ Step("poll")
  /\ todo' = {c \in live : input[c] # <<>>}
  /\ Goto("accept")
  /\ UNCHANGED <<session, daemon, inventory, links, joining, reading, drained, resizes, closed,
                 updates, changed, spent>>

\* Mutant: the new client is in the list before the others' patch is written.
Accept_PatchToAll(c) ==
  /\ Step("accept") /\ joining = NoClient /\ peer[c] = "connecting"
  /\ peer' = [peer EXCEPT ![c] = "attached"]
  /\ writer' = [writer EXCEPT ![c] = "up"]
  /\ view' = [view EXCEPT ![c] = [Unseen EXCEPT !.workspace = workspace.version]]
  /\ inventory' = inventory + 1
  /\ live' = live \cup {c} /\ joining' = c
  /\ output' = [d \in Clients |-> IF d \in Subscribers \cap live' 
                                  THEN Append(output[d], Patch(inventory', {c}, {})) ELSE output[d]]
  /\ UNCHANGED <<session, daemon, constraint, input, at, todo, reading, drained, resizes, closed,
                 updates, changed, spent>>

\* What a new client is told of the others, as far as its queue has room.
Greeting ==
  LET room == IF Cardinality(live) <= ReliableCap THEN Cardinality(live) ELSE ReliableCap
  IN  [i \in 1..room |-> Presence]

\* accept_live_client_with_session_actor and the loop's half of a join.  A client
\* whose target pane does not exist is in the list too, on its bare stream, until the
\* end of the iteration.  Reading from or writing to a client that is gone is fatal.
Accept(c) ==
  /\ Step("accept") /\ joining = NoClient
  /\ \/ /\ peer[c] = "gone" /\ c \notin live
        /\ daemon' = "failed"
        /\ UNCHANGED <<inventory, live, writer, output, peer, view, joining>>
     \/ /\ peer[c] = "connecting"
        /\ \E found \in {TRUE} \cup (IF "unknown_pane" \in Environment THEN {FALSE} ELSE {}) :
             /\ writer' = [writer EXCEPT ![c] = IF found THEN "up" ELSE "legacy"]
             /\ view' = [view EXCEPT ![c] =
                  [Unseen EXCEPT !.workspace = IF found THEN workspace.version ELSE 0]]
             /\ LET greeted == [d \in Clients |->
                      IF d \in live /\ writer[d] = "up" /\ ~Full(d)
                      THEN Append(output[d], Presence) ELSE output[d]]
                    crowded == {d \in live \cap Subscribers :
                                  writer[d] = "up" /\ Len(greeted[d]) >= ReliableCap}
                IN  /\ output' = [d \in Clients |->
                         IF d = c
                         THEN IF found THEN Greeting ELSE <<>>
                         ELSE IF d \in (live \cap Subscribers) \ crowded /\ writer[d] = "up"
                         THEN Append(greeted[d], Patch(inventory + 1, {c}, {}))
                         ELSE greeted[d]]
                    /\ daemon' = IF crowded # {} THEN "failed" ELSE daemon
        /\ inventory' = inventory + 1
        /\ peer' = [peer EXCEPT ![c] = "attached"]
        /\ live' = live \cup {c} /\ joining' = c
  /\ UNCHANGED <<session, constraint, input, at, todo, reading, drained, resizes, closed,
                 updates, changed, spent>>

\* Mutant: the snapshot is taken before the new client is in the list.
SendSnapshot_Before ==
  /\ Step("accept") /\ joining # NoClient
  /\ IF joining \in Subscribers THEN Post({joining}, Snapshot(live \ {joining}))
     ELSE UNCHANGED <<output, daemon>>
  /\ joining' = NoClient
  /\ UNCHANGED <<session, inventory, live, constraint, writer, input, peer, view, at, todo,
                 reading, drained, resizes, closed, updates, changed, spent>>

\* write_client_inventory_snapshot_to_client: here a closed queue is fatal as well.
SendSnapshot ==
  /\ Step("accept") /\ joining # NoClient
  /\ LET broken == writer[joining] = "down" \/ (writer[joining] = "legacy" /\ peer[joining] = "gone")
     IN  IF joining \notin Subscribers THEN UNCHANGED <<output, daemon>>
         ELSE IF broken THEN daemon' = "failed" /\ UNCHANGED output
         ELSE Post({joining}, Snapshot(live))
  /\ joining' = NoClient
  /\ UNCHANGED <<session, inventory, live, constraint, writer, input, peer, view, at, todo,
                 reading, drained, resizes, closed, updates, changed, spent>>

\* serve_control_command_with_session_actor, on a connection of its own: the reply is
\* the only frame that tells of the change.
CommandStep ==
  /\ Step("accept") /\ joining = NoClient /\ spent.commands < MaxCommands
  /\ spent' = [spent EXCEPT !.commands = @ + 1]
  /\ UNCHANGED <<inventory, links, loop>>

CloseTab(p) ==
  /\ "close_tab" \in Environment /\ p \in Here /\ Here # {p} /\ CommandStep
  /\ workspace' = [workspace EXCEPT !.version = @ + 1, !.size[p] = 0]
  /\ process' = [process EXCEPT ![p] = "none"]
  /\ pty' = [pty EXCEPT ![p] = 0]
  /\ UNCHANGED daemon

\* start_pane with the host specification of the active pane, whose initial_size no
\* resize touches, then add_tab with that pane's size, and the tab is made active.
NewTab(p) ==
  /\ "new_tab" \in Environment /\ p \notin Here /\ CommandStep
  /\ \E active \in Here :
       /\ pty' = [pty EXCEPT ![p] = workspace.initial[active]]
       /\ workspace' = [workspace EXCEPT !.version = @ + 2,
                                         !.size[p] = workspace.size[active],
                                         !.initial[p] = workspace.size[active]]
  /\ process' = [process EXCEPT ![p] = "running"]
  /\ UNCHANGED daemon

\* session kill: SessionShutdown ends the loop.
KillSession ==
  /\ CommandStep /\ daemon' = "stopped" /\ UNCHANGED session

\* A client that connects after the poll may be taken as well.  A client on its bare
\* stream is looked at once more.
AcceptDone ==
  /\ Step("accept") /\ joining = NoClient
  /\ \A c \in Clients : peer[c] # "connecting" /\ (peer[c] = "gone" => c \in live)
  /\ todo' = todo \cup {c \in live : writer[c] = "legacy" /\ input[c] # <<>>}
  /\ Goto("drain")
  /\ UNCHANGED <<session, daemon, inventory, links, joining, reading, drained, resizes, closed,
                 updates, changed, spent>>
-----------------------------------------------------------------------------
(* Draining: drain_live_client_frames_with_session_actor *)

StartDrain(c) ==
  /\ Step("drain") /\ reading = NoClient /\ c \in todo
  /\ reading' = c /\ todo' = todo \ {c} /\ drained' = Nothing
  /\ UNCHANGED <<session, daemon, inventory, links, at, joining, resizes, closed, updates,
                 changed, spent>>

Constrained(c) == {p \in Panes : constraint[c][p] # 0}

\* The client is to be closed; what its drain had collected is not returned.
Hangup(c) ==
  /\ reading' = NoClient /\ drained' = Nothing
  /\ closed' = closed \cup {c} /\ resizes' = resizes \cup Constrained(c)
  /\ UNCHANGED <<updates, changed>>

Collect(what) ==
  /\ drained' = what
  /\ UNCHANGED <<reading, closed, resizes, updates, changed>>

\* The client ended the connection: everything collected counts.
FinishDrain(c, leaving) ==
  /\ reading' = NoClient /\ drained' = Nothing
  /\ closed' = closed \cup leaving
  /\ resizes' = resizes \cup drained.resizes
  /\ changed' = (changed \/ drained.changed)
  /\ updates' = IF drained.input THEN updates \cup {c} ELSE updates

Reject(c) == Post({c}, Error) /\ Hangup(c) /\ UNCHANGED <<session, constraint>>

\* The actor, the pane and its policy are checked before a viewport is recorded or a
\* user's command is carried out.
DrainResize(c, frame) ==
  /\ frame.type \in {"viewport", "command"}
  /\ IF c \in Viewers \/ frame.pane \notin Here THEN Reject(c)
     ELSE IF frame.type = "viewport" /\ frame.pane \in Manual
     THEN Collect(drained) /\ UNCHANGED <<session, constraint, output, daemon>>
     ELSE IF frame.type = "viewport"
     THEN /\ constraint' = [constraint EXCEPT ![c][frame.pane] = frame.size]
          /\ Collect([drained EXCEPT !.resizes = @ \cup {frame.pane}])
          /\ UNCHANGED <<session, output, daemon>>
     ELSE IF process[frame.pane] # "running" THEN Reject(c)
     ELSE /\ pty' = [pty EXCEPT ![frame.pane] = frame.size]
          /\ IF workspace.size[frame.pane] = frame.size
             THEN Collect(drained) /\ UNCHANGED workspace
             ELSE /\ workspace' = Resized(frame.pane, frame.size)
                  /\ Collect([drained EXCEPT !.changed = TRUE])
          /\ UNCHANGED <<process, constraint, output, daemon>>

\* Input for a pane that is not there is answered with an error, but it is input.
DrainInput(c, frame) ==
  /\ frame.type = "input"
  /\ IF c \in Viewers THEN Reject(c)
     ELSE IF frame.pane \in Here
     THEN Collect([drained EXCEPT !.input = TRUE]) /\ UNCHANGED <<output, daemon, session, constraint>>
     ELSE IF writer[c] = "down" THEN Reject(c)
     ELSE /\ Post({c}, Error) /\ Collect([drained EXCEPT !.input = TRUE])
          /\ UNCHANGED <<session, constraint>>

\* Mutant: the end of a connection is not noticed.
DrainEnd_Ignored(c, frame) ==
  /\ frame.type = "eof" /\ FinishDrain(c, {})
  /\ UNCHANGED <<session, constraint, output, daemon>>

DrainEnd(c, frame) ==
  /\ frame.type = "eof" /\ FinishDrain(c, {c})
  /\ UNCHANGED <<session, constraint, output, daemon>>

DrainFrame ==
  /\ Step("drain") /\ reading # NoClient /\ input[reading] # <<>>
  /\ LET frame == Head(input[reading])
     IN  DrainResize(reading, frame) \/ DrainInput(reading, frame) \/ DrainEnd(reading, frame)
  /\ input' = [input EXCEPT ![reading] = Tail(@)]
  /\ UNCHANGED <<inventory, live, writer, peer, view, at, joining, todo, spent>>

NoFrame ==
  /\ Step("drain") /\ reading # NoClient /\ input[reading] = <<>>
  /\ FinishDrain(reading, {})
  /\ UNCHANGED <<session, daemon, inventory, links, at, joining, todo, spent>>

DrainDone ==
  /\ Step("drain") /\ reading = NoClient /\ todo = {}
  /\ Goto("fit")
  /\ UNCHANGED <<session, daemon, inventory, links, joining, todo, reading, drained, resizes,
                 closed, updates, changed, spent>>
-----------------------------------------------------------------------------
(* Fitting, leaving and publishing *)

\* smallest_read_write_frontend_resize
Wanted(p) == {constraint[c][p] : c \in live \ Viewers} \ {0}
Smallest(p) == CHOOSE s \in Wanted(p) : \A t \in Wanted(p) : s <= t

\* apply_concurrent_frontend_resize_with_session_actor: an error of the host ends the
\* loop.  The last round of an iteration does not remember that the workspace changed.
Fit(p) ==
  /\ daemon = "serving" /\ at \in {"fit", "refit", "final"} /\ p \in resizes
  /\ resizes' = resizes \ {p}
  /\ IF Wanted(p) = {} \/ Smallest(p) = workspace.size[p]
     THEN UNCHANGED <<session, daemon, changed>>
     ELSE IF process[p] # "running"
     THEN daemon' = "failed" /\ UNCHANGED <<session, changed>>
     ELSE /\ pty' = [pty EXCEPT ![p] = Smallest(p)]
          /\ workspace' = Resized(p, Smallest(p))
          /\ changed' = (changed \/ at # "final")
          /\ UNCHANGED <<process, daemon>>
  /\ UNCHANGED <<inventory, links, at, joining, todo, reading, drained, closed, updates, spent>>

\* The connections of `gone` end.
Ended(gone) ==
  /\ live' = live \ gone
  /\ constraint' = [c \in Clients |-> IF c \in gone THEN NoConstraint ELSE constraint[c]]
  /\ writer' = [c \in Clients |-> IF c \in gone THEN "off" ELSE writer[c]]
  /\ input' = [c \in Clients |-> IF c \in gone THEN <<>> ELSE input[c]]
  /\ peer' = [c \in Clients |-> IF c \in gone THEN "away" ELSE peer[c]]
  /\ view' = [c \in Clients |-> IF c \in gone THEN Unseen ELSE view[c]]

\* Mutant: the panes of the clients that left are not fitted again.
Drop_NoRefit(gone) == Ended(gone) /\ resizes' = {}

Drop(gone) == Ended(gone) /\ resizes' = UNION {Constrained(c) : c \in gone}

\* The frames queued for a client that is dropped are not followed any further.
WithPatch(gone, left) ==
  LET told == (live \ gone) \cap Subscribers
  IN  /\ output' = [c \in Clients |->
           IF c \in gone THEN <<>>
           ELSE IF left = {} THEN output[c]
           ELSE Queued(told, Patch(inventory + 1, {}, left))[c]]
      /\ inventory' = IF left = {} THEN inventory ELSE inventory + 1
      /\ daemon' = IF left # {} /\ \E c \in told : Full(c) THEN "failed" ELSE daemon

RemoveClosed ==
  /\ Step("fit") /\ resizes = {}
  /\ Drop(closed) /\ WithPatch(closed, closed)
  /\ closed' = {} /\ Goto("refit")
  /\ UNCHANGED <<session, joining, todo, reading, drained, updates, changed, spent>>

\* inventory_updates: an entry per client that sent input and is still there.
UpdateInventory ==
  /\ Step("refit") /\ resizes = {}
  /\ IF updates \cap live = {} THEN UNCHANGED <<inventory, output, daemon>>
     ELSE /\ Post(live \cap Subscribers, Patch(inventory + 1, updates \cap live, {}))
          /\ inventory' = inventory + 1
  /\ updates' = {} /\ Goto("publish")
  /\ UNCHANGED <<session, live, constraint, writer, input, peer, view, joining, todo, reading,
                 drained, resizes, closed, changed, spent>>

\* The workspace, if it changed, and the surfaces that changed go to every client.  A
\* client whose queues are closed or whose attach had failed is dropped.
Publish ==
  /\ Step("publish")
  /\ \E signalled \in BOOLEAN :
       LET broken == {c \in live : writer[c] = "legacy"
                                   \/ (writer[c] = "down" /\ (changed \/ signalled))}
           sent == Queued(live, WorkspaceFrame)
       IN  /\ closed' = broken /\ Drop(broken)
           /\ output' = [c \in Clients |-> IF c \in broken THEN <<>>
                                           ELSE IF changed THEN sent[c] ELSE output[c]]
           /\ daemon' = IF changed /\ \E c \in live : Full(c) THEN "failed" ELSE daemon
  /\ changed' = FALSE /\ Goto("final")
  /\ UNCHANGED <<session, inventory, joining, todo, reading, drained, updates, spent>>

EndIteration ==
  /\ Step("final") /\ resizes = {}
  /\ WithPatch({}, closed)
  /\ closed' = {} /\ Goto("poll")
  /\ UNCHANGED <<session, live, constraint, writer, input, peer, view, joining, todo, reading,
                 drained, resizes, updates, changed, spent>>
-----------------------------------------------------------------------------
LoopStep ==
  \/ \E c \in Clients : Accept(c) \/ StartDrain(c)
  \/ Poll \/ SendSnapshot \/ AcceptDone
  \/ DrainFrame \/ NoFrame \/ DrainDone
  \/ \E p \in Panes : Fit(p)
  \/ RemoveClosed \/ UpdateInventory \/ Publish \/ EndIteration

Next ==
  \/ LoopStep
  \/ \E p \in Panes : CloseTab(p) \/ NewTab(p) \/ ProcessExit(p)
  \/ KillSession
  \/ \E c \in Clients : \/ Connect(c) \/ Disconnect(c) \/ WriteFrame(c)
                        \/ \E frame \in ClientFrames : SendFrame(c, frame)

Spec == Init /\ [][Next]_vars

\* The loop polls with a timeout, and the runtime schedules write tasks.
FairSpec == Spec /\ WF_vars(LoopStep) /\ \A c \in Clients : WF_vars(WriteFrame(c))
-----------------------------------------------------------------------------
(* Properties *)

TypeOK ==
  /\ workspace \in [version : Nat, size : [Panes -> 0..MaxSize], initial : [Panes -> 0..MaxSize]]
  /\ process \in [Panes -> {"none", "running", "exited"}] /\ pty \in [Panes -> 0..MaxSize]
  /\ daemon \in {"serving", "stopped", "failed"} /\ inventory \in Nat
  /\ live \subseteq Clients /\ constraint \in [Clients -> [Panes -> 0..MaxSize]]
  /\ \A c \in Viewers : constraint[c] = NoConstraint
  /\ writer \in [Clients -> {"off", "up", "down", "legacy"}]
  /\ \A c \in Clients : writer[c] # "off" <=> c \in live
  /\ peer \in [Clients -> {"away", "connecting", "attached", "gone"}]
  /\ \A c \in Clients : Len(output[c]) <= ReliableCap /\ view[c].members \subseteq Clients
  /\ at \in {"poll", "accept", "drain", "fit", "refit", "publish", "final"}
  /\ joining \in Clients \cup {NoClient} /\ reading \in Clients \cup {NoClient}
  /\ todo \subseteq live /\ closed \subseteq Clients /\ updates \subseteq Clients
  /\ resizes \subseteq Panes /\ changed \in BOOLEAN

\* No subscriber is ever sent a patch it must refuse: joins, departures and updates
\* of one iteration each take a version, and a client that joins between them starts
\* from a snapshot at the version the next patch builds on (local.rs:1010-1047,
\* ClientInventoryCache::apply_patch).
InventoryNeverMissed == \A c \in Clients : ~view[c].missed

\* Between iterations, a subscriber that has read all its frames lists exactly the
\* connections of the loop, itself included and however many came or went at once.
Settled(c) ==
  /\ daemon = "serving" /\ at = "poll"
  /\ c \in live /\ writer[c] = "up" /\ peer[c] = "attached" /\ output[c] = <<>>
InventoryAgrees ==
  \A c \in Subscribers :
    Settled(c) => view[c].inventory = inventory /\ view[c].members = live

\* Between iterations a pane that clients constrain has the size of the smallest of
\* them, also after the smallest has left (apply_concurrent_frontend_resize, called
\* before and after closed clients are removed), and its PTY has the same size.
SmallestWins ==
  (daemon = "serving" /\ at = "poll") =>
    \A p \in Panes : Wanted(p) # {} => workspace.size[p] = Smallest(p) /\ pty[p] = Smallest(p)

\* "A normal live daemon serves until explicit session shutdown" and "Attach client
\* disconnect is not a daemon shutdown condition" (docs/adr/0042:31-32): no client,
\* whenever it leaves, makes the loop return an error.
ServesUntilShutdown == daemon # "failed"

\* A connection that ended leaves the list, whatever it had sent before and whichever
\* of its two tasks notices first.
EventuallyGone ==
  \A c \in Clients :
    (peer[c] = "gone" /\ c \in live) ~> (c \notin live \/ daemon # "serving")
=============================================================================
