--------------------------- MODULE SurfaceDelivery ---------------------------
(***************************************************************************)
(* Delivery of versioned pane surfaces from the session actors of one      *)
(* daemon to one attached client:                                          *)
(*                                                                         *)
(*   session actor --round--> latest_surfaces --watch--> client write task *)
(*                 --socket--> client surface cache                        *)
(*                                                                         *)
(* The serve loop (local.rs) signals every changed pane to the client's    *)
(* AsyncClientOutput, which keeps only the latest signal of each pane.  The *)
(* write task (async_live.rs) takes a copy of the signal set whenever it   *)
(* changed, and writes one frame per pane: the bundled patch when the      *)
(* client holds the version the patch is based on, else the snapshot.  The *)
(* client (client_state.rs, surface.rs) rejects a patch on any other base. *)
(*                                                                         *)
(* Connections of several clients share no delivery state, so one client   *)
(* stands for each of them.  A surface is represented by the terminal it   *)
(* shows (session, pane id, generation of that id) and its version.        *)
(***************************************************************************)
EXTENDS Integers, Sequences, FiniteSets

CONSTANTS
  Sessions,        \* sessions served on the socket
  Panes,           \* pane ids; every session draws its ids from the same set
  RootPane,        \* the pane a new session starts with ("pane-1")
  SnapshotBytes,   \* encoded size of a snapshot frame
  PatchBytes,      \* encoded size of a patch frame
  SurfaceByteCap,  \* surface_byte_cap of AsyncClientOutput
  WireCap,         \* frames the socket holds before a write blocks
  MaxVersion,      \* bound: surface versions
  MaxGeneration,   \* bound: how often a pane id is created in a session
  MaxAttaches      \* bound: how often the client attaches

ASSUME ConstantsAssumption ==
  /\ Sessions # {} /\ IsFiniteSet(Panes) /\ RootPane \in Panes
  /\ SnapshotBytes \in Nat /\ PatchBytes \in Nat /\ SurfaceByteCap \in Nat
  /\ WireCap \in Nat \ {0} /\ MaxAttaches \in Nat
  /\ MaxVersion \in Nat /\ MaxGeneration \in Nat

VARIABLES
  panes,                   \* Session: pane -> live, gen, surface_version, last_patch_kind
  daemon,                  \* "serving", or "failed" once the serve loop returned an error
  client,                  \* "detached", "live" or "rejected"
  attached,                \* the session the client last attached to
  attaches,                \* attaches so far (bound)
  known_surface_versions,  \* LiveAttachedClient: what the serve loop signalled
  round,                   \* panes the running signal round has still to visit
  latest_surfaces,         \* AsyncClientOutput: latest signal of each pane
  unseen,                  \* the watch channel holds a value the task has not taken
  batch,                   \* signals the write task is working through
  written,                 \* ClientWriteTaskState.known_surface_versions
  wire,                    \* frames written and not yet read by the client
  cache                    \* ClientAttachState.surfaces: pane -> version, shows

conn == <<known_surface_versions, round, latest_surfaces, unseen, batch, written>>
vars == <<panes, daemon, client, attached, attaches, conn, wire, cache>>

-----------------------------------------------------------------------------
(* Data *)

Absent == 0          \* no version: versions of leaf panes start at 1
NoSignal == [version |-> Absent, snapshot_required |-> FALSE, has_patch |-> FALSE,
             shows |-> {}]
Nothing == [version |-> Absent, shows |-> {}]

\* A terminal is a session, a pane id and which terminal of that id it is.  A
\* surface shows one, or several where patches of one were applied to another.
Terminal == Sessions \X Panes \X Nat
Kinds == {"patch", "full"}   \* "full": PatchKind::FullRefreshRequired
Pane == [live : BOOLEAN, gen : Nat, version : Nat, kind : Kinds]
Signal == [version : Nat, snapshot_required : BOOLEAN, has_patch : BOOLEAN,
           shows : SUBSET Terminal]
Frame == [kind : {"current", "snapshot", "patch"}, pane : Panes, base : Nat,
          version : Nat, shows : SUBSET Terminal]

TerminalOf(s, p) == {<<s, p, panes[s][p].gen>>}
LivePanes(s) == {p \in Panes : panes[s][p].live}
NoSignals == [p \in Panes |-> NoSignal]
CachedVersions == [p \in Panes |-> cache[p].version]

TypeOK ==
  /\ panes \in [Sessions -> [Panes -> Pane]]
  /\ daemon \in {"serving", "failed"}
  /\ client \in {"detached", "live", "rejected"}
  /\ attached \in Sessions /\ attaches \in Nat
  /\ known_surface_versions \in [Panes -> Nat]
  /\ round \subseteq Panes
  /\ latest_surfaces \in [Panes -> Signal]
  /\ unseen \in BOOLEAN
  /\ batch \in [Panes -> Signal]
  /\ written \in [Panes -> Nat]
  /\ wire \in Seq(Frame)
  /\ cache \in [Panes -> [version : Nat, shows : SUBSET Terminal]]

NoConnection ==
  /\ round = {} /\ unseen = FALSE
  /\ latest_surfaces = NoSignals /\ batch = NoSignals
  /\ known_surface_versions = [p \in Panes |-> Absent]
  /\ written = [p \in Panes |-> Absent]

\* Session::initial: one pane, already at surface version 2.
Init ==
  /\ panes = [s \in Sessions |-> [p \in Panes |->
       [live |-> p = RootPane, gen |-> IF p = RootPane THEN 1 ELSE 0,
        version |-> IF p = RootPane THEN 2 ELSE Absent, kind |-> "patch"]]]
  /\ daemon = "serving" /\ client = "detached"
  /\ attached \in Sessions /\ attaches = 0
  /\ NoConnection
  /\ wire = <<>>
  /\ cache = [p \in Panes |-> Nothing]
-----------------------------------------------------------------------------
(* The session actor.  It runs on the serve loop's thread, so the session  *)
(* does not change while the loop is inside a signal round of its client.  *)

SessionMayChange(s) == daemon = "serving" /\ (s = attached => round = {})

Advanced(pane, kind) ==
  [live |-> TRUE, gen |-> pane.gen, version |-> pane.version + 1, kind |-> kind]

\* A changed surface: pane output (apply_terminal_update) or a committed resize.
AdvanceSurface(s, p, kind) ==
  /\ SessionMayChange(s)
  /\ panes[s][p].live /\ panes[s][p].version < MaxVersion
  /\ panes' = [panes EXCEPT ![s][p] = Advanced(@, kind)]
  /\ UNCHANGED <<daemon, client, attached, attaches, conn, wire, cache>>

NewPane(gen) == [live |-> TRUE, gen |-> gen + 1, version |-> 1, kind |-> "patch"]

\* add_tab: the new tab's pane starts at version 1 whatever the id was used for before.
NewTab(s, q) ==
  /\ SessionMayChange(s)
  /\ ~panes[s][q].live /\ panes[s][q].gen < MaxGeneration
  /\ panes' = [panes EXCEPT ![s][q] = NewPane(@.gen)]
  /\ UNCHANGED <<daemon, client, attached, attaches, conn, wire, cache>>

\* split_pane_node: the split pane shrinks (full refresh), the new one starts at 1.
SplitPane(s, p, q) ==
  /\ SessionMayChange(s)
  /\ panes[s][p].live /\ panes[s][p].version < MaxVersion
  /\ ~panes[s][q].live /\ panes[s][q].gen < MaxGeneration
  /\ panes' = [panes EXCEPT ![s][p] = Advanced(@, "full"), ![s][q] = NewPane(@.gen)]
  /\ UNCHANGED <<daemon, client, attached, attaches, conn, wire, cache>>

Closed(pane) ==
  [live |-> FALSE, gen |-> pane.gen, version |-> pane.version, kind |-> pane.kind]

\* close_tab: all panes of a tab go; the last tab of a session is never closed.
CloseTab(s, closing) ==
  /\ SessionMayChange(s)
  /\ closing # {} /\ closing \subseteq LivePanes(s) /\ closing # LivePanes(s)
  /\ panes' = [panes EXCEPT ![s] = [p \in Panes |-> IF p \in closing THEN Closed(@[p]) ELSE @[p]]]
  /\ UNCHANGED <<daemon, client, attached, attaches, conn, wire, cache>>
-----------------------------------------------------------------------------
(* The serve loop's side of the connection *)

\* surface_response: what the daemon answers to a client that claims `known`.
AttachFrame(s, p, known) ==
  LET current == panes[s][p].version
      frame(kind) == [kind |-> kind, pane |-> p,
                      base |-> IF kind = "patch" THEN known ELSE Absent,
                      version |-> current, shows |-> TerminalOf(s, p)]
  IN  IF known = current THEN frame("current")
      ELSE IF known # Absent /\ panes[s][p].kind # "full" /\ known + 1 = current
      THEN frame("patch")
      ELSE frame("snapshot")

\* The client attaches with the versions it has cached, whichever session they
\* came from; the daemon answers for the target pane and believes the rest.
Attach(s, p) ==
  /\ daemon = "serving" /\ client = "detached" /\ attaches < MaxAttaches
  /\ panes[s][p].live
  /\ attached' = s /\ attaches' = attaches + 1 /\ client' = "live"
  /\ wire' = <<AttachFrame(s, p, cache[p].version)>>
  /\ known_surface_versions' = [CachedVersions EXCEPT ![p] = panes[s][p].version]
  /\ written' = known_surface_versions'
  /\ UNCHANGED <<panes, daemon, round, latest_surfaces, unseen, batch, cache>>

\* Each iteration of the loop visits every leaf pane the client is not known to have.
StartRound ==
  /\ daemon = "serving" /\ client = "live" /\ round = {}
  /\ round' = {p \in LivePanes(attached) :
                 known_surface_versions[p] # panes[attached][p].version}
  /\ round' # {}
  /\ UNCHANGED <<panes, daemon, client, attached, attaches, known_surface_versions,
                 latest_surfaces, unseen, batch, written, wire, cache>>

\* surface_signal_set_bytes
SignalBytes(signals) ==
  SnapshotBytes * Cardinality({p \in Panes : signals[p] # NoSignal})
  + PatchBytes * Cardinality({p \in Panes : signals[p].has_patch})

\* enforce_surface_budget, first resort: every pane needs a snapshot from now on.
Degraded(signals) ==
  [p \in Panes |-> IF signals[p] = NoSignal THEN NoSignal
                   ELSE [version |-> signals[p].version, snapshot_required |-> TRUE,
                         has_patch |-> FALSE, shows |-> signals[p].shows]]

\* Mutants: the set is sent unchecked; the second check is missing.
SendSignals_Unchecked(p, signals) ==
  /\ latest_surfaces' = signals /\ unseen' = TRUE
  /\ known_surface_versions' = [known_surface_versions EXCEPT ![p] = panes[attached][p].version]
  /\ round' = round \ {p} /\ UNCHANGED daemon
SendSignals_CheckedOnce(p, signals) ==
  SendSignals_Unchecked(p, IF SignalBytes(signals) <= SurfaceByteCap THEN signals
                           ELSE Degraded(signals))

\* enforce_surface_budget and send: the watch channel gets the set if it fits,
\* at the latest after degrading; an error ends the serve loop for every client.
SendSignals(p, signals) ==
  LET fitting == IF SignalBytes(signals) <= SurfaceByteCap THEN signals ELSE Degraded(signals)
  IN  IF SignalBytes(fitting) <= SurfaceByteCap
      THEN /\ latest_surfaces' = fitting
           /\ unseen' = TRUE
           /\ known_surface_versions' =
                [known_surface_versions EXCEPT ![p] = panes[attached][p].version]
           /\ round' = round \ {p}
           /\ UNCHANGED daemon
      ELSE /\ daemon' = "failed"
           /\ round' = {}
           /\ UNCHANGED <<latest_surfaces, unseen, known_surface_versions>>

\* Mutant: the pane is marked signalled, but a pending signal is kept (first wins).
SignalSurface_FirstWins(p) ==
  /\ daemon = "serving" /\ client = "live" /\ p \in round
  /\ LET pane == panes[attached][p]
         signal == [version |-> pane.version, snapshot_required |-> FALSE,
                    has_patch |-> pane.kind # "full", shows |-> TerminalOf(attached, p)]
     IN  SendSignals(p, IF unseen /\ latest_surfaces[p] # NoSignal THEN latest_surfaces
                        ELSE [latest_surfaces EXCEPT ![p] = signal])
  /\ UNCHANGED <<panes, client, attached, attaches, batch, written, wire, cache>>

\* signal_surface_frame_bundle for one pane of the round: the latest signal wins,
\* but a demand for a snapshot is never withdrawn.
SignalSurface(p) ==
  /\ daemon = "serving" /\ client = "live" /\ p \in round
  /\ LET pane == panes[attached][p]
         signal == [version |-> pane.version,
                    snapshot_required |-> latest_surfaces[p].snapshot_required,
                    has_patch |-> pane.kind # "full",
                    shows |-> TerminalOf(attached, p)]
     IN  SendSignals(p, [latest_surfaces EXCEPT ![p] = signal])
  /\ UNCHANGED <<panes, client, attached, attaches, batch, written, wire, cache>>
-----------------------------------------------------------------------------
(* The client's write task *)

\* recv_write_event: take a copy of the latest signals and mark them seen.
TakeSignals ==
  /\ daemon = "serving" /\ client = "live"
  /\ unseen /\ batch = NoSignals
  /\ batch' = latest_surfaces /\ unseen' = FALSE
  /\ UNCHANGED <<panes, daemon, client, attached, attaches, known_surface_versions, round,
                 latest_surfaces, written, wire, cache>>

\* Mutant: a patch is sent to whoever has some version of the pane.
PatchApplies_AnyBase(signal, known) ==
  ~signal.snapshot_required /\ signal.has_patch /\ known # Absent

\* bundled_surface_frame_for_signal: the patch of a bundle has base version - 1.
PatchApplies(signal, known) ==
  /\ ~signal.snapshot_required /\ signal.has_patch
  /\ known # Absent /\ known + 1 = signal.version

\* Mutant: the base is one version too old.
SignalFrame_OldBase(p, signal, known) ==
  [kind |-> IF PatchApplies(signal, known) THEN "patch" ELSE "snapshot", pane |-> p,
   base |-> known - 1, version |-> signal.version, shows |-> signal.shows]

SignalFrame(p, signal, known) ==
  LET patch == PatchApplies(signal, known)
  IN  [kind |-> IF patch THEN "patch" ELSE "snapshot", pane |-> p,
       base |-> IF patch THEN signal.version - 1 ELSE Absent,
       version |-> signal.version, shows |-> signal.shows]

\* Mutant: the watch channel is marked seen when the batch is done.
WriteSurface_SeenLate(p) ==
  /\ daemon = "serving" /\ client = "live"
  /\ batch[p] # NoSignal
  /\ batch' = [batch EXCEPT ![p] = NoSignal]
  /\ unseen' = (unseen /\ batch' # NoSignals)
  /\ Len(wire) < WireCap
  /\ wire' = Append(wire, SignalFrame(p, batch[p], written[p]))
  /\ written' = [written EXCEPT ![p] = batch[p].version]
  /\ UNCHANGED <<panes, daemon, client, attached, attaches, known_surface_versions, round,
                 latest_surfaces, cache>>

\* write_surface_signals: one pane of the batch.
WriteSurface(p) ==
  /\ daemon = "serving" /\ client = "live"
  /\ batch[p] # NoSignal
  /\ batch' = [batch EXCEPT ![p] = NoSignal]
  /\ IF written[p] = batch[p].version
     THEN UNCHANGED <<wire, written>>
     ELSE /\ Len(wire) < WireCap
          /\ wire' = Append(wire, SignalFrame(p, batch[p], written[p]))
          /\ written' = [written EXCEPT ![p] = batch[p].version]
  /\ UNCHANGED <<panes, daemon, client, attached, attaches, known_surface_versions, round,
                 latest_surfaces, unseen, cache>>
-----------------------------------------------------------------------------
(* The client *)

\* render_attach ("current"), from_snapshot and apply_patch.
Acceptable(frame) ==
  CASE frame.kind = "snapshot" -> TRUE
    [] frame.kind = "current"  -> cache[frame.pane].version = frame.version
    [] frame.kind = "patch"    -> /\ cache[frame.pane].version # Absent
                                  /\ cache[frame.pane].version = frame.base

Applied(frame) ==
  CASE frame.kind = "snapshot" -> [version |-> frame.version, shows |-> frame.shows]
    [] frame.kind = "current"  -> cache[frame.pane]
    [] frame.kind = "patch"    ->
         [version |-> frame.version,
          shows |-> cache[frame.pane].shows \cup frame.shows]

ReceiveFrame ==
  /\ client = "live" /\ wire # <<>>
  /\ wire' = Tail(wire)
  /\ IF Acceptable(Head(wire))
     THEN /\ cache' = [cache EXCEPT ![Head(wire).pane] = Applied(Head(wire))]
          /\ UNCHANGED client
     ELSE client' = "rejected" /\ UNCHANGED cache
  /\ UNCHANGED <<panes, daemon, attached, attaches, conn>>

\* Mutant: the write task of the old connection lives on.
Detach_KeepsTask ==
  /\ client = "live" /\ client' = "detached"
  /\ wire' = <<>> /\ round' = {}
  /\ UNCHANGED <<panes, daemon, attached, attaches, cache, known_surface_versions, written,
                 latest_surfaces, unseen, batch>>

\* The connection ends at any point; frames on their way are lost, the cache stays.
Detach ==
  /\ client = "live"
  /\ client' = "detached"
  /\ wire' = <<>>
  /\ known_surface_versions' = [p \in Panes |-> Absent]
  /\ written' = [p \in Panes |-> Absent]
  /\ latest_surfaces' = NoSignals /\ batch' = NoSignals
  /\ round' = {} /\ unseen' = FALSE
  /\ UNCHANGED <<panes, daemon, attached, attaches, cache>>
-----------------------------------------------------------------------------
SessionStep ==
  \E s \in Sessions :
    \/ \E p \in Panes, kind \in Kinds : AdvanceSurface(s, p, kind)
    \/ \E q \in Panes : NewTab(s, q)
    \/ \E p, q \in Panes : SplitPane(s, p, q)
    \/ \E closing \in SUBSET Panes : CloseTab(s, closing)

Next ==
  \/ SessionStep
  \/ \E s \in Sessions, p \in Panes : Attach(s, p)
  \/ StartRound
  \/ \E p \in Panes : SignalSurface(p)
  \/ TakeSignals
  \/ \E p \in Panes : WriteSurface(p)
  \/ ReceiveFrame
  \/ Detach

Spec == Init /\ [][Next]_vars

\* The loop iterates at least every LIVE_IDLE_POLL_TIMEOUT, the runtime schedules
\* the write task while it has work, and an attached client keeps reading.
Fairness ==
  /\ WF_vars(StartRound)
  /\ \A p \in Panes : WF_vars(SignalSurface(p)) /\ WF_vars(WriteSurface(p))
  /\ WF_vars(TakeSignals)
  /\ WF_vars(ReceiveFrame)

FairSpec == Spec /\ Fairness
-----------------------------------------------------------------------------
(* Properties *)

\* Every frame the daemon sends applies to what the client then holds: apply_patch
\* never meets a foreign base version (surface.rs:586) and render_attach never a
\* `Current` for a version it lacks (client_state.rs:318), however rounds, the
\* write task, reattachment and reused pane ids interleave.
NeverRejected == client # "rejected"

\* When nothing is on its way any more, the client holds exactly the versions the
\* serve loop believes it has.  The loop never signals such a version again
\* (local.rs:1601), so a signal lost on the way would be lost for good.
Quiescent == client = "live" /\ ~unseen /\ batch = NoSignals /\ wire = <<>>
QuiescentAgreement == Quiescent => known_surface_versions = CachedVersions

\* What waits in the watch channel stays within the surface byte budget of the
\* client (enforce_surface_budget, async_live.rs:342), whatever was signalled.
SurfaceBudgetKept == SignalBytes(latest_surfaces) <= SurfaceByteCap

\* A client that stays attached to a daemon that keeps serving ends up with the
\* current version of every pane of its session, although signals overwrite each
\* other before they are written (latest wins).
InSync == \A p \in LivePanes(attached) : cache[p].version = panes[attached][p].version
EventuallyInSync == <>[](client = "live" /\ daemon = "serving") => <>[]InSync

\* With one session and no pane id used twice, delivery is a cache that only moves
\* forward, to versions the session published: signals may be skipped, but an old
\* surface never replaces a newer one, not even across reconnects.
TheSession == CHOOSE s \in Sessions : TRUE
Cache == INSTANCE SurfaceCache WITH
           published <- [p \in Panes |-> panes[TheSession][p].version],
           held <- CachedVersions
CacheOnlyMovesForward == Cache!Spec
=============================================================================
