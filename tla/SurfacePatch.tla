---------------------------- MODULE SurfacePatch ----------------------------
(***************************************************************************)
(* How the daemon turns an engine's update of a pane into a patch, and     *)
(* what a client makes of it.                                              *)
(*                                                                         *)
(* apply_terminal_update (session.rs) compares the new terminal state with *)
(* the pane, takes it over, and keeps of the comparison only the kind of   *)
(* the last patch, the rows it touched and its palette difference.  A      *)
(* patch frame is built from those later, when a client that holds the     *)
(* version before asks (SurfaceDelivery says when that is).  The client    *)
(* applies the frame to its copy of the surface or rejects it.             *)
(*                                                                         *)
(* A row stands for its text, runs, prompt and flags together; cursor      *)
(* stands for the cursor, the title and the working directory; scalars for *)
(* the colors other than the palette.                                      *)
(***************************************************************************)
EXTENDS Integers, Sequences, FiniteSets

CONSTANTS
  Cells,        \* contents of a row
  Blank,        \* the row a client shows where the snapshot has none
  Values,       \* values of every other property of a terminal
  Shades,       \* palette entries
  PaletteSize,  \* entries of a palette, once the engine has set one
  MaxHeight,    \* bound: rows of a pane
  MaxVersion,   \* bound: surface versions
  MaxChanges    \* bound: properties one update changes

ASSUME ConstantsAssumption ==
  /\ Cells # {} /\ Blank \in Cells /\ Values # {} /\ Shades # {}
  /\ PaletteSize \in Nat /\ MaxHeight \in Nat \ {0}
  /\ MaxVersion \in Nat /\ MaxChanges \in Nat

VARIABLES
  pane,      \* the session's pane: height, surface_version, content, last_*
  previous,  \* history: the content of the version before
  client,    \* the client's copy: version (0: none), height and content
  rejected   \* whether the client rejected the last frame

vars == <<pane, previous, client, rejected>>

-----------------------------------------------------------------------------
(* Terminal state *)

PatchKinds == {"rows", "color", "mode", "cursor", "full"}
Lines(n) == UNION {[1..k -> Cells] : k \in 0..n}
\* The palette is empty until the engine reports one, and keeps its size then.
Palettes == {<<>>} \cup [1..PaletteSize -> Shades]

\* The engine may return one line more than the pane has rows.
Content(height) ==
  [surface : Values, styles : Values, lines : Lines(height + 1), cursor : Values,
   modes : Values, scalars : Values, palette : Palettes]
Properties == {"surface", "styles", "lines", "cursor", "modes", "scalars", "palette"}

NoDiff == [start |-> 0, colors |-> <<>>]
Changed(old, new) == {f \in Properties : old[f] # new[f]}
\* `lines` is the content's lines as the pane or the client holds them.
WithLines(content, lines) ==
  [surface |-> content.surface, styles |-> content.styles, lines |-> lines,
   cursor |-> content.cursor, modes |-> content.modes, scalars |-> content.scalars,
   palette |-> content.palette]
Truncated(lines, height) == SubSeq(lines, 1, IF Len(lines) < height THEN Len(lines) ELSE height)
Padded(lines, height) == [i \in 1..height |-> IF i <= Len(lines) THEN lines[i] ELSE Blank]
-----------------------------------------------------------------------------
(* The daemon: apply_terminal_update *)

\* Mutant: a shorter list of conditions for a full refresh.
PatchKind_NoStyles(changed, force) ==
  IF force \/ "surface" \in changed \/ ("lines" \in changed /\ {"scalars", "palette"} \cap changed # {})
  THEN "full" ELSE IF "lines" \in changed THEN "rows"
  ELSE IF {"scalars", "palette"} \cap changed # {} THEN "color"
  ELSE IF "modes" \in changed THEN "mode" ELSE "cursor"

\* Mutant: rows win over colors.
PatchKind_RowsFirst(changed, force) ==
  IF force \/ {"surface", "styles"} \cap changed # {} THEN "full"
  ELSE IF "lines" \in changed THEN "rows"
  ELSE IF {"scalars", "palette"} \cap changed # {} THEN "color"
  ELSE IF "modes" \in changed THEN "mode" ELSE "cursor"

\* terminal_patch_kind, for a set of changed properties that is not empty.
PatchKind(changed, force) ==
  LET recolored == {"scalars", "palette"} \cap changed # {}
      full == force \/ {"surface", "styles"} \cap changed # {} \/ ("lines" \in changed /\ recolored)
  IN  IF full THEN "full"
      ELSE IF "lines" \in changed THEN "rows"
      ELSE IF recolored THEN "color"
      ELSE IF "modes" \in changed THEN "mode"
      ELSE "cursor"

\* surface_row_update_indices: all rows if their number changed, else those that differ.
RowUpdateIndices(old, new, height) ==
  IF Len(old) # Len(new) THEN 1..Len(new) \cap 1..height
  ELSE {i \in 1..Len(new) : old[i] # new[i]} \cap 1..height

\* palette_diff: the entries from the first difference on.
PaletteDiff(old, new) ==
  LET common == IF Len(old) < Len(new) THEN Len(old) ELSE Len(new)
      start == CHOOSE n \in 0..common : /\ \A i \in 1..n : old[i] = new[i]
                                        /\ n = common \/ old[n+1] # new[n+1]
  IN  IF old = new THEN NoDiff
      ELSE [start |-> start, colors |-> SubSeq(new, start + 1, Len(new))]

\* apply_terminal_update.  Versions grow with every change of the surface; an
\* update without one still forgets the palette difference of the last patch.
ApplyUpdate(p, update, height, force) ==
  LET changed == Changed(p.content, update)
      kind == PatchKind(changed, force)
      advanced == force \/ changed # {}
  IN  [height |-> height,
       version |-> IF advanced THEN p.version + 1 ELSE p.version,
       content |-> WithLines(update, Truncated(update.lines, height)),
       kind |-> IF advanced THEN kind ELSE p.kind,
       rows |-> IF ~advanced THEN p.rows
                ELSE IF kind = "rows"
                THEN RowUpdateIndices(p.content.lines, update.lines, height) ELSE {},
       diff |-> IF advanced /\ kind = "color"
                THEN PaletteDiff(p.content.palette, update.palette) ELSE NoDiff]

Take(update, height, force) ==
  /\ pane' = ApplyUpdate(pane, update, height, force)
  /\ previous' = IF pane'.version = pane.version THEN previous ELSE pane.content
  /\ UNCHANGED <<client, rejected>>

\* Both engines keep the number of lines or grow it while the pane keeps its size,
\* and a palette once set.
EngineUpdate(update) ==
  /\ Len(update.palette) >= Len(pane.content.palette)
  /\ Cardinality(Changed(pane.content, update)) <= MaxChanges

\* What an engine may return; at the bound only updates that change nothing are left.
Updates(height) == IF pane.version < MaxVersion THEN Content(height) ELSE {pane.content}

\* apply_pane_output_with_engine
ApplyOutput(update) ==
  /\ EngineUpdate(update) /\ Len(update.lines) >= Len(pane.content.lines)
  /\ Len(update.lines) <= pane.height + 1
  /\ Take(update, pane.height, FALSE)

\* commit_pane_resize_with_engine; the height stays when only the width changes.
CommitResize(update, height) ==
  /\ pane.version < MaxVersion /\ EngineUpdate(update) /\ Len(update.lines) \in 1..(height + 1)
  /\ Take(update, height, TRUE)
-----------------------------------------------------------------------------
(* Frames *)

\* pane_surface_patch_frame_for_pane: rows and colors as they are now, the choice
\* of rows and of palette or difference as the last update left it.
PatchFrame(p) ==
  [kind |-> p.kind,
   rows |-> [i \in p.rows |-> IF i <= Len(p.content.lines) THEN p.content.lines[i] ELSE Blank],
   cursor |-> p.content.cursor, modes |-> p.content.modes, scalars |-> p.content.scalars,
   palette |-> IF p.kind = "color" THEN <<>> ELSE p.content.palette,
   diff |-> p.diff]

\* TerminalColorSummary::materialize; an empty difference cannot be told from none.
Materialized(frame, base) ==
  IF frame.diff.colors # <<>> THEN SubSeq(base, 1, frame.diff.start) \o frame.diff.colors
  ELSE IF frame.palette = <<>> THEN base
  ELSE frame.palette

\* ClientPaneSurface::apply_patch: every kind but "color" must repeat the client's colors.
Acceptable(frame, copy) ==
  CASE frame.kind = "full" -> FALSE
    [] frame.kind = "color" -> frame.diff.start <= Len(copy.content.palette)
    [] frame.kind \in {"mode", "cursor"} ->
         frame.scalars = copy.content.scalars /\ frame.palette = copy.content.palette
    [] frame.kind = "rows" ->
         /\ frame.scalars = copy.content.scalars /\ frame.palette = copy.content.palette
         /\ DOMAIN frame.rows \subseteq 1..copy.height

Patched(frame, copy) ==
  LET c == copy.content
  IN  [surface |-> c.surface, styles |-> c.styles,
       lines |-> [i \in 1..copy.height |->
                    IF frame.kind = "rows" /\ i \in DOMAIN frame.rows THEN frame.rows[i]
                    ELSE c.lines[i]],
       cursor |-> frame.cursor,
       modes |-> IF frame.kind = "cursor" THEN c.modes ELSE frame.modes,
       scalars |-> IF frame.kind = "color" THEN frame.scalars ELSE c.scalars,
       palette |-> IF frame.kind = "color" THEN Materialized(frame, c.palette) ELSE c.palette]

\* ClientPaneSurface::from_snapshot
ReceiveSnapshot ==
  /\ client' = [version |-> pane.version, height |-> pane.height,
                content |-> WithLines(pane.content, Padded(pane.content.lines, pane.height))]
  /\ rejected' = FALSE
  /\ UNCHANGED <<pane, previous>>

\* The client holds the base version of the last patch and gets it.
ReceivePatch ==
  /\ client.version # 0 /\ client.version + 1 = pane.version /\ pane.kind # "full"
  /\ IF Acceptable(PatchFrame(pane), client)
     THEN /\ client' = [version |-> pane.version, height |-> client.height,
                        content |-> Patched(PatchFrame(pane), client)]
          /\ rejected' = FALSE
     ELSE rejected' = TRUE /\ UNCHANGED client
  /\ UNCHANGED <<pane, previous>>
-----------------------------------------------------------------------------
Value == CHOOSE v \in Values : TRUE
Row == CHOOSE c \in Cells : c # Blank \/ Cells = {Blank}

\* A new pane: one line, colors still unset.
Init ==
  /\ pane = [height |-> MaxHeight, version |-> 1,
             content |-> [surface |-> Value, styles |-> Value, lines |-> <<Row>>,
                          cursor |-> Value, modes |-> Value, scalars |-> Value,
                          palette |-> <<>>],
             kind |-> "rows", rows |-> {1}, diff |-> NoDiff]
  /\ previous = pane.content
  /\ client = [version |-> 0, height |-> 0, content |-> pane.content]
  /\ rejected = FALSE

Next ==
  \/ \E update \in Updates(pane.height) : ApplyOutput(update)
  \/ \E height \in 1..MaxHeight : \E update \in Updates(height) : CommitResize(update, height)
  \/ ReceiveSnapshot
  \/ ReceivePatch

Spec == Init /\ [][Next]_vars
-----------------------------------------------------------------------------
(* Properties *)

TypeOK ==
  /\ pane.height \in 1..MaxHeight /\ pane.version \in Nat /\ pane.kind \in PatchKinds
  /\ pane.content \in Content(pane.height) /\ Len(pane.content.lines) <= pane.height
  /\ pane.rows \subseteq 1..pane.height
  /\ client.version \in 0..pane.version
  /\ client.version # 0 => DOMAIN client.content.lines = 1..client.height
  /\ rejected \in BOOLEAN

\* A client that has reached a version of the surface shows that surface, whichever
\* snapshots and patches took it there, up to the palette
\* (apply_terminal_update, apply_patch).
PatchedIsCurrent ==
  client.version = pane.version =>
    /\ client.height = pane.height
    /\ Changed(client.content, WithLines(pane.content, Padded(pane.content.lines, pane.height)))
         \subseteq {"palette"}

\* A patch on the client's own version is refused only if the client's palette had
\* already gone wrong ("... patch changes terminal colors", surface.rs:608-653).
RefusedOnlyForPalette ==
  [][rejected' /\ ~rejected => client.content.palette # previous.palette]_vars
=============================================================================
