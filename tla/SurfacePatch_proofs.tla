------------------------- MODULE SurfacePatch_proofs -------------------------
(***************************************************************************)
(* PatchedIsCurrent for all constants.  The invariant behind it: what the  *)
(* pane remembers of its last update is enough to rebuild the surface from *)
(* the version before (PatchSound), and a client one version behind holds  *)
(* exactly that version (ClientFollows).  What colors a patch may carry is *)
(* in ColorInv; from it follows the only reason for a refusal.             *)
(***************************************************************************)
EXTENDS SurfacePatch, TLAPS, SequenceTheorems, WellFoundedInduction

\* The row a surface of n lines shows at i.
RowAt(lines, i) == IF i <= Len(lines) THEN lines[i] ELSE Blank

PaneInv ==
  /\ pane.height \in 1..MaxHeight
  /\ pane.version \in Nat \ {0}
  /\ pane.content.lines \in Seq(Cells) /\ Len(pane.content.lines) <= pane.height

\* Nothing outside the patch has changed since the version before.
PatchSound ==
  pane.kind # "full" =>
    /\ previous.surface = pane.content.surface /\ previous.styles = pane.content.styles
    /\ pane.rows # {} => pane.kind = "rows"
    /\ \A i \in (1..pane.height) \ pane.rows :
         RowAt(previous.lines, i) = RowAt(pane.content.lines, i)
    /\ pane.kind # "color" => previous.scalars = pane.content.scalars
    /\ pane.kind = "cursor" => previous.modes = pane.content.modes

\* The client shows `content`, up to the palette.
Shows(content) ==
  /\ client.height = pane.height
  /\ client.content.surface = content.surface /\ client.content.styles = content.styles
  /\ client.content.cursor = content.cursor /\ client.content.modes = content.modes
  /\ client.content.scalars = content.scalars
  /\ client.content.lines = [i \in 1..pane.height |-> RowAt(content.lines, i)]

ClientFollows ==
  /\ client.version \in Nat /\ client.version <= pane.version
  /\ client.version = pane.version => Shows(pane.content)
  /\ client.version # 0 /\ client.version + 1 = pane.version /\ pane.kind # "full"
       => Shows(previous)

IInv == PaneInv /\ PatchSound /\ ClientFollows
-----------------------------------------------------------------------------
LEMMA ChangedMembers ==
  ASSUME NEW old, NEW new
  PROVE  \A f \in Properties : f \notin Changed(old, new) => old[f] = new[f]
BY DEF Changed

LEMMA TruncatedRows ==
  ASSUME NEW lines \in Seq(Cells), NEW height \in Nat
  PROVE  /\ Truncated(lines, height) \in Seq(Cells)
         /\ Len(Truncated(lines, height)) = IF Len(lines) < height THEN Len(lines) ELSE height
         /\ \A i \in 1..height : RowAt(Truncated(lines, height), i) = RowAt(lines, i)
<1> DEFINE n == IF Len(lines) < height THEN Len(lines) ELSE height
<1>1. n \in Nat /\ n <= Len(lines) /\ n <= height
  OBVIOUS
<1>2. /\ SubSeq(lines, 1, n) \in Seq(Cells) /\ Len(SubSeq(lines, 1, n)) = n
      /\ \A i \in 1..n : SubSeq(lines, 1, n)[i] = lines[i]
  BY <1>1
<1> QED BY <1>1, <1>2 DEF Truncated, RowAt

LEMMA InitInv == Init => IInv
<1> SUFFICES ASSUME Init PROVE IInv
  OBVIOUS
<1>1. Row \in Cells
  BY ConstantsAssumption DEF Row
<1>2. <<Row>> \in Seq(Cells) /\ Len(<<Row>>) = 1
  BY <1>1
<1>3. /\ pane.height = MaxHeight /\ pane.version = 1 /\ pane.content.lines = <<Row>>
      /\ previous = pane.content /\ client.version = 0 /\ pane.kind = "rows"
  BY DEF Init
<1>4. PaneInv
  BY <1>2, <1>3, ConstantsAssumption DEF PaneInv
<1>5. PatchSound
  BY <1>3 DEF PatchSound
<1>6. ClientFollows
  BY <1>3 DEF ClientFollows
<1> QED BY <1>4, <1>5, <1>6 DEF IInv

\* What a new version remembers of the update is sound.
LEMMA AdvanceSound ==
  ASSUME IInv, NEW h \in 1..MaxHeight, NEW update, update.lines \in Seq(Cells),
         NEW force \in BOOLEAN,
         force \/ (h = pane.height /\ Len(update.lines) >= Len(pane.content.lines)),
         Take(update, h, force), force \/ Changed(pane.content, update) # {}
  PROVE  IInv'
<1> DEFINE old == pane.content
           changed == Changed(old, update)
           kind == PatchKind(changed, force)
<1>1. /\ update.lines \in Seq(Cells) /\ h \in Nat \ {0}
      /\ old.lines \in Seq(Cells) /\ Len(old.lines) <= pane.height
  BY ConstantsAssumption DEF IInv, PaneInv
<1>2. /\ pane'.height = h /\ pane'.version = pane.version + 1 /\ pane'.kind = kind
      /\ pane'.content = WithLines(update, Truncated(update.lines, h))
      /\ pane'.rows = IF kind = "rows" THEN RowUpdateIndices(old.lines, update.lines, h) ELSE {}
      /\ UNCHANGED client
  BY DEF Take, ApplyUpdate
<1>3. pane.version \in Nat \ {0} /\ previous' = old
  BY <1>2 DEF Take, IInv, PaneInv
<1>4. /\ pane'.content.surface = update.surface /\ pane'.content.styles = update.styles
      /\ pane'.content.scalars = update.scalars /\ pane'.content.modes = update.modes
      /\ pane'.content.lines = Truncated(update.lines, h)
  BY <1>2 DEF WithLines
<1>5. PaneInv'
  BY <1>1, <1>2, <1>3, <1>4, TruncatedRows DEF PaneInv
<1>6. PatchSound'
  <2> SUFFICES ASSUME kind # "full" PROVE PatchSound'
    BY <1>2 DEF PatchSound
  <2>1. /\ ~force /\ h = pane.height /\ Len(update.lines) >= Len(old.lines)
        /\ "surface" \notin changed /\ "styles" \notin changed
        /\ "lines" \in changed => kind = "rows" /\ "scalars" \notin changed
        /\ "lines" \notin changed => kind # "rows"
        /\ kind # "color" => "scalars" \notin changed
        /\ kind = "cursor" => "modes" \notin changed
    BY DEF PatchKind
  <2>2. /\ old["surface"] = update["surface"] /\ old["styles"] = update["styles"]
        /\ "lines" \notin changed => old["lines"] = update["lines"]
        /\ "scalars" \notin changed => old["scalars"] = update["scalars"]
        /\ "modes" \notin changed => old["modes"] = update["modes"]
    BY <2>1, ChangedMembers DEF Properties
  <2>3. ASSUME NEW i \in (1..h) \ pane'.rows PROVE RowAt(old.lines, i) = RowAt(update.lines, i)
    <3>1. CASE kind = "rows"
      BY <1>1, <1>2, <2>1, <2>3, <3>1 DEF RowUpdateIndices, RowAt
    <3>2. CASE kind # "rows"
      BY <2>1, <2>2, <3>2
    <3> QED BY <3>1, <3>2
  <2>4. \A i \in (1..h) \ pane'.rows : RowAt(old.lines, i) = RowAt(pane'.content.lines, i)
    BY <1>1, <1>4, <2>3, TruncatedRows
  <2>5. pane'.rows # {} => kind = "rows"
    BY <1>2
  <2> HIDE DEF kind, changed
  <2> QED BY <1>2, <1>3, <1>4, <2>1, <2>2, <2>4, <2>5 DEF PatchSound
<1>7. ClientFollows'
  <2>1. client.version \in Nat /\ client.version <= pane.version
    BY DEF IInv, ClientFollows
  <2>2. /\ client'.version \in Nat /\ client'.version <= pane'.version
        /\ client'.version # pane'.version
    BY <2>1, <1>2, <1>3
  <2>3. ASSUME client'.version + 1 = pane'.version, pane'.kind # "full" PROVE Shows(previous)'
    <3>1. client.version = pane.version
      BY <2>1, <2>3, <1>2, <1>3
    <3>2. h = pane.height
      BY <1>2, <2>3 DEF PatchKind
    <3>3. Shows(old)
      BY <3>1 DEF IInv, ClientFollows
    <3> QED BY <1>2, <1>3, <3>2, <3>3 DEF Shows
  <2> QED BY <2>2, <2>3 DEF ClientFollows
<1> QED BY <1>5, <1>6, <1>7 DEF IInv

\* An update without a change keeps what a patch is made of.
LEMMA IdleSound ==
  ASSUME IInv, NEW h \in 1..MaxHeight, NEW update, h = pane.height,
         Take(update, h, FALSE), Changed(pane.content, update) = {}
  PROVE  IInv'
<1> DEFINE old == pane.content
<1>1. /\ old["surface"] = update["surface"] /\ old["styles"] = update["styles"]
      /\ old["lines"] = update["lines"] /\ old["cursor"] = update["cursor"]
      /\ old["modes"] = update["modes"] /\ old["scalars"] = update["scalars"]
  BY ChangedMembers DEF Properties
<1>2. /\ pane'.height = h /\ pane'.version = pane.version /\ pane'.kind = pane.kind
      /\ pane'.content = WithLines(update, Truncated(update.lines, h))
      /\ pane'.rows = pane.rows /\ UNCHANGED client
  BY DEF Take, ApplyUpdate
<1>3. previous' = previous
  BY <1>2 DEF Take
<1>4. /\ pane'.content.surface = old.surface /\ pane'.content.styles = old.styles
      /\ pane'.content.scalars = old.scalars /\ pane'.content.modes = old.modes
      /\ pane'.content.cursor = old.cursor
      /\ pane'.content.lines = Truncated(old.lines, h)
  BY <1>1, <1>2 DEF WithLines
<1>5. old.lines \in Seq(Cells) /\ Len(old.lines) <= h /\ h \in Nat
  BY DEF IInv, PaneInv
<1>6. /\ \A i \in 1..h : RowAt(pane'.content.lines, i) = RowAt(old.lines, i)
      /\ pane'.content.lines \in Seq(Cells) /\ Len(pane'.content.lines) <= h
  BY <1>4, <1>5, TruncatedRows
<1>7. PaneInv'
  BY <1>2, <1>6 DEF IInv, PaneInv
<1>8. PatchSound'
  BY <1>2, <1>3, <1>4, <1>6 DEF IInv, PatchSound
<1>9. Shows(old) => Shows(pane.content)'
  BY <1>2, <1>4, <1>6 DEF Shows
<1>10. Shows(previous) => Shows(previous)'
  BY <1>2, <1>3 DEF Shows
<1> QED BY <1>2, <1>7, <1>8, <1>9, <1>10 DEF IInv, ClientFollows

LEMMA SnapshotFollows == IInv /\ ReceiveSnapshot => IInv'
<1> SUFFICES ASSUME IInv, ReceiveSnapshot PROVE IInv'
  OBVIOUS
<1>1. UNCHANGED <<pane, previous>> /\ client'.version = pane.version
  BY DEF ReceiveSnapshot
<1>2. PaneInv' /\ PatchSound'
  BY <1>1 DEF IInv, PaneInv, PatchSound
<1>3. Shows(pane.content)'
  BY DEF ReceiveSnapshot, Shows, WithLines, Padded, RowAt
<1>4. client'.version \in Nat /\ client'.version <= pane'.version
      /\ client'.version + 1 # pane'.version
  BY <1>1 DEF IInv, PaneInv
<1> QED BY <1>2, <1>3, <1>4 DEF IInv, ClientFollows

LEMMA PatchFollows == IInv /\ ReceivePatch => IInv'
<1> SUFFICES ASSUME IInv, ReceivePatch PROVE IInv'
  OBVIOUS
<1> DEFINE frame == PatchFrame(pane)
<1>1. /\ UNCHANGED <<pane, previous>> /\ pane.kind # "full" /\ client.version # 0
      /\ client.version + 1 = pane.version
  BY DEF ReceivePatch
<1>2. PaneInv' /\ PatchSound'
  BY <1>1 DEF IInv, PaneInv, PatchSound
<1>3. Shows(previous) /\ PatchSound /\ pane.height \in Nat
  BY <1>1 DEF IInv, PaneInv, ClientFollows
<1>4. CASE UNCHANGED client
  BY <1>1, <1>2, <1>4 DEF IInv, ClientFollows, Shows
<1>5. CASE client' = [version |-> pane.version, height |-> client.height,
                      content |-> Patched(frame, client)]
  <2>1. /\ client'.version = pane.version /\ client'.height = client.height
        /\ client'.content = Patched(frame, client)
    BY <1>5
  <2>2. /\ frame.kind = pane.kind /\ frame.cursor = pane.content.cursor
        /\ frame.modes = pane.content.modes /\ frame.scalars = pane.content.scalars
        /\ DOMAIN frame.rows = pane.rows
        /\ \A i \in pane.rows : frame.rows[i] = RowAt(pane.content.lines, i)
    BY DEF PatchFrame, RowAt
  <2> HIDE DEF frame
  <2>3. client'.content.surface = pane.content.surface
        /\ client'.content.styles = pane.content.styles
    BY <1>1, <1>3, <2>1 DEF Patched, PatchSound, Shows
  <2>4. client'.content.cursor = pane.content.cursor
    BY <2>1, <2>2 DEF Patched
  <2>5. client'.content.modes = pane.content.modes
    BY <1>1, <1>3, <2>1, <2>2 DEF Patched, PatchSound, Shows
  <2>6. client'.content.scalars = pane.content.scalars
    BY <1>1, <1>3, <2>1, <2>2 DEF Patched, PatchSound, Shows
  <2>7. client'.content.lines = [i \in 1..pane.height |-> RowAt(pane.content.lines, i)]
    <3>1. client'.content.lines =
            [i \in 1..client.height |->
               IF frame.kind = "rows" /\ i \in DOMAIN frame.rows THEN frame.rows[i]
               ELSE client.content.lines[i]]
      BY <2>1 DEF Patched
    <3>2. ASSUME NEW i \in 1..pane.height
          PROVE  (IF frame.kind = "rows" /\ i \in DOMAIN frame.rows THEN frame.rows[i]
                  ELSE client.content.lines[i]) = RowAt(pane.content.lines, i)
      <4>1. CASE i \in pane.rows
        BY <1>1, <1>3, <2>2, <4>1 DEF PatchSound
      <4>2. CASE i \notin pane.rows
        BY <1>1, <1>3, <2>2, <4>2 DEF PatchSound, Shows
      <4> QED BY <4>1, <4>2
    <3> QED BY <1>3, <3>1, <3>2 DEF Shows
  <2>8. Shows(pane.content)'
    BY <1>1, <1>3, <2>1, <2>3, <2>4, <2>5, <2>6, <2>7 DEF Shows
  <2> QED BY <1>1, <1>2, <2>1, <2>8 DEF IInv, PaneInv, ClientFollows
<1> QED BY <1>4, <1>5 DEF ReceivePatch

LEMMA UpdateLines ==
  ASSUME IInv, NEW h \in 1..MaxHeight, NEW update \in Updates(h)
  PROVE  update.lines \in Seq(Cells)
<1>1. CASE update \in Content(h)
  BY <1>1, ConstantsAssumption DEF Content, Lines
<1>2. CASE update = pane.content
  BY <1>2 DEF IInv, PaneInv
<1> QED BY <1>1, <1>2 DEF Updates

LEMMA NextInv == IInv /\ [Next]_vars => IInv'
<1> SUFFICES ASSUME IInv, [Next]_vars PROVE IInv'
  OBVIOUS
<1>1. pane.height \in 1..MaxHeight
  BY DEF IInv, PaneInv
<1>2. ASSUME NEW update \in Updates(pane.height), ApplyOutput(update) PROVE IInv'
  <2>1. update.lines \in Seq(Cells)
    BY <1>1, <1>2, UpdateLines
  <2> QED BY <1>1, <1>2, <2>1, AdvanceSound, IdleSound DEF ApplyOutput
<1>3. ASSUME NEW height \in 1..MaxHeight, NEW update \in Updates(height),
             CommitResize(update, height)
      PROVE  IInv'
  <2>1. update.lines \in Seq(Cells)
    BY <1>3, UpdateLines
  <2> QED BY <1>3, <2>1, AdvanceSound DEF CommitResize
<1>4. CASE UNCHANGED vars
  BY <1>4 DEF vars, IInv, PaneInv, PatchSound, ClientFollows, Shows
<1> QED BY <1>2, <1>3, <1>4, SnapshotFollows, PatchFollows DEF Next

LEMMA InvImplies == IInv => PatchedIsCurrent
<1> SUFFICES ASSUME IInv, client.version = pane.version PROVE PatchedIsCurrent
  BY DEF PatchedIsCurrent
<1> DEFINE current == WithLines(pane.content, Padded(pane.content.lines, pane.height))
<1>1. Shows(pane.content)
  BY DEF IInv, ClientFollows
<1>2. /\ current["surface"] = pane.content.surface /\ current["styles"] = pane.content.styles
      /\ current["cursor"] = pane.content.cursor /\ current["modes"] = pane.content.modes
      /\ current["scalars"] = pane.content.scalars
      /\ current["lines"] = [i \in 1..pane.height |-> RowAt(pane.content.lines, i)]
  BY DEF WithLines, Padded, RowAt
<1> HIDE DEF current
<1>3. \A f \in Properties \ {"palette"} : client.content[f] = current[f]
  BY <1>1, <1>2 DEF Properties, Shows
<1>4. Changed(client.content, current) \subseteq {"palette"}
  BY <1>3 DEF Changed
<1> QED BY <1>1, <1>4 DEF PatchedIsCurrent, Shows, current

\* A client that has reached a version shows that surface, up to the palette: rows,
\* cursor, modes, kind, styles and scalar colors survive every mix of snapshots and
\* patches, for panes and palettes of any size.
THEOREM PatchesAreFaithful == Spec => []PatchedIsCurrent
BY InitInv, NextInv, InvImplies, PTL DEF Spec
-----------------------------------------------------------------------------
(* Types, and what a refusal means *)

\* A patch that repeats the palette repeats the one before; a difference starts in it.
ColorInv ==
  /\ TypeOK
  /\ previous.palette \in Palettes
  /\ pane.kind \in {"rows", "mode", "cursor"} => previous.palette = pane.content.palette
  /\ pane.kind = "color" => pane.diff.start \in 0..Len(previous.palette)

LEMMA PaletteIsSeq == Palettes \subseteq Seq(Shades)
<1>1. \A n \in Nat : \A f \in [1..n -> Shades] : f \in Seq(Shades)
  OBVIOUS
<1>2. <<>> \in Seq(Shades)
  OBVIOUS
<1> QED BY <1>1, <1>2, ConstantsAssumption DEF Palettes

\* The first difference of two palettes exists, within the old one.
LEMMA DiffStart ==
  ASSUME NEW old \in Palettes, NEW new \in Palettes
  PROVE  PaletteDiff(old, new).start \in 0..Len(old)
<1>1. Len(old) \in Nat /\ Len(new) \in Nat
  BY PaletteIsSeq, LenProperties
<1> DEFINE common == IF Len(old) < Len(new) THEN Len(old) ELSE Len(new)
           ends == {n \in 0..common : n = common \/ old[n+1] # new[n+1]}
           First(n) == /\ \A i \in 1..n : old[i] = new[i]
                       /\ n = common \/ old[n+1] # new[n+1]
<1>2. common \in Nat /\ common <= Len(old)
  BY <1>1
<1> HIDE DEF common
<1>3. ends \subseteq Nat /\ ends # {}
  <2>1. common \in ends
    BY <1>2
  <2> QED BY <1>2, <2>1
<1>4. \E n \in ends : \A k \in ends : ~(<<k, n>> \in OpToRel(<, Nat))
  BY <1>3, NatLessThanWellFounded, WFMin, Zenon
<1>5. \A k, n \in Nat : k < n => <<k, n>> \in OpToRel(<, Nat)
  BY Zenon DEF OpToRel
<1>6. PICK n \in ends : \A k \in ends : ~(k < n)
  BY <1>3, <1>4, <1>5, Zenon
<1>7. ASSUME NEW i \in 1..n PROVE old[i] = new[i]
  <2>1. i - 1 \in 0..common /\ i - 1 < n /\ (i - 1) + 1 = i
    BY <1>2
  <2>2. i - 1 \notin ends
    BY <1>6, <2>1
  <2> QED BY <2>1, <2>2
<1>8. n \in 0..common /\ First(n)
  BY <1>7
<1>9. (CHOOSE k \in 0..common : First(k)) \in 0..common
  BY <1>8
<1>10. CASE old = new
  BY <1>1, <1>10 DEF PaletteDiff, NoDiff
<1>11. CASE old # new
  <2>1. PaletteDiff(old, new).start = CHOOSE k \in 0..common : First(k)
    BY <1>11 DEF PaletteDiff, common
  <2> QED BY <1>2, <1>9, <2>1
<1> QED BY <1>10, <1>11

LEMMA ColorInit == Init => ColorInv
<1> SUFFICES ASSUME Init PROVE ColorInv
  OBVIOUS
<1>1. Row \in Cells /\ Value \in Values
  BY ConstantsAssumption DEF Row, Value
<1>2. /\ <<Row>> \in Lines(MaxHeight + 1) /\ Len(<<Row>>) = 1
      /\ <<>> \in Palettes /\ MaxHeight \in 1..MaxHeight
  <2>1. <<Row>> \in [1..1 -> Cells] /\ 1 \in 0..(MaxHeight + 1)
    BY <1>1, ConstantsAssumption
  <2> QED BY <2>1, ConstantsAssumption DEF Lines, Palettes
<1>3. pane.content \in Content(MaxHeight)
  BY <1>1, <1>2 DEF Init, Content
<1>4. /\ pane.height = MaxHeight /\ pane.version = 1 /\ pane.content.lines = <<Row>>
      /\ previous = pane.content /\ pane.content.palette = <<>>
      /\ client.version = 0 /\ pane.kind = "rows" /\ pane.rows = {1} /\ rejected = FALSE
  BY DEF Init
<1>5. /\ pane.version \in Nat /\ client.version \in 0..pane.version
      /\ pane.kind \in PatchKinds /\ rejected \in BOOLEAN
  <2>1. pane.version \in Nat /\ client.version \in 0..pane.version
    BY <1>4
  <2>2. rejected \in BOOLEAN
    BY <1>4
  <2> QED BY <1>4, <2>1, <2>2 DEF PatchKinds
<1>6. /\ pane.rows \subseteq 1..pane.height /\ Len(pane.content.lines) <= pane.height
  BY <1>2, <1>4, ConstantsAssumption
<1>7. TypeOK
  BY <1>2, <1>3, <1>4, <1>5, <1>6 DEF TypeOK
<1> QED BY <1>2, <1>4, <1>7 DEF ColorInv

\* What any update leaves of the daemon's side.
LEMMA ColorTake ==
  ASSUME IInv, IInv', ColorInv, NEW h \in 1..MaxHeight, NEW update \in Updates(h),
         NEW force \in BOOLEAN, force \/ h = pane.height, Take(update, h, force)
  PROVE  ColorInv'
<1> DEFINE old == pane.content
           changed == Changed(old, update)
           kind == PatchKind(changed, force)
           advanced == force \/ changed # {}
<1>1. /\ pane'.height = h /\ pane'.version = (IF advanced THEN pane.version + 1 ELSE pane.version)
      /\ pane'.content = WithLines(update, Truncated(update.lines, h))
      /\ pane'.kind = (IF advanced THEN kind ELSE pane.kind)
      /\ pane'.rows = IF ~advanced THEN pane.rows
                      ELSE IF kind = "rows" THEN RowUpdateIndices(old.lines, update.lines, h) ELSE {}
      /\ pane'.diff = IF advanced /\ kind = "color" THEN PaletteDiff(old.palette, update.palette)
                      ELSE NoDiff
      /\ previous' = IF pane'.version = pane.version THEN previous ELSE old
      /\ UNCHANGED <<client, rejected>>
  BY DEF Take, ApplyUpdate
<1>2. /\ update.surface \in Values /\ update.styles \in Values /\ update.cursor \in Values
      /\ update.modes \in Values /\ update.scalars \in Values /\ update.palette \in Palettes
      /\ old.palette \in Palettes /\ pane.version \in Nat /\ pane.kind \in PatchKinds
  BY DEF Updates, Content, ColorInv, TypeOK
<1>3. pane'.content \in Content(h)
  <2>1. /\ pane'.content.lines \in Seq(Cells) /\ Len(pane'.content.lines) <= h
    BY <1>1 DEF IInv, PaneInv
  <2>2. h \in Nat /\ Len(pane'.content.lines) \in Nat
    BY <2>1, ConstantsAssumption, LenProperties
  <2>3. pane'.content.lines \in [1..Len(pane'.content.lines) -> Cells]
    BY <2>1
  <2>4. pane'.content.lines \in Lines(h + 1)
    BY <2>1, <2>2, <2>3 DEF Lines
  <2> QED BY <1>1, <1>2, <2>4 DEF WithLines, Content
<1>4. kind \in PatchKinds
  BY DEF PatchKind, PatchKinds
<1>5. pane'.rows \subseteq 1..h
  <2>1. ~advanced => h = pane.height /\ pane.rows \subseteq 1..pane.height
    BY DEF ColorInv, TypeOK
  <2> QED BY <1>1, <2>1 DEF RowUpdateIndices
<1>6. pane'.version \in Nat /\ client.version \in 0..pane'.version
  BY <1>1, <1>2 DEF ColorInv, TypeOK
<1>7. TypeOK'
  <2>1. Len(pane'.content.lines) <= pane'.height
    BY DEF IInv, PaneInv
  <2> HIDE DEF kind, advanced
  <2> QED BY <1>1, <1>2, <1>3, <1>4, <1>5, <1>6, <2>1 DEF ColorInv, TypeOK
<1>8. pane'.content.palette = update.palette
  BY <1>1 DEF WithLines
<1>9. CASE advanced
  <2>1. previous' = old
    BY <1>1, <1>2, <1>9
  <2>2. kind \in {"rows", "mode", "cursor"} => "palette" \notin changed
    BY DEF PatchKind
  <2>3. "palette" \notin changed => old["palette"] = update["palette"]
    BY ChangedMembers DEF Properties
  <2>4. kind = "color" => pane'.diff.start \in 0..Len(old.palette)
    BY <1>1, <1>2, <1>9, DiffStart
  <2> HIDE DEF kind, changed
  <2> QED BY <1>1, <1>2, <1>7, <1>8, <1>9, <2>1, <2>2, <2>3, <2>4 DEF ColorInv
<1>10. CASE ~advanced
  <2>1. previous' = previous /\ pane'.kind = pane.kind /\ pane'.diff = NoDiff
    BY <1>1, <1>10
  <2>2. old["palette"] = update["palette"]
    BY <1>10, ChangedMembers DEF Properties
  <2>3. Len(previous.palette) \in Nat
    BY PaletteIsSeq, LenProperties DEF ColorInv
  <2> QED BY <1>7, <1>8, <2>1, <2>2, <2>3 DEF ColorInv, NoDiff
<1> QED BY <1>9, <1>10

LEMMA ColorNext == IInv /\ IInv' /\ ColorInv /\ [Next]_vars => ColorInv'
<1> SUFFICES ASSUME IInv, IInv', ColorInv, [Next]_vars PROVE ColorInv'
  OBVIOUS
<1>1. pane.height \in 1..MaxHeight
  BY DEF IInv, PaneInv
<1>2. ASSUME NEW update \in Updates(pane.height), ApplyOutput(update) PROVE ColorInv'
  BY <1>1, <1>2, ColorTake DEF ApplyOutput
<1>3. ASSUME NEW height \in 1..MaxHeight, NEW update \in Updates(height),
             CommitResize(update, height)
      PROVE  ColorInv'
  BY <1>3, ColorTake DEF CommitResize
<1>4. CASE UNCHANGED vars
  BY <1>4 DEF vars, ColorInv, TypeOK
<1>5. CASE ReceiveSnapshot
  <2>1. /\ UNCHANGED <<pane, previous>> /\ client'.version = pane.version /\ rejected' = FALSE
        /\ DOMAIN client'.content.lines = 1..client'.height
    BY <1>5 DEF ReceiveSnapshot, WithLines, Padded
  <2>2. client'.version \in 0..pane.version
    BY <2>1 DEF ColorInv, TypeOK
  <2> QED BY <2>1, <2>2 DEF ColorInv, TypeOK
<1>6. CASE ReceivePatch
  <2>1. /\ UNCHANGED <<pane, previous>> /\ rejected' \in BOOLEAN
        /\ \/ UNCHANGED client
           \/ /\ client'.version = pane.version
              /\ DOMAIN client'.content.lines = 1..client'.height
    <3>1. UNCHANGED <<pane, previous>>
      BY <1>6 DEF ReceivePatch
    <3>2. CASE Acceptable(PatchFrame(pane), client)
      <4>1. /\ client' = [version |-> pane.version, height |-> client.height,
                          content |-> Patched(PatchFrame(pane), client)]
            /\ rejected' = FALSE
        BY <1>6, <3>2 DEF ReceivePatch
      <4>2. DOMAIN Patched(PatchFrame(pane), client).lines = 1..client.height
        BY DEF Patched
      <4> HIDE DEF Patched
      <4>3. /\ client'.version = pane.version
            /\ DOMAIN client'.content.lines = 1..client'.height
        BY <4>1, <4>2
      <4>4. rejected' \in BOOLEAN
        BY <4>1
      <4> QED BY <3>1, <4>3, <4>4
    <3>3. CASE ~Acceptable(PatchFrame(pane), client)
      <4>1. rejected' = TRUE /\ UNCHANGED client
        BY <1>6, <3>3 DEF ReceivePatch
      <4>2. rejected' \in BOOLEAN
        BY <4>1
      <4> QED BY <3>1, <4>1, <4>2
    <3> QED BY <3>2, <3>3
  <2>2. client'.version \in 0..pane.version
    BY <2>1 DEF ColorInv, TypeOK
  <2> QED BY <2>1, <2>2 DEF ColorInv, TypeOK
<1> QED BY <1>2, <1>3, <1>4, <1>5, <1>6 DEF Next

LEMMA ColorInvariant == Spec => [](IInv /\ ColorInv)
<1>1. Init => IInv /\ ColorInv
  BY InitInv, ColorInit
<1>2. IInv /\ ColorInv /\ [Next]_vars => (IInv /\ ColorInv)'
  BY NextInv, ColorNext
<1> QED BY <1>1, <1>2, PTL DEF Spec

\* Pane and client stay well typed: a patch's rows are rows of the pane, and the client is
\* never ahead of it.
THEOREM TypeCorrect == Spec => []TypeOK
<1>1. ColorInv => TypeOK
  BY DEF ColorInv
<1> QED BY <1>1, ColorInvariant, PTL

\* A patch on the client's own version is refused for one reason only, for panes and
\* palettes of any size: the client's palette is not the one the patch was made against.
THEOREM RefusalsMeanPalette == Spec => RefusedOnlyForPalette
<1>1. ASSUME IInv, ColorInv, [Next]_vars, rejected', ~rejected
      PROVE  client.content.palette # previous.palette
  <2>1. CASE ReceivePatch
    <3> DEFINE frame == PatchFrame(pane)
    <3>1. /\ ~Acceptable(frame, client) /\ pane.kind # "full" /\ client.version # 0
          /\ client.version + 1 = pane.version
      BY <1>1, <2>1 DEF ReceivePatch
    <3>2. Shows(previous) /\ PatchSound /\ pane.kind \in PatchKinds \ {"full"}
      BY <1>1, <3>1 DEF IInv, ClientFollows, ColorInv, TypeOK
    <3>3. /\ frame.kind = pane.kind /\ frame.scalars = pane.content.scalars
          /\ frame.palette = (IF pane.kind = "color" THEN <<>> ELSE pane.content.palette)
          /\ frame.diff = pane.diff /\ DOMAIN frame.rows = pane.rows
      BY DEF PatchFrame
    <3> HIDE DEF frame
    <3>4. CASE pane.kind = "color"
      BY <1>1, <3>1, <3>3, <3>4 DEF Acceptable, ColorInv
    <3>5. CASE pane.kind # "color"
      <4>1. /\ pane.kind \in {"rows", "mode", "cursor"} /\ previous.palette = pane.content.palette
            /\ pane.rows \subseteq 1..client.height
            /\ client.content.scalars = pane.content.scalars
        BY <1>1, <3>2, <3>5 DEF ColorInv, TypeOK, PatchKinds, PatchSound, Shows
      <4> QED BY <3>1, <3>3, <3>5, <4>1 DEF Acceptable
    <3> QED BY <3>4, <3>5
  <2>2. CASE ~ReceivePatch
    BY <1>1, <2>2 DEF Next, ApplyOutput, CommitResize, Take, ReceiveSnapshot, vars
  <2> QED BY <2>1, <2>2
<1> QED BY <1>1, ColorInvariant, PTL DEF Spec, RefusedOnlyForPalette
=============================================================================
