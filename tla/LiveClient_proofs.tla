-------------------------- MODULE LiveClient_proofs --------------------------
(***************************************************************************)
(* Proofs about LiveClient, for all values of its constants.               *)
(*                                                                         *)
(* An update is on its way in the wire or put aside, and a tree or a pong  *)
(* may be taken from between two of them.  So the updates of a pane are    *)
(* followed as a set: Copies are the surfaces the client has or will have, *)
(* told apart by their versions, each following from another (Follows) or  *)
(* sent in full, and the last of them is what the daemon believes written  *)
(* (WrittenAt).  The next to be applied is the one of the least version    *)
(* (Ordered).  From this: no patch is refused (PatchesFit), and a guess    *)
(* whose key has been echoed meets an update that ends it (GuessInv).      *)
(***************************************************************************)
EXTENDS LiveClient, TLAPS, SequenceTheorems, FiniteSetTheorems, WellFoundedInduction

-----------------------------------------------------------------------------
(* The invariants *)

\* Where the client is in its attach and in a scroll.
PhaseInv ==
  /\ at = "attach" => fetch # NoFetch /\ fetch.phase = "range"
  /\ at \in {"resize", "settle"} => fetch = NoFetch
  /\ at = "loop" /\ fetch = NoFetch => pending = <<>>
  /\ overlay.guess # NoGuess => overlay.misses < MaxMisses

TypeInv == TypeOK /\ PhaseInv

\* The updates of a pane that are still to be applied, and the surfaces that the client
\* has of it or is sent.
Coming(p) == {u \in ToSet(pending) \cup ToSet(wire) : u.kind = "update" /\ u.pane = p}
Copies(p) == {s \in {cache[p]} : s # NoSurface} \cup {u.surface : u \in Coming(p)}
Version(p) == IF cache[p] = NoSurface THEN 0 ELSE cache[p].version

\* A surface can be patched to the next: other rows are as they were, and a cursor at the
\* end of its row moves on only by writing to the row.
Follows(old, new, dirty) ==
  /\ \A r \in Rows \ dirty : new.rows[r] = old.rows[r]
  /\ new.row = old.row /\ old.row \notin dirty /\ old.col = Len(old.rows[old.row])
       => new.col <= old.col

\* f is before g in the order in which the client applies updates.
Earlier(f, g) ==
  f.kind = "update" /\ g.kind = "update" /\ f.pane = g.pane => f.surface.version < g.surface.version
Ascending(s) == \A i, j \in DOMAIN s : i < j => Earlier(s[i], s[j])
Ordered ==
  /\ Ascending(pending) /\ Ascending(wire)
  /\ \A f \in ToSet(pending), g \in ToSet(wire) : Earlier(f, g)

PatchInv ==
  \A p \in Panes :
    /\ 1 <= surface[p].version /\ (surface[p].version = 1 => changed[p].full)
    /\ \A u \in Coming(p) : ~u.full => u.base # 0 /\ u.surface.version = u.base + 1

WrittenAt(p) ==
  /\ written[p] <= surface[p].version
  /\ \A n \in Copies(p) : 1 <= n.version /\ n.version <= written[p]
  /\ written[p] # 0 => \E n \in Copies(p) : n.version = written[p]
  /\ Copies(p) # {} => p \in UNION opened
  /\ \A n \in Copies(p) : n.version = written[p] =>
       /\ written[p] = surface[p].version => n = surface[p]
       /\ written[p] + 1 = surface[p].version /\ ~changed[p].full =>
            Follows(n, surface[p], changed[p].dirty)

ComingAt(p) ==
  \A u \in Coming(p) :
    /\ Version(p) < u.surface.version
    /\ ~u.full => \E n \in Copies(p) : n.version = u.base
    /\ ~u.full => \A n \in Copies(p) : n.version = u.base => Follows(n, u.surface, u.dirty)

Flow == Ordered /\ \A p \in Panes : WrittenAt(p) /\ ComingAt(p)
Flowing == at # "ended" /\ "overtaken" \notin marks
FlowInv == Flowing => Flow

\* The cursor of the surface is where the guess is.
CursorAt(g, s) == s.row = g.row /\ s.col = g.col /\ Len(s.rows[g.row]) = g.col
PlaceInv ==
  LET g == overlay.guess
  IN  at # "ended" /\ g # NoGuess =>
        /\ cache[g.pane] # NoSurface /\ Placed(g, g.pane, cache[g.pane])
        /\ "overtaken" \notin marks => CursorAt(g, cache[g.pane])

\* The update ends the guess g of its pane.
Ends(g, row, col, dirty) == row # g.row \/ col < g.col \/ g.row \in dirty
Kills(g, u) == u.full \/ Ends(g, u.surface.row, u.surface.col, u.dirty)
\* An update that ends the guess is on its way, or is what would be written next.
Doomed(g) ==
  \/ \E u \in Coming(g.pane) : Kills(g, u)
  \/ LET s == surface[g.pane]
         c == changed[g.pane]
     IN  /\ written[g.pane] # s.version
         /\ written[g.pane] + 1 # s.version \/ c.full \/ Ends(g, s.row, s.col, c.dirty)
KeySent(p) == \E f \in ToSet(sent) : f.kind = "key" /\ f.pane = p
GuessInv ==
  LET g == overlay.guess
  IN  at # "ended" /\ marks = {} /\ g # NoGuess /\ g.pane \in Up =>
        KeySent(g.pane) \/ typed[g.pane] # <<>> \/ Doomed(g)

ScreenInv ==
  at # "ended" =>
    /\ \A p \in Panes : TextIsTrue(p)
    /\ "strayed" \notin marks =>
         /\ tree.pane = attached /\ text[attached] # NoText
         /\ shown = text[tree.pane] \/ ShowsGuess

\* Frames about scrollback.
None(s) == \A i \in DOMAIN s : ~Of(s[i])
Once(s) == \E i \in DOMAIN s : Of(s[i]) /\ \A j \in DOMAIN s \ {i} : ~Of(s[j])
About(s, p) == \A i \in DOMAIN s : Of(s[i]) /\ s[i].kind # "stale" => s[i].pane = p
FetchInv ==
  at # "ended" /\ ~HungUp =>
    IF Waiting
    THEN /\ (Once(sent) /\ None(wire)) \/ (None(sent) /\ Once(wire))
         /\ About(sent, fetch.pane) /\ About(wire, fetch.pane)
    ELSE None(sent) /\ None(wire)
-----------------------------------------------------------------------------
(* Types *)

LEMMA AppendTo ==
  ASSUME NEW T, NEW s \in Seq(T), NEW e \in T
  PROVE  /\ Append(s, e) \in Seq(T) /\ ToSet(Append(s, e)) = ToSet(s) \cup {e}
         /\ Len(Append(s, e)) = Len(s) + 1 /\ Append(s, e)[Len(s) + 1] = e
         /\ \A i \in DOMAIN s : i \in 1..Len(s) /\ Append(s, e)[i] = s[i]
         /\ DOMAIN Append(s, e) = DOMAIN s \cup {Len(s) + 1}
BY AppendProperties, LenProperties DEF ToSet

\* What is left of a sequence without its head.
LEMMA HeadTail ==
  ASSUME NEW T, NEW s \in Seq(T), s # <<>>
  PROVE  /\ Head(s) \in T /\ Head(s) = s[1] /\ Tail(s) \in Seq(T) /\ 1 \in DOMAIN s
         /\ ToSet(s) = ToSet(Tail(s)) \cup {Head(s)}
         /\ \A i \in DOMAIN Tail(s) : i + 1 \in DOMAIN s /\ i + 1 > 1 /\ Tail(s)[i] = s[i + 1]
         /\ \A i \in DOMAIN s : i = 1 \/ (i - 1 \in DOMAIN Tail(s) /\ Tail(s)[i - 1] = s[i])
<1>1. /\ Len(s) \in Nat \ {0} /\ DOMAIN s = 1..Len(s) /\ Head(s) = s[1] /\ Tail(s) \in Seq(T)
      /\ DOMAIN Tail(s) = 1..(Len(s) - 1) /\ \A i \in 1..(Len(s) - 1) : Tail(s)[i] = s[i + 1]
  BY HeadTailProperties, LenProperties, EmptySeq
<1>2. \A i \in DOMAIN s : i = 1 \/ (i - 1 \in DOMAIN Tail(s) /\ Tail(s)[i - 1] = s[i])
  <2>1. ASSUME NEW i \in DOMAIN s, i # 1 PROVE i - 1 \in DOMAIN Tail(s) /\ Tail(s)[i - 1] = s[i]
    BY <1>1, <2>1
  <2> QED BY <2>1
<1>3. \A i \in DOMAIN Tail(s) : i + 1 \in DOMAIN s /\ i + 1 > 1 /\ Tail(s)[i] = s[i + 1]
  BY <1>1
<1>4. ToSet(s) = ToSet(Tail(s)) \cup {Head(s)}
  <2>1. ASSUME NEW f \in ToSet(s) PROVE f \in ToSet(Tail(s)) \cup {Head(s)}
    <3>1. PICK i \in DOMAIN s : f = s[i]
      BY <2>1 DEF ToSet
    <3> QED BY <1>1, <1>2, <3>1 DEF ToSet
  <2>2. ASSUME NEW f \in ToSet(Tail(s)) PROVE f \in ToSet(s)
    <3>1. PICK i \in DOMAIN Tail(s) : f = Tail(s)[i]
      BY <2>2 DEF ToSet
    <3> QED BY <1>3, <3>1 DEF ToSet
  <2>3. Head(s) \in ToSet(s)
    BY <1>1 DEF ToSet
  <2> QED BY <2>1, <2>2, <2>3
<1> QED BY <1>1, <1>2, <1>3, <1>4

LEMMA Sizes ==
  /\ Height \in Nat \ {0} /\ Cols \in Nat \ {0}
  /\ MaxMisses \in Nat \ {0} /\ RecoveryKeys \in Nat \ {0}
BY SurfaceAssumption

LEMMA Fields ==
  ASSUME NEW s \in Surface
  PROVE  /\ s.version \in Nat /\ s.main \in BOOLEAN /\ s.row \in Rows /\ s.col \in 0..Cols
         /\ s.rows \in [Rows -> Seq(Chars \cup {Space})]
         /\ s = [version |-> s.version, main |-> s.main, row |-> s.row, col |-> s.col,
                 rows |-> s.rows]
BY DEF Surface

LEMMA PaddedType ==
  ASSUME NEW row \in Seq(Chars \cup {Space}), NEW n \in Nat
  PROVE  Padded(row, n) \in Seq(Chars \cup {Space}) /\ Len(Padded(row, n)) = n
<1>1. \A i \in 1..n : (IF i <= Len(row) THEN row[i] ELSE Space) \in Chars \cup {Space}
  <2>1. ASSUME NEW i \in 1..n, i <= Len(row) PROVE row[i] \in Chars \cup {Space}
    <3>1. i \in 1..Len(row)
      BY <2>1, LenProperties
    <3> QED BY <3>1, ElementOfSeq
  <2> QED BY <2>1
<1>2. Padded(row, n) \in [1..n -> Chars \cup {Space}]
  BY <1>1 DEF Padded
<1>3. Padded(row, n) \in Seq(Chars \cup {Space})
  BY <1>2, SeqDef
<1>4. DOMAIN Padded(row, n) = 1..n
  BY DEF Padded
<1>5. 1..n = 1..Len(Padded(row, n)) /\ Len(Padded(row, n)) \in Nat
  BY <1>3, <1>4, LenProperties
<1> QED BY <1>3, <1>5

LEMMA SurfaceTypes ==
  ASSUME NEW s \in Surface, NEW c \in Chars \cup {Space}
  PROVE  /\ Echo(s, c) \in Surface /\ NewLine(s) \in Surface /\ Home(s) \in Surface
         /\ Wipe(s) \in Surface /\ Other(s) \in Surface /\ NewLine(s).col = 0
<1> USE Sizes
<1> DEFINE Row == Seq(Chars \cup {Space})
<1>1. <<>> \in Row /\ 0 \in 0..Cols /\ 1 \in Rows
  BY EmptySeq DEF Rows
<1>2. ASSUME NEW t \in Surface PROVE [t EXCEPT !.col = 0] \in Surface /\ [t EXCEPT !.col = 0].col = 0
  BY <1>1, <1>2 DEF Surface
<1>3. ASSUME NEW t \in Surface, NEW a \in [Rows -> Row] PROVE [t EXCEPT !.rows = a] \in Surface
  BY <1>3 DEF Surface
<1>4. NewLine(s) \in Surface /\ NewLine(s).col = 0
  <2>1. CASE s.row < Height
    <3> DEFINE t == [s EXCEPT !.row = s.row + 1]
    <3>1. s.row + 1 \in Rows
      BY <2>1, Fields DEF Rows
    <3>2. t \in Surface
      BY <3>1 DEF Surface
    <3> HIDE DEF t
    <3>3. [t EXCEPT !.col = 0] \in Surface /\ [t EXCEPT !.col = 0].col = 0
      BY <3>2, <1>2
    <3> QED BY <2>1, <3>3 DEF NewLine, t
  <2>2. CASE ~(s.row < Height)
    <3> DEFINE rows == [r \in Rows |-> IF r < Height THEN s.rows[r + 1] ELSE <<>>]
               t == [s EXCEPT !.rows = rows]
    <3>1. rows \in [Rows -> Row]
      BY <1>1, Fields DEF Rows
    <3> HIDE DEF rows
    <3>2. t \in Surface
      BY <3>1, <1>3
    <3> HIDE DEF t
    <3>3. [t EXCEPT !.col = 0] \in Surface /\ [t EXCEPT !.col = 0].col = 0
      BY <3>2, <1>2
    <3> QED BY <2>2, <3>3 DEF NewLine, t, rows
  <2> QED BY <2>1, <2>2
<1>5. ASSUME NEW t \in Surface, t.col < Cols PROVE Put(t, c) \in Surface
  <2> DEFINE row == Append(Padded(t.rows[t.row], t.col), c)
             rows == [t.rows EXCEPT ![t.row] = row]
             a == [t EXCEPT !.rows = rows]
  <2>1. /\ t.row \in Rows /\ t.rows \in [Rows -> Row] /\ t.col \in 0..Cols
        /\ t.rows[t.row] \in Row
    BY Fields
  <2> t.col \in Nat /\ t.col + 1 \in 0..Cols
    BY <1>5, <2>1
  <2>2. Padded(t.rows[t.row], t.col) \in Row
    BY <2>1, PaddedType
  <2>3. row \in Row
    BY <2>2, AppendProperties
  <2> HIDE DEF row
  <2>4. rows \in [Rows -> Row]
    BY <2>1, <2>3
  <2> HIDE DEF rows
  <2>5. a \in Surface
    BY <2>4, <1>3
  <2> HIDE DEF a
  <2>6. [a EXCEPT !.col = t.col + 1] \in Surface
    BY <2>5, <2>1 DEF Surface
  <2> QED BY <2>6 DEF Put, a, rows, row
<1>6. Echo(s, c) \in Surface
  <2>1. CASE Wraps(s)
    <3>1. NewLine(s).col < Cols
      BY <1>4
    <3> QED BY <1>4, <1>5, <2>1, <3>1 DEF Echo
  <2>2. CASE ~Wraps(s)
    <3>1. s.col < Cols
      BY <2>2, Fields DEF Wraps
    <3> QED BY <1>5, <2>2, <3>1 DEF Echo
  <2> QED BY <2>1, <2>2
<1>7. Home(s) \in Surface
  BY <1>2 DEF Home
<1>8. Other(s) \in Surface
  <2> DEFINE a == [s EXCEPT !.main = ~s.main]
             b == [a EXCEPT !.rows = Blank.rows]
             d == [b EXCEPT !.row = 1]
  <2>1. Blank.rows \in [Rows -> Row]
    BY <1>1 DEF Blank
  <2>2. a \in Surface
    BY DEF Surface
  <2> HIDE DEF a
  <2>3. b \in Surface
    BY <2>1, <2>2, <1>3
  <2> HIDE DEF b
  <2>4. d \in Surface
    BY <1>1, <2>3 DEF Surface
  <2> HIDE DEF d
  <2>5. [d EXCEPT !.col = 0] \in Surface
    BY <2>4, <1>2
  <2> QED BY <2>5 DEF Other, a, b, d
<1>9. Wipe(s) \in Surface
  <2>1. [s.rows EXCEPT ![s.row] = <<>>] \in [Rows -> Row]
    BY <1>1, Fields
  <2> QED BY <2>1, <1>3 DEF Wipe
<1> QED BY <1>4, <1>6, <1>7, <1>8, <1>9

LEMMA CountType ==
  ASSUME TypeInv, NEW c \in Counted, Count(c)
  PROVE  left' \in [Counted -> Nat]
BY DEF Count, TypeInv, TypeOK

\* What output and a resize do, in the terms of the pane alone.
LEMMA ShowTypes ==
  ASSUME TypeInv, NEW p \in Panes, NEW s \in Surface, NEW full \in BOOLEAN, NEW line \in BOOLEAN,
         Show(p, s, full, line)
  PROVE  /\ surface' \in [Panes -> Surface] /\ left' \in [Counted -> Nat]
         /\ changed' \in [Panes -> [full : BOOLEAN, dirty : SUBSET Rows]]
         /\ history' \in [Panes -> [version : Nat, lines : Nat]]
<1>1. surface[p] \in Surface /\ history[p] \in [version : Nat, lines : Nat]
  BY DEF TypeInv, TypeOK
<1>2. [s EXCEPT !.version = surface[p].version + 1] \in Surface
  <2>1. surface[p].version + 1 \in Nat
    BY <1>1, Fields
  <2> QED BY <2>1, Sizes DEF Surface
<1>3. left' \in [Counted -> Nat]
  BY CountType DEF Show, Counted
<1>4. surface' \in [Panes -> Surface]
  BY <1>2 DEF Show, TypeInv, TypeOK
<1>5. changed' \in [Panes -> [full : BOOLEAN, dirty : SUBSET Rows]]
  BY DEF Show, TypeInv, TypeOK
<1>6. history' \in [Panes -> [version : Nat, lines : Nat]]
  <2>1. history \in [Panes -> [version : Nat, lines : Nat]]
    BY DEF TypeInv, TypeOK
  <2> DEFINE h == [version |-> history[p].version + 1, lines |-> history[p].lines + 1]
  <2>2. history[p].version + 1 \in Nat /\ history[p].lines + 1 \in Nat
    BY <1>1
  <2>3. h \in [version : Nat, lines : Nat]
    BY <2>2
  <2>4. history' = history \/ history' = [history EXCEPT ![p] = h]
    BY DEF Show
  <2> HIDE DEF h
  <2> QED BY <2>1, <2>3, <2>4
<1> QED BY <1>3, <1>4, <1>5, <1>6

LEMMA PaneOf ==
  ASSUME NEW t \in Tabs
  PROVE  FirstPane(t) \in t /\ t \subseteq Panes /\ t # {}
<1>1. t # {}
  BY ConstantsAssumption
<1>2. \E p : p \in t
  BY <1>1
<1> QED BY <1>1, <1>2, ConstantsAssumption DEF FirstPane

LEMMA UpInPanes ==
  ASSUME TypeInv
  PROVE  Up \subseteq Panes /\ Up \subseteq UNION opened
BY ConstantsAssumption DEF Up, TypeInv, TypeOK

LEMMA BlankType == Blank \in Surface
BY Sizes DEF Blank, Surface, Rows

LEMMA TypeInit == Init => TypeInv
<1> SUFFICES ASSUME Init PROVE TypeInv
  OBVIOUS
<1> USE ConstantsAssumption, Sizes
<1>1. /\ tabs \subseteq Tabs /\ left \in [Counted -> Nat] /\ active \in tabs
      /\ active \in Tabs /\ FirstPane(active) \in active /\ active \subseteq Panes
  <2>1. PICK s \in Scenarios : tabs = s.tabs /\ left = s.bound
    BY DEF Init
  <2>2. s.tabs \subseteq Tabs /\ s.bound \in [Counted -> Nat]
    BY ConstantsAssumption
  <2>3. active \in tabs /\ active \in Tabs /\ active \subseteq Panes
    BY <2>1, <2>2, ConstantsAssumption DEF Init
  <2>5. FirstPane(active) \in active
    BY <2>3, PaneOf
  <2> QED BY <2>1, <2>2, <2>3, <2>5
<1>2. Blank \in Surface
  BY BlankType
<1>3. attached \in Panes /\ tree \in Tree
  BY <1>1 DEF Init, Tree, TreeOf
<1>4. fetch \in Fetch /\ fetch # NoFetch /\ fetch.phase = "range" /\ sent \in Seq(ClientFrame)
  <2>1. fetch = Request(attached, "range", 1) /\ sent = <<FetchFrame(attached, 1, ViewRows, 0)>>
    BY DEF Init
  <2>2. Request(attached, "range", 1) \in Fetch /\ Request(attached, "range", 1).phase = "range"
    BY <1>3 DEF Request, Fetch
  <2>3. FetchFrame(attached, 1, ViewRows, 0) \in ClientFrame
    BY <1>3 DEF FetchFrame, ClientFrame
  <2> QED BY <2>1, <2>2, <2>3
<1>5. overlay \in Overlay /\ overlay.guess = NoGuess
  BY DEF Init, NoOverlay, Overlay
<1>6. /\ text \in [Panes -> Text \cup {NoText}] /\ shown \in Text
      /\ views \in [Panes -> View \cup {NoView}] /\ cache \in [Panes -> Surface \cup {NoSurface}]
  BY <1>2, <1>3 DEF Init, Live, Text
<1>7. /\ history \in [Panes -> [version : Nat, lines : Nat]] /\ typed \in [Panes -> Seq(Chars)]
      /\ changed \in [Panes -> [full : BOOLEAN, dirty : SUBSET Rows]]
      /\ surface \in [Panes -> Surface] /\ written \in [Panes -> Nat]
  BY <1>2 DEF Init
<1>8. wire \in Seq(DaemonFrame) /\ pending \in Seq(Update)
  BY DEF Init
<1> QED BY <1>1, <1>3, <1>4, <1>5, <1>6, <1>7, <1>8 DEF Init, TypeInv, TypeOK, PhaseInv

\* Frames by their kind.
LEMMA FrameKinds ==
  ASSUME NEW f \in DaemonFrame
  PROVE  /\ f.kind \in {"update", "tree", "pong", "stale", "error", "chunk"}
         /\ f.kind = "update" => f \in Update
         /\ f.kind = "tree" => f.tree \in Tree
         /\ f.kind = "chunk" => f.pane \in Panes /\ f.start \in Nat /\ f.lines \in Nat
                                /\ f.total \in Nat /\ f.version \in Nat
BY DEF DaemonFrame, Update

LEMMA ClientKinds ==
  ASSUME NEW f \in ClientFrame
  PROVE  /\ f.kind \in {"fetch", "key", "resize", "ping"}
         /\ f.kind # "ping" => f.pane \in Panes
         /\ f.kind = "key" => f.char \in Chars
         /\ f.kind = "fetch" => f.start \in Nat /\ f.count \in Nat /\ f.known \in Nat
BY DEF ClientFrame

\* The frame that is read.
LEMMA GotFrame ==
  ASSUME TypeInv, NEW kind, Got(kind)
  PROVE  /\ wire # <<>> /\ Head(wire) \in DaemonFrame /\ Head(wire).kind = kind
         /\ wire' \in Seq(DaemonFrame) /\ wire' = Tail(wire)
BY HeadTail DEF Got, TypeInv, TypeOK

LEMMA ReceivedFrame ==
  ASSUME TypeInv, NEW kind, Received(kind)
  PROVE  /\ sent # <<>> /\ Head(sent) \in ClientFrame /\ Head(sent).kind = kind
         /\ sent' \in Seq(ClientFrame) /\ sent' = Tail(sent)
BY HeadTail DEF Received, TypeInv, TypeOK

LEMMA UpdateFields ==
  ASSUME NEW u \in Update
  PROVE  /\ u.kind = "update" /\ u.pane \in Panes /\ u.base \in Nat /\ u.full \in BOOLEAN
         /\ u.dirty \in SUBSET Rows /\ u.surface \in Surface /\ u \in DaemonFrame
BY DEF Update, DaemonFrame

LEMMA GuessFields ==
  ASSUME NEW g \in Guess
  PROVE  /\ g.pane \in Panes /\ g.base \in Nat /\ g.row \in Rows /\ g.col \in 0..(Cols - 1)
         /\ g.char \in Chars /\ g # NoGuess
BY ConstantsAssumption DEF Guess

\* What an update does to a guess.
LEMMA ReconciledGuess ==
  ASSUME NEW o \in Overlay, o.guess # NoGuess => o.misses < MaxMisses, NEW u \in Update
  PROVE  LET r == Reconciled(o, u)
             g == o.guess
         IN  /\ r \in Overlay /\ (r.guess # NoGuess => r.misses < MaxMisses)
             /\ Unrelated(g, u) => r = o
             /\ ~Unrelated(g, u) /\ (u.full \/ ~Old(g, u)) /\ r.guess # NoGuess =>
                  /\ ~u.full /\ ~CursorLeft(g, u) /\ Beside(g, u)
                  /\ r.guess \in Guess /\ r.guess.pane = g.pane /\ r.guess.row = g.row
                  /\ r.guess.col = g.col /\ r.guess.base = u.surface.version
<1> USE Sizes
<1> DEFINE r == Reconciled(o, u)
           g == o.guess
<1>1. g \in Guess \cup {NoGuess} /\ o.misses \in 0..MaxMisses /\ o.skipped \in 0..(RecoveryKeys - 1)
  BY DEF Overlay
<1>2. CASE Unrelated(g, u) \/ (~u.full /\ Old(g, u))
  BY <1>2 DEF Reconciled
<1>3. CASE ~(Unrelated(g, u) \/ (~u.full /\ Old(g, u)))
  <2>1. g \in Guess /\ g # NoGuess /\ o.misses < MaxMisses
    BY <1>1, <1>3 DEF Unrelated
  <2>2. u.surface.version \in Nat
    BY UpdateFields, Fields
  <2> DEFINE none == [o EXCEPT !.guess = NoGuess]
  <2>11. none \in Overlay /\ none.guess = NoGuess /\ none.misses + 1 \in 0..MaxMisses
         /\ none.misses = o.misses
    <3>1. NoGuess \in Guess \cup {NoGuess}
      OBVIOUS
    <3>2. none \in Overlay /\ none.guess = NoGuess /\ none.misses = o.misses
      BY <3>1 DEF Overlay
    <3> QED BY <1>1, <2>1, <3>2
  <2> HIDE DEF none
  <2> DEFINE missed == [none EXCEPT !.misses = o.misses + 1]
  <2>12. missed \in Overlay /\ missed.guess = NoGuess
    BY <2>11 DEF Overlay
  <2> HIDE DEF missed
  <2>3. Mismatched(o) \in Overlay /\ Mismatched(o).guess = NoGuess
    <3>1. [missed EXCEPT !.skipped = 0] \in Overlay /\ [missed EXCEPT !.skipped = 0].guess = NoGuess
      BY <2>12 DEF Overlay
    <3> QED BY <3>1 DEF Mismatched, missed, none
  <2>4. Displaced(o) \in Overlay /\ Displaced(o).guess = NoGuess
    <3>1. [none EXCEPT !.skipped = 0] \in Overlay /\ [none EXCEPT !.skipped = 0].guess = NoGuess
      BY <2>11 DEF Overlay
    <3> QED BY <3>1 DEF Displaced, none
  <2>5. Confirmed(o) \in Overlay /\ Confirmed(o).guess = NoGuess
    BY DEF Confirmed, NoOverlay, Overlay
  <2>6. /\ Rebased(o, u) \in Overlay /\ Rebased(o, u).misses = o.misses
        /\ Rebased(o, u).guess = [g EXCEPT !.base = u.surface.version]
        /\ [g EXCEPT !.base = u.surface.version] \in Guess
    <3>1. [g EXCEPT !.base = u.surface.version] \in Guess
      BY <2>1, <2>2 DEF Guess
    <3>2. Rebased(o, u) = [o EXCEPT !.guess = [g EXCEPT !.base = u.surface.version]]
      BY DEF Rebased
    <3> HIDE DEF g
    <3> DEFINE h == [g EXCEPT !.base = u.surface.version]
    <3>3. h \in Guess
      BY <3>1
    <3> HIDE DEF h
    <3>4. [o EXCEPT !.guess = h] \in Overlay /\ [o EXCEPT !.guess = h].misses = o.misses
          /\ [o EXCEPT !.guess = h].guess = h
      BY <3>3 DEF Overlay
    <3> QED BY <3>2, <3>3, <3>4 DEF h
  <2>7. LET h == [g EXCEPT !.base = u.surface.version]
        IN  h.pane = g.pane /\ h.row = g.row /\ h.col = g.col /\ h.base = u.surface.version
    BY <2>1 DEF Guess
  <2>8. \/ r = Mismatched(o) \/ r = Displaced(o) \/ r = Confirmed(o)
        \/ r = Rebased(o, u) /\ ~u.full /\ ~CursorLeft(g, u) /\ Beside(g, u)
    BY <1>3 DEF Reconciled
  <2> HIDE DEF r, g
  <2>9. r \in Overlay /\ (r.guess # NoGuess => r = Rebased(o, u))
    BY <2>3, <2>4, <2>5, <2>6, <2>8
  <2>10. r.guess # NoGuess => /\ ~u.full /\ ~CursorLeft(g, u) /\ Beside(g, u) /\ r.misses < MaxMisses
                              /\ r.guess = [g EXCEPT !.base = u.surface.version]
    BY <2>1, <2>3, <2>4, <2>5, <2>6, <2>8
  <2> QED BY <1>3, <2>6, <2>7, <2>9, <2>10 DEF r, g
<1> QED BY <1>2, <1>3

\* What a key does to the overlay.
LEMMA PredictedGuess ==
  ASSUME NEW o \in Overlay, o.guess # NoGuess => o.misses < MaxMisses,
         NEW p \in Panes, NEW s \in Surface, NEW c \in Chars
  PROVE  LET r == Predicted(o, p, s, c)
         IN  /\ r \in Overlay /\ (r.guess # NoGuess => r.misses < MaxMisses)
             /\ o.guess # NoGuess => r = o
             /\ r.guess # o.guess =>
                  /\ Predictable(s) /\ o.guess = NoGuess /\ r.guess \in Guess /\ r.guess.pane = p
                  /\ r.guess.row = s.row /\ r.guess.col = s.col /\ r.guess.base = s.version
<1> USE Sizes
<1> DEFINE g == [pane |-> p, base |-> s.version, row |-> s.row, col |-> s.col, char |-> c]
           r == Predicted(o, p, s, c)
<1>1. CASE o.guess # NoGuess \/ ~Predictable(s)
  BY <1>1 DEF Predicted
<1>2. CASE ~(o.guess # NoGuess \/ ~Predictable(s)) /\ Suppressed(o)
  <2>1. r = Skipped(o)
    BY <1>2 DEF Predicted
  <2>2. Skipped(o) \in Overlay /\ Skipped(o).guess = o.guess
    <3> DEFINE none == [o EXCEPT !.misses = 0]
    <3>1. CASE o.skipped + 1 >= RecoveryKeys
      <4>1. none \in Overlay /\ none.guess = o.guess
        BY DEF Overlay
      <4> HIDE DEF none
      <4>2. [none EXCEPT !.skipped = 0] \in Overlay /\ [none EXCEPT !.skipped = 0].guess = o.guess
        BY <4>1 DEF Overlay
      <4> QED BY <3>1, <4>2 DEF Skipped, none
    <3>2. CASE ~(o.skipped + 1 >= RecoveryKeys)
      <4>1. o.skipped + 1 \in 0..(RecoveryKeys - 1)
        BY <3>2 DEF Overlay
      <4>2. /\ [o EXCEPT !.skipped = o.skipped + 1] \in Overlay
            /\ [o EXCEPT !.skipped = o.skipped + 1].guess = o.guess
        BY <4>1 DEF Overlay
      <4> QED BY <3>2, <4>2 DEF Skipped
    <3> QED BY <3>1, <3>2
  <2> QED BY <1>2, <2>1, <2>2
<1>3. CASE ~(o.guess # NoGuess \/ ~Predictable(s)) /\ ~Suppressed(o)
  <2>1. r = [o EXCEPT !.guess = g]
    BY <1>3 DEF Predicted
  <2>2. g \in Guess
    BY <1>3, Fields DEF Predictable, Guess
  <2>3. /\ g.pane = p /\ g.row = s.row /\ g.col = s.col /\ g.base = s.version
    OBVIOUS
  <2> HIDE DEF g
  <2>4. [o EXCEPT !.guess = g] \in Overlay /\ [o EXCEPT !.guess = g].guess = g
        /\ [o EXCEPT !.guess = g].misses = o.misses
    BY <2>2 DEF Overlay
  <2>5. o.misses < MaxMisses
    BY <1>3 DEF Suppressed, Overlay
  <2> HIDE DEF r
  <2> QED BY <1>3, <2>1, <2>2, <2>3, <2>4, <2>5 DEF r
<1> QED BY <1>1, <1>2, <1>3

\* What is shown of a pane.
LEMMA TextTypes ==
  ASSUME TypeInv, NEW p \in Panes, NEW n \in Nat
  PROVE  /\ Live(p, n) \in Text /\ Guessed(p, n) \in Text /\ History(p, n) \in Text
         /\ NotCached(p) \in Text /\ SurfaceText(p) \in Text /\ SurfaceText(p) # NoText
         /\ Live(p, n) # NoText /\ History(p, n) # NoText
         /\ cache[p] # NoSurface => cache[p] \in Surface /\ cache[p].version \in Nat
<1>1. /\ Live(p, n) \in Text /\ Guessed(p, n) \in Text /\ History(p, n) \in Text
      /\ NotCached(p) \in Text
  BY DEF Live, Guessed, History, NotCached, Text
<1>2. cache[p] # NoSurface => cache[p] \in Surface
  BY DEF TypeInv, TypeOK
<1>3. cache[p] # NoSurface => cache[p].version \in Nat
  BY <1>2, Fields
<1>4. cache[p] # NoSurface => Live(p, cache[p].version) \in Text
  BY <1>3 DEF Live, Text
<1>5. SurfaceText(p) \in Text
  BY <1>1, <1>4 DEF SurfaceText
<1> QED BY <1>1, <1>2, <1>3, <1>5, ConstantsAssumption

LEMMA PatchedType ==
  ASSUME TypeInv, NEW u \in Update, Fits(u)
  PROVE  /\ Patched(u) \in Surface /\ Patched(u).version = u.surface.version
         /\ Patched(u).row = u.surface.row /\ Patched(u).col = u.surface.col
         /\ \A r \in Rows : Patched(u).rows[r] =
                 IF u.full \/ r \in u.dirty THEN u.surface.rows[r] ELSE cache[u.pane].rows[r]
<1>1. u.surface \in Surface /\ u.pane \in Panes
  BY UpdateFields
<1>2. CASE u.full
  BY <1>1, <1>2 DEF Patched
<1>3. CASE ~u.full
  <2>1. cache[u.pane] \in Surface
    BY <1>1, <1>3, TextTypes DEF Fits
  <2> DEFINE rows == [r \in Rows |-> IF r \in u.dirty THEN u.surface.rows[r]
                                     ELSE cache[u.pane].rows[r]]
             s == u.surface
  <2>2. rows \in [Rows -> Seq(Chars \cup {Space})]
    BY <1>1, <2>1, Fields
  <2>3. \A r \in Rows : rows[r] = IF r \in u.dirty THEN s.rows[r] ELSE cache[u.pane].rows[r]
    OBVIOUS
  <2> HIDE DEF rows
  <2>4. Patched(u) = [s EXCEPT !.rows = rows]
    BY <1>3 DEF Patched, rows
  <2>5. s \in Surface
    BY <1>1
  <2> HIDE DEF s
  <2>6. LET t == [s EXCEPT !.rows = rows]
        IN  /\ t \in Surface /\ t.version = s.version /\ t.row = s.row /\ t.col = s.col
            /\ t.rows = rows
    BY <2>2, <2>5, Sizes DEF Surface
  <2> QED BY <1>3, <2>3, <2>4, <2>6 DEF s
<1> QED BY <1>2, <1>3

\* An update that is applied, and one that is refused.
LEMMA Applied ==
  ASSUME TypeInv, NEW u \in Update, Apply(u), Fits(u)
  PROVE  /\ cache' = [cache EXCEPT ![u.pane] = Patched(u)]
         /\ text' = [text EXCEPT ![u.pane] = Live(u.pane, u.surface.version)]
         /\ views' = [views EXCEPT ![u.pane] = NoView]
         /\ shown' = shown \/ (shown' = text'[tree.pane] /\ text'[tree.pane] # NoText)
         /\ at' = at /\ outcome' = outcome
BY DEF Apply, phase

LEMMA Refused ==
  ASSUME NEW u, Apply(u), ~Fits(u)
  PROVE  /\ at' = "ended" /\ outcome' = "rejected" /\ UNCHANGED <<cache, text, shown, views>>
BY DEF Apply, End

LEMMA ApplyTypes ==
  ASSUME TypeInv, NEW u \in Update, Apply(u)
  PROVE  /\ overlay' \in Overlay /\ (overlay'.guess # NoGuess => overlay'.misses < MaxMisses)
         /\ cache' \in [Panes -> Surface \cup {NoSurface}]
         /\ text' \in [Panes -> Text \cup {NoText}] /\ shown' \in Text
         /\ views' \in [Panes -> View \cup {NoView}]
         /\ (at' = at /\ outcome' = outcome) \/ (at' = "ended" /\ outcome' = "rejected")
<1>1. /\ overlay \in Overlay /\ (overlay.guess # NoGuess => overlay.misses < MaxMisses)
      /\ cache \in [Panes -> Surface \cup {NoSurface}]
      /\ text \in [Panes -> Text \cup {NoText}] /\ shown \in Text
      /\ views \in [Panes -> View \cup {NoView}] /\ tree.pane \in Panes
  BY DEF TypeInv, TypeOK, PhaseInv, Tree
<1>2. overlay' = Reconciled(overlay, u)
  BY DEF Apply
<1>3. overlay' \in Overlay /\ (overlay'.guess # NoGuess => overlay'.misses < MaxMisses)
  BY <1>1, <1>2, ReconciledGuess
<1>4. u.pane \in Panes /\ u.surface.version \in Nat
  BY UpdateFields, Fields
<1>5. CASE Fits(u)
  <2>1. Patched(u) \in Surface /\ Live(u.pane, u.surface.version) \in Text
    BY <1>4, <1>5, PatchedType, TextTypes
  <2>2. text' \in [Panes -> Text \cup {NoText}]
    BY <1>1, <1>4, <1>5, <2>1, Applied
  <2>3. text'[tree.pane] \in Text \cup {NoText}
    BY <1>1, <2>2
  <2>4. shown' \in Text
    BY <1>1, <1>5, <2>3, Applied
  <2> QED BY <1>1, <1>3, <1>4, <1>5, <2>1, <2>2, <2>4, Applied
<1>6. CASE ~Fits(u)
  BY <1>1, <1>3, <1>6, Refused
<1> QED BY <1>5, <1>6

LEMMA KnownTypes ==
  ASSUME TypeInv, NEW p \in Panes, NEW n \in Nat, NEW k \in Nat
  PROVE  KnownVersion(p, n, k) \in Nat
<1>1. known \subseteq KnownRange
  BY DEF TypeInv, TypeOK
<1> DEFINE same == {x \in known : x.pane = p /\ x.start = n /\ x.lines = k}
<1>2. CASE same = {}
  BY <1>2 DEF KnownVersion
<1>3. CASE same # {}
  <2>1. (CHOOSE x \in same : TRUE) \in KnownRange
    BY <1>1, <1>3
  <2>2. KnownVersion(p, n, k) = (CHOOSE x \in same : TRUE).version
    BY <1>3 DEF KnownVersion
  <2>3. \A x \in KnownRange : x.version \in Nat
    BY DEF KnownRange
  <2> QED BY <2>1, <2>2, <2>3
<1> QED BY <1>2, <1>3

LEMMA CachedTypes ==
  ASSUME known \subseteq KnownRange, NEW c, c.pane \in Panes, c.start \in Nat, c.lines \in Nat,
         c.version \in Nat
  PROVE  Cached(c) \subseteq KnownRange
BY DEF Cached, KnownRange

LEMMA RequestTypes ==
  ASSUME NEW p \in Panes, NEW how \in {"probe", "range"}, NEW n \in Nat
  PROVE  /\ Request(p, how, n) \in Fetch /\ Request(p, how, n).phase = how
         /\ Request(p, how, n) # NoFetch
         /\ \A k, v \in Nat : FetchFrame(p, n, k, v) \in ClientFrame
<1>1. ViewRows \in Nat
  BY ConstantsAssumption
<1>2. Request(p, how, n) \in Fetch /\ Request(p, how, n).phase = how
  BY <1>1 DEF Request, Fetch
<1>3. \A k, v \in Nat : FetchFrame(p, n, k, v) \in ClientFrame
  BY DEF FetchFrame, ClientFrame
<1> QED BY <1>2, <1>3, ConstantsAssumption

\* What the daemon's processes do.
LEMMA TypeProcesses ==
  ASSUME TypeInv, NEW p \in Panes, Output(p) \/ Erase(p) \/ Answer(p)
  PROVE  TypeInv'
<1> USE DEF session, client, phase, screen, scrolling
<1>1. surface[p] \in Surface /\ typed[p] \in Seq(Chars) /\ history[p] \in [version : Nat, lines : Nat]
  BY DEF TypeInv, TypeOK
<1>2. CASE Output(p)
  <2>1. PICK s \in Surface, full \in BOOLEAN, line \in BOOLEAN : Show(p, s, full, line)
    <3>1. ASSUME NEW c \in Chars \cup {Space}, Show(p, Echo(surface[p], c), FALSE, Wraps(surface[p]))
          PROVE  \E s \in Surface, full \in BOOLEAN, line \in BOOLEAN : Show(p, s, full, line)
      <4>1. Echo(surface[p], c) \in Surface /\ Wraps(surface[p]) \in BOOLEAN
        BY <1>1, SurfaceTypes DEF Wraps
      <4> QED BY <3>1, <4>1
    <3>2. \A c \in {Space} : /\ NewLine(surface[p]) \in Surface /\ Home(surface[p]) \in Surface
                             /\ Wipe(surface[p]) \in Surface /\ Other(surface[p]) \in Surface
      BY <1>1, SurfaceTypes
    <3> QED BY <1>1, <1>2, <3>1, <3>2 DEF Output
  <2>2. /\ surface' \in [Panes -> Surface] /\ left' \in [Counted -> Nat]
        /\ changed' \in [Panes -> [full : BOOLEAN, dirty : SUBSET Rows]]
        /\ history' \in [Panes -> [version : Nat, lines : Nat]]
    BY <2>1, ShowTypes
  <2> QED BY <1>2, <2>2 DEF Output, TypeInv, TypeOK, PhaseInv
<1>3. CASE Erase(p)
  <2>1. left' \in [Counted -> Nat]
    BY <1>3, CountType DEF Erase, Counted
  <2>2. history' \in [Panes -> [version : Nat, lines : Nat]]
    BY <1>1, <1>3 DEF Erase, TypeInv, TypeOK
  <2> QED BY <1>3, <2>1, <2>2 DEF Erase, TypeInv, TypeOK, PhaseInv
<1>4. CASE Answer(p)
  <2>1. typed' \in [Panes -> Seq(Chars)] /\ Head(typed[p]) \in Chars
    <3>1. Head(typed[p]) \in Chars /\ Tail(typed[p]) \in Seq(Chars)
      BY <1>1, <1>4, HeadTail DEF Answer
    <3> QED BY <1>4, <3>1 DEF Answer, TypeInv, TypeOK
  <2>2. /\ surface' \in [Panes -> Surface] /\ left' \in [Counted -> Nat]
        /\ changed' \in [Panes -> [full : BOOLEAN, dirty : SUBSET Rows]]
        /\ history' \in [Panes -> [version : Nat, lines : Nat]]
        /\ marks' \subseteq {"swallowed", "overtaken", "strayed"}
    <3>1. CASE Show(p, Echo(surface[p], Head(typed[p])), FALSE, Wraps(surface[p])) /\ marks' = marks
      <4>1. Echo(surface[p], Head(typed[p])) \in Surface /\ Wraps(surface[p]) \in BOOLEAN
        BY <1>1, <2>1, SurfaceTypes DEF Wraps
      <4>2. marks' \subseteq {"swallowed", "overtaken", "strayed"}
        BY <3>1 DEF TypeInv, TypeOK
      <4> QED BY <3>1, <4>1, <4>2, ShowTypes
    <3>2. CASE marks' = marks \cup {"swallowed"} /\ UNCHANGED <<surface, changed, history, left>>
      BY <3>2 DEF TypeInv, TypeOK
    <3> QED BY <1>4, <3>1, <3>2 DEF Answer
  <2> QED BY <1>4, <2>1, <2>2 DEF Answer, TypeInv, TypeOK, PhaseInv
<1> QED BY <1>2, <1>3, <1>4

\* The wire when the daemon writes to it.
LEMMA WriteTypes ==
  ASSUME TypeInv, NEW f \in DaemonFrame, Write(f)
  PROVE  wire' \in Seq(DaemonFrame)
BY AppendTo DEF Write, TypeInv, TypeOK

LEMMA SendTypes ==
  ASSUME TypeInv, NEW f \in ClientFrame, Send(f)
  PROVE  sent' \in Seq(ClientFrame)
BY AppendTo DEF Send, TypeInv, TypeOK

\* The update that is written of a pane.
Patch(p) ==
  LET full == written[p] + 1 # surface[p].version \/ changed[p].full
  IN  [kind |-> "update", pane |-> p, full |-> full, base |-> IF full THEN 0 ELSE written[p],
       dirty |-> IF full THEN Rows ELSE changed[p].dirty, surface |-> surface[p]]

LEMMA PatchType ==
  ASSUME TypeInv, NEW p \in Panes
  PROVE  /\ Patch(p) \in Update /\ Patch(p).pane = p /\ Patch(p).surface = surface[p]
         /\ Patch(p).full <=> (written[p] + 1 # surface[p].version \/ changed[p].full)
         /\ ~Patch(p).full => Patch(p).base = written[p] /\ Patch(p).dirty = changed[p].dirty
         /\ WriteSurface(p) => Write(Patch(p))
<1>1. surface[p] \in Surface /\ written[p] \in Nat /\ changed[p] \in [full : BOOLEAN, dirty : SUBSET Rows]
  BY DEF TypeInv, TypeOK
<1> QED BY <1>1 DEF Patch, Update, WriteSurface

LEMMA TypeDaemon ==
  ASSUME TypeInv, Serve \/ WriteTree \/ (\E p \in Panes : WriteSurface(p))
  PROVE  TypeInv'
<1> USE DEF session, content, daemon, client, phase, screen, scrolling
<1>1. CASE ServePing
  <2>1. [kind |-> "pong"] \in DaemonFrame
    BY DEF DaemonFrame
  <2>2. wire' \in Seq(DaemonFrame) /\ sent' \in Seq(ClientFrame)
    BY <1>1, <2>1, WriteTypes, ReceivedFrame DEF ServePing
  <2> QED BY <1>1, <2>2 DEF ServePing, TypeInv, TypeOK, PhaseInv
<1>2. CASE ServeClosedPane
  <2>1. [kind |-> "error"] \in DaemonFrame
    BY DEF DaemonFrame
  <2>2. wire' \in Seq(DaemonFrame) /\ sent' \in Seq(ClientFrame)
    BY <1>2, <2>1, WriteTypes, ReceivedFrame DEF ServeClosedPane
  <2> QED BY <1>2, <2>2 DEF ServeClosedPane, TypeInv, TypeOK, PhaseInv
<1>3. CASE ServeKey
  <2>1. Head(sent).pane \in Panes /\ Head(sent).char \in Chars /\ sent' \in Seq(ClientFrame)
    BY <1>3, ReceivedFrame, ClientKinds DEF ServeKey
  <2>2. typed[Head(sent).pane] \in Seq(Chars)
    BY <2>1 DEF TypeInv, TypeOK
  <2>3. Append(typed[Head(sent).pane], Head(sent).char) \in Seq(Chars)
    BY <2>1, <2>2, AppendTo
  <2>4. typed' \in [Panes -> Seq(Chars)]
    BY <1>3, <2>3 DEF ServeKey, TypeInv, TypeOK
  <2> QED BY <1>3, <2>1, <2>4 DEF ServeKey, TypeInv, TypeOK, PhaseInv
<1>4. CASE ServeFetch
  <2>1. /\ sent' \in Seq(ClientFrame) /\ Head(sent).pane \in Panes /\ Head(sent).start \in Nat
        /\ Head(sent).count \in Nat
    BY <1>4, ReceivedFrame, ClientKinds DEF ServeFetch
  <2> DEFINE f == Head(sent)
             h == history[f.pane]
             lines == {n \in f.start..h.lines : n < f.start + f.count}
  <2>2. h.lines \in Nat /\ h.version \in Nat
    BY <2>1 DEF TypeInv, TypeOK
  <2>3. Cardinality(lines) \in Nat
    <3>1. IsFiniteSet(f.start..h.lines)
      BY <2>1, <2>2, FS_Interval
    <3> QED BY <3>1, FS_Subset, FS_CardinalityType
  <2>4. [kind |-> "stale"] \in DaemonFrame
    BY DEF DaemonFrame
  <2>5. [kind |-> "chunk", pane |-> f.pane, start |-> f.start, lines |-> Cardinality(lines),
         total |-> h.lines, version |-> h.version] \in DaemonFrame
    BY <2>1, <2>2, <2>3 DEF DaemonFrame
  <2>6. wire' \in Seq(DaemonFrame)
    BY <1>4, <2>4, <2>5, WriteTypes DEF ServeFetch
  <2> QED BY <1>4, <2>1, <2>6 DEF ServeFetch, TypeInv, TypeOK, PhaseInv
<1>5. CASE ServeResize
  <2>1. sent' \in Seq(ClientFrame) /\ Head(sent).pane \in Panes
    BY <1>5, ReceivedFrame, ClientKinds DEF ServeResize
  <2>2. /\ surface' \in [Panes -> Surface] /\ left' \in [Counted -> Nat] /\ due' \in BOOLEAN
        /\ changed' \in [Panes -> [full : BOOLEAN, dirty : SUBSET Rows]]
        /\ history' \in [Panes -> [version : Nat, lines : Nat]]
    <3>1. CASE UNCHANGED <<due, surface, changed, history, left>>
      BY <3>1 DEF TypeInv, TypeOK
    <3>2. CASE due' = TRUE /\ Show(Head(sent).pane, surface[Head(sent).pane], TRUE, FALSE)
      <4>1. surface[Head(sent).pane] \in Surface
        BY <2>1 DEF TypeInv, TypeOK
      <4> QED BY <2>1, <3>2, <4>1, ShowTypes
    <3> QED BY <1>5, <3>1, <3>2 DEF ServeResize
  <2> QED BY <1>5, <2>1, <2>2 DEF ServeResize, TypeInv, TypeOK, PhaseInv
<1>6. CASE WriteTree
  <2>1. TreeOf(active, tabs) \in Tree
    BY PaneOf DEF TreeOf, Tree, TypeInv, TypeOK
  <2>2. [kind |-> "tree", tree |-> TreeOf(active, tabs)] \in DaemonFrame
    BY <2>1 DEF DaemonFrame
  <2>3. wire' \in Seq(DaemonFrame)
    BY <1>6, <2>2, WriteTypes DEF WriteTree
  <2> QED BY <1>6, <2>3 DEF WriteTree, TypeInv, TypeOK, PhaseInv
<1>7. ASSUME NEW p \in Panes, WriteSurface(p) PROVE TypeInv'
  <2>1. wire' \in Seq(DaemonFrame)
    BY <1>7, PatchType, WriteTypes, UpdateFields
  <2>2. surface[p].version \in Nat
    BY Fields DEF TypeInv, TypeOK
  <2>3. written' \in [Panes -> Nat]
    BY <1>7, <2>2 DEF WriteSurface, TypeInv, TypeOK
  <2> QED BY <1>7, <2>1, <2>3 DEF WriteSurface, TypeInv, TypeOK, PhaseInv
<1> QED BY <1>1, <1>2, <1>3, <1>4, <1>5, <1>6, <1>7 DEF Serve

LEMMA TypeOthers ==
  ASSUME TypeInv, NEW p \in Panes, NEW t \in Tabs,
         OtherResize(p) \/ OtherSwitch(t) \/ OtherClose(t) \/ SwitchTab(t)
  PROVE  TypeInv'
<1> USE DEF session, content, daemon, client, phase, screen, scrolling
<1>1. CASE OtherResize(p)
  <2>1. left' \in [Counted -> Nat]
    BY <1>1, CountType DEF OtherResize, Counted
  <2>2. surface[p] \in Surface
    BY DEF TypeInv, TypeOK
  <2>3. surface[p].version + 1 \in Nat
    BY <2>2, Fields
  <2>4. [surface[p] EXCEPT !.version = surface[p].version + 1] \in Surface
    <3> DEFINE s == surface[p]
    <3>1. s \in Surface /\ s.version + 1 \in Nat
      BY <2>2, <2>3
    <3> HIDE DEF s
    <3>2. [s EXCEPT !.version = s.version + 1] \in Surface
      BY <3>1, Sizes DEF Surface
    <3> QED BY <3>2 DEF s
  <2>5. surface' = [surface EXCEPT ![p] = [surface[p] EXCEPT !.version = surface[p].version + 1]]
    BY <1>1 DEF OtherResize
  <2>6. surface' \in [Panes -> Surface]
    BY <2>4, <2>5 DEF TypeInv, TypeOK
  <2>7. changed' \in [Panes -> [full : BOOLEAN, dirty : SUBSET Rows]]
    BY <1>1 DEF OtherResize, TypeInv, TypeOK
  <2> QED BY <1>1, <2>1, <2>6, <2>7 DEF OtherResize, TypeInv, TypeOK, PhaseInv
<1>2. CASE OtherSwitch(t)
  <2>1. left' \in [Counted -> Nat]
    BY <1>2, CountType DEF OtherSwitch, Counted
  <2> QED BY <1>2, <2>1 DEF OtherSwitch, TypeInv, TypeOK, PhaseInv
<1>3. CASE OtherClose(t)
  <2>1. left' \in [Counted -> Nat]
    BY <1>3, CountType DEF OtherClose, Counted
  <2>2. tabs' \subseteq opened /\ active' \in tabs'
    BY <1>3 DEF OtherClose, TypeInv, TypeOK
  <2> QED BY <1>3, <2>1, <2>2 DEF OtherClose, TypeInv, TypeOK, PhaseInv
<1>4. CASE SwitchTab(t)
  <2>1. left' \in [Counted -> Nat]
    BY <1>4, CountType DEF SwitchTab, Counted
  <2>2. CASE t \in opened \ tabs
    BY <1>4, <2>1, <2>2 DEF SwitchTab, End, TypeInv, TypeOK, PhaseInv
  <2>3. CASE t \notin opened \ tabs
    <3>1. /\ active' = t /\ tabs' = tabs \cup {t} /\ opened' = opened \cup {t}
          /\ tree' = TreeOf(t, tabs') /\ attached' = FirstPane(t) /\ ShowPane(FirstPane(t))
          /\ UNCHANGED <<due, phase>>
      BY <1>4, <2>3 DEF SwitchTab
    <3>2. FirstPane(t) \in t /\ FirstPane(t) \in Panes
      BY PaneOf
    <3>3. tabs' \subseteq Tabs /\ tabs' \subseteq opened' /\ opened' \subseteq Tabs
      BY <3>1 DEF TypeInv, TypeOK
    <3>4. tree' \in Tree
      BY <3>1, <3>2, <3>3 DEF TreeOf, Tree
    <3>5. SurfaceText(FirstPane(t)) \in Text
      BY <3>2, TextTypes
    <3>6. /\ text' \in [Panes -> Text \cup {NoText}] /\ shown' \in Text
          /\ views' \in [Panes -> View \cup {NoView}]
      BY <3>1, <3>2, <3>5 DEF ShowPane, TypeInv, TypeOK
    <3> QED BY <1>4, <2>1, <3>1, <3>2, <3>3, <3>4, <3>6 DEF SwitchTab, TypeInv, TypeOK, PhaseInv
  <2> QED BY <2>2, <2>3
<1> QED BY <1>1, <1>2, <1>3, <1>4

LEMMA TypeRead ==
  ASSUME TypeInv, ReadUpdate \/ ReadTree \/ ReadPong \/ ReadError \/ EndResize
  PROVE  TypeInv'
<1> USE DEF session, content, daemon, client, phase, screen, scrolling
<1>1. CASE ReadUpdate
  <2>1. Head(wire) \in Update /\ wire' \in Seq(DaemonFrame)
    BY <1>1, GotFrame, FrameKinds DEF ReadUpdate
  <2>2. /\ overlay' \in Overlay /\ (overlay'.guess # NoGuess => overlay'.misses < MaxMisses)
        /\ cache' \in [Panes -> Surface \cup {NoSurface}]
        /\ text' \in [Panes -> Text \cup {NoText}] /\ shown' \in Text
        /\ views' \in [Panes -> View \cup {NoView}]
        /\ (at' = at /\ outcome' = outcome) \/ (at' = "ended" /\ outcome' = "rejected")
    BY <1>1, <2>1, ApplyTypes DEF ReadUpdate
  <2>3. marks' \subseteq {"swallowed", "overtaken", "strayed"}
    BY <1>1 DEF ReadUpdate, TypeInv, TypeOK
  <2> QED BY <1>1, <2>1, <2>2, <2>3 DEF ReadUpdate, TypeInv, TypeOK, PhaseInv
<1>2. CASE ReadTree
  <2>1. Head(wire).tree \in Tree /\ wire' \in Seq(DaemonFrame)
    BY <1>2, GotFrame, FrameKinds DEF ReadTree
  <2> DEFINE t == Head(wire).tree
  <2>2. tree' = [t EXCEPT !.pane = IF attached \in t.panes THEN attached ELSE t.pane]
    BY <1>2 DEF ReadTree
  <2>3. marks' \subseteq {"swallowed", "overtaken", "strayed"}
    BY <1>2 DEF ReadTree, TypeInv, TypeOK
  <2>4. t \in [pane : Panes, panes : Tabs, tabs : SUBSET Tabs] /\ t.pane \in t.panes
    BY <2>1 DEF Tree
  <2> HIDE DEF t
  <2>5. tree' \in Tree /\ tree'.panes = t.panes
        /\ tree'.pane = IF attached \in t.panes THEN attached ELSE t.pane
    BY <2>2, <2>4 DEF Tree, TypeInv, TypeOK
  <2> QED BY <1>2, <2>1, <2>3, <2>5 DEF ReadTree, TypeInv, TypeOK, PhaseInv
<1>3. CASE ReadPong
  <2>1. wire' \in Seq(DaemonFrame)
    BY <1>3, GotFrame DEF ReadPong
  <2> QED BY <1>3, <2>1 DEF ReadPong, TypeInv, TypeOK, PhaseInv
<1>4. CASE ReadError
  <2>1. wire' \in Seq(DaemonFrame)
    BY <1>4, GotFrame DEF ReadError
  <2> QED BY <1>4, <2>1 DEF ReadError, End, TypeInv, TypeOK, PhaseInv
<1>5. CASE EndResize
  BY <1>5 DEF EndResize, TypeInv, TypeOK, PhaseInv
<1> QED BY <1>1, <1>2, <1>3, <1>4, <1>5

LEMMA TypeFinish ==
  ASSUME TypeInv, ApplyPending \/ Settle \/ ShowLines
  PROVE  TypeInv'
<1> USE DEF session, content, daemon, client, phase, screen, scrolling
<1>1. CASE ApplyPending
  <2>1. Head(pending) \in Update /\ pending' \in Seq(Update)
    BY <1>1, HeadTail DEF ApplyPending, TypeInv, TypeOK
  <2>2. /\ overlay' \in Overlay /\ (overlay'.guess # NoGuess => overlay'.misses < MaxMisses)
        /\ cache' \in [Panes -> Surface \cup {NoSurface}]
        /\ text' \in [Panes -> Text \cup {NoText}] /\ shown' \in Text
        /\ views' \in [Panes -> View \cup {NoView}]
        /\ (at' = at /\ outcome' = outcome) \/ (at' = "ended" /\ outcome' = "rejected")
    BY <1>1, <2>1, ApplyTypes DEF ApplyPending
  <2> QED BY <1>1, <2>1, <2>2 DEF ApplyPending, TypeInv, TypeOK, PhaseInv
<1>2. CASE Settle
  BY <1>2 DEF Settle, TypeInv, TypeOK, PhaseInv
<1>3. CASE ShowLines
  <2>1. fetch \in Fetch
    BY <1>3 DEF ShowLines, TypeInv, TypeOK
  <2>2. /\ fetch.pane \in Panes /\ fetch.start \in Nat /\ fetch.lines \in Nat
        /\ fetch.total \in Nat /\ fetch.version \in Nat
    BY <2>1 DEF Fetch
  <2>3. known' \subseteq KnownRange
    BY <1>3, <2>2, CachedTypes DEF ShowLines, TypeInv, TypeOK
  <2>4. /\ text' \in [Panes -> Text \cup {NoText}] /\ shown' \in Text
        /\ views' \in [Panes -> View \cup {NoView}]
    <3>1. CASE fetch.lines = 0
      BY <1>3, <3>1 DEF ShowLines, TypeInv, TypeOK
    <3>2. CASE fetch.lines # 0
      <4>1. History(fetch.pane, fetch.start) \in Text
        BY <2>2, TextTypes
      <4>2. [start |-> fetch.start, lines |-> fetch.lines, total |-> fetch.total] \in View
        BY <2>2 DEF View
      <4>3. /\ views' = [views EXCEPT ![fetch.pane] = [start |-> fetch.start, lines |-> fetch.lines,
                                                      total |-> fetch.total]]
            /\ text' = [text EXCEPT ![fetch.pane] = History(fetch.pane, fetch.start)]
            /\ shown' \in {shown, History(fetch.pane, fetch.start)}
        BY <1>3, <3>2 DEF ShowLines
      <4>4. views' \in [Panes -> View \cup {NoView}]
        BY <2>2, <4>2, <4>3 DEF TypeInv, TypeOK
      <4> QED BY <2>2, <4>1, <4>3, <4>4 DEF TypeInv, TypeOK
    <3> QED BY <3>1, <3>2
  <2>5. at' = at /\ at # "attach"
    BY <1>3 DEF ShowLines, TypeInv, TypeOK, PhaseInv
  <2> QED BY <1>3, <2>3, <2>4, <2>5 DEF ShowLines, TypeInv, TypeOK, PhaseInv
<1> QED BY <1>1, <1>2, <1>3

LEMMA FetchFields ==
  ASSUME NEW f \in Fetch
  PROVE  /\ f.pane \in Panes /\ f.start \in Nat /\ f.count \in Nat /\ f.phase \in {"probe", "range", "apply"}
         /\ f.lines \in Nat /\ f.total \in Nat /\ f.version \in Nat /\ f # NoFetch
         /\ [f EXCEPT !.retried = TRUE] \in Fetch
         /\ [f EXCEPT !.retried = TRUE].phase = f.phase
         /\ [f EXCEPT !.retried = TRUE].pane = f.pane
BY ConstantsAssumption DEF Fetch

LEMMA TailType ==
  ASSUME NEW m \in Nat, NEW n \in Nat
  PROVE  FirstOfTail(m, n) \in Nat
BY DEF FirstOfTail

LEMMA TypeAnswered ==
  ASSUME TypeInv, Answered
  PROVE  TypeInv'
<1> USE DEF session, content, daemon, client, phase, screen, scrolling
<1>1. CASE DeferUpdate
  <2>1. Head(wire) \in Update /\ wire' \in Seq(DaemonFrame)
    BY <1>1, GotFrame, FrameKinds DEF DeferUpdate
  <2>2. pending' \in Seq(Update)
    BY <1>1, <2>1, AppendTo DEF DeferUpdate, TypeInv, TypeOK
  <2> QED BY <1>1, <2>1, <2>2 DEF DeferUpdate, Waiting, TypeInv, TypeOK, PhaseInv
<1>2. CASE DropTree
  <2>1. wire' \in Seq(DaemonFrame)
    BY <1>2, GotFrame DEF DropTree
  <2> QED BY <1>2, <2>1 DEF DropTree, TypeInv, TypeOK, PhaseInv
<1>3. CASE RefusePong
  <2>1. wire' \in Seq(DaemonFrame)
    BY <1>3, GotFrame DEF RefusePong
  <2> QED BY <1>3, <2>1 DEF RefusePong, End, TypeInv, TypeOK, PhaseInv
<1>4. CASE RetryStale
  <2>1. wire' \in Seq(DaemonFrame) /\ fetch \in Fetch
    BY <1>4, GotFrame DEF RetryStale, Waiting, TypeInv, TypeOK
  <2>2. CASE fetch.retried
    BY <1>4, <2>1, <2>2 DEF RetryStale, End, TypeInv, TypeOK, PhaseInv
  <2>3. CASE ~fetch.retried
    <3>1. fetch' = [fetch EXCEPT !.retried = TRUE] /\ Send(FetchFrame(fetch.pane, fetch.start, fetch.count, 0))
      BY <1>4, <2>3 DEF RetryStale
    <3>2. fetch' \in Fetch /\ fetch'.phase = fetch.phase /\ fetch' # NoFetch
      BY <2>1, <3>1, FetchFields, ConstantsAssumption
    <3>3. FetchFrame(fetch.pane, fetch.start, fetch.count, 0) \in ClientFrame
      BY <2>1, FetchFields DEF FetchFrame, ClientFrame
    <3>4. sent' \in Seq(ClientFrame)
      BY <3>1, <3>3, SendTypes
    <3> QED BY <1>4, <2>1, <2>3, <3>2, <3>4 DEF RetryStale, Waiting, TypeInv, TypeOK, PhaseInv
  <2> QED BY <2>2, <2>3
<1>5. CASE TakeProbe
  <2>1. /\ wire' \in Seq(DaemonFrame) /\ fetch \in Fetch /\ Head(wire).total \in Nat
    BY <1>5, GotFrame, FrameKinds DEF TakeProbe, Waiting, TypeInv, TypeOK
  <2> DEFINE start == FirstOfTail(Head(wire).total, fetch.count)
             version == KnownVersion(fetch.pane, start, fetch.count)
  <2>2. start \in Nat
    <3>1. Head(wire).total \in Nat /\ fetch.count \in Nat
      BY <2>1, FetchFields
    <3> QED BY <3>1, TailType
  <2>3. version \in Nat
    BY <2>1, <2>2, FetchFields, KnownTypes
  <2>4. fetch' = [fetch EXCEPT !.phase = "range", !.start = start, !.retried = FALSE]
    BY <1>5 DEF TakeProbe
  <2>5. Send(FetchFrame(fetch.pane, start, fetch.count, version))
    BY <1>5 DEF TakeProbe
  <2> HIDE DEF start, version
  <2>6. sent' \in Seq(ClientFrame)
    <3>1. FetchFrame(fetch.pane, start, fetch.count, version) \in ClientFrame
      BY <2>1, <2>2, <2>3, FetchFields DEF FetchFrame, ClientFrame
    <3> QED BY <2>5, <3>1, SendTypes
  <2>7. fetch' \in Fetch /\ fetch'.phase = "range"
    <3> DEFINE a == [fetch EXCEPT !.phase = "range"]
               b == [a EXCEPT !.start = start]
    <3>1. a \in Fetch /\ a.phase = "range"
      BY <2>1 DEF Fetch
    <3> HIDE DEF a
    <3>2. b \in Fetch /\ b.phase = "range"
      BY <3>1, <2>2 DEF Fetch
    <3> HIDE DEF b
    <3>3. [b EXCEPT !.retried = FALSE] \in Fetch /\ [b EXCEPT !.retried = FALSE].phase = "range"
      BY <3>2 DEF Fetch
    <3> QED BY <2>4, <3>3 DEF a, b
  <2>8. fetch' # NoFetch
    BY <2>7, ConstantsAssumption
  <2>9. at # "loop" \/ fetch # NoFetch
    BY <1>5 DEF TakeProbe, Waiting
  <2> QED BY <1>5, <2>1, <2>6, <2>7, <2>8 DEF TakeProbe, Waiting, TypeInv, TypeOK, PhaseInv
<1>6. CASE TakeRange
  <2>1. /\ wire' \in Seq(DaemonFrame) /\ fetch \in Fetch /\ Head(wire).total \in Nat
        /\ Head(wire).start \in Nat /\ Head(wire).lines \in Nat /\ Head(wire).version \in Nat
    BY <1>6, GotFrame, FrameKinds DEF TakeRange, Waiting, TypeInv, TypeOK
  <2> DEFINE c == Head(wire)
  <2>2. fetch' = [fetch EXCEPT !.phase = "apply", !.start = c.start, !.lines = c.lines,
                               !.total = c.total, !.version = c.version]
    BY <1>6 DEF TakeRange
  <2>3. /\ c.start \in Nat /\ c.lines \in Nat /\ c.total \in Nat /\ c.version \in Nat
    BY <2>1
  <2> HIDE DEF c
  <2>4. fetch' \in Fetch
    <3> DEFINE f1 == [fetch EXCEPT !.phase = "apply"]
               f2 == [f1 EXCEPT !.start = c.start]
               f3 == [f2 EXCEPT !.lines = c.lines]
               f4 == [f3 EXCEPT !.total = c.total]
    <3>1. f1 \in Fetch
      BY <2>1 DEF Fetch
    <3> HIDE DEF f1
    <3>2. f2 \in Fetch
      BY <2>3, <3>1 DEF Fetch
    <3> HIDE DEF f2
    <3>3. f3 \in Fetch
      BY <2>3, <3>2 DEF Fetch
    <3> HIDE DEF f3
    <3>4. f4 \in Fetch
      BY <2>3, <3>3 DEF Fetch
    <3> HIDE DEF f4
    <3>5. [f4 EXCEPT !.version = c.version] \in Fetch
      BY <2>3, <3>4 DEF Fetch
    <3> QED BY <2>2, <3>5 DEF f1, f2, f3, f4
  <2>5. fetch' # NoFetch /\ fetch # NoFetch
    BY <1>6, <2>4, ConstantsAssumption DEF TakeRange, Waiting
  <2> QED BY <1>6, <2>1, <2>4, <2>5 DEF TakeRange, TypeInv, TypeOK, PhaseInv
<1>7. CASE EndAttach
  <2>1. /\ wire' \in Seq(DaemonFrame) /\ Head(wire).pane \in Panes
        /\ Head(wire).start \in Nat /\ Head(wire).lines \in Nat /\ Head(wire).version \in Nat
    BY <1>7, GotFrame, FrameKinds DEF EndAttach, TypeInv, TypeOK
  <2>2. known' \subseteq KnownRange
    BY <1>7, <2>1, CachedTypes DEF EndAttach, TypeInv, TypeOK
  <2>3. [kind |-> "resize", pane |-> attached] \in ClientFrame
    BY DEF ClientFrame, TypeInv, TypeOK
  <2>4. sent' \in Seq(ClientFrame)
    <3>1. CASE UNCHANGED sent
      BY <3>1 DEF TypeInv, TypeOK
    <3> QED BY <1>7, <2>3, <3>1, SendTypes DEF EndAttach
  <2> QED BY <1>7, <2>1, <2>2, <2>4 DEF EndAttach, TypeInv, TypeOK, PhaseInv
<1> QED BY <1>1, <1>2, <1>3, <1>4, <1>5, <1>6, <1>7 DEF Answered

LEMMA TypeScroll ==
  ASSUME TypeInv, NEW p \in Panes, ScrollUp(p) \/ ScrollDown(p) \/ ScrollBack(p)
  PROVE  TypeInv'
<1> USE DEF session, content, daemon, client, phase, screen, scrolling
<1>1. views[p] # NoView => /\ views[p].start \in Nat
                           /\ views[p].start + 1 \in Nat
                           /\ views[p].start > 1 => views[p].start - 1 \in Nat
  <2>1. views[p] # NoView => views[p] \in View
    BY DEF TypeInv, TypeOK
  <2>2. views[p] # NoView => views[p].start \in Nat
    BY <2>1 DEF View
  <2> QED BY <2>2
<1>2. left' \in [Counted -> Nat]
  BY CountType DEF ScrollUp, ScrollDown, ScrollBack, Counted
<1>3. ASSUME NEW how \in {"probe", "range"}, NEW n \in Nat, NEW k \in Nat, NEW v \in Nat,
             fetch' = Request(p, how, n), Send(FetchFrame(p, n, k, v)), at = "loop",
             UNCHANGED <<daemon, wire, phase, attached, tree, screen, known, pending, ping, marks>>
      PROVE  TypeInv'
  <2>1. fetch' \in Fetch /\ fetch' # NoFetch /\ sent' \in Seq(ClientFrame)
    BY <1>3, RequestTypes, SendTypes
  <2> QED BY <1>2, <1>3, <2>1 DEF TypeInv, TypeOK, PhaseInv
<1>4. ViewRows \in Nat /\ 1 \in Nat /\ 0 \in Nat
  BY ConstantsAssumption
<1>5. ASSUME NEW n \in Nat, AskFrom(p, n), at = "loop",
             UNCHANGED <<daemon, wire, phase, attached, tree, screen, known, pending, ping, marks>>
      PROVE  TypeInv'
  <2>1. KnownVersion(p, n, ViewRows) \in Nat
    BY <1>4, KnownTypes
  <2> QED BY <1>3, <1>4, <1>5, <2>1 DEF AskFrom
<1>6. CASE ScrollUp(p)
  <2>1. CASE views[p] = NoView
    BY <1>3, <1>4, <1>6, <2>1 DEF ScrollUp, AskTail, Idle
  <2>2. CASE views[p] # NoView
    BY <1>1, <1>5, <1>6, <2>2 DEF ScrollUp, Idle
  <2> QED BY <2>1, <2>2
<1>7. CASE ScrollDown(p)
  BY <1>1, <1>5, <1>7 DEF ScrollDown, Idle
<1>8. CASE ScrollBack(p)
  <2>1. SurfaceText(p) \in Text
    BY TextTypes
  <2>2. /\ views' = [views EXCEPT ![p] = NoView]
        /\ text' = [text EXCEPT ![p] = SurfaceText(p)]
        /\ shown' \in {shown, SurfaceText(p)}
    BY <1>8 DEF ScrollBack
  <2>3. views' \in [Panes -> View \cup {NoView}] /\ text' \in [Panes -> Text \cup {NoText}]
    BY <2>1, <2>2 DEF TypeInv, TypeOK
  <2>4. shown' \in Text
    BY <2>1, <2>2 DEF TypeInv, TypeOK
  <2> QED BY <1>2, <1>8, <2>3, <2>4 DEF ScrollBack, TypeInv, TypeOK, PhaseInv
<1> QED BY <1>6, <1>7, <1>8

LEMMA TypeKey ==
  ASSUME TypeInv, NEW c \in Chars
  PROVE  Key(c) => TypeInv'
<1> USE DEF session, content, daemon, client, phase, screen, scrolling
<1>1. attached \in Panes
  BY DEF TypeInv, TypeOK
<1>2. [kind |-> "key", pane |-> attached, char |-> c] \in ClientFrame
  BY <1>1 DEF ClientFrame
<1>3. Key(c) => left' \in [Counted -> Nat]
  BY CountType DEF Key, Counted
<1>4. CASE Key(c)
  <2> DEFINE s == cache[attached]
             o == IF s = NoSurface THEN overlay ELSE Predicted(overlay, attached, s, c)
  <2>1. overlay' = o /\ shown' = IF o.guess = overlay.guess THEN shown ELSE Guessed(attached, s.version)
    BY <1>4 DEF Key
  <2>2. overlay \in Overlay /\ (overlay.guess # NoGuess => overlay.misses < MaxMisses)
    BY DEF TypeInv, TypeOK, PhaseInv
  <2>3. s # NoSurface => s \in Surface /\ Guessed(attached, s.version) \in Text
    BY <1>1, TextTypes
  <2>4. o \in Overlay /\ (o.guess # NoGuess => o.misses < MaxMisses)
    BY <1>1, <2>2, <2>3, PredictedGuess
  <2>5. shown' \in Text
    BY <2>1, <2>3 DEF TypeInv, TypeOK
  <2>6. sent' \in Seq(ClientFrame)
    BY <1>2, <1>4, SendTypes DEF Key
  <2> HIDE DEF o
  <2>7. overlay' \in Overlay /\ (overlay'.guess # NoGuess => overlay'.misses < MaxMisses)
    BY <2>1, <2>4
  <2> QED BY <1>3, <1>4, <2>5, <2>6, <2>7 DEF Key, TypeInv, TypeOK, PhaseInv
<1> QED BY <1>4

LEMMA TypeFocus ==
  ASSUME TypeInv, NEW p \in Panes
  PROVE  Focus(p) => TypeInv'
<1> USE DEF session, content, daemon, client, phase, screen, scrolling
<1>1. Focus(p) => left' \in [Counted -> Nat]
  BY CountType DEF Focus, Counted
<1>2. CASE Focus(p)
  <2>1. SurfaceText(p) \in Text
    BY TextTypes
  <2>2. /\ views' = [views EXCEPT ![p] = NoView]
        /\ text' = [text EXCEPT ![p] = SurfaceText(p)]
        /\ shown' = SurfaceText(p)
        /\ tree' = [tree EXCEPT !.pane = p] /\ attached' = p /\ p \in tree.panes
    BY <1>2 DEF Focus, ShowPane
  <2>3. views' \in [Panes -> View \cup {NoView}] /\ text' \in [Panes -> Text \cup {NoText}]
    BY <2>1, <2>2 DEF TypeInv, TypeOK
  <2>4. tree' \in Tree
    BY <2>2 DEF Tree, TypeInv, TypeOK
  <2> QED BY <1>1, <1>2, <2>1, <2>2, <2>3, <2>4 DEF Focus, TypeInv, TypeOK, PhaseInv
<1> QED BY <1>2

LEMMA TypePings ==
  ASSUME TypeInv
  PROVE  SendPing \/ SendResize => TypeInv'
<1> USE DEF session, content, daemon, client, phase, screen, scrolling
<1>1. attached \in Panes
  BY DEF TypeInv, TypeOK
<1>2. [kind |-> "resize", pane |-> attached] \in ClientFrame
  BY <1>1 DEF ClientFrame
<1>3. [kind |-> "ping"] \in ClientFrame
  BY <1>1 DEF ClientFrame
<1>4. SendPing \/ SendResize => left' \in [Counted -> Nat]
  BY CountType DEF SendPing, SendResize, Counted
<1>5. CASE SendPing
  <2>1. sent' \in Seq(ClientFrame)
    BY <1>3, <1>5, SendTypes DEF SendPing
  <2> QED BY <1>4, <1>5, <2>1 DEF SendPing, TypeInv, TypeOK, PhaseInv
<1>6. CASE SendResize
  <2>1. sent' \in Seq(ClientFrame)
    BY <1>2, <1>6, SendTypes DEF SendResize
  <2> QED BY <1>4, <1>6, <2>1 DEF SendResize, TypeInv, TypeOK, PhaseInv
<1> QED BY <1>5, <1>6

LEMMA TypeStep == TypeInv /\ [Next]_vars => TypeInv'
<1> SUFFICES ASSUME TypeInv, [Next]_vars PROVE TypeInv'
  OBVIOUS
<1>1. CASE UNCHANGED vars
  BY <1>1 DEF vars, session, content, daemon, client, phase, screen, scrolling, TypeInv, TypeOK, PhaseInv
<1>2. CASE Next
  <2>1. \E p \in Panes : \E t \in Tabs : TRUE
    BY ConstantsAssumption DEF TypeInv, TypeOK
  <2>2. ASSUME NEW c \in Chars, Key(c) PROVE TypeInv'
    BY <2>2, TypeKey
  <2>3. CASE SendPing \/ SendResize
    BY <2>3, TypePings
  <2>4. ASSUME NEW t \in Tabs, OtherSwitch(t) \/ OtherClose(t) \/ SwitchTab(t) PROVE TypeInv'
    BY <2>1, <2>4, TypeOthers
  <2>5. ASSUME NEW p \in Panes, OtherResize(p) PROVE TypeInv'
    BY <2>1, <2>5, TypeOthers
  <2>6. ASSUME NEW p \in Panes, Focus(p) PROVE TypeInv'
    BY <2>6, TypeFocus
  <2>7. CASE Read \/ EndResize
    BY <2>7, TypeRead, TypeAnswered DEF Read
  <2> QED BY <1>2, <2>2, <2>3, <2>4, <2>5, <2>6, <2>7, TypeProcesses, TypeDaemon, TypeScroll,
             TypeFinish DEF Next, Finish
<1> QED BY <1>1, <1>2

\* Every variable has its type.
THEOREM TypeCorrect == Spec => []TypeOK
<1>1. Spec => []TypeInv
  BY TypeInit, TypeStep, PTL DEF Spec
<1> QED BY <1>1, PTL DEF TypeInv
-----------------------------------------------------------------------------
(* Updates on their way *)

LEMMA AscendingTail ==
  ASSUME NEW T, NEW s \in Seq(T), s # <<>>, Ascending(s)
  PROVE  Ascending(Tail(s)) /\ \A f \in ToSet(Tail(s)) : Earlier(Head(s), f)
<1>1. Ascending(Tail(s))
  <2>1. ASSUME NEW i \in DOMAIN Tail(s), NEW j \in DOMAIN Tail(s), i < j
        PROVE  Earlier(Tail(s)[i], Tail(s)[j])
    <3>1. /\ i + 1 \in DOMAIN s /\ j + 1 \in DOMAIN s /\ Tail(s)[i] = s[i + 1]
          /\ Tail(s)[j] = s[j + 1]
      BY HeadTail
    <3>2. DOMAIN Tail(s) = 1..Len(Tail(s)) /\ Len(Tail(s)) \in Nat
      BY HeadTail, LenProperties
    <3>3. i + 1 < j + 1
      BY <2>1, <3>2
    <3> QED BY <3>1, <3>3 DEF Ascending
  <2> QED BY <2>1 DEF Ascending
<1>2. ASSUME NEW f \in ToSet(Tail(s)) PROVE Earlier(Head(s), f)
  <2>1. PICK i \in DOMAIN Tail(s) : f = Tail(s)[i]
    BY <1>2 DEF ToSet
  <2>2. i + 1 \in DOMAIN s /\ i + 1 > 1 /\ f = s[i + 1] /\ Head(s) = s[1] /\ 1 \in DOMAIN s
    BY <2>1, HeadTail
  <2> QED BY <2>2 DEF Ascending
<1> QED BY <1>1, <1>2

LEMMA AscendingAppend ==
  ASSUME NEW T, NEW s \in Seq(T), NEW e \in T, Ascending(s), \A f \in ToSet(s) : Earlier(f, e)
  PROVE  Ascending(Append(s, e))
<1> DEFINE t == Append(s, e)
<1>1. /\ t[Len(s) + 1] = e /\ DOMAIN t = DOMAIN s \cup {Len(s) + 1} /\ DOMAIN s = 1..Len(s)
      /\ Len(s) \in Nat /\ \A i \in DOMAIN s : t[i] = s[i]
  BY AppendTo, LenProperties
<1>2. ASSUME NEW i \in DOMAIN t, NEW j \in DOMAIN t, i < j PROVE Earlier(t[i], t[j])
  <2>1. i \in DOMAIN s
    BY <1>1, <1>2
  <2>2. CASE j \in DOMAIN s
    BY <1>1, <1>2, <2>1, <2>2 DEF Ascending
  <2>3. CASE j = Len(s) + 1
    <3>1. t[i] \in ToSet(s)
      BY <1>1, <2>1 DEF ToSet
    <3> QED BY <1>1, <2>3, <3>1
  <2> QED BY <1>1, <2>2, <2>3
<1> QED BY <1>2 DEF Ascending

\* What a step does to the updates of the panes: a surface changes, it is written, an
\* update is applied, or none of this.
Grow(p) ==
  /\ surface'[p].version = surface[p].version + 1
  /\ \A q \in Panes \ {p} : surface'[q] = surface[q] /\ changed'[q] = changed[q]
  /\ ~changed'[p].full => Follows(surface[p], surface'[p], changed'[p].dirty)
  /\ UNCHANGED <<written, wire, pending, cache, opened, overlay, at, tabs>>

Same ==
  /\ UNCHANGED <<surface, changed, written, cache>> /\ opened \subseteq opened'
  /\ \A p \in Panes : Coming(p)' = Coming(p)
  /\ Ordered => Ordered'

Take(u) ==
  /\ Apply(u) /\ UNCHANGED <<surface, changed, written, opened, tabs, typed, sent, tree, attached>>
  /\ u \in Coming(u.pane)
  /\ \A p \in Panes : Coming(p)' \subseteq Coming(p) /\ Coming(p) \subseteq Coming(p)' \cup {u}
  /\ "overtaken" \in marks' \/ (Ordered => Ordered' /\ \A v \in Coming(u.pane)' :
                                   u.surface.version < v.surface.version)

\* A surface can be patched to what a process makes of it.
LEMMA OutputFollows ==
  ASSUME NEW s \in Surface, NEW c \in Chars \cup {Space},
         NEW t \in {Echo(s, c), NewLine(s), Home(s), Wipe(s), s},
         NEW dirty, dirty = {r \in Rows : t.rows[r] # s.rows[r]}
  PROVE  Follows(s, t, dirty)
<1> USE Sizes
<1>1. /\ s.row \in Rows /\ s.col \in 0..Cols /\ s.rows \in [Rows -> Seq(Chars \cup {Space})]
      /\ s.rows[s.row] \in Seq(Chars \cup {Space})
  BY Fields
<1>2. \A r \in Rows \ dirty : t.rows[r] = s.rows[r]
  OBVIOUS
<1> DEFINE Kept(x) == x.row = s.row /\ x.rows[s.row] = s.rows[s.row] /\ s.col = Len(s.rows[s.row])
                        => x.col <= s.col
<1>3. SUFFICES Kept(t)
  BY <1>1, <1>2 DEF Follows
<1>4. NewLine(s) \in Surface /\ NewLine(s).col = 0
  BY SurfaceTypes
<1>5. Kept(s) /\ Kept(NewLine(s))
  BY <1>1, <1>4
<1>6. Home(s).col = 0 /\ Wipe(s).col = s.col
  BY DEF Home, Wipe, Surface
<1>7. Kept(Echo(s, c))
  <2>1. ASSUME NEW x \in Surface
        PROVE  /\ Put(x, c).col = x.col + 1 /\ Put(x, c).row = x.row
               /\ x.col = Len(x.rows[x.row]) => Put(x, c).rows[x.row] # x.rows[x.row]
    <3> DEFINE row == Append(Padded(x.rows[x.row], x.col), c)
               rows == [x.rows EXCEPT ![x.row] = row]
               a == [x EXCEPT !.rows = rows]
    <3>1. x.rows[x.row] \in Seq(Chars \cup {Space}) /\ x.col \in Nat /\ x.row \in Rows
          /\ x.rows \in [Rows -> Seq(Chars \cup {Space})]
      BY Fields
    <3>2. Padded(x.rows[x.row], x.col) \in Seq(Chars \cup {Space}) /\ Len(Padded(x.rows[x.row], x.col)) = x.col
      BY <3>1, PaddedType
    <3>3. row \in Seq(Chars \cup {Space}) /\ Len(row) = x.col + 1
      BY <3>2, AppendProperties
    <3> HIDE DEF row
    <3>4. rows \in [Rows -> Seq(Chars \cup {Space})] /\ rows[x.row] = row
      BY <3>1, <3>3
    <3> HIDE DEF rows
    <3>5. a \in Surface /\ a.rows = rows /\ a.row = x.row /\ a.col = x.col
      BY <3>4 DEF Surface
    <3> HIDE DEF a
    <3>6. LET y == [a EXCEPT !.col = x.col + 1]
          IN  y.col = x.col + 1 /\ y.row = x.row /\ y.rows = rows
      BY <3>5 DEF Surface
    <3>7. Put(x, c) = [a EXCEPT !.col = x.col + 1]
      BY DEF Put, a, rows, row
    <3>8. x.col = Len(x.rows[x.row]) => row # x.rows[x.row]
      BY <3>1, <3>3
    <3> QED BY <3>4, <3>6, <3>7, <3>8
  <2>2. CASE Wraps(s)
    <3>1. Echo(s, c) = Put(NewLine(s), c)
      BY <2>2 DEF Echo
    <3>2. Echo(s, c).col = 1
      BY <1>4, <2>1, <3>1
    <3> QED BY <1>1, <2>2, <3>2 DEF Wraps
  <2>3. CASE ~Wraps(s)
    <3>1. Echo(s, c) = Put(s, c)
      BY <2>3 DEF Echo
    <3> QED BY <2>1, <3>1
  <2> QED BY <2>2, <2>3
<1> QED BY <1>1, <1>5, <1>6, <1>7

LEMMA ShowGrows ==
  ASSUME TypeInv, NEW p \in Panes, NEW s \in Surface, NEW full \in BOOLEAN, NEW line \in BOOLEAN,
         Show(p, s, full, line),
         full \/ Follows(surface[p], s, {r \in Rows : s.rows[r] # surface[p].rows[r]}),
         UNCHANGED <<written, wire, pending, cache, opened, overlay, at, tabs>>
  PROVE  /\ Grow(p) /\ surface'[p].row = s.row /\ surface'[p].col = s.col
         /\ surface'[p].rows = s.rows /\ changed'[p].full = full
         /\ changed'[p].dirty = {r \in Rows : s.rows[r] # surface[p].rows[r]}
<1> DEFINE t == [s EXCEPT !.version = surface[p].version + 1]
           d == {r \in Rows : s.rows[r] # surface[p].rows[r]}
<1>1. /\ surface' = [surface EXCEPT ![p] = t] /\ changed' = [changed EXCEPT ![p] = [full |-> full, dirty |-> d]]
  BY DEF Show
<1>2. t.version = surface[p].version + 1 /\ t.row = s.row /\ t.col = s.col /\ t.rows = s.rows
  BY DEF Surface
<1>3. DOMAIN surface = Panes /\ DOMAIN changed = Panes
  BY DEF TypeInv, TypeOK
<1> HIDE DEF t, d
<1>4. surface'[p] = t /\ changed'[p].full = full /\ changed'[p].dirty = d
  BY <1>1, <1>3
<1>5. \A q \in Panes \ {p} : surface'[q] = surface[q] /\ changed'[q] = changed[q]
  BY <1>1, <1>3
<1>6. ~full => Follows(surface[p], t, d)
  BY <1>2 DEF Follows, d
<1> QED BY <1>2, <1>4, <1>5, <1>6 DEF Grow, d

LEMMA OutputGrows ==
  ASSUME TypeInv, NEW p \in Panes, Output(p)
  PROVE  Grow(p)
<1> USE DEF session, client, phase, screen, scrolling
<1>1. surface[p] \in Surface
  BY DEF TypeInv, TypeOK
<1>2. UNCHANGED <<written, wire, pending, cache, opened, overlay, at, tabs>>
  BY DEF Output
<1> DEFINE s == surface[p]
           D(t) == {r \in Rows : t.rows[r] # s.rows[r]}
<1>3. ASSUME NEW c \in Chars \cup {Space}, NEW t \in {Echo(s, c), NewLine(s), Home(s), Wipe(s), s},
             NEW line \in BOOLEAN, Show(p, t, FALSE, line)
      PROVE  Grow(p)
  <2>1. t \in Surface
    BY <1>1, SurfaceTypes
  <2>2. Follows(s, t, D(t))
    BY <1>1, OutputFollows
  <2> QED BY <1>2, <1>3, <2>1, <2>2, ShowGrows
<1>4. CASE \E c \in Chars \cup {Space} : Show(p, Echo(s, c), FALSE, Wraps(s))
  BY <1>3, <1>4 DEF Wraps
<1>5. CASE Show(p, NewLine(s), FALSE, TRUE)
  BY <1>3, <1>5
<1>6. CASE \E t \in {Home(s), Wipe(s), s} : Show(p, t, FALSE, FALSE)
  BY <1>3, <1>6
<1>7. CASE Show(p, Other(s), TRUE, FALSE)
  <2>1. Other(s) \in Surface
    <3>1. \A c \in {Space} : Other(s) \in Surface
      BY <1>1, SurfaceTypes
    <3> QED BY <3>1
  <2> QED BY <1>2, <1>7, <2>1, ShowGrows
<1> QED BY <1>4, <1>5, <1>6, <1>7 DEF Output

\* A key that is echoed.
Echoes(p) == Show(p, Echo(surface[p], Head(typed[p])), FALSE, Wraps(surface[p]))
LEMMA AnswerGrows ==
  ASSUME TypeInv, NEW p \in Panes, Answer(p)
  PROVE  /\ Head(typed[p]) \in Chars
         /\ Echoes(p) \/ "swallowed" \in marks'
         /\ Echoes(p) => /\ Grow(p) /\ surface'[p].row = Echo(surface[p], Head(typed[p])).row
                         /\ surface'[p].col = Echo(surface[p], Head(typed[p])).col
                         /\ surface'[p].rows = Echo(surface[p], Head(typed[p])).rows
                         /\ ~changed'[p].full
                         /\ changed'[p].dirty = {r \in Rows : surface'[p].rows[r] # surface[p].rows[r]}
<1> USE DEF session, client, phase, screen, scrolling
<1>1. surface[p] \in Surface /\ typed[p] \in Seq(Chars)
  BY DEF TypeInv, TypeOK
<1>2. UNCHANGED <<written, wire, pending, cache, opened, overlay, at, tabs>>
  BY DEF Answer
<1>3. Head(typed[p]) \in Chars
  BY <1>1, HeadTail DEF Answer
<1> DEFINE s == surface[p]
           t == Echo(s, Head(typed[p]))
<1>4. t \in Surface /\ Wraps(s) \in BOOLEAN
  BY <1>1, <1>3, SurfaceTypes DEF Wraps
<1>5. Follows(s, t, {r \in Rows : t.rows[r] # s.rows[r]})
  BY <1>1, <1>3, OutputFollows
<1> HIDE DEF s, t
<1>6. CASE Show(p, t, FALSE, Wraps(s))
  <2>1. /\ Grow(p) /\ surface'[p].row = t.row /\ surface'[p].col = t.col
        /\ surface'[p].rows = t.rows /\ changed'[p].full = FALSE
        /\ changed'[p].dirty = {r \in Rows : t.rows[r] # surface[p].rows[r]}
    BY <1>2, <1>4, <1>5, <1>6, ShowGrows DEF s
  <2>2. ~changed'[p].full
    BY <2>1
  <2> QED BY <1>3, <1>6, <2>1, <2>2 DEF s, t, Echoes
<1>7. CASE ~Show(p, t, FALSE, Wraps(s))
  BY <1>3, <1>7 DEF Answer, Echoes, s, t
<1> QED BY <1>6, <1>7

LEMMA ResizeGrows ==
  ASSUME TypeInv, NEW p \in Panes,
         OtherResize(p) \/ (ServeResize /\ Head(sent).pane = p /\ Show(p, surface[p], TRUE, FALSE))
  PROVE  Grow(p) /\ changed'[p].full
<1> USE DEF session, client, phase, screen, scrolling
<1>1. surface[p] \in Surface /\ DOMAIN surface = Panes /\ DOMAIN changed = Panes
  BY DEF TypeInv, TypeOK
<1>2. CASE OtherResize(p)
  <2> DEFINE s == surface[p]
             t == [s EXCEPT !.version = s.version + 1]
  <2>1. t.version = s.version + 1
    BY <1>1 DEF Surface
  <2>2. surface' = [surface EXCEPT ![p] = t] /\ changed' = [changed EXCEPT ![p] = [full |-> TRUE, dirty |-> {}]]
    BY <1>2 DEF OtherResize
  <2>3. UNCHANGED <<written, wire, pending, cache, opened, overlay, at, tabs>>
    BY <1>2 DEF OtherResize
  <2> HIDE DEF t
  <2> QED BY <1>1, <2>1, <2>2, <2>3 DEF Grow
<1>3. CASE ServeResize /\ Head(sent).pane = p /\ Show(p, surface[p], TRUE, FALSE)
  BY <1>1, <1>3, ShowGrows DEF ServeResize
<1> QED BY <1>2, <1>3

\* Steps that leave the updates alone.
LEMMA SameWire ==
  ASSUME UNCHANGED <<surface, changed, written, cache, pending, wire>>, opened \subseteq opened'
  PROVE  Same
BY DEF Same, Coming, Ordered

LEMMA SameAppend ==
  ASSUME TypeInv, NEW f \in DaemonFrame, f.kind # "update", wire' = Append(wire, f),
         UNCHANGED <<surface, changed, written, cache, pending, opened>>
  PROVE  Same
<1>1. wire \in Seq(DaemonFrame)
  BY DEF TypeInv, TypeOK
<1>2. ToSet(wire') = ToSet(wire) \cup {f}
  BY <1>1, AppendTo
<1>3. \A p \in Panes : Coming(p)' = Coming(p)
  BY <1>2 DEF Coming
<1>4. \A g : Earlier(g, f)
  BY DEF Earlier
<1>5. Ordered => Ordered'
  BY <1>1, <1>2, <1>4, AscendingAppend DEF Ordered
<1> QED BY <1>3, <1>5 DEF Same

LEMMA SameTail ==
  ASSUME TypeInv, wire # <<>>, Head(wire).kind # "update", wire' = Tail(wire),
         UNCHANGED <<surface, changed, written, cache, pending, opened>>
  PROVE  Same
<1>1. wire \in Seq(DaemonFrame)
  BY DEF TypeInv, TypeOK
<1>2. ToSet(wire) = ToSet(wire') \cup {Head(wire)}
  BY <1>1, HeadTail
<1>3. \A p \in Panes : Coming(p)' = Coming(p)
  BY <1>2 DEF Coming
<1>4. Ordered => Ordered'
  BY <1>1, <1>2, AscendingTail DEF Ordered
<1> QED BY <1>3, <1>4 DEF Same

LEMMA SameDefer ==
  ASSUME TypeInv, DeferUpdate
  PROVE  Same
<1>1. /\ wire \in Seq(DaemonFrame) /\ wire # <<>> /\ wire' = Tail(wire)
      /\ pending \in Seq(Update) /\ pending' = Append(pending, Head(wire))
      /\ UNCHANGED <<surface, changed, written, cache, opened>>
  BY DEF DeferUpdate, Got, TypeInv, TypeOK, daemon, session, content, screen
<1>2. Head(wire) \in Update
  BY GotFrame, FrameKinds DEF DeferUpdate
<1>3. /\ ToSet(wire) = ToSet(wire') \cup {Head(wire)}
      /\ ToSet(pending') = ToSet(pending) \cup {Head(wire)}
  BY <1>1, <1>2, HeadTail, AppendTo
<1>4. \A p \in Panes : Coming(p)' = Coming(p)
  BY <1>3 DEF Coming
<1>5. Ordered => Ordered'
  <2> SUFFICES ASSUME Ordered PROVE Ordered'
    OBVIOUS
  <2>1. Ascending(wire') /\ \A f \in ToSet(wire') : Earlier(Head(wire), f)
    BY <1>1, AscendingTail DEF Ordered
  <2>2. Ascending(pending')
    BY <1>1, <1>2, <1>3, AscendingAppend DEF Ordered
  <2> QED BY <1>3, <2>1, <2>2 DEF Ordered
<1> QED BY <1>1, <1>4, <1>5 DEF Same

LEMMA Taken ==
  ASSUME TypeInv, ReadUpdate \/ ApplyPending
  PROVE  \E u \in Update : Take(u)
<1> USE DEF session, content, daemon, phase, scrolling
<1>1. wire \in Seq(DaemonFrame) /\ pending \in Seq(Update)
  BY DEF TypeInv, TypeOK
<1>2. CASE ReadUpdate
  <2>1. PICK u \in Update : u = Head(wire) /\ wire # <<>> /\ wire' = Tail(wire) /\ u.kind = "update"
    BY <1>2, GotFrame, FrameKinds DEF ReadUpdate
  <2>2. ToSet(wire) = ToSet(wire') \cup {u} /\ pending' = pending
    BY <1>1, <1>2, <2>1, HeadTail DEF ReadUpdate
  <2>3. Apply(u) /\ UNCHANGED <<surface, changed, written, opened, tabs, typed, sent, tree, attached>>
    BY <1>2, <2>1 DEF ReadUpdate
  <2>4. u \in Coming(u.pane)
    BY <2>1, <2>2 DEF Coming
  <2>5. \A p \in Panes : Coming(p)' \subseteq Coming(p) /\ Coming(p) \subseteq Coming(p)' \cup {u}
    BY <2>2 DEF Coming
  <2>6. ASSUME "overtaken" \notin marks', Ordered
        PROVE  Ordered' /\ \A v \in Coming(u.pane)' : u.surface.version < v.surface.version
    <3>1. pending = <<>>
      BY <1>2, <2>6 DEF ReadUpdate
    <3>2. ToSet(pending) = {} /\ ToSet(pending') = {}
      BY <2>2, <3>1 DEF ToSet
    <3>3. Ascending(wire') /\ \A f \in ToSet(wire') : Earlier(u, f)
      BY <1>1, <2>1, <2>6, AscendingTail DEF Ordered
    <3>4. Ordered'
      BY <2>2, <2>6, <3>2, <3>3 DEF Ordered
    <3> QED BY <2>1, <3>2, <3>3, <3>4 DEF Coming, Earlier
  <2> QED BY <2>1, <2>3, <2>4, <2>5, <2>6 DEF Take
<1>3. CASE ApplyPending
  <2>1. PICK u \in Update : u = Head(pending) /\ pending # <<>> /\ pending' = Tail(pending) /\ wire' = wire
    BY <1>1, <1>3, HeadTail DEF ApplyPending
  <2>2. ToSet(pending) = ToSet(pending') \cup {u} /\ u.kind = "update"
    BY <1>1, <2>1, HeadTail, UpdateFields
  <2>3. Apply(u) /\ UNCHANGED <<surface, changed, written, opened, tabs, typed, sent, tree, attached>>
    BY <1>3, <2>1 DEF ApplyPending
  <2>4. ASSUME Ordered PROVE Ascending(pending') /\ \A f \in ToSet(pending') : Earlier(u, f)
    BY <1>1, <2>1, <2>4, AscendingTail DEF Ordered
  <2>5. u \in Coming(u.pane)
    BY <2>2 DEF Coming
  <2>6. \A p \in Panes : Coming(p)' \subseteq Coming(p) /\ Coming(p) \subseteq Coming(p)' \cup {u}
    BY <2>1, <2>2 DEF Coming
  <2>7. ASSUME Ordered
        PROVE  Ordered' /\ \A v \in Coming(u.pane)' : u.surface.version < v.surface.version
    <3>1. Ordered'
      BY <2>1, <2>2, <2>4, <2>7 DEF Ordered
    <3>2. \A f \in ToSet(pending') \cup ToSet(wire') : Earlier(u, f)
      BY <2>1, <2>2, <2>4, <2>7 DEF Ordered
    <3> QED BY <2>2, <3>1, <3>2 DEF Coming, Earlier
  <2> QED BY <2>1, <2>3, <2>5, <2>6, <2>7 DEF Take
<1> QED BY <1>2, <1>3

LEMMA FlowSteps ==
  ASSUME TypeInv, Next
  PROVE  \/ \E p \in Panes : Grow(p) \/ WriteSurface(p)
         \/ Same
         \/ \E u \in Update : Take(u)
<1> USE DEF session, content, daemon, client, phase, screen, scrolling
<1>1. ASSUME NEW p \in Panes, Output(p) \/ Answer(p) \/ OtherResize(p) PROVE Grow(p) \/ Same
  <2>1. CASE Answer(p)
    <3>1. CASE ~Echoes(p)
      BY <2>1, <3>1, SameWire DEF Answer, Echoes
    <3> QED BY <2>1, <3>1, AnswerGrows
  <2> QED BY <1>1, <2>1, OutputGrows, ResizeGrows
<1>2. CASE ServeResize
  <2>1. CASE UNCHANGED <<due, surface, changed, history, left>>
    BY <1>2, <2>1, SameWire DEF ServeResize
  <2>2. CASE Show(Head(sent).pane, surface[Head(sent).pane], TRUE, FALSE)
    <3>1. Head(sent).pane \in Panes
      BY <1>2, UpInPanes DEF ServeResize
    <3> QED BY <1>2, <2>2, <3>1, ResizeGrows
  <2> QED BY <1>2, <2>1, <2>2 DEF ServeResize
<1>3. CASE ReadUpdate \/ ApplyPending
  BY <1>3, Taken
<1>4. CASE ServePing
  <2>1. [kind |-> "pong"] \in DaemonFrame
    BY DEF DaemonFrame
  <2> QED BY <1>4, <2>1, SameAppend DEF ServePing, Write
<1>5. CASE ServeClosedPane
  <2>1. [kind |-> "error"] \in DaemonFrame
    BY DEF DaemonFrame
  <2> QED BY <1>5, <2>1, SameAppend DEF ServeClosedPane, Write
<1>6. CASE ServeFetch
  <2>1. UNCHANGED <<surface, changed, written, cache, pending, opened>>
    BY <1>6 DEF ServeFetch
  <2>2. PICK f : f.kind \in {"stale", "chunk"} /\ wire' = Append(wire, f)
    BY <1>6 DEF ServeFetch, Write
  <2>3. f.kind # "update"
    BY <2>2
  <2>4. f \in DaemonFrame
    <3>1. wire' \in Seq(DaemonFrame)
      BY <1>6, TypeDaemon DEF Serve, TypeInv, TypeOK
    <3>2. wire \in Seq(DaemonFrame) /\ Len(wire) \in Nat
      BY LenProperties DEF TypeInv, TypeOK
    <3>3. wire'[Len(wire) + 1] = f /\ Len(wire') = Len(wire) + 1
      BY <2>2, <3>2
    <3> QED BY <3>1, <3>2, <3>3, ElementOfSeq
  <2> QED BY <2>1, <2>2, <2>3, <2>4, SameAppend
<1>7. CASE WriteTree
  <2>1. TreeOf(active, tabs) \in Tree
    BY PaneOf DEF TreeOf, Tree, TypeInv, TypeOK
  <2>2. [kind |-> "tree", tree |-> TreeOf(active, tabs)] \in DaemonFrame
    BY <2>1 DEF DaemonFrame
  <2> QED BY <1>7, <2>2, SameAppend DEF WriteTree, Write
<1>8. CASE DeferUpdate
  BY <1>8, SameDefer
<1>9. CASE ReadTree \/ ReadPong \/ ReadError
  BY <1>9, SameTail DEF ReadTree, ReadPong, ReadError, Got
<1>10. CASE Answered
  BY <1>8, <1>10, SameTail DEF Answered, DropTree, RefusePong, RetryStale, TakeProbe, TakeRange,
     EndAttach, Got
<1>11. ASSUME NEW p \in Panes, Erase(p) \/ ScrollUp(p) \/ ScrollDown(p) \/ ScrollBack(p) \/ Focus(p)
       PROVE  Same
  BY <1>11, SameWire DEF Erase, ScrollUp, ScrollDown, ScrollBack, Focus
<1>12. ASSUME NEW t \in Tabs, OtherSwitch(t) \/ OtherClose(t) \/ SwitchTab(t)
       PROVE  Same
  <2>1. opened \subseteq opened'
    BY <1>12 DEF OtherSwitch, OtherClose, SwitchTab
  <2> QED BY <1>12, <2>1, SameWire DEF OtherSwitch, OtherClose, SwitchTab
<1>13. ASSUME NEW c \in Chars, Key(c) PROVE Same
  BY <1>13, SameWire DEF Key
<1>14. CASE ServeKey \/ Settle \/ ShowLines \/ EndResize \/ SendPing \/ SendResize
  BY <1>14, SameWire DEF ServeKey, Settle, ShowLines, EndResize, SendPing, SendResize
<1> QED BY <1>1, <1>2, <1>3, <1>4, <1>5, <1>6, <1>7, <1>9, <1>10, <1>11, <1>12, <1>13, <1>14
        DEF Next, Serve, Read, Finish

LEMMA CopyTypes ==
  ASSUME TypeInv, NEW p \in Panes
  PROVE  /\ \A u \in Coming(p) : u \in Update /\ u.pane = p /\ u.surface \in Copies(p)
                                 /\ u.surface.version \in Nat /\ u.base \in Nat
         /\ \A n \in Copies(p) : n \in Surface /\ n.version \in Nat
                                 /\ ((n = cache[p] /\ n # NoSurface) \/ \E u \in Coming(p) : n = u.surface)
         /\ cache[p] # NoSurface => cache[p] \in Copies(p) /\ Version(p) = cache[p].version
         /\ cache[p] = NoSurface => Version(p) = 0
         /\ Version(p) \in Nat /\ surface[p].version \in Nat /\ written[p] \in Nat
<1>1. ASSUME NEW u \in Coming(p)
      PROVE  /\ u \in Update /\ u.pane = p /\ u.surface \in Copies(p) /\ u.surface \in Surface
             /\ u.surface.version \in Nat /\ u.base \in Nat
  <2>1. u \in ToSet(pending) \/ u \in ToSet(wire)
    BY <1>1 DEF Coming
  <2>2. CASE u \in ToSet(pending)
    <3>1. PICK i \in DOMAIN pending : u = pending[i]
      BY <2>2 DEF ToSet
    <3>2. pending \in Seq(Update)
      BY DEF TypeInv, TypeOK
    <3>3. u \in Update
      BY <3>1, <3>2, LenProperties, ElementOfSeq
    <3> QED BY <1>1, <3>3, UpdateFields, Fields DEF Coming, Copies
  <2>3. CASE u \in ToSet(wire)
    <3>1. PICK i \in DOMAIN wire : u = wire[i]
      BY <2>3 DEF ToSet
    <3>2. wire \in Seq(DaemonFrame)
      BY DEF TypeInv, TypeOK
    <3>3. u \in DaemonFrame
      BY <3>1, <3>2, LenProperties, ElementOfSeq
    <3>4. u \in Update
      BY <1>1, <3>3, FrameKinds DEF Coming
    <3> QED BY <1>1, <3>4, UpdateFields, Fields DEF Coming, Copies
  <2> QED BY <2>1, <2>2, <2>3
<1>2. cache[p] # NoSurface => cache[p] \in Surface /\ cache[p].version \in Nat
  BY TextTypes
<1>3. ASSUME NEW n \in Copies(p)
      PROVE  /\ n \in Surface /\ n.version \in Nat
             /\ (n = cache[p] /\ n # NoSurface) \/ \E u \in Coming(p) : n = u.surface
  BY <1>1, <1>2, <1>3, Fields DEF Copies
<1>4. surface[p].version \in Nat /\ written[p] \in Nat
  BY Fields DEF TypeInv, TypeOK
<1> QED BY <1>1, <1>2, <1>3, <1>4 DEF Version, Copies

\* The update that is written is the pane's only new one.
LEMMA Shipped ==
  ASSUME TypeInv, NEW p \in Panes, WriteSurface(p)
  PROVE  /\ Coming(p)' = Coming(p) \cup {Patch(p)}
         /\ \A q \in Panes \ {p} : Coming(q)' = Coming(q) /\ written'[q] = written[q]
         /\ written'[p] = surface[p].version /\ written[p] < surface[p].version
         /\ UNCHANGED <<surface, changed, cache, opened, tabs, pending, overlay, typed, sent, tree,
                        attached, at, marks>>
         /\ p \in Up /\ Patch(p) \in Update
         /\ (\A f \in ToSet(pending) \cup ToSet(wire) : Earlier(f, Patch(p))) /\ Ordered => Ordered'
<1> DEFINE f == Patch(p)
<1>1. f \in Update /\ f.pane = p /\ Write(f)
  BY PatchType
<1>2. f \in DaemonFrame /\ f.kind = "update"
  BY <1>1, UpdateFields
<1>3. wire \in Seq(DaemonFrame) /\ wire' = Append(wire, f) /\ pending' = pending
  BY <1>1 DEF Write, WriteSurface, client, scrolling, TypeInv, TypeOK
<1>4. PICK g \in DaemonFrame : g = f
  BY <1>2
<1>5. ToSet(wire') = ToSet(wire) \cup {g}
  BY <1>3, <1>4, AppendTo
<1>6. Coming(p)' = Coming(p) \cup {f} /\ \A q \in Panes \ {p} : Coming(q)' = Coming(q)
  BY <1>1, <1>2, <1>3, <1>4, <1>5 DEF Coming
<1>7. ASSUME \A x \in ToSet(pending) \cup ToSet(wire) : Earlier(x, f), Ordered PROVE Ordered'
  <2>1. Ascending(Append(wire, g))
    BY <1>3, <1>4, <1>7, AscendingAppend DEF Ordered
  <2> QED BY <1>3, <1>4, <1>5, <1>7, <2>1 DEF Ordered
<1>8. /\ written' = [written EXCEPT ![p] = surface[p].version] /\ p \in Up
      /\ written[p] < surface[p].version
      /\ UNCHANGED <<surface, changed, cache, opened, tabs, pending, overlay, typed, sent, tree,
                        attached, at, marks>>
  BY DEF WriteSurface, session, content, client, phase, screen, scrolling
<1>9. DOMAIN written = Panes
  BY DEF TypeInv, TypeOK
<1> QED BY <1>1, <1>6, <1>7, <1>8, <1>9

LEMMA PatchStep ==
  ASSUME TypeInv, PatchInv, Next
  PROVE  PatchInv'
<1>1. ASSUME NEW p \in Panes, Grow(p) PROVE PatchInv'
  <2>1. \A q \in Panes : Coming(q)' = Coming(q)
    BY <1>1 DEF Grow, Coming
  <2>2. ASSUME NEW q \in Panes
        PROVE  1 <= surface'[q].version /\ (surface'[q].version = 1 => changed'[q].full)
    <3>1. surface[p].version \in Nat
      BY CopyTypes
    <3> QED BY <1>1, <3>1 DEF Grow, PatchInv
  <2> QED BY <2>1, <2>2 DEF PatchInv
<1>2. ASSUME NEW p \in Panes, WriteSurface(p) PROVE PatchInv'
  <2>1. ~Patch(p).full => Patch(p).base # 0 /\ Patch(p).surface.version = Patch(p).base + 1
    BY PatchType, CopyTypes DEF PatchInv
  <2>2. ASSUME NEW q \in Panes, NEW u \in Coming(q)', ~u.full
        PROVE  u.base # 0 /\ u.surface.version = u.base + 1
    BY <1>2, <2>1, <2>2, Shipped DEF PatchInv
  <2> QED BY <1>2, <2>2, Shipped DEF PatchInv
<1>3. CASE Same
  BY <1>3 DEF Same, PatchInv
<1>4. ASSUME NEW u \in Update, Take(u) PROVE PatchInv'
  BY <1>4 DEF Take, PatchInv
<1> QED BY <1>1, <1>2, <1>3, <1>4, FlowSteps

LEMMA FlowGrow ==
  ASSUME TypeInv, PatchInv, Flow, NEW p \in Panes, Grow(p)
  PROVE  Flow'
<1>1. Ordered'
  BY DEF Grow, Flow, Ordered
<1>2. \A q \in Panes : Coming(q)' = Coming(q) /\ Copies(q)' = Copies(q) /\ Version(q)' = Version(q)
  BY DEF Grow, Coming, Copies, Version
<1>3. \A q \in Panes : ComingAt(q)'
  BY <1>2 DEF ComingAt, Flow
<1>4. ASSUME NEW q \in Panes, q # p PROVE WrittenAt(q)'
  BY <1>2, <1>4 DEF WrittenAt, Flow, Grow
<1>5. WrittenAt(p)'
  <2>1. /\ written[p] \in Nat /\ surface[p].version \in Nat /\ written' = written
        /\ surface'[p].version = surface[p].version + 1 /\ opened' = opened
    BY CopyTypes DEF Grow
  <2>2. WrittenAt(p) /\ Copies(p)' = Copies(p)
    BY <1>2 DEF Flow
  <2>3. ASSUME NEW n \in Copies(p), n.version = written[p]
        PROVE  /\ written[p] = surface'[p].version => n = surface'[p]
               /\ written[p] + 1 = surface'[p].version /\ ~changed'[p].full =>
                    Follows(n, surface'[p], changed'[p].dirty)
    BY <2>1, <2>2, <2>3 DEF WrittenAt, Grow
  <2>4. written[p] <= surface'[p].version
    BY <2>1, <2>2 DEF WrittenAt
  <2> QED BY <2>1, <2>2, <2>3, <2>4 DEF WrittenAt
<1> QED BY <1>1, <1>3, <1>4, <1>5 DEF Flow

LEMMA FlowSame ==
  ASSUME TypeInv, Flow, Same
  PROVE  Flow'
<1>1. \A q \in Panes : Coming(q)' = Coming(q) /\ Copies(q)' = Copies(q) /\ Version(q)' = Version(q)
  BY DEF Same, Copies, Version
<1>2. UNION opened \subseteq UNION opened'
  BY DEF Same
<1>3. ASSUME NEW q \in Panes PROVE WrittenAt(q)' /\ ComingAt(q)'
  <2>1. ComingAt(q)'
    BY <1>1 DEF ComingAt, Flow
  <2>2. WrittenAt(q)'
    BY <1>1, <1>2 DEF WrittenAt, Flow, Same
  <2> QED BY <2>1, <2>2
<1> QED BY <1>3 DEF Flow, Same

LEMMA FlowShip ==
  ASSUME TypeInv, PatchInv, Flow, NEW p \in Panes, WriteSurface(p)
  PROVE  Flow'
<1> DEFINE u == Patch(p)
<1>1. /\ u \in Update /\ u.pane = p /\ u.surface = surface[p]
      /\ u.full <=> (written[p] + 1 # surface[p].version \/ changed[p].full)
      /\ ~u.full => u.base = written[p] /\ u.dirty = changed[p].dirty
  BY PatchType
<1>2. /\ Coming(p)' = Coming(p) \cup {u}
      /\ \A q \in Panes \ {p} : Coming(q)' = Coming(q) /\ written'[q] = written[q]
      /\ written'[p] = surface[p].version /\ written[p] < surface[p].version
      /\ UNCHANGED <<surface, changed, cache, opened>> /\ p \in Up
  BY Shipped
<1>3. /\ written[p] \in Nat /\ surface[p].version \in Nat
      /\ \A n \in Copies(p) : n.version \in Nat /\ n.version <= written[p]
  BY CopyTypes DEF Flow, WrittenAt
<1>4. Ordered'
  <2>1. ASSUME NEW f \in ToSet(pending) \cup ToSet(wire) PROVE Earlier(f, u)
    <3>1. CASE f.kind = "update" /\ f.pane = p
      <4>1. f \in Coming(p)
        BY <3>1 DEF Coming
      <4> QED BY <1>1, <1>2, <1>3, <4>1, CopyTypes DEF Earlier
    <3>2. CASE ~(f.kind = "update" /\ f.pane = p)
      BY <1>1, <3>2 DEF Earlier
    <3> QED BY <3>1, <3>2
  <2> QED BY <2>1, Shipped DEF Flow
<1> HIDE DEF u
<1>5. ASSUME NEW q \in Panes, q # p PROVE WrittenAt(q)' /\ ComingAt(q)'
  <2>1. Coming(q)' = Coming(q) /\ Copies(q)' = Copies(q) /\ Version(q)' = Version(q)
    BY <1>2, <1>5 DEF Copies, Version
  <2>2. ComingAt(q)'
    BY <2>1 DEF ComingAt, Flow
  <2>3. WrittenAt(q)'
    BY <1>2, <1>5, <2>1 DEF WrittenAt, Flow
  <2> QED BY <2>2, <2>3
<1>6. Copies(p)' = Copies(p) \cup {surface[p]} /\ Version(p)' = Version(p)
  BY <1>1, <1>2 DEF Copies, Version
<1>7. p \in UNION opened
  BY <1>2, UpInPanes
<1>8. WrittenAt(p)'
  <2>1. \A n \in Copies(p)' : 1 <= n.version /\ n.version <= written'[p]
    BY <1>2, <1>3, <1>6 DEF Flow, WrittenAt, PatchInv
  <2>2. \A n \in Copies(p)' : n.version = written'[p] => n = surface[p]
    BY <1>2, <1>3, <1>6
  <2>3. surface[p] \in Copies(p)' /\ written'[p] + 1 # surface[p].version
    BY <1>2, <1>3, <1>6
  <2> QED BY <1>2, <1>3, <1>7, <2>1, <2>2, <2>3 DEF WrittenAt
<1>9. ComingAt(p)'
  <2>1. ASSUME NEW v \in Coming(p)
        PROVE  /\ Version(p)' < v.surface.version
               /\ ~v.full => \E n \in Copies(p)' : n.version = v.base
               /\ ~v.full => \A n \in Copies(p)' : n.version = v.base => Follows(n, v.surface, v.dirty)
    <3>1. v.surface.version <= written[p] /\ v.surface.version \in Nat /\ v.base \in Nat
      BY <1>3, CopyTypes
    <3>2. ~v.full => v.base < surface[p].version
      BY <1>2, <1>3, <3>1 DEF PatchInv
    <3> QED BY <1>6, <1>3, <3>1, <3>2 DEF Flow, ComingAt
  <2>2. Version(p)' < u.surface.version
    <3>1. Version(p) <= written[p] /\ Version(p) \in Nat
      BY <1>3, CopyTypes
    <3> QED BY <1>1, <1>2, <1>3, <1>6, <3>1
  <2>3. ASSUME ~u.full
        PROVE  /\ \E n \in Copies(p)' : n.version = u.base
               /\ \A n \in Copies(p)' : n.version = u.base => Follows(n, u.surface, u.dirty)
    <3>1. /\ written[p] + 1 = surface[p].version /\ ~changed[p].full /\ u.base = written[p]
          /\ u.dirty = changed[p].dirty
      BY <1>1, <2>3
    <3>2. written[p] # 0
      BY <3>1 DEF PatchInv
    <3> QED BY <1>1, <1>2, <1>3, <1>6, <3>1, <3>2 DEF Flow, WrittenAt
  <2> QED BY <1>2, <2>1, <2>2, <2>3 DEF ComingAt
<1> QED BY <1>4, <1>5, <1>8, <1>9 DEF Flow

\* The next update fits, and the cache takes the daemon's surface.
LEMMA TakeFits ==
  ASSUME TypeInv, PatchInv, Flow, NEW u \in Update, Take(u), "overtaken" \notin marks'
  PROVE  Fits(u) /\ Patched(u) = u.surface
<1> DEFINE p == u.pane
<1>1. /\ p \in Panes /\ u.surface \in Surface /\ u.surface.version \in Nat /\ u.base \in Nat
      /\ u \in Coming(p)
  BY UpdateFields, Fields DEF Take
<1>2. /\ Coming(p) \subseteq Coming(p)' \cup {u}
      /\ \A v \in Coming(p)' : u.surface.version < v.surface.version
  BY <1>1 DEF Take, Flow
<1> HIDE DEF p
<1>3. CASE u.full
  BY <1>3 DEF Fits, Patched
<1>4. CASE ~u.full
  <2>1. u.surface.version = u.base + 1
    BY <1>1, <1>4 DEF PatchInv
  <2>2. PICK n \in Copies(p) : n.version = u.base /\ Follows(n, u.surface, u.dirty)
    BY <1>1, <1>4 DEF Flow, ComingAt
  <2>3. n = cache[p] /\ n # NoSurface
    <3>1. ASSUME NEW v \in Coming(p), n = v.surface PROVE FALSE
      <4>1. CASE v = u
        BY <1>1, <2>1, <2>2, <3>1, <4>1
      <4>2. CASE v # u
        <5>1. u.surface.version < v.surface.version
          BY <1>2, <4>2
        <5> QED BY <1>1, <2>1, <2>2, <3>1, <5>1
      <4> QED BY <4>1, <4>2
    <3> QED BY <1>1, <2>2, <3>1, CopyTypes
  <2>4. Fits(u)
    BY <2>2, <2>3 DEF Fits, p
  <2> DEFINE t == Patched(u)
  <2>5. /\ t \in Surface /\ t.version = u.surface.version /\ t.row = u.surface.row
        /\ t.col = u.surface.col
        /\ \A r \in Rows : t.rows[r] = IF u.full \/ r \in u.dirty THEN u.surface.rows[r]
                                       ELSE cache[p].rows[r]
    BY <2>4, PatchedType DEF p
  <2> HIDE DEF t
  <2>6. \A r \in Rows : t.rows[r] = u.surface.rows[r]
    BY <1>4, <2>2, <2>3, <2>5 DEF Follows
  <2>7. t.rows = u.surface.rows
    BY <1>1, <2>5, <2>6, Fields
  <2>8. t.main = u.surface.main
    <3> DEFINE rows == [r \in Rows |-> IF r \in u.dirty THEN u.surface.rows[r] ELSE cache[u.pane].rows[r]]
               s == u.surface
    <3>1. t = [s EXCEPT !.rows = rows]
      BY <1>4 DEF Patched, t
    <3>2. s \in Surface
      BY <1>1
    <3> HIDE DEF s, rows
    <3>3. [s EXCEPT !.rows = rows].main = s.main
      BY <3>2 DEF Surface
    <3> QED BY <3>1, <3>3 DEF s
  <2>9. t = u.surface
    BY <1>1, <2>5, <2>7, <2>8, Fields
  <2> QED BY <2>4, <2>9 DEF t
<1> QED BY <1>3, <1>4

\* What is left of a pane's copies when an update has been applied.
LEMMA CopiesTaken ==
  ASSUME TypeInv, PatchInv, Flow, NEW u \in Update, Take(u), "overtaken" \notin marks'
  PROVE  /\ \A q \in Panes : q # u.pane => /\ Coming(q)' = Coming(q) /\ Copies(q)' = Copies(q)
                                           /\ Version(q)' = Version(q) /\ cache'[q] = cache[q]
         /\ cache'[u.pane] = u.surface /\ Version(u.pane)' = u.surface.version
         /\ Copies(u.pane)' \subseteq Copies(u.pane)
         /\ \A n \in Copies(u.pane) : n \in Copies(u.pane)' \/ (n = cache[u.pane] /\ n # NoSurface)
         /\ Version(u.pane) < u.surface.version
<1> DEFINE p == u.pane
<1>1. /\ p \in Panes /\ u.surface \in Surface /\ u \in Coming(p)
  BY UpdateFields DEF Take
<1>2. \A q \in Panes : Coming(q)' \subseteq Coming(q) /\ Coming(q) \subseteq Coming(q)' \cup {u}
  BY DEF Take
<1>3. cache' = [cache EXCEPT ![p] = u.surface]
  BY TakeFits, Applied DEF Take
<1>4. DOMAIN cache = Panes /\ u.surface # NoSurface
  BY <1>1, ConstantsAssumption DEF TypeInv, TypeOK
<1>5. ASSUME NEW q \in Panes, q # p
      PROVE  /\ Coming(q)' = Coming(q) /\ cache'[q] = cache[q] /\ Copies(q)' = Copies(q)
             /\ Version(q)' = Version(q)
  <2>1. u \notin Coming(q)
    BY <1>5 DEF Coming
  <2>2. Coming(q)' = Coming(q)
    BY <1>2, <2>1
  <2>3. cache'[q] = cache[q]
    BY <1>3, <1>5
  <2> QED BY <2>2, <2>3 DEF Copies, Version
<1>6. cache'[p] = u.surface
  BY <1>1, <1>3, <1>4
<1>7. (Copies(p))' = {u.surface} \cup {v.surface : v \in Coming(p)'} /\ (Version(p))' = u.surface.version
  <2>1. \A x \in Panes : x = p => Copies(x)' = {u.surface} \cup {v.surface : v \in Coming(x)'}
                                  /\ Version(x)' = u.surface.version
    BY <1>4, <1>6 DEF Copies, Version
  <2> QED BY <1>1, <2>1
<1>8. Copies(p) = {s \in {cache[p]} : s # NoSurface} \cup {v.surface : v \in Coming(p)}
  BY DEF Copies
<1>9. Version(p) < u.surface.version
  BY <1>1 DEF Flow, ComingAt
<1> HIDE DEF p
<1>10. Copies(p)' \subseteq Copies(p)
  BY <1>1, <1>2, <1>7, <1>8
<1>11. \A n \in Copies(p) : n \in Copies(p)' \/ (n = cache[p] /\ n # NoSurface)
  BY <1>1, <1>2, <1>7, <1>8
<1> QED BY <1>5, <1>6, <1>7, <1>9, <1>10, <1>11 DEF p

LEMMA FlowTake ==
  ASSUME TypeInv, PatchInv, Flow, NEW u \in Update, Take(u), "overtaken" \notin marks'
  PROVE  Flow'
<1>1. PICK p \in Panes : p = u.pane
  BY UpdateFields
<1>2. /\ \A q \in Panes : q # p => /\ Coming(q)' = Coming(q) /\ Copies(q)' = Copies(q)
                                   /\ Version(q)' = Version(q)
      /\ Version(p)' = u.surface.version /\ Copies(p)' \subseteq Copies(p)
      /\ \A n \in Copies(p) : n \in Copies(p)' \/ (n = cache[p] /\ n # NoSurface)
      /\ Version(p) < u.surface.version
  BY <1>1, CopiesTaken
<1>3. /\ UNCHANGED <<surface, changed, written, opened>> /\ u \in Coming(p)
      /\ Coming(p)' \subseteq Coming(p) /\ Ordered'
      /\ \A v \in Coming(p)' : u.surface.version < v.surface.version
  BY <1>1 DEF Take, Flow
<1>4. ASSUME NEW q \in Panes, q # p PROVE WrittenAt(q)' /\ ComingAt(q)'
  <2>1. ComingAt(q)'
    BY <1>2, <1>4 DEF ComingAt, Flow
  <2>2. WrittenAt(q)'
    BY <1>2, <1>3, <1>4 DEF WrittenAt, Flow
  <2> QED BY <2>1, <2>2
<1>5. /\ WrittenAt(p) /\ ComingAt(p) /\ u.surface.version \in Nat /\ written[p] \in Nat
      /\ cache[p] # NoSurface => cache[p].version = Version(p) /\ Version(p) \in Nat
      /\ u.surface \in Copies(p)
  BY <1>3, CopyTypes DEF Flow
<1>6. WrittenAt(p)'
  <2>1. written[p] # 0 => \E n \in Copies(p)' : n.version = written[p]
    <3> SUFFICES ASSUME written[p] # 0 PROVE \E n \in Copies(p)' : n.version = written[p]
      OBVIOUS
    <3>1. PICK n \in Copies(p) : n.version = written[p]
      BY <1>5 DEF WrittenAt
    <3>2. u.surface.version <= written[p]
      BY <1>5 DEF WrittenAt
    <3>3. ~(n = cache[p] /\ n # NoSurface)
      BY <1>2, <1>5, <3>1, <3>2
    <3> QED BY <1>2, <3>1, <3>3
  <2> QED BY <1>2, <1>3, <1>5, <2>1 DEF WrittenAt
<1>7. ComingAt(p)'
  <2>1. ASSUME NEW v \in Coming(p)', ~v.full
        PROVE  /\ \E n \in Copies(p)' : n.version = v.base
               /\ \A n \in Copies(p)' : n.version = v.base => Follows(n, v.surface, v.dirty)
    <3>1. v \in Coming(p) /\ u.surface.version < v.surface.version /\ v.surface.version = v.base + 1
          /\ v.base \in Nat
      BY <1>3, <2>1, CopyTypes DEF PatchInv
    <3>2. PICK n \in Copies(p) : n.version = v.base
      BY <1>5, <2>1, <3>1 DEF ComingAt
    <3>3. ~(n = cache[p] /\ n # NoSurface)
      BY <1>2, <1>5, <3>1, <3>2
    <3>4. n \in Copies(p)'
      BY <1>2, <3>3
    <3> QED BY <1>2, <1>5, <2>1, <3>1, <3>2, <3>4 DEF ComingAt
  <2> QED BY <1>2, <1>3, <2>1 DEF ComingAt
<1> QED BY <1>3, <1>4, <1>6, <1>7 DEF Flow

\* What has happened stays.
LEMMA MarksStay ==
  ASSUME Next
  PROVE  at # "ended" /\ marks \subseteq marks'
<1> USE DEF client, daemon
<1>1. ASSUME NEW p \in Panes, Output(p) \/ Erase(p) \/ Answer(p) \/ WriteSurface(p) \/ OtherResize(p)
      PROVE  marks \subseteq marks'
  BY <1>1 DEF Output, Erase, Answer, WriteSurface, OtherResize
<1>2. ASSUME NEW p \in Panes, Focus(p) \/ ScrollUp(p) \/ ScrollDown(p) \/ ScrollBack(p)
      PROVE  marks' = marks
  BY <1>2 DEF Focus, ScrollUp, ScrollDown, ScrollBack
<1>3. ASSUME NEW t \in Tabs, OtherSwitch(t) \/ OtherClose(t) \/ SwitchTab(t)
      PROVE  marks' = marks
  BY <1>3 DEF OtherSwitch, OtherClose, SwitchTab
<1>4. ASSUME NEW c \in Chars, Key(c) PROVE marks' = marks
  BY <1>4 DEF Key
<1>5. Serve \/ WriteTree => marks' = marks
  BY DEF Serve, WriteTree, ServePing, ServeClosedPane, ServeKey, ServeFetch, ServeResize
<1>6. Read => marks \subseteq marks'
  BY DEF Read, ReadUpdate, ReadTree, ReadPong, ReadError, Answered, DeferUpdate, DropTree,
     RefusePong, RetryStale, TakeProbe, TakeRange, EndAttach
<1>7. Finish \/ EndResize \/ SendPing \/ SendResize => marks' = marks
  BY DEF Finish, ApplyPending, Settle, ShowLines, EndResize, SendPing, SendResize
<1> QED BY <1>1, <1>2, <1>3, <1>4, <1>5, <1>6, <1>7 DEF Next

LEMMA FlowInit == TypeInv /\ Init => PatchInv /\ FlowInv /\ PatchesFit
<1> SUFFICES ASSUME TypeInv, Init PROVE PatchInv /\ FlowInv /\ PatchesFit
  OBVIOUS
<1>1. ToSet(pending) = {} /\ ToSet(wire) = {} /\ pending = <<>> /\ wire = <<>>
  BY DEF Init, ToSet
<1>2. \A p \in Panes : Coming(p) = {}
  BY <1>1 DEF Coming
<1>3. \A p \in Panes : surface[p] = Blank /\ changed[p].full
  BY DEF Init
<1>4. Blank.version = 1
  BY DEF Blank
<1>5. Ordered
  BY <1>1 DEF Ordered, Ascending
<1>6. ASSUME NEW p \in Panes PROVE WrittenAt(p) /\ ComingAt(p)
  <2>1. CASE p \in Up
    <3>1. written[p] = 1 /\ cache[p] = Blank
      BY <2>1 DEF Init
    <3>2. \A n \in Copies(p) : n = Blank
      BY <1>2, <3>1 DEF Copies
    <3>3. p \in UNION opened
      BY <2>1, UpInPanes
    <3>4. Blank \in Copies(p)
      <4>1. Blank # NoSurface
        BY BlankType, ConstantsAssumption
      <4> QED BY <3>1, <4>1 DEF Copies
    <3> QED BY <1>2, <1>3, <1>4, <3>1, <3>2, <3>3, <3>4 DEF WrittenAt, ComingAt
  <2>2. CASE p \notin Up
    <3>1. written[p] = 0 /\ cache[p] = NoSurface
      BY <2>2 DEF Init
    <3>2. Copies(p) = {}
      BY <1>2, <3>1 DEF Copies
    <3> QED BY <1>2, <1>3, <1>4, <3>1, <3>2 DEF WrittenAt, ComingAt
  <2> QED BY <2>1, <2>2
<1> QED BY <1>2, <1>3, <1>4, <1>5, <1>6 DEF Init, PatchInv, FlowInv, Flow, PatchesFit

LEMMA FlowStep ==
  ASSUME TypeInv, PatchInv, FlowInv, Next
  PROVE  FlowInv'
<1> SUFFICES ASSUME Flowing' PROVE Flow'
  BY DEF FlowInv
<1>1. Flow /\ "overtaken" \notin marks'
  BY MarksStay DEF FlowInv, Flowing
<1> QED BY <1>1, FlowSteps, FlowGrow, FlowShip, FlowSame, FlowTake

\* How the client ends.
LEMMA Ending ==
  ASSUME TypeInv, Next, outcome' = "rejected"
  PROVE  \E u \in Update : Take(u) /\ ~Fits(u)
<1> USE DEF client, daemon, phase
<1>1. outcome = "none"
  BY DEF Next, TypeInv, TypeOK
<1>2. ASSUME NEW p \in Panes, Output(p) \/ Erase(p) \/ Answer(p) \/ WriteSurface(p) \/ OtherResize(p)
      PROVE  outcome' = outcome
  BY <1>2 DEF Output, Erase, Answer, WriteSurface, OtherResize
<1>3. ASSUME NEW p \in Panes, Focus(p) \/ ScrollUp(p) \/ ScrollDown(p) \/ ScrollBack(p)
      PROVE  outcome' = outcome
  BY <1>3 DEF Focus, ScrollUp, ScrollDown, ScrollBack
<1>4. ASSUME NEW t \in Tabs, OtherSwitch(t) \/ OtherClose(t) \/ SwitchTab(t)
      PROVE  outcome' \in {outcome, "error"}
  BY <1>4 DEF OtherSwitch, OtherClose, SwitchTab, End
<1>5. ASSUME NEW c \in Chars, Key(c) PROVE outcome' = outcome
  BY <1>5 DEF Key
<1>6. Serve \/ WriteTree => outcome' = outcome
  BY DEF Serve, WriteTree, ServePing, ServeClosedPane, ServeKey, ServeFetch, ServeResize
<1>7. Answered \/ ReadTree \/ ReadPong \/ ReadError => outcome' \in {outcome, "error", "unexpected"}
  BY DEF ReadTree, ReadPong, ReadError, Answered, DeferUpdate, DropTree,
     RefusePong, RetryStale, TakeProbe, TakeRange, EndAttach, End
<1>8. Settle \/ ShowLines \/ EndResize \/ SendPing \/ SendResize => outcome' = outcome
  BY DEF Settle, ShowLines, EndResize, SendPing, SendResize
<1>9. ReadUpdate \/ ApplyPending
  BY <1>1, <1>2, <1>3, <1>4, <1>5, <1>6, <1>7, <1>8 DEF Next, Read, Finish
<1>10. PICK u \in Update : Take(u)
  BY <1>9, Taken
<1> QED BY <1>1, <1>10, Applied DEF Take

LEMMA FitStep ==
  ASSUME TypeInv, PatchInv, FlowInv, PatchesFit, Next
  PROVE  PatchesFit'
<1> SUFFICES ASSUME outcome' = "rejected", "overtaken" \notin marks' PROVE FALSE
  BY DEF PatchesFit
<1>1. PICK u \in Update : Take(u) /\ ~Fits(u)
  BY Ending
<1>2. Flow
  BY MarksStay DEF FlowInv, Flowing
<1> QED BY <1>1, <1>2, TakeFits

FlowSafe == TypeInv /\ PatchInv /\ FlowInv /\ PatchesFit

LEMMA FlowCorrect == Spec => []FlowSafe
<1>1. Init => FlowSafe
  BY TypeInit, FlowInit DEF FlowSafe
<1>2. FlowSafe /\ [Next]_vars => FlowSafe'
  <2> SUFFICES ASSUME FlowSafe, [Next]_vars PROVE FlowSafe'
    OBVIOUS
  <2>1. CASE Next
    BY <2>1, TypeStep, PatchStep, FlowStep, FitStep DEF FlowSafe
  <2>2. CASE UNCHANGED vars
    <3>1. UNCHANGED <<surface, changed, written, cache, pending, wire, opened, at, marks, outcome>>
      BY <2>2 DEF vars, daemon, session, content, client, phase, screen, scrolling
    <3>2. Same
      BY <3>1, SameWire
    <3>3. Flowing' = Flowing
      BY <3>1 DEF Flowing
    <3> QED BY <2>2, <3>1, <3>2, <3>3, TypeStep, FlowSame
            DEF FlowSafe, FlowInv, PatchInv, PatchesFit, Same
  <2> QED BY <2>1, <2>2
<1> QED BY <1>1, <1>2, PTL DEF Spec

\* A client only refuses a patch when it has taken one from the wire while it had others
\* put aside.
THEOREM PatchesAlwaysFit == Spec => []PatchesFit
BY FlowCorrect, PTL DEF FlowSafe
-----------------------------------------------------------------------------
(* Guesses *)

LEMMA OverlaySteps ==
  ASSUME TypeInv, Next
  PROVE  \/ UNCHANGED <<overlay, cache>>
         \/ \E u \in Update : Take(u)
         \/ \E c \in Chars : Key(c)
<1> USE DEF client, daemon, screen
<1>1. ASSUME NEW p \in Panes, Output(p) \/ Erase(p) \/ Answer(p) \/ WriteSurface(p) \/ OtherResize(p)
                              \/ Focus(p) \/ ScrollUp(p) \/ ScrollDown(p) \/ ScrollBack(p)
      PROVE  UNCHANGED <<overlay, cache>>
  BY <1>1 DEF Output, Erase, Answer, WriteSurface, OtherResize, Focus, ScrollUp, ScrollDown, ScrollBack
<1>2. ASSUME NEW t \in Tabs, OtherSwitch(t) \/ OtherClose(t) \/ SwitchTab(t)
      PROVE  UNCHANGED <<overlay, cache>>
  BY <1>2 DEF OtherSwitch, OtherClose, SwitchTab
<1>3. Serve \/ WriteTree => UNCHANGED <<overlay, cache>>
  BY DEF Serve, WriteTree, ServePing, ServeClosedPane, ServeKey, ServeFetch, ServeResize
<1>4. Answered \/ ReadTree \/ ReadPong \/ ReadError => UNCHANGED <<overlay, cache>>
  BY DEF ReadTree, ReadPong, ReadError, Answered, DeferUpdate, DropTree,
     RefusePong, RetryStale, TakeProbe, TakeRange, EndAttach
<1>5. Settle \/ ShowLines \/ EndResize \/ SendPing \/ SendResize => UNCHANGED <<overlay, cache>>
  BY DEF Settle, ShowLines, EndResize, SendPing, SendResize
<1> QED BY <1>1, <1>2, <1>3, <1>4, <1>5, Taken DEF Next, Read, Finish

\* A guess that a key makes.
LEMMA KeyGuess ==
  ASSUME TypeInv, NEW c \in Chars, Key(c)
  PROVE  /\ overlay'.guess # overlay.guess =>
              LET g == overlay'.guess
                  s == cache[attached]
              IN  /\ g \in Guess /\ g.pane = attached /\ s \in Surface /\ s # NoSurface
                  /\ Placed(g, g.pane, s) /\ CursorAt(g, s)
                  /\ shown' = Guessed(attached, s.version)
         /\ overlay'.guess = overlay.guess => shown' = shown
         /\ sent' = Append(sent, [kind |-> "key", pane |-> attached, char |-> c])
         /\ UNCHANGED <<cache, tabs, opened, surface, changed, written, typed, pending, wire, at, text,
                        views, tree, attached, marks>>
<1>1. attached \in Panes /\ overlay \in Overlay /\ (overlay.guess # NoGuess => overlay.misses < MaxMisses)
  BY DEF TypeInv, TypeOK, PhaseInv
<1> DEFINE s == cache[attached]
<1>2. /\ sent' = Append(sent, [kind |-> "key", pane |-> attached, char |-> c])
      /\ UNCHANGED <<cache, tabs, opened, surface, changed, written, typed, pending, wire, at, text,
                        views, tree, attached, marks>>
  BY DEF Key, Send, daemon, session, content, phase, scrolling
<1>3. CASE s = NoSurface
  <2>1. overlay' = overlay /\ shown' = shown
    BY <1>3 DEF Key
  <2> QED BY <1>2, <2>1
<1>4. CASE s # NoSurface
  <2>1. s \in Surface
    BY <1>1, <1>4, TextTypes
  <2>2. /\ overlay' = Predicted(overlay, attached, s, c)
        /\ shown' = IF overlay'.guess = overlay.guess THEN shown ELSE Guessed(attached, s.version)
    BY <1>4 DEF Key
  <2> HIDE DEF s
  <2> DEFINE g == overlay'.guess
  <2>3. g # overlay.guess =>
          /\ Predictable(s) /\ g \in Guess /\ g.pane = attached
          /\ g.row = s.row /\ g.col = s.col /\ g.base = s.version
    BY <1>1, <2>1, <2>2, PredictedGuess
  <2>4. g # overlay.guess => Placed(g, g.pane, s) /\ CursorAt(g, s)
    BY <2>3, GuessFields DEF Predictable, Placed, CursorAt
  <2> QED BY <1>2, <1>4, <2>1, <2>2, <2>3, <2>4 DEF s
<1> QED BY <1>3, <1>4

\* A guess that outlives an update of its pane.
LEMMA Survives ==
  ASSUME TypeInv, PatchInv, PlaceInv, NEW u \in Update, Take(u), at # "ended", at' # "ended",
         overlay'.guess # NoGuess
  PROVE  LET g == overlay.guess
             h == overlay'.guess
         IN  /\ g # NoGuess /\ g \in Guess /\ h \in Guess /\ Fits(u)
             /\ h.pane = g.pane /\ h.row = g.row /\ h.col = g.col
             /\ g.pane # u.pane => h = g /\ overlay' = overlay
             /\ g.pane = u.pane =>
                  /\ ~u.full /\ ~CursorLeft(g, u) /\ Beside(g, u) /\ h.base = u.surface.version
                  /\ cache[u.pane] # NoSurface /\ cache[u.pane].version = u.base
                  /\ Placed(g, g.pane, cache[u.pane])
<1> DEFINE g == overlay.guess
           h == overlay'.guess
<1>1. overlay \in Overlay /\ (g # NoGuess => overlay.misses < MaxMisses) /\ g \in Guess \cup {NoGuess}
  BY DEF TypeInv, TypeOK, PhaseInv, Overlay
<1>2. overlay' = Reconciled(overlay, u) /\ Fits(u)
  BY Refused DEF Take, Apply
<1>3. /\ u.pane \in Panes /\ u.surface.version \in Nat /\ u.base \in Nat /\ u \in Coming(u.pane)
  BY UpdateFields, Fields DEF Take
<1>4. CASE Unrelated(g, u)
  <2>1. overlay' = overlay
    BY <1>1, <1>2, <1>4, ReconciledGuess
  <2> QED BY <1>1, <1>2, <1>4, <2>1 DEF Unrelated
<1>5. CASE ~Unrelated(g, u)
  <2>1. g \in Guess /\ g # NoGuess /\ g.pane = u.pane
    BY <1>1, <1>5 DEF Unrelated
  <2>2. cache[g.pane] # NoSurface /\ Placed(g, g.pane, cache[g.pane])
    BY <2>1 DEF PlaceInv
  <2>3. ~u.full => /\ cache[u.pane].version = u.base /\ u.surface.version = u.base + 1
    BY <1>2, <1>3 DEF Fits, PatchInv
  <2>4. u.full \/ ~Old(g, u)
    BY <1>3, <2>1, <2>2, <2>3 DEF Old, Placed
  <2>5. /\ ~u.full /\ ~CursorLeft(g, u) /\ Beside(g, u)
        /\ h \in Guess /\ h.pane = g.pane /\ h.row = g.row /\ h.col = g.col /\ h.base = u.surface.version
    BY <1>1, <1>2, <1>5, <2>4, ReconciledGuess
  <2> QED BY <1>2, <2>1, <2>2, <2>3, <2>5
<1> QED BY <1>4, <1>5

LEMMA PlaceStep ==
  ASSUME TypeInv, PatchInv, FlowInv, PlaceInv, Next
  PROVE  PlaceInv'
<1> SUFFICES ASSUME at' # "ended", overlay'.guess # NoGuess
             PROVE  LET h == overlay'.guess
                    IN  /\ cache'[h.pane] # NoSurface /\ Placed(h, h.pane, cache'[h.pane])
                        /\ "overtaken" \notin marks' => CursorAt(h, cache'[h.pane])
  BY DEF PlaceInv
<1>1. at # "ended" /\ marks \subseteq marks'
  BY MarksStay
<1>2. CASE UNCHANGED <<overlay, cache>>
  BY <1>1, <1>2 DEF PlaceInv
<1>3. ASSUME NEW c \in Chars, Key(c)
      PROVE  LET h == overlay'.guess
             IN  /\ cache'[h.pane] # NoSurface /\ Placed(h, h.pane, cache'[h.pane])
                 /\ "overtaken" \notin marks' => CursorAt(h, cache'[h.pane])
  <2>1. CASE overlay'.guess = overlay.guess
    BY <1>1, <1>3, <2>1, KeyGuess DEF PlaceInv
  <2>2. CASE overlay'.guess # overlay.guess
    BY <1>3, <2>2, KeyGuess
  <2> QED BY <2>1, <2>2
<1>4. ASSUME NEW u \in Update, Take(u)
      PROVE  LET h == overlay'.guess
             IN  /\ cache'[h.pane] # NoSurface /\ Placed(h, h.pane, cache'[h.pane])
                 /\ "overtaken" \notin marks' => CursorAt(h, cache'[h.pane])
  <2> DEFINE g == overlay.guess
             h == overlay'.guess
  <2>1. /\ g # NoGuess /\ g \in Guess /\ h \in Guess /\ Fits(u) /\ h # NoGuess
        /\ h.pane = g.pane /\ h.row = g.row /\ h.col = g.col
        /\ g.pane # u.pane => h = g
        /\ g.pane = u.pane =>
             /\ ~u.full /\ ~CursorLeft(g, u) /\ Beside(g, u) /\ h.base = u.surface.version
             /\ cache[u.pane] # NoSurface /\ cache[u.pane].version = u.base
             /\ Placed(g, g.pane, cache[u.pane])
    BY <1>1, <1>4, Survives
  <2>2. /\ cache' = [cache EXCEPT ![u.pane] = Patched(u)] /\ DOMAIN cache = Panes
        /\ u.pane \in Panes /\ g.pane \in Panes
    BY <1>4, <2>1, Applied, UpdateFields, GuessFields DEF Take, TypeInv, TypeOK
  <2> HIDE DEF g, h
  <2>3. CASE g.pane # u.pane
    <3>1. cache'[h.pane] = cache[g.pane] /\ h = g
      BY <2>1, <2>2, <2>3
    <3> QED BY <1>1, <2>1, <3>1 DEF PlaceInv, g, h
  <2>4. CASE g.pane = u.pane
    <3> DEFINE t == Patched(u)
               s == cache[u.pane]
    <3>1. /\ t \in Surface /\ t.version = u.surface.version /\ t.row = u.surface.row
          /\ t.col = u.surface.col
          /\ \A r \in Rows : t.rows[r] = IF u.full \/ r \in u.dirty THEN u.surface.rows[r] ELSE s.rows[r]
      BY <2>1, PatchedType
    <3>2. cache'[h.pane] = t /\ t # NoSurface
      BY <2>1, <2>2, <2>4, <3>1, ConstantsAssumption
    <3> HIDE DEF t, s
    <3>3. g.row \in Rows /\ t.rows[g.row] = s.rows[g.row] /\ g.col = Len(s.rows[g.row])
      BY <2>1, <2>4, <3>1, GuessFields DEF Beside, Placed, s
    <3>4. Placed(h, h.pane, t)
      BY <2>1, <2>4, <3>1, <3>3 DEF Placed
    <3>5. ASSUME "overtaken" \notin marks' PROVE CursorAt(h, t)
      <4>1. Flow /\ CursorAt(g, s)
        BY <1>1, <2>1, <2>4, <3>5 DEF FlowInv, Flowing, PlaceInv, g, s
      <4>2. s \in Copies(u.pane) /\ u \in Coming(u.pane) /\ s.version = u.base
        BY <1>4, <2>1, <2>2, <2>4, CopyTypes DEF s, Take
      <4>3. Follows(s, u.surface, u.dirty)
        BY <2>1, <2>2, <2>4, <4>1, <4>2 DEF Flow, ComingAt
      <4>4. u.surface.row = g.row /\ u.surface.col >= g.col /\ g.row \notin u.dirty
            /\ u.surface.col \in Nat /\ g.col \in Nat
        <5>1. u.surface.col \in 0..Cols /\ g.col \in 0..(Cols - 1)
          BY <2>1, UpdateFields, Fields, GuessFields
        <5> QED BY <2>1, <2>4, <5>1, Sizes DEF CursorLeft, Beside
      <4>5. u.surface.col <= g.col
        BY <4>1, <4>3, <4>4 DEF Follows, CursorAt
      <4> QED BY <2>1, <3>1, <3>3, <4>4, <4>5 DEF CursorAt
    <3> QED BY <3>2, <3>4, <3>5 DEF h
  <2> QED BY <2>3, <2>4
<1> QED BY <1>2, <1>3, <1>4, OverlaySteps

\* If no update that comes ends a guess, the cursor stays in its place in all of them.
LEMMA ChainAt ==
  ASSUME TypeInv, PatchInv, Flow, NEW g \in Guess,
         cache[g.pane] # NoSurface, CursorAt(g, cache[g.pane]),
         \A u \in Coming(g.pane) : ~Kills(g, u)
  PROVE  \A n \in Copies(g.pane) : CursorAt(g, n)
<1> DEFINE p == g.pane
           Bad == {u \in Coming(p) : ~CursorAt(g, u.surface)}
           Versions == {u.surface.version : u \in Bad}
<1>1. p \in Panes /\ g.row \in Rows /\ g.col \in 0..(Cols - 1)
  BY GuessFields
<1>2. SUFFICES ASSUME Bad # {} PROVE FALSE
  <2>1. \A u \in Coming(p) : CursorAt(g, u.surface)
    BY <1>2
  <2> QED BY <1>1, <2>1, CopyTypes
<1>3. Versions \subseteq Nat /\ Versions # {}
  BY <1>1, <1>2, CopyTypes
<1>4. \E x \in Versions : \A y \in Versions : ~(<<y, x>> \in OpToRel(<, Nat))
  <2> HIDE DEF Versions
  <2> QED BY <1>3, NatLessThanWellFounded, WFMin, Zenon
<1>5. \A x, y \in Nat : ~(<<y, x>> \in OpToRel(<, Nat)) => x <= y
  <2>1. \A x, y \in Nat : y < x => <<y, x>> \in OpToRel(<, Nat)
    BY Zenon DEF OpToRel
  <2>2. \A x, y \in Nat : y < x \/ x <= y
    OBVIOUS
  <2> QED BY <2>1, <2>2, Zenon
<1>6. PICK x \in Versions : \A y \in Versions : x <= y
  <2> HIDE DEF Versions
  <2> QED BY <1>3, <1>4, <1>5, Zenon
<1>7. PICK u \in Bad : u.surface.version = x
  OBVIOUS
<1>8. u \in Coming(p) /\ ~CursorAt(g, u.surface) /\ \A v \in Bad : u.surface.version <= v.surface.version
  BY <1>6, <1>7
<1>9. /\ ~u.full /\ u.surface.row = g.row /\ ~(u.surface.col < g.col) /\ g.row \notin u.dirty
  BY <1>8 DEF Kills, Ends
<1>10. PICK n \in Copies(p) : n.version = u.base /\ Follows(n, u.surface, u.dirty)
  BY <1>1, <1>8, <1>9 DEF Flow, ComingAt
<1>11. u.surface.version = u.base + 1 /\ u.base \in Nat /\ u.surface \in Surface
  BY <1>1, <1>8, <1>9, CopyTypes DEF PatchInv
<1>12. CursorAt(g, n)
  <2>1. CASE n = cache[p]
    BY <2>1
  <2>2. ASSUME NEW v \in Coming(p), n = v.surface PROVE CursorAt(g, n)
    BY <1>8, <1>10, <1>11, <2>2
  <2> QED BY <1>1, <2>1, <2>2, CopyTypes
<1>13. u.surface.rows[g.row] = n.rows[g.row]
  BY <1>1, <1>9, <1>10 DEF Follows
<1>14. u.surface.col <= g.col
  BY <1>9, <1>10, <1>12 DEF Follows, CursorAt
<1>15. u.surface.col = g.col
  <2>1. u.surface.col \in 0..Cols
    BY <1>11, Fields
  <2> QED BY <1>1, <1>9, <1>14, <2>1, Sizes
<1> QED BY <1>8, <1>9, <1>12, <1>13, <1>15 DEF CursorAt

\* An echo at the place of the guess changes its row.
LEMMA EchoChanges ==
  ASSUME NEW s \in Surface, NEW c \in Chars, NEW g \in Guess, CursorAt(g, s)
  PROVE  Echo(s, c).rows[g.row] # s.rows[g.row]
<1> USE Sizes
<1>1. /\ g.row = s.row /\ g.col = s.col /\ s.row \in Rows /\ s.col \in 0..(Cols - 1)
      /\ s.col = Len(s.rows[s.row]) /\ s.rows[s.row] \in Seq(Chars \cup {Space})
      /\ s.rows \in [Rows -> Seq(Chars \cup {Space})]
  BY GuessFields, Fields DEF CursorAt
<1>2. ~Wraps(s)
  BY <1>1 DEF Wraps
<1> DEFINE pad == Padded(s.rows[s.row], s.col)
           row == Append(pad, c)
           rows == [s.rows EXCEPT ![s.row] = row]
           a == [s EXCEPT !.rows = rows]
<1>3. pad \in Seq(Chars \cup {Space}) /\ Len(pad) = s.col
  <2>1. s.col \in Nat
    BY <1>1
  <2> QED BY <1>1, <2>1, PaddedType
<1>4. row \in Seq(Chars \cup {Space}) /\ Len(row) = s.col + 1
  BY <1>3, AppendProperties
<1> HIDE DEF row
<1>5. rows \in [Rows -> Seq(Chars \cup {Space})] /\ rows[s.row] = row
  BY <1>1, <1>4
<1> HIDE DEF rows
<1>6. a \in Surface /\ a.rows = rows
  BY <1>5 DEF Surface
<1> HIDE DEF a
<1>7. [a EXCEPT !.col = s.col + 1].rows = rows
  BY <1>6 DEF Surface
<1>8. Echo(s, c) = [a EXCEPT !.col = s.col + 1]
  BY <1>2 DEF Echo, Put, a, rows, row
<1> QED BY <1>1, <1>4, <1>5, <1>7, <1>8

\* A key that was sent waits to be answered until it is.
LEMMA KeysKept ==
  ASSUME TypeInv, Flow, Next, marks' = {}, NEW q \in Panes, q \in Up', cache[q] # NoSurface
  PROVE  /\ q \in Up
         /\ KeySent(q) \/ typed[q] # <<>> =>
              KeySent(q)' \/ typed'[q] # <<>> \/ (Answer(q) /\ Echoes(q))
<1> USE DEF client, daemon, session, content
<1> DEFINE Kept == KeySent(q) \/ typed[q] # <<>> =>
                     KeySent(q)' \/ typed'[q] # <<>> \/ (Answer(q) /\ Echoes(q))
<1>1. sent \in Seq(ClientFrame) /\ typed \in [Panes -> Seq(Chars)]
  BY DEF TypeInv, TypeOK
<1>2. ASSUME sent' = sent, typed' = typed PROVE Kept
  BY <1>2 DEF KeySent
<1>3. ASSUME NEW f \in ClientFrame, sent' = Append(sent, f), typed' = typed PROVE Kept
  <2>1. ToSet(sent') = ToSet(sent) \cup {f}
    BY <1>1, <1>3, AppendTo
  <2> QED BY <1>3, <2>1 DEF KeySent
<1>4. ASSUME NEW kind, Received(kind), kind # "key" \/ Head(sent).pane # q, typed' = typed PROVE Kept
  <2>1. /\ ToSet(sent) = ToSet(sent') \cup {Head(sent)}
        /\ Head(sent).kind # "key" \/ Head(sent).pane # q
    BY <1>1, <1>4, HeadTail DEF Received
  <2> QED BY <1>4, <2>1 DEF KeySent
<1>5. attached \in Panes
  BY DEF TypeInv, TypeOK
<1>6. ASSUME NEW p \in Panes, Output(p) \/ Erase(p) \/ WriteSurface(p) \/ OtherResize(p) \/ Focus(p)
                              \/ ScrollBack(p)
      PROVE  Kept /\ tabs' = tabs
  BY <1>2, <1>6 DEF Output, Erase, WriteSurface, OtherResize, Focus, ScrollBack
<1>7. ASSUME NEW p \in Panes, Answer(p) PROVE Kept /\ tabs' = tabs
  <2>1. sent' = sent /\ typed' = [typed EXCEPT ![p] = Tail(typed[p])] /\ tabs' = tabs
    BY <1>7 DEF Answer
  <2>2. Echoes(p)
    BY <1>7, AnswerGrows
  <2>3. CASE p = q
    BY <1>7, <2>1, <2>2, <2>3
  <2>4. CASE p # q
    BY <1>1, <2>1, <2>4 DEF KeySent
  <2> QED BY <2>1, <2>3, <2>4
<1>8. ASSUME NEW p \in Panes, ScrollUp(p) \/ ScrollDown(p) PROVE Kept /\ tabs' = tabs
  <2>1. PICK f : sent' = Append(sent, f) /\ f.kind = "fetch"
    BY <1>8 DEF ScrollUp, ScrollDown, AskTail, AskFrom, Send, FetchFrame
  <2>2. sent' \in Seq(ClientFrame)
    BY <1>8, TypeScroll DEF TypeInv, TypeOK
  <2>3. f \in ClientFrame
    <3>1. Len(sent) \in Nat
      BY <1>1, LenProperties
    <3>2. sent'[Len(sent) + 1] = f /\ Len(sent') = Len(sent) + 1
      BY <1>1, <2>1
    <3> QED BY <2>2, <3>1, <3>2, ElementOfSeq
  <2> QED BY <1>3, <1>8, <2>1, <2>3 DEF ScrollUp, ScrollDown
<1>9. ASSUME NEW t \in Tabs, OtherSwitch(t) \/ OtherClose(t) PROVE Kept /\ tabs' \subseteq tabs
  BY <1>2, <1>9 DEF OtherSwitch, OtherClose
<1>10. ASSUME NEW t \in Tabs, SwitchTab(t) PROVE Kept /\ (q \in UNION tabs' => q \in Up)
  <2>1. sent' = sent /\ typed' = typed /\ (tabs' = tabs \/ (t \notin opened \ tabs /\ tabs' = tabs \cup {t}))
    BY <1>10 DEF SwitchTab
  <2>2. q \in UNION opened
    BY CopyTypes DEF Flow, WrittenAt
  <2>3. q \in t => t \in opened
    <3>1. PICK s \in opened : q \in s
      BY <2>2
    <3>2. s \in Tabs
      BY DEF TypeInv, TypeOK
    <3>3. q \in t => s = t
      BY <3>1, <3>2, ConstantsAssumption
    <3> QED BY <3>1, <3>3
  <2> QED BY <1>2, <2>1, <2>3 DEF Up
<1>11. ASSUME NEW c \in Chars, Key(c) PROVE Kept /\ tabs' = tabs
  <2>1. [kind |-> "key", pane |-> attached, char |-> c] \in ClientFrame
    BY <1>5 DEF ClientFrame
  <2> QED BY <1>3, <1>11, <2>1 DEF Key, Send
<1>12. CASE SendPing
  <2>1. [kind |-> "ping"] \in ClientFrame
    BY DEF ClientFrame
  <2> QED BY <1>3, <1>12, <2>1 DEF SendPing, Send, Up
<1>13. [kind |-> "resize", pane |-> attached] \in ClientFrame
  BY <1>5 DEF ClientFrame
<1>14. CASE SendResize
  BY <1>3, <1>13, <1>14 DEF SendResize, Send, Up
<1>15. CASE EndAttach
  BY <1>2, <1>3, <1>13, <1>15 DEF EndAttach, Send, Up
<1>16. CASE RetryStale \/ TakeProbe
  <2>1. sent' = sent \/ \E f : sent' = Append(sent, f) /\ f.kind = "fetch"
    BY <1>16 DEF RetryStale, TakeProbe, Send, FetchFrame
  <2>2. sent' \in Seq(ClientFrame)
    BY <1>16, TypeAnswered DEF Answered, TypeInv, TypeOK
  <2>3. ASSUME NEW f, sent' = Append(sent, f), f.kind = "fetch" PROVE f \in ClientFrame
    <3>1. Len(sent) \in Nat
      BY <1>1, LenProperties
    <3>2. sent'[Len(sent) + 1] = f /\ Len(sent') = Len(sent) + 1
      BY <1>1, <2>3
    <3> QED BY <2>2, <3>1, <3>2, ElementOfSeq
  <2>4. typed' = typed /\ tabs' = tabs
    BY <1>16 DEF RetryStale, TakeProbe
  <2> QED BY <1>2, <1>3, <2>1, <2>3, <2>4 DEF Up
<1>17. CASE ServeKey
  <2>1. Head(sent).pane \in Panes /\ Head(sent).char \in Chars
    BY <1>17, ReceivedFrame, ClientKinds DEF ServeKey
  <2> DEFINE p == Head(sent).pane
  <2>2. typed' = [typed EXCEPT ![p] = Append(typed[p], Head(sent).char)] /\ tabs' = tabs
    BY <1>17 DEF ServeKey
  <2>3. CASE p = q
    <3>1. Append(typed[p], Head(sent).char) # <<>>
      <4>1. typed[p] \in Seq(Chars)
        BY <1>1, <2>1
      <4>2. Len(Append(typed[p], Head(sent).char)) = Len(typed[p]) + 1 /\ Len(typed[p]) \in Nat
        BY <2>1, <4>1, AppendTo, LenProperties
      <4> QED BY <4>2, EmptySeq
    <3> QED BY <1>1, <2>1, <2>2, <2>3, <3>1 DEF Up
  <2>4. CASE p # q
    <3>1. typed'[q] = typed[q]
      BY <1>1, <2>1, <2>2, <2>4
    <3>2. ToSet(sent) = ToSet(sent') \cup {Head(sent)}
      BY <1>1, <1>17, HeadTail DEF ServeKey, Received
    <3> QED BY <2>2, <2>4, <3>1, <3>2 DEF KeySent, Up
  <2> QED BY <2>3, <2>4
<1>18. CASE ServePing \/ ServeFetch \/ ServeResize
  <2>1. typed' = typed /\ tabs' = tabs
    BY <1>18 DEF ServePing, ServeFetch, ServeResize
  <2> QED BY <1>4, <1>18, <2>1 DEF ServePing, ServeFetch, ServeResize, Up
<1>19. CASE ServeClosedPane
  <2>1. typed' = typed /\ tabs' = tabs /\ Head(sent).pane \notin Up
    BY <1>19 DEF ServeClosedPane
  <2>2. q \in Up
    BY <2>1 DEF Up
  <2> QED BY <1>4, <1>19, <2>1, <2>2 DEF ServeClosedPane
<1>20. CASE WriteTree \/ ReadUpdate \/ ReadTree \/ ReadPong \/ ReadError \/ DeferUpdate \/ DropTree
            \/ RefusePong \/ TakeRange \/ Finish \/ EndResize
  <2>1. sent' = sent /\ typed' = typed /\ tabs' = tabs
    BY <1>20 DEF WriteTree, ReadUpdate, ReadTree, ReadPong, ReadError, DeferUpdate, DropTree,
       RefusePong, TakeRange, Finish, ApplyPending, Settle, ShowLines, EndResize
  <2> QED BY <1>2, <2>1 DEF Up
<1> QED BY <1>6, <1>7, <1>8, <1>9, <1>10, <1>11, <1>12, <1>14, <1>15, <1>16, <1>17, <1>18, <1>19,
        <1>20 DEF Next, Serve, Read, Answered, Up

\* What is written next ends the guess.
Overdue(g) ==
  LET s == surface[g.pane]
      c == changed[g.pane]
  IN  /\ written[g.pane] # s.version
      /\ written[g.pane] + 1 # s.version \/ c.full \/ Ends(g, s.row, s.col, c.dirty)

LEMMA DoomedIs ==
  ASSUME NEW g
  PROVE  Doomed(g) <=> (\E u \in Coming(g.pane) : Kills(g, u)) \/ Overdue(g)
BY DEF Doomed, Overdue

LEMMA GuessStep ==
  ASSUME TypeInv, PatchInv, FlowInv, PlaceInv, GuessInv, Next
  PROVE  GuessInv'
<1> SUFFICES ASSUME at' # "ended", marks' = {}, NEW h \in Guess, h = overlay'.guess, h.pane \in Up'
             PROVE  KeySent(h.pane)' \/ typed'[h.pane] # <<>> \/ Doomed(h)'
  <2>1. overlay' \in Overlay
    BY TypeStep DEF TypeInv, TypeOK
  <2>2. overlay'.guess # NoGuess => overlay'.guess \in Guess
    BY <2>1 DEF Overlay
  <2>3. ASSUME NEW h \in Guess, h = overlay'.guess,
               KeySent(h.pane)' \/ typed'[h.pane] # <<>> \/ Doomed(h)'
        PROVE  KeySent(overlay.guess.pane)' \/ typed'[overlay'.guess.pane] # <<>> \/ Doomed(overlay.guess)'
    BY <2>3 DEF KeySent, Doomed, Coming
  <2> QED BY <2>2, <2>3 DEF GuessInv
<1> DEFINE p == h.pane
           g == overlay.guess
           Goal == KeySent(p)' \/ typed'[p] # <<>> \/ Doomed(h)'
<1>1. at # "ended" /\ marks = {} /\ Flow /\ h # NoGuess /\ p \in Panes
  BY MarksStay, GuessFields DEF FlowInv, Flowing
<1>2. ASSUME NEW c \in Chars, Key(c), overlay'.guess # overlay.guess PROVE Goal
  <2>1. sent' = Append(sent, [kind |-> "key", pane |-> attached, char |-> c]) /\ p = attached
    BY <1>2, KeyGuess
  <2>2. sent \in Seq(ClientFrame) /\ attached \in Panes
    BY DEF TypeInv, TypeOK
  <2>3. [kind |-> "key", pane |-> attached, char |-> c] \in ClientFrame
    BY <2>2 DEF ClientFrame
  <2>4. [kind |-> "key", pane |-> attached, char |-> c] \in ToSet(sent')
    BY <2>1, <2>2, <2>3, AppendTo
  <2> QED BY <2>1, <2>4 DEF KeySent
<1>3. ASSUME g = h, UNCHANGED <<overlay, cache>> \/ overlay'.guess = overlay.guess
      PROVE  /\ cache[p] # NoSurface /\ Placed(h, p, cache[p]) /\ CursorAt(h, cache[p])
             /\ p \in Up => KeySent(p) \/ typed[p] # <<>> \/ Doomed(h)
  BY <1>1, <1>3 DEF PlaceInv, GuessInv
<1>4. ASSUME NEW u \in Update, Take(u) PROVE Goal
  <2>1. /\ g # NoGuess /\ g \in Guess /\ h.pane = g.pane /\ h.row = g.row /\ h.col = g.col
        /\ g.pane = u.pane => ~u.full /\ ~CursorLeft(g, u) /\ Beside(g, u)
    BY <1>1, <1>4, Survives
  <2>2. UNCHANGED <<surface, changed, written, tabs, typed, sent>>
    BY <1>4 DEF Take
  <2>3. g.pane \in Up
    BY <2>1, <2>2 DEF Up
  <2>4. KeySent(g.pane) \/ typed[g.pane] # <<>> \/ Doomed(g)
    BY <1>1, <2>1, <2>3 DEF GuessInv
  <2>5. CASE KeySent(g.pane) \/ typed[g.pane] # <<>>
    BY <2>1, <2>2, <2>5 DEF KeySent
  <2>6. CASE Overdue(g)
    <3>1. Overdue(h)'
      BY <2>1, <2>2, <2>6 DEF Overdue, Ends
    <3> QED BY <3>1 DEF Doomed, Overdue
  <2>7. ASSUME NEW v \in Coming(g.pane), Kills(g, v) PROVE Goal
    <3>1. v # u
      <4>1. CASE v = u
        <5>1. g.pane = u.pane
          BY <2>7, <4>1 DEF Coming
        <5> QED BY <2>1, <2>7, <4>1, <5>1 DEF Kills, Ends, CursorLeft, Beside
      <4> QED BY <4>1
    <3>2. v \in Coming(p)'
      BY <1>1, <1>4, <2>1, <2>7, <3>1 DEF Take
    <3>3. Kills(h, v)
      BY <2>1, <2>7 DEF Kills, Ends
    <3> QED BY <3>2, <3>3 DEF Doomed
  <2> QED BY <2>4, <2>5, <2>6, <2>7, DoomedIs
<1>5. ASSUME overlay'.guess = g, cache' = cache,
             Answer(p) /\ Echoes(p)
      PROVE  Goal
  <2>1. CursorAt(h, cache[p]) /\ cache[p] # NoSurface
    BY <1>3, <1>5
  <2>2. /\ Grow(p) /\ ~changed'[p].full
        /\ surface'[p].rows = Echo(surface[p], Head(typed[p])).rows
        /\ changed'[p].dirty = {r \in Rows : surface'[p].rows[r] # surface[p].rows[r]}
        /\ Head(typed[p]) \in Chars
    BY <1>1, <1>5, AnswerGrows
  <2>3. /\ written[p] <= surface[p].version /\ written[p] \in Nat /\ surface[p].version \in Nat
        /\ surface'[p].version = surface[p].version + 1 /\ written' = written
        /\ surface[p] \in Surface /\ Coming(p)' = Coming(p)
    <3>1. written[p] <= surface[p].version
      BY <1>1 DEF Flow, WrittenAt
    <3>2. surface[p] \in Surface /\ written[p] \in Nat
      BY <1>1 DEF TypeInv, TypeOK
    <3> QED BY <2>2, <3>1, <3>2, Fields DEF Grow, Coming
  <2>4. CASE written[p] # surface[p].version
    <3>1. Overdue(h)'
      BY <2>3, <2>4 DEF Overdue
    <3> QED BY <3>1 DEF Doomed, Overdue
  <2>5. ASSUME NEW u \in Coming(p), Kills(h, u) PROVE Goal
    BY <2>3, <2>5 DEF Doomed
  <2>6. CASE written[p] = surface[p].version /\ \A u \in Coming(p) : ~Kills(h, u)
    <3>1. \A n \in Copies(p) : CursorAt(h, n)
      BY <1>1, <2>1, <2>6, ChainAt
    <3>2. surface[p] \in Copies(p)
      <4>1. written[p] # 0
        BY <1>1, <2>6 DEF PatchInv
      <4>2. PICK n \in Copies(p) : n.version = written[p]
        BY <1>1, <4>1 DEF Flow, WrittenAt
      <4> QED BY <1>1, <2>6, <4>2 DEF Flow, WrittenAt
    <3>3. surface'[p].rows[h.row] # surface[p].rows[h.row]
      <4>1. Head(typed[p]) \in Chars /\ surface[p] \in Surface /\ CursorAt(h, surface[p])
        BY <2>2, <2>3, <3>1, <3>2
      <4>2. Echo(surface[p], Head(typed[p])).rows[h.row] # surface[p].rows[h.row]
        BY <4>1, EchoChanges
      <4> QED BY <2>2, <4>2
    <3>4. h.row \in changed'[p].dirty
      BY <2>2, <3>3, GuessFields
    <3>5. Overdue(h)'
      BY <2>3, <2>6, <3>4 DEF Overdue, Ends
    <3> QED BY <3>5 DEF Doomed, Overdue
  <2> QED BY <2>4, <2>5, <2>6
<1>6. ASSUME overlay'.guess = g, cache' = cache,
             (\E q \in Panes : Grow(q) \/ WriteSurface(q)) \/ Same
      PROVE  Goal
  <2>1. cache[p] # NoSurface /\ (p \in Up => KeySent(p) \/ typed[p] # <<>> \/ Doomed(h))
    BY <1>3, <1>6
  <2>2. p \in Up /\ (KeySent(p) \/ typed[p] # <<>> => Goal)
    BY <1>1, <1>5, <1>6, <2>1, KeysKept
  <2>3. CASE Same
    <3>1. Coming(p)' = Coming(p) /\ UNCHANGED <<surface, changed, written>>
      BY <1>1, <2>3 DEF Same
    <3> QED BY <2>1, <2>2, <3>1 DEF Doomed
  <2>4. ASSUME NEW q \in Panes, Grow(q) PROVE Goal
    <3>1. Coming(p)' = Coming(p) /\ written' = written
      BY <2>4 DEF Grow, Coming
    <3>2. CASE q # p
      <4>1. surface'[p] = surface[p] /\ changed'[p] = changed[p]
        BY <1>1, <2>4, <3>2 DEF Grow
      <4> QED BY <2>1, <2>2, <3>1, <4>1 DEF Doomed
    <3>3. CASE q = p
      <4>1. /\ surface'[p].version = surface[p].version + 1 /\ written[p] <= surface[p].version
            /\ written[p] \in Nat /\ surface[p].version \in Nat
        BY <1>1, <2>4, <3>3, CopyTypes DEF Grow, Flow, WrittenAt
      <4>2. ASSUME Overdue(h) PROVE Goal
        <5>1. Overdue(h)'
          BY <3>1, <4>1, <4>2 DEF Overdue
        <5> QED BY <5>1 DEF Doomed, Overdue
      <4>3. ASSUME NEW u \in Coming(p), Kills(h, u) PROVE Goal
        BY <3>1, <4>3 DEF Doomed
      <4> QED BY <2>1, <2>2, <4>2, <4>3, DoomedIs
    <3> QED BY <3>2, <3>3
  <2>5. ASSUME NEW q \in Panes, WriteSurface(q) PROVE Goal
    <3>1. Coming(p) \subseteq Coming(p)' /\ UNCHANGED <<surface, changed>>
      BY <1>1, <2>5, Shipped
    <3>2. ASSUME NEW u \in Coming(p), Kills(h, u) PROVE Goal
      BY <3>1, <3>2 DEF Doomed
    <3>3. ASSUME Overdue(h) PROVE Goal
      <4>1. CASE q # p
        <5>1. written'[p] = written[p]
          BY <1>1, <2>5, <4>1, Shipped
        <5>2. Overdue(h)'
          BY <3>1, <3>3, <5>1 DEF Overdue
        <5> QED BY <5>2 DEF Doomed, Overdue
      <4>2. CASE q = p
        <5>1. /\ Patch(p).surface = surface[p]
              /\ Patch(p).full <=> (written[p] + 1 # surface[p].version \/ changed[p].full)
              /\ ~Patch(p).full => Patch(p).dirty = changed[p].dirty
          BY <1>1, PatchType
        <5>2. Kills(h, Patch(p))
          BY <3>3, <5>1 DEF Overdue, Kills
        <5>3. Patch(p) \in Coming(p)'
          BY <2>5, <4>2, Shipped
        <5>4. \E u \in Coming(p)' : Kills(h, u)
          <6>1. PICK u : u = Patch(p)
            OBVIOUS
          <6> QED BY <5>2, <5>3, <6>1
        <5> QED BY <5>4 DEF Doomed
      <4> QED BY <4>1, <4>2
    <3> QED BY <2>1, <2>2, <3>2, <3>3, DoomedIs
  <2> QED BY <1>6, <2>3, <2>4, <2>5
<1>7. ASSUME NEW c \in Chars, Key(c) PROVE overlay'.guess # g \/ cache' = cache
  BY <1>7, KeyGuess
<1> QED BY <1>2, <1>4, <1>6, <1>7, OverlaySteps, FlowSteps
-----------------------------------------------------------------------------
(* The screen *)

Unstrayed ==
  /\ tree.pane = attached /\ text[attached] # NoText
  /\ shown = text[tree.pane] \/ ShowsGuess

\* A pane shows its surface again.
LEMMA SurfaceShown ==
  ASSUME TypeInv, \A q \in Panes : TextIsTrue(q), NEW p \in Panes,
         text' = [text EXCEPT ![p] = SurfaceText(p)], views' = [views EXCEPT ![p] = NoView],
         cache' = cache
  PROVE  (\A q \in Panes : TextIsTrue(q)') /\ text'[p] = SurfaceText(p) /\ text'[p] # NoText
<1>1. DOMAIN text = Panes /\ DOMAIN views = Panes
  BY DEF TypeInv, TypeOK
<1>2. \A q \in Panes : SurfaceText(q)' = SurfaceText(q)
  BY DEF SurfaceText
<1>3. ASSUME NEW q \in Panes PROVE TextIsTrue(q)'
  <2>1. CASE q = p
    BY <1>1, <1>2, <2>1 DEF TextIsTrue
  <2>2. CASE q # p
    BY <1>1, <1>2, <2>2 DEF TextIsTrue
  <2> QED BY <2>1, <2>2
<1>4. \A n \in {0} : SurfaceText(p) # NoText
  BY TextTypes
<1> QED BY <1>1, <1>3, <1>4

LEMMA ScreenInit == TypeInv /\ Init => ScreenInv
<1> SUFFICES ASSUME TypeInv, Init PROVE ScreenInv
  OBVIOUS
<1>1. /\ attached = FirstPane(active) /\ active \in Tabs /\ active \subseteq Up
      /\ tree.pane = attached
  BY DEF Init, TreeOf, Up, TypeInv, TypeOK
<1>2. attached \in active /\ attached \in Panes
  BY <1>1, PaneOf
<1>3. Live(attached, 1) # NoText
  BY <1>2, TextTypes
<1>4. text[attached] = Live(attached, 1) /\ shown = Live(attached, 1)
  BY <1>2 DEF Init
<1>5. ASSUME NEW p \in Panes PROVE TextIsTrue(p)
  <2>1. views[p] = NoView
    BY DEF Init
  <2>2. CASE p \in active
    <3>1. cache[p] = Blank /\ text[p] = Live(p, 1)
      BY <1>1, <2>2 DEF Init
    <3>2. Blank # NoSurface /\ Blank.version = 1
      BY BlankType, ConstantsAssumption DEF Blank
    <3> QED BY <2>1, <3>1, <3>2 DEF TextIsTrue, SurfaceText
  <2>3. CASE p \notin active
    BY <2>1, <2>3 DEF Init, TextIsTrue
  <2> QED BY <2>2, <2>3
<1> QED BY <1>1, <1>3, <1>4, <1>5 DEF ScreenInv

LEMMA ScreenTake ==
  ASSUME TypeInv, PatchInv, PlaceInv, ScreenInv, NEW u \in Update, Take(u), at # "ended",
         at' # "ended", marks \subseteq marks'
  PROVE  ScreenInv'
<1>1. /\ Fits(u) /\ u.pane \in Panes /\ tree.pane \in Panes /\ attached \in Panes
      /\ UNCHANGED <<tree, attached>> /\ Apply(u)
  BY Refused, UpdateFields DEF Take, TypeInv, TypeOK, Tree
<1>2. /\ cache' = [cache EXCEPT ![u.pane] = Patched(u)]
      /\ text' = [text EXCEPT ![u.pane] = Live(u.pane, u.surface.version)]
      /\ views' = [views EXCEPT ![u.pane] = NoView]
      /\ DOMAIN cache = Panes /\ DOMAIN text = Panes /\ DOMAIN views = Panes
  BY <1>1, Applied DEF TypeInv, TypeOK
<1>3. Patched(u).version = u.surface.version /\ Patched(u) # NoSurface /\ u.surface.version \in Nat
  BY <1>1, PatchedType, UpdateFields, Fields, ConstantsAssumption
<1>4. ASSUME NEW q \in Panes PROVE TextIsTrue(q)'
  <2>1. CASE q = u.pane
    BY <1>2, <1>3, <2>1 DEF TextIsTrue, SurfaceText
  <2>2. CASE q # u.pane
    <3>1. TextIsTrue(q) /\ UNCHANGED <<cache[q], text[q], views[q]>>
      BY <1>2, <2>2 DEF ScreenInv
    <3> QED BY <3>1 DEF TextIsTrue, SurfaceText
  <2> QED BY <2>1, <2>2
<1>5. ASSUME "strayed" \notin marks' PROVE Unstrayed'
  <2>1. tree.pane = attached /\ text[attached] # NoText /\ (shown = text[tree.pane] \/ ShowsGuess)
    BY <1>5 DEF ScreenInv
  <2>2. Live(u.pane, u.surface.version) # NoText
    BY <1>1, <1>3, TextTypes
  <2>3. text'[attached] # NoText
    BY <1>1, <1>2, <2>1, <2>2
  <2>4. CASE shown' = text'[tree.pane]
    BY <1>1, <2>1, <2>3, <2>4 DEF Unstrayed
  <2>5. CASE shown' # text'[tree.pane]
    <3>1. shown' = shown /\ u.pane # tree.pane
      BY <1>1, <2>1, <2>3, <2>5 DEF Apply
    <3>2. text'[tree.pane] = text[tree.pane]
      BY <1>1, <1>2, <3>1
    <3>3. ShowsGuess
      BY <2>1, <2>5, <3>1, <3>2
    <3>4. Unrelated(overlay.guess, u)
      BY <3>1, <3>3 DEF ShowsGuess, Unrelated
    <3>5. overlay' = overlay
      BY <1>1, <3>4, ReconciledGuess DEF Apply, TypeInv, TypeOK, PhaseInv
    <3>6. ShowsGuess'
      BY <1>1, <3>1, <3>3, <3>5 DEF ShowsGuess
    <3> QED BY <1>1, <2>1, <2>3, <3>6 DEF Unstrayed
  <2> QED BY <2>4, <2>5
<1> QED BY <1>4, <1>5 DEF ScreenInv, Unstrayed

\* The steps that change what is shown.
LEMMA ScreenSteps ==
  ASSUME TypeInv, Next
  PROVE  \/ UNCHANGED <<cache, text, views, shown, overlay, tree, attached, marks>>
         \/ UNCHANGED <<cache, text, views, shown, overlay, tree, attached>> /\ marks \subseteq marks'
         \/ at' = "ended"
         \/ \E u \in Update : Take(u)
         \/ \E c \in Chars : Key(c)
         \/ \E p \in Panes : Focus(p) \/ ScrollBack(p)
         \/ \E t \in Tabs : SwitchTab(t)
         \/ ReadTree
         \/ ShowLines
<1> USE DEF client, daemon, screen
<1>1. ASSUME NEW p \in Panes, Output(p) \/ Erase(p) \/ Answer(p) \/ WriteSurface(p) \/ OtherResize(p)
                              \/ ScrollUp(p) \/ ScrollDown(p)
      PROVE  UNCHANGED <<cache, text, views, shown, overlay, tree, attached>>
  BY <1>1 DEF Output, Erase, Answer, WriteSurface, OtherResize, ScrollUp, ScrollDown
<1>2. ASSUME NEW t \in Tabs, OtherSwitch(t) \/ OtherClose(t)
      PROVE  UNCHANGED <<cache, text, views, shown, overlay, tree, attached>>
  BY <1>2 DEF OtherSwitch, OtherClose
<1>3. Serve \/ WriteTree => UNCHANGED <<cache, text, views, shown, overlay, tree, attached>>
  BY DEF Serve, WriteTree, ServePing, ServeClosedPane, ServeKey, ServeFetch, ServeResize
<1>4. Answered \/ ReadPong \/ ReadError => UNCHANGED <<cache, text, views, shown, overlay, tree, attached>>
  BY DEF ReadPong, ReadError, Answered, DeferUpdate, DropTree,
     RefusePong, RetryStale, TakeProbe, TakeRange, EndAttach
<1>5. Settle \/ EndResize \/ SendPing \/ SendResize
        => UNCHANGED <<cache, text, views, shown, overlay, tree, attached>>
  BY DEF Settle, EndResize, SendPing, SendResize
<1>6. marks \subseteq marks'
  BY MarksStay
<1> HIDE DEF client, daemon, screen
<1> QED BY <1>1, <1>2, <1>3, <1>4, <1>5, <1>6, Taken DEF Next, Read, Finish

LEMMA ScreenStep ==
  ASSUME TypeInv, PatchInv, PlaceInv, ScreenInv, Next
  PROVE  ScreenInv'
<1> SUFFICES ASSUME at' # "ended" PROVE ScreenInv'
  BY DEF ScreenInv
<1>1. /\ at # "ended" /\ marks \subseteq marks' /\ \A q \in Panes : TextIsTrue(q)
      /\ "strayed" \notin marks' => Unstrayed
  BY MarksStay DEF ScreenInv, Unstrayed
<1>2. /\ attached \in Panes /\ tree.pane \in Panes /\ DOMAIN text = Panes
      /\ DOMAIN views = Panes
  BY DEF TypeInv, TypeOK, Tree
<1>3. SUFFICES (\A q \in Panes : TextIsTrue(q)') /\ ("strayed" \notin marks' => Unstrayed')
  BY DEF ScreenInv, Unstrayed
<1>4. CASE UNCHANGED <<cache, text, views, shown, overlay, tree, attached>>
  BY <1>1, <1>4 DEF TextIsTrue, SurfaceText, Unstrayed, ShowsGuess
<1>5. ASSUME NEW u \in Update, Take(u) PROVE ScreenInv'
  BY <1>1, <1>5, ScreenTake
<1>6. ASSUME NEW c \in Chars, Key(c)
      PROVE  (\A q \in Panes : TextIsTrue(q)') /\ ("strayed" \notin marks' => Unstrayed')
  <2>1. UNCHANGED <<cache, text, views, tree, attached, marks>>
    BY <1>6, KeyGuess
  <2>2. \A q \in Panes : TextIsTrue(q)'
    BY <1>1, <2>1 DEF TextIsTrue, SurfaceText
  <2>3. CASE overlay'.guess = overlay.guess
    <3>1. shown' = shown
      BY <1>6, <2>3, KeyGuess
    <3> QED BY <1>1, <2>1, <2>2, <2>3, <3>1 DEF Unstrayed, ShowsGuess
  <2>4. CASE overlay'.guess # overlay.guess
    <3> DEFINE g == overlay'.guess
               s == cache[attached]
    <3>1. /\ g \in Guess /\ g.pane = attached /\ Placed(g, g.pane, s)
          /\ shown' = Guessed(attached, s.version)
      BY <1>6, <2>4, KeyGuess
    <3>2. shown' = Guessed(g.pane, g.base) /\ g # NoGuess
      BY <3>1, GuessFields DEF Placed
    <3> QED BY <1>1, <2>1, <2>2, <3>1, <3>2 DEF Unstrayed, ShowsGuess
  <2> QED BY <2>3, <2>4
<1>7. ASSUME NEW p \in Panes, Focus(p)
      PROVE  (\A q \in Panes : TextIsTrue(q)') /\ ("strayed" \notin marks' => Unstrayed')
  <2>1. /\ text' = [text EXCEPT ![p] = SurfaceText(p)] /\ views' = [views EXCEPT ![p] = NoView]
        /\ shown' = SurfaceText(p) /\ cache' = cache
        /\ attached' = p /\ tree' = [tree EXCEPT !.pane = p]
    BY <1>7 DEF Focus, ShowPane
  <2>2. tree'.pane = p
    BY <2>1 DEF TypeInv, TypeOK, Tree
  <2>3. (\A q \in Panes : TextIsTrue(q)') /\ text'[p] = SurfaceText(p) /\ text'[p] # NoText
    BY <1>1, <2>1, SurfaceShown
  <2> QED BY <2>1, <2>2, <2>3 DEF Unstrayed
<1>8. ASSUME NEW t \in Tabs, SwitchTab(t)
      PROVE  (\A q \in Panes : TextIsTrue(q)') /\ ("strayed" \notin marks' => Unstrayed')
  <2>1. /\ tree' = TreeOf(t, tabs') /\ attached' = FirstPane(t) /\ ShowPane(FirstPane(t))
        /\ cache' = cache
    BY <1>8 DEF SwitchTab, End
  <2>2. FirstPane(t) \in Panes /\ tree'.pane = FirstPane(t)
    BY <2>1, PaneOf DEF TreeOf
  <2> DEFINE p == FirstPane(t)
  <2>3. (\A q \in Panes : TextIsTrue(q)') /\ text'[p] = SurfaceText(p) /\ text'[p] # NoText
    BY <1>1, <2>1, <2>2, SurfaceShown DEF ShowPane
  <2> QED BY <2>1, <2>2, <2>3 DEF Unstrayed, ShowPane
<1>9. ASSUME NEW p \in Panes, ScrollBack(p)
      PROVE  (\A q \in Panes : TextIsTrue(q)') /\ ("strayed" \notin marks' => Unstrayed')
  <2>1. /\ text' = [text EXCEPT ![p] = SurfaceText(p)] /\ views' = [views EXCEPT ![p] = NoView]
        /\ shown' = IF p = tree.pane THEN SurfaceText(p) ELSE shown
        /\ UNCHANGED <<cache, tree, attached, overlay>>
    BY <1>9 DEF ScrollBack
  <2>2. (\A q \in Panes : TextIsTrue(q)') /\ text'[p] = SurfaceText(p) /\ text'[p] # NoText
    BY <1>1, <2>1, SurfaceShown
  <2>3. \A q \in Panes : q # p => text'[q] = text[q]
    BY <1>2, <2>1
  <2> QED BY <1>1, <1>2, <2>1, <2>2, <2>3 DEF Unstrayed, ShowsGuess
<1>10. CASE ReadTree
  <2>1. /\ UNCHANGED <<cache, text, views, shown, overlay, attached>>
        /\ tree' = [Head(wire).tree EXCEPT !.pane = IF attached \in Head(wire).tree.panes THEN attached
                                                    ELSE Head(wire).tree.pane]
        /\ attached \notin Head(wire).tree.panes => "strayed" \in marks'
    BY <1>10 DEF ReadTree, screen
  <2>2. Head(wire).tree \in Tree
    BY <1>10, GotFrame, FrameKinds DEF ReadTree
  <2>3. "strayed" \notin marks' => tree'.pane = attached
    BY <2>1, <2>2 DEF Tree
  <2> QED BY <1>1, <2>1, <2>3 DEF TextIsTrue, SurfaceText, Unstrayed, ShowsGuess
<1>11. CASE ShowLines
  <2>1. fetch \in Fetch /\ UNCHANGED <<cache, tree, attached, overlay, marks>>
    BY <1>11 DEF ShowLines, TypeInv, TypeOK
  <2>2. CASE fetch.lines = 0
    BY <1>1, <1>11, <2>1, <2>2 DEF ShowLines, TextIsTrue, SurfaceText, Unstrayed, ShowsGuess
  <2>3. CASE fetch.lines # 0
    <3> DEFINE p == fetch.pane
               v == [start |-> fetch.start, lines |-> fetch.lines, total |-> fetch.total]
    <3>1. p \in Panes /\ v # NoView /\ v.start = fetch.start /\ fetch.start \in Nat
      <4>1. v \in View
        BY <2>1, FetchFields DEF View
      <4> QED BY <2>1, <4>1, FetchFields, ConstantsAssumption
    <3>2. History(p, fetch.start) # NoText
      BY <3>1, TextTypes
    <3>3. /\ views' = [views EXCEPT ![p] = v] /\ text' = [text EXCEPT ![p] = History(p, fetch.start)]
          /\ shown' = IF p = tree.pane THEN History(p, fetch.start) ELSE shown
      BY <1>11, <2>3 DEF ShowLines
    <3> HIDE DEF p, v
    <3>4. ASSUME NEW q \in Panes PROVE TextIsTrue(q)'
      <4>1. CASE q = p
        BY <1>2, <3>1, <3>3, <4>1 DEF TextIsTrue
      <4>2. CASE q # p
        <5>1. TextIsTrue(q) /\ UNCHANGED <<cache[q], text[q], views[q]>>
          BY <1>1, <1>2, <2>1, <3>1, <3>3, <4>2
        <5> QED BY <5>1 DEF TextIsTrue, SurfaceText
      <4> QED BY <4>1, <4>2
    <3>5. /\ \A q \in Panes : q # p => text'[q] = text[q]
          /\ text'[p] = History(p, fetch.start)
      BY <1>2, <3>1, <3>3
    <3> QED BY <1>1, <1>2, <2>1, <3>2, <3>3, <3>4, <3>5 DEF Unstrayed, ShowsGuess
  <2> QED BY <2>2, <2>3
<1>12. ScreenInv' => (\A q \in Panes : TextIsTrue(q)') /\ ("strayed" \notin marks' => Unstrayed')
  BY DEF ScreenInv, Unstrayed
<1> QED BY <1>4, <1>5, <1>6, <1>7, <1>8, <1>9, <1>10, <1>11, <1>12, ScreenSteps

LEMMA PlaceInit == Init => PlaceInv /\ GuessInv
BY DEF Init, PlaceInv, GuessInv, NoOverlay

Safe == FlowSafe /\ PlaceInv /\ GuessInv /\ ScreenInv

LEMMA SafeCorrect == Spec => []Safe
<1>1. Init => Safe
  BY TypeInit, FlowInit, PlaceInit, ScreenInit DEF Safe, FlowSafe
<1>2. Safe /\ FlowSafe' /\ [Next]_vars => Safe'
  <2> SUFFICES ASSUME Safe, FlowSafe', [Next]_vars PROVE Safe'
    OBVIOUS
  <2>1. TypeInv /\ PatchInv /\ FlowInv /\ PlaceInv /\ GuessInv /\ ScreenInv
    BY DEF Safe, FlowSafe
  <2>2. CASE Next
    BY <2>1, <2>2, PlaceStep, GuessStep, ScreenStep DEF Safe
  <2>3. CASE UNCHANGED vars
    <3>1. UNCHANGED <<surface, changed, written, cache, pending, wire, sent, typed, tabs, at, marks,
                      overlay, tree, attached, text, views, shown>>
      BY <2>3 DEF vars, daemon, session, content, client, phase, screen, scrolling
    <3>2. PlaceInv'
      BY <2>1, <3>1 DEF PlaceInv
    <3>3. GuessInv'
      BY <2>1, <3>1 DEF GuessInv, KeySent, Doomed, Coming, Up
    <3>4. ScreenInv'
      BY <2>1, <3>1 DEF ScreenInv, TextIsTrue, SurfaceText, ShowsGuess
    <3> QED BY <3>2, <3>3, <3>4 DEF Safe
  <2> QED BY <2>2, <2>3
<1> QED BY <1>1, <1>2, FlowCorrect, PTL DEF Spec

\* What speculative_echo.rs draws a guess on is the surface and the place it was made for.
THEOREM GuessAlwaysFits == Spec => []GuessFits
<1>1. PlaceInv => GuessFits
  BY DEF PlaceInv, GuessFits
<1> QED BY <1>1, SafeCorrect, PTL DEF Safe

\* The copies that process_surface_update, scroll_live_pane_view and
\* switch_live_surface_to_workspace_pane keep of a screen agree.
THEOREM ScreenAlwaysTrue == Spec => []ScreenIsTrue
<1>1. ScreenInv => ScreenIsTrue
  BY DEF ScreenInv, ScreenIsTrue
<1> QED BY <1>1, SafeCorrect, PTL DEF Safe

LEMMA QuietCopies ==
  ASSUME Safe, Quiet, NEW p \in Up
  PROVE  Coming(p) = {} /\ cache[p] = surface[p]
<1>1. TypeInv /\ PatchInv /\ Flow
  BY DEF Safe, FlowSafe, FlowInv, Flowing, Quiet, Idle
<1>2. p \in Panes
  BY <1>1, UpInPanes
<1>3. pending = <<>> /\ wire = <<>>
  BY <1>1 DEF TypeInv, PhaseInv, Quiet, Idle
<1>4. Coming(p) = {}
  BY <1>3 DEF Coming, ToSet
<1>5. written[p] = surface[p].version /\ written[p] # 0
  BY <1>1, <1>2 DEF Quiet, PatchInv
<1>6. PICK n \in Copies(p) : n.version = written[p]
  BY <1>1, <1>2, <1>5 DEF Flow, WrittenAt
<1>7. n = surface[p]
  BY <1>1, <1>2, <1>5, <1>6 DEF Flow, WrittenAt
<1>8. n = cache[p]
  BY <1>4, <1>6 DEF Copies
<1> QED BY <1>4, <1>7, <1>8

\* When nothing is under way, a client that has not strayed shows what the daemon has.
THEOREM QuietAlwaysTrue == Spec => []QuietScreen
<1>1. Safe => QuietScreen
  <2> SUFFICES ASSUME Safe, Quiet, tree.pane \in Up
               PROVE  LET p == tree.pane
                      IN  /\ overlay.guess = NoGuess \/ overlay.guess.pane \notin Up
                          /\ cache[p] = surface[p]
                          /\ shown = IF views[p] = NoView THEN SurfaceText(p)
                                                          ELSE History(p, views[p].start)
    BY DEF QuietScreen
  <2> DEFINE p == tree.pane
             g == overlay.guess
  <2>1. cache[p] = surface[p]
    BY QuietCopies
  <2>2. g = NoGuess \/ g.pane \notin Up
    <3> SUFFICES ASSUME g # NoGuess, g.pane \in Up PROVE FALSE
      OBVIOUS
    <3>1. KeySent(g.pane) \/ typed[g.pane] # <<>> \/ Doomed(g)
      BY DEF Safe, GuessInv, Quiet, Idle
    <3>2. ~KeySent(g.pane)
      BY DEF Quiet, KeySent, ToSet
    <3>3. typed[g.pane] = <<>> /\ written[g.pane] = surface[g.pane].version
      BY DEF Quiet
    <3>4. ~Doomed(g)
      BY <3>3, QuietCopies DEF Doomed
    <3> QED BY <3>1, <3>2, <3>3, <3>4
  <2>3. /\ at # "ended" /\ marks = {} /\ TypeInv /\ ScreenInv
    BY DEF Safe, FlowSafe, Quiet, Idle
  <2>4. /\ TextIsTrue(p) /\ p = attached /\ text[p] # NoText /\ (shown = text[p] \/ ShowsGuess)
    BY <2>3, UpInPanes DEF ScreenInv
  <2>5. shown = text[p]
    BY <2>2, <2>4 DEF ShowsGuess
  <2> QED BY <2>1, <2>2, <2>4, <2>5 DEF TextIsTrue
<1> QED BY <1>1, SafeCorrect, PTL
-----------------------------------------------------------------------------
(* Scrollback: one request or one answer is under way *)

LEMMA FetchAppend ==
  ASSUME NEW T, NEW s \in Seq(T), NEW e \in T
  PROVE  LET t == Append(s, e)
         IN  /\ ~Of(e) /\ None(s) => None(t)
             /\ ~Of(e) /\ Once(s) => Once(t)
             /\ Of(e) /\ None(s) => Once(t)
             /\ \A p : About(s, p) /\ (Of(e) /\ e.kind # "stale" => e.pane = p) => About(t, p)
<1> DEFINE t == Append(s, e)
           n == Len(s) + 1
<1>1. /\ DOMAIN t = DOMAIN s \cup {n} /\ t[n] = e /\ n \notin DOMAIN s
      /\ \A i \in DOMAIN s : t[i] = s[i]
  <2>1. DOMAIN s = 1..Len(s) /\ Len(s) \in Nat
    BY LenProperties
  <2> QED BY <2>1, AppendTo
<1> HIDE DEF t, n
<1>2. ASSUME ~Of(e), None(s) PROVE None(t)
  BY <1>1, <1>2 DEF None
<1>3. ASSUME ~Of(e), Once(s) PROVE Once(t)
  <2>1. PICK i \in DOMAIN s : Of(s[i]) /\ \A j \in DOMAIN s \ {i} : ~Of(s[j])
    BY <1>3 DEF Once
  <2>2. i \in DOMAIN t /\ Of(t[i])
    BY <1>1, <2>1
  <2>3. \A j \in DOMAIN t \ {i} : ~Of(t[j])
    BY <1>1, <1>3, <2>1
  <2> QED BY <2>2, <2>3 DEF Once
<1>4. ASSUME Of(e), None(s) PROVE Once(t)
  <2>1. n \in DOMAIN t /\ Of(t[n])
    BY <1>1, <1>4
  <2>2. \A j \in DOMAIN t \ {n} : ~Of(t[j])
    BY <1>1, <1>4 DEF None
  <2> QED BY <2>1, <2>2 DEF Once
<1>5. ASSUME NEW p, About(s, p), Of(e) /\ e.kind # "stale" => e.pane = p PROVE About(t, p)
  BY <1>1, <1>5 DEF About
<1> QED BY <1>2, <1>3, <1>4, <1>5 DEF t

LEMMA FetchTail ==
  ASSUME NEW T, NEW s \in Seq(T), s # <<>>
  PROVE  /\ None(s) => None(Tail(s)) /\ ~Of(Head(s))
         /\ ~Of(Head(s)) /\ Once(s) => Once(Tail(s))
         /\ Of(Head(s)) /\ Once(s) => None(Tail(s))
         /\ \A p : About(s, p) => /\ About(Tail(s), p)
                                  /\ Of(Head(s)) /\ Head(s).kind # "stale" => Head(s).pane = p
<1> DEFINE t == Tail(s)
<1>1. /\ Head(s) = s[1] /\ 1 \in DOMAIN s
      /\ \A i \in DOMAIN t : i + 1 \in DOMAIN s /\ i + 1 > 1 /\ t[i] = s[i + 1]
      /\ \A i \in DOMAIN s : i = 1 \/ (i - 1 \in DOMAIN t /\ t[i - 1] = s[i])
  BY HeadTail
<1>2. DOMAIN s \subseteq Int /\ DOMAIN t \subseteq Int
  BY HeadTail, LenProperties
<1> HIDE DEF t
<1>3. ASSUME None(s) PROVE None(t) /\ ~Of(Head(s))
  BY <1>1, <1>3 DEF None
<1>4. ASSUME ~Of(Head(s)), Once(s) PROVE Once(t)
  <2>1. PICK i \in DOMAIN s : Of(s[i]) /\ \A j \in DOMAIN s \ {i} : ~Of(s[j])
    BY <1>4 DEF Once
  <2>2. i # 1 /\ i - 1 \in DOMAIN t /\ Of(t[i - 1])
    BY <1>1, <1>4, <2>1
  <2>3. ASSUME NEW j \in DOMAIN t \ {i - 1} PROVE ~Of(t[j])
    <3>1. j + 1 \in DOMAIN s \ {i} /\ t[j] = s[j + 1]
      BY <1>1, <1>2, <2>3
    <3> QED BY <2>1, <3>1
  <2> QED BY <2>2, <2>3 DEF Once
<1>5. ASSUME Of(Head(s)), Once(s) PROVE None(t)
  <2>1. PICK i \in DOMAIN s : Of(s[i]) /\ \A j \in DOMAIN s \ {i} : ~Of(s[j])
    BY <1>5 DEF Once
  <2>2. i = 1
    BY <1>1, <1>5, <2>1
  <2>3. ASSUME NEW j \in DOMAIN t PROVE ~Of(t[j])
    <3>1. j + 1 \in DOMAIN s \ {1} /\ t[j] = s[j + 1]
      BY <1>1, <1>2
    <3> QED BY <2>1, <2>2, <3>1
  <2> QED BY <2>3 DEF None
<1>6. ASSUME NEW p, About(s, p)
      PROVE  About(t, p) /\ (Of(Head(s)) /\ Head(s).kind # "stale" => Head(s).pane = p)
  BY <1>1, <1>6 DEF About
<1> QED BY <1>3, <1>4, <1>5, <1>6 DEF t

\* A sequence changes in nothing that is about scrollback.
Passes(s, t) ==
  /\ None(s) => None(t)
  /\ Once(s) => Once(t)
  /\ \A p \in Panes : About(s, p) => About(t, p)

LEMMA PassSame == ASSUME NEW s PROVE Passes(s, s)
BY DEF Passes

LEMMA PassAppend ==
  ASSUME NEW T, NEW s \in Seq(T), NEW e \in T, ~Of(e)
  PROVE  Passes(s, Append(s, e))
BY FetchAppend DEF Passes

LEMMA PassTail ==
  ASSUME NEW T, NEW s \in Seq(T), s # <<>>, ~Of(Head(s))
  PROVE  Passes(s, Tail(s))
BY FetchTail DEF Passes

LEMMA NoneAbout == ASSUME NEW s, None(s), NEW p PROVE About(s, p)
BY DEF None, About

\* A line that has been hung up stays so for as long as the client goes on.
LEMMA HungUpStays ==
  ASSUME TypeInv, Next, at' # "ended"
  PROVE  HungUp => HungUp'
<1> USE DEF daemon, client, phase
<1>1. wire \in Seq(DaemonFrame)
  BY DEF TypeInv, TypeOK
<1>2. ASSUME wire' = wire PROVE HungUp => HungUp'
  BY <1>2 DEF HungUp
<1>3. ASSUME NEW kind, kind # "error", Got(kind) PROVE HungUp => HungUp'
  <2>1. wire # <<>> /\ Head(wire).kind # "error" /\ wire' = Tail(wire)
    BY <1>3 DEF Got
  <2>2. ToSet(wire) = ToSet(wire') \cup {Head(wire)}
    BY <1>1, <2>1, HeadTail
  <2> QED BY <2>1, <2>2 DEF HungUp
<1>4. ASSUME NEW p \in Panes, WriteSurface(p) PROVE ~HungUp
  BY <1>4 DEF WriteSurface, Write
<1>5. ASSUME NEW p \in Panes, Output(p) \/ Erase(p) \/ Answer(p) \/ OtherResize(p) \/ Focus(p)
                              \/ ScrollUp(p) \/ ScrollDown(p) \/ ScrollBack(p)
      PROVE  wire' = wire
  BY <1>5 DEF Output, Erase, Answer, OtherResize, Focus, ScrollUp, ScrollDown, ScrollBack
<1>6. ASSUME NEW t \in Tabs, OtherSwitch(t) \/ OtherClose(t) \/ SwitchTab(t) PROVE wire' = wire
  BY <1>6 DEF OtherSwitch, OtherClose, SwitchTab
<1>7. ASSUME NEW c \in Chars, Key(c) PROVE wire' = wire
  BY <1>7 DEF Key
<1>8. Serve \/ WriteTree => ~HungUp
  BY DEF Serve, WriteTree, Write, ServePing, ServeClosedPane, ServeKey, ServeFetch, ServeResize,
         Received
<1>9. ASSUME Read PROVE Got("update") \/ Got("tree") \/ Got("pong") \/ Got("chunk") \/ Got("stale")
  BY <1>9 DEF Read, ReadUpdate, ReadTree, ReadPong, ReadError, Answered, DeferUpdate, DropTree,
              RefusePong, RetryStale, TakeProbe, TakeRange, EndAttach, End
<1>10. Finish \/ EndResize \/ SendPing \/ SendResize => wire' = wire
  BY DEF Finish, ApplyPending, Settle, ShowLines, EndResize, SendPing, SendResize
<1>11. Read => (HungUp => HungUp')
  BY <1>3, <1>9
<1> QED BY <1>2, <1>4, <1>5, <1>6, <1>7, <1>8, <1>10, <1>11 DEF Next

\* The frames that are asked for, sent and answered by each step.
LEMMA FetchSteps ==
  ASSUME TypeInv, Next, at' # "ended", ~HungUp'
  PROVE  \/ fetch' = fetch /\ Passes(sent, sent') /\ Passes(wire, wire')
         \/ ServeFetch
         \/ RetryStale \/ TakeProbe \/ TakeRange \/ EndAttach \/ ShowLines
         \/ \E p \in Panes : ScrollUp(p) \/ ScrollDown(p)
<1> USE DEF daemon, client, scrolling
<1> DEFINE Goal == fetch' = fetch /\ Passes(sent, sent') /\ Passes(wire, wire')
<1>1. /\ sent \in Seq(ClientFrame) /\ wire \in Seq(DaemonFrame) /\ attached \in Panes
      /\ Passes(sent, sent) /\ Passes(wire, wire)
  BY PassSame DEF TypeInv, TypeOK
<1>2. ASSUME fetch' = fetch, sent' = sent, wire' = wire PROVE Goal
  BY <1>1, <1>2
<1>3. ASSUME NEW f \in ClientFrame, f.kind # "fetch", sent' = Append(sent, f), wire' = wire, fetch' = fetch
      PROVE  Goal
  <2>1. ~Of(f)
    BY <1>3, ClientKinds DEF Of
  <2> QED BY <1>1, <1>3, <2>1, PassAppend
<1>4. ASSUME NEW kind \in {"ping", "key", "resize"}, Received(kind) PROVE Passes(sent, sent')
  <2>1. sent # <<>> /\ sent' = Tail(sent) /\ ~Of(Head(sent))
    BY <1>4 DEF Received, Of
  <2> QED BY <1>1, <2>1, PassTail
<1>5. ASSUME NEW f \in DaemonFrame, ~Of(f), Write(f) PROVE Passes(wire, wire')
  BY <1>1, <1>5, PassAppend DEF Write
<1>6. ASSUME NEW kind \in {"update", "tree", "pong"}, Got(kind) PROVE Passes(wire, wire')
  <2>1. wire # <<>> /\ wire' = Tail(wire) /\ ~Of(Head(wire))
    BY <1>6 DEF Got, Of
  <2> QED BY <1>1, <2>1, PassTail
<1>7. ASSUME NEW p \in Panes, Output(p) \/ Erase(p) \/ Answer(p) \/ OtherResize(p) \/ Focus(p)
                              \/ ScrollBack(p)
      PROVE  Goal
  BY <1>1, <1>7 DEF Output, Erase, Answer, OtherResize, Focus, ScrollBack
<1>8. ASSUME NEW p \in Panes, WriteSurface(p) PROVE Goal
  <2>1. PICK f \in DaemonFrame : f.kind = "update" /\ Write(f)
    <3>1. Patch(p) \in Update /\ Write(Patch(p))
      BY <1>8, PatchType DEF WriteSurface, Patch
    <3>2. Patch(p) \in DaemonFrame /\ Patch(p).kind = "update"
      BY <3>1, UpdateFields
    <3> QED BY <3>1, <3>2
  <2>2. ~Of(f)
    BY <2>1 DEF Of
  <2>3. Passes(wire, wire')
    BY <1>5, <2>1, <2>2
  <2> QED BY <1>1, <1>8, <2>3 DEF WriteSurface
<1>9. ASSUME NEW t \in Tabs, OtherSwitch(t) \/ OtherClose(t) \/ SwitchTab(t) PROVE Goal
  BY <1>1, <1>9 DEF OtherSwitch, OtherClose, SwitchTab
<1>10. ASSUME NEW c \in Chars, Key(c) PROVE Goal
  <2>1. [kind |-> "key", pane |-> attached, char |-> c] \in ClientFrame
    BY <1>1 DEF ClientFrame
  <2> QED BY <1>3, <1>10, <2>1 DEF Key, Send
<1>11. ASSUME SendPing \/ SendResize PROVE Goal
  <2>1. [kind |-> "ping"] \in ClientFrame /\ [kind |-> "resize", pane |-> attached] \in ClientFrame
    BY <1>1 DEF ClientFrame
  <2> QED BY <1>3, <1>11, <2>1 DEF SendPing, SendResize, Send
<1>12. ASSUME WriteTree PROVE Goal
  <2>1. PICK f \in DaemonFrame : f.kind = "tree" /\ Write(f)
    <3>1. [kind |-> "tree", tree |-> TreeOf(active, tabs)] \in DaemonFrame
      <4>1. active \in tabs /\ active \in Tabs /\ tabs \subseteq Tabs
        BY DEF TypeInv, TypeOK
      <4>2. FirstPane(active) \in active /\ active \subseteq Panes
        BY <4>1, PaneOf
      <4>3. TreeOf(active, tabs) \in Tree
        BY <4>1, <4>2 DEF TreeOf, Tree
      <4> QED BY <4>3 DEF DaemonFrame
    <3> QED BY <1>12, <3>1 DEF WriteTree
  <2>2. ~Of(f)
    BY <2>1 DEF Of
  <2> QED BY <1>1, <1>5, <1>12, <2>1, <2>2 DEF WriteTree
<1>13. ASSUME ServePing PROVE Goal
  <2>1. [kind |-> "pong"] \in DaemonFrame /\ ~Of([kind |-> "pong"])
    BY DEF DaemonFrame, Of
  <2> QED BY <1>4, <1>5, <1>13, <2>1 DEF ServePing
<1>14. ~ServeClosedPane
  <2> SUFFICES ASSUME ServeClosedPane PROVE FALSE
    OBVIOUS
  <2>1. wire' = Append(wire, [kind |-> "error"]) /\ [kind |-> "error"] \in DaemonFrame
    BY DEF ServeClosedPane, Write, DaemonFrame
  <2>2. PICK e \in DaemonFrame : e.kind = "error" /\ wire' = Append(wire, e)
    BY <2>1
  <2>3. HungUp'
    BY <1>1, <2>2, AppendTo DEF HungUp
  <2> QED BY <2>3
<1>15. ASSUME ServeKey \/ ServeResize PROVE Goal
  BY <1>1, <1>4, <1>15 DEF ServeKey, ServeResize
<1>16. ASSUME ReadUpdate \/ ReadTree \/ ReadPong \/ DeferUpdate \/ DropTree PROVE Goal
  <2>1. Got("update") \/ Got("tree") \/ Got("pong")
    BY <1>16 DEF ReadUpdate, ReadTree, ReadPong, DeferUpdate, DropTree
  <2>2. UNCHANGED <<sent, fetch>>
    BY <1>16 DEF ReadUpdate, ReadTree, ReadPong, DeferUpdate, DropTree
  <2> QED BY <1>1, <1>6, <2>1, <2>2
<1>17. ~ReadError /\ ~RefusePong
  BY DEF ReadError, RefusePong, End
<1>18. ASSUME ApplyPending \/ Settle \/ EndResize PROVE Goal
  BY <1>1, <1>18 DEF ApplyPending, Settle, EndResize
<1> HIDE DEF daemon, client, scrolling, Goal
<1>19. Serve => Goal \/ ServeFetch
  BY <1>13, <1>14, <1>15 DEF Serve
<1>20. Read => Goal \/ RetryStale \/ TakeProbe \/ TakeRange \/ EndAttach
  BY <1>16, <1>17 DEF Read, Answered
<1>21. Finish \/ EndResize => Goal \/ ShowLines
  BY <1>18 DEF Finish
<1>22. Goal \/ ServeFetch \/ RetryStale \/ TakeProbe \/ TakeRange \/ EndAttach \/ ShowLines
       \/ \E p \in Panes : ScrollUp(p) \/ ScrollDown(p)
  BY <1>7, <1>8, <1>9, <1>10, <1>11, <1>12, <1>19, <1>20, <1>21 DEF Next
<1> QED BY <1>22 DEF Goal

\* What is under way about scrollback.
Balance ==
  IF Waiting
  THEN /\ (Once(sent) /\ None(wire)) \/ (None(sent) /\ Once(wire))
       /\ About(sent, fetch.pane) /\ About(wire, fetch.pane)
  ELSE None(sent) /\ None(wire)

LEMMA FetchInit == TypeInv /\ Init => FetchInv
<1> SUFFICES ASSUME TypeInv, Init PROVE FetchInv
  OBVIOUS
<1> DEFINE f == FetchFrame(attached, 1, ViewRows, 0)
<1>1. sent = <<f>> /\ wire = <<>> /\ fetch = Request(attached, "range", 1)
  BY DEF Init
<1>2. Of(f) /\ f.pane = attached /\ fetch.pane = attached
  BY <1>1 DEF FetchFrame, Of, Request
<1> HIDE DEF f
<1>3. DOMAIN sent = {1} /\ sent[1] = f
  BY <1>1
<1>4. Once(sent) /\ About(sent, fetch.pane)
  BY <1>2, <1>3 DEF Once, About
<1>5. None(wire) /\ About(wire, fetch.pane)
  BY <1>1 DEF None, About
<1>6. Waiting
  <2>1. fetch \in Fetch
    BY <1>1, ConstantsAssumption DEF Init, TypeInv, TypeOK, PhaseInv
  <2> QED BY <1>1, <2>1, ConstantsAssumption DEF Waiting, Request
<1> QED BY <1>4, <1>5, <1>6 DEF FetchInv

\* The answer that is waited for has come.
LEMMA AnswerTaken ==
  ASSUME TypeInv, Balance, NEW kind \in {"chunk", "stale"}, Waiting, Got(kind)
  PROVE  /\ None(sent) /\ None(wire') /\ About(wire', fetch.pane)
         /\ sent \in Seq(ClientFrame) /\ fetch \in Fetch
<1>1. /\ wire \in Seq(DaemonFrame) /\ wire # <<>> /\ wire' = Tail(wire) /\ Of(Head(wire))
      /\ sent \in Seq(ClientFrame) /\ fetch \in Fetch
  BY DEF Got, Of, Waiting, TypeInv, TypeOK
<1>2. ~None(wire)
  BY <1>1, FetchTail
<1>3. None(sent) /\ Once(wire) /\ About(wire, fetch.pane)
  BY <1>2 DEF Balance
<1> QED BY <1>1, <1>3, FetchTail

\* A request goes out.
LEMMA Asked ==
  ASSUME TypeInv, None(sent), None(wire'), fetch' \in Fetch, fetch'.phase \in {"probe", "range"},
         NEW f \in ClientFrame, f.kind = "fetch", f.pane = fetch'.pane, sent' = Append(sent, f)
  PROVE  Balance'
<1>1. sent \in Seq(ClientFrame) /\ Of(f) /\ Waiting'
  BY ConstantsAssumption DEF Of, Waiting, TypeInv, TypeOK
<1>2. Once(sent')
  BY <1>1, FetchAppend
<1>3. About(sent', fetch'.pane)
  <2>1. About(sent, fetch'.pane)
    BY NoneAbout
  <2> QED BY <1>1, <2>1, FetchAppend
<1>4. About(wire', fetch'.pane)
  BY NoneAbout
<1> QED BY <1>1, <1>2, <1>3, <1>4 DEF Balance

LEMMA FetchServed ==
  ASSUME TypeInv, Balance, ServeFetch
  PROVE  Balance'
<1> DEFINE f == Head(sent)
<1>1. /\ sent \in Seq(ClientFrame) /\ sent # <<>> /\ f \in ClientFrame /\ f.kind = "fetch"
      /\ sent' = Tail(sent) /\ wire \in Seq(DaemonFrame) /\ Of(f)
  BY ReceivedFrame DEF ServeFetch, Of, TypeInv, TypeOK
<1>2. fetch' = fetch /\ (Waiting' <=> Waiting)
  BY DEF ServeFetch, client, scrolling, Waiting
<1>3. ~None(sent)
  BY <1>1, FetchTail
<1>4. Waiting /\ Once(sent) /\ None(wire) /\ About(sent, fetch.pane)
  BY <1>3 DEF Balance
<1>5. f.pane = fetch.pane /\ None(sent') /\ About(sent', fetch.pane)
  BY <1>1, <1>4, FetchTail
<1>6. PICK a \in DaemonFrame : /\ Of(a) /\ (a.kind # "stale" => a.pane = f.pane)
                               /\ wire' = Append(wire, a)
  <2> DEFINE h == history[f.pane]
             n == Cardinality({k \in f.start..h.lines : k < f.start + f.count})
             chunk == [kind |-> "chunk", pane |-> f.pane, start |-> f.start, lines |-> n,
                       total |-> h.lines, version |-> h.version]
             stale == [kind |-> "stale"]
  <2>1. wire' = Append(wire, stale) \/ wire' = Append(wire, chunk)
    BY DEF ServeFetch, Write
  <2>2. /\ f.pane \in Panes /\ f.start \in Nat /\ f.count \in Nat
        /\ h \in [version : Nat, lines : Nat] /\ h.lines \in Nat /\ h.version \in Nat
    BY <1>1, ClientKinds DEF TypeInv, TypeOK
  <2>3. n \in Nat
    <3>1. IsFiniteSet(f.start..h.lines)
      <4>1. f.start \in Int /\ h.lines \in Int
        BY <2>2
      <4> QED BY <4>1, FS_Interval
    <3>2. IsFiniteSet({k \in f.start..h.lines : k < f.start + f.count})
      BY <3>1, FS_Subset
    <3> QED BY <3>2, FS_CardinalityType
  <2> HIDE DEF n, h
  <2>4. chunk \in DaemonFrame
    BY <2>2, <2>3 DEF DaemonFrame
  <2>5. stale \in DaemonFrame
    BY DEF DaemonFrame
  <2> QED BY <2>1, <2>4, <2>5 DEF Of
<1>7. Once(wire')
  BY <1>1, <1>4, <1>6, FetchAppend
<1>8. About(wire', fetch.pane)
  <2>1. About(wire, fetch.pane)
    BY <1>4, NoneAbout
  <2> QED BY <1>1, <1>5, <1>6, <2>1, FetchAppend
<1> QED BY <1>2, <1>4, <1>5, <1>7, <1>8 DEF Balance

LEMMA FetchStep ==
  ASSUME TypeInv, TypeInv', FetchInv, Next
  PROVE  FetchInv'
<1> SUFFICES ASSUME at' # "ended", ~HungUp' PROVE Balance'
  BY DEF FetchInv, Balance
<1>1. Balance
  BY HungUpStays, MarksStay DEF FetchInv, Balance
<1>2. CASE fetch' = fetch /\ Passes(sent, sent') /\ Passes(wire, wire')
  <2>1. Waiting' <=> Waiting
    BY <1>2 DEF Waiting
  <2>2. Waiting => fetch.pane \in Panes
    BY FetchFields DEF Waiting, TypeInv, TypeOK
  <2> QED BY <1>1, <1>2, <2>1, <2>2 DEF Balance, Passes
<1>3. CASE ServeFetch
  BY <1>1, <1>3, FetchServed
<1>4. CASE RetryStale
  <2>1. /\ None(sent) /\ None(wire') /\ fetch \in Fetch
    BY <1>1, <1>4, AnswerTaken DEF RetryStale
  <2>2. /\ fetch' = [fetch EXCEPT !.retried = TRUE]
        /\ sent' = Append(sent, FetchFrame(fetch.pane, fetch.start, fetch.count, 0))
        /\ fetch.phase \in {"probe", "range"}
    BY <1>4 DEF RetryStale, End, Send, Waiting
  <2>3. fetch' \in Fetch /\ fetch'.pane = fetch.pane /\ fetch'.phase = fetch.phase
    BY <2>1, <2>2 DEF Fetch
  <2>4. FetchFrame(fetch.pane, fetch.start, fetch.count, 0) \in ClientFrame
    BY <2>1, FetchFields DEF FetchFrame, ClientFrame
  <2> DEFINE f == FetchFrame(fetch.pane, fetch.start, fetch.count, 0)
  <2>5. f.kind = "fetch" /\ f.pane = fetch'.pane
    BY <2>3 DEF FetchFrame
  <2> HIDE DEF f
  <2> QED BY <2>1, <2>2, <2>3, <2>4, <2>5, Asked DEF f
<1>5. CASE TakeProbe
  <2>1. None(sent) /\ None(wire') /\ fetch \in Fetch
    BY <1>1, <1>5, AnswerTaken DEF TakeProbe
  <2>2. PICK n \in Nat :
          /\ fetch' = [fetch EXCEPT !.phase = "range", !.start = n, !.retried = FALSE]
          /\ sent' = Append(sent, FetchFrame(fetch.pane, n, fetch.count,
                                             KnownVersion(fetch.pane, n, fetch.count)))
    <3>1. Head(wire).total \in Nat /\ fetch.count \in Nat
      BY <1>5, <2>1, GotFrame, FrameKinds, FetchFields DEF TakeProbe
    <3>2. FirstOfTail(Head(wire).total, fetch.count) \in Nat
      BY <3>1 DEF FirstOfTail
    <3> QED BY <1>5, <3>2 DEF TakeProbe, Send
  <2> DEFINE f == FetchFrame(fetch.pane, n, fetch.count, KnownVersion(fetch.pane, n, fetch.count))
  <2>3. fetch'.pane = fetch.pane /\ fetch'.phase = "range" /\ fetch'.start = n
    BY <2>1, <2>2 DEF Fetch
  <2>4. fetch' \in Fetch
    BY <2>1, <2>2 DEF Fetch
  <2>5. f.kind = "fetch" /\ f.pane = fetch'.pane
    BY <2>3 DEF FetchFrame
  <2>6. f \in ClientFrame
    <3>1. n \in Nat /\ fetch.pane \in Panes /\ fetch.count \in Nat
      BY <2>1, <2>3, <2>4, FetchFields
    <3> QED BY <3>1, KnownTypes DEF FetchFrame, ClientFrame
  <2> HIDE DEF f
  <2> QED BY <2>1, <2>2, <2>3, <2>4, <2>5, <2>6, Asked DEF f
<1>6. CASE TakeRange
  <2>1. None(sent) /\ None(wire') /\ fetch \in Fetch /\ sent' = sent
    BY <1>1, <1>6, AnswerTaken DEF TakeRange
  <2>2. fetch'.phase = "apply"
    BY <1>6, <2>1 DEF TakeRange, Fetch
  <2>3. ~Waiting'
    BY <2>2 DEF Waiting
  <2> QED BY <2>1, <2>3 DEF Balance
<1>7. CASE EndAttach
  <2>1. Waiting
    BY <1>7 DEF EndAttach, TypeInv, PhaseInv, Waiting
  <2>2. None(sent) /\ None(wire') /\ sent \in Seq(ClientFrame)
    BY <1>1, <1>7, <2>1, AnswerTaken DEF EndAttach
  <2>3. ~Waiting'
    BY <1>7 DEF EndAttach, Waiting
  <2>4. None(sent')
    <3>1. [kind |-> "resize", pane |-> attached] \in ClientFrame
      BY DEF ClientFrame, TypeInv, TypeOK
    <3>2. ~Of([kind |-> "resize", pane |-> attached])
      BY DEF Of
    <3>3. sent' = sent \/ sent' = Append(sent, [kind |-> "resize", pane |-> attached])
      BY <1>7 DEF EndAttach, Send
    <3> QED BY <2>2, <3>1, <3>2, <3>3, FetchAppend
  <2> QED BY <2>2, <2>3, <2>4 DEF Balance
<1>8. CASE ShowLines
  <2>1. ~Waiting /\ ~Waiting' /\ sent' = sent /\ wire' = wire
    BY <1>8 DEF ShowLines, Waiting
  <2> QED BY <1>1, <2>1 DEF Balance
<1>9. ASSUME NEW p \in Panes, ScrollUp(p) \/ ScrollDown(p) PROVE Balance'
  <2>1. None(sent) /\ None(wire') /\ views[p] \in View \cup {NoView}
    <3>1. ~Waiting /\ wire' = wire
      BY <1>9 DEF ScrollUp, ScrollDown, Idle, Waiting
    <3> QED BY <1>1, <3>1 DEF Balance, TypeInv, TypeOK
  <2>2. PICK f : /\ sent' = Append(sent, f) /\ f.kind = "fetch" /\ f.pane = p
                 /\ f \in ClientFrame
                 /\ \E how \in {"probe", "range"}, n \in Nat : fetch' = Request(p, how, n)
    <3>1. CASE AskTail(p)
      <4>1. FetchFrame(p, 1, 1, 0) \in ClientFrame
        BY DEF FetchFrame, ClientFrame
      <4> QED BY <3>1, <4>1 DEF AskTail, Send, FetchFrame
    <3>2. CASE \E n \in Nat : AskFrom(p, n)
      <4>1. PICK n \in Nat : AskFrom(p, n)
        BY <3>2
      <4>2. FetchFrame(p, n, ViewRows, KnownVersion(p, n, ViewRows)) \in ClientFrame
        BY ConstantsAssumption, KnownTypes DEF FetchFrame, ClientFrame
      <4> QED BY <4>1, <4>2 DEF AskFrom, Send, FetchFrame
    <3>3. AskTail(p) \/ \E n \in Nat : AskFrom(p, n)
      <4>1. views[p] # NoView => views[p].start \in Nat
        BY <2>1 DEF View
      <4> QED BY <1>9, <4>1 DEF ScrollUp, ScrollDown
    <3> QED BY <3>1, <3>2, <3>3
  <2>3. fetch'.pane = p /\ fetch'.phase \in {"probe", "range"} /\ fetch' \in Fetch
    <3>1. PICK how \in {"probe", "range"}, n \in Nat : fetch' = Request(p, how, n)
      BY <2>2
    <3> QED BY <3>1, ConstantsAssumption DEF Request, Fetch
  <2> QED BY <2>1, <2>2, <2>3, Asked
<1> QED BY <1>2, <1>3, <1>4, <1>5, <1>6, <1>7, <1>8, <1>9, FetchSteps

\* The frames about scrollback in two sequences together.
LEMMA OneOfBoth ==
  ASSUME NEW T, NEW s \in Seq(T), NEW w \in Seq(T)
  PROVE  LET both == s \o w
             about == {i \in DOMAIN both : Of(both[i])}
         IN  /\ None(s) /\ None(w) => Cardinality(about) = 0
             /\ (Once(s) /\ None(w)) \/ (None(s) /\ Once(w)) => Cardinality(about) = 1
             /\ \A p : About(s, p) /\ About(w, p) =>
                         \A i \in about : both[i].kind # "stale" => both[i].pane = p
<1> DEFINE both == s \o w
           about == {i \in DOMAIN both : Of(both[i])}
           n == Len(s)
<1>1. /\ DOMAIN both = 1..(n + Len(w)) /\ DOMAIN s = 1..n /\ DOMAIN w = 1..Len(w)
      /\ n \in Nat /\ Len(w) \in Nat
      /\ \A i \in DOMAIN both : both[i] = IF i <= n THEN s[i] ELSE w[i - n]
  BY ConcatProperties, LenProperties
<1>2. ASSUME NEW i \in DOMAIN both
      PROVE  \/ i \in DOMAIN s /\ both[i] = s[i]
             \/ i - n \in DOMAIN w /\ both[i] = w[i - n]
  BY <1>1
<1>3. /\ \A i \in DOMAIN s : i \in DOMAIN both /\ both[i] = s[i]
      /\ \A i \in DOMAIN w : i + n \in DOMAIN both /\ both[i + n] = w[i]
  BY <1>1
<1>4. ASSUME None(s), None(w) PROVE Cardinality(about) = 0
  <2>1. about = {}
    BY <1>2, <1>4 DEF None
  <2> QED BY <2>1, FS_EmptySet
<1>5. ASSUME Once(s), None(w) PROVE Cardinality(about) = 1
  <2>1. PICK k \in DOMAIN s : Of(s[k]) /\ \A j \in DOMAIN s \ {k} : ~Of(s[j])
    BY <1>5 DEF Once
  <2>2. about = {k}
    BY <1>2, <1>3, <1>5, <2>1 DEF None
  <2> QED BY <2>2, FS_Singleton
<1>6. ASSUME None(s), Once(w) PROVE Cardinality(about) = 1
  <2>1. PICK k \in DOMAIN w : Of(w[k]) /\ \A j \in DOMAIN w \ {k} : ~Of(w[j])
    BY <1>6 DEF Once
  <2>2. k + n \in about
    BY <1>3, <2>1
  <2>3. ASSUME NEW i \in about PROVE i = k + n
    <3>1. i - n \in DOMAIN w /\ Of(w[i - n])
      BY <1>2, <1>6 DEF None
    <3>2. i - n = k
      BY <2>1, <3>1
    <3> QED BY <1>1, <3>2
  <2>4. about = {k + n}
    BY <2>2, <2>3
  <2> QED BY <2>4, FS_Singleton
<1>7. ASSUME NEW p, About(s, p), About(w, p), NEW i \in about, both[i].kind # "stale"
      PROVE  both[i].pane = p
  BY <1>2, <1>7 DEF About
<1> QED BY <1>4, <1>5, <1>6, <1>7

\* read_scrollback_response_from_stream waits for one answer at a time: a stale answer and
\* its retry, and a probe and the request after it, leave no second one under way.
THEOREM OneFetchAlways == Spec => []OneFetch
<1>1. TypeInv /\ Init => FetchInv
  BY FetchInit
<1>2. TypeInv /\ TypeInv' /\ FetchInv /\ [Next]_vars => FetchInv'
  <2> SUFFICES ASSUME TypeInv, TypeInv', FetchInv, [Next]_vars PROVE FetchInv'
    OBVIOUS
  <2>1. CASE UNCHANGED vars
    BY <2>1 DEF FetchInv, HungUp, Waiting, vars, client, phase, scrolling
  <2>2. CASE Next
    BY <2>2, FetchStep
  <2> QED BY <2>1, <2>2
<1>3. TypeInv /\ FetchInv => OneFetch
  <2> SUFFICES ASSUME TypeInv, FetchInv, at # "ended", ~HungUp
               PROVE  LET both == sent \o wire
                          about == {i \in DOMAIN both : Of(both[i])}
                      IN  /\ Cardinality(about) = IF Waiting THEN 1 ELSE 0
                          /\ \A i \in about : both[i].kind # "stale" => both[i].pane = fetch.pane
    BY DEF OneFetch
  <2> DEFINE both == sent \o wire
             about == {i \in DOMAIN both : Of(both[i])}
  <2>1. sent \in Seq(ClientFrame \cup DaemonFrame) /\ wire \in Seq(ClientFrame \cup DaemonFrame)
    BY SeqMonotonic DEF TypeInv, TypeOK
  <2>2. /\ None(sent) /\ None(wire) => Cardinality(about) = 0
        /\ (Once(sent) /\ None(wire)) \/ (None(sent) /\ Once(wire)) => Cardinality(about) = 1
        /\ About(sent, fetch.pane) /\ About(wire, fetch.pane) =>
             \A i \in about : both[i].kind # "stale" => both[i].pane = fetch.pane
    BY <2>1, OneOfBoth
  <2> HIDE DEF both, about
  <2>3. About(sent, fetch.pane) /\ About(wire, fetch.pane)
    BY NoneAbout DEF FetchInv
  <2>4. Cardinality(about) = IF Waiting THEN 1 ELSE 0
    <3>1. Waiting => (Once(sent) /\ None(wire)) \/ (None(sent) /\ Once(wire))
      BY DEF FetchInv
    <3>2. ~Waiting => None(sent) /\ None(wire)
      BY DEF FetchInv
    <3>3. Waiting => Cardinality(about) = 1
      BY <2>2, <3>1
    <3>4. ~Waiting => Cardinality(about) = 0
      BY <2>2, <3>2
    <3> QED BY <3>3, <3>4
  <2>5. \A i \in about : both[i].kind # "stale" => both[i].pane = fetch.pane
    BY <2>2, <2>3
  <2> QED BY <2>4, <2>5 DEF both, about
<1>4. Spec => []TypeInv
  BY TypeInit, TypeStep, PTL DEF Spec
<1> QED BY <1>1, <1>2, <1>3, <1>4, PTL DEF Spec
=============================================================================
