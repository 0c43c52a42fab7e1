-------------------------- MODULE TerminalExtraction --------------------------
(***************************************************************************)
(* From a terminal to a pane: LibghosttyVtTerminalEngine (terminal.rs) is  *)
(* fed a chunk of output, and extract_update reads from the terminal what  *)
(* the pane is to show.  Reading the whole history would be slow, so it is *)
(* put together from what the pane already has: a chunk that cannot have   *)
(* changed a row keeps the rows, and lines that left the screen are taken  *)
(* from the pane's own copy of it.                                         *)
(*                                                                         *)
(* One pane id is followed, whose pane may be closed and made again; the   *)
(* engine of the id outlives it.  A chunk is spelled out by actions of the *)
(* terminal, which is libghostty's, and ends with Extract.  A line is one  *)
(* run of one style; the size of pane and terminal does not change.        *)
(***************************************************************************)
EXTENDS Integers, Sequences, SequencesExt

CONSTANTS
  Height,      \* rows of the pane
  MaxHistory,  \* max_scrollback, in lines
  Palette,     \* entries of the palette, a set of numbers
  Colors,      \* what an entry can be set to
  Controls,    \* which controls besides text and line feeds a process uses
  MaxOutput,   \* bound: pieces of output
  MaxPanes     \* bound: how often the pane is made

ASSUME ConstantsAssumption ==
  /\ Height \in Nat \ {0} /\ MaxHistory \in Nat \ {0}
  /\ MaxOutput \in Nat /\ MaxPanes \in Nat \ {0}
  /\ Palette \subseteq Nat \ {0} /\ Palette \subseteq Colors /\ 0 \notin Colors
  /\ Controls \subseteq {"vertical_tab", "home", "erase", "enter", "leave", "recolor"}

VARIABLES
  term,       \* the terminal of the engine
  noticed,    \* vt_output_may_change_rows of the chunk so far
  chunk,      \* a chunk is being processed
  pane,       \* what the session has of the pane
  made,       \* how often the pane was made
  \* histories
  lag,        \* what the main screen did since its rows were last stored
  unnoticed,  \* the screen changed since, and no chunk said so
  marks,      \* what keeps the scrollback from being right
  output      \* pieces of output so far, which name lines too

vars == <<term, noticed, chunk, pane, made, lag, unnoticed, marks, output>>
-----------------------------------------------------------------------------
\* A line of the terminal has an entry of the palette, 0 for none; a line of a pane has
\* the place of its style in the pane's table, the default in front.
Line(text, entry) == [text |-> text, entry |-> entry]
Run(text, id) == [text |-> text, style |-> id]
Default == 0
Empty == Line(0, Default)
BlankScreen == [r \in 1..Height |-> Empty]

NewTerminal ==
  [alt |-> FALSE, history |-> <<>>, main |-> BlankScreen, other |-> BlankScreen, row |-> 1,
   palette |-> [e \in Palette |-> e]]

\* new_pane_from_template: lines that no terminal has.
Placeholder(n) == [i \in 1..n |-> Run(-i, 1)]
NewPane ==
  [open |-> TRUE, surface |-> "main", rows |-> Placeholder(2), back |-> Placeholder(3),
   styles |-> <<Default>>, version |-> 1]

InStep == [out |-> 0, touched |-> {}, erased |-> FALSE]

Init ==
  /\ term = NewTerminal /\ noticed = FALSE /\ chunk = FALSE
  /\ pane = NewPane /\ made = 1
  /\ lag = InStep /\ unnoticed = TRUE /\ marks = {"unfounded"} /\ output = 0
-----------------------------------------------------------------------------
(* The terminal *)

Screen(t) == IF t.alt THEN t.other ELSE t.main
Color(t, entry) == IF entry = Default THEN Default ELSE t.palette[entry]

\* A piece of output; `tells' is what vt_output_may_change_rows makes of it.
Piece(control, tells) ==
  /\ pane.open /\ output < MaxOutput /\ output' = output + 1
  /\ control = "text" \/ control \in Controls
  /\ chunk' = TRUE /\ noticed' = (noticed \/ tells)
  /\ UNCHANGED <<pane, made>>

\* A line of text where the cursor is.
Write(entry) ==
  LET line == Line(output + 1, entry)
  IN  /\ Piece("text", TRUE)
      /\ IF term.alt THEN term' = [term EXCEPT !.other[term.row] = line] /\ UNCHANGED lag
         ELSE /\ term' = [term EXCEPT !.main[term.row] = line]
              /\ lag' = [lag EXCEPT !.touched = @ \cup {term.row}]
      /\ UNCHANGED <<unnoticed, marks>>

Scrolled(screen) == [r \in 1..Height |-> IF r < Height THEN screen[r + 1] ELSE Empty]

\* The line that leaves the main screen goes to the history, of which the oldest is lost
\* when it is full.
PushLine ==
  LET h == Append(term.history, term.main[1])
      full == Len(h) > MaxHistory
  IN  /\ term' = [term EXCEPT !.main = Scrolled(@), !.history = IF full THEN Tail(h) ELSE h]
      /\ lag' = [lag EXCEPT !.out = @ + 1, !.touched = {r - 1 : r \in @ \ {1}}]
      /\ marks' = marks \cup (IF full THEN {"full"} ELSE {})
                        \cup (IF 1 \in lag.touched THEN {"edited"} ELSE {})
                        \cup (IF lag.erased THEN {"erased"} ELSE {})

Feed ==
  IF term.row < Height THEN term' = [term EXCEPT !.row = @ + 1] /\ UNCHANGED <<lag, marks>>
  ELSE IF term.alt THEN term' = [term EXCEPT !.other = Scrolled(@)] /\ UNCHANGED <<lag, marks>>
  ELSE PushLine

LineFeed == Piece("text", TRUE) /\ Feed /\ UNCHANGED unnoticed

\* VT and FF feed a line too, and are no row change to vt_output_may_change_rows.
VerticalTab ==
  /\ Piece("vertical_tab", FALSE) /\ Feed
  /\ unnoticed' = (unnoticed \/ term.row = Height)

Home ==
  /\ Piece("home", FALSE) /\ term' = [term EXCEPT !.row = 1]
  /\ UNCHANGED <<lag, unnoticed, marks>>

EraseHistory ==
  /\ Piece("erase", TRUE) /\ ~term.alt
  /\ term' = [term EXCEPT !.history = <<>>] /\ lag' = [lag EXCEPT !.erased = TRUE]
  /\ UNCHANGED <<unnoticed, marks>>

\* Setting a mode, which is no row change either; the alternate screen starts blank.
EnterAlternate ==
  /\ Piece("enter", FALSE) /\ ~term.alt
  /\ term' = [term EXCEPT !.alt = TRUE, !.other = BlankScreen]
  /\ unnoticed' = (unnoticed \/ pane.surface = "alternate") /\ UNCHANGED <<lag, marks>>

LeaveAlternate ==
  /\ Piece("leave", FALSE) /\ term.alt /\ term' = [term EXCEPT !.alt = FALSE]
  /\ UNCHANGED <<lag, unnoticed, marks>>

\* OSC 4.  The runs of a kept row name places in the style table, which are other styles
\* if two entries become one, or one becomes two, or if the table was kept too.
Recolor(entry, color) ==
  /\ Piece("recolor", FALSE) /\ term.palette[entry] # color
  /\ term' = [term EXCEPT !.palette[entry] = color]
  /\ unnoticed' = (unnoticed \/ term.alt \/ \E e \in Palette \ {entry} :
                    term.palette[e] \in {color, term.palette[entry]})
  /\ UNCHANGED <<lag, marks>>
-----------------------------------------------------------------------------
(* extract_update and apply_terminal_update *)

\* style_id: the place of a style in the table, which grows when it is new.
Interned(styles, style) == IF style \in ToSet(styles) THEN styles ELSE Append(styles, style)
PlaceOf(styles, style) == CHOOSE i \in DOMAIN styles : styles[i] = style

\* extract_rows: the table after a row is that of all rows, for places do not move.
Table(styles, lines) ==
  FoldLeft(LAMBDA table, line : Interned(table, Color(term, line.entry)), styles, lines)
Runs(table, lines) ==
  [i \in DOMAIN lines |-> Run(lines[i].text, PlaceOf(table, Color(term, lines[i].entry)))]

FirstLines(s, n) == SubSeq(s, 1, n)

\* Mutant: nothing has left the screen.
MainBack_NothingLeft(rows) ==
  IF term.history = <<>> THEN rows
  ELSE FirstLines(pane.back, Len(pane.back) - Height) \o rows

\* The scrollback of a chunk whose rows are read anew, from these rows: what the pane has
\* before the screen, and the rows after it.  If the pane has not that much, the rest is
\* left for later and the scrollback stays.  (The branch that reads the whole history from
\* the terminal wants an empty scrollback, which a served pane never has.)
MainBack(rows) ==
  LET total == Len(term.history) + Height
      before == total - Len(rows)
  IN  IF total <= Len(rows) THEN FirstLines(rows, total)
      ELSE IF before <= Len(pane.back) THEN FirstLines(pane.back, before) \o rows
      ELSE pane.back

Deferred == ~term.alt /\ Len(term.history) > Len(pane.back)

\* Mutant: rows are kept whichever screen they are of.
Kept_AnySurface(surface) == ~noticed

\* preserve_input_rows
Kept(surface) == ~noticed /\ surface = pane.surface

\* Mutant: the style table always starts over.
FirstStyles_Fresh(surface) == <<Default>>

FirstStyles(surface) == IF surface = "main" THEN <<Default>> ELSE pane.styles

NextBack(surface, rows) ==
  IF Kept(surface) \/ surface = "alternate" THEN pane.back ELSE MainBack(rows)

\* The scrollback's histories, from what the extraction stored of the main screen.
Follow(surface) ==
  IF surface = "alternate" \/ Kept(surface) THEN UNCHANGED <<lag, marks>>
  ELSE IF term.history = <<>> THEN lag' = InStep /\ marks' = {}
  ELSE IF Deferred THEN marks' = marks \cup {"outrun"} /\ UNCHANGED lag
  ELSE lag' = InStep /\ UNCHANGED marks

Extract ==
  LET surface == IF term.alt THEN "alternate" ELSE "main"
      lines == Screen(term)
      table == Table(FirstStyles(surface), lines)
      rows == IF Kept(surface) THEN pane.rows ELSE Runs(table, lines)
      back == NextBack(surface, rows)
  IN  /\ chunk /\ chunk' = FALSE /\ noticed' = FALSE
      /\ pane' = [pane EXCEPT !.surface = surface, !.styles = table, !.rows = rows,
                              !.back = back,
                              !.version = IF back = pane.back THEN @ ELSE @ + 1]
      /\ Follow(surface)
      /\ unnoticed' = (unnoticed /\ Kept(surface))
      /\ UNCHANGED <<term, made, output>>
-----------------------------------------------------------------------------
(* The pane *)

ClosePane ==
  /\ pane.open /\ ~chunk /\ made < MaxPanes /\ pane' = [pane EXCEPT !.open = FALSE]
  /\ UNCHANGED <<term, noticed, chunk, made, lag, unnoticed, marks, output>>

\* PaneTerminalEngines has no way to forget an engine: the new pane has the old terminal.
OpenPane ==
  /\ ~pane.open /\ pane' = NewPane /\ made' = made + 1
  /\ lag' = InStep /\ unnoticed' = TRUE /\ marks' = {"unfounded"}
  /\ UNCHANGED <<term, noticed, chunk, output>>

Next ==
  \/ \E e \in Palette \cup {Default} : Write(e)
  \/ \E e \in Palette, c \in Colors : Recolor(e, c)
  \/ LineFeed \/ VerticalTab \/ Home \/ EraseHistory \/ EnterAlternate \/ LeaveAlternate
  \/ Extract \/ ClosePane \/ OpenPane

Spec == Init /\ [][Next]_vars
-----------------------------------------------------------------------------
(* Properties *)

Drawn(rows, styles) == [i \in DOMAIN rows |-> <<rows[i].text, styles[rows[i].style]>>]

\* The pane shows the screen the terminal is on, line by line and in its colors, unless
\* the screen was changed by something no chunk announced.  (extract_update keeps the
\* rows of a chunk that cannot have changed one, with places in a style table that was
\* made anew.)
SurfaceIsScreen ==
  pane.open /\ ~chunk /\ ~unnoticed =>
    /\ pane.surface = IF term.alt THEN "alternate" ELSE "main"
    /\ \A r \in DOMAIN pane.rows : pane.rows[r].style \in DOMAIN pane.styles
    /\ Drawn(pane.rows, pane.styles) =
         [r \in 1..Height |-> <<Screen(term)[r].text, Color(term, Screen(term)[r].entry)>>]

Texts(lines) == [i \in DOMAIN lines |-> lines[i].text]

\* The scrollback, never read from the terminal, is the terminal's history and its screen,
\* across alternate screens and chunks that kept their rows: unless one chunk fed more
\* lines than the screen has, or changed a line and then fed it out, or erased the history
\* and went on, the history was full, or the pane came to a terminal that had one.
ScrollbackIsHistory ==
  pane.open /\ ~chunk /\ ~unnoticed /\ pane.surface = "main" /\ marks = {} =>
    Texts(pane.back) = Texts(term.history \o term.main)

\* On the alternate screen the scrollback stays, and so does what its runs look like.
\* (terminal-state-extraction.md: existing structured main scrollback runs and style IDs
\* are preserved while alternate-screen output is active.)
AlternateKeepsScrollback ==
  [][pane.open /\ pane'.open /\ pane'.surface = "alternate" =>
       /\ pane'.back = pane.back
       /\ \A i \in DOMAIN pane.back :
            LET id == pane.back[i].style
            IN  id \in DOMAIN pane.styles =>
                  id \in DOMAIN pane'.styles /\ pane'.styles[id] = pane.styles[id]]_vars

\* The scrollback's version moves with the history.  (terminal-state-extraction.md:
\* advance scrollback versions when backend-owned history changes.)
HistoryMovesVersion ==
  [][chunk /\ ~chunk' /\ ~term.alt /\ lag.out > 0 => pane'.version > pane.version]_vars
=============================================================================
