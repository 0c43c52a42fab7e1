--------------------------- MODULE SpeculativeEcho ---------------------------
(***************************************************************************)
(* SpeculativeEchoOverlay (speculative_echo.rs): the client shows a        *)
(* character that was just typed before the daemon's surface has it, as    *)
(* one guess at a time, and reconciles the guess with every update that    *)
(* comes.  All of it works on values; LiveClient has the variables.        *)
(*                                                                         *)
(* A surface is the rows of text and the cursor, always visible here.  An  *)
(* update carries a surface, of which a patch (~full) holds the cursor and *)
(* the rows in `dirty' only.                                               *)
(***************************************************************************)
EXTENDS Integers, Sequences

CONSTANTS
  Panes,   \* pane ids
  Chars,   \* characters that can be typed and shown
  Height,  \* rows of a surface
  Cols,    \* columns of a surface
  Space,   \* what fills a row up to the cursor
  NoGuess, \* no prediction
  MaxMisses,    \* MAX_CONSECUTIVE_MISSES, 2 in the code
  RecoveryKeys  \* RECOVERY_PREDICTABLE_KEYS, 3 in the code

ASSUME SurfaceAssumption ==
  {Height, Cols, MaxMisses, RecoveryKeys} \subseteq Nat \ {0} /\ Space \notin Chars

Rows == 1..Height

Surface == [version : Nat, main : BOOLEAN, row : Rows, col : 0..Cols,
            rows : [Rows -> Seq(Chars \cup {Space})]]
Update == [kind : {"update"}, pane : Panes, base : Nat, full : BOOLEAN, dirty : SUBSET Rows, surface : Surface]
Guess == [pane : Panes, base : Nat, row : Rows, col : 0..(Cols - 1), char : Chars]
Overlay == [guess : Guess \cup {NoGuess}, misses : 0..MaxMisses, skipped : 0..(RecoveryKeys - 1)]

NoOverlay == [guess |-> NoGuess, misses |-> 0, skipped |-> 0]
-----------------------------------------------------------------------------
\* The cursor is where the next character would be appended to its row.
Predictable(s) == s.main /\ s.col < Cols /\ s.col = Len(s.rows[s.row])

Suppressed(o) == o.misses >= MaxMisses

\* record_suppressed_predictable_key
Skipped(o) ==
  IF o.skipped + 1 >= RecoveryKeys THEN [o EXCEPT !.misses = 0, !.skipped = 0]
  ELSE [o EXCEPT !.skipped = @ + 1]

\* Mutant: misses do not keep the client from guessing.
Predicted_Unsuppressed(o, pane, s, char) ==
  IF o.guess # NoGuess \/ ~Predictable(s) THEN o
  ELSE [o EXCEPT !.guess = [pane |-> pane, base |-> s.version, row |-> s.row, col |-> s.col,
                            char |-> char]]

\* predict_printable_key
Predicted(o, pane, s, char) ==
  IF o.guess # NoGuess \/ ~Predictable(s) THEN o
  ELSE IF Suppressed(o) THEN Skipped(o)
  ELSE [o EXCEPT !.guess = [pane |-> pane, base |-> s.version, row |-> s.row, col |-> s.col,
                            char |-> char]]

\* render: the guess can be placed on the surface it was made for.
Placed(g, pane, s) ==
  /\ g # NoGuess /\ g.pane = pane /\ g.base = s.version
  /\ g.col = Len(s.rows[g.row])
-----------------------------------------------------------------------------
Confirmed(o) == NoOverlay
Mismatched(o) == [o EXCEPT !.guess = NoGuess, !.misses = @ + 1, !.skipped = 0]
Displaced(o) == [o EXCEPT !.guess = NoGuess, !.skipped = 0]
Rebased(o, u) == [o EXCEPT !.guess.base = u.surface.version]

\* What the update says of the guess g, in the order of reconcile_update.
Unrelated(g, u) == g = NoGuess \/ g.pane # u.pane
Old(g, u) == u.surface.version <= g.base
CursorLeft(g, u) == u.surface.row # g.row \/ u.surface.col < g.col
Beside(g, u) == g.row \notin u.dirty
Short(g, u) == Len(u.surface.rows[g.row]) <= g.col
Echoed(g, u) == u.surface.rows[g.row][g.col + 1] = g.char

\* Mutant: a row that has no character at the place of the guess yet counts as one that
\* was not touched.
Reconciled_Patient(o, u) ==
  LET g == o.guess
  IN  IF Unrelated(g, u) \/ (~u.full /\ Old(g, u)) THEN o
      ELSE IF u.full THEN Mismatched(o)
      ELSE IF CursorLeft(g, u) THEN Displaced(o)
      ELSE IF Beside(g, u) \/ Short(g, u) THEN Rebased(o, u)
      ELSE IF Echoed(g, u) THEN Confirmed(o) ELSE Mismatched(o)

\* reconcile_update
Reconciled(o, u) ==
  LET g == o.guess
  IN  IF Unrelated(g, u) \/ (~u.full /\ Old(g, u)) THEN o
      ELSE IF u.full THEN Mismatched(o)
      ELSE IF CursorLeft(g, u) \/ (~Beside(g, u) /\ Short(g, u)) THEN Displaced(o)
      ELSE IF Beside(g, u) THEN Rebased(o, u)
      ELSE IF Echoed(g, u) THEN Confirmed(o) ELSE Mismatched(o)
=============================================================================
