---------------------- MODULE TerminalExtraction_proofs ----------------------
(***************************************************************************)
(* The scrollback of a pane is the history of its terminal, for any height *)
(* and history limit, any palette and any chunks.  The scrollback is not   *)
(* read from the terminal but carried along, so the invariant speaks of    *)
(* every moment since it was last stored: which line of the history and of *)
(* the screen is which line of the scrollback.                             *)
(*                                                                         *)
(* The surface of a pane is the screen, in the terminal's colors.  A chunk *)
(* that changed no row keeps the runs and makes the style table anew: that *)
(* the runs still name the right styles is because a table depends only on *)
(* which colors are the same, not on which they are.                       *)
(***************************************************************************)
EXTENDS TerminalExtraction, SequenceTheorems, WellFoundedInduction, TLAPS

Lines == [text : Int, entry : Nat]

AnySeq(s) == \E S : s \in Seq(S)

\* What the engine and the pane are made of.
Terminals ==
  [alt : BOOLEAN, history : Seq(Lines), main : [1..Height -> Lines],
   other : [1..Height -> Lines], row : 1..Height, palette : [Palette -> Colors]]
Lags == [out : Nat, touched : SUBSET (1..Height), erased : BOOLEAN]
IsPane(p) ==
  /\ p = [open |-> p.open, surface |-> p.surface, rows |-> p.rows, back |-> p.back,
          styles |-> p.styles, version |-> p.version]
  /\ AnySeq(p.back)

Typed == term \in Terminals /\ lag \in Lags /\ IsPane(pane) /\ output \in Nat

\* The scrollback before the screen, when it was stored.
Base == Len(pane.back) - Height

\* The history is what was stored of it, and then lines that were on the screen; a line of
\* the screen that nobody touched is still the one that was stored, further up.
Carried ==
  /\ Len(term.history) = Base + lag.out
  /\ \A i \in 1..Len(term.history) :
       i <= Len(pane.back) => term.history[i].text = pane.back[i].text
  /\ \A r \in 1..Height \ lag.touched :
       r + lag.out <= Height => term.main[r].text = pane.back[Base + lag.out + r].text

Founded ==
  marks = {} => /\ Len(pane.back) >= Height
                /\ IF lag.erased THEN term.history = <<>> ELSE Carried

\* While a pane shows the main screen, its scrollback falls behind only if a chunk says so.
Announced ==
  pane.surface = "main" /\ ~noticed /\ ~unnoticed /\ marks = {} => lag = InStep

ScrollbackInv == Typed /\ Founded /\ Announced
-----------------------------------------------------------------------------
(* Sequences *)

LEMMA FirstOfAll ==
  ASSUME NEW s, AnySeq(s)
  PROVE  FirstLines(s, Len(s)) = s
<1>1. PICK S : s \in Seq(S)
  BY DEF AnySeq
<1>2. QED
  BY <1>1 DEF FirstLines

Spliced(s, n, t) == FirstLines(s, n) \o t

LEMMA Joined ==
  ASSUME NEW s, NEW t, NEW n, AnySeq(s), AnySeq(t), n \in 0..Len(s)
  PROVE  /\ AnySeq(Spliced(s, n, t)) /\ Len(Spliced(s, n, t)) = n + Len(t)
         /\ \A i \in 1..n : Spliced(s, n, t)[i] = s[i]
         /\ \A i \in 1..Len(t) : Spliced(s, n, t)[n + i] = t[i]
<1> DEFINE h == SubSeq(s, 1, n)
           j == h \o t
<1>1. PICK S : s \in Seq(S)
  BY DEF AnySeq
<1>2. PICK T : t \in Seq(T)
  BY DEF AnySeq
<1>3. /\ h \in Seq(S) /\ Len(h) = n
      /\ \A i \in 1..n : h[i] = s[i]
  BY <1>1
<1>4. h \in Seq(S \cup T) /\ t \in Seq(S \cup T)
  BY <1>2, <1>3
<1>5. /\ j \in Seq(S \cup T) /\ Len(j) = n + Len(t)
      /\ \A i \in 1..n : j[i] = h[i]
      /\ \A i \in 1..Len(t) : j[n + i] = t[i]
  <2> HIDE DEF h
  <2> QED
    BY <1>3, <1>4
<1>6. QED
  BY <1>3, <1>5 DEF AnySeq, FirstLines, Spliced
-----------------------------------------------------------------------------
(* The terminal *)

LEMMA NewPaneIsPane == IsPane(NewPane)
<1>1. NewPane.back = [i \in 1..3 |-> Run(-i, 1)]
  BY DEF NewPane, Placeholder
<1>2. [i \in 1..3 |-> Run(-i, 1)] = <<Run(-1, 1), Run(-2, 1), Run(-3, 1)>>
  <2>1. \A i \in 1..3 : i = 1 \/ i = 2 \/ i = 3
    OBVIOUS
  <2>2. QED
    BY <2>1
<1>3. AnySeq(NewPane.back)
  <2>1. \A a, b, c : <<a, b, c>> \in Seq({a, b, c})
    OBVIOUS
  <2>2. NewPane.back \in Seq({Run(-1, 1), Run(-2, 1), Run(-3, 1)})
    BY <1>1, <1>2, <2>1
  <2>3. QED
    BY <2>2 DEF AnySeq
<1>4. QED
  BY <1>3 DEF IsPane, NewPane

LEMMA InitScrollback == Init => ScrollbackInv
<1> SUFFICES ASSUME Init PROVE ScrollbackInv
  OBVIOUS
<1>1. BlankScreen \in [1..Height -> Lines]
  BY DEF BlankScreen, Empty, Line, Lines, Default
<1>2. NewTerminal \in Terminals
  BY <1>1, ConstantsAssumption DEF NewTerminal, Terminals
<1>3. InStep \in Lags
  BY DEF InStep, Lags
<1>4. Typed
  BY <1>2, <1>3, NewPaneIsPane DEF Init, Typed
<1>5. QED
  BY <1>4 DEF Init, ScrollbackInv, Founded, Announced

LEMMA WriteFollows ==
  ASSUME ScrollbackInv, NEW e \in Palette \cup {Default}, Write(e)
  PROVE  ScrollbackInv'
<1> DEFINE line == Line(output + 1, e)
<1>1. line \in Lines
  BY ConstantsAssumption DEF Line, Lines, Default, ScrollbackInv, Typed
<1> USE DEF Write, Piece
<1>2. /\ pane' = pane /\ marks' = marks /\ unnoticed' = unnoticed /\ noticed' = TRUE
      /\ output' = output + 1
  OBVIOUS
<1> HIDE DEF Piece
<1>3. CASE term.alt
  <2>1. lag' = lag /\ term' = [term EXCEPT !.other[term.row] = line]
    BY <1>3
  <2> HIDE DEF line, Write
  <2>2. term' \in Terminals /\ term'.history = term.history /\ term'.main = term.main
    BY <1>1, <2>1 DEF ScrollbackInv, Typed, Terminals
  <2>3. QED
    BY <1>2, <2>1, <2>2 DEF ScrollbackInv, Typed, Founded, Carried, Base, Announced
<1>4. CASE ~term.alt
  <2>1. /\ lag' = [lag EXCEPT !.touched = @ \cup {term.row}]
        /\ term' = [term EXCEPT !.main[term.row] = line]
    BY <1>4
  <2> HIDE DEF line, Write
  <2>2. /\ term' \in Terminals /\ term'.history = term.history
        /\ term'.main = [term.main EXCEPT ![term.row] = line]
    BY <1>1, <2>1 DEF ScrollbackInv, Typed, Terminals
  <2>3. /\ lag' \in Lags /\ lag'.out = lag.out /\ lag'.erased = lag.erased
        /\ lag'.touched = lag.touched \cup {term.row}
    BY <2>1 DEF ScrollbackInv, Typed, Terminals, Lags
  <2>4. Typed'
    BY <1>2, <2>2, <2>3 DEF ScrollbackInv, Typed
  <2>5. Carried => Carried'
    BY <1>2, <2>2, <2>3 DEF ScrollbackInv, Typed, Terminals, Carried, Base
  <2>6. QED
    BY <1>2, <2>2, <2>3, <2>4, <2>5 DEF ScrollbackInv, Founded, Announced
<1>5. QED
  BY <1>3, <1>4

\* A line that leaves the screen is the next one of the stored screen, or marks the history.
LEMMA FeedFollows ==
  ASSUME ScrollbackInv, Feed, pane' = pane, output' \in Nat,
         noticed' \/ (term.row = Height => unnoticed'),
         noticed => noticed', unnoticed => unnoticed'
  PROVE  ScrollbackInv'
<1>0. Height \in Nat \ {0} /\ MaxHistory \in Nat
  BY ConstantsAssumption
<1>1. CASE term.row < Height
  <2> DEFINE row == term.row + 1
  <2>0. term \in Terminals /\ row \in 1..Height
    BY <1>0, <1>1 DEF ScrollbackInv, Typed, Terminals
  <2>1. term' = [term EXCEPT !.row = row] /\ lag' = lag /\ marks' = marks
    BY <1>1 DEF Feed
  <2> HIDE DEF row
  <2>2. term' \in Terminals /\ term'.history = term.history /\ term'.main = term.main
    BY <2>0, <2>1 DEF Terminals
  <2>3. QED
    BY <2>1, <2>2 DEF ScrollbackInv, Typed, Founded, Carried, Base, Announced
<1>2. CASE ~(term.row < Height) /\ term.alt
  <2>1. term' = [term EXCEPT !.other = Scrolled(@)] /\ lag' = lag /\ marks' = marks
    BY <1>2 DEF Feed
  <2>2. term.other \in [1..Height -> Lines]
    BY DEF ScrollbackInv, Typed, Terminals
  <2>3. Scrolled(term.other) \in [1..Height -> Lines]
    BY <1>0, <2>2 DEF Scrolled, Empty, Line, Lines, Default
  <2>4. term' \in Terminals /\ term'.history = term.history /\ term'.main = term.main
    BY <2>1, <2>3 DEF ScrollbackInv, Typed, Terminals
  <2>5. QED
    BY <2>1, <2>4 DEF ScrollbackInv, Typed, Founded, Carried, Base, Announced
<1>3. CASE ~(term.row < Height) /\ ~term.alt
  <2> DEFINE h == Append(term.history, term.main[1])
             full == Len(h) > MaxHistory
             touched == {r - 1 : r \in lag.touched \ {1}}
  <2>0. /\ term \in Terminals /\ lag \in Lags /\ term.row = Height
        /\ term.history \in Seq(Lines) /\ term.main \in [1..Height -> Lines]
    BY <1>0, <1>3 DEF ScrollbackInv, Typed, Terminals
  <2>1. /\ term' = [term EXCEPT !.main = Scrolled(@), !.history = IF full THEN Tail(h) ELSE h]
        /\ lag' = [lag EXCEPT !.out = @ + 1, !.touched = touched]
        /\ marks' = marks \cup (IF full THEN {"full"} ELSE {})
                          \cup (IF 1 \in lag.touched THEN {"edited"} ELSE {})
                          \cup (IF lag.erased THEN {"erased"} ELSE {})
    BY <1>3 DEF Feed, PushLine
  <2>2. /\ h \in Seq(Lines) /\ Len(h) = Len(term.history) + 1
        /\ \A i \in 1..Len(term.history) : h[i] = term.history[i]
        /\ h[Len(term.history) + 1] = term.main[1]
    BY <1>0, <2>0
  <2> HIDE DEF h
  <2>3. Tail(h) \in Seq(Lines)
    BY <2>2
  <2>4. /\ Scrolled(term.main) \in [1..Height -> Lines]
        /\ \A r \in 1..Height : r < Height => Scrolled(term.main)[r] = term.main[r + 1]
    BY <1>0, <2>0 DEF Scrolled, Empty, Line, Lines, Default
  <2>5. /\ term' \in Terminals /\ term'.main = Scrolled(term.main)
        /\ ~full => term'.history = h
    BY <2>0, <2>1, <2>2, <2>3, <2>4 DEF Terminals
  <2>6. /\ touched \subseteq 1..Height
        /\ \A r \in 1..Height : r < Height /\ r \notin touched => r + 1 \notin lag.touched
    BY <1>0, <2>0 DEF Lags
  <2> HIDE DEF touched
  <2>7. /\ lag' \in Lags /\ lag'.out = lag.out + 1 /\ lag'.erased = lag.erased
        /\ lag'.touched = touched
    <3> DEFINE out == lag.out + 1
    <3>1. out \in Nat
      BY <2>0 DEF Lags
    <3>2. lag' = [lag EXCEPT !.out = out, !.touched = touched]
      BY <2>1
    <3> HIDE DEF out
    <3>3. /\ lag' \in Lags /\ lag'.out = out /\ lag'.erased = lag.erased
          /\ lag'.touched = touched
      BY <2>0, <2>6, <3>1, <3>2 DEF Lags
    <3>4. QED
      BY <3>3 DEF out
  <2>8. Typed'
    BY <2>5, <2>7 DEF ScrollbackInv, Typed
  <2>9. Founded'
    <3> SUFFICES ASSUME marks' = {} PROVE Founded'
      BY DEF Founded
    <3>1. marks = {} /\ ~full /\ 1 \notin lag.touched /\ ~lag.erased
      BY <2>1
    <3>2. Len(pane.back) >= Height /\ Carried
      BY <3>1 DEF ScrollbackInv, Founded
    <3>3. AnySeq(pane.back)
      BY DEF ScrollbackInv, Typed, IsPane
    <3>4. Len(pane.back) \in Nat
      BY <3>3 DEF AnySeq
    <3>5. Len(term.history) = Base + lag.out /\ Base \in Nat
      BY <1>0, <3>2, <3>4 DEF Carried, Base
    <3>6. term'.history = h /\ Len(h) = Base + lag'.out
      BY <2>0, <2>2, <2>5, <2>7, <3>1, <3>5 DEF Lags
    <3>7. ASSUME NEW i \in 1..Len(h), i <= Len(pane.back)
          PROVE  h[i].text = pane.back[i].text
      <4>0. Len(term.history) \in Nat /\ lag.out \in Nat /\ i \in Nat
        BY <2>0, <2>2, <3>7 DEF Lags
      <4>1. CASE i <= Len(term.history)
        <5>1. i \in 1..Len(term.history)
          BY <3>7, <4>0, <4>1
        <5>2. term.history[i].text = pane.back[i].text
          BY <3>2, <3>7, <5>1 DEF Carried
        <5>3. QED
          BY <2>2, <5>1, <5>2
      <4>2. CASE i = Len(term.history) + 1
        <5>1. i = Base + lag.out + 1 /\ 1 + lag.out <= Height
          BY <1>0, <3>4, <3>5, <3>7, <4>0, <4>2 DEF Base
        <5>2. 1 \in 1..Height \ lag.touched
          BY <1>0, <3>1
        <5>3. term.main[1].text = pane.back[Base + lag.out + 1].text
          BY <3>2, <5>1, <5>2 DEF Carried
        <5>4. QED
          BY <2>2, <4>2, <5>1, <5>3
      <4>3. QED
        BY <2>2, <3>7, <4>0, <4>1, <4>2
    <3>8. ASSUME NEW r \in 1..Height \ touched, r + lag'.out <= Height
          PROVE  term'.main[r].text = pane.back[Base + lag'.out + r].text
      <4>1. r < Height /\ r + 1 \in 1..Height \ lag.touched /\ (r + 1) + lag.out <= Height
        BY <1>0, <2>0, <2>6, <2>7, <3>8 DEF Lags
      <4>2. term.main[r + 1].text = pane.back[Base + lag.out + (r + 1)].text
        BY <3>2, <4>1 DEF Carried
      <4>3. Base + lag.out + (r + 1) = Base + lag'.out + r
        BY <2>0, <2>7, <3>5 DEF Lags
      <4>4. QED
        BY <2>4, <2>5, <4>1, <4>2, <4>3
    <3>9. Carried'
      BY <2>7, <3>6, <3>7, <3>8 DEF Carried, Base
    <3>10. QED
      BY <2>7, <3>1, <3>2, <3>9 DEF Founded
  <2>10. Announced'
    BY <2>0, <2>7 DEF ScrollbackInv, Announced
  <2>11. QED
    BY <2>8, <2>9, <2>10 DEF ScrollbackInv
<1>4. QED
  BY <1>1, <1>2, <1>3

\* The rest of the terminal's actions touch neither the lines nor the scrollback.
LEMMA OtherPiecesFollow ==
  ASSUME ScrollbackInv,
         \/ Home \/ EnterAlternate \/ LeaveAlternate
         \/ \E e \in Palette, c \in Colors : Recolor(e, c)
  PROVE  ScrollbackInv'
<1>0. /\ term \in Terminals /\ Height \in Nat \ {0}
      /\ BlankScreen \in [1..Height -> Lines]
  BY ConstantsAssumption
     DEF ScrollbackInv, Typed, BlankScreen, Empty, Line, Lines, Default
<1>1. term' \in Terminals /\ term'.history = term.history /\ term'.main = term.main
  <2>1. CASE Home
    <3>1. term' = [term EXCEPT !.row = 1] /\ 1 \in 1..Height
      BY <1>0, <2>1 DEF Home
    <3>2. QED
      BY <1>0, <3>1 DEF Terminals
  <2>2. CASE EnterAlternate
    <3>1. term' = [term EXCEPT !.alt = TRUE, !.other = BlankScreen]
      BY <2>2 DEF EnterAlternate
    <3>2. QED
      BY <1>0, <3>1 DEF Terminals
  <2>3. CASE LeaveAlternate
    BY <1>0, <2>3 DEF LeaveAlternate, Terminals
  <2>4. CASE \E e \in Palette, c \in Colors : Recolor(e, c)
    <3>1. PICK e \in Palette, c \in Colors : term' = [term EXCEPT !.palette[e] = c]
      BY <2>4 DEF Recolor
    <3>2. QED
      BY <1>0, <3>1 DEF Terminals
  <2>5. QED
    BY <2>1, <2>2, <2>3, <2>4
<1>2. /\ pane' = pane /\ lag' = lag /\ marks' = marks /\ output' = output + 1
      /\ noticed => noticed'
      /\ unnoticed => unnoticed'
  <2>1. CASE Home
    BY <2>1 DEF Home, Piece
  <2>2. CASE EnterAlternate
    BY <2>2 DEF EnterAlternate, Piece
  <2>3. CASE LeaveAlternate
    BY <2>3 DEF LeaveAlternate, Piece
  <2>4. CASE \E e \in Palette, c \in Colors : Recolor(e, c)
    BY <2>4 DEF Recolor, Piece
  <2>5. QED
    BY <2>1, <2>2, <2>3, <2>4
<1>3. Typed'
  BY <1>1, <1>2 DEF ScrollbackInv, Typed
<1>4. Founded'
  BY <1>1, <1>2 DEF ScrollbackInv, Founded, Carried, Base
<1>5. Announced'
  <2> SUFFICES ASSUME pane'.surface = "main", ~noticed', ~unnoticed', marks' = {}
               PROVE  lag' = InStep
    BY DEF Announced
  <2>1. pane.surface = "main" /\ ~noticed /\ ~unnoticed /\ marks = {}
    BY <1>2
  <2>2. QED
    BY <1>2, <2>1 DEF ScrollbackInv, Announced
<1>6. QED
  BY <1>3, <1>4, <1>5 DEF ScrollbackInv

LEMMA EraseFollows ==
  ASSUME ScrollbackInv, EraseHistory
  PROVE  ScrollbackInv'
<1>1. /\ term' = [term EXCEPT !.history = <<>>] /\ lag' = [lag EXCEPT !.erased = TRUE]
      /\ pane' = pane /\ marks' = marks /\ noticed' = TRUE /\ output' = output + 1
  BY DEF EraseHistory, Piece
<1>2. term \in Terminals /\ lag \in Lags /\ <<>> \in Seq(Lines)
  BY DEF ScrollbackInv, Typed
<1>3. /\ term' \in Terminals /\ term'.history = <<>>
      /\ lag' \in Lags /\ lag'.erased = TRUE
  BY <1>1, <1>2 DEF Terminals, Lags
<1>4. QED
  BY <1>1, <1>3 DEF ScrollbackInv, Typed, Founded, Announced

\* The rows read anew are the lines of the screen.
LEMMA RunsOfLines ==
  ASSUME NEW table, NEW lines \in [1..Height -> Lines]
  PROVE  LET runs == Runs(table, lines)
         IN  /\ AnySeq(runs) /\ Len(runs) = Height
             /\ \A r \in 1..Height : runs[r].text = lines[r].text
<1> DEFINE runs == Runs(table, lines)
           S == {runs[r] : r \in 1..Height}
<1>0. Height \in Nat
  BY ConstantsAssumption
<1>1. runs = [r \in 1..Height |-> Run(lines[r].text, PlaceOf(table, Color(term, lines[r].entry)))]
  BY DEF Runs
<1>2. \A r \in 1..Height : runs[r].text = lines[r].text
  BY <1>1 DEF Run
<1>3. runs \in [1..Height -> S]
  BY <1>1
<1> HIDE DEF runs, S
<1>4. runs \in Seq(S) /\ Len(runs) = Height
  BY <1>0, <1>3
<1>5. QED
  BY <1>2, <1>4 DEF AnySeq, runs

LEMMA MainBackIsSeq ==
  ASSUME ScrollbackInv, NEW rows, AnySeq(rows), Len(rows) = Height
  PROVE  AnySeq(MainBack(rows))
<1> DEFINE n == Len(term.history)
<1>0. /\ Height \in Nat \ {0} /\ AnySeq(pane.back) /\ n \in Nat
  BY ConstantsAssumption DEF ScrollbackInv, Typed, IsPane, Terminals
<1>1. Len(pane.back) \in Nat
  BY <1>0 DEF AnySeq
<1>2. CASE n = 0
  <2>1. MainBack(rows) = FirstLines(rows, Len(rows))
    BY <1>0, <1>2 DEF MainBack
  <2>2. QED
    BY <2>1, FirstOfAll
<1>3. CASE n # 0 /\ n <= Len(pane.back)
  <2>1. MainBack(rows) = Spliced(pane.back, n, rows) /\ n \in 0..Len(pane.back)
    BY <1>0, <1>1, <1>3 DEF MainBack, Spliced
  <2> HIDE DEF n
  <2>2. QED
    BY <1>0, <2>1, Joined
<1>4. CASE n # 0 /\ ~(n <= Len(pane.back))
  <2>1. MainBack(rows) = pane.back
    BY <1>0, <1>1, <1>4 DEF MainBack
  <2>2. QED
    BY <1>0, <2>1
<1>5. QED
  BY <1>2, <1>3, <1>4

\* A scrollback that is put together holds the history and the screen.
LEMMA MainBackFollows ==
  ASSUME ScrollbackInv,
         term.history = <<>> \/ (marks = {} /\ ~Deferred /\ ~term.alt),
         NEW rows, AnySeq(rows), Len(rows) = Height,
         \A r \in 1..Height : rows[r].text = term.main[r].text
  PROVE  LET back == MainBack(rows)
         IN  /\ Len(back) = Len(term.history) + Height
             /\ \A i \in 1..Len(term.history) : back[i].text = term.history[i].text
             /\ \A r \in 1..Height :
                  back[Len(term.history) + r].text = term.main[r].text
<1> DEFINE n == Len(term.history)
<1>0. /\ Height \in Nat \ {0} /\ term \in Terminals /\ lag \in Lags
      /\ AnySeq(pane.back) /\ term.history \in Seq(Lines) /\ n \in Nat
  BY ConstantsAssumption DEF ScrollbackInv, Typed, IsPane, Terminals
<1>1. Len(pane.back) \in Nat
  BY <1>0 DEF AnySeq
<1>2. CASE n = 0
  <2>1. MainBack(rows) = rows
    <3>1. MainBack(rows) = FirstLines(rows, Len(rows))
      BY <1>0, <1>2 DEF MainBack
    <3>2. QED
      BY <3>1, FirstOfAll
  <2>2. QED
    BY <1>0, <1>2, <2>1
<1>3. CASE n # 0
  <2>1. n <= Len(pane.back)
    BY <1>0, <1>1, <1>3 DEF Deferred
  <2>2. MainBack(rows) = Spliced(pane.back, n, rows)
    BY <1>0, <1>1, <1>3, <2>1 DEF MainBack, Spliced
  <2>3. ~lag.erased
    BY <1>0, <1>3 DEF ScrollbackInv, Founded
  <2>4. \A i \in 1..n : term.history[i].text = pane.back[i].text
    BY <1>0, <1>1, <2>1, <2>3 DEF ScrollbackInv, Founded, Carried
  <2>5. n \in 0..Len(pane.back)
    BY <1>0, <1>1, <2>1
  <2> HIDE DEF n
  <2>6. /\ Len(MainBack(rows)) = n + Height
        /\ \A i \in 1..n : MainBack(rows)[i] = pane.back[i]
        /\ \A r \in 1..Height : MainBack(rows)[n + r] = rows[r]
    <3> DEFINE b == pane.back
    <3>0. AnySeq(b) /\ n \in 0..Len(b)
      BY <1>0, <2>5
    <3> HIDE DEF b
    <3>1. Len(Spliced(b, n, rows)) = n + Len(rows)
      BY <3>0, Joined
    <3>2. \A i \in 1..n : Spliced(b, n, rows)[i] = b[i]
      BY <3>0, Joined
    <3>3. \A i \in 1..Len(rows) : Spliced(b, n, rows)[n + i] = rows[i]
      BY <3>0, Joined
    <3>4. QED
      BY <2>2, <3>1, <3>2, <3>3 DEF b
  <2>7. QED
    BY <2>4, <2>6 DEF n
<1>4. QED
  BY <1>2, <1>3

LEMMA ExtractFollows ==
  ASSUME ScrollbackInv, Extract
  PROVE  ScrollbackInv'
<1> DEFINE surface == IF term.alt THEN "alternate" ELSE "main"
           lines == Screen(term)
           table == Table(FirstStyles(surface), lines)
           rows == IF Kept(surface) THEN pane.rows ELSE Runs(table, lines)
           back == NextBack(surface, rows)
<1>0. /\ Height \in Nat \ {0} /\ term \in Terminals /\ lag \in Lags /\ IsPane(pane)
      /\ term.alt \in BOOLEAN /\ term.main \in [1..Height -> Lines]
      /\ term.history \in Seq(Lines) /\ output \in Nat
  BY ConstantsAssumption DEF ScrollbackInv, Typed, Terminals
<1>1. /\ term' = term /\ output' = output /\ noticed' = FALSE
      /\ unnoticed' = (unnoticed /\ Kept(surface))
      /\ pane' = [pane EXCEPT !.surface = surface, !.styles = table, !.rows = rows,
                              !.back = back,
                              !.version = IF back = pane.back THEN @ ELSE @ + 1]
      /\ Follow(surface)
  BY DEF Extract
<1> HIDE DEF table, rows, back
<1>2. /\ pane'.surface = surface /\ pane'.back = back
      /\ AnySeq(back) => IsPane(pane')
  BY <1>0, <1>1 DEF IsPane
<1>3. CASE surface = "alternate" \/ Kept(surface)
  <2>1. back = pane.back /\ lag' = lag /\ marks' = marks
    BY <1>1, <1>3 DEF back, NextBack, Follow
  <2>2. Typed' /\ Founded'
    BY <1>0, <1>1, <1>2, <2>1
       DEF ScrollbackInv, Typed, IsPane, Founded, Carried, Base
  <2>3. Announced'
    BY <1>1, <1>2, <1>3, <2>1 DEF ScrollbackInv, Announced, Kept
  <2>4. QED
    BY <2>2, <2>3 DEF ScrollbackInv
<1>4. CASE surface = "main" /\ ~Kept(surface)
  <2>1. ~term.alt /\ lines = term.main /\ rows = Runs(table, lines) /\ back = MainBack(rows)
    BY <1>0, <1>4 DEF rows, back, NextBack, Screen
  <2>2. /\ AnySeq(rows) /\ Len(rows) = Height
        /\ \A r \in 1..Height : rows[r].text = term.main[r].text
    BY <1>0, <2>1, RunsOfLines
  <2>3. ASSUME marks' = {}
        PROVE  /\ marks = {} \/ term.history = <<>>
               /\ term.history = <<>> \/ ~Deferred
               /\ lag' = InStep
    BY <1>1, <1>4, <2>3 DEF Follow
  <2>4. /\ AnySeq(back)
        /\ marks' = {} =>
             /\ Len(back) = Len(term.history) + Height
             /\ \A i \in 1..Len(term.history) : back[i].text = term.history[i].text
             /\ \A r \in 1..Height :
                  back[Len(term.history) + r].text = term.main[r].text
    <3>1. AnySeq(back)
      BY <2>1, <2>2, MainBackIsSeq
    <3>2. ASSUME marks' = {}
          PROVE  term.history = <<>> \/ (marks = {} /\ ~Deferred /\ ~term.alt)
      BY <2>1, <2>3, <3>2
    <3>3. QED
      BY <2>1, <2>2, <3>1, <3>2, MainBackFollows
  <2>5. lag' \in Lags
    <3>1. InStep \in Lags
      BY DEF InStep, Lags
    <3>2. lag' = InStep \/ lag' = lag
      BY <1>1, <1>4 DEF Follow
    <3>3. QED
      BY <1>0, <3>1, <3>2
  <2>6. Typed'
    BY <1>0, <1>1, <1>2, <2>4, <2>5 DEF Typed
  <2>7. Founded'
    <3> SUFFICES ASSUME marks' = {} PROVE Founded'
      BY DEF Founded
    <3>1. /\ term' = term /\ pane'.back = back
          /\ lag'.out = 0 /\ lag'.touched = {} /\ lag'.erased = FALSE
      BY <1>1, <1>2, <2>3 DEF InStep
    <3>2. Len(back) >= Height /\ Len(term.history) = Len(back) - Height + 0
      BY <1>0, <2>4
    <3>3. Carried'
      BY <1>0, <2>4, <3>1, <3>2 DEF Carried, Base
    <3>4. QED
      BY <3>1, <3>2, <3>3 DEF Founded
  <2>8. Announced'
    BY <2>3 DEF Announced
  <2>9. QED
    BY <2>6, <2>7, <2>8 DEF ScrollbackInv
<1>5. QED
  BY <1>0, <1>3, <1>4

LEMMA PaneFollows ==
  ASSUME ScrollbackInv, ClosePane \/ OpenPane
  PROVE  ScrollbackInv'
<1>1. CASE ClosePane
  <2>1. /\ pane' = [pane EXCEPT !.open = FALSE] /\ term' = term /\ lag' = lag
        /\ marks' = marks /\ noticed' = noticed /\ unnoticed' = unnoticed /\ output' = output
    BY <1>1 DEF ClosePane
  <2>2. IsPane(pane') /\ pane'.back = pane.back /\ pane'.surface = pane.surface
    BY <2>1 DEF ScrollbackInv, Typed, IsPane
  <2>3. QED
    BY <2>1, <2>2 DEF ScrollbackInv, Typed, Founded, Carried, Base, Announced
<1>2. CASE OpenPane
  <2>1. /\ pane' = NewPane /\ term' = term /\ lag' = InStep /\ marks' = {"unfounded"}
        /\ output' = output
    BY <1>2 DEF OpenPane
  <2>2. InStep \in Lags
    BY DEF InStep, Lags
  <2>3. QED
    BY <2>1, <2>2, NewPaneIsPane DEF ScrollbackInv, Typed, Founded, Announced
<1>3. QED
  BY <1>1, <1>2

LEMMA NextScrollback == ScrollbackInv /\ [Next]_vars => ScrollbackInv'
<1> SUFFICES ASSUME ScrollbackInv, [Next]_vars PROVE ScrollbackInv'
  OBVIOUS
<1>1. ASSUME NEW e \in Palette \cup {Default}, Write(e) PROVE ScrollbackInv'
  BY <1>1, WriteFollows
<1>2. ASSUME LineFeed \/ VerticalTab PROVE ScrollbackInv'
  <2>1. Feed /\ pane' = pane /\ output' = output + 1
    BY <1>2 DEF LineFeed, VerticalTab, Piece
  <2>2. output' \in Nat
    BY <2>1 DEF ScrollbackInv, Typed
  <2>3. /\ noticed => noticed'
        /\ unnoticed => unnoticed'
        /\ noticed' \/ (term.row = Height => unnoticed')
    <3>1. CASE LineFeed
      BY <3>1 DEF LineFeed, Piece
    <3>2. CASE VerticalTab
      BY <3>2 DEF VerticalTab, Piece
    <3>3. QED
      BY <1>2, <3>1, <3>2
  <2>4. QED
    BY <2>1, <2>2, <2>3, FeedFollows
<1>3. ASSUME \/ Home \/ EnterAlternate \/ LeaveAlternate
             \/ \E e \in Palette, c \in Colors : Recolor(e, c)
      PROVE  ScrollbackInv'
  BY <1>3, OtherPiecesFollow
<1>4. CASE EraseHistory
  BY <1>4, EraseFollows
<1>5. CASE Extract
  BY <1>5, ExtractFollows
<1>6. CASE ClosePane \/ OpenPane
  BY <1>6, PaneFollows
<1>7. CASE UNCHANGED vars
  BY <1>7 DEF vars, ScrollbackInv, Typed, Founded, Carried, Base, Announced
<1>8. QED
  BY <1>1, <1>2, <1>3, <1>4, <1>5, <1>6, <1>7 DEF Next

\* A chunk that changed a row has not been extracted yet.
Pending == noticed => chunk

LEMMA NextPending == Pending /\ [Next]_vars => Pending'
<1> SUFFICES ASSUME Pending, [Next]_vars PROVE Pending'
  OBVIOUS
<1>1. ASSUME NEW e \in Palette \cup {Default}, Write(e) PROVE Pending'
  BY <1>1 DEF Write, Piece, Pending
<1>2. ASSUME NEW e \in Palette, NEW c \in Colors, Recolor(e, c) PROVE Pending'
  BY <1>2 DEF Recolor, Piece, Pending
<1>3. CASE LineFeed
  BY <1>3 DEF LineFeed, Piece, Pending
<1>4. CASE VerticalTab
  BY <1>4 DEF VerticalTab, Piece, Pending
<1>5. CASE Home \/ EraseHistory
  BY <1>5 DEF Home, EraseHistory, Piece, Pending
<1>6. CASE EnterAlternate \/ LeaveAlternate
  BY <1>6 DEF EnterAlternate, LeaveAlternate, Piece, Pending
<1>7. CASE Extract
  BY <1>7 DEF Extract, Pending
<1>8. CASE ClosePane \/ OpenPane
  BY <1>8 DEF ClosePane, OpenPane, Pending
<1>9. CASE UNCHANGED vars
  BY <1>9 DEF vars, Pending
<1>10. QED
  BY <1>1, <1>2, <1>3, <1>4, <1>5, <1>6, <1>7, <1>8, <1>9 DEF Next

LEMMA CarriedIsHistory == ScrollbackInv /\ Pending => ScrollbackIsHistory
<1> SUFFICES ASSUME ScrollbackInv, Pending,
                    ~chunk, ~unnoticed, pane.surface = "main", marks = {}
             PROVE  Texts(pane.back) = Texts(term.history \o term.main)
  BY DEF ScrollbackIsHistory
<1> DEFINE h == term.history
           n == Len(h)
           b == pane.back
           j == h \o term.main
<1>0. /\ Height \in Nat \ {0} /\ AnySeq(b)
      /\ h \in Seq(Lines) /\ term.main \in [1..Height -> Lines] /\ n \in Nat
  BY ConstantsAssumption DEF ScrollbackInv, Typed, Terminals, IsPane
<1>1. Len(b) \in Nat /\ DOMAIN b = 1..Len(b)
  BY <1>0 DEF AnySeq
<1>2. lag.out = 0 /\ lag.touched = {} /\ lag.erased = FALSE
  BY DEF ScrollbackInv, Announced, Pending, InStep
<1>3. /\ n = Len(b) - Height
      /\ \A i \in 1..n : i <= Len(b) => h[i].text = b[i].text
      /\ \A r \in 1..Height : r <= Height => term.main[r].text = b[n + r].text
  <2>1. Carried /\ Len(b) >= Height
    BY <1>2 DEF ScrollbackInv, Founded
  <2>2. Base = Len(b) - Height
    BY DEF Base
  <2>3. n = Base
    BY <1>0, <1>1, <1>2, <2>1, <2>2 DEF Carried
  <2>4. \A i \in 1..n : i <= Len(b) => h[i].text = b[i].text
    BY <2>1 DEF Carried
  <2>5. \A r \in 1..Height : Base + lag.out + r = n + r /\ r + lag.out = r
    BY <1>0, <1>2, <2>3
  <2>6. \A r \in 1..Height : r <= Height => term.main[r].text = b[n + r].text
    BY <1>2, <2>1, <2>5 DEF Carried
  <2>7. QED
    BY <2>2, <2>3, <2>4, <2>6
<1>4. term.main \in Seq(Lines) /\ Len(term.main) = Height
  BY <1>0
<1> HIDE DEF h, b
<1>5. /\ j \in Seq(Lines) /\ Len(j) = n + Height /\ DOMAIN j = 1..Len(b)
      /\ \A i \in 1..n : j[i] = h[i]
      /\ \A r \in 1..Height : j[n + r] = term.main[r]
  <2> DEFINE m == term.main
  <2>1. m \in Seq(Lines) /\ Len(m) = Height
    BY <1>4
  <2> HIDE DEF m
  <2>2. /\ h \o m \in Seq(Lines) /\ Len(h \o m) = n + Height
        /\ \A i \in 1..n : (h \o m)[i] = h[i]
        /\ \A r \in 1..Height : (h \o m)[n + r] = m[r]
    BY <1>0, <2>1
  <2>3. n + Height = Len(b)
    BY <1>0, <1>1, <1>3
  <2>4. DOMAIN (h \o m) = 1..Len(b)
    BY <2>2, <2>3
  <2>5. j = h \o m /\ term.main = m
    BY DEF m
  <2> HIDE DEF j
  <2>6. QED
    BY <2>2, <2>4, <2>5
<1> HIDE DEF j
<1>6. ASSUME NEW i \in 1..Len(b) PROVE j[i].text = b[i].text
  <2>1. CASE i <= n
    <3>1. i \in 1..n
      BY <1>0, <1>1, <1>6, <2>1
    <3>2. QED
      BY <1>3, <1>5, <1>6, <3>1
  <2>2. CASE i > n
    <3> DEFINE r == i - n
    <3>1. r \in 1..Height /\ i = n + r
      BY <1>0, <1>1, <1>3, <1>6, <2>2
    <3> HIDE DEF r
    <3>2. j[n + r] = term.main[r] /\ term.main[r].text = b[n + r].text
      BY <1>0, <1>3, <1>5, <3>1
    <3>3. QED
      BY <3>1, <3>2
  <2>3. QED
    BY <1>0, <1>1, <1>6, <2>1, <2>2
<1>7. Texts(b) = Texts(j)
  BY <1>1, <1>5, <1>6 DEF Texts
<1>8. QED
  BY <1>7 DEF b, j, h

\* The scrollback of a pane that shows the main screen is the history of its terminal and
\* the screen, for every height, history limit and use of the terminal, but for what the
\* histories `unnoticed' and `marks' name.
THEOREM ScrollbackFollowsHistory == Spec => []ScrollbackIsHistory
<1>1. Init => Pending
  BY DEF Init, Pending
<1>2. QED
  BY <1>1, InitScrollback, NextScrollback, NextPending, CarriedIsHistory, PTL DEF Spec
-----------------------------------------------------------------------------
(* The style table.  It is a fold over the lines of a screen, that is, a   *)
(* recursive function on sets of rows: that there is one, and what it      *)
(* yields, is shown by the least number of rows for which it would not be  *)
(* so.                                                                     *)

LEMMA LeastNumber ==
  ASSUME NEW S, S \subseteq Nat, S # {}
  PROVE  \E x \in S : \A y \in S : x <= y
<1>1. PICK x \in S : \A y \in S : ~(<<y, x>> \in OpToRel(<, Nat))
  BY NatLessThanWellFounded, WFMin, Zenon
<1>2. \A y \in Nat : y < x => <<y, x>> \in OpToRel(<, Nat)
  BY Zenon DEF OpToRel
<1>3. \A y \in S : ~(y < x)
  BY <1>1, <1>2, Zenon
<1>4. \A y \in S : y \in Nat /\ x \in Nat
  OBVIOUS
<1> QED BY <1>3, <1>4

LEMMA LargestNumber ==
  ASSUME NEW n \in Nat \ {0}, NEW s \in SUBSET (1..n), n \in s
  PROVE  Max(s) = n
<1>1. \A x \in s : x \in Nat /\ n >= x
  OBVIOUS
<1>2. \A x \in s : (\A y \in s : x >= y) => x = n
  BY <1>1
<1> QED BY <1>1, <1>2 DEF Max

\* f[s] is the table after the lines of the rows s, for a terminal t.
Interning(t, styles, lines, S, f) ==
  f = [s \in SUBSET S |->
         IF s = {} THEN styles
         ELSE Interned(f[s \ {Max(s)}], Color(t, lines[Max(s)].entry))]
TableOf(t, styles, lines) ==
  (CHOOSE f : Interning(t, styles, lines, DOMAIN lines, f))[DOMAIN lines]

LEMMA TableIsFold ==
  ASSUME NEW styles, NEW lines
  PROVE  /\ Table(styles, lines) = TableOf(term, styles, lines)
         /\ Table(styles, lines)' = TableOf(term', styles, lines)
<1>1. Table(styles, lines) = TableOf(term, styles, lines)
  BY DEF Table, FoldLeft, MapThenFoldSet, TableOf, Interning
<1>2. Table(styles, lines)' = TableOf(term', styles, lines)
  BY DEF Table, FoldLeft, MapThenFoldSet, TableOf, Interning
<1> QED BY <1>1, <1>2

LEMMA InterningExists ==
  ASSUME NEW t, NEW styles, NEW lines, NEW n \in Nat
  PROVE  \E f : Interning(t, styles, lines, 1..n, f)
<1> DEFINE Bad == {m \in Nat : ~\E f : Interning(t, styles, lines, 1..m, f)}
<1>1. SUFFICES ASSUME Bad # {} PROVE FALSE
  OBVIOUS
<1>2. PICK m \in Bad : \A k \in Bad : m <= k
  <2>1. Bad \subseteq Nat
    OBVIOUS
  <2> HIDE DEF Bad
  <2> QED BY <1>1, <2>1, LeastNumber
<1>3. m # 0
  <2> SUFFICES \E f : Interning(t, styles, lines, 1..0, f)
    BY <1>2
  <2> DEFINE f == [s \in SUBSET (1..0) |-> styles]
  <2>1. \A s \in SUBSET (1..0) : s = {}
    OBVIOUS
  <2>2. f = [s \in SUBSET (1..0) |->
               IF s = {} THEN styles
               ELSE Interned(f[s \ {Max(s)}], Color(t, lines[Max(s)].entry))]
    BY <2>1
  <2> HIDE DEF f
  <2> QED BY <2>2 DEF Interning
<1>4. m \in Nat \ {0} /\ m - 1 \in Nat /\ ~(m <= m - 1)
  BY <1>2, <1>3
<1>5. PICK f : Interning(t, styles, lines, 1..(m - 1), f)
  BY <1>2, <1>4
<1> DEFINE with(s) == Interned(f[s \ {m}], Color(t, lines[m].entry))
           g == [s \in SUBSET (1..m) |-> IF m \in s THEN with(s) ELSE f[s]]
           rule(s) == IF s = {} THEN styles
                      ELSE Interned(g[s \ {Max(s)}], Color(t, lines[Max(s)].entry))
<1>6. ASSUME NEW s \in SUBSET (1..m) PROVE g[s] = rule(s)
  <2>1. CASE m \in s
    <3>1. Max(s) = m /\ s # {}
      BY <1>4, <2>1, LargestNumber
    <3>2. s \ {m} \in SUBSET (1..m) /\ m \notin s \ {m}
      OBVIOUS
    <3>3. g[s \ {m}] = f[s \ {m}]
      BY <3>2
    <3> QED BY <2>1, <3>1, <3>3
  <2>2. CASE m \notin s
    <3>1. s \in SUBSET (1..(m - 1))
      BY <1>4, <2>2
    <3>2. f[s] = IF s = {} THEN styles
                 ELSE Interned(f[s \ {Max(s)}], Color(t, lines[Max(s)].entry))
      BY <1>5, <3>1 DEF Interning
    <3>3. g[s \ {Max(s)}] = f[s \ {Max(s)}]
      BY <2>2
    <3> QED BY <2>2, <3>2, <3>3
  <2> QED BY <2>1, <2>2
<1>7. g = [s \in SUBSET (1..m) |-> g[s]]
  OBVIOUS
<1>8. g = [s \in SUBSET (1..m) |-> rule(s)]
  <2> HIDE DEF rule
  <2>1. \A s \in SUBSET (1..m) : g[s] = rule(s)
    BY <1>6
  <2> HIDE DEF g
  <2> QED BY <1>7, <2>1
<1>9. Interning(t, styles, lines, 1..m, g)
  <2> HIDE DEF g
  <2> QED BY <1>8 DEF Interning
<1> QED BY <1>2, <1>9

\* g[k] is the table after the first k lines.
Grows(t, styles, lines, n, g) ==
  /\ g[0] = styles
  /\ \A k \in 1..n : g[k] = Interned(g[k - 1], Color(t, lines[k].entry))

LEMMA TableGrows ==
  ASSUME NEW t, NEW styles, NEW lines, NEW n \in Nat, DOMAIN lines = 1..n
  PROVE  \E g : Grows(t, styles, lines, n, g) /\ TableOf(t, styles, lines) = g[n]
<1> DEFINE f == CHOOSE f : Interning(t, styles, lines, 1..n, f)
           g == [k \in 0..n |-> f[1..k]]
<1>1. Interning(t, styles, lines, 1..n, f)
  BY InterningExists
<1> HIDE DEF f
<1>2. g[0] = styles
  <2>1. 1..0 = {} /\ {} \in SUBSET (1..n) /\ 0 \in 0..n
    OBVIOUS
  <2>2. f[{}] = styles
    BY <1>1, <2>1 DEF Interning
  <2> QED BY <2>1, <2>2
<1>3. ASSUME NEW k \in 1..n PROVE g[k] = Interned(g[k - 1], Color(t, lines[k].entry))
  <2>1. /\ k \in Nat \ {0} /\ k \in 0..n /\ k - 1 \in 0..n
        /\ 1..k \in SUBSET (1..n) /\ k \in 1..k /\ 1..k # {} /\ 1..k \in SUBSET (1..k)
    OBVIOUS
  <2>2. Max(1..k) = k
    BY <2>1, LargestNumber
  <2>3. (1..k) \ {k} = 1..(k - 1)
    BY <2>1
  <2>4. f[1..k] = Interned(f[(1..k) \ {Max(1..k)}], Color(t, lines[Max(1..k)].entry))
    BY <1>1, <2>1 DEF Interning
  <2> QED BY <2>1, <2>2, <2>3, <2>4
<1>4. TableOf(t, styles, lines) = g[n]
  <2>1. TableOf(t, styles, lines) = f[1..n]
    BY DEF TableOf, f
  <2> QED BY <2>1
<1> HIDE DEF g
<1> QED BY <1>2, <1>3, <1>4 DEF Grows

\* A longer table has the styles of the shorter one in the same places.
Extends(table, styles) ==
  \A i \in DOMAIN styles : i \in DOMAIN table /\ table[i] = styles[i]

LEMMA InternedHolds ==
  ASSUME NEW T, NEW styles \in Seq(T), NEW style \in T
  PROVE  /\ Interned(styles, style) \in Seq(T)
         /\ Extends(Interned(styles, style), styles)
         /\ style \in ToSet(Interned(styles, style))
<1>1. CASE style \in ToSet(styles)
  BY <1>1 DEF Interned, Extends
<1>2. CASE style \notin ToSet(styles)
  <2>1. /\ Append(styles, style) \in Seq(T) /\ Len(styles) \in Nat
        /\ DOMAIN styles = 1..Len(styles) /\ DOMAIN Append(styles, style) = 1..(Len(styles) + 1)
        /\ \A i \in 1..Len(styles) : Append(styles, style)[i] = styles[i]
        /\ Append(styles, style)[Len(styles) + 1] = style
    BY AppendProperties, LenProperties
  <2>2. Len(styles) + 1 \in DOMAIN Append(styles, style)
    BY <2>1
  <2>3. style \in ToSet(Append(styles, style))
    BY <2>1, <2>2, Zenon DEF ToSet
  <2>4. Extends(Append(styles, style), styles)
    <3>1. \A i \in 1..Len(styles) : i \in 1..(Len(styles) + 1)
      BY <2>1
    <3> QED BY <2>1, <3>1, Zenon DEF Extends
  <2> QED BY <1>2, <2>1, <2>3, <2>4, Zenon DEF Interned
<1> QED BY <1>1, <1>2

LEMMA ExtendsTransitive ==
  ASSUME NEW a, NEW b, NEW c, Extends(b, a), Extends(c, b)
  PROVE  Extends(c, a) /\ ToSet(b) \subseteq ToSet(c)
BY DEF Extends, ToSet

LEMMA GrowsHolds ==
  ASSUME NEW T, NEW t, NEW styles \in Seq(T), NEW lines, NEW n \in Nat, NEW g,
         Grows(t, styles, lines, n, g), \A j \in 1..n : Color(t, lines[j].entry) \in T,
         NEW k \in 0..n
  PROVE  /\ g[k] \in Seq(T) /\ Extends(g[k], styles)
         /\ \A j \in 1..k : Color(t, lines[j].entry) \in ToSet(g[k])
<1> DEFINE Good(m) == /\ g[m] \in Seq(T) /\ Extends(g[m], styles)
                      /\ \A j \in 1..m : Color(t, lines[j].entry) \in ToSet(g[m])
           Bad == {m \in 0..n : ~Good(m)}
<1>1. SUFFICES ASSUME Bad # {} PROVE FALSE
  OBVIOUS
<1>2. PICK m \in Bad : \A l \in Bad : m <= l
  <2>1. Bad \subseteq Nat
    OBVIOUS
  <2> HIDE DEF Bad
  <2> QED BY <1>1, <2>1, LeastNumber
<1>3. Good(0)
  <2>1. Extends(styles, styles)
    BY DEF Extends
  <2> QED BY <2>1 DEF Grows
<1>4. m # 0 /\ m \in 0..n
  BY <1>2, <1>3
<1>5. /\ m \in 1..n /\ m - 1 \in 0..n /\ ~(m <= m - 1)
      /\ \A j \in 1..m : j = m \/ j \in 1..(m - 1)
  BY <1>4
<1>6. Good(m - 1)
  BY <1>2, <1>5
<1> DEFINE style == Color(t, lines[m].entry)
<1>7. g[m] = Interned(g[m - 1], style) /\ style \in T
  BY <1>5 DEF Grows
<1>8. PICK before : before = g[m - 1] /\ before \in Seq(T) /\ Extends(before, styles)
  BY <1>6
<1> HIDE DEF style
<1>9. g[m] \in Seq(T) /\ Extends(g[m], before) /\ style \in ToSet(g[m])
  BY <1>7, <1>8, InternedHolds
<1>10. Extends(g[m], styles) /\ ToSet(before) \subseteq ToSet(g[m])
  BY <1>8, <1>9, ExtendsTransitive
<1>11. ASSUME NEW j \in 1..m PROVE Color(t, lines[j].entry) \in ToSet(g[m])
  <2>1. CASE j = m
    BY <1>9, <2>1 DEF style
  <2>2. CASE j \in 1..(m - 1)
    BY <1>6, <1>8, <1>10, <2>2
  <2> QED BY <1>5, <2>1, <2>2
<1> QED BY <1>2, <1>9, <1>10, <1>11

\* What a table has: the one it grew from, and every color of the lines.
LEMMA TableHolds ==
  ASSUME NEW t, NEW styles, AnySeq(styles), NEW lines, NEW n \in Nat, DOMAIN lines = 1..n
  PROVE  /\ AnySeq(TableOf(t, styles, lines))
         /\ Extends(TableOf(t, styles, lines), styles)
         /\ \A j \in 1..n : Color(t, lines[j].entry) \in ToSet(TableOf(t, styles, lines))
<1>1. PICK S : styles \in Seq(S)
  BY DEF AnySeq
<1> DEFINE T == S \cup {Color(t, lines[j].entry) : j \in 1..n}
<1>2. styles \in Seq(T)
  BY <1>1
<1>3. \A j \in 1..n : Color(t, lines[j].entry) \in T
  OBVIOUS
<1> HIDE DEF T
<1>4. PICK g : Grows(t, styles, lines, n, g) /\ TableOf(t, styles, lines) = g[n]
  BY TableGrows
<1>5. n \in 0..n
  OBVIOUS
<1>6. /\ g[n] \in Seq(T) /\ Extends(g[n], styles)
      /\ \A j \in 1..n : Color(t, lines[j].entry) \in ToSet(g[n])
  BY <1>2, <1>3, <1>4, <1>5, GrowsHolds, Zenon
<1> QED BY <1>4, <1>6 DEF AnySeq

\* A table that has all the colors stays as it is.
LEMMA TableStays ==
  ASSUME NEW t, NEW styles, NEW lines, NEW n \in Nat, DOMAIN lines = 1..n,
         \A j \in 1..n : Color(t, lines[j].entry) \in ToSet(styles)
  PROVE  TableOf(t, styles, lines) = styles
<1>1. PICK g : Grows(t, styles, lines, n, g) /\ TableOf(t, styles, lines) = g[n]
  BY TableGrows
<1> DEFINE Bad == {m \in 0..n : g[m] # styles}
<1>2. CASE Bad = {}
  BY <1>1, <1>2
<1>3. CASE Bad # {}
  <2>1. PICK m \in Bad : \A l \in Bad : m <= l
    <3>1. Bad \subseteq Nat
      OBVIOUS
    <3> HIDE DEF Bad
    <3> QED BY <1>3, <3>1, LeastNumber
  <2>2. m \in 0..n /\ m # 0
    BY <1>1, <2>1 DEF Grows
  <2>3. m \in 1..n /\ m - 1 \in 0..n /\ ~(m <= m - 1)
    BY <2>2
  <2>4. g[m - 1] = styles
    BY <2>1, <2>3
  <2>5. g[m] = Interned(styles, Color(t, lines[m].entry))
    BY <1>1, <2>3, <2>4 DEF Grows
  <2>6. g[m] = styles
    BY <2>3, <2>5 DEF Interned
  <2> QED BY <2>1, <2>6
<1> QED BY <1>2, <1>3

\* Two terminals give the lines colors that differ for the same lines.
SameColors(t, u, lines, n) ==
  \A i \in 1..n :
    /\ Color(t, lines[i].entry) = Default <=> Color(u, lines[i].entry) = Default
    /\ \A j \in 1..n : Color(t, lines[i].entry) = Color(t, lines[j].entry)
                         <=> Color(u, lines[i].entry) = Color(u, lines[j].entry)

\* Tables in which the colors of the lines have the same places, one each.
Alike(t, u, lines, n, table, other) ==
  /\ AnySeq(table) /\ AnySeq(other) /\ DOMAIN table = DOMAIN other
  /\ \A i, j \in DOMAIN table : table[i] = table[j] => i = j
  /\ \A p \in DOMAIN table, i \in 1..n :
       table[p] = Color(t, lines[i].entry) <=> other[p] = Color(u, lines[i].entry)

LEMMA InternedAlike ==
  ASSUME NEW t, NEW u, NEW lines, NEW n \in Nat, SameColors(t, u, lines, n),
         NEW a, NEW b, Alike(t, u, lines, n, a, b), NEW k \in 1..n
  PROVE  Alike(t, u, lines, n, Interned(a, Color(t, lines[k].entry)),
                               Interned(b, Color(u, lines[k].entry)))
<1> DEFINE x == Color(t, lines[k].entry)
           y == Color(u, lines[k].entry)
<1>1. /\ \A p \in DOMAIN a : a[p] = x <=> b[p] = y
      /\ DOMAIN a = DOMAIN b
  BY DEF Alike
<1>2. x \in ToSet(a) <=> y \in ToSet(b)
  BY <1>1 DEF ToSet
<1>3. CASE x \in ToSet(a)
  BY <1>2, <1>3 DEF Interned
<1>4. CASE x \notin ToSet(a)
  <2>1. PICK S, R : a \in Seq(S) /\ b \in Seq(R)
    BY DEF Alike, AnySeq
  <2>2. a \in Seq(S \cup {x}) /\ b \in Seq(R \cup {y})
    BY <2>1
  <2>3. PICK l \in Nat : l = Len(a) /\ l = Len(b) /\ DOMAIN a = 1..l /\ DOMAIN b = 1..l
    BY <1>1, <2>1, LenProperties
  <2> DEFINE c == Append(a, x)
             d == Append(b, y)
  <2>4. /\ c \in Seq(S \cup {x}) /\ DOMAIN c = 1..(l + 1)
        /\ c[l + 1] = x /\ \A i \in 1..l : c[i] = a[i]
    BY <2>2, <2>3, AppendProperties, LenProperties
  <2>5. /\ d \in Seq(R \cup {y}) /\ DOMAIN d = 1..(l + 1)
        /\ d[l + 1] = y /\ \A i \in 1..l : d[i] = b[i]
    BY <2>2, <2>3, AppendProperties, LenProperties
  <2>6. \A i \in 1..(l + 1) : i = l + 1 \/ i \in 1..l
    OBVIOUS
  <2>7. Interned(a, x) = c /\ Interned(b, y) = d
    BY <1>2, <1>4 DEF Interned
  <2> HIDE DEF c, d
  <2>8. AnySeq(c) /\ AnySeq(d)
    BY <2>4, <2>5 DEF AnySeq
  <2>9. ASSUME NEW i \in DOMAIN c, NEW j \in DOMAIN c, c[i] = c[j] PROVE i = j
    <3>1. \A m \in 1..l : c[m] # x
      BY <1>4, <2>3, <2>4 DEF ToSet
    <3>2. CASE i \in 1..l /\ j \in 1..l
      BY <2>3, <2>4, <2>9, <3>2 DEF Alike
    <3> QED BY <2>4, <2>6, <2>9, <3>1, <3>2
  <2>10. ASSUME NEW p \in DOMAIN c, NEW i \in 1..n
         PROVE  c[p] = Color(t, lines[i].entry) <=> d[p] = Color(u, lines[i].entry)
    <3>1. CASE p \in 1..l
      BY <2>3, <2>4, <2>5, <3>1 DEF Alike
    <3>2. CASE p = l + 1
      BY <2>4, <2>5, <3>2 DEF SameColors
    <3> QED BY <2>4, <2>6, <3>1, <3>2
  <2>11. Alike(t, u, lines, n, c, d)
    BY <2>4, <2>5, <2>8, <2>9, <2>10 DEF Alike
  <2> QED BY <2>7, <2>11
<1> QED BY <1>3, <1>4

\* What two terminals that tell the same lines apart make of them is alike.
LEMMA TablesAlike ==
  ASSUME NEW t, NEW u, NEW lines, NEW n \in Nat, DOMAIN lines = 1..n,
         SameColors(t, u, lines, n)
  PROVE  Alike(t, u, lines, n, TableOf(t, <<Default>>, lines), TableOf(u, <<Default>>, lines))
<1>1. PICK g : Grows(t, <<Default>>, lines, n, g) /\ TableOf(t, <<Default>>, lines) = g[n]
  BY TableGrows
<1>2. PICK h : Grows(u, <<Default>>, lines, n, h) /\ TableOf(u, <<Default>>, lines) = h[n]
  BY TableGrows
<1> DEFINE Bad == {m \in 0..n : ~Alike(t, u, lines, n, g[m], h[m])}
<1>3. SUFFICES ASSUME Bad # {} PROVE FALSE
  BY <1>1, <1>2
<1>4. PICK m \in Bad : \A l \in Bad : m <= l
  <2>1. Bad \subseteq Nat
    OBVIOUS
  <2> HIDE DEF Bad
  <2> QED BY <1>3, <2>1, LeastNumber
<1>5. Alike(t, u, lines, n, <<Default>>, <<Default>>)
  <2>1. <<Default>> \in Seq({Default}) /\ DOMAIN <<Default>> = {1} /\ <<Default>>[1] = Default
    OBVIOUS
  <2> QED BY <2>1 DEF Alike, AnySeq, SameColors
<1>6. m # 0 /\ m \in 0..n
  BY <1>1, <1>2, <1>4, <1>5 DEF Grows
<1>7. m \in 1..n /\ m - 1 \in 0..n /\ ~(m <= m - 1)
  BY <1>6
<1>8. Alike(t, u, lines, n, g[m - 1], h[m - 1])
  BY <1>4, <1>7
<1>9. /\ g[m] = Interned(g[m - 1], Color(t, lines[m].entry))
      /\ h[m] = Interned(h[m - 1], Color(u, lines[m].entry))
  BY <1>1, <1>2, <1>7 DEF Grows
<1>10. Alike(t, u, lines, n, g[m], h[m])
  BY <1>7, <1>8, <1>9, InternedAlike
<1> QED BY <1>4, <1>10

LEMMA SamePlace ==
  ASSUME NEW a, NEW b, NEW x, NEW y, DOMAIN a = DOMAIN b, x \in ToSet(a),
         \A i, j \in DOMAIN a : a[i] = a[j] => i = j,
         \A p \in DOMAIN a : a[p] = x <=> b[p] = y
  PROVE  PlaceOf(a, x) = PlaceOf(b, y)
<1>1. PICK p \in DOMAIN a : a[p] = x
  BY DEF ToSet
<1>2. PlaceOf(a, x) = p
  BY <1>1 DEF PlaceOf
<1>3. PlaceOf(b, y) = p
  BY <1>1 DEF PlaceOf
<1> QED BY <1>2, <1>3
-----------------------------------------------------------------------------
(* The surface *)

\* The lines of the main screen have entries of the palette.
Entries == \A r \in 1..Height : term.main[r].entry \in Palette \cup {Default}

\* A pane that shows a screen which nothing changed has the runs that a new table would
\* give it: on the main screen one made of the default, on the alternate its own.
MainRows ==
  pane.surface = "main" /\ ~noticed /\ ~unnoticed =>
    pane.rows = Runs(Table(<<Default>>, term.main), term.main)
AlternateRows ==
  pane.surface = "alternate" /\ term.alt /\ ~noticed /\ ~unnoticed =>
    /\ pane.rows = Runs(pane.styles, term.other)
    /\ \A r \in 1..Height : Color(term, term.other[r].entry) \in ToSet(pane.styles)

SurfaceInv ==
  AnySeq(pane.styles) /\ Entries /\ MainRows /\ AlternateRows /\ SurfaceIsScreen

LEMMA InitSurface == Init => SurfaceInv
<1> SUFFICES ASSUME Init PROVE SurfaceInv
  OBVIOUS
<1>1. Entries
  BY DEF Init, NewTerminal, BlankScreen, Empty, Line, Entries
<1>2. unnoticed
  BY DEF Init
<1>3. pane.styles = <<Default>> /\ <<Default>> \in Seq({Default})
  BY DEF Init, NewPane
<1> QED BY <1>1, <1>2, <1>3 DEF SurfaceInv, MainRows, AlternateRows, SurfaceIsScreen, AnySeq

\* The runs of a screen do not depend on the colors, only on which are the same.
LEMMA SameRuns ==
  ASSUME NEW lines, DOMAIN lines = 1..Height,
         SameColors(term, term', lines, Height)
  PROVE  Runs(Table(<<Default>>, lines), lines)' = Runs(Table(<<Default>>, lines), lines)
<1> DEFINE a == TableOf(term, <<Default>>, lines)
           b == TableOf(term', <<Default>>, lines)
<1>1. Height \in Nat
  BY ConstantsAssumption
<1>2. Alike(term, term', lines, Height, a, b)
  BY <1>1, TablesAlike
<1>3. \A j \in 1..Height : Color(term, lines[j].entry) \in ToSet(a)
  <2>1. AnySeq(<<Default>>)
    <3>1. <<Default>> \in Seq({Default})
      OBVIOUS
    <3> QED BY <3>1 DEF AnySeq
  <2> QED BY <1>1, <2>1, TableHolds
<1>4. Table(<<Default>>, lines) = a /\ Table(<<Default>>, lines)' = b
  BY TableIsFold
<1> HIDE DEF a, b
<1>5. ASSUME NEW i \in 1..Height
      PROVE  PlaceOf(a, Color(term, lines[i].entry)) = PlaceOf(b, Color(term', lines[i].entry))
  <2> DEFINE x == Color(term, lines[i].entry)
             y == Color(term', lines[i].entry)
  <2>1. /\ DOMAIN a = DOMAIN b /\ x \in ToSet(a)
        /\ \A k, j \in DOMAIN a : a[k] = a[j] => k = j
        /\ \A p \in DOMAIN a : a[p] = x <=> b[p] = y
    BY <1>2, <1>3 DEF Alike
  <2> HIDE DEF x, y
  <2>2. PlaceOf(a, x) = PlaceOf(b, y)
    BY <2>1, SamePlace
  <2> QED BY <2>2 DEF x, y
<1>6. Runs(Table(<<Default>>, lines), lines) =
        [i \in 1..Height |-> Run(lines[i].text, PlaceOf(a, Color(term, lines[i].entry)))]
  BY <1>4 DEF Runs
<1>7. Runs(Table(<<Default>>, lines), lines)' =
        [i \in 1..Height |-> Run(lines[i].text, PlaceOf(b, Color(term', lines[i].entry)))]
  BY <1>4 DEF Runs
<1> QED BY <1>5, <1>6, <1>7

\* What a step of the terminal must leave alone, unless it is noticed.
LEMMA PieceKeepsSurface ==
  ASSUME Typed, SurfaceInv, UNCHANGED pane, chunk', Entries',
         noticed => noticed', unnoticed => unnoticed',
         ~noticed' /\ ~unnoticed' =>
           term'.main = term.main /\ SameColors(term, term', term.main, Height),
         ~noticed' /\ ~unnoticed' /\ term'.alt /\ pane.surface = "alternate" =>
           term.alt /\ term'.other = term.other /\ term'.palette = term.palette
  PROVE  SurfaceInv'
<1>1. MainRows'
  <2> SUFFICES ASSUME pane.surface = "main", ~noticed', ~unnoticed'
               PROVE  pane.rows = Runs(Table(<<Default>>, term.main), term.main)'
    BY DEF MainRows
  <2>1. PICK lines : lines = term.main /\ lines = term'.main
    OBVIOUS
  <2>2. DOMAIN lines = 1..Height /\ SameColors(term, term', lines, Height)
    BY <2>1 DEF Typed, Terminals
  <2>3. Runs(Table(<<Default>>, lines), lines)' = Runs(Table(<<Default>>, lines), lines)
    BY <2>2, SameRuns
  <2>4. pane.rows = Runs(Table(<<Default>>, lines), lines)
    BY <2>1 DEF SurfaceInv, MainRows
  <2>5. Runs(Table(<<Default>>, lines), lines)' = Runs(Table(<<Default>>, term.main), term.main)'
    BY <2>1 DEF Runs, Table, FoldLeft, MapThenFoldSet
  <2> QED BY <2>3, <2>4, <2>5
<1>2. AlternateRows'
  <2> SUFFICES ASSUME pane.surface = "alternate", term'.alt, ~noticed', ~unnoticed'
               PROVE  /\ pane.rows = Runs(pane.styles, term.other)'
                      /\ \A r \in 1..Height :
                           Color(term', term'.other[r].entry) \in ToSet(pane.styles)
    BY DEF AlternateRows
  <2>1. /\ term'.other = term.other /\ term'.palette = term.palette
        /\ pane.rows = Runs(pane.styles, term.other)
        /\ \A r \in 1..Height : Color(term, term.other[r].entry) \in ToSet(pane.styles)
    BY DEF SurfaceInv, AlternateRows
  <2> QED BY <2>1 DEF Runs, Color
<1> QED BY <1>1, <1>2 DEF SurfaceInv, SurfaceIsScreen

LEMMA SamePalette ==
  ASSUME term'.palette = term.palette
  PROVE  SameColors(term, term', term.main, Height)
BY DEF SameColors, Color

LEMMA FeedEntries ==
  ASSUME Typed, Entries, Feed
  PROVE  Entries'
<1>1. term.main \in [1..Height -> Lines]
  BY DEF Typed, Terminals
<1>2. CASE term'.main = term.main
  BY <1>2 DEF Entries
<1>3. CASE term'.main = Scrolled(term.main)
  <2>1. ASSUME NEW r \in 1..Height PROVE term'.main[r].entry \in Palette \cup {Default}
    <3>1. term'.main[r] = IF r < Height THEN term.main[r + 1] ELSE Empty
      BY <1>3 DEF Scrolled
    <3>2. r < Height => r + 1 \in 1..Height
      BY ConstantsAssumption
    <3> QED BY <3>1, <3>2 DEF Entries, Empty, Line
  <2> QED BY <2>1 DEF Entries
<1>4. term'.main = term.main \/ term'.main = Scrolled(term.main)
  BY DEF Feed, PushLine, Typed, Terminals
<1> QED BY <1>2, <1>3, <1>4

LEMMA PiecesKeepSurface ==
  ASSUME Typed, SurfaceInv, NEW entry \in Palette \cup {Default},
         \/ Write(entry) \/ LineFeed \/ VerticalTab \/ Home \/ EraseHistory
         \/ EnterAlternate \/ LeaveAlternate
  PROVE  SurfaceInv'
<1>1. term \in Terminals
  BY DEF Typed
<1>2. Entries
  BY DEF SurfaceInv
<1>3. CASE Write(entry)
  <2>1. UNCHANGED <<pane, unnoticed>> /\ chunk' /\ noticed'
    BY <1>3 DEF Write, Piece
  <2>2. Entries'
    <3>1. \/ term'.main = term.main
          \/ term'.main = [term.main EXCEPT ![term.row] = Line(output + 1, entry)]
      BY <1>1, <1>3 DEF Write, Terminals
    <3>2. term.main \in [1..Height -> Lines]
      BY <1>1 DEF Terminals
    <3>3. ASSUME NEW r \in 1..Height PROVE term'.main[r].entry \in Palette \cup {Default}
      <4>1. term'.main[r] = term.main[r] \/ term'.main[r] = Line(output + 1, entry)
        BY <3>1, <3>2
      <4> QED BY <1>2, <4>1 DEF Entries, Line
    <3> QED BY <3>3 DEF Entries
  <2> QED BY <2>1, <2>2, PieceKeepsSurface
<1>4. CASE LineFeed
  <2>1. UNCHANGED <<pane, unnoticed>> /\ chunk' /\ noticed' /\ Feed
    BY <1>4 DEF LineFeed, Piece
  <2> QED BY <1>2, <2>1, FeedEntries, PieceKeepsSurface
<1>5. CASE VerticalTab
  <2>1. /\ UNCHANGED pane /\ chunk' /\ (noticed => noticed') /\ Feed
        /\ ~unnoticed' => ~unnoticed /\ term.row # Height
    BY <1>5 DEF VerticalTab, Piece
  <2>2. ~unnoticed' => term' = [term EXCEPT !.row = @ + 1]
    <3>1. term.row \in 1..Height
      BY <1>1 DEF Terminals
    <3> QED BY <2>1, <3>1, ConstantsAssumption DEF Feed
  <2>3. ~unnoticed' => /\ term'.main = term.main /\ term'.other = term.other
                       /\ term'.palette = term.palette /\ term'.alt = term.alt
    BY <1>1, <2>2 DEF Terminals
  <2> QED BY <1>2, <2>1, <2>3, FeedEntries, SamePalette, PieceKeepsSurface
<1>6. CASE Home
  <2>1. UNCHANGED <<pane, unnoticed>> /\ chunk' /\ (noticed => noticed')
    BY <1>6 DEF Home, Piece
  <2>2. /\ term'.main = term.main /\ term'.other = term.other
        /\ term'.palette = term.palette /\ term'.alt = term.alt
    BY <1>1, <1>6 DEF Home, Terminals
  <2>3. Entries'
    BY <1>2, <2>2 DEF Entries
  <2> QED BY <2>1, <2>2, <2>3, SamePalette, PieceKeepsSurface
<1>7. CASE EraseHistory
  <2>1. UNCHANGED <<pane, unnoticed>> /\ chunk' /\ noticed'
    BY <1>7 DEF EraseHistory, Piece
  <2>2. term'.main = term.main
    BY <1>1, <1>7 DEF EraseHistory, Terminals
  <2>3. Entries'
    BY <1>2, <2>2 DEF Entries
  <2> QED BY <2>1, <2>3, PieceKeepsSurface
<1>8. CASE EnterAlternate
  <2>1. /\ UNCHANGED pane /\ chunk' /\ (noticed => noticed')
        /\ ~unnoticed' => ~unnoticed /\ pane.surface # "alternate"
    BY <1>8 DEF EnterAlternate, Piece
  <2>2. term'.main = term.main /\ term'.palette = term.palette
    BY <1>1, <1>8 DEF EnterAlternate, Terminals
  <2>3. Entries'
    BY <1>2, <2>2 DEF Entries
  <2> QED BY <2>1, <2>2, <2>3, SamePalette, PieceKeepsSurface
<1>9. CASE LeaveAlternate
  <2>1. UNCHANGED <<pane, unnoticed>> /\ chunk' /\ (noticed => noticed')
    BY <1>9 DEF LeaveAlternate, Piece
  <2>2. /\ term'.main = term.main /\ term'.palette = term.palette /\ ~term'.alt
    BY <1>1, <1>9 DEF LeaveAlternate, Terminals
  <2>3. Entries'
    BY <1>2, <2>2 DEF Entries
  <2> QED BY <2>1, <2>2, <2>3, SamePalette, PieceKeepsSurface
<1> QED BY <1>3, <1>4, <1>5, <1>6, <1>7, <1>8, <1>9

LEMMA RecolorKeepsSurface ==
  ASSUME Typed, SurfaceInv, NEW entry \in Palette, NEW color \in Colors, Recolor(entry, color)
  PROVE  SurfaceInv'
<1>1. term \in Terminals /\ Entries
  BY DEF Typed, SurfaceInv
<1>2. /\ UNCHANGED pane /\ chunk' /\ (noticed => noticed')
      /\ unnoticed => unnoticed'
      /\ ~unnoticed' => /\ ~term.alt
                        /\ \A e \in Palette \ {entry} :
                             term.palette[e] # color /\ term.palette[e] # term.palette[entry]
  BY DEF Recolor, Piece
<1>3. /\ term' = [term EXCEPT !.palette[entry] = color]
      /\ term'.main = term.main /\ term'.alt = term.alt
      /\ term'.palette = [term.palette EXCEPT ![entry] = color]
  BY <1>1 DEF Recolor, Terminals
<1>4. Entries'
  BY <1>1, <1>3 DEF Entries
<1>5. ASSUME ~unnoticed' PROVE SameColors(term, term', term.main, Height)
  <2>1. /\ term.palette \in [Palette -> Colors] /\ color \in Colors /\ Default \notin Colors
        /\ Default \notin Palette
    BY <1>1, ConstantsAssumption DEF Terminals, Default
  <2>2. ASSUME NEW e \in Palette \cup {Default}
        PROVE  Color(term, e) = Default <=> Color(term', e) = Default
    BY <1>3, <2>1 DEF Color
  <2>3. ASSUME NEW e \in Palette \cup {Default}, NEW f \in Palette \cup {Default}
        PROVE  Color(term, e) = Color(term, f) <=> Color(term', e) = Color(term', f)
    <3>1. CASE e = Default \/ f = Default
      BY <2>2, <3>1 DEF Color
    <3>2. CASE e \in Palette /\ f \in Palette
      <4>1. /\ Color(term, e) = term.palette[e] /\ Color(term, f) = term.palette[f]
            /\ Color(term', e) = IF e = entry THEN color ELSE term.palette[e]
            /\ Color(term', f) = IF f = entry THEN color ELSE term.palette[f]
        BY <1>3, <2>1, <3>2 DEF Color
      <4> QED BY <1>2, <1>5, <3>2, <4>1
    <3> QED BY <3>1, <3>2
  <2> QED BY <1>1, <2>2, <2>3 DEF SameColors, Entries
<1> QED BY <1>2, <1>3, <1>4, <1>5, PieceKeepsSurface

LEMMA RunsAreDrawn ==
  ASSUME NEW table, NEW lines, DOMAIN lines = 1..Height,
         \A j \in 1..Height : Color(term, lines[j].entry) \in ToSet(table)
  PROVE  /\ \A r \in DOMAIN Runs(table, lines) :
              Runs(table, lines)[r].style \in DOMAIN table
         /\ Drawn(Runs(table, lines), table) =
              [r \in 1..Height |-> <<lines[r].text, Color(term, lines[r].entry)>>]
<1> DEFINE rows == Runs(table, lines)
<1>1. rows = [r \in 1..Height |-> Run(lines[r].text, PlaceOf(table, Color(term, lines[r].entry)))]
  BY DEF Runs
<1>2. ASSUME NEW r \in 1..Height
      PROVE  /\ rows[r].text = lines[r].text
             /\ rows[r].style \in DOMAIN table
             /\ table[rows[r].style] = Color(term, lines[r].entry)
  <2>1. \E p \in DOMAIN table : table[p] = Color(term, lines[r].entry)
    BY DEF ToSet
  <2>2. rows[r] = Run(lines[r].text, PlaceOf(table, Color(term, lines[r].entry)))
    BY <1>1
  <2> HIDE DEF rows
  <2> QED BY <2>1, <2>2 DEF Run, PlaceOf
<1>3. DOMAIN rows = 1..Height
  BY <1>1
<1> HIDE DEF rows
<1>4. Drawn(rows, table) =
        [r \in 1..Height |-> <<lines[r].text, Color(term, lines[r].entry)>>]
  BY <1>2, <1>3 DEF Drawn
<1> QED BY <1>2, <1>3, <1>4 DEF rows

LEMMA ExtractKeepsSurface ==
  ASSUME Typed, SurfaceInv, Extract
  PROVE  SurfaceInv' /\ (pane'.surface = "alternate" => Extends(pane'.styles, pane.styles))
<1> DEFINE surface == IF term.alt THEN "alternate" ELSE "main"
           lines == Screen(term)
           first == FirstStyles(surface)
           table == TableOf(term, first, lines)
           rows == IF Kept(surface) THEN pane.rows ELSE Runs(table, lines)
<1>0. Height \in Nat /\ term \in Terminals /\ IsPane(pane) /\ DOMAIN lines = 1..Height
  BY ConstantsAssumption DEF Typed, Terminals, Screen
<1>1. /\ term' = term /\ noticed' = FALSE /\ (unnoticed' <=> unnoticed /\ Kept(surface))
      /\ \E back, version :
           pane' = [pane EXCEPT !.surface = surface, !.styles = table, !.rows = rows,
                                !.back = back, !.version = version]
  <2>1. Table(first, lines) = table
    BY TableIsFold
  <2> HIDE DEF first, lines, table
  <2> QED BY <2>1 DEF Extract, first, lines
<1> HIDE DEF rows, table
<1>2. pane'.surface = surface /\ pane'.styles = table /\ pane'.rows = rows
  BY <1>0, <1>1 DEF IsPane
<1>3. AnySeq(first)
  <2>1. <<Default>> \in Seq({Default})
    OBVIOUS
  <2> QED BY <2>1 DEF FirstStyles, AnySeq, SurfaceInv
<1>4. /\ AnySeq(table) /\ Extends(table, first)
      /\ \A j \in 1..Height : Color(term, lines[j].entry) \in ToSet(table)
  BY <1>0, <1>3, TableHolds DEF table
<1>5. ~unnoticed' => rows = Runs(table, lines)
  <2> SUFFICES ASSUME ~unnoticed', Kept(surface) PROVE pane.rows = Runs(table, lines)
    BY DEF rows
  <2>1. ~noticed /\ ~unnoticed /\ surface = pane.surface
    BY <1>1 DEF Kept
  <2>2. CASE term.alt
    <3>1. /\ pane.rows = Runs(pane.styles, lines)
          /\ \A r \in 1..Height : Color(term, lines[r].entry) \in ToSet(pane.styles)
      BY <2>1, <2>2 DEF SurfaceInv, AlternateRows, Screen
    <3>2. first = pane.styles
      BY <2>2 DEF FirstStyles
    <3>3. table = pane.styles
      BY <1>0, <3>1, <3>2, TableStays DEF table
    <3> QED BY <3>1, <3>3
  <2>3. CASE ~term.alt
    <3>1. pane.rows = Runs(Table(<<Default>>, lines), lines)
      BY <2>1, <2>3 DEF SurfaceInv, MainRows, Screen
    <3>2. first = <<Default>>
      BY <2>3 DEF FirstStyles
    <3>3. table = Table(<<Default>>, lines)
      BY <3>2, TableIsFold DEF table
    <3> QED BY <3>1, <3>3
  <2> QED BY <2>2, <2>3
<1>6. MainRows'
  <2> SUFFICES ASSUME surface = "main", ~unnoticed'
               PROVE  pane'.rows = Runs(Table(<<Default>>, term.main), term.main)'
    BY <1>2 DEF MainRows
  <2>1. lines = term.main /\ first = <<Default>>
    BY DEF Screen, FirstStyles
  <2>2. table = Table(<<Default>>, term.main)
    BY <2>1, TableIsFold DEF table
  <2>3. Runs(Table(<<Default>>, term.main), term.main)' = Runs(Table(<<Default>>, term.main), term.main)
    BY <1>1 DEF Runs, Table, FoldLeft, MapThenFoldSet
  <2> QED BY <1>2, <1>5, <2>1, <2>2, <2>3
<1>7. AlternateRows'
  <2> SUFFICES ASSUME surface = "alternate", ~unnoticed'
               PROVE  /\ pane'.rows = Runs(pane.styles, term.other)'
                      /\ \A r \in 1..Height :
                           Color(term', term'.other[r].entry) \in ToSet(pane'.styles)
    BY <1>2 DEF AlternateRows
  <2>1. lines = term.other
    BY DEF Screen
  <2>2. Runs(pane.styles, term.other)' = Runs(table, lines)
    BY <1>1, <1>2, <2>1 DEF Runs, Color
  <2> QED BY <1>1, <1>2, <1>4, <1>5, <2>1, <2>2
<1>8. SurfaceIsScreen'
  <2> SUFFICES ASSUME ~unnoticed'
               PROVE  /\ \A r \in DOMAIN rows : rows[r].style \in DOMAIN table
                      /\ Drawn(rows, table) =
                           [r \in 1..Height |-> <<lines[r].text, Color(term, lines[r].entry)>>]
    BY <1>1, <1>2 DEF SurfaceIsScreen
  <2> QED BY <1>0, <1>4, <1>5, RunsAreDrawn
<1>9. Entries'
  BY <1>1 DEF SurfaceInv, Entries
<1>10. pane'.surface = "alternate" => first = pane.styles
  BY <1>2 DEF FirstStyles
<1> QED BY <1>2, <1>4, <1>6, <1>7, <1>8, <1>9, <1>10 DEF SurfaceInv

LEMMA NextSurface == Typed /\ SurfaceInv /\ [Next]_vars => SurfaceInv'
<1> SUFFICES ASSUME Typed, SurfaceInv, [Next]_vars PROVE SurfaceInv'
  OBVIOUS
<1>0. Default \in Palette \cup {Default}
  OBVIOUS
<1>1. ASSUME NEW e \in Palette \cup {Default}, Write(e) PROVE SurfaceInv'
  BY <1>1, PiecesKeepSurface
<1>2. CASE \/ LineFeed \/ VerticalTab \/ Home \/ EraseHistory \/ EnterAlternate \/ LeaveAlternate
  BY <1>0, <1>2, PiecesKeepSurface
<1>3. ASSUME NEW e \in Palette, NEW c \in Colors, Recolor(e, c) PROVE SurfaceInv'
  BY <1>3, RecolorKeepsSurface
<1>4. CASE Extract
  BY <1>4, ExtractKeepsSurface
<1>5. CASE ClosePane
  <2>1. /\ pane' = [pane EXCEPT !.open = FALSE]
        /\ UNCHANGED <<term, noticed, chunk, unnoticed>> /\ ~pane'.open
    BY <1>5 DEF ClosePane, Typed, IsPane
  <2>2. pane'.surface = pane.surface /\ pane'.rows = pane.rows /\ pane'.styles = pane.styles
    BY <2>1 DEF Typed, IsPane
  <2> QED
    BY <2>1, <2>2 DEF SurfaceInv, Entries, MainRows, AlternateRows, SurfaceIsScreen, Runs, Table,
                      FoldLeft, MapThenFoldSet, Color
<1>6. CASE OpenPane
  <2>1. pane' = NewPane /\ unnoticed' /\ UNCHANGED term
    BY <1>6 DEF OpenPane
  <2>2. AnySeq(pane'.styles)
    <3>1. <<Default>> \in Seq({Default}) /\ pane'.styles = <<Default>>
      BY <2>1 DEF NewPane
    <3> QED BY <3>1 DEF AnySeq
  <2> QED BY <2>1, <2>2 DEF SurfaceInv, Entries, MainRows, AlternateRows, SurfaceIsScreen
<1>7. CASE UNCHANGED vars
  BY <1>7 DEF vars, SurfaceInv, Entries, MainRows, AlternateRows, SurfaceIsScreen, Runs, Table,
              FoldLeft, MapThenFoldSet, Color
<1> QED BY <1>1, <1>2, <1>3, <1>4, <1>5, <1>6, <1>7 DEF Next

\* The pane shows the screen the terminal is on, in its colors, for every height, palette
\* and use of the terminal, unless no chunk announced the change.
THEOREM SurfaceAlwaysScreen == Spec => []SurfaceIsScreen
<1>1. ScrollbackInv => Typed
  BY DEF ScrollbackInv
<1>2. SurfaceInv => SurfaceIsScreen
  BY DEF SurfaceInv
<1> QED
  BY <1>1, <1>2, InitScrollback, NextScrollback, InitSurface, NextSurface, PTL DEF Spec

\* What a step that leaves the pane on the alternate screen keeps.
ScrollbackKept ==
  /\ pane'.back = pane.back
  /\ \A i \in DOMAIN pane.back :
       LET id == pane.back[i].style
       IN  id \in DOMAIN pane.styles =>
             id \in DOMAIN pane'.styles /\ pane'.styles[id] = pane.styles[id]

\* While the alternate screen is shown the scrollback stays as it is, and each of its
\* runs keeps its style, for whatever is drawn there.
THEOREM AlternateAlwaysKeeps == Spec => AlternateKeepsScrollback
<1>1. ScrollbackInv => Typed
  BY DEF ScrollbackInv
<1>2. Typed /\ SurfaceInv /\ [Next]_vars =>
        [pane.open /\ pane'.open /\ pane'.surface = "alternate" => ScrollbackKept]_vars
  <2> SUFFICES ASSUME Typed, SurfaceInv, Next, pane.open, pane'.open,
                      pane'.surface = "alternate"
               PROVE  ScrollbackKept
    OBVIOUS
  <2>1. CASE UNCHANGED pane
    BY <2>1 DEF ScrollbackKept
  <2>2. CASE Extract
    <3>1. pane'.back = NextBack(IF term.alt THEN "alternate" ELSE "main", pane'.rows)
          /\ pane'.surface = IF term.alt THEN "alternate" ELSE "main"
      BY <2>2 DEF Extract, Typed, IsPane
    <3>2. pane'.back = pane.back
      BY <3>1 DEF NextBack
    <3>3. Extends(pane'.styles, pane.styles)
      BY <2>2, ExtractKeepsSurface
    <3> QED BY <3>2, <3>3 DEF ScrollbackKept, Extends
  <2>3. UNCHANGED pane \/ Extract
    <3>1. ~OpenPane
      BY DEF OpenPane
    <3>2. ~ClosePane
      BY DEF ClosePane, Typed, IsPane
    <3> QED
      BY <3>1, <3>2 DEF Next, Write, Recolor, LineFeed, VerticalTab, Home, EraseHistory,
                        EnterAlternate, LeaveAlternate, Piece
  <2> QED BY <2>1, <2>2, <2>3
<1> QED
  BY <1>1, <1>2, InitScrollback, NextScrollback, InitSurface, NextSurface, PTL
     DEF Spec, AlternateKeepsScrollback, ScrollbackKept
=============================================================================
