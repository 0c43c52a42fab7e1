---------------------------- MODULE OutputStream ----------------------------
(***************************************************************************)
(* What the way from a pane's process to its terminal promises, without    *)
(* its threads and buffers: the terminal is shown what the process wrote,  *)
(* every byte once and in order, however late.                             *)
(***************************************************************************)
EXTENDS Naturals, Sequences

CONSTANTS Panes, Bytes

VARIABLES
  written,  \* what each pane's process has written
  shown     \* what its terminal has been given

vars == <<written, shown>>

Init == written = [p \in Panes |-> <<>>] /\ shown = [p \in Panes |-> <<>>]

Write(p) ==
  /\ \E b \in Bytes : written' = [written EXCEPT ![p] = Append(@, b)]
  /\ UNCHANGED shown

Show(p) ==
  /\ \E n \in Len(shown[p])..Len(written[p]) :
       shown' = [shown EXCEPT ![p] = SubSeq(written[p], 1, n)]
  /\ UNCHANGED written

\* A pane id that is used again begins with nothing.
Renew(p) ==
  /\ written' = [written EXCEPT ![p] = <<>>]
  /\ shown' = [shown EXCEPT ![p] = <<>>]

Next == \E p \in Panes : Write(p) \/ Show(p) \/ Renew(p)

Spec == Init /\ [][Next]_vars
=============================================================================
