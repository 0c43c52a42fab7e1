----------------------------- MODULE SurfaceCache -----------------------------
(***************************************************************************)
(* What surface delivery promises a client, without saying how: for every  *)
(* pane the client holds a version the session has published, and moves    *)
(* only forward.  Versions in between may be skipped (latest wins).        *)
(***************************************************************************)
EXTENDS Naturals

CONSTANT Panes

VARIABLES
  published,   \* pane -> newest surface version of the session, 0 if none
  held         \* pane -> surface version the client holds, 0 if none

vars == <<published, held>>

Init ==
  /\ published \in [Panes -> Nat]
  /\ held = [p \in Panes |-> 0]

\* The session changes some surfaces.
Publish ==
  /\ published' \in [Panes -> Nat]
  /\ \A p \in Panes : published'[p] >= published[p]
  /\ UNCHANGED held

\* The client takes over a newer version of one pane.
Learn(p) ==
  /\ \E v \in (held[p] + 1)..published[p] : held' = [held EXCEPT ![p] = v]
  /\ UNCHANGED published

Next == Publish \/ \E p \in Panes : Learn(p)

Spec == Init /\ [][Next]_vars
=============================================================================
