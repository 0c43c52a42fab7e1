---------------------------- MODULE SessionTree ----------------------------
(***************************************************************************)
(* The workspace tree of one session and the deterministic reducer that    *)
(* changes it: nmux_core::session::Session and SessionCore::apply_accepted.*)
(*                                                                         *)
(* An identifier is the sequence of the parts the code joins with "-":     *)
(* "tab-2-pane-1" is <<"tab", 2, "pane", 1>>, so that joining identifiers  *)
(* is concatenation and two names clash here exactly when they would clash *)
(* there.  Of a pane's terminal state only the size is kept, as the number *)
(* of cells along the axis of a split; the two axes are alike.             *)
(*                                                                         *)
(* A tab's pane tree is flattened: `leaves' in the order of the tree,      *)
(* `size' for every pane of the tree, the split containers included, and   *)
(* the pane at the `root', whose size a new tab copies.                    *)
(***************************************************************************)
EXTENDS Naturals, Sequences, SequencesExt

CONSTANT InitialSize  \* cells of the first pane along the split axis

ASSUME InitialSizeAssumption == InitialSize \in Nat \ {0}

-----------------------------------------------------------------------------
(* Names *)

TabNumber(n) == <<"tab", n>>
PaneNumber(n) == <<"pane", n>>
FirstPaneOf(tab) == tab \o <<"pane", 1>>
ContainerOf(p, new) == <<"split">> \o p \o new

-----------------------------------------------------------------------------
(* Looking things up *)

PanesOf(tab) == DOMAIN tab.size
LeavesOf(tab) == Range(tab.leaves)

TabIds(s) == {s.tabs[i].id : i \in DOMAIN s.tabs}
Panes(s) == UNION {PanesOf(s.tabs[i]) : i \in DOMAIN s.tabs}
Leaves(s) == UNION {LeavesOf(s.tabs[i]) : i \in DOMAIN s.tabs}

LeafIndex(tab, p) == CHOOSE i \in DOMAIN tab.leaves : tab.leaves[i] = p
HolderOf(s, p) == CHOOSE i \in DOMAIN s.tabs : p \in PanesOf(s.tabs[i])
IndexOf(s, id) == CHOOSE i \in DOMAIN s.tabs : s.tabs[i].id = id
Tab(s, id) == s.tabs[IndexOf(s, id)]
ActiveTab(s) == Tab(s, s.active)

\* The leaves of all tabs, in the order in which they are stopped.
LeafOrder_ActiveTab(s) == ActiveTab(s).leaves
LeafOrder(s) == FlattenSeq([i \in DOMAIN s.tabs |-> s.tabs[i].leaves])

\* The pane a command without a target means; the code answers "pane not
\* found" when the active tab does not hold its own active pane.
HasActivePane(s) ==
  s.active \in TabIds(s) /\ ActiveTab(s).active \in PanesOf(ActiveTab(s))

\* next_pane_id and next_tab_id: the smallest number no pane or tab has.  A
\* set of n names leaves one of the numbers 1..n+1 free.
Smallest(set) == CHOOSE n \in set : \A m \in set : n <= m
NextPane(s) ==
  PaneNumber(Smallest({n \in 1..(Cardinality(Panes(s)) + 1) :
                         PaneNumber(n) \notin Panes(s)}))
NextTab(s) ==
  TabNumber(Smallest({n \in 1..(Len(s.tabs) + 1) :
                        TabNumber(n) \notin TabIds(s)}))

-----------------------------------------------------------------------------
(* The reducer: each operation returns the session unchanged when the code *)
(* returns false.                                                          *)

Changed(s, active, tabs) ==
  [version |-> s.version + 1, active |-> active, tabs |-> tabs]

\* A function that is as f is, except that it gives x for key.
With(f, key, x) == [k \in DOMAIN f \cup {key} |-> IF k = key THEN x ELSE f[k]]

InitialSession ==
  [version |-> 1,
   active  |-> TabNumber(1),
   tabs    |-> <<[id     |-> TabNumber(1),
                  active |-> PaneNumber(1),
                  root   |-> PaneNumber(1),
                  leaves |-> <<PaneNumber(1)>>,
                  size   |-> [p \in {PaneNumber(1)} |-> InitialSize]]>>]

AddTab(s, tab, pane) ==
  IF tab \in TabIds(s) \/ pane \in Panes(s) \/ s.active \notin TabIds(s)
  THEN s
  ELSE LET active == ActiveTab(s)
       IN Changed(s, s.active,
            Append(s.tabs, [id     |-> tab,
                            active |-> pane,
                            root   |-> pane,
                            leaves |-> <<pane>>,
                            size   |-> [p \in {pane} |-> active.size[active.root]]]))

SwitchTab(s, tab) ==
  IF \/ tab \notin TabIds(s)
     \/ Tab(s, tab).active \notin PanesOf(Tab(s, tab))
     \/ s.active = tab
  THEN s
  ELSE Changed(s, tab, s.tabs)

CloseTab_KeepsActive(s, tab) ==
  IF Len(s.tabs) <= 1 \/ tab \notin TabIds(s)
  THEN s
  ELSE Changed(s, s.active, RemoveAt(s.tabs, IndexOf(s, tab)))

\* Closing the active tab activates the one that takes its place, or the last.
CloseTab(s, tab) ==
  IF Len(s.tabs) <= 1 \/ tab \notin TabIds(s)
  THEN s
  ELSE LET i    == IndexOf(s, tab)
           rest == RemoveAt(s.tabs, i)
           next == IF i <= Len(rest) THEN i ELSE Len(rest)
       IN Changed(s, IF s.active = tab THEN rest[next].id ELSE s.active, rest)

\* The new pane takes the larger half and becomes the tab's active pane; the
\* split pane stays a leaf under a new container that takes its place.
SplitPane(s, p, new) ==
  IF \/ new \in Panes(s)
     \/ s.active \notin TabIds(s)
     \/ p \notin LeavesOf(ActiveTab(s))
     \/ ActiveTab(s).size[p] < 2
  THEN s
  ELSE LET i    == IndexOf(s, s.active)
           tab  == s.tabs[i]
           box  == ContainerOf(p, new)
           half == tab.size[p] \div 2
           new_tab ==
             [id     |-> tab.id,
              active |-> new,
              root   |-> IF tab.root = p THEN box ELSE tab.root,
              leaves |-> InsertAt(tab.leaves, LeafIndex(tab, p) + 1, new),
              size   |-> With(With(With(tab.size, box, tab.size[p]),
                                   new, tab.size[p] - half),
                              p, half)]
       IN Changed(s, s.active, [s.tabs EXCEPT ![i] = new_tab])

\* A committed resize sets the size of the one pane, and of nothing around it.
Resized(tab, p, size) == [tab EXCEPT !.size = With(tab.size, p, size)]

ResizePane_SameVersion(s, p, size) ==
  IF p \notin Panes(s) THEN s
  ELSE [s EXCEPT !.tabs[HolderOf(s, p)].size[p] = size]

ResizePane(s, p, size) ==
  LET i == HolderOf(s, p)
  IN IF p \notin Panes(s) \/ s.tabs[i].size[p] = size
     THEN s
     ELSE Changed(s, s.active, [s.tabs EXCEPT ![i] = Resized(s.tabs[i], p, size)])

-----------------------------------------------------------------------------
(* Events.  A shutdown request is accepted and changes nothing.            *)

Apply(s, event) ==
  CASE event.kind = "AddTab"    -> AddTab(s, event.tab, event.pane)
    [] event.kind = "SwitchTab" -> SwitchTab(s, event.tab)
    [] event.kind = "CloseTab"  -> CloseTab(s, event.tab)
    [] event.kind = "SplitPane" -> SplitPane(s, event.pane, event.new)
    [] event.kind = "CommitPaneResize" -> ResizePane(s, event.pane, event.size)
    [] event.kind = "RequestSessionShutdown" -> s

-----------------------------------------------------------------------------
(* What every tree the reducer produces looks like *)

\* No two tabs share a name or a pane, every tab has a leaf, its active pane is
\* one of them, and the active tab exists.
TreeWellFormed(s) ==
  /\ s.active \in TabIds(s)
  /\ \A i \in DOMAIN s.tabs :
       LET tab == s.tabs[i]
       IN /\ tab.active \in LeavesOf(tab)
          /\ LeavesOf(tab) \subseteq PanesOf(tab)
          /\ tab.root \in PanesOf(tab)
          /\ IsInjective(tab.leaves)
          /\ \A j \in DOMAIN s.tabs \ {i} :
               s.tabs[j].id # tab.id /\ PanesOf(s.tabs[j]) \cap PanesOf(tab) = {}
=============================================================================
