--------------------------- MODULE Sessions_proofs ---------------------------
(***************************************************************************)
(* Proofs about SessionTree and Sessions, for all values of the constants. *)
(*                                                                         *)
(* First what the operations of the reducer preserve, for all trees.       *)
(* TreeWellFormed is not inductive by itself: that a split cannot give its *)
(* container the name of a pane of another tab depends on how panes get    *)
(* their names.  Tree adds that, and the shape of the records.             *)
(*                                                                         *)
(* Then the sessions.  HostMatchesTree is not inductive: that a split or a *)
(* new tab adds one leaf and takes no other's process needs the name to be *)
(* new, and that depends on how every pane of every tree got its name.     *)
(* HostInv joins the trees (TreesInv), the keys of the host (KeysInv) and  *)
(* their match (Matched); NextPaneIsFree follows from it too.  What an     *)
(* event does to a tree is taken from the first part, so that each lemma   *)
(* of the second only follows one command through host and actor.          *)
(***************************************************************************)
EXTENDS Sessions, TLAPS, SequenceTheorems, FiniteSetTheorems, WellFoundedInduction

-----------------------------------------------------------------------------
(* Trees *)

\* A name is a sequence of parts; one of a tab does not begin with "split".
IsName(name) == name \in Seq(Range(name)) /\ name # << >>
Ordinary(name) == IsName(name) /\ name[1] # "split"

\* The last two parts of a container's name are the pane it was made for.
Newest(name) == <<name[Len(name) - 1], name[Len(name)]>>

\* How a pane of the tab got its name.
Named(tab, p) ==
  \/ \E n : p = PaneNumber(n)
  \/ p = FirstPaneOf(tab.id)
  \/ p[1] = "split" /\ Newest(p) \in PanesOf(tab)

IsTab(tab) ==
  /\ tab = [id |-> tab.id, active |-> tab.active, root |-> tab.root,
            leaves |-> tab.leaves, size |-> tab.size]
  /\ Ordinary(tab.id)
  /\ tab.leaves \in Seq(PanesOf(tab)) /\ IsInjective(tab.leaves)
  /\ tab.active \in LeavesOf(tab)
  /\ tab.root \in PanesOf(tab)
  /\ IsFiniteSet(PanesOf(tab))
  /\ tab.size \in [PanesOf(tab) -> Nat]
  /\ \A p \in PanesOf(tab) : IsName(p) /\ Named(tab, p)

Tabs(tabs) ==
  /\ tabs \in Seq(Range(tabs))
  /\ \A i \in DOMAIN tabs : IsTab(tabs[i])
  /\ \A i, j \in DOMAIN tabs : i # j =>
       tabs[i].id # tabs[j].id /\ PanesOf(tabs[i]) \cap PanesOf(tabs[j]) = {}

Tree(s) ==
  /\ s = [version |-> s.version, active |-> s.active, tabs |-> s.tabs]
  /\ s.version \in Nat
  /\ Tabs(s.tabs)
  /\ s.active \in TabIds(s)

LEMMA LeavesArePanes ==
  ASSUME NEW tab, IsTab(tab)
  PROVE  LeavesOf(tab) \subseteq PanesOf(tab)
BY DEF IsTab, LeavesOf, Range

LEMMA TreeLeavesArePanes ==
  ASSUME NEW s, Tree(s)
  PROVE  Leaves(s) \subseteq Panes(s)
BY LeavesArePanes DEF Tree, Tabs, Leaves, Panes

LEMMA TreesAreWellFormed ==
  ASSUME NEW s, Tree(s)
  PROVE  TreeWellFormed(s)
BY LeavesArePanes DEF Tree, Tabs, IsTab, TreeWellFormed

-----------------------------------------------------------------------------
(* Sequences *)

LEMMA RemoveAtElements ==
  ASSUME NEW S, NEW seq \in Seq(S), NEW i \in 1..Len(seq)
  PROVE  /\ RemoveAt(seq, i) \in Seq(S)
         /\ Len(RemoveAt(seq, i)) = Len(seq) - 1
         /\ \A j \in 1..(Len(seq) - 1) :
              RemoveAt(seq, i)[j] = IF j < i THEN seq[j] ELSE seq[j + 1]
<1> DEFINE before == SubSeq(seq, 1, i - 1)
           after  == SubSeq(seq, i + 1, Len(seq))
<1>1. /\ before \in Seq(S)
      /\ Len(before) = i - 1
      /\ \A j \in 1..(i - 1) : before[j] = seq[j]
  <2>1. \A j \in 1..(i - 1) : seq[j] \in S
    OBVIOUS
  <2> QED BY <2>1, SubSeqProperties
<1>2. /\ after \in Seq(S)
      /\ Len(after) = Len(seq) - i
      /\ \A j \in 1..(Len(seq) - i) : after[j] = seq[i + j]
  <2>1. \A j \in (i + 1)..Len(seq) : seq[j] \in S
    OBVIOUS
  <2> QED BY <2>1, SubSeqProperties
<1> HIDE DEF before, after
<1>3. /\ before \o after \in Seq(S)
      /\ Len(before \o after) = Len(before) + Len(after)
      /\ \A j \in 1 .. Len(before) + Len(after) :
           (before \o after)[j] = IF j <= Len(before) THEN before[j] ELSE after[j - Len(before)]
  BY <1>1, <1>2, ConcatProperties
<1>4. RemoveAt(seq, i) = before \o after
  BY DEF RemoveAt, before, after
<1>5. Len(before) + Len(after) = Len(seq) - 1
  BY <1>1, <1>2
<1>6. ASSUME NEW j \in 1..(Len(seq) - 1)
      PROVE  RemoveAt(seq, i)[j] = IF j < i THEN seq[j] ELSE seq[j + 1]
  <2>1. CASE j < i
    BY <2>1, <1>1, <1>3, <1>4, <1>5
  <2>2. CASE ~(j < i)
    <3>1. RemoveAt(seq, i)[j] = after[j - (i - 1)]
      BY <2>2, <1>1, <1>3, <1>4, <1>5
    <3>2. j - (i - 1) \in 1..(Len(seq) - i) /\ i + (j - (i - 1)) = j + 1
      BY <2>2
    <3> QED BY <2>2, <3>1, <3>2, <1>2
  <2> QED BY <2>1, <2>2
<1> QED BY <1>3, <1>4, <1>5, <1>6

LEMMA InsertAtElements ==
  ASSUME NEW S, NEW seq \in Seq(S), NEW i \in 1..(Len(seq) + 1), NEW x \in S
  PROVE  /\ InsertAt(seq, i, x) \in Seq(S)
         /\ Len(InsertAt(seq, i, x)) = Len(seq) + 1
         /\ \A j \in 1..(Len(seq) + 1) :
              InsertAt(seq, i, x)[j] =
                IF j < i THEN seq[j] ELSE IF j = i THEN x ELSE seq[j - 1]
<1> DEFINE before == SubSeq(seq, 1, i - 1)
           after  == SubSeq(seq, i, Len(seq))
<1>1. /\ before \in Seq(S)
      /\ Len(before) = i - 1
      /\ \A j \in 1..(i - 1) : before[j] = seq[j]
  <2>1. \A j \in 1..(i - 1) : seq[j] \in S
    OBVIOUS
  <2> QED BY <2>1, SubSeqProperties
<1>2. /\ after \in Seq(S)
      /\ Len(after) = Len(seq) - i + 1
      /\ \A j \in 1..(Len(seq) - i + 1) : after[j] = seq[i + j - 1]
  <2>1. \A j \in i..Len(seq) : seq[j] \in S
    OBVIOUS
  <2> QED BY <2>1, SubSeqProperties
<1> HIDE DEF before, after
<1> DEFINE front == before \o <<x>>
<1>3. /\ front \in Seq(S)
      /\ Len(front) = i
      /\ \A j \in 1..i : front[j] = IF j < i THEN seq[j] ELSE x
  <2>1. <<x>> \in Seq(S) /\ Len(<<x>>) = 1 /\ <<x>>[1] = x
    OBVIOUS
  <2> HIDE DEF front
  <2>2. /\ front \in Seq(S)
        /\ Len(front) = Len(before) + Len(<<x>>)
        /\ \A j \in 1 .. Len(before) + Len(<<x>>) :
             front[j] = IF j <= Len(before) THEN before[j] ELSE <<x>>[j - Len(before)]
    BY <1>1, <2>1, ConcatProperties DEF front
  <2> QED BY <1>1, <2>1, <2>2
<1> HIDE DEF front
<1>4. /\ front \o after \in Seq(S)
      /\ Len(front \o after) = Len(front) + Len(after)
      /\ \A j \in 1 .. Len(front) + Len(after) :
           (front \o after)[j] = IF j <= Len(front) THEN front[j] ELSE after[j - Len(front)]
  BY <1>2, <1>3, ConcatProperties
<1>5. InsertAt(seq, i, x) = front \o after
  BY DEF InsertAt, before, after, front
<1> QED BY <1>2, <1>3, <1>4, <1>5
-----------------------------------------------------------------------------
(* Names *)

LEMMA JoinedName ==
  ASSUME NEW a, IsName(a), NEW b, b \in Seq(Range(b))
  PROVE  /\ IsName(a \o b)
         /\ Len(a \o b) = Len(a) + Len(b)
         /\ \A i \in 1..(Len(a) + Len(b)) :
              (a \o b)[i] = IF i <= Len(a) THEN a[i] ELSE b[i - Len(a)]
<1> DEFINE S == Range(a) \cup Range(b)
           c == a \o b
<1>1. a \in Seq(S) /\ b \in Seq(S)
  BY SeqMonotonic DEF IsName
<1>2. /\ c \in Seq(S)
      /\ Len(c) = Len(a) + Len(b)
      /\ \A i \in 1 .. Len(a) + Len(b) :
           c[i] = IF i <= Len(a) THEN a[i] ELSE b[i - Len(a)]
  BY <1>1, ConcatProperties
<1> HIDE DEF S, c
<1>3. c \in Seq(Range(c)) /\ Len(c) # 0
  BY <1>1, <1>2, RangeOfSeq, SeqOfRange DEF IsName
<1> QED BY <1>2, <1>3 DEF IsName, c

LEMMA PairIsName ==
  ASSUME NEW x, NEW y
  PROVE  /\ IsName(<<x, y>>)
         /\ Len(<<x, y>>) = 2 /\ <<x, y>>[1] = x /\ <<x, y>>[2] = y
BY DEF IsName, Range

LEMMA NameLength ==
  ASSUME NEW a, IsName(a)
  PROVE  /\ a \in Seq(Range(a)) /\ Len(a) \in Nat \ {0} /\ 1 \in 1..Len(a)
         /\ DOMAIN a = 1..Len(a)
BY DEF IsName

LEMMA FirstPaneName ==
  ASSUME NEW tab, Ordinary(tab)
  PROVE  Ordinary(FirstPaneOf(tab))
<1>1. IsName(<<"pane", 1>>)
  BY PairIsName
<1>2. /\ IsName(FirstPaneOf(tab))
      /\ \A i \in 1..(Len(tab) + Len(<<"pane", 1>>)) :
           FirstPaneOf(tab)[i] =
             IF i <= Len(tab) THEN tab[i] ELSE <<"pane", 1>>[i - Len(tab)]
  BY <1>1, JoinedName, NameLength DEF Ordinary, FirstPaneOf
<1>3. FirstPaneOf(tab)[1] = tab[1]
  BY <1>2, NameLength, PairIsName DEF Ordinary
<1> QED BY <1>2, <1>3 DEF Ordinary

LEMMA FirstPanesDiffer ==
  ASSUME NEW a, NEW b, IsName(a), IsName(b), FirstPaneOf(a) = FirstPaneOf(b)
  PROVE  a = b
<1>1. IsName(<<"pane", 1>>) /\ Len(<<"pane", 1>>) = 2
  BY PairIsName
<1>2. Len(a) = Len(b) /\ Len(a) \in Nat
  BY <1>1, JoinedName DEF FirstPaneOf, IsName
<1>3. \A i \in 1..Len(a) : a[i] = b[i]
  BY <1>1, <1>2, JoinedName DEF FirstPaneOf, IsName
<1> QED BY <1>2, <1>3, SeqEqual, SeqMonotonic DEF IsName

LEMMA FirstPaneIsNoNumber ==
  ASSUME NEW a, IsName(a), NEW n
  PROVE  FirstPaneOf(a) # PaneNumber(n)
BY JoinedName, PairIsName DEF FirstPaneOf, PaneNumber, IsName

LEMMA ContainerName ==
  ASSUME NEW p, IsName(p), NEW n
  PROVE  /\ IsName(ContainerOf(p, PaneNumber(n)))
         /\ ContainerOf(p, PaneNumber(n))[1] = "split"
         /\ Newest(ContainerOf(p, PaneNumber(n))) = PaneNumber(n)
<1> DEFINE a == <<"split">> \o p
           b == PaneNumber(n)
<1>1. IsName(<<"split">>) /\ Len(<<"split">>) = 1 /\ <<"split">>[1] = "split"
  BY DEF IsName, Range
<1>2. IsName(a) /\ Len(a) \in Nat \ {0} /\ a[1] = "split"
  <2>1. p \in Seq(Range(p)) /\ Len(p) \in Nat \ {0}
    BY NameLength
  <2>2. /\ IsName(a)
        /\ \A i \in 1..(1 + Len(p)) :
             a[i] = IF i <= 1 THEN <<"split">>[i] ELSE p[i - 1]
    BY <1>1, <2>1, JoinedName
  <2>3. a[1] = "split"
    BY <1>1, <2>1, <2>2
  <2> QED BY <2>2, <2>3, NameLength
<1>3. IsName(b) /\ Len(b) = 2 /\ b[1] = "pane" /\ b[2] = n
  BY PairIsName DEF PaneNumber
<1> HIDE DEF a, b
<1>4. /\ IsName(a \o b)
      /\ Len(a \o b) = Len(a) + 2
      /\ \A i \in 1..(Len(a) + 2) : (a \o b)[i] = IF i <= Len(a) THEN a[i] ELSE b[i - Len(a)]
  <2>1. a \in Seq(Range(a)) /\ b \in Seq(Range(b)) /\ IsName(a) /\ IsName(b)
    BY <1>2, <1>3 DEF IsName
  <2>2. /\ IsName(a \o b)
        /\ Len(a \o b) = Len(a) + Len(b)
        /\ \A i \in 1..(Len(a) + Len(b)) :
             (a \o b)[i] = IF i <= Len(a) THEN a[i] ELSE b[i - Len(a)]
    BY <2>1, JoinedName
  <2> DEFINE q == a \o b
  <2> HIDE DEF q
  <2>3. Len(b) = 2
    BY <1>3
  <2>4. /\ IsName(q)
        /\ Len(q) = Len(a) + 2
        /\ \A i \in 1..(Len(a) + 2) : q[i] = IF i <= Len(a) THEN a[i] ELSE b[i - Len(a)]
    BY <2>2, <2>3, Zenon DEF q
  <2> QED BY <2>4 DEF q
<1>5. Newest(a \o b) = <<"pane", n>> /\ (a \o b)[1] = "split"
  <2> DEFINE q == a \o b
             m == Len(a)
  <2>1. m \in Nat \ {0} /\ Len(q) = m + 2
    BY <1>2, <1>4
  <2>2. q[1] = a[1]
    BY <1>4, <2>1
  <2>3. q[m + 1] = b[1] /\ q[m + 2] = b[2]
    BY <1>4, <2>1
  <2> HIDE DEF q, m
  <2>4. Newest(q) = <<q[m + 1], q[m + 2]>>
    BY <2>1 DEF Newest
  <2> QED BY <1>2, <1>3, <2>2, <2>3, <2>4 DEF q
<1> QED BY <1>4, <1>5 DEF ContainerOf, PaneNumber, a, b
-----------------------------------------------------------------------------
(* The operations.  Each leaves a tree as it is or makes it a tree of the  *)
(* next version.                                                           *)

Follows(s, t) == Tree(t) /\ (t = s \/ t.version = s.version + 1)

LEMMA TabIndex ==
  ASSUME NEW s, Tree(s), NEW id \in TabIds(s)
  PROVE  /\ IndexOf(s, id) \in DOMAIN s.tabs
         /\ Tab(s, id) = s.tabs[IndexOf(s, id)]
         /\ Tab(s, id).id = id
         /\ IsTab(Tab(s, id))
BY DEF TabIds, IndexOf, Tab, Tree, Tabs

LEMMA ChangedFields ==
  ASSUME NEW s, NEW active, NEW tabs
  PROVE  LET t == Changed(s, active, tabs)
         IN  /\ t.version = s.version + 1 /\ t.active = active /\ t.tabs = tabs
             /\ t = [version |-> t.version, active |-> t.active, tabs |-> t.tabs]
BY DEF Changed

\* Putting tabs together to a tree.
LEMMA ChangedFollows ==
  ASSUME NEW s, Tree(s), NEW tabs, Tabs(tabs),
         NEW active, \E i \in DOMAIN tabs : tabs[i].id = active
  PROVE  Follows(s, Changed(s, active, tabs)) /\ Changed(s, active, tabs) # s
BY ChangedFields DEF Follows, Tree, TabIds

LEMMA LeavesByTab ==
  ASSUME NEW s, NEW active, NEW tabs
  PROVE  Leaves(Changed(s, active, tabs)) = UNION {LeavesOf(tabs[i]) : i \in DOMAIN tabs}
<1> DEFINE t == Changed(s, active, tabs)
<1>1. t.tabs = tabs
  BY ChangedFields
<1> HIDE DEF t
<1>2. Leaves(t) = UNION {LeavesOf(tabs[i]) : i \in DOMAIN tabs}
  BY <1>1 DEF Leaves
<1> QED BY <1>2 DEF t

LEMMA InitialIsTree ==
  Tree(InitialSession) /\ Leaves(InitialSession) = {PaneNumber(1)}
<1> DEFINE tab == [id     |-> TabNumber(1),
                   active |-> PaneNumber(1),
                   root   |-> PaneNumber(1),
                   leaves |-> <<PaneNumber(1)>>,
                   size   |-> [p \in {PaneNumber(1)} |-> InitialSize]]
<1>1. Ordinary(TabNumber(1)) /\ IsName(PaneNumber(1))
  BY PairIsName DEF TabNumber, PaneNumber, Ordinary
<1>2. PanesOf(tab) = {PaneNumber(1)} /\ LeavesOf(tab) = {PaneNumber(1)}
  BY DEF PanesOf, LeavesOf, Range
<1>3. IsFiniteSet(PanesOf(tab))
  BY <1>2, FS_Singleton
<1>4. tab.leaves \in Seq(PanesOf(tab)) /\ IsInjective(tab.leaves)
  BY <1>2 DEF IsInjective
<1>5. tab.size \in [PanesOf(tab) -> Nat]
  BY <1>2, InitialSizeAssumption
<1>6. tab = [id |-> tab.id, active |-> tab.active, root |-> tab.root,
             leaves |-> tab.leaves, size |-> tab.size]
  OBVIOUS
<1>7. \A p \in PanesOf(tab) : IsName(p) /\ Named(tab, p)
  BY <1>1, <1>2 DEF Named
<1>8. IsTab(tab)
  BY <1>1, <1>2, <1>3, <1>4, <1>5, <1>6, <1>7 DEF IsTab
<1>9. InitialSession = [version |-> 1, active |-> TabNumber(1), tabs |-> <<tab>>]
  BY DEF InitialSession
<1>10. tab.id = TabNumber(1)
  OBVIOUS
<1> HIDE DEF tab
<1>11. Tabs(<<tab>>)
  BY <1>8 DEF Tabs, Range
<1> QED BY <1>2, <1>9, <1>10, <1>11 DEF Tree, TabIds, Leaves

LEMMA AddTabFollows ==
  ASSUME NEW s, Tree(s), NEW tab, Ordinary(tab)
  PROVE  LET t == AddTab(s, tab, FirstPaneOf(tab))
         IN  /\ Follows(s, t)
             /\ t # s => Leaves(t) = Leaves(s) \cup {FirstPaneOf(tab)}
<1> DEFINE pane   == FirstPaneOf(tab)
           active == ActiveTab(s)
           new    == [id     |-> tab,
                      active |-> pane,
                      root   |-> pane,
                      leaves |-> <<pane>>,
                      size   |-> [p \in {pane} |-> active.size[active.root]]]
           tabs   == Append(s.tabs, new)
<1>1. CASE tab \in TabIds(s) \/ pane \in Panes(s) \/ s.active \notin TabIds(s)
  BY <1>1 DEF AddTab, Follows
<1>2. CASE ~(tab \in TabIds(s) \/ pane \in Panes(s) \/ s.active \notin TabIds(s))
  <2>1. AddTab(s, tab, pane) = Changed(s, s.active, tabs)
    BY <1>2, Zenon DEF AddTab
  <2>2. active.size[active.root] \in Nat
    BY <1>2, TabIndex DEF ActiveTab, IsTab
  <2>3. PanesOf(new) = {pane} /\ LeavesOf(new) = {pane} /\ new.id = tab
    BY DEF PanesOf, LeavesOf, Range
  <2>4. IsFiniteSet(PanesOf(new))
    BY <2>3, FS_Singleton
  <2>5. new.leaves \in Seq(PanesOf(new)) /\ IsInjective(new.leaves)
    BY <2>3 DEF IsInjective
  <2>6. new.size \in [PanesOf(new) -> Nat]
    BY <2>2, <2>3
  <2>7. new = [id |-> new.id, active |-> new.active, root |-> new.root,
               leaves |-> new.leaves, size |-> new.size]
    OBVIOUS
  <2>8. \A p \in PanesOf(new) : IsName(p) /\ Named(new, p)
    BY <2>3, FirstPaneName DEF Named, Ordinary
  <2>9. IsTab(new)
    BY <2>3, <2>4, <2>5, <2>6, <2>7, <2>8 DEF IsTab
  <2> HIDE DEF new, active, pane
  <2>10. /\ s.tabs \in Seq(Range(s.tabs)) /\ DOMAIN s.tabs = 1..Len(s.tabs)
         /\ Len(s.tabs) \in Nat
    BY DEF Tree, Tabs
  <2>11. /\ tabs \in Seq(Range(s.tabs) \cup {new})
         /\ DOMAIN tabs = 1..(Len(s.tabs) + 1)
         /\ \A i \in DOMAIN s.tabs : i \in DOMAIN tabs /\ tabs[i] = s.tabs[i]
         /\ tabs[Len(s.tabs) + 1] = new
    <3>1. s.tabs \in Seq(Range(s.tabs) \cup {new})
      BY <2>10, SeqMonotonic
    <3> QED BY <2>10, <3>1, AppendProperties
  <2> HIDE DEF tabs
  <2>12. tabs \in Seq(Range(tabs))
    BY <2>11, SeqOfRange
  <2>13. \A i \in DOMAIN s.tabs :
           /\ IsTab(s.tabs[i])
           /\ s.tabs[i].id # new.id
           /\ PanesOf(s.tabs[i]) \cap PanesOf(new) = {}
    BY <1>2, <2>3 DEF Tree, Tabs, TabIds, Panes, pane
  <2>14. \A i \in DOMAIN tabs : i \in DOMAIN s.tabs \/ i = Len(s.tabs) + 1
    BY <2>10, <2>11
  <2>15. Tabs(tabs)
    BY <2>9, <2>11, <2>12, <2>13, <2>14 DEF Tabs, Tree
  <2>16. \E i \in DOMAIN tabs : tabs[i].id = s.active
    BY <2>11 DEF Tree, TabIds
  <2>17. Leaves(Changed(s, s.active, tabs)) = Leaves(s) \cup {pane}
    <3>1. \A p : (\E i \in DOMAIN tabs : p \in LeavesOf(tabs[i]))
                  <=> p = pane \/ \E i \in DOMAIN s.tabs : p \in LeavesOf(s.tabs[i])
      BY <2>3, <2>10, <2>11, <2>14
    <3>2. Leaves(Changed(s, s.active, tabs)) = UNION {LeavesOf(tabs[i]) : i \in DOMAIN tabs}
      BY LeavesByTab
    <3>3. Leaves(s) = UNION {LeavesOf(s.tabs[i]) : i \in DOMAIN s.tabs}
      BY DEF Leaves
    <3> QED BY <3>1, <3>2, <3>3
  <2> QED BY <2>1, <2>15, <2>16, <2>17, ChangedFollows DEF pane
<1> QED BY <1>1, <1>2

LEMMA SwitchTabFollows ==
  ASSUME NEW s, Tree(s), NEW tab
  PROVE  /\ Follows(s, SwitchTab(s, tab))
         /\ SwitchTab(s, tab).tabs = s.tabs
<1>1. CASE tab \notin TabIds(s) \/ SwitchTab(s, tab) = s
  BY <1>1 DEF SwitchTab, Follows
<1>2. CASE tab \in TabIds(s) /\ SwitchTab(s, tab) # s
  <2>1. SwitchTab(s, tab) = Changed(s, tab, s.tabs)
    BY <1>2 DEF SwitchTab
  <2>2. Tabs(s.tabs) /\ \E i \in DOMAIN s.tabs : s.tabs[i].id = tab
    BY <1>2 DEF Tree, TabIds
  <2> QED BY <2>1, <2>2, ChangedFollows, ChangedFields
<1> QED BY <1>1, <1>2
LEMMA CloseTabFollows ==
  ASSUME NEW s, Tree(s), NEW tab
  PROVE  LET t == CloseTab(s, tab)
         IN  /\ Follows(s, t)
             /\ t # s => /\ Leaves(t) = Leaves(s) \ LeavesOf(Tab(s, tab))
                         /\ Len(t.tabs) < Len(s.tabs)
<1>1. CASE Len(s.tabs) <= 1 \/ tab \notin TabIds(s)
  BY <1>1 DEF CloseTab, Follows
<1>2. CASE ~(Len(s.tabs) <= 1 \/ tab \notin TabIds(s))
  <2> DEFINE i      == IndexOf(s, tab)
             rest   == RemoveAt(s.tabs, i)
             next   == IF i <= Len(rest) THEN i ELSE Len(rest)
             active == IF s.active = tab THEN rest[next].id ELSE s.active
  <2>1. CloseTab(s, tab) = Changed(s, active, rest)
    BY <1>2, Zenon DEF CloseTab
  <2>2. /\ s.tabs \in Seq(Range(s.tabs)) /\ DOMAIN s.tabs = 1..Len(s.tabs)
        /\ Len(s.tabs) \in Nat /\ Len(s.tabs) > 1
    BY <1>2 DEF Tree, Tabs
  <2>3. i \in 1..Len(s.tabs) /\ Tab(s, tab) = s.tabs[i] /\ s.tabs[i].id = tab
    BY <1>2, <2>2, TabIndex
  <2>4. /\ rest \in Seq(Range(s.tabs)) /\ Len(rest) = Len(s.tabs) - 1
        /\ \A j \in 1..(Len(s.tabs) - 1) :
             rest[j] = IF j < i THEN s.tabs[j] ELSE s.tabs[j + 1]
    BY <2>2, <2>3, RemoveAtElements
  <2> DEFINE old(j) == IF j < i THEN j ELSE j + 1
  <2> HIDE DEF i, rest
  <2>5. DOMAIN rest = 1..(Len(s.tabs) - 1) /\ rest \in Seq(Range(rest))
    BY <2>2, <2>4, SeqOfRange
  <2>6. \A j \in DOMAIN rest : old(j) \in DOMAIN s.tabs \ {i} /\ rest[j] = s.tabs[old(j)]
    BY <2>2, <2>3, <2>4, <2>5
  <2>7. \A k \in DOMAIN s.tabs \ {i} : \E j \in DOMAIN rest : rest[j] = s.tabs[k]
    <3> TAKE k \in DOMAIN s.tabs \ {i}
    <3>1. CASE k < i
      BY <3>1, <2>2, <2>3, <2>4, <2>5
    <3>2. CASE k > i
      <4>1. k - 1 \in DOMAIN rest /\ ~(k - 1 < i) /\ (k - 1) + 1 = k
        BY <3>2, <2>2, <2>3, <2>5
      <4> QED BY <4>1, <2>4, <2>5
    <3> QED BY <3>1, <3>2, <2>2, <2>3
  <2>8. \A j, k \in DOMAIN rest : j # k => old(j) # old(k)
    BY <2>2, <2>3, <2>5
  <2>9. Tabs(rest)
    <3> HIDE DEF old
    <3> QED BY <2>5, <2>6, <2>8 DEF Tree, Tabs
  <2>10. \E j \in DOMAIN rest : rest[j].id = active
    <3>1. CASE s.active = tab
      <4>1. next \in DOMAIN rest
        BY <2>2, <2>3, <2>4, <2>5
      <4> QED BY <3>1, <4>1
    <3>2. CASE s.active # tab
      <4>1. PICK k \in DOMAIN s.tabs : s.tabs[k].id = s.active
        BY DEF Tree, TabIds
      <4>2. k # i
        BY <3>2, <4>1, <2>3
      <4> QED BY <3>2, <4>1, <4>2, <2>7
    <3> QED BY <3>1, <3>2
  <2>11. \A j \in DOMAIN s.tabs \ {i} : LeavesOf(s.tabs[j]) \cap LeavesOf(s.tabs[i]) = {}
    BY <2>2, <2>3, LeavesArePanes DEF Tree, Tabs
  <2>12. Leaves(Changed(s, active, rest)) = Leaves(s) \ LeavesOf(Tab(s, tab))
    <3> HIDE DEF active, old
    <3>1. \A p : (\E j \in DOMAIN rest : p \in LeavesOf(rest[j])) <=>
                 \E k \in DOMAIN s.tabs \ {i} : p \in LeavesOf(s.tabs[k])
      BY <2>6, <2>7
    <3>2. \A p : (\E j \in DOMAIN rest : p \in LeavesOf(rest[j])) <=>
                 /\ \E k \in DOMAIN s.tabs : p \in LeavesOf(s.tabs[k])
                 /\ p \notin LeavesOf(s.tabs[i])
      BY <3>1, <2>11
    <3> QED BY <3>2, <2>3, LeavesByTab DEF Leaves
  <2>13. Len(Changed(s, active, rest).tabs) < Len(s.tabs)
    BY <2>2, <2>4 DEF Changed
  <2> HIDE DEF active
  <2> QED BY <2>1, <2>9, <2>10, <2>12, <2>13, ChangedFollows
<1> QED BY <1>1, <1>2

\* Putting another tab of the same name, with more leaves, in the place of one.
LEMMA ReplacedTabFollows ==
  ASSUME NEW s, Tree(s), NEW i \in DOMAIN s.tabs, NEW new, IsTab(new),
         new.id = s.tabs[i].id, LeavesOf(s.tabs[i]) \subseteq LeavesOf(new),
         \A j \in DOMAIN s.tabs \ {i} : PanesOf(new) \cap PanesOf(s.tabs[j]) = {}
  PROVE  LET t == Changed(s, s.active, [s.tabs EXCEPT ![i] = new])
         IN  Follows(s, t) /\ Leaves(t) = Leaves(s) \cup LeavesOf(new)
<1> DEFINE tabs == [s.tabs EXCEPT ![i] = new]
<1>1. /\ s.tabs \in Seq(Range(s.tabs)) /\ DOMAIN s.tabs = 1..Len(s.tabs)
      /\ Len(s.tabs) \in Nat
  BY DEF Tree, Tabs
<1>2. /\ tabs \in Seq(Range(s.tabs) \cup {new})
      /\ DOMAIN tabs = DOMAIN s.tabs
      /\ tabs[i] = new
      /\ \A j \in DOMAIN s.tabs \ {i} : tabs[j] = s.tabs[j]
  <2>1. s.tabs \in Seq(Range(s.tabs) \cup {new})
    BY <1>1, SeqMonotonic
  <2> QED BY <1>1, <2>1, ExceptSeq
<1> HIDE DEF tabs
<1>3. tabs \in Seq(Range(tabs))
  BY <1>2, SeqOfRange
<1>4. Tabs(tabs)
  <2>1. \A j \in DOMAIN tabs : IsTab(tabs[j])
    BY <1>2 DEF Tree, Tabs
  <2>2. ASSUME NEW j \in DOMAIN tabs, NEW k \in DOMAIN tabs, j # k
        PROVE  tabs[j].id # tabs[k].id /\ PanesOf(tabs[j]) \cap PanesOf(tabs[k]) = {}
    <3>1. \A l \in DOMAIN s.tabs \ {i} :
            s.tabs[l].id # new.id /\ PanesOf(new) \cap PanesOf(s.tabs[l]) = {}
      BY DEF Tree, Tabs
    <3>2. CASE j = i
      BY <3>1, <3>2, <2>2, <1>2
    <3>3. CASE k = i
      BY <3>1, <3>3, <2>2, <1>2
    <3>4. CASE j # i /\ k # i
      BY <3>4, <2>2, <1>2 DEF Tree, Tabs
    <3> QED BY <3>2, <3>3, <3>4
  <2> QED BY <1>3, <2>1, <2>2 DEF Tabs
<1>5. \E j \in DOMAIN tabs : tabs[j].id = s.active
  BY <1>2 DEF Tree, TabIds
<1>6. Leaves(Changed(s, s.active, tabs)) = Leaves(s) \cup LeavesOf(new)
  <2>1. \A p : (\E j \in DOMAIN tabs : p \in LeavesOf(tabs[j])) <=>
               \/ p \in LeavesOf(new)
               \/ \E j \in DOMAIN s.tabs : p \in LeavesOf(s.tabs[j])
    BY <1>2
  <2>2. Leaves(Changed(s, s.active, tabs)) = UNION {LeavesOf(tabs[j]) : j \in DOMAIN tabs}
    BY LeavesByTab
  <2>3. Leaves(s) = UNION {LeavesOf(s.tabs[j]) : j \in DOMAIN s.tabs}
    BY DEF Leaves
  <2> QED BY <2>1, <2>2, <2>3
<1> QED BY <1>4, <1>5, <1>6, ChangedFollows DEF tabs

\* No pane of the tree has the name of the container of a new split.
LEMMA ContainerIsNew ==
  ASSUME NEW s, Tree(s), NEW p, IsName(p), NEW n, PaneNumber(n) \notin Panes(s)
  PROVE  ContainerOf(p, PaneNumber(n)) \notin Panes(s)
<1> DEFINE box == ContainerOf(p, PaneNumber(n))
<1>1. box[1] = "split" /\ Newest(box) = PaneNumber(n)
  BY ContainerName
<1> HIDE DEF box
<1>2. ASSUME NEW i \in DOMAIN s.tabs, box \in PanesOf(s.tabs[i]) PROVE FALSE
  <2>1. IsTab(s.tabs[i])
    BY DEF Tree, Tabs
  <2>2. Named(s.tabs[i], box)
    BY <1>2, <2>1 DEF IsTab
  <2>3. \A m : PaneNumber(m)[1] = "pane"
    BY PairIsName DEF PaneNumber
  <2>4. FirstPaneOf(s.tabs[i].id)[1] # "split"
    BY <2>1, FirstPaneName DEF IsTab, Ordinary
  <2>5. PaneNumber(n) \in PanesOf(s.tabs[i])
    BY <1>1, <2>2, <2>3, <2>4 DEF Named
  <2> QED BY <2>5 DEF Panes
<1> QED BY <1>2 DEF Panes, box

LEMMA SplitPaneFollows ==
  ASSUME NEW s, Tree(s), NEW p, NEW n
  PROVE  LET t == SplitPane(s, p, PaneNumber(n))
         IN  /\ Follows(s, t)
             /\ t # s => Leaves(t) = Leaves(s) \cup {PaneNumber(n)}
<1> DEFINE new     == PaneNumber(n)
           refused == \/ new \in Panes(s)
                      \/ s.active \notin TabIds(s)
                      \/ p \notin LeavesOf(ActiveTab(s))
                      \/ ActiveTab(s).size[p] < 2
<1>1. CASE refused
  BY <1>1 DEF SplitPane, Follows
<1>2. CASE ~refused
  <2> DEFINE i      == IndexOf(s, s.active)
             tab    == s.tabs[i]
             box    == ContainerOf(p, new)
             half   == tab.size[p] \div 2
             at     == LeafIndex(tab, p) + 1
             leaves == InsertAt(tab.leaves, at, new)
             size   == With(With(With(tab.size, box, tab.size[p]), new, tab.size[p] - half),
                            p, half)
             split  == [id     |-> tab.id,
                        active |-> new,
                        root   |-> IF tab.root = p THEN box ELSE tab.root,
                        leaves |-> leaves,
                        size   |-> size]
  <2>1. SplitPane(s, p, new) = Changed(s, s.active, [s.tabs EXCEPT ![i] = split])
    BY <1>2, Zenon DEF SplitPane
  <2>2. i \in DOMAIN s.tabs /\ ActiveTab(s) = tab /\ IsTab(tab)
    BY <1>2, TabIndex DEF ActiveTab
  <2> HIDE DEF i, tab
  <2>3. p \in LeavesOf(tab) /\ p \in PanesOf(tab) /\ IsName(p)
    BY <1>2, <2>2, LeavesArePanes DEF IsTab
  <2>4. /\ new \notin PanesOf(tab) /\ box \notin PanesOf(tab)
        /\ \A j \in DOMAIN s.tabs : new \notin PanesOf(s.tabs[j]) /\ box \notin PanesOf(s.tabs[j])
    BY <1>2, <2>2, <2>3, ContainerIsNew DEF Panes, tab
  <2>5. IsName(new) /\ IsName(box) /\ box[1] = "split" /\ Newest(box) = new
    BY <2>3, ContainerName, PairIsName DEF PaneNumber
  <2> HIDE DEF new, box
  <2>6. tab.size[p] \in Nat /\ half \in Nat /\ tab.size[p] - half \in Nat
    BY <2>2, <2>3 DEF IsTab
  <2> HIDE DEF half
  <2>7. size \in [PanesOf(tab) \cup {new, box} -> Nat]
    BY <2>2, <2>3, <2>6 DEF IsTab, With, PanesOf
  <2> HIDE DEF size
  <2>22. /\ split = [id |-> split.id, active |-> split.active, root |-> split.root,
                      leaves |-> split.leaves, size |-> split.size]
         /\ split.id = tab.id /\ split.active = new /\ split.leaves = leaves
         /\ split.size = size
         /\ split.root = IF tab.root = p THEN box ELSE tab.root
    OBVIOUS
  <2> HIDE DEF split
  <2>8. PanesOf(split) = PanesOf(tab) \cup {new, box}
    BY <2>7, <2>22 DEF PanesOf
  <2>9. IsFiniteSet(PanesOf(split))
    <3>1. IsFiniteSet(PanesOf(tab)) /\ IsFiniteSet({new}) /\ IsFiniteSet({box})
      BY <2>2, FS_Singleton DEF IsTab
    <3>2. IsFiniteSet(PanesOf(tab) \cup {new})
      BY <3>1, FS_Union
    <3>3. IsFiniteSet((PanesOf(tab) \cup {new}) \cup {box})
      BY <3>1, <3>2, FS_Union
    <3>4. PanesOf(split) = (PanesOf(tab) \cup {new}) \cup {box}
      BY <2>8
    <3> QED BY <3>3, <3>4
  <2>10. /\ tab.leaves \in Seq(PanesOf(split))
         /\ DOMAIN tab.leaves = 1..Len(tab.leaves) /\ Len(tab.leaves) \in Nat
    BY <2>2, <2>8, SeqMonotonic DEF IsTab
  <2>11. at \in 2..(Len(tab.leaves) + 1)
    BY <2>3, <2>10 DEF LeafIndex, LeavesOf, Range
  <2> HIDE DEF at
  <2>12. /\ leaves \in Seq(PanesOf(split)) /\ Len(leaves) = Len(tab.leaves) + 1
         /\ \A j \in 1..(Len(tab.leaves) + 1) :
              leaves[j] = IF j < at THEN tab.leaves[j]
                          ELSE IF j = at THEN new ELSE tab.leaves[j - 1]
    <3>1. new \in PanesOf(split) /\ at \in 1..(Len(tab.leaves) + 1)
      BY <2>8, <2>11
    <3> DEFINE S == PanesOf(split)
               seq == tab.leaves
    <3>2. seq \in Seq(S) /\ at \in 1..(Len(seq) + 1) /\ new \in S
      BY <2>10, <3>1
    <3> HIDE DEF S, seq
    <3>3. /\ InsertAt(seq, at, new) \in Seq(S) /\ Len(InsertAt(seq, at, new)) = Len(seq) + 1
          /\ \A j \in 1..(Len(seq) + 1) :
               InsertAt(seq, at, new)[j] =
                 IF j < at THEN seq[j] ELSE IF j = at THEN new ELSE seq[j - 1]
      BY <3>2, InsertAtElements
    <3> QED BY <3>3 DEF S, seq
  <2> HIDE DEF leaves
  <2>13. DOMAIN leaves = 1..(Len(tab.leaves) + 1)
    BY <2>12
  <2>14. \A j \in DOMAIN tab.leaves : tab.leaves[j] # new
    BY <2>2, <2>4, LeavesArePanes DEF LeavesOf, Range
  <2>15. IsInjective(leaves)
    <3>1. \A j, k \in DOMAIN tab.leaves : tab.leaves[j] = tab.leaves[k] => j = k
      BY <2>2 DEF IsTab, IsInjective
    <3>2. \A j \in DOMAIN leaves :
            /\ j < at => j \in DOMAIN tab.leaves /\ leaves[j] = tab.leaves[j]
            /\ j > at => j - 1 \in DOMAIN tab.leaves /\ leaves[j] = tab.leaves[j - 1]
      BY <2>10, <2>11, <2>12, <2>13
    <3>3. \A j \in DOMAIN leaves : leaves[j] = new <=> j = at
      BY <3>2, <2>10, <2>11, <2>12, <2>13, <2>14
    <3>4. ASSUME NEW j \in DOMAIN leaves, NEW k \in DOMAIN leaves, leaves[j] = leaves[k]
          PROVE  j = k
      <4>1. CASE j = at \/ k = at
        BY <3>3, <3>4, <4>1
      <4>2. CASE j < at /\ k < at
        BY <3>1, <3>2, <3>4, <4>2
      <4>3. CASE j > at /\ k > at
        <5>1. j - 1 = k - 1
          BY <3>1, <3>2, <3>4, <4>3
        <5> QED BY <5>1, <2>13
      <4>4. CASE j < at /\ k > at
        <5>1. j = k - 1
          BY <3>1, <3>2, <3>4, <4>4
        <5> QED BY <5>1, <4>4, <2>11, <2>13
      <4>5. CASE j > at /\ k < at
        <5>1. j - 1 = k
          BY <3>1, <3>2, <3>4, <4>5
        <5> QED BY <5>1, <4>5, <2>11, <2>13
      <4> QED BY <4>1, <4>2, <4>3, <4>4, <4>5, <2>11, <2>13
    <3> QED BY <3>4 DEF IsInjective
  <2>16. LeavesOf(split) = LeavesOf(tab) \cup {new}
    <3>1. \A j \in DOMAIN leaves : leaves[j] = new \/ \E k \in DOMAIN tab.leaves : leaves[j] = tab.leaves[k]
      <4> TAKE j \in DOMAIN leaves
      <4>1. CASE j < at
        BY <4>1, <2>10, <2>11, <2>12, <2>13
      <4>2. CASE j = at
        BY <4>2, <2>12, <2>13
      <4>3. CASE j > at
        <5>1. j - 1 \in DOMAIN tab.leaves /\ leaves[j] = tab.leaves[j - 1]
          BY <4>3, <2>10, <2>11, <2>12, <2>13
        <5> QED BY <5>1
      <4> QED BY <4>1, <4>2, <4>3, <2>11, <2>13
    <3>2. ASSUME NEW k \in DOMAIN tab.leaves PROVE \E j \in DOMAIN leaves : leaves[j] = tab.leaves[k]
      <4>1. CASE k < at
        BY <4>1, <2>10, <2>12, <2>13
      <4>2. CASE ~(k < at)
        <5>1. k + 1 \in DOMAIN leaves /\ ~(k + 1 < at) /\ k + 1 # at /\ (k + 1) - 1 = k
          BY <4>2, <2>10, <2>11, <2>13
        <5> QED BY <5>1, <2>12, <2>13
      <4> QED BY <4>1, <4>2
    <3>3. leaves[at] = new /\ at \in DOMAIN leaves
      BY <2>10, <2>11, <2>12, <2>13
    <3> QED BY <2>22, <3>1, <3>2, <3>3 DEF LeavesOf, Range
  <2>17. \A q \in PanesOf(split) : IsName(q) /\ Named(split, q)
    <3>1. \A q \in PanesOf(tab) : IsName(q) /\ Named(split, q)
      BY <2>2, <2>8, <2>22 DEF IsTab, Named
    <3>2. Named(split, new)
      BY DEF Named, new
    <3>3. Named(split, box)
      BY <2>5, <2>8 DEF Named
    <3> QED BY <3>1, <3>2, <3>3, <2>5, <2>8
  <2>18. IsTab(split)
    <3>1. split.root \in PanesOf(split) /\ Ordinary(split.id)
      BY <2>2, <2>8, <2>22 DEF IsTab
    <3>2. split.active \in LeavesOf(split)
      BY <2>16, <2>22
    <3>3. split.size \in [PanesOf(split) -> Nat]
      BY <2>7, <2>8, <2>22
    <3> QED BY <3>1, <3>2, <3>3, <2>9, <2>12, <2>15, <2>17, <2>22 DEF IsTab
  <2>19. /\ split.id = s.tabs[i].id
         /\ LeavesOf(s.tabs[i]) \subseteq LeavesOf(split)
         /\ \A j \in DOMAIN s.tabs \ {i} : PanesOf(split) \cap PanesOf(s.tabs[j]) = {}
    <3>1. \A j \in DOMAIN s.tabs \ {i} : PanesOf(tab) \cap PanesOf(s.tabs[j]) = {}
      BY <2>2 DEF Tree, Tabs, tab
    <3>2. split.id = s.tabs[i].id
      BY <2>22 DEF tab
    <3> QED BY <3>1, <3>2, <2>4, <2>8, <2>16 DEF tab
  <2>20. LET t == SplitPane(s, p, new)
         IN  Follows(s, t) /\ Leaves(t) = Leaves(s) \cup LeavesOf(split)
    BY <2>1, <2>2, <2>18, <2>19, ReplacedTabFollows
  <2>21. LeavesOf(tab) \subseteq Leaves(s)
    BY <2>2 DEF Leaves, tab
  <2> QED BY <2>16, <2>20, <2>21 DEF new
<1> QED BY <1>1, <1>2

LEMMA ResizePaneFollows ==
  ASSUME NEW s, Tree(s), NEW p, NEW size \in Nat
  PROVE  /\ Follows(s, ResizePane(s, p, size))
         /\ Leaves(ResizePane(s, p, size)) = Leaves(s)
<1> DEFINE i   == HolderOf(s, p)
           tab == s.tabs[i]
           new == Resized(tab, p, size)
<1>1. CASE p \notin Panes(s) \/ tab.size[p] = size
  BY <1>1 DEF ResizePane, Follows
<1>2. CASE ~(p \notin Panes(s) \/ tab.size[p] = size)
  <2>1. ResizePane(s, p, size) = Changed(s, s.active, [s.tabs EXCEPT ![i] = new])
    BY <1>2, Zenon DEF ResizePane
  <2>2. i \in DOMAIN s.tabs /\ p \in PanesOf(tab)
    BY <1>2 DEF HolderOf, Panes
  <2>3. IsTab(tab)
    BY <2>2 DEF Tree, Tabs
  <2> HIDE DEF i
  <2>4. /\ new.id = tab.id /\ new.active = tab.active /\ new.root = tab.root
        /\ new.leaves = tab.leaves
        /\ new.size = With(tab.size, p, size)
        /\ new = [id |-> new.id, active |-> new.active, root |-> new.root,
                  leaves |-> new.leaves, size |-> new.size]
    BY <2>3 DEF IsTab, Resized
  <2> HIDE DEF new
  <2>5. new.size \in [PanesOf(tab) -> Nat] /\ PanesOf(new) = PanesOf(tab)
        /\ LeavesOf(new) = LeavesOf(tab)
    BY <2>2, <2>3, <2>4 DEF IsTab, PanesOf, LeavesOf, With
  <2>6. \A q \in PanesOf(new) : IsName(q) /\ Named(new, q)
    BY <2>3, <2>4, <2>5 DEF IsTab, Named
  <2>7. IsTab(new)
    BY <2>3, <2>4, <2>5, <2>6 DEF IsTab
  <2>8. \A j \in DOMAIN s.tabs \ {i} : PanesOf(new) \cap PanesOf(s.tabs[j]) = {}
    BY <2>2, <2>5 DEF Tree, Tabs
  <2>9. /\ Follows(s, ResizePane(s, p, size))
        /\ Leaves(ResizePane(s, p, size)) = Leaves(s) \cup LeavesOf(new)
    BY <2>1, <2>2, <2>4, <2>5, <2>7, <2>8, ReplacedTabFollows
  <2>10. LeavesOf(tab) \subseteq Leaves(s)
    BY <2>2 DEF Leaves
  <2> QED BY <2>5, <2>9, <2>10
<1> QED BY <1>1, <1>2
-----------------------------------------------------------------------------
(* Events *)

\* The events commands give to an actor.
Event(e) ==
  \/ \E tab : Ordinary(tab) /\ e = [kind |-> "AddTab", tab |-> tab, pane |-> FirstPaneOf(tab)]
  \/ \E tab : e = [kind |-> "SwitchTab", tab |-> tab]
  \/ \E tab : e = [kind |-> "CloseTab", tab |-> tab]
  \/ \E p, n : e = [kind |-> "SplitPane", pane |-> p, new |-> PaneNumber(n)]
  \/ \E p : \E size \in Nat : e = [kind |-> "CommitPaneResize", pane |-> p, size |-> size]
  \/ e = [kind |-> "RequestSessionShutdown"]

LEMMA ApplyIs ==
  ASSUME NEW s
  PROVE  /\ \A tab, pane : Apply(s, [kind |-> "AddTab", tab |-> tab, pane |-> pane])
                            = AddTab(s, tab, pane)
         /\ \A tab : Apply(s, [kind |-> "SwitchTab", tab |-> tab]) = SwitchTab(s, tab)
         /\ \A tab : Apply(s, [kind |-> "CloseTab", tab |-> tab]) = CloseTab(s, tab)
         /\ \A p, new : Apply(s, [kind |-> "SplitPane", pane |-> p, new |-> new])
                         = SplitPane(s, p, new)
         /\ \A p, size : Apply(s, [kind |-> "CommitPaneResize", pane |-> p, size |-> size])
                          = ResizePane(s, p, size)
         /\ Apply(s, [kind |-> "RequestSessionShutdown"]) = s
BY DEF Apply

\* Whatever event an actor accepts, a tree stays one, and a new one is newer.
LEMMA ApplyFollows ==
  ASSUME NEW s, Tree(s), NEW e, Event(e)
  PROVE  Follows(s, Apply(s, e))
<1>1. ASSUME NEW tab, Ordinary(tab),
             e = [kind |-> "AddTab", tab |-> tab, pane |-> FirstPaneOf(tab)]
      PROVE  Follows(s, Apply(s, e))
  BY <1>1, ApplyIs, AddTabFollows
<1>2. ASSUME NEW tab, e = [kind |-> "SwitchTab", tab |-> tab] PROVE Follows(s, Apply(s, e))
  BY <1>2, ApplyIs, SwitchTabFollows
<1>3. ASSUME NEW tab, e = [kind |-> "CloseTab", tab |-> tab] PROVE Follows(s, Apply(s, e))
  <2>1. Apply(s, e) = CloseTab(s, tab)
    BY <1>3, ApplyIs
  <2>2. Follows(s, CloseTab(s, tab))
    BY CloseTabFollows
  <2> QED BY <2>1, <2>2
<1>4. ASSUME NEW p, NEW n, e = [kind |-> "SplitPane", pane |-> p, new |-> PaneNumber(n)]
      PROVE  Follows(s, Apply(s, e))
  BY <1>4, ApplyIs, SplitPaneFollows
<1>5. ASSUME NEW p, NEW size \in Nat, e = [kind |-> "CommitPaneResize", pane |-> p, size |-> size]
      PROVE  Follows(s, Apply(s, e))
  BY <1>5, ApplyIs, ResizePaneFollows
<1>6. ASSUME e = [kind |-> "RequestSessionShutdown"] PROVE Follows(s, Apply(s, e))
  BY <1>6, ApplyIs DEF Follows
<1> QED BY <1>1, <1>2, <1>3, <1>4, <1>5, <1>6 DEF Event

-----------------------------------------------------------------------------
(* New names *)

LEMMA FinitelyManyPanes ==
  ASSUME NEW s, Tree(s)
  PROVE  IsFiniteSet(Panes(s))
<1> DEFINE n == Len(s.tabs)
           T == {PanesOf(s.tabs[i]) : i \in 1..n}
           f == [i \in 1..n |-> PanesOf(s.tabs[i])]
<1>1. n \in Nat /\ DOMAIN s.tabs = 1..n
  BY DEF Tree, Tabs
<1>2. \A i \in 1..n : IsFiniteSet(PanesOf(s.tabs[i]))
  BY <1>1 DEF Tree, Tabs, IsTab
<1>3. Panes(s) = UNION T
  BY <1>1 DEF Panes
<1> HIDE DEF n
<1>4. \A t \in T : IsFiniteSet(t)
  BY <1>2
<1>5. IsFiniteSet(1..n)
  BY <1>1, FS_Interval
<1>6. f \in Surjection(1..n, T)
  BY DEF Surjection
<1> HIDE DEF f, T
<1>7. IsFiniteSet(T)
  BY <1>5, <1>6, FS_Surjection
<1> QED BY <1>3, <1>4, <1>7, FS_UNION

\* next_pane_id finds a name no pane has.
LEMMA NextPaneIsNew ==
  ASSUME NEW s, Tree(s)
  PROVE  \E n \in Nat : NextPane(s) = PaneNumber(n) /\ PaneNumber(n) \notin Panes(s)
<1> DEFINE k == Cardinality(Panes(s))
           free == {n \in 1..(k + 1) : PaneNumber(n) \notin Panes(s)}
<1>1. k \in Nat
  BY FinitelyManyPanes, FS_CardinalityType
<1>2. free # {}
  <2> SUFFICES ASSUME \A n \in 1..(k + 1) : PaneNumber(n) \in Panes(s) PROVE FALSE
    OBVIOUS
  <2> DEFINE f == [n \in 1..(k + 1) |-> PaneNumber(n)]
  <2>1. f \in [1..(k + 1) -> Panes(s)]
    OBVIOUS
  <2>2. \A m, n \in 1..(k + 1) : f[m] = f[n] => m = n
    BY DEF PaneNumber
  <2> HIDE DEF f, k
  <2>3. f \in Injection(1..(k + 1), Panes(s))
    BY <2>1, <2>2 DEF Injection, IsInjective
  <2>4. Cardinality(1..(k + 1)) <= Cardinality(Panes(s))
    BY <2>3, FinitelyManyPanes, FS_Injection
  <2>5. Cardinality(1..(k + 1)) = k + 1
    BY <1>1, FS_Interval
  <2> QED BY <1>1, <2>4, <2>5 DEF k
<1>3. \E n \in free : \A m \in free : n <= m
  <2>1. free \subseteq Nat
    BY <1>1
  <2> HIDE DEF free
  <2>2. PICK n \in free : \A m \in free : ~(<<m, n>> \in OpToRel(<, Nat))
    BY <1>2, <2>1, NatLessThanWellFounded, WFMin, Zenon
  <2>3. \A m \in free : n <= m
    <3>1. OpToRel(<, Nat) = {r \in Nat \X Nat : r[1] < r[2]}
      BY Zenon DEF OpToRel
    <3>2. \A m \in free : ~(m < n)
      BY <2>1, <2>2, <3>1
    <3> QED BY <2>1, <3>2
  <2> QED BY <2>3
<1>4. Smallest(free) \in free
  BY <1>3 DEF Smallest
<1> QED BY <1>1, <1>4 DEF NextPane
\* The first pane of a new tab has a name no pane has.
LEMMA FirstPaneIsNew ==
  ASSUME NEW s, Tree(s), NEW tab, Ordinary(tab), tab \notin TabIds(s)
  PROVE  FirstPaneOf(tab) \notin Panes(s)
<1> DEFINE pane == FirstPaneOf(tab)
<1>1. pane[1] # "split" /\ \A n : pane # PaneNumber(n)
  BY FirstPaneName, FirstPaneIsNoNumber DEF Ordinary
<1>2. ASSUME NEW i \in DOMAIN s.tabs, pane \in PanesOf(s.tabs[i]) PROVE FALSE
  <2>1. IsTab(s.tabs[i])
    BY DEF Tree, Tabs
  <2>2. pane = FirstPaneOf(s.tabs[i].id)
    BY <1>1, <1>2, <2>1 DEF IsTab, Named
  <2>3. tab = s.tabs[i].id
    BY <2>1, <2>2, FirstPanesDiffer DEF IsTab, Ordinary
  <2> QED BY <2>3 DEF TabIds
<1> QED BY <1>2 DEF Panes

-----------------------------------------------------------------------------
(* How a step changes the trees: whatever else a command does, it does one *)
(* of these things to the sessions.                                        *)

NoTree == UNCHANGED <<registry, replicas, bypassed>>
OneEvent(s, e) == Event(e) /\ Accept(s, e) /\ bypassed' = bypassed
TwoEvents(s, e, f) ==
  Event(e) /\ Event(f) /\ AcceptBoth(s, e, f) /\ bypassed' = bypassed
NewTree(s) ==
  /\ registry' = With(registry, s, InitialSession)
  /\ replicas' = With(replicas, s, InitialSession)
  /\ bypassed' = bypassed
SwitchedAround(s, shown) ==
  /\ shown = registry[s] \/ \E tab : shown = SwitchTab(registry[s], tab)
  /\ registry' = [registry EXCEPT ![s] = shown]
  /\ replicas' = replicas
  /\ bypassed' = IF shown # registry[s] THEN bypassed \cup {s} ELSE bypassed

TreeStep ==
  \/ NoTree
  \/ \E s \in DOMAIN registry : \E e : OneEvent(s, e)
  \/ \E s \in DOMAIN registry : \E e, f : TwoEvents(s, e, f)
  \/ \E s \in SessionIds \ DOMAIN registry : NewTree(s)
  \/ \E s \in DOMAIN registry : \E shown : SwitchedAround(s, shown)

LEMMA TabNamesAreOrdinary == \A name \in TabNames : Ordinary(name)
<1> SUFFICES ASSUME NEW name \in TabNames PROVE Ordinary(name)
  OBVIOUS
<1>1. /\ Len(name) \in Nat \ {0} /\ name = [i \in 1..Len(name) |-> name[i]]
      /\ name[1] # "split"
  BY TabNamesAssumption
<1>2. name \in [1..Len(name) -> Range(name)]
  BY <1>1 DEF Range
<1>3. name \in Seq(Range(name))
  BY <1>1, <1>2, SeqDef
<1> QED BY <1>1, <1>3 DEF Ordinary, IsName

LEMMA EveryStepIsATreeStep ==
  ASSUME Default \in DOMAIN registry, [Next]_vars
  PROVE  TreeStep
<1>1. CASE UNCHANGED vars
  BY <1>1 DEF vars, TreeStep, NoTree
<1>2. ASSUME NEW named \in Names, UnknownSession(named) PROVE TreeStep
  BY <1>2 DEF UnknownSession, Refuse, TreeStep, NoTree
<1>3. ASSUME NEW named \in Names, SessionNew(named) PROVE TreeStep
  BY <1>3 DEF SessionNew, Refuse, TreeStep, NoTree, NewTree
<1>4. ASSUME NEW named \in Names, SessionKill(named) PROVE TreeStep
  BY <1>4 DEF SessionKill, Refuse, TreeStep, NoTree, OneEvent, Event
<1>5. ASSUME NEW named \in Names, NEW target, PaneSplit(named, target) PROVE TreeStep
  BY <1>5 DEF PaneSplit, Routed, Refuse, RefuseStart, TreeStep, NoTree, OneEvent, Event,
              NextPane
<1>6. ASSUME NEW named \in Names, NEW name \in TabNames \cup {NoName}, TabNew(named, name)
      PROVE  TreeStep
  <2> DEFINE s   == Served(named)
             tab == IF name = NoName THEN NextTab(registry[s]) ELSE name
             e   == [kind |-> "AddTab", tab |-> tab, pane |-> FirstPaneOf(tab)]
             f   == [kind |-> "SwitchTab", tab |-> tab]
  <2>1. s \in DOMAIN registry
    BY <1>6 DEF TabNew, Routed
  <2>2. NoTree \/ (AcceptBoth(s, e, f) /\ bypassed' = bypassed)
    BY <1>6, Zenon DEF TabNew, Refuse, RefuseStart, NoTree
  <2>3. Ordinary(tab)
    BY TabNamesAreOrdinary, PairIsName DEF NextTab, TabNumber, Ordinary, IsName
  <2>4. Event(e) /\ Event(f)
    BY <2>3, Zenon DEF Event
  <2> QED BY <2>1, <2>2, <2>4, Zenon DEF TreeStep, TwoEvents
<1>7. ASSUME NEW named \in Names, NEW name, TabClose(named, name) PROVE TreeStep
  BY <1>7 DEF TabClose, Routed, Refuse, TreeStep, NoTree, OneEvent, Event
<1>8. ASSUME NEW named \in Names, NEW tab, TabSwitch(named, tab) PROVE TreeStep
  BY <1>8 DEF TabSwitch, Routed, Refuse, TreeStep, NoTree, OneEvent, Event
<1>9. ASSUME NEW named \in Names, NEW target, Attach(named, target) PROVE TreeStep
  <2>1. CASE NoTree
    BY <2>1 DEF TreeStep
  <2>2. CASE ~NoTree
    <3> DEFINE s == Served(named)
    <3>1. PICK shown : SwitchedAround(s, shown)
      BY <1>9, <2>2 DEF Attach, Refuse, NoTree, SwitchedAround
    <3> QED BY <1>9, <3>1, Zenon DEF Attach, Routed, TreeStep
  <2> QED BY <2>1, <2>2
<1>10. CASE HealthProbe
  BY <1>10 DEF HealthProbe, TreeStep, NoTree
<1>11. ASSUME NEW p, NEW size \in Sizes, Resize(p, size) PROVE TreeStep
  <2> DEFINE e == [kind |-> "CommitPaneResize", pane |-> p, size |-> size]
  <2>1. NoTree \/ (Accept(Default, e) /\ bypassed' = bypassed)
    BY <1>11, Zenon DEF Resize, NoTree
  <2>2. Event(e)
    BY SizesAssumption, Zenon DEF Event
  <2> QED BY <2>1, <2>2, Zenon DEF TreeStep, OneEvent
<1>12. ASSUME NEW k \in DOMAIN processes, ProcessExits(k) PROVE TreeStep
  BY <1>12 DEF ProcessExits, TreeStep, NoTree
<1> QED
  BY <1>1, <1>2, <1>3, <1>4, <1>5, <1>6, <1>7, <1>8, <1>9, <1>10, <1>11, <1>12 DEF Next
-----------------------------------------------------------------------------
(* What the trace replays to *)

\* Actors and traces belong to the same sessions, the default one among them.
SameSessions ==
  /\ DOMAIN registry = DOMAIN replicas
  /\ Default \in DOMAIN registry

TraceInv == SameSessions /\ TraceReplays

\* Whatever happens to the daemon, replaying a trace rebuilds the tree its actor
\* serves, unless a client that attached to a tab switched to it.
THEOREM TraceAlwaysReplays == Spec => []TraceReplays
<1>1. Init => TraceInv
  BY DEF Init, TraceInv, SameSessions, TraceReplays
<1>2. TraceInv /\ [Next]_vars => TraceInv'
  <2> SUFFICES ASSUME TraceInv, [Next]_vars PROVE TraceInv'
    OBVIOUS
  <2>1. TreeStep
    BY EveryStepIsATreeStep DEF TraceInv, SameSessions
  <2>2. CASE NoTree
    BY <2>2 DEF NoTree, TraceInv, SameSessions, TraceReplays
  <2>3. ASSUME NEW s \in DOMAIN registry, NEW e, OneEvent(s, e) PROVE TraceInv'
    BY <2>3 DEF OneEvent, Accept, TraceInv, SameSessions, TraceReplays
  <2>4. ASSUME NEW s \in DOMAIN registry, NEW e, NEW f, TwoEvents(s, e, f) PROVE TraceInv'
    BY <2>4 DEF TwoEvents, AcceptBoth, TraceInv, SameSessions, TraceReplays
  <2>5. ASSUME NEW s \in SessionIds \ DOMAIN registry, NewTree(s) PROVE TraceInv'
    BY <2>5 DEF NewTree, With, TraceInv, SameSessions, TraceReplays
  <2>6. ASSUME NEW s \in DOMAIN registry, NEW shown, SwitchedAround(s, shown) PROVE TraceInv'
    BY <2>6 DEF SwitchedAround, TraceInv, SameSessions, TraceReplays
  <2> QED BY <2>1, <2>2, <2>3, <2>4, <2>5, <2>6 DEF TreeStep
<1> QED BY <1>1, <1>2, PTL DEF Spec, TraceInv
-----------------------------------------------------------------------------
(* Trees and their versions *)

TreesInv ==
  /\ Default \in DOMAIN registry
  /\ DOMAIN registry \subseteq SessionIds
  /\ \A s \in DOMAIN registry : Tree(registry[s])

LEMMA TreesInvStart == Init => TreesInv
BY InitialIsTree, DefaultAssumption DEF Init, TreesInv

\* What a step does to one tree.
LEMMA TreesFollow ==
  ASSUME TreesInv, [Next]_vars
  PROVE  /\ TreesInv'
         /\ \A s \in DOMAIN registry :
              /\ s \in DOMAIN registry'
              /\ \/ Follows(registry[s], registry'[s])
                 \/ \E t : Follows(registry[s], t) /\ Follows(t, registry'[s])
<1>1. TreeStep
  BY EveryStepIsATreeStep DEF TreesInv
<1>2. \A s \in DOMAIN registry : Follows(registry[s], registry[s])
  BY DEF TreesInv, Follows
<1>3. \A s, t : Follows(s, t) => Tree(t)
  BY DEF Follows
<1>4. CASE NoTree
  BY <1>2, <1>4 DEF NoTree, TreesInv
<1>5. ASSUME NEW s \in DOMAIN registry, NEW e, OneEvent(s, e)
      PROVE  /\ TreesInv'
             /\ \A u \in DOMAIN registry :
                  u \in DOMAIN registry' /\ Follows(registry[u], registry'[u])
  <2>1. Follows(registry[s], Apply(registry[s], e))
    BY <1>5, ApplyFollows DEF OneEvent, TreesInv
  <2> QED BY <1>2, <1>3, <1>5, <2>1 DEF OneEvent, Accept, TreesInv
<1>6. ASSUME NEW s \in DOMAIN registry, NEW e, NEW f, TwoEvents(s, e, f)
      PROVE  /\ TreesInv'
             /\ \A u \in DOMAIN registry :
                  /\ u \in DOMAIN registry'
                  /\ \E t : Follows(registry[u], t) /\ Follows(t, registry'[u])
  <2> DEFINE t == Apply(registry[s], e)
  <2>1. Follows(registry[s], t)
    BY <1>6, ApplyFollows DEF TwoEvents, TreesInv
  <2>2. Follows(t, Apply(t, f))
    BY <1>3, <1>6, <2>1, ApplyFollows DEF TwoEvents
  <2> HIDE DEF t
  <2>3. registry' = [registry EXCEPT ![s] = Apply(t, f)]
    BY <1>6 DEF TwoEvents, AcceptBoth, t
  <2> QED BY <1>2, <1>3, <2>1, <2>2, <2>3 DEF TreesInv
<1>7. ASSUME NEW s \in SessionIds \ DOMAIN registry, NewTree(s)
      PROVE  /\ TreesInv'
             /\ \A u \in DOMAIN registry :
                  u \in DOMAIN registry' /\ Follows(registry[u], registry'[u])
  BY <1>2, <1>7, InitialIsTree DEF NewTree, With, TreesInv
<1>8. ASSUME NEW s \in DOMAIN registry, NEW shown, SwitchedAround(s, shown)
      PROVE  /\ TreesInv'
             /\ \A u \in DOMAIN registry :
                  u \in DOMAIN registry' /\ Follows(registry[u], registry'[u])
  <2>1. Follows(registry[s], shown)
    BY <1>2, <1>8, SwitchTabFollows DEF SwitchedAround, TreesInv
  <2> QED BY <1>2, <1>3, <1>8, <2>1 DEF SwitchedAround, TreesInv
<1> QED BY <1>1, <1>4, <1>5, <1>6, <1>7, <1>8 DEF TreeStep

\* No command, attach or resize, whatever it leaves undone or rolls back, changes
\* a tree without giving it a newer version, or takes a version back.
THEOREM VersionsAlwaysMove == Spec => VersionMovesWithTree
<1>1. TreesInv /\ [Next]_vars => TreesInv'
  BY TreesFollow
<1>2. TreesInv /\ [Next]_vars =>
        [\A s \in DOMAIN registry :
           /\ registry'[s].version >= registry[s].version
           /\ registry'[s] # registry[s] =>
                registry'[s].version > registry[s].version]_vars
  <2> SUFFICES ASSUME TreesInv, [Next]_vars, NEW s \in DOMAIN registry
               PROVE  /\ registry'[s].version >= registry[s].version
                      /\ registry'[s] # registry[s] =>
                           registry'[s].version > registry[s].version
    OBVIOUS
  <2>1. \/ Follows(registry[s], registry'[s])
        \/ \E t : Follows(registry[s], t) /\ Follows(t, registry'[s])
    BY TreesFollow
  <2>2. registry[s].version \in Nat
    BY DEF TreesInv, Tree
  <2> QED BY <2>1, <2>2 DEF Follows, Tree
<1> QED BY <1>1, <1>2, TreesInvStart, PTL DEF Spec, VersionMovesWithTree
-----------------------------------------------------------------------------
(* The host and the trees *)

\* Processes belong to sessions of the registry.
KeysInv ==
  \A k \in DOMAIN processes : k = Key(k[1], k[2]) /\ k[1] \in DOMAIN registry

\* Between steps, processes and leaves of a session match.
MatchedAt(s) ==
  /\ \A p \in Leaves(registry[s]) : Key(s, p) \in DOMAIN processes
  /\ s \notin stopFailed =>
       \A p : Key(s, p) \in DOMAIN processes => p \in Leaves(registry[s])
Matched == daemon = "serving" => \A s \in DOMAIN registry : MatchedAt(s)

HostInv == TreesInv /\ KeysInv /\ Matched

LEMMA MatchedImplies == ASSUME HostInv PROVE HostMatchesTree
<1> SUFFICES ASSUME daemon = "serving", NEW s \in DOMAIN registry
             PROVE  /\ Leaves(registry[s]) \subseteq Hosted(s)
                    /\ s \notin stopFailed => Hosted(s) = Leaves(registry[s])
  BY DEF HostMatchesTree
<1>1. \A p : p \in Hosted(s) <=> Key(s, p) \in DOMAIN processes
  <2>1. ASSUME NEW p, Key(s, p) \in DOMAIN processes PROVE p \in Hosted(s)
    BY <2>1 DEF Hosted, Key
  <2>2. ASSUME NEW p \in Hosted(s) PROVE Key(s, p) \in DOMAIN processes
    BY <2>2 DEF Hosted, HostInv, KeysInv
  <2> QED BY <2>1, <2>2
<1>2. MatchedAt(s)
  BY DEF HostInv, Matched
<1> QED BY <1>1, <1>2 DEF MatchedAt

\* A step that concerns one session.
LEMMA OneSession ==
  ASSUME HostInv, TreesInv', daemon = "serving",
         NEW s \in DOMAIN registry,
         DOMAIN registry' = DOMAIN registry,
         \A u \in DOMAIN registry : u # s => registry'[u] = registry[u],
         \A u \in DOMAIN registry : \A p : u # s =>
           (Key(u, p) \in DOMAIN processes' <=> Key(u, p) \in DOMAIN processes),
         stopFailed \subseteq stopFailed',
         MatchedAt(s)',
         KeysInv'
  PROVE  HostInv'
<1>1. ASSUME NEW u \in DOMAIN registry', u # s PROVE MatchedAt(u)'
  <2>1. MatchedAt(u)
    BY DEF HostInv, Matched
  <2>2. /\ \A p \in Leaves(registry[u]) : Key(u, p) \in DOMAIN processes'
        /\ u \notin stopFailed' =>
             \A p : Key(u, p) \in DOMAIN processes' => p \in Leaves(registry[u])
    BY <1>1, <2>1 DEF MatchedAt
  <2>3. registry'[u] = registry[u]
    BY <1>1
  <2> QED BY <2>2, <2>3 DEF MatchedAt
<1> QED BY <1>1 DEF HostInv, Matched

LEMMA SameKeys ==
  ASSUME KeysInv, DOMAIN processes' \subseteq DOMAIN processes,
         DOMAIN registry \subseteq DOMAIN registry'
  PROVE  KeysInv'
BY DEF KeysInv

\* A step that changes neither leaves nor which processes there are.
LEMMA SameLeaves ==
  ASSUME HostInv, TreesInv',
         daemon' = "serving" => daemon = "serving",
         DOMAIN registry' = DOMAIN registry,
         \A u \in DOMAIN registry : Leaves(registry'[u]) = Leaves(registry[u]),
         DOMAIN processes' = DOMAIN processes,
         stopFailed' = stopFailed
  PROVE  HostInv'
<1>1. KeysInv'
  BY SameKeys DEF HostInv
<1>2. ASSUME daemon' = "serving", NEW u \in DOMAIN registry' PROVE MatchedAt(u)'
  <2>1. MatchedAt(u)
    BY <1>2 DEF HostInv, Matched
  <2> QED BY <1>2, <2>1 DEF MatchedAt
<1> QED BY <1>1, <1>2 DEF HostInv, Matched

LEMMA HostStart == Init => HostInv
<1> SUFFICES ASSUME Init PROVE HostInv
  OBVIOUS
<1>1. TreesInv
  BY TreesInvStart
<1>2. DOMAIN processes = {Key(Default, PaneNumber(1))}
  BY DEF Init
<1>3. DOMAIN registry = {Default} /\ registry[Default] = InitialSession
  BY DEF Init
<1>4. KeysInv
  BY <1>2, <1>3 DEF KeysInv, Key
<1>5. MatchedAt(Default)
  BY <1>2, <1>3, InitialIsTree DEF MatchedAt, Key
<1> QED BY <1>1, <1>3, <1>4, <1>5 DEF HostInv, Matched

LEMMA PaneSplitKeeps ==
  ASSUME HostInv, TreesInv', NEW named \in Names, NEW target, PaneSplit(named, target)
  PROVE  HostInv'
<1>0. PICK s \in DOMAIN registry : s = Served(named)
  BY DEF PaneSplit, Routed, Refuse
<1> DEFINE session == registry[s]
           pane    == IF target = NoName THEN ActiveTab(session).active ELSE target
           new     == NextPane(session)
           event   == [kind |-> "SplitPane", pane |-> pane, new |-> new]
           split   == Apply(session, event)
<1>1. daemon = "serving" /\ daemon' = daemon
  BY DEF PaneSplit, Routed, Refuse, RefuseStart
<1>2. CASE UNCHANGED <<registry, processes, stopFailed>>
  BY <1>1, <1>2, SameLeaves
<1>3. CASE ~UNCHANGED <<registry, processes, stopFailed>>
  <2>1. /\ Accept(s, event) /\ stopFailed' = stopFailed
        /\ processes' = StartedOrRolledBack(Key(s, new), split # session)
    BY <1>0, <1>3, Zenon DEF PaneSplit, Refuse, RefuseStart
  <2>2. registry' = [registry EXCEPT ![s] = split]
    BY <2>1 DEF Accept
  <2>3. Tree(session)
    BY <1>1 DEF HostInv, TreesInv
  <2> HIDE DEF session
  <2>4. PICK n \in Nat : new = PaneNumber(n) /\ new \notin Panes(session)
    BY <2>3, NextPaneIsNew
  <2> HIDE DEF new, pane
  <2>5. new \notin Leaves(session)
    BY <2>3, <2>4, TreeLeavesArePanes
  <2>6. split # session => Leaves(split) = Leaves(session) \cup {new}
    BY <2>3, <2>4, ApplyIs, SplitPaneFollows
  <2> HIDE DEF split
  <2>7. MatchedAt(s)
    BY <1>1 DEF HostInv, Matched
  <2>8. DOMAIN processes' = IF split # session THEN DOMAIN processes \cup {Key(s, new)}
                            ELSE DOMAIN processes \ {Key(s, new)}
    BY <2>1 DEF StartedOrRolledBack, With, Without
  <2>9. \A u, p : u # s \/ p # new =>
          (Key(u, p) \in DOMAIN processes' <=> Key(u, p) \in DOMAIN processes)
    BY <2>8 DEF Key
  <2>10. DOMAIN registry' = DOMAIN registry /\ registry'[s] = split
         /\ \A u \in DOMAIN registry : u # s => registry'[u] = registry[u]
    BY <1>1, <2>2
  <2>11. KeysInv'
    <3>1. \A k \in DOMAIN processes' : k \in DOMAIN processes \/ k = Key(s, new)
      BY <2>8
    <3> QED BY <1>1, <2>10, <3>1 DEF HostInv, KeysInv, Key
  <2>12. MatchedAt(s)'
    <3>1. CASE split = session
      BY <3>1, <2>1, <2>5, <2>7, <2>8, <2>9, <2>10 DEF MatchedAt, session
    <3>2. CASE split # session
      BY <3>2, <2>1, <2>6, <2>7, <2>8, <2>9, <2>10 DEF MatchedAt, session
    <3> QED BY <3>1, <3>2
  <2> QED BY <1>1, <2>1, <2>9, <2>10, <2>11, <2>12, OneSession
<1> QED BY <1>2, <1>3
LEMMA TabNewKeeps ==
  ASSUME HostInv, TreesInv', NEW named \in Names, NEW name \in TabNames \cup {NoName},
         TabNew(named, name)
  PROVE  HostInv'
<1>0. PICK s \in DOMAIN registry : s = Served(named)
  BY DEF TabNew, Routed, Refuse
<1> DEFINE session == registry[s]
           tab     == IF name = NoName THEN NextTab(session) ELSE name
           pane    == FirstPaneOf(tab)
           add     == [kind |-> "AddTab", tab |-> tab, pane |-> pane]
           switch  == [kind |-> "SwitchTab", tab |-> tab]
           added   == Apply(session, add)
           after   == Apply(added, switch)
<1>1. daemon = "serving" /\ daemon' = daemon
  BY DEF TabNew, Routed, Refuse, RefuseStart
<1>2. CASE UNCHANGED <<registry, processes, stopFailed>>
  BY <1>1, <1>2, SameLeaves
<1>3. CASE ~UNCHANGED <<registry, processes, stopFailed>>
  <2>1. /\ AcceptBoth(s, add, switch) /\ stopFailed' = stopFailed
        /\ processes' = StartedOrRolledBack(Key(s, pane), added # session)
        /\ tab \notin TabIds(session)
    BY <1>0, <1>3, Zenon DEF TabNew, Refuse, RefuseStart
  <2>2. registry' = [registry EXCEPT ![s] = after]
    BY <2>1 DEF AcceptBoth
  <2>3. Tree(session)
    BY DEF HostInv, TreesInv
  <2>4. Ordinary(tab)
    BY TabNamesAreOrdinary, PairIsName DEF NextTab, TabNumber, Ordinary, IsName
  <2> HIDE DEF session, tab
  <2>5. pane \notin Leaves(session)
    BY <2>1, <2>3, <2>4, FirstPaneIsNew, TreeLeavesArePanes
  <2>6. added = AddTab(session, tab, pane) /\ after = SwitchTab(added, tab)
    BY ApplyIs
  <2>7. Tree(added) /\ (added # session => Leaves(added) = Leaves(session) \cup {pane})
    BY <2>3, <2>4, <2>6, AddTabFollows DEF Follows
  <2> HIDE DEF pane, added, after
  <2>8. Leaves(after) = Leaves(added)
    BY <2>6, <2>7, SwitchTabFollows DEF Leaves
  <2>9. MatchedAt(s)
    BY <1>1 DEF HostInv, Matched
  <2>10. DOMAIN processes' = IF added # session THEN DOMAIN processes \cup {Key(s, pane)}
                             ELSE DOMAIN processes \ {Key(s, pane)}
    BY <2>1 DEF StartedOrRolledBack, With, Without
  <2>11. \A u, p : u # s \/ p # pane =>
           (Key(u, p) \in DOMAIN processes' <=> Key(u, p) \in DOMAIN processes)
    BY <2>10 DEF Key
  <2>12. DOMAIN registry' = DOMAIN registry /\ registry'[s] = after
         /\ \A u \in DOMAIN registry : u # s => registry'[u] = registry[u]
    BY <2>2
  <2>13. KeysInv'
    <3>1. \A k \in DOMAIN processes' : k \in DOMAIN processes \/ k = Key(s, pane)
      BY <2>10
    <3> QED BY <2>12, <3>1 DEF HostInv, KeysInv, Key
  <2>14. MatchedAt(s)'
    <3>1. CASE added = session
      BY <3>1, <2>1, <2>5, <2>8, <2>9, <2>10, <2>11, <2>12 DEF MatchedAt, session
    <3>2. CASE added # session
      BY <3>2, <2>1, <2>7, <2>8, <2>9, <2>10, <2>11, <2>12 DEF MatchedAt, session
    <3> QED BY <3>1, <3>2
  <2> QED BY <1>1, <2>1, <2>11, <2>12, <2>13, <2>14, OneSession
<1> QED BY <1>2, <1>3

LEMMA TabCloseKeeps ==
  ASSUME HostInv, TreesInv', NEW named \in Names, NEW name, TabClose(named, name)
  PROVE  HostInv'
<1>0. PICK s \in DOMAIN registry : s = Served(named)
  BY DEF TabClose, Routed, Refuse
<1> DEFINE session == registry[s]
           tab     == IF name = NoName THEN session.active ELSE name
           event   == [kind |-> "CloseTab", tab |-> tab]
           after   == Apply(session, event)
           leaves  == Tab(session, tab).leaves
           keys    == [i \in DOMAIN leaves |-> Key(s, leaves[i])]
<1>1. daemon = "serving" /\ daemon' = daemon
  BY DEF TabClose, Routed, Refuse
<1>2. CASE UNCHANGED <<registry, processes, stopFailed>>
  BY <1>1, <1>2, SameLeaves
<1>3. CASE ~UNCHANGED <<registry, processes, stopFailed>>
  <2>1. /\ Accept(s, event)
        /\ tab \in TabIds(session) /\ after # session
        /\ \E outcome \in StopOutcomes(keys) : StopPanes(s, leaves, outcome)
    BY <1>0, <1>3, Zenon DEF TabClose, Refuse
  <2>2. registry' = [registry EXCEPT ![s] = after]
    BY <2>1 DEF Accept
  <2>3. Tree(session)
    BY DEF HostInv, TreesInv
  <2> HIDE DEF session, tab
  <2>4. Leaves(after) = Leaves(session) \ LeavesOf(Tab(session, tab))
    BY <2>1, <2>3, ApplyIs, CloseTabFollows
  <2>5. DOMAIN leaves = 1..Len(leaves) /\ Len(leaves) \in Nat
    BY <2>1, <2>3, TabIndex DEF IsTab
  <2>6. \A p : p \in LeavesOf(Tab(session, tab)) <=> \E i \in DOMAIN leaves : p = leaves[i]
    BY DEF LeavesOf, Range
  <2> HIDE DEF after, leaves
  <2>7. PICK outcome \in StopOutcomes(keys) : StopPanes(s, leaves, outcome)
    BY <2>1
  <2>8. DOMAIN keys = 1..Len(leaves) /\ Len(keys) = Len(leaves)
    BY <2>5
  <2>9. /\ outcome.stopped \in 0..Len(leaves)
        /\ outcome.failed \/ (~outcome.failed /\ outcome.stopped = Len(leaves))
    <3> HIDE DEF keys
    <3>1. \/ outcome = [stopped |-> Len(keys), failed |-> FALSE]
          \/ \E n \in 1..Len(keys) : outcome = [stopped |-> n, failed |-> TRUE]
      BY <2>7, Zenon DEF StopOutcomes
    <3> QED BY <2>5, <2>8, <3>1
  <2> HIDE DEF keys
  <2>10. DOMAIN processes' =
           DOMAIN processes \ {Key(s, leaves[i]) : i \in 1..outcome.stopped}
    BY <2>7 DEF StopPanes, Without
  <2>11. /\ \A u, p : Key(u, p) \in DOMAIN processes' => Key(u, p) \in DOMAIN processes
         /\ \A u, p : u # s /\ Key(u, p) \in DOMAIN processes => Key(u, p) \in DOMAIN processes'
         /\ \A p : Key(s, p) \in DOMAIN processes /\ (\A i \in DOMAIN leaves : p # leaves[i])
                => Key(s, p) \in DOMAIN processes'
    BY <2>5, <2>9, <2>10 DEF Key
  <2>12. stopFailed \subseteq stopFailed' /\ (outcome.failed => s \in stopFailed')
    BY <2>7 DEF StopPanes
  <2>13. ~outcome.failed => \A i \in DOMAIN leaves : Key(s, leaves[i]) \notin DOMAIN processes'
    BY <2>5, <2>9, <2>10
  <2>14. DOMAIN registry' = DOMAIN registry /\ registry'[s] = after
         /\ \A u \in DOMAIN registry : u # s => registry'[u] = registry[u]
    BY <2>2
  <2>15. KeysInv'
    BY <2>10, <2>14, SameKeys DEF HostInv
  <2>16. MatchedAt(s)
    BY <1>1 DEF HostInv, Matched
  <2>17. MatchedAt(s)'
    <3>1. \A p \in Leaves(after) : Key(s, p) \in DOMAIN processes'
      BY <2>4, <2>6, <2>11, <2>16 DEF MatchedAt, session
    <3>2. ASSUME s \notin stopFailed', NEW p, Key(s, p) \in DOMAIN processes'
          PROVE  p \in Leaves(after)
      <4>1. p \in Leaves(session)
        BY <2>11, <2>12, <2>16, <3>2 DEF MatchedAt, session
      <4>2. \A i \in DOMAIN leaves : p # leaves[i]
        BY <2>9, <2>12, <2>13, <3>2
      <4> QED BY <2>4, <2>6, <4>1, <4>2
    <3> QED BY <2>14, <3>1, <3>2 DEF MatchedAt
  <2>18. \A u \in DOMAIN registry : \A p : u # s =>
           (Key(u, p) \in DOMAIN processes' <=> Key(u, p) \in DOMAIN processes)
    BY <2>11
  <2> QED BY <1>1, <2>12, <2>14, <2>15, <2>17, <2>18, OneSession
<1> QED BY <1>2, <1>3

LEMMA SessionNewKeeps ==
  ASSUME HostInv, TreesInv', NEW named \in Names, SessionNew(named)
  PROVE  HostInv'
<1>1. CASE UNCHANGED <<registry, processes, stopFailed>> /\ daemon' \in {daemon, "failed"}
  BY <1>1, SameLeaves
<1>2. CASE ~(UNCHANGED <<registry, processes, stopFailed>> /\ daemon' \in {daemon, "failed"})
  <2> DEFINE pane == PaneNumber(1)
  <2>1. /\ named \notin DOMAIN registry /\ daemon = "serving"
        /\ registry' = With(registry, named, InitialSession)
        /\ processes' = With(processes, Key(named, pane), "running")
        /\ stopFailed' = stopFailed
    BY <1>2 DEF SessionNew, Refuse
  <2> HIDE DEF pane
  <2>2. DOMAIN registry' = DOMAIN registry \cup {named} /\ registry'[named] = InitialSession
        /\ \A u \in DOMAIN registry : registry'[u] = registry[u]
    BY <2>1 DEF With
  <2>3. DOMAIN processes' = DOMAIN processes \cup {Key(named, pane)}
    BY <2>1 DEF With
  <2>4. KeysInv'
    BY <2>2, <2>3 DEF HostInv, KeysInv, Key
  <2>5. \A p : Key(named, p) \in DOMAIN processes' <=> p = pane
    BY <2>1, <2>3 DEF HostInv, KeysInv, Key
  <2>6. \A u, p : u # named =>
          (Key(u, p) \in DOMAIN processes' <=> Key(u, p) \in DOMAIN processes)
    BY <2>3 DEF Key
  <2>7. MatchedAt(named)'
    BY <2>2, <2>5, InitialIsTree DEF MatchedAt, pane
  <2>8. ASSUME NEW u \in DOMAIN registry PROVE MatchedAt(u)'
    <3>1. MatchedAt(u) /\ u # named
      BY <2>1 DEF HostInv, Matched
    <3> QED BY <2>1, <2>2, <2>6, <3>1 DEF MatchedAt
  <2> QED BY <2>2, <2>4, <2>7, <2>8 DEF HostInv, Matched
<1> QED BY <1>1, <1>2

LEMMA SessionKillKeeps ==
  ASSUME HostInv, TreesInv', NEW named \in Names, SessionKill(named)
  PROVE  HostInv'
<1>1. CASE UNCHANGED <<registry, processes, stopFailed, daemon>>
  BY <1>1, SameLeaves
<1>2. CASE ~UNCHANGED <<registry, processes, stopFailed, daemon>>
  <2>1. /\ daemon' = "killed"
        /\ Accept(Served(named), [kind |-> "RequestSessionShutdown"])
        /\ \E leaves, outcome : StopPanes(Default, leaves, outcome)
    BY <1>2 DEF SessionKill, Refuse
  <2>2. DOMAIN processes' \subseteq DOMAIN processes
    BY <2>1 DEF StopPanes, Without
  <2>3. DOMAIN registry' = DOMAIN registry
    BY <2>1 DEF Accept
  <2>4. KeysInv'
    BY <2>2, <2>3, SameKeys DEF HostInv
  <2> QED BY <2>1, <2>4 DEF HostInv, Matched
<1> QED BY <1>1, <1>2

\* An event that changes no tab's leaves, accepted by one actor.
LEMMA QuietEventKeeps ==
  ASSUME HostInv, TreesInv', NEW s \in DOMAIN registry, NEW t, Leaves(t) = Leaves(registry[s]),
         registry' = [registry EXCEPT ![s] = t],
         daemon' = daemon, DOMAIN processes' = DOMAIN processes, stopFailed' = stopFailed
  PROVE  HostInv'
<1>1. /\ DOMAIN registry' = DOMAIN registry
      /\ \A u \in DOMAIN registry : Leaves(registry'[u]) = Leaves(registry[u])
  OBVIOUS
<1> QED BY <1>1, SameLeaves

LEMMA TabSwitchKeeps ==
  ASSUME HostInv, TreesInv', NEW named \in Names, NEW tab, TabSwitch(named, tab)
  PROVE  HostInv'
<1>1. CASE UNCHANGED registry
  BY <1>1, SameLeaves DEF TabSwitch, Refuse
<1>2. CASE ~UNCHANGED registry
  <2>1. PICK s \in DOMAIN registry : s = Served(named)
    BY DEF TabSwitch, Routed
  <2> DEFINE event == [kind |-> "SwitchTab", tab |-> tab]
  <2>2. Accept(s, event) /\ UNCHANGED <<processes, daemon, stopFailed>>
    BY <1>2, <2>1, Zenon DEF TabSwitch, Refuse
  <2>3. Apply(registry[s], event) = SwitchTab(registry[s], tab)
    BY ApplyIs
  <2>4. Tree(registry[s])
    BY DEF HostInv, TreesInv
  <2>5. Leaves(SwitchTab(registry[s], tab)) = Leaves(registry[s])
    BY <2>4, SwitchTabFollows DEF Leaves
  <2>6. registry' = [registry EXCEPT ![s] = SwitchTab(registry[s], tab)]
    BY <2>2, <2>3 DEF Accept
  <2> QED BY <2>2, <2>5, <2>6, QuietEventKeeps
<1> QED BY <1>1, <1>2

LEMMA AttachKeeps ==
  ASSUME HostInv, TreesInv', NEW named \in Names, NEW target, Attach(named, target)
  PROVE  HostInv'
<1>1. CASE UNCHANGED <<registry, processes>>
  BY <1>1, SameLeaves DEF Attach, Refuse
<1>2. CASE ~UNCHANGED <<registry, processes>>
  <2>1. PICK s \in DOMAIN registry : s = Served(named)
    BY DEF Attach, Routed, Refuse
  <2>2. PICK shown : /\ shown = registry[s] \/ shown = SwitchTab(registry[s], target)
                     /\ registry' = [registry EXCEPT ![s] = shown]
    BY <1>2, <2>1 DEF Attach, Refuse
  <2>3. DOMAIN processes' = DOMAIN processes /\ UNCHANGED <<daemon, stopFailed>>
    BY <1>2 DEF Attach, Reaped, Refuse
  <2>4. Tree(registry[s])
    BY DEF HostInv, TreesInv
  <2>5. Leaves(shown) = Leaves(registry[s])
    BY <2>2, <2>4, SwitchTabFollows DEF Leaves
  <2> QED BY <2>2, <2>3, <2>5, QuietEventKeeps
<1> QED BY <1>1, <1>2

LEMMA ResizeKeeps ==
  ASSUME HostInv, TreesInv', NEW p, NEW size \in Sizes, Resize(p, size)
  PROVE  HostInv'
<1>1. CASE UNCHANGED registry
  BY <1>1, SameLeaves DEF Resize, Reaped
<1>2. CASE ~UNCHANGED registry
  <2> DEFINE event == [kind |-> "CommitPaneResize", pane |-> p, size |-> size]
  <2>1. Accept(Default, event) /\ UNCHANGED <<processes, daemon, stopFailed>>
    BY <1>2, Zenon DEF Resize
  <2>2. Default \in DOMAIN registry /\ Tree(registry[Default]) /\ size \in Nat
    BY SizesAssumption DEF HostInv, TreesInv
  <2>3. Apply(registry[Default], event) = ResizePane(registry[Default], p, size)
    <3>1. \A s : Apply(s, event) = ResizePane(s, p, size)
      BY ApplyIs
    <3> QED BY <3>1
  <2>4. Leaves(ResizePane(registry[Default], p, size)) = Leaves(registry[Default])
    <3> DEFINE s == registry[Default]
    <3>1. Tree(s) /\ size \in Nat
      BY <2>2
    <3> HIDE DEF s
    <3>2. Leaves(ResizePane(s, p, size)) = Leaves(s)
      BY <3>1, ResizePaneFollows
    <3> QED BY <3>2 DEF s
  <2>5. registry' = [registry EXCEPT ![Default] = ResizePane(registry[Default], p, size)]
    BY <2>1, <2>3 DEF Accept
  <2> QED BY <2>1, <2>2, <2>4, <2>5, QuietEventKeeps
<1> QED BY <1>1, <1>2

LEMMA HostInvKeeps == HostInv /\ [Next]_vars => HostInv'
<1> SUFFICES ASSUME HostInv, [Next]_vars PROVE HostInv'
  OBVIOUS
<1>1. TreesInv'
  BY TreesFollow DEF HostInv
<1>2. CASE UNCHANGED vars
  BY <1>1, <1>2, SameLeaves DEF vars
<1>3. ASSUME NEW named \in Names, UnknownSession(named) PROVE HostInv'
  BY <1>1, <1>3, SameLeaves DEF UnknownSession, Refuse
<1>4. CASE HealthProbe
  BY <1>1, <1>4, SameLeaves DEF HealthProbe, Reaped
<1>5. ASSUME NEW k \in DOMAIN processes, ProcessExits(k) PROVE HostInv'
  BY <1>1, <1>5, SameLeaves DEF ProcessExits
<1> QED
  BY <1>1, <1>2, <1>3, <1>4, <1>5, PaneSplitKeeps, TabNewKeeps, TabCloseKeeps, TabSwitchKeeps,
     SessionNewKeeps, SessionKillKeeps, AttachKeeps, ResizeKeeps DEF Next

\* However commands, failing stops and exits follow each other, the host knows
\* the processes of the leaves and, where every stop succeeded, no other.
THEOREM HostAlwaysMatches == Spec => []HostMatchesTree
BY HostStart, HostInvKeeps, MatchedImplies, PTL DEF Spec

\* The name a split will give its pane is never held by a process left over.
THEOREM NextPaneAlwaysFree == Spec => []NextPaneIsFree
<1>1. HostInv => NextPaneIsFree
  <2> SUFFICES ASSUME HostInv, daemon = "serving", NEW s \in DOMAIN registry \ stopFailed
               PROVE  ~AlreadyRunning(Key(s, NextPane(registry[s])))
    BY DEF NextPaneIsFree
  <2>1. Tree(registry[s])
    BY DEF HostInv, TreesInv
  <2>2. NextPane(registry[s]) \notin Leaves(registry[s])
    BY <2>1, NextPaneIsNew, TreeLeavesArePanes
  <2>3. MatchedAt(s)
    BY DEF HostInv, Matched
  <2> QED BY <2>2, <2>3 DEF MatchedAt, AlreadyRunning
<1> QED BY <1>1, HostStart, HostInvKeeps, PTL DEF Spec
-----------------------------------------------------------------------------
(* Types.  TypeOK says of the trees what TreesInv implies; the rest of it   *)
(* does not depend on them.                                                *)

RestOK ==
  /\ SameSessions
  /\ mode \in Modes
  /\ \A k \in DOMAIN processes : processes[k] \in {"running", "gone", "exited"}
  /\ daemon \in {"serving", "killed", "failed"}
  /\ reply \in [named : Names, refused : BOOLEAN]
  /\ bypassed \subseteq SessionIds
  /\ stopFailed \subseteq SessionIds
  /\ mishaps \in 0..MaxMishaps

LEMMA RestStart == Init => RestOK
BY DefaultAssumption, BoundsAssumption DEF Init, RestOK, SameSessions, Names

LEMMA StopPanesTypes ==
  ASSUME RestOK, NEW s \in SessionIds, NEW leaves, NEW keys,
         NEW outcome \in StopOutcomes(keys), StopPanes(s, leaves, outcome)
  PROVE  /\ outcome.failed \in BOOLEAN
         /\ \A k \in DOMAIN processes' : processes'[k] \in {"running", "gone", "exited"}
         /\ stopFailed' \subseteq SessionIds
         /\ mishaps' \in 0..MaxMishaps
<1>1. \/ outcome = [stopped |-> Len(keys), failed |-> FALSE]
      \/ mishaps < MaxMishaps /\ \E n : outcome = [stopped |-> n, failed |-> TRUE]
  BY Zenon DEF StopOutcomes
<1>2. outcome.failed \in BOOLEAN /\ (outcome.failed => mishaps < MaxMishaps)
  <2>1. CASE outcome = [stopped |-> Len(keys), failed |-> FALSE]
    BY <2>1, Zenon
  <2>2. ASSUME mishaps < MaxMishaps, NEW n, outcome = [stopped |-> n, failed |-> TRUE]
        PROVE  outcome.failed \in BOOLEAN /\ (outcome.failed => mishaps < MaxMishaps)
    BY <2>2, Zenon
  <2> QED BY <1>1, <2>1, <2>2
<1>3. \A k \in DOMAIN processes' : k \in DOMAIN processes /\ processes'[k] = processes[k]
  BY DEF StopPanes, Without
<1>4. stopFailed' \in {stopFailed, stopFailed \cup {s}}
  BY DEF StopPanes
<1>5. mishaps' \in 0..MaxMishaps
  BY <1>2, BoundsAssumption DEF RestOK, StopPanes
<1> QED BY <1>2, <1>3, <1>4, <1>5 DEF RestOK

LEMMA TabCloseTypes ==
  ASSUME TreesInv, RestOK, NEW named \in Names, NEW name, TabClose(named, name)
  PROVE  RestOK'
<1>1. CASE Refuse(named)
  BY <1>1 DEF Refuse, Answer, RestOK, SameSessions
<1>2. CASE ~Refuse(named)
  <2>1. PICK s \in DOMAIN registry : s = Served(named)
    BY DEF TabClose, Routed, Refuse
  <2>2. PICK event, leaves, keys : \E outcome \in StopOutcomes(keys) :
          /\ Accept(s, event)
          /\ StopPanes(s, leaves, outcome)
          /\ Answer(named, outcome.failed)
          /\ UNCHANGED <<mode, daemon, bypassed>>
    BY <1>2, <2>1, Zenon DEF TabClose
  <2>3. PICK outcome \in StopOutcomes(keys) :
          /\ Accept(s, event)
          /\ StopPanes(s, leaves, outcome)
          /\ Answer(named, outcome.failed)
          /\ UNCHANGED <<mode, daemon, bypassed>>
    BY <2>2
  <2> QED BY <2>1, <2>3, StopPanesTypes DEF Accept, Answer, TreesInv, RestOK, SameSessions
<1> QED BY <1>1, <1>2

LEMMA SessionKillTypes ==
  ASSUME TreesInv, RestOK, NEW named \in Names, SessionKill(named)
  PROVE  RestOK'
<1>1. CASE Refuse(named)
  BY <1>1 DEF Refuse, Answer, RestOK, SameSessions
<1>2. CASE ~Refuse(named)
  <2>1. PICK leaves, keys : \E outcome \in StopOutcomes(keys) :
          StopPanes(Default, leaves, outcome)
    BY <1>2, Zenon DEF SessionKill
  <2>2. PICK outcome \in StopOutcomes(keys) : StopPanes(Default, leaves, outcome)
    BY <2>1
  <2>3. /\ Accept(Served(named), [kind |-> "RequestSessionShutdown"])
        /\ daemon' = "killed" /\ Answer(named, FALSE)
        /\ UNCHANGED <<mode, bypassed>>
    BY <1>2, Zenon DEF SessionKill
  <2> QED BY <2>2, <2>3, StopPanesTypes DEF Accept, Answer, TreesInv, RestOK, SameSessions
<1> QED BY <1>1, <1>2

LEMMA CreatingTypes ==
  ASSUME RestOK, NEW named \in Names, NEW target, NEW name,
         PaneSplit(named, target) \/ TabNew(named, name) \/ SessionNew(named)
  PROVE  RestOK'
<1> USE BoundsAssumption DEF RestOK, SameSessions, Answer
<1>1. CASE Refuse(named)
  BY <1>1 DEF Refuse
<1>2. CASE RefuseStart(named)
  BY <1>2 DEF RefuseStart
<1>3. CASE PaneSplit(named, target) /\ ~Refuse(named) /\ ~RefuseStart(named)
  <2>1. PICK s, event, k : \E split \in BOOLEAN :
          /\ Accept(s, event) /\ processes' = StartedOrRolledBack(k, split)
          /\ Answer(named, ~split)
          /\ UNCHANGED <<mode, daemon, bypassed, stopFailed, mishaps>>
    BY <1>3, Zenon DEF PaneSplit
  <2> QED BY <2>1 DEF Accept, StartedOrRolledBack, With, Without
<1>4. CASE TabNew(named, name) /\ ~Refuse(named) /\ ~RefuseStart(named)
  <2>1. PICK s, add, switch, k : \E added \in BOOLEAN :
          /\ AcceptBoth(s, add, switch) /\ processes' = StartedOrRolledBack(k, added)
          /\ Answer(named, ~added)
          /\ UNCHANGED <<mode, daemon, bypassed, stopFailed, mishaps>>
    BY <1>4, Zenon DEF TabNew
  <2> QED BY <2>1 DEF AcceptBoth, StartedOrRolledBack, With, Without
<1>5. CASE SessionNew(named) /\ ~Refuse(named)
  <2>1. CASE UNCHANGED <<registry, replicas, processes>>
    <3>1. /\ daemon' \in {daemon, "failed"}
          /\ \E n \in Names : reply' = [named |-> n, refused |-> FALSE]
          /\ UNCHANGED <<mode, bypassed, stopFailed>>
          /\ mishaps' = mishaps \/ (mishaps < MaxMishaps /\ mishaps' = mishaps + 1)
      BY <1>5 DEF SessionNew, Names
    <3> QED BY <2>1, <3>1
  <2>2. CASE ~UNCHANGED <<registry, replicas, processes>>
    <3>1. \E k : processes' = With(processes, k, "running")
      BY <1>5, <2>2, Zenon DEF SessionNew
    <3>2. /\ registry' = With(registry, named, InitialSession)
          /\ replicas' = With(replicas, named, InitialSession)
          /\ reply' = [named |-> named, refused |-> FALSE]
          /\ UNCHANGED <<mode, daemon, bypassed, stopFailed, mishaps>>
      BY <1>5, <2>2 DEF SessionNew
    <3>3. DOMAIN registry' = DOMAIN replicas' /\ Default \in DOMAIN registry'
      BY <3>2 DEF With
    <3>4. \A k \in DOMAIN processes' : processes'[k] \in {"running", "gone", "exited"}
      BY <3>1 DEF With
    <3> QED BY <3>2, <3>3, <3>4
  <2> QED BY <2>1, <2>2
<1> QED BY <1>1, <1>2, <1>3, <1>4, <1>5

LEMMA OtherTypes ==
  ASSUME TreesInv, RestOK, NEW named \in Names, NEW target, NEW p, NEW size,
         UnknownSession(named) \/ TabSwitch(named, target) \/ Attach(named, target)
           \/ HealthProbe \/ Resize(p, size)
  PROVE  RestOK'
<1> USE DEF TreesInv, RestOK, SameSessions, Names
<1>1. CASE Refuse(named)
  BY <1>1 DEF Refuse, Answer
<1>2. CASE TabSwitch(named, target) /\ ~Refuse(named)
  <2>1. PICK s, event : \E refused \in BOOLEAN :
          /\ Accept(s, event) /\ Answer(named, refused)
          /\ UNCHANGED <<mode, processes, daemon, bypassed, stopFailed, mishaps>>
    BY <1>2, Zenon DEF TabSwitch
  <2> QED BY <2>1 DEF Accept, Answer
<1>3. CASE Attach(named, target) /\ ~Refuse(named)
  <2>1. PICK s \in DOMAIN registry : s = Served(named)
    BY <1>3 DEF Attach, Routed
  <2>2. /\ \E shown : registry' = [registry EXCEPT ![s] = shown]
        /\ \E keys : processes' = Reaped(keys)
        /\ \E refused \in BOOLEAN : Answer(named, refused)
        /\ UNCHANGED <<mode, replicas, daemon, stopFailed, mishaps>>
    BY <1>3, <2>1, Zenon DEF Attach
  <2>3. bypassed' \in {bypassed, bypassed \cup {s}}
    BY <1>3, <2>1 DEF Attach
  <2>4. \A k \in DOMAIN processes' : processes'[k] \in {"running", "gone", "exited"}
    BY <2>2 DEF Reaped
  <2> QED BY <2>2, <2>3, <2>4 DEF Answer
<1>4. CASE HealthProbe
  BY <1>4 DEF HealthProbe, Reaped, Answer
<1>5. CASE Resize(p, size)
  BY <1>5 DEF Resize, Accept, Reaped, Answer
<1>6. CASE UnknownSession(named)
  BY <1>1, <1>6 DEF UnknownSession
<1> QED BY <1>1, <1>2, <1>3, <1>4, <1>5, <1>6

\* Every variable keeps its type and every tree stays well formed, whatever
\* splits, tabs, closes and resizes clients ask for.
THEOREM TypeCorrect == Spec => []TypeOK
<1>1. HostInv /\ RestOK /\ [Next]_vars => RestOK'
  <2> SUFFICES ASSUME HostInv, RestOK, [Next]_vars PROVE RestOK'
    OBVIOUS
  <2>1. TreesInv
    BY DEF HostInv
  <2>2. CASE UNCHANGED vars
    BY <2>2 DEF vars, RestOK, SameSessions
  <2>3. ASSUME NEW k \in DOMAIN processes, ProcessExits(k) PROVE RestOK'
    BY <2>3, BoundsAssumption DEF ProcessExits, RestOK, SameSessions
  <2>4. ASSUME NEW named \in Names, NEW target,
               \/ UnknownSession(named) \/ SessionNew(named) \/ SessionKill(named)
               \/ PaneSplit(named, target) \/ TabNew(named, target)
               \/ TabClose(named, target) \/ TabSwitch(named, target)
               \/ Attach(named, target)
        PROVE  RestOK'
    BY <2>1, <2>4, TabCloseTypes, SessionKillTypes, CreatingTypes, OtherTypes
  <2>5. ASSUME NEW p, NEW size, HealthProbe \/ Resize(p, size) PROVE RestOK'
    <3>1. NoName \in Names
      BY DEF Names
    <3> QED BY <2>1, <2>5, <3>1, OtherTypes
  <2> QED BY <2>2, <2>3, <2>4, <2>5 DEF Next
<1>2. HostInv /\ RestOK => TypeOK
  BY TreesAreWellFormed DEF HostInv, TreesInv, KeysInv, RestOK, SameSessions, TypeOK
<1> QED BY <1>1, <1>2, RestStart, HostStart, HostInvKeeps, PTL DEF Spec
-----------------------------------------------------------------------------
(* Refusals *)

\* What the property says of a step that refuses a command.
Harmless ==
  /\ Running' \subseteq Running
  /\ \A s \in DOMAIN registry :
       \/ /\ registry'[s].tabs = registry[s].tabs
          /\ \A k \in Running : k[1] = s => k \in DOMAIN processes'
       \/ /\ s \in stopFailed'
          /\ Len(registry'[s].tabs) < Len(registry[s].tabs)

LEMMA NothingTouched == UNCHANGED <<registry, processes>> => Harmless
BY DEF Harmless, Running

\* A start rolled back: nothing of that name ran before.
LEMMA RolledBack ==
  ASSUME \A s \in DOMAIN registry : registry'[s] = registry[s],
         NEW k, ~AlreadyRunning(k),
         processes' = StartedOrRolledBack(k, FALSE)
  PROVE  Harmless
<1>1. k \notin Running
  BY DEF AlreadyRunning, Running
<1>2. /\ DOMAIN processes' = DOMAIN processes \ {k}
      /\ \A j \in DOMAIN processes' : processes'[j] = processes[j]
  BY DEF StartedOrRolledBack, Without
<1> QED BY <1>1, <1>2 DEF Harmless, Running

LEMMA PaneSplitHarmless ==
  ASSUME TreesInv, NEW named \in Names, NEW target, PaneSplit(named, target), reply'.refused
  PROVE  Harmless
<1>1. CASE UNCHANGED <<registry, processes>>
  BY <1>1, NothingTouched
<1>2. CASE ~UNCHANGED <<registry, processes>>
  <2>1. PICK s \in DOMAIN registry : s = Served(named)
    BY DEF PaneSplit, Routed, Refuse
  <2>2. PICK event, k :
          /\ ~AlreadyRunning(k)
          /\ Accept(s, event)
          /\ processes' = StartedOrRolledBack(k, Apply(registry[s], event) # registry[s])
          /\ Answer(named, ~(Apply(registry[s], event) # registry[s]))
    BY <1>2, <2>1, Zenon DEF PaneSplit, Refuse, RefuseStart
  <2>3. Apply(registry[s], event) = registry[s]
    BY <2>2 DEF Answer
  <2>4. processes' = StartedOrRolledBack(k, FALSE)
    BY <2>2, <2>3 DEF StartedOrRolledBack
  <2>5. \A u \in DOMAIN registry : registry'[u] = registry[u]
    BY <2>2, <2>3 DEF Accept
  <2> QED BY <2>2, <2>4, <2>5, RolledBack
<1> QED BY <1>1, <1>2

LEMMA TabNewHarmless ==
  ASSUME TreesInv, NEW named \in Names, NEW name, TabNew(named, name), reply'.refused
  PROVE  Harmless
<1>1. CASE UNCHANGED <<registry, processes>>
  BY <1>1, NothingTouched
<1>2. CASE ~UNCHANGED <<registry, processes>>
  <2>1. PICK s \in DOMAIN registry : s = Served(named)
    BY DEF TabNew, Routed, Refuse
  <2> DEFINE session == registry[s]
             tab     == IF name = NoName THEN NextTab(session) ELSE name
             k       == Key(s, FirstPaneOf(tab))
             add     == [kind |-> "AddTab", tab |-> tab, pane |-> FirstPaneOf(tab)]
             switch  == [kind |-> "SwitchTab", tab |-> tab]
             added   == Apply(session, add)
  <2>2. /\ tab \notin TabIds(session) /\ ~AlreadyRunning(k)
        /\ AcceptBoth(s, add, switch)
        /\ processes' = StartedOrRolledBack(k, added # session)
        /\ Answer(named, ~(added # session))
    BY <1>2, <2>1, Zenon DEF TabNew, Refuse, RefuseStart
  <2> HIDE DEF tab, k, add
  <2>3. added = session
    BY <2>2 DEF Answer
  <2>4. Apply(session, switch) = SwitchTab(session, tab)
    BY ApplyIs
  <2>5. SwitchTab(session, tab) = session
    BY <2>2 DEF SwitchTab
  <2>6. registry' = [registry EXCEPT ![s] = session]
    BY <2>2, <2>3, <2>4, <2>5 DEF AcceptBoth
  <2>7. \A u \in DOMAIN registry : registry'[u] = registry[u]
    BY <2>6
  <2>8. processes' = StartedOrRolledBack(k, FALSE)
    BY <2>2, <2>3 DEF StartedOrRolledBack
  <2> QED BY <2>2, <2>7, <2>8, RolledBack
<1> QED BY <1>1, <1>2

LEMMA TabCloseHarmless ==
  ASSUME TreesInv, NEW named \in Names, NEW name, TabClose(named, name), reply'.refused
  PROVE  Harmless
<1>1. CASE UNCHANGED <<registry, processes>>
  BY <1>1, NothingTouched
<1>2. CASE ~UNCHANGED <<registry, processes>>
  <2>1. PICK s \in DOMAIN registry : s = Served(named)
    BY DEF TabClose, Routed, Refuse
  <2> DEFINE session == registry[s]
             tab     == IF name = NoName THEN session.active ELSE name
             event   == [kind |-> "CloseTab", tab |-> tab]
  <2>2. /\ Apply(session, event) # session /\ Accept(s, event)
        /\ \E leaves, outcome : StopPanes(s, leaves, outcome) /\ Answer(named, outcome.failed)
    BY <1>2, <2>1, Zenon DEF TabClose, Refuse
  <2>3. s \in stopFailed'
    BY <2>2 DEF StopPanes, Answer
  <2>4. /\ DOMAIN processes' \subseteq DOMAIN processes
        /\ \A k \in DOMAIN processes' : processes'[k] = processes[k]
        /\ \A k \in DOMAIN processes : k[1] # s => k \in DOMAIN processes'
    BY <2>2 DEF StopPanes, Without, Key
  <2> HIDE DEF tab
  <2>5. Apply(session, event) = CloseTab(session, tab)
    BY ApplyIs
  <2>6. Len(CloseTab(session, tab).tabs) < Len(session.tabs)
    BY <2>2, <2>5, CloseTabFollows DEF TreesInv
  <2>7. /\ registry'[s] = CloseTab(session, tab)
        /\ \A u \in DOMAIN registry : u # s => registry'[u] = registry[u]
    BY <2>2, <2>5 DEF Accept
  <2> QED BY <2>3, <2>4, <2>6, <2>7 DEF Harmless, Running
<1> QED BY <1>1, <1>2

LEMMA SwitchingHarmless ==
  ASSUME TreesInv, NEW s \in DOMAIN registry, NEW tab,
         registry' = [registry EXCEPT ![s] = SwitchTab(registry[s], tab)]
  PROVE  \A u \in DOMAIN registry : registry'[u].tabs = registry[u].tabs
<1>1. SwitchTab(registry[s], tab).tabs = registry[s].tabs
  BY SwitchTabFollows DEF TreesInv
<1> QED BY <1>1

LEMMA TabSwitchHarmless ==
  ASSUME TreesInv, NEW named \in Names, NEW tab, TabSwitch(named, tab)
  PROVE  Harmless
<1>1. CASE Refuse(named)
  BY <1>1, NothingTouched DEF Refuse
<1>2. CASE ~Refuse(named)
  <2>1. PICK s \in DOMAIN registry : s = Served(named)
    BY DEF TabSwitch, Routed
  <2>2. Accept(s, [kind |-> "SwitchTab", tab |-> tab]) /\ processes' = processes
    BY <1>2, <2>1, Zenon DEF TabSwitch
  <2>3. registry' = [registry EXCEPT ![s] = SwitchTab(registry[s], tab)]
    BY <2>2, ApplyIs DEF Accept
  <2> QED BY <2>2, <2>3, SwitchingHarmless DEF Harmless, Running
<1> QED BY <1>1, <1>2

LEMMA AttachHarmless ==
  ASSUME TreesInv, NEW named \in Names, NEW target, Attach(named, target)
  PROVE  Harmless
<1>1. CASE UNCHANGED <<registry, processes>>
  BY <1>1, NothingTouched
<1>2. CASE ~UNCHANGED <<registry, processes>>
  <2>1. PICK s \in DOMAIN registry : s = Served(named)
    BY DEF Attach, Routed, Refuse
  <2>2. PICK shown : /\ shown = registry[s] \/ shown = SwitchTab(registry[s], target)
                     /\ registry' = [registry EXCEPT ![s] = shown]
    BY <1>2, <2>1 DEF Attach, Refuse
  <2>3. \A u \in DOMAIN registry : registry'[u].tabs = registry[u].tabs
    BY <2>2, SwitchingHarmless
  <2>4. \E keys : processes' = Reaped(keys)
    BY <1>2, Zenon DEF Attach, Refuse
  <2>5. Running' \subseteq Running /\ Running \subseteq DOMAIN processes'
    BY <2>4 DEF Reaped, Running
  <2> QED BY <2>3, <2>5 DEF Harmless
<1> QED BY <1>1, <1>2

\* However a command fails - the start, the actor, the name - what was running
\* still runs and no tab has changed, except for the close that could not stop.
THEOREM RefusalsAreHarmless == Spec => RefusalsChangeNothing
<1>1. TreesInv /\ [Next]_vars => TreesInv'
  BY TreesFollow
<1>2. TreesInv /\ [Next]_vars => [reply'.refused => Harmless]_vars
  <2> SUFFICES ASSUME TreesInv, Next, reply'.refused PROVE Harmless
    BY DEF vars
  <2>1. ASSUME NEW named \in Names, UnknownSession(named) PROVE Harmless
    BY <2>1, NothingTouched DEF UnknownSession, Refuse
  <2>2. ASSUME NEW named \in Names, SessionNew(named) PROVE Harmless
    BY <2>2, NothingTouched DEF SessionNew, Refuse, Answer
  <2>3. ASSUME NEW named \in Names, SessionKill(named) PROVE Harmless
    BY <2>3, NothingTouched DEF SessionKill, Refuse, Answer
  <2>4. CASE HealthProbe
    BY <2>4 DEF HealthProbe, Reaped, Harmless, Running
  <2>5. ASSUME NEW p, NEW size, Resize(p, size) PROVE Harmless
    BY <2>5 DEF Resize, Answer
  <2>6. ASSUME NEW k \in DOMAIN processes, ProcessExits(k) PROVE Harmless
    BY <2>6 DEF ProcessExits, Harmless, Running
  <2> QED
    BY <2>1, <2>2, <2>3, <2>4, <2>5, <2>6, PaneSplitHarmless, TabNewHarmless,
       TabCloseHarmless, TabSwitchHarmless, AttachHarmless DEF Next
<1> QED BY <1>1, <1>2, TreesInvStart, PTL DEF Spec, RefusalsChangeNothing, Harmless
-----------------------------------------------------------------------------
(* What a kill stops.  FlattenSeq is defined by recursion on the number of *)
(* sequences: that there is such a function, and what it yields, is shown  *)
(* by the least number for which it would not be so.                       *)

LEMMA LeastNumber ==
  ASSUME NEW S, S \subseteq Nat, S # {}
  PROVE  \E x \in S : \A y \in S : x <= y
<1>1. PICK x \in S : \A y \in S : ~(<<y, x>> \in OpToRel(<, Nat))
  BY NatLessThanWellFounded, WFMin, Zenon
<1>2. \A y \in Nat : y < x => <<y, x>> \in OpToRel(<, Nat)
  BY Zenon DEF OpToRel
<1>3. \A y \in S : ~(y < x)
  BY <1>1, <1>2, Zenon
<1>4. \A y \in S : y \in Nat /\ x \in Nat
  OBVIOUS
<1> QED BY <1>3, <1>4

\* f[i] is the first i of the sequences, one after the other.
Glues(s, f, n) == f = [i \in 1..n |-> IF i = 1 THEN s[i] ELSE f[i - 1] \o s[i]]

LEMMA GlueExists ==
  ASSUME NEW s, NEW n \in Nat
  PROVE  \E f : Glues(s, f, n)
<1> DEFINE Bad == {m \in Nat : ~\E f : Glues(s, f, m)}
<1>1. SUFFICES ASSUME Bad # {} PROVE FALSE
  OBVIOUS
<1>2. PICK m \in Bad : \A k \in Bad : m <= k
  <2>1. Bad \subseteq Nat
    OBVIOUS
  <2> HIDE DEF Bad
  <2> QED BY <1>1, <2>1, LeastNumber
<1>3. m # 0
  <2> SUFFICES \E f : Glues(s, f, 0)
    BY <1>2
  <2> DEFINE f == [i \in 1..0 |-> s[i]]
  <2>1. f = [i \in 1..0 |-> IF i = 1 THEN s[i] ELSE f[i - 1] \o s[i]]
    OBVIOUS
  <2> HIDE DEF f
  <2> QED BY <2>1 DEF Glues
<1>4. m - 1 \in Nat /\ ~(m <= m - 1)
  BY <1>2, <1>3
<1>5. PICK f : Glues(s, f, m - 1)
  BY <1>2, <1>4
<1> DEFINE g == [i \in 1..m |-> IF i = m THEN IF m = 1 THEN s[m] ELSE f[m - 1] \o s[m] ELSE f[i]]
<1>6. ASSUME NEW i \in 1..m PROVE g[i] = IF i = 1 THEN s[i] ELSE g[i - 1] \o s[i]
  <2>1. CASE i = m
    <3>1. CASE m = 1
      BY <2>1, <3>1
    <3>2. CASE m # 1
      <4>1. m - 1 \in 1..m /\ m - 1 # m
        BY <1>4, <3>2
      <4>2. g[m - 1] = f[m - 1]
        BY <4>1
      <4> QED BY <2>1, <3>2, <4>2
    <3> QED BY <3>1, <3>2
  <2>2. CASE i # m
    <3>1. i \in 1..(m - 1)
      BY <1>4, <2>2
    <3>2. f[i] = IF i = 1 THEN s[i] ELSE f[i - 1] \o s[i]
      BY <1>5, <3>1 DEF Glues
    <3>3. i # 1 => i - 1 \in 1..m /\ i - 1 # m
      BY <3>1
    <3> QED BY <2>2, <3>2, <3>3
  <2> QED BY <2>1, <2>2
<1>7. Glues(s, g, m)
  <2>1. DOMAIN g = 1..m /\ g = [i \in 1..m |-> g[i]]
    OBVIOUS
  <2> HIDE DEF g
  <2> QED BY <1>6, <2>1 DEF Glues
<1> QED BY <1>2, <1>7

LEMMA ConcatRange ==
  ASSUME NEW T, NEW s \in Seq(T), NEW t \in Seq(T)
  PROVE  s \o t \in Seq(T) /\ Range(s) \subseteq Range(s \o t) /\ Range(t) \subseteq Range(s \o t)
<1>1. /\ s \o t \in Seq(T) /\ Len(s) \in Nat /\ Len(t) \in Nat
      /\ DOMAIN s = 1..Len(s) /\ DOMAIN t = 1..Len(t) /\ DOMAIN (s \o t) = 1..(Len(s) + Len(t))
      /\ \A i \in 1..(Len(s) + Len(t)) :
           (s \o t)[i] = IF i <= Len(s) THEN s[i] ELSE t[i - Len(s)]
  BY ConcatProperties, LenProperties
<1>2. ASSUME NEW i \in DOMAIN s PROVE i \in DOMAIN (s \o t) /\ (s \o t)[i] = s[i]
  <2>1. i \in 1..(Len(s) + Len(t)) /\ i <= Len(s)
    BY <1>1
  <2> QED BY <1>1, <2>1
<1>3. ASSUME NEW i \in DOMAIN t PROVE i + Len(s) \in DOMAIN (s \o t) /\ (s \o t)[i + Len(s)] = t[i]
  <2>1. PICK m \in Nat : m = i + Len(s)
    BY <1>1
  <2>2. m \in 1..(Len(s) + Len(t)) /\ ~(m <= Len(s)) /\ m - Len(s) = i
    BY <1>1, <2>1
  <2>3. (s \o t)[m] = t[i] /\ m \in DOMAIN (s \o t)
    BY <1>1, <2>2, Zenon
  <2> QED BY <2>1, <2>3
<1>4. Range(s) \subseteq Range(s \o t)
  BY <1>2, Zenon DEF Range
<1>5. Range(t) \subseteq Range(s \o t)
  BY <1>3, Zenon DEF Range
<1> QED BY <1>1, <1>4, <1>5, Zenon

LEMMA GlueHasAll ==
  ASSUME NEW T, NEW s, NEW n \in Nat, \A i \in 1..n : s[i] \in Seq(T), NEW f, Glues(s, f, n),
         NEW i \in 1..n
  PROVE  f[i] \in Seq(T) /\ \A j \in 1..i : Range(s[j]) \subseteq Range(f[i])
<1> DEFINE Good(k) == f[k] \in Seq(T) /\ \A j \in 1..k : Range(s[j]) \subseteq Range(f[k])
           Bad == {k \in 1..n : ~Good(k)}
<1>1. SUFFICES ASSUME Bad # {} PROVE FALSE
  OBVIOUS
<1>2. PICK k \in Bad : \A l \in Bad : k <= l
  <2>1. Bad \subseteq Nat
    OBVIOUS
  <2> HIDE DEF Bad
  <2> QED BY <1>1, <2>1, LeastNumber
<1>3. k \in 1..n /\ f[k] = IF k = 1 THEN s[k] ELSE f[k - 1] \o s[k]
  BY <1>2 DEF Glues
<1>4. CASE k = 1
  <2>1. f[k] = s[k] /\ \A j \in 1..k : j = k
    BY <1>3, <1>4
  <2> QED BY <1>2, <1>3, <2>1
<1>5. CASE k # 1
  <2>1. k - 1 \in 1..n /\ ~(k <= k - 1) /\ \A j \in 1..k : j = k \/ j \in 1..(k - 1)
    BY <1>3, <1>5
  <2>2. Good(k - 1)
    BY <1>2, <2>1
  <2>3. f[k] = f[k - 1] \o s[k] /\ s[k] \in Seq(T)
    BY <1>3, <1>5
  <2>4. /\ f[k] \in Seq(T) /\ Range(f[k - 1]) \subseteq Range(f[k])
        /\ Range(s[k]) \subseteq Range(f[k])
    BY <2>2, <2>3, ConcatRange
  <2>5. ASSUME NEW j \in 1..k PROVE Range(s[j]) \subseteq Range(f[k])
    <3>1. CASE j = k
      BY <2>4, <3>1
    <3>2. CASE j \in 1..(k - 1)
      BY <2>2, <2>4, <3>2
    <3> QED BY <2>1, <3>1, <3>2
  <2> QED BY <1>2, <2>4, <2>5
<1> QED BY <1>4, <1>5

LEMMA FlattenHasAll ==
  ASSUME NEW T, NEW s \in Seq(Seq(T)), s # << >>
  PROVE  FlattenSeq(s) \in Seq(T) /\ \A i \in DOMAIN s : Range(s[i]) \subseteq Range(FlattenSeq(s))
<1> DEFINE n == Len(s)
           f == CHOOSE f : Glues(s, f, n)
<1>1. n \in Nat \ {0} /\ DOMAIN s = 1..n /\ \A i \in 1..n : s[i] \in Seq(T)
  BY LenProperties, EmptySeq, ElementOfSeq
<1>2. FlattenSeq(s) = f[n]
  BY <1>1 DEF FlattenSeq, Glues
<1>3. Glues(s, f, n)
  BY <1>1, GlueExists
<1> HIDE DEF f, n
<1>4. n \in Nat /\ n \in 1..n
  BY <1>1
<1>5. f[n] \in Seq(T) /\ \A j \in 1..n : Range(s[j]) \subseteq Range(f[n])
  BY <1>1, <1>3, <1>4, GlueHasAll, Zenon
<1> QED BY <1>1, <1>2, <1>5

\* The leaves a kill stops are all the leaves there are.
LEMMA EveryLeafIsStopped ==
  ASSUME NEW s, Tree(s)
  PROVE  /\ LeafOrder(s) \in Seq(Panes(s))
         /\ Leaves(s) \subseteq Range(LeafOrder(s))
<1> DEFINE each == [i \in DOMAIN s.tabs |-> s.tabs[i].leaves]
<1>1. /\ s.tabs \in Seq(Range(s.tabs)) /\ s.tabs # << >>
      /\ \A i \in DOMAIN s.tabs : s.tabs[i].leaves \in Seq(PanesOf(s.tabs[i]))
  <2>1. \E i \in DOMAIN s.tabs : s.tabs[i].id = s.active
    BY DEF Tree, TabIds
  <2>2. s.tabs # << >>
    BY <2>1
  <2> QED BY <2>2 DEF Tree, Tabs, IsTab
<1>2. ASSUME NEW i \in DOMAIN s.tabs PROVE s.tabs[i].leaves \in Seq(Panes(s))
  <2>1. PanesOf(s.tabs[i]) \subseteq Panes(s)
    BY DEF Panes
  <2> QED BY <1>1, <2>1
<1>3. /\ DOMAIN s.tabs = 1..Len(s.tabs) /\ Len(s.tabs) \in Nat
      /\ DOMAIN each = DOMAIN s.tabs
      /\ \A i \in DOMAIN s.tabs : each[i] = s.tabs[i].leaves
  BY <1>1, LenProperties
<1> HIDE DEF each
<1>4. each \in Seq(Seq(Panes(s))) /\ each # << >>
  <2>1. each \in [1..Len(s.tabs) -> Seq(Panes(s))]
    BY <1>2, <1>3 DEF each
  <2>2. each \in Seq(Seq(Panes(s)))
    BY <1>3, <2>1, SeqDef
  <2>3. DOMAIN each # {}
    BY <1>1, <1>3, EmptySeq
  <2> QED BY <2>2, <2>3
<1>5. /\ FlattenSeq(each) \in Seq(Panes(s))
      /\ \A i \in DOMAIN s.tabs : Range(s.tabs[i].leaves) \subseteq Range(FlattenSeq(each))
  BY <1>3, <1>4, FlattenHasAll
<1>6. LeafOrder(s) = FlattenSeq(each)
  BY DEF LeafOrder, each
<1> QED BY <1>5, <1>6 DEF Leaves, LeavesOf

\* Once killed, the daemon holds no process of the session it started with.
KillInv ==
  daemon = "killed" /\ Default \notin stopFailed =>
    \A p : Key(Default, p) \notin DOMAIN processes

LEMMA SessionKillStops ==
  ASSUME HostInv, KillInv, NEW named \in Names, SessionKill(named)
  PROVE  KillInv'
<1>1. daemon = "serving"
  BY DEF SessionKill
<1>2. CASE Refuse(named)
  BY <1>1, <1>2 DEF Refuse, KillInv
<1>3. CASE ~Refuse(named)
  <2> DEFINE leaves == LeafOrder(registry[Default])
             keys   == [i \in DOMAIN leaves |-> Key(Default, leaves[i])]
  <2>1. PICK outcome \in StopOutcomes(keys) : StopPanes(Default, leaves, outcome)
    BY <1>3, Zenon DEF SessionKill
  <2>2. Tree(registry[Default]) /\ MatchedAt(Default)
    BY <1>1 DEF HostInv, TreesInv, Matched
  <2>3. /\ leaves \in Seq(Panes(registry[Default]))
        /\ Leaves(registry[Default]) \subseteq Range(leaves)
    BY <2>2, EveryLeafIsStopped
  <2> HIDE DEF leaves
  <2>4. Len(keys) = Len(leaves) /\ DOMAIN leaves = 1..Len(leaves)
    <3>1. Len(leaves) \in Nat /\ DOMAIN leaves = 1..Len(leaves)
      BY <2>3, LenProperties
    <3>2. keys \in [1..Len(leaves) -> Range(keys)]
      BY <3>1 DEF Range
    <3>3. keys \in Seq(Range(keys))
      BY <3>1, <3>2, SeqDef
    <3>4. DOMAIN keys = 1..Len(leaves) /\ DOMAIN keys = 1..Len(keys) /\ Len(keys) \in Nat
      BY <3>1, <3>3, LenProperties
    <3> HIDE DEF keys
    <3> QED BY <3>1, <3>4
  <2> HIDE DEF keys
  <2>5. SUFFICES ASSUME Default \notin stopFailed', NEW p, Key(Default, p) \in DOMAIN processes'
                 PROVE  FALSE
    BY DEF KillInv
  <2>6. ~outcome.failed
    BY <2>1, <2>5 DEF StopPanes
  <2>7. outcome.stopped = Len(leaves)
    BY <2>1, <2>4, <2>6 DEF StopOutcomes
  <2>8. /\ DOMAIN processes' = DOMAIN processes \ {Key(Default, leaves[i]) : i \in DOMAIN leaves}
        /\ stopFailed' = stopFailed
    BY <2>1, <2>4, <2>6, <2>7 DEF StopPanes, Without
  <2>9. p \in Leaves(registry[Default])
    BY <2>2, <2>5, <2>8 DEF MatchedAt
  <2>10. PICK i \in DOMAIN leaves : leaves[i] = p
    BY <2>3, <2>9 DEF Range
  <2> QED BY <2>5, <2>8, <2>10
<1> QED BY <1>2, <1>3

LEMMA KillInvKeeps == HostInv /\ KillInv /\ [Next]_vars => KillInv'
<1> SUFFICES ASSUME HostInv, KillInv, [Next]_vars PROVE KillInv'
  OBVIOUS
<1>1. CASE UNCHANGED vars
  BY <1>1 DEF vars, KillInv
<1>2. ASSUME NEW k \in DOMAIN processes, ProcessExits(k) PROVE KillInv'
  BY <1>2 DEF ProcessExits, KillInv
<1>3. ASSUME NEW named \in Names, SessionKill(named) PROVE KillInv'
  BY <1>3, SessionKillStops
<1>4. ASSUME daemon = "serving", daemon' # "killed" PROVE KillInv'
  BY <1>4 DEF KillInv
<1>5. ASSUME NEW named \in Names, NEW target,
             \/ UnknownSession(named) \/ SessionNew(named)
             \/ PaneSplit(named, target) \/ TabNew(named, target)
             \/ TabClose(named, target) \/ TabSwitch(named, target)
             \/ Attach(named, target)
      PROVE  daemon = "serving" /\ daemon' # "killed"
  <2>1. daemon = "serving"
    BY <1>5, Zenon DEF UnknownSession, SessionNew, PaneSplit, TabNew, TabClose, TabSwitch,
                       Attach, Routed
  <2>2. daemon' = daemon \/ daemon' = "failed"
    BY <1>5, Zenon DEF UnknownSession, SessionNew, PaneSplit, TabNew, TabClose, TabSwitch,
                       Attach, Refuse, RefuseStart
  <2> QED BY <2>1, <2>2
<1>6. ASSUME NEW p, NEW size, HealthProbe \/ Resize(p, size)
      PROVE  daemon = "serving" /\ daemon' # "killed"
  BY <1>6 DEF HealthProbe, Resize, Routed
<1> QED BY <1>1, <1>2, <1>3, <1>4, <1>5, <1>6 DEF Next

\* However many tabs and splits the session has and whatever the host did before,
\* a kill whose stops succeed leaves none of its processes behind.
THEOREM KillAlwaysStopsDefault == Spec => []KillStopsDefault
<1>1. Init => KillInv
  BY DEF Init, KillInv
<1>2. HostInv /\ KillInv => KillStopsDefault
  <2> SUFFICES ASSUME HostInv, KillInv, daemon = "killed", Default \notin stopFailed,
                      NEW p \in Hosted(Default)
               PROVE  FALSE
    BY DEF KillStopsDefault
  <2>1. Key(Default, p) \in DOMAIN processes
    BY DEF Hosted, HostInv, KeysInv
  <2> QED BY <2>1 DEF KillInv
<1> QED BY <1>1, <1>2, HostStart, HostInvKeeps, KillInvKeeps, PTL DEF Spec
-----------------------------------------------------------------------------
(* Which session a command changes *)

\* A step that leaves every session but one as it was.
LeavesOthers(u) ==
  \A s \in DOMAIN registry : s # u => s \in DOMAIN registry' /\ registry'[s] = registry[s]

\* The step answers no client, changes no tree, or changes that of the session
\* it answers about.
Routes ==
  \/ registry' = registry
  \/ reply'.named = NoName
  \/ mode # "live" => LeavesOthers(reply'.named)

LEMMA EveryStepRoutes == [Next]_vars => Routes
<1> SUFFICES ASSUME [Next]_vars, registry' # registry PROVE Routes
  BY DEF Routes
<1>1. ASSUME NEW named \in Names, NEW refused, Answer(named, refused),
             LeavesOthers(Served(named))
      PROVE  Routes
  <2>1. reply'.named = named
    BY <1>1 DEF Answer
  <2>2. mode = "live" \/ named = NoName \/ Served(named) = named
    BY DEF Served
  <2> QED BY <1>1, <2>1, <2>2 DEF Routes
<1>2. ASSUME NEW s, NEW e, Accept(s, e) PROVE LeavesOthers(s)
  BY <1>2 DEF Accept, LeavesOthers
<1>3. ASSUME NEW named \in Names, SessionNew(named) PROVE Routes
  <2>1. /\ registry' = With(registry, named, InitialSession)
        /\ named \notin DOMAIN registry
        /\ Answer(named, FALSE)
    BY <1>3 DEF SessionNew, Refuse
  <2>2. reply'.named = named
    BY <2>1 DEF Answer
  <2> QED BY <2>1, <2>2 DEF With, Routes, LeavesOthers
<1>4. ASSUME NEW named \in Names, SessionKill(named) PROVE Routes
  <2>1. /\ \E e : Accept(Served(named), e)
        /\ Answer(named, FALSE)
    BY <1>4, Zenon DEF SessionKill, Refuse
  <2> QED BY <1>1, <1>2, <2>1
<1>5. ASSUME NEW named \in Names, NEW target, PaneSplit(named, target) PROVE Routes
  <2>1. /\ \E e : Accept(Served(named), e)
        /\ \E refused : Answer(named, refused)
    BY <1>5, Zenon DEF PaneSplit, Refuse, RefuseStart
  <2> QED BY <1>1, <1>2, <2>1
<1>6. ASSUME NEW named \in Names, NEW name, TabNew(named, name) PROVE Routes
  <2>1. /\ \E e, f : AcceptBoth(Served(named), e, f)
        /\ \E refused : Answer(named, refused)
    BY <1>6, Zenon DEF TabNew, Refuse, RefuseStart
  <2>2. LeavesOthers(Served(named))
    BY <2>1 DEF AcceptBoth, LeavesOthers
  <2> QED BY <1>1, <2>1, <2>2
<1>7. ASSUME NEW named \in Names, NEW name, TabClose(named, name) PROVE Routes
  <2>1. /\ \E e : Accept(Served(named), e)
        /\ \E refused : Answer(named, refused)
    BY <1>7, Zenon DEF TabClose, Refuse
  <2> QED BY <1>1, <1>2, <2>1
<1>8. ASSUME NEW named \in Names, NEW tab, TabSwitch(named, tab) PROVE Routes
  <2>1. /\ \E e : Accept(Served(named), e)
        /\ \E refused : Answer(named, refused)
    BY <1>8, Zenon DEF TabSwitch, Refuse
  <2> QED BY <1>1, <1>2, <2>1
<1>9. ASSUME NEW named \in Names, NEW target, Attach(named, target) PROVE Routes
  <2>1. /\ \E shown : registry' = [registry EXCEPT ![Served(named)] = shown]
        /\ \E refused : Answer(named, refused)
    BY <1>9, Zenon DEF Attach, Refuse
  <2>2. LeavesOthers(Served(named))
    BY <2>1 DEF LeavesOthers
  <2> QED BY <1>1, <2>1, <2>2
<1>10. ASSUME NEW p, NEW size, Resize(p, size) PROVE Routes
  BY <1>10 DEF Resize, Answer, Routes
<1> QED
  BY <1>3, <1>4, <1>5, <1>6, <1>7, <1>8, <1>9, <1>10
     DEF Next, vars, UnknownSession, Refuse, HealthProbe, ProcessExits

\* Behind the registry a command that names a session changes that one or none.
THEOREM OnlyTheNamedChanges == Spec => OnlyTheNamedSession
<1>1. Routes =>
        \A s \in DOMAIN registry :
          mode # "live" /\ reply'.named \notin {NoName, s}
            => s \in DOMAIN registry' /\ registry'[s] = registry[s]
  BY DEF Routes, LeavesOthers
<1>2. [Next]_vars =>
        [\A s \in DOMAIN registry :
           mode # "live" /\ reply'.named \notin {NoName, s}
             => s \in DOMAIN registry' /\ registry'[s] = registry[s]]_vars
  BY <1>1, EveryStepRoutes
<1> QED BY <1>2, PTL DEF Spec, OnlyTheNamedSession
=============================================================================
