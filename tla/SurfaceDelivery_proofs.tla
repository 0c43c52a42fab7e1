------------------------ MODULE SurfaceDelivery_proofs ------------------------
(***************************************************************************)
(* Proofs about SurfaceDelivery, for all values of its constants.          *)
(*                                                                         *)
(* NeverRejected is not inductive: whether a patch on the wire applies     *)
(* depends on the frames before it and on the cache they will meet.        *)
(* Holds(w, c, i, p, v) says what that is: a client whose cache has the    *)
(* versions c holds version v of pane p once it has read the first i       *)
(* frames of w.  The invariant then is that every frame on the wire fits   *)
(* what the client holds when the frame arrives, and that the write task's *)
(* known version is what the client holds once it has read everything.     *)
(*                                                                         *)
(* CacheOnlyMovesForward needs more: that the versions of a pane ascend    *)
(* along the whole path, from the client's cache over the wire, the write  *)
(* task and the channel to the session (InOrder, Ascending).               *)
(***************************************************************************)
EXTENDS SurfaceDelivery, TLAPS, FiniteSetTheorems, SequenceTheorems

Holds(w, c, i, p, v) ==
  \/ c[p] = v /\ \A k \in 1..i : w[k].pane # p
  \/ \E j \in 1..i : /\ w[j].pane = p /\ w[j].version = v
                     /\ \A k \in (j+1)..i : w[k].pane # p

\* Frame i of w fits what the client holds when it arrives.
Fits(w, c, i) ==
  /\ w[i].kind = "patch" => w[i].base # Absent /\ Holds(w, c, i-1, w[i].pane, w[i].base)
  /\ w[i].kind = "current" => Holds(w, c, i-1, w[i].pane, w[i].version)

AllFit(w, c) == \A i \in 1..Len(w) : Fits(w, c, i)

EndsWith(w, c, known) == \A p \in Panes : Holds(w, c, Len(w), p, known[p])

DeliveryInv ==
  /\ NeverRejected
  /\ client = "live" => EndsWith(wire, CachedVersions, written)
  /\ AllFit(wire, CachedVersions)
  /\ client # "live" => wire = <<>>

\* What the serve loop believes, what waits in the channel and what the write task
\* works on agree about every pane.
RoundInv ==
  /\ round \subseteq LivePanes(attached)
  /\ \A s \in Sessions, p \in Panes : panes[s][p].live => panes[s][p].version # Absent
AgreeOn(p) ==
  /\ latest_surfaces[p].version = Absent =>
       /\ latest_surfaces[p] = NoSignal /\ batch[p] = NoSignal
       /\ known_surface_versions[p] = written[p]
  /\ latest_surfaces[p].version # Absent =>
       known_surface_versions[p] = latest_surfaces[p].version
  /\ ~unseen /\ batch[p] # NoSignal => batch[p].version = latest_surfaces[p].version
  /\ ~unseen /\ batch[p] = NoSignal /\ latest_surfaces[p].version # Absent =>
       written[p] = latest_surfaces[p].version
AgreementInv ==
  /\ client = "live" => \A p \in Panes : AgreeOn(p)
  /\ client # "live" => NoConnection
-----------------------------------------------------------------------------
(* Type correctness *)

USE DEF Absent

LEMMA TerminalType ==
  ASSUME TypeOK, NEW s \in Sessions, NEW p \in Panes
  PROVE  TerminalOf(s, p) \in SUBSET Terminal
BY DEF TypeOK, TerminalOf, Terminal, Pane

LEMMA NoSignalType == NoSignal \in Signal /\ NoSignals \in [Panes -> Signal]
BY DEF NoSignal, NoSignals, Signal, Terminal

\* The variables of the write task and of the watch channel have their types in
\* every state: all operators that build signals and frames return such values.
LEMMA TypeInit == Init => TypeOK
<1> SUFFICES ASSUME Init PROVE TypeOK
  OBVIOUS
<1>1. panes \in [Sessions -> [Panes -> Pane]]
  BY DEF Init, Pane, Kinds
<1>2. latest_surfaces \in [Panes -> Signal] /\ batch \in [Panes -> Signal]
  BY NoSignalType DEF Init, NoConnection
<1>3. wire \in Seq(Frame)
  BY DEF Init
<1>4. cache \in [Panes -> [version : Nat, shows : SUBSET Terminal]]
  BY DEF Init, Nothing
<1> QED BY <1>1, <1>2, <1>3, <1>4 DEF Init, NoConnection, TypeOK

LEMMA TypeSession == TypeOK /\ SessionStep => TypeOK'
<1> SUFFICES ASSUME TypeOK, NEW s \in Sessions,
                    \/ \E p \in Panes, kind \in Kinds : AdvanceSurface(s, p, kind)
                    \/ \E q \in Panes : NewTab(s, q)
                    \/ \E p, q \in Panes : SplitPane(s, p, q)
                    \/ \E closing \in SUBSET Panes : CloseTab(s, closing)
             PROVE  TypeOK'
  BY DEF SessionStep
<1>1. ASSUME NEW p \in Panes, panes[s][p] \in Pane, NEW kind \in Kinds
      PROVE  Advanced(panes[s][p], kind) \in Pane
  BY <1>1 DEF Advanced, Pane
<1>2. ASSUME NEW p \in Panes, panes[s][p] \in Pane
      PROVE  Closed(panes[s][p]) \in Pane /\ NewPane(panes[s][p].gen) \in Pane
  BY <1>2 DEF Closed, NewPane, Pane, Kinds
<1>3. /\ panes \in [Sessions -> [Panes -> Pane]]
      /\ panes[s] \in [Panes -> Pane]
      /\ \A p \in Panes : panes[s][p] \in Pane
  BY DEF TypeOK
<1> DEFINE Goal == /\ panes' \in [Sessions -> [Panes -> Pane]]
                   /\ UNCHANGED <<daemon, client, attached, attaches, conn, wire, cache>>
<1>4. SUFFICES Goal
  BY DEF TypeOK, conn
<1>5. ASSUME NEW p \in Panes, NEW kind \in Kinds, AdvanceSurface(s, p, kind) PROVE Goal
  BY <1>1, <1>3, <1>5 DEF AdvanceSurface
<1>6. ASSUME NEW q \in Panes, NewTab(s, q) PROVE Goal
  BY <1>2, <1>3, <1>6 DEF NewTab
<1>7. ASSUME NEW p \in Panes, NEW q \in Panes, SplitPane(s, p, q) PROVE Goal
  <2>1. Advanced(panes[s][p], "full") \in Pane /\ NewPane(panes[s][q].gen) \in Pane
    BY <1>1, <1>2, <1>3 DEF Kinds
  <2>2. p # q
    BY <1>7 DEF SplitPane
  <2>3. panes' = [panes EXCEPT ![s] = [panes[s] EXCEPT ![p] = Advanced(panes[s][p], "full"),
                                                       ![q] = NewPane(panes[s][q].gen)]]
    BY <1>3, <1>7, <2>2 DEF SplitPane
  <2> QED BY <1>3, <1>7, <2>1, <2>3 DEF SplitPane
<1>8. ASSUME NEW closing \in SUBSET Panes, CloseTab(s, closing) PROVE Goal
  BY <1>2, <1>3, <1>8 DEF CloseTab
<1> QED BY <1>5, <1>6, <1>7, <1>8

LEMMA TypeAttach ==
  ASSUME TypeOK, NEW s \in Sessions, NEW p \in Panes, Attach(s, p)
  PROVE  TypeOK'
<1>1. AttachFrame(s, p, cache[p].version) \in Frame
  BY TerminalType DEF AttachFrame, Frame, Pane, TypeOK
<1>2. CachedVersions \in [Panes -> Nat]
  BY DEF CachedVersions, TypeOK
<1> QED BY <1>1, <1>2 DEF TypeOK, Pane, Attach

LEMMA TypeSignal ==
  ASSUME TypeOK, NEW p \in Panes, SignalSurface(p)
  PROVE  TypeOK'
<1> DEFINE pane == panes[attached][p]
           signal == [version |-> pane.version,
                      snapshot_required |-> latest_surfaces[p].snapshot_required,
                      has_patch |-> pane.kind # "full",
                      shows |-> TerminalOf(attached, p)]
           signals == [latest_surfaces EXCEPT ![p] = signal]
<1>1. signal \in Signal
  BY TerminalType DEF Signal, Pane, TypeOK
<1>2. signals \in [Panes -> Signal]
  BY <1>1 DEF TypeOK
<1>3. Degraded(signals) \in [Panes -> Signal]
  BY <1>2, NoSignalType DEF Degraded, Signal
<1>4. SendSignals(p, signals)
  BY DEF SignalSurface
<1> HIDE DEF signals
<1>5. latest_surfaces' \in [Panes -> Signal]
  <2>1. latest_surfaces' \in {signals, Degraded(signals), latest_surfaces}
    BY <1>4 DEF SendSignals
  <2> QED BY <2>1, <1>2, <1>3 DEF TypeOK
<1>6. /\ known_surface_versions' \in [Panes -> Nat] /\ round' \subseteq Panes
      /\ unseen' \in BOOLEAN /\ daemon' \in {"serving", "failed"}
  <2>1. /\ round' \subseteq Panes /\ unseen' \in BOOLEAN /\ daemon' \in {"serving", "failed"}
    BY <1>4 DEF SendSignals, TypeOK
  <2>2. panes[attached][p].version \in Nat
    BY DEF TypeOK, Pane
  <2>3. \/ known_surface_versions' = known_surface_versions
        \/ known_surface_versions' =
             [known_surface_versions EXCEPT ![p] = panes[attached][p].version]
    BY <1>4 DEF SendSignals
  <2> QED BY <2>1, <2>2, <2>3 DEF TypeOK
<1> QED BY <1>5, <1>6 DEF TypeOK, SignalSurface

LEMMA TypeWrite ==
  ASSUME TypeOK, NEW p \in Panes, WriteSurface(p)
  PROVE  TypeOK'
<1>1. SignalFrame(p, batch[p], written[p]) \in Frame
  BY DEF SignalFrame, PatchApplies, Frame, Signal, TypeOK
<1>2. written[p] \in Nat /\ batch[p] \in Signal /\ batch[p].version \in Nat
  BY DEF TypeOK, Signal
<1>3. batch' \in [Panes -> Signal]
  BY NoSignalType DEF WriteSurface, TypeOK
<1>4. written' \in [Panes -> Nat]
  BY <1>2 DEF WriteSurface, TypeOK
<1>5. wire' \in Seq(Frame)
  <2>1. wire \in Seq(Frame)
    BY DEF TypeOK
  <2>2. wire' = wire \/ wire' = Append(wire, SignalFrame(p, batch[p], written[p]))
    BY DEF WriteSurface
  <2> QED BY <1>1, <2>1, <2>2
<1> QED BY <1>3, <1>4, <1>5 DEF TypeOK, WriteSurface

LEMMA TypeReceive ==
  ASSUME TypeOK, ReceiveFrame
  PROVE  TypeOK'
<1>1. Head(wire) \in Frame /\ Tail(wire) \in Seq(Frame)
  BY DEF TypeOK, ReceiveFrame
<1>2. Applied(Head(wire)) \in [version : Nat, shows : SUBSET Terminal]
  <2> DEFINE f == Head(wire)
  <2>1. /\ f.kind \in {"current", "snapshot", "patch"} /\ f.pane \in Panes
        /\ f.version \in Nat /\ f.shows \in SUBSET Terminal
        /\ cache[f.pane] \in [version : Nat, shows : SUBSET Terminal]
    BY <1>1 DEF Frame, TypeOK
  <2> HIDE DEF f
  <2>2. Applied(f) \in [version : Nat, shows : SUBSET Terminal]
    BY <2>1 DEF Applied
  <2> QED BY <2>2 DEF f
<1>3. wire' \in Seq(Frame)
  BY <1>1 DEF ReceiveFrame
<1>4. cache' \in [Panes -> [version : Nat, shows : SUBSET Terminal]]
  BY <1>2 DEF ReceiveFrame, TypeOK
<1>5. client' \in {"detached", "live", "rejected"}
  BY DEF ReceiveFrame, TypeOK
<1>6. UNCHANGED <<panes, daemon, attached, attaches, known_surface_versions, round,
                  latest_surfaces, unseen, batch, written>>
  BY DEF ReceiveFrame, conn
<1> QED BY <1>3, <1>4, <1>5, <1>6 DEF TypeOK

LEMMA TypeNext == TypeOK /\ [Next]_vars => TypeOK'
<1> SUFFICES ASSUME TypeOK, [Next]_vars PROVE TypeOK'
  OBVIOUS
<1>1. CASE SessionStep
  BY <1>1, TypeSession
<1>2. CASE \E s \in Sessions, p \in Panes : Attach(s, p)
  BY <1>2, TypeAttach
<1>3. CASE StartRound
  BY <1>3 DEF TypeOK, StartRound, LivePanes
<1>4. CASE \E p \in Panes : SignalSurface(p)
  BY <1>4, TypeSignal
<1>5. CASE TakeSignals
  BY <1>5 DEF TypeOK, TakeSignals
<1>6. CASE \E p \in Panes : WriteSurface(p)
  BY <1>6, TypeWrite
<1>7. CASE ReceiveFrame
  BY <1>7, TypeReceive
<1>8. CASE Detach
  <2>1. wire' \in Seq(Frame) /\ client' \in {"detached", "live", "rejected"}
    BY <1>8 DEF Detach
  <2>2. known_surface_versions' \in [Panes -> Nat] /\ written' \in [Panes -> Nat]
    BY <1>8 DEF Detach
  <2>3. latest_surfaces' \in [Panes -> Signal] /\ batch' \in [Panes -> Signal]
    BY <1>8, NoSignalType DEF Detach
  <2>4. round' \subseteq Panes /\ unseen' \in BOOLEAN
    BY <1>8 DEF Detach
  <2> QED BY <1>8, <2>1, <2>2, <2>3, <2>4 DEF TypeOK, Detach
<1>9. CASE UNCHANGED vars
  BY <1>9 DEF TypeOK, vars, conn
<1> QED BY <1>1, <1>2, <1>3, <1>4, <1>5, <1>6, <1>7, <1>8, <1>9 DEF Next

\* Surface versions, signals, frames and the client's cache are well typed in every
\* reachable state, whatever the sessions, panes, sizes and bounds are.
THEOREM TypeCorrect == Spec => []TypeOK
BY TypeInit, TypeNext, PTL DEF Spec
-----------------------------------------------------------------------------
(* Holds, AllFit and EndsWith as the wire grows and shrinks *)

\* A frame written last decides what the client ends up with, for its pane only.
LEMMA HoldsAppend ==
  ASSUME NEW w \in Seq(Frame), NEW c \in [Panes -> Nat], NEW f \in Frame,
         NEW p \in Panes, NEW v \in Nat,
         IF f.pane = p THEN f.version = v ELSE Holds(w, c, Len(w), p, v)
  PROVE  Holds(Append(w, f), c, Len(w) + 1, p, v)
<1> DEFINE u == Append(w, f)
           n == Len(w)
<1>1. /\ n \in Nat /\ u[n+1] = f
      /\ \A k \in 1..n : u[k] = w[k]
  OBVIOUS
<1> HIDE DEF u, n
<1>2. CASE f.pane = p
  <2>1. /\ n+1 \in 1..(n+1) /\ u[n+1].pane = p /\ u[n+1].version = v
        /\ \A k \in (n+2)..(n+1) : u[k].pane # p
    BY <1>1, <1>2
  <2> QED BY <2>1, <1>1 DEF Holds, u, n
<1>3. CASE f.pane # p
  <2>1. CASE c[p] = v /\ \A k \in 1..n : w[k].pane # p
    BY <1>1, <1>3, <2>1 DEF Holds, u, n
  <2>2. CASE \E j \in 1..n : /\ w[j].pane = p /\ w[j].version = v
                             /\ \A k \in (j+1)..n : w[k].pane # p
    <3>1. PICK j \in 1..n : /\ w[j].pane = p /\ w[j].version = v
                            /\ \A k \in (j+1)..n : w[k].pane # p
      BY <2>2
    <3>2. /\ j \in 1..(n+1) /\ u[j].pane = p /\ u[j].version = v
          /\ \A k \in (j+1)..(n+1) : u[k].pane # p
      BY <1>1, <1>3, <3>1
    <3> QED BY <3>2, <1>1 DEF Holds, u, n
  <2> QED BY <1>3, <2>1, <2>2 DEF Holds, n
<1> QED BY <1>2, <1>3

\* Frames written later do not change what the client holds before them.
LEMMA HoldsBefore ==
  ASSUME NEW w \in Seq(Frame), NEW c \in [Panes -> Nat], NEW f \in Frame,
         NEW p \in Panes, NEW v \in Nat, NEW i \in 0..Len(w), Holds(w, c, i, p, v)
  PROVE  Holds(Append(w, f), c, i, p, v)
<1>1. \A k \in 1..i : Append(w, f)[k] = w[k]
  OBVIOUS
<1> QED BY <1>1 DEF Holds

\* Reading the first frame leaves the client with what it would hold anyway.
LEMMA HoldsTail ==
  ASSUME NEW w \in Seq(Frame), w # <<>>, NEW c \in [Panes -> Nat], NEW d \in [Panes -> Nat],
         d = [c EXCEPT ![w[1].pane] = w[1].version],
         NEW p \in Panes, NEW v \in Nat, NEW i \in 1..Len(w), Holds(w, c, i, p, v)
  PROVE  Holds(Tail(w), d, i-1, p, v)
<1> DEFINE u == Tail(w)
<1>1. Len(w) \in Nat /\ 1 \in 1..Len(w)
  OBVIOUS
<1>2. \A k \in 1..(i-1) : u[k] = w[k+1]
  <2>1. \A k \in 1..(Len(w)-1) : Tail(w)[k] = w[k+1]
    BY HeadTailProperties
  <2> QED BY <2>1, <1>1
<1>3. w[1] \in Frame
  BY <1>1
<1>4. /\ Len(w) \in Nat /\ \A k \in 1..(i-1) : u[k] = w[k+1]
      /\ w[1] \in Frame /\ w[1].pane \in Panes
  BY <1>1, <1>2, <1>3 DEF Frame
<1> HIDE DEF u
<1>5. CASE c[p] = v /\ \A k \in 1..i : w[k].pane # p
  <2>1. w[1].pane # p /\ d[p] = v
    BY <1>4, <1>5
  <2>2. ASSUME NEW k \in 1..(i-1) PROVE u[k].pane # p
    <3>1. k+1 \in 1..i /\ u[k] = w[k+1]
      BY <1>4
    <3> QED BY <1>5, <3>1
  <2> QED BY <2>1, <2>2 DEF Holds, u
<1>6. ASSUME NEW j \in 1..i, w[j].pane = p, w[j].version = v,
             \A k \in (j+1)..i : w[k].pane # p
      PROVE  Holds(u, d, i-1, p, v)
  <2>1. CASE j = 1
    <3>1. d[p] = v
      BY <1>4, <1>6, <2>1
    <3>2. \A k \in 1..(i-1) : u[k].pane # p
      BY <1>4, <1>6, <2>1
    <3> QED BY <3>1, <3>2 DEF Holds
  <2>2. CASE j # 1
    <3>1. j-1 \in 1..(i-1) /\ (j-1)+1 = j
      BY <2>2
    <3>2. u[j-1] = w[j]
      BY <1>4, <3>1
    <3>3. ASSUME NEW k \in ((j-1)+1)..(i-1) PROVE u[k].pane # p
      <4>1. k \in 1..(i-1) /\ k+1 \in (j+1)..i
        BY <3>1
      <4> QED BY <1>4, <1>6, <4>1
    <3> QED BY <1>6, <3>1, <3>2, <3>3 DEF Holds
  <2> QED BY <2>1, <2>2
<1> QED BY <1>5, <1>6 DEF Holds, u
LEMMA CachedType == TypeOK => CachedVersions \in [Panes -> Nat]
BY DEF CachedVersions, TypeOK

-----------------------------------------------------------------------------
(* No frame is ever rejected *)

\* Writing a frame that fits the end of the wire keeps the delivery invariant.
LEMMA FitsAppend ==
  ASSUME NEW w \in Seq(Frame), NEW c \in [Panes -> Nat], NEW f \in Frame,
         NEW known \in [Panes -> Nat], AllFit(w, c), EndsWith(w, c, known),
         f.kind = "patch" => f.base # Absent /\ f.base = known[f.pane],
         f.kind = "current" => f.version = known[f.pane]
  PROVE  /\ AllFit(Append(w, f), c)
         /\ EndsWith(Append(w, f), c, [known EXCEPT ![f.pane] = f.version])
<1> DEFINE u == Append(w, f)
           n == Len(w)
<1>1. /\ n \in Nat /\ Len(u) = n+1 /\ u[n+1] = f
      /\ \A k \in 1..n : u[k] = w[k] /\ w[k] \in Frame
      /\ f.pane \in Panes /\ f.base \in Nat /\ f.version \in Nat
  <2>1. f.pane \in Panes /\ f.base \in Nat /\ f.version \in Nat
    BY DEF Frame
  <2>2. /\ n \in Nat /\ Len(u) = n+1 /\ u[n+1] = f
        /\ \A k \in 1..n : u[k] = w[k]
    OBVIOUS
  <2>3. \A k \in 1..n : w[k] \in Frame
    OBVIOUS
  <2> QED BY <2>1, <2>2, <2>3
<1>2. ASSUME NEW i \in 1..n PROVE Fits(u, c, i)
  <2>1. i-1 \in 0..n /\ w[i].pane \in Panes /\ w[i].base \in Nat /\ w[i].version \in Nat
    <3>1. w[i] \in Frame
      BY <1>1
    <3>2. i-1 \in 0..n
      BY <1>1
    <3> QED BY <3>1, <3>2 DEF Frame
  <2>2. Fits(w, c, i)
    BY DEF AllFit
  <2>3. Holds(w, c, i-1, w[i].pane, w[i].base) => Holds(u, c, i-1, w[i].pane, w[i].base)
    BY <2>1, HoldsBefore
  <2>4. Holds(w, c, i-1, w[i].pane, w[i].version) => Holds(u, c, i-1, w[i].pane, w[i].version)
    BY <2>1, HoldsBefore
  <2>5. u[i] = w[i]
    BY <1>1
  <2> HIDE DEF u
  <2> QED BY <2>2, <2>3, <2>4, <2>5 DEF Fits
<1>3. Fits(u, c, n+1)
  <2>1. Holds(w, c, n, f.pane, known[f.pane])
    BY <1>1 DEF EndsWith
  <2>2. Holds(u, c, n, f.pane, known[f.pane])
    <3>1. n \in 0..Len(w) /\ f.pane \in Panes /\ known[f.pane] \in Nat
      BY <1>1
    <3> HIDE DEF n
    <3> QED BY <2>1, <3>1, HoldsBefore
  <2>3. (n+1)-1 = n
    BY <1>1
  <2> HIDE DEF u, n
  <2> QED BY <1>1, <2>2, <2>3 DEF Fits
<1>4. ASSUME NEW p \in Panes
      PROVE  Holds(u, c, n+1, p, [known EXCEPT ![f.pane] = f.version][p])
  <2> DEFINE v == [known EXCEPT ![f.pane] = f.version][p]
  <2>1. v \in Nat /\ (f.pane = p => v = f.version) /\ (f.pane # p => v = known[p])
    BY <1>1
  <2>2. Holds(w, c, n, p, known[p])
    BY DEF EndsWith
  <2> HIDE DEF v
  <2>3. Holds(u, c, n+1, p, v)
    BY <2>1, <2>2, HoldsAppend
  <2> QED BY <2>3 DEF v
<1>5. AllFit(u, c)
  <2>1. \A i \in 1..(n+1) : i \in 1..n \/ i = n+1
    BY <1>1
  <2> QED BY <1>1, <1>2, <1>3, <2>1 DEF AllFit
<1> QED BY <1>1, <1>4, <1>5 DEF EndsWith

\* Reading a fitting frame keeps the rest of the wire fitting.
LEMMA FitsTail ==
  ASSUME NEW w \in Seq(Frame), w # <<>>, NEW c \in [Panes -> Nat], NEW d \in [Panes -> Nat],
         d = [c EXCEPT ![w[1].pane] = w[1].version],
         NEW known \in [Panes -> Nat], AllFit(w, c), EndsWith(w, c, known)
  PROVE  AllFit(Tail(w), d) /\ EndsWith(Tail(w), d, known)
<1> DEFINE u == Tail(w)
<1>1. /\ Len(w) \in Nat \ {0} /\ Len(u) = Len(w) - 1 /\ u \in Seq(Frame)
      /\ \A i \in 1..Len(u) : u[i] = w[i+1]
  BY HeadTailProperties
<1>2. ASSUME NEW i \in 1..Len(u) PROVE Fits(u, d, i)
  <2>1. i \in 1..Len(w) /\ i+1 \in 1..Len(w) /\ (i+1)-1 = i
    BY <1>1
  <2>2. w[i+1] \in Frame /\ u[i] = w[i+1]
    BY <1>1, <2>1
  <2>3. w[i+1].pane \in Panes /\ w[i+1].base \in Nat /\ w[i+1].version \in Nat
    BY <2>2 DEF Frame
  <2>4. Fits(w, c, i+1)
    BY <2>1 DEF AllFit
  <2>5. Holds(w, c, i, w[i+1].pane, w[i+1].base) => Holds(u, d, i-1, w[i+1].pane, w[i+1].base)
    BY <2>1, <2>3, HoldsTail
  <2>6. Holds(w, c, i, w[i+1].pane, w[i+1].version)
          => Holds(u, d, i-1, w[i+1].pane, w[i+1].version)
    BY <2>1, <2>3, HoldsTail
  <2> HIDE DEF u
  <2> QED BY <2>1, <2>2, <2>4, <2>5, <2>6 DEF Fits
<1>3. ASSUME NEW p \in Panes PROVE Holds(u, d, Len(u), p, known[p])
  <2>1. Holds(w, c, Len(w), p, known[p]) /\ Len(w) \in 1..Len(w)
    BY <1>1 DEF EndsWith
  <2>2. Holds(u, d, Len(w)-1, p, known[p])
    BY <2>1, HoldsTail
  <2> QED BY <1>1, <2>2
<1> QED BY <1>2, <1>3 DEF AllFit, EndsWith

LEMMA DeliveryInit == Init => DeliveryInv
BY DEF Init, DeliveryInv, NeverRejected, AllFit

LEMMA DeliveryAttach ==
  ASSUME TypeOK, DeliveryInv, NEW s \in Sessions, NEW p \in Panes, Attach(s, p)
  PROVE  DeliveryInv'
<1> DEFINE f == AttachFrame(s, p, cache[p].version)
           c == CachedVersions
<1>1. c \in [Panes -> Nat] /\ <<>> \in Seq(Frame) /\ c[p] = cache[p].version
  BY CachedType DEF CachedVersions
<1>2. /\ f \in Frame /\ f.pane = p /\ f.version = panes[s][p].version
      /\ f.kind = "patch" => f.base # Absent /\ f.base = c[p]
      /\ f.kind = "current" => f.version = c[p]
  <2>1. TerminalOf(s, p) \in SUBSET Terminal /\ panes[s][p].version \in Nat
    BY TerminalType DEF TypeOK, Pane
  <2> QED BY <1>1, <2>1 DEF AttachFrame, Frame
<1>3. AllFit(<<>>, c) /\ EndsWith(<<>>, c, c)
  BY DEF AllFit, EndsWith, Holds
<1>4. /\ wire' = Append(<<>>, f) /\ UNCHANGED cache /\ client' = "live"
      /\ written' = [c EXCEPT ![f.pane] = f.version]
  BY <1>2 DEF Attach
<1> HIDE DEF f
<1>5. c' = c
  BY <1>4 DEF CachedVersions
<1> HIDE DEF c
<1>6. AllFit(wire', c) /\ EndsWith(wire', c, written')
  BY <1>1, <1>2, <1>3, <1>4, FitsAppend
<1> QED BY <1>4, <1>5, <1>6 DEF DeliveryInv, NeverRejected, AllFit, EndsWith, c

LEMMA DeliveryWrite ==
  ASSUME TypeOK, DeliveryInv, NEW p \in Panes, WriteSurface(p)
  PROVE  DeliveryInv'
<1> DEFINE f == SignalFrame(p, batch[p], written[p])
           c == CachedVersions
<1>1. /\ c \in [Panes -> Nat] /\ wire \in Seq(Frame) /\ written \in [Panes -> Nat]
      /\ AllFit(wire, c) /\ EndsWith(wire, c, written)
  BY CachedType DEF TypeOK, DeliveryInv, WriteSurface
<1>2. /\ f \in Frame /\ f.pane = p /\ f.version = batch[p].version
      /\ f.kind = "patch" => f.base # Absent /\ f.base = written[p]
      /\ f.kind # "current"
  <2>1. batch[p] \in Signal /\ written[p] \in Nat
    BY DEF TypeOK
  <2> QED BY <2>1 DEF SignalFrame, PatchApplies, Frame, Signal
<1>3. UNCHANGED cache /\ client = "live" /\ client' = "live"
  BY DEF WriteSurface
<1>4. \/ wire' = wire /\ written' = written
      \/ wire' = Append(wire, f) /\ written' = [written EXCEPT ![f.pane] = f.version]
  BY <1>2 DEF WriteSurface
<1> HIDE DEF f
<1>5. c' = c
  BY <1>3 DEF CachedVersions
<1> HIDE DEF c
<1>6. AllFit(wire', c) /\ EndsWith(wire', c, written')
  <2>1. /\ AllFit(Append(wire, f), c)
        /\ EndsWith(Append(wire, f), c, [written EXCEPT ![f.pane] = f.version])
    BY <1>1, <1>2, FitsAppend
  <2> QED BY <1>1, <1>4, <2>1
<1> QED BY <1>3, <1>5, <1>6 DEF DeliveryInv, NeverRejected, AllFit, EndsWith, c

LEMMA DeliveryReceive ==
  ASSUME TypeOK, DeliveryInv, ReceiveFrame
  PROVE  DeliveryInv'
<1> DEFINE f == Head(wire)
           c == CachedVersions
<1>1. /\ c \in [Panes -> Nat] /\ wire \in Seq(Frame) /\ wire # <<>>
      /\ written \in [Panes -> Nat]
      /\ AllFit(wire, c) /\ EndsWith(wire, c, written) /\ client = "live"
  BY CachedType DEF TypeOK, DeliveryInv, ReceiveFrame
<1>2. /\ f = wire[1] /\ f \in Frame /\ f.pane \in Panes /\ 1 \in 1..Len(wire)
      /\ cache[f.pane].version = c[f.pane]
  <2>1. f = wire[1] /\ f \in Frame /\ 1 \in 1..Len(wire)
    BY <1>1
  <2>2. f.pane \in Panes
    BY <2>1 DEF Frame
  <2> QED BY <2>1, <2>2 DEF CachedVersions
<1>3. /\ f.kind = "patch" => f.base # Absent /\ c[f.pane] = f.base
      /\ f.kind = "current" => c[f.pane] = f.version
  <2>1. Fits(wire, c, 1)
    BY <1>1, <1>2 DEF AllFit
  <2>2. \A v \in Nat : Holds(wire, c, 0, f.pane, v) => c[f.pane] = v
    BY DEF Holds
  <2> QED BY <1>2, <2>1, <2>2 DEF Fits, Frame
<1>4. f.kind \in {"current", "snapshot", "patch"} /\ f.version \in Nat
  BY <1>2 DEF Frame
<1> HIDE DEF f, c
<1>5. Acceptable(f)
  BY <1>2, <1>3, <1>4 DEF Acceptable
<1>6. Applied(f).version = f.version
  BY <1>2, <1>3, <1>4 DEF Applied
<1>7. /\ wire' = Tail(wire) /\ client' = "live" /\ UNCHANGED written
      /\ cache' = [cache EXCEPT ![f.pane] = Applied(f)]
  BY <1>1, <1>5 DEF ReceiveFrame, conn, f
<1>8. c' = [c EXCEPT ![wire[1].pane] = wire[1].version] /\ c' \in [Panes -> Nat]
  <2>1. cache \in [Panes -> [version : Nat, shows : SUBSET Terminal]]
    BY DEF TypeOK
  <2> QED BY <1>2, <1>4, <1>6, <1>7, <2>1 DEF CachedVersions, c
<1>9. AllFit(Tail(wire), c') /\ EndsWith(Tail(wire), c', written)
  BY <1>1, <1>8, FitsTail
<1> QED BY <1>7, <1>9 DEF DeliveryInv, NeverRejected, AllFit, EndsWith, c

LEMMA DeliveryNext == TypeOK /\ DeliveryInv /\ [Next]_vars => DeliveryInv'
<1> SUFFICES ASSUME TypeOK, DeliveryInv, [Next]_vars PROVE DeliveryInv'
  OBVIOUS
<1>1. ASSUME UNCHANGED <<client, wire, written, cache>> PROVE DeliveryInv'
  BY <1>1 DEF DeliveryInv, NeverRejected, AllFit, EndsWith, CachedVersions
<1>2. CASE SessionStep
  BY <1>1, <1>2 DEF SessionStep, AdvanceSurface, NewTab, SplitPane, CloseTab, conn
<1>3. CASE \E s \in Sessions, p \in Panes : Attach(s, p)
  BY <1>3, DeliveryAttach
<1>4. CASE StartRound
  BY <1>1, <1>4 DEF StartRound
<1>5. CASE \E p \in Panes : SignalSurface(p)
  BY <1>1, <1>5 DEF SignalSurface
<1>6. CASE TakeSignals
  BY <1>1, <1>6 DEF TakeSignals
<1>7. CASE \E p \in Panes : WriteSurface(p)
  BY <1>7, DeliveryWrite
<1>8. CASE ReceiveFrame
  BY <1>8, DeliveryReceive
<1>9. CASE Detach
  BY <1>9 DEF Detach, DeliveryInv, NeverRejected, AllFit
<1>10. CASE UNCHANGED vars
  BY <1>1, <1>10 DEF vars, conn
<1> QED BY <1>2, <1>3, <1>4, <1>5, <1>6, <1>7, <1>8, <1>9, <1>10 DEF Next

\* No client ever meets a patch on a foreign base or a `Current` for a version it
\* lacks, whatever the rounds of the serve loop, the write task, reconnects, reused
\* pane ids and session switches do.
THEOREM FramesAlwaysApply == Spec => []NeverRejected
<1>1. Init => TypeOK /\ DeliveryInv
  BY TypeInit, DeliveryInit
<1>2. TypeOK /\ DeliveryInv /\ [Next]_vars => (TypeOK /\ DeliveryInv)'
  BY TypeNext, DeliveryNext
<1>3. DeliveryInv => NeverRejected
  BY DEF DeliveryInv
<1> QED BY <1>1, <1>2, <1>3, PTL DEF Spec
-----------------------------------------------------------------------------
(* Nothing the serve loop signalled is lost *)

\* Live panes have a version, and the panes of a round are live: the session does
\* not change while a round runs.
LEMMA RoundInit == Init => RoundInv
<1> SUFFICES ASSUME Init PROVE RoundInv
  OBVIOUS
<1>1. ASSUME NEW s \in Sessions, NEW p \in Panes, panes[s][p].live
      PROVE  panes[s][p].version # Absent
  <2>1. p = RootPane
    BY <1>1 DEF Init
  <2> QED BY <2>1 DEF Init
<1>2. round = {}
  BY DEF Init, NoConnection
<1> QED BY <1>1, <1>2 DEF RoundInv

LEMMA RoundNext == TypeOK /\ RoundInv /\ AgreementInv /\ [Next]_vars => RoundInv'
<1> SUFFICES ASSUME TypeOK, RoundInv, AgreementInv, [Next]_vars PROVE RoundInv'
  OBVIOUS
<1>1. \A s \in Sessions, p \in Panes : panes[s][p] \in Pane /\ panes[s][p].version \in Nat
  BY DEF TypeOK, Pane
<1>2. panes \in [Sessions -> [Panes -> Pane]] /\ attached \in Sessions
  BY DEF TypeOK
<1>3. ASSUME UNCHANGED <<panes, attached>>, round' \subseteq round PROVE RoundInv'
  BY <1>3 DEF RoundInv, LivePanes
<1>4. CASE SessionStep
  <2>1. PICK s \in Sessions :
          \/ \E p \in Panes, kind \in Kinds : AdvanceSurface(s, p, kind)
          \/ \E q \in Panes : NewTab(s, q)
          \/ \E p, q \in Panes : SplitPane(s, p, q)
          \/ \E closing \in SUBSET Panes : CloseTab(s, closing)
    BY <1>4 DEF SessionStep
  <2>2. /\ UNCHANGED <<attached, round>> /\ (s = attached => round = {})
        /\ \A t \in Sessions : t # s => panes'[t] = panes[t]
    BY <2>1, <1>2 DEF AdvanceSurface, NewTab, SplitPane, CloseTab, SessionMayChange, conn
  <2>3. \A q \in Panes : panes'[s][q].live => panes'[s][q].version # Absent
    <3>1. ASSUME NEW p \in Panes, NEW kind \in Kinds, AdvanceSurface(s, p, kind) PROVE <2>3
      BY <1>1, <1>2, <3>1 DEF AdvanceSurface, Advanced, RoundInv
    <3>2. ASSUME NEW q \in Panes, NewTab(s, q) PROVE <2>3
      BY <1>1, <1>2, <3>2 DEF NewTab, NewPane, RoundInv
    <3>3. ASSUME NEW p \in Panes, NEW q \in Panes, SplitPane(s, p, q) PROVE <2>3
      BY <1>1, <1>2, <3>3 DEF SplitPane, Advanced, NewPane, RoundInv
    <3>4. ASSUME NEW closing \in SUBSET Panes, CloseTab(s, closing) PROVE <2>3
      BY <1>1, <1>2, <3>4 DEF CloseTab, Closed, RoundInv
    <3> QED BY <2>1, <3>1, <3>2, <3>3, <3>4
  <2> QED BY <2>2, <2>3, <1>2 DEF RoundInv, LivePanes
<1>5. CASE \E s \in Sessions, p \in Panes : Attach(s, p)
  <2>1. round = {}
    BY <1>5 DEF Attach, AgreementInv, NoConnection
  <2> QED BY <1>5, <2>1 DEF Attach, RoundInv, LivePanes
<1>6. CASE StartRound
  BY <1>6 DEF StartRound, RoundInv, LivePanes
<1>7. CASE \E p \in Panes : SignalSurface(p)
  BY <1>3, <1>7 DEF SignalSurface, SendSignals
<1>8. CASE TakeSignals
  BY <1>3, <1>8 DEF TakeSignals
<1>9. CASE \E p \in Panes : WriteSurface(p)
  BY <1>3, <1>9 DEF WriteSurface
<1>10. CASE ReceiveFrame
  BY <1>3, <1>10 DEF ReceiveFrame, conn
<1>11. CASE Detach
  BY <1>3, <1>11 DEF Detach
<1>12. CASE UNCHANGED vars
  BY <1>3, <1>12 DEF vars, conn
<1> QED BY <1>4, <1>5, <1>6, <1>7, <1>8, <1>9, <1>10, <1>11, <1>12 DEF Next

LEMMA AgreementInit == Init => AgreementInv
BY DEF Init, AgreementInv

LEMMA AgreementAttach ==
  ASSUME TypeOK, AgreementInv, NEW s \in Sessions, NEW p \in Panes, Attach(s, p)
  PROVE  AgreementInv'
<1>1. latest_surfaces = NoSignals /\ batch = NoSignals /\ client # "live"
  BY DEF Attach, AgreementInv, NoConnection
<1>2. UNCHANGED <<latest_surfaces, batch, unseen>> /\ written' = known_surface_versions'
      /\ client' = "live"
  BY DEF Attach
<1>3. ASSUME NEW q \in Panes PROVE AgreeOn(q)'
  <2>1. latest_surfaces'[q] = NoSignal /\ batch'[q] = NoSignal
    BY <1>1, <1>2 DEF NoSignals
  <2>2. written'[q] = known_surface_versions'[q]
    BY <1>2
  <2> QED BY <2>1, <2>2 DEF AgreeOn, NoSignal
<1> QED BY <1>2, <1>3 DEF AgreementInv

LEMMA AgreementSignal ==
  ASSUME TypeOK, RoundInv, AgreementInv, NEW p \in Panes, SignalSurface(p)
  PROVE  AgreementInv'
<1> DEFINE signal == [version |-> panes[attached][p].version,
                      snapshot_required |-> latest_surfaces[p].snapshot_required,
                      has_patch |-> panes[attached][p].kind # "full",
                      shows |-> TerminalOf(attached, p)]
           signals == [latest_surfaces EXCEPT ![p] = signal]
<1>1. /\ client = "live" /\ client' = "live" /\ UNCHANGED <<batch, written>>
      /\ SendSignals(p, signals)
  BY DEF SignalSurface
<1>2. \A q \in Panes : latest_surfaces[q] \in Signal
  BY DEF TypeOK
<1>3. signal.version # Absent
  BY DEF RoundInv, LivePanes, SignalSurface, TypeOK
<1>4. \A q \in Panes : /\ signals[q].version = IF q = p THEN signal.version
                                               ELSE latest_surfaces[q].version
                       /\ signals[q] = NoSignal <=> q # p /\ latest_surfaces[q] = NoSignal
  BY <1>3 DEF NoSignal, TypeOK
<1> HIDE DEF signals
<1>5. \A q \in Panes : /\ Degraded(signals)[q].version = signals[q].version
                       /\ Degraded(signals)[q] = NoSignal <=> signals[q] = NoSignal
  BY <1>2, <1>4 DEF Degraded, AgreementInv, AgreeOn, NoSignal
<1>6. \/ UNCHANGED <<latest_surfaces, unseen, known_surface_versions>>
      \/ /\ latest_surfaces' = signals \/ latest_surfaces' = Degraded(signals)
         /\ unseen' = TRUE
         /\ known_surface_versions' = [known_surface_versions EXCEPT ![p] = signal.version]
  BY <1>1 DEF SendSignals
<1>7. CASE UNCHANGED <<latest_surfaces, unseen, known_surface_versions>>
  BY <1>1, <1>7 DEF AgreementInv, AgreeOn
<1>8. ASSUME latest_surfaces' = signals \/ latest_surfaces' = Degraded(signals),
             unseen' = TRUE,
             known_surface_versions' = [known_surface_versions EXCEPT ![p] = signal.version],
             NEW q \in Panes
      PROVE  AgreeOn(q)'
  <2>1. /\ latest_surfaces'[q].version = signals[q].version
        /\ latest_surfaces'[q] = NoSignal <=> signals[q] = NoSignal
    BY <1>5, <1>8
  <2>2. AgreeOn(q) /\ known_surface_versions \in [Panes -> Nat]
    BY <1>1 DEF AgreementInv, TypeOK
  <2>3. CASE q = p
    BY <1>3, <1>4, <1>8, <2>1, <2>2, <2>3 DEF AgreeOn
  <2>4. CASE q # p
    BY <1>1, <1>4, <1>8, <2>1, <2>2, <2>4 DEF AgreeOn
  <2> QED BY <2>3, <2>4
<1> QED BY <1>1, <1>6, <1>7, <1>8 DEF AgreementInv

LEMMA AgreementTake ==
  ASSUME TypeOK, AgreementInv, TakeSignals
  PROVE  AgreementInv'
<1>1. /\ client = "live" /\ client' = "live" /\ batch = NoSignals /\ batch' = latest_surfaces
      /\ UNCHANGED <<known_surface_versions, latest_surfaces, written>> /\ unseen' = FALSE
  BY DEF TakeSignals
<1>2. ASSUME NEW q \in Panes PROVE AgreeOn(q)'
  <2>1. AgreeOn(q) /\ NoSignal.version = Absent
    BY <1>1 DEF AgreementInv, NoSignal
  <2> QED BY <1>1, <2>1 DEF AgreeOn
<1> QED BY <1>1, <1>2 DEF AgreementInv

LEMMA AgreementWrite ==
  ASSUME TypeOK, AgreementInv, NEW p \in Panes, WriteSurface(p)
  PROVE  AgreementInv'
<1>1. /\ client = "live" /\ client' = "live" /\ batch[p] # NoSignal
      /\ batch' = [batch EXCEPT ![p] = NoSignal]
      /\ written' = [written EXCEPT ![p] = batch[p].version]
      /\ UNCHANGED <<known_surface_versions, latest_surfaces, unseen>>
  <2>1. written[p] = batch[p].version => written = [written EXCEPT ![p] = batch[p].version]
    BY DEF TypeOK
  <2> QED BY <2>1 DEF WriteSurface
<1>2. ASSUME NEW q \in Panes PROVE AgreeOn(q)'
  <2>1. AgreeOn(q) /\ batch \in [Panes -> Signal] /\ written \in [Panes -> Nat]
    BY <1>1 DEF AgreementInv, TypeOK
  <2>2. CASE q = p
    <3>1. latest_surfaces[p].version # Absent
      BY <1>1, <2>1, <2>2 DEF AgreeOn
    <3>2. batch'[p] = NoSignal /\ written'[p] = batch[p].version
      BY <1>1, <2>1
    <3> QED BY <1>1, <2>1, <2>2, <3>1, <3>2 DEF AgreeOn
  <2>3. CASE q # p
    <3>1. batch'[q] = batch[q] /\ written'[q] = written[q]
      BY <1>1, <2>1, <2>3
    <3> QED BY <1>1, <2>1, <3>1 DEF AgreeOn
  <2> QED BY <2>2, <2>3
<1> QED BY <1>1, <1>2 DEF AgreementInv

LEMMA AgreementNext ==
  TypeOK /\ DeliveryInv /\ RoundInv /\ AgreementInv /\ [Next]_vars => AgreementInv'
<1> SUFFICES ASSUME TypeOK, DeliveryInv, RoundInv, AgreementInv, [Next]_vars
             PROVE  AgreementInv'
  OBVIOUS
<1>1. ASSUME UNCHANGED <<client, round, known_surface_versions, latest_surfaces, unseen, batch,
                         written>>
      PROVE  AgreementInv'
  BY <1>1 DEF AgreementInv, AgreeOn, NoConnection
<1>2. CASE SessionStep
  BY <1>1, <1>2 DEF SessionStep, AdvanceSurface, NewTab, SplitPane, CloseTab, conn
<1>3. CASE \E s \in Sessions, p \in Panes : Attach(s, p)
  BY <1>3, AgreementAttach
<1>4. CASE StartRound
  BY <1>4 DEF StartRound, AgreementInv, AgreeOn
<1>5. CASE \E p \in Panes : SignalSurface(p)
  BY <1>5, AgreementSignal
<1>6. CASE TakeSignals
  BY <1>6, AgreementTake
<1>7. CASE \E p \in Panes : WriteSurface(p)
  BY <1>7, AgreementWrite
<1>8. CASE ReceiveFrame
  <2>1. client' = "live"
    BY <1>8, DeliveryReceive DEF DeliveryInv, ReceiveFrame, NeverRejected
  <2> QED BY <1>1, <1>8, <2>1 DEF ReceiveFrame, conn
<1>9. CASE Detach
  BY <1>9 DEF Detach, AgreementInv, NoConnection
<1>10. CASE UNCHANGED vars
  BY <1>1, <1>10 DEF vars, conn
<1> QED BY <1>2, <1>3, <1>4, <1>5, <1>6, <1>7, <1>8, <1>9, <1>10 DEF Next

\* When nothing is on its way, every channel between the serve loop and the cache is
\* drained, and what the loop believes is what the client holds.
LEMMA AgreementImplies ==
  ASSUME TypeOK, DeliveryInv, AgreementInv
  PROVE  QuiescentAgreement
<1> SUFFICES ASSUME Quiescent PROVE known_surface_versions = CachedVersions
  BY DEF QuiescentAgreement
<1>1. /\ client = "live" /\ ~unseen /\ batch = NoSignals /\ wire = <<>>
      /\ known_surface_versions \in [Panes -> Nat]
      /\ CachedVersions \in [Panes -> Nat]
  BY CachedType DEF Quiescent, TypeOK
<1>2. ASSUME NEW p \in Panes PROVE known_surface_versions[p] = CachedVersions[p]
  <2>1. AgreeOn(p) /\ batch[p] = NoSignal
    BY <1>1 DEF AgreementInv, NoSignals
  <2>2. known_surface_versions[p] = written[p]
    BY <1>1, <2>1 DEF AgreeOn
  <2>3. Holds(wire, CachedVersions, 0, p, written[p])
    BY <1>1 DEF DeliveryInv, EndsWith
  <2> QED BY <2>2, <2>3 DEF Holds
<1> QED BY <1>1, <1>2

\* Whatever was signalled reaches the client: once the channels are drained, the
\* versions the serve loop will not send again are those in the client's cache.
THEOREM NothingSignalledIsLost == Spec => []QuiescentAgreement
<1> DEFINE IInv == TypeOK /\ DeliveryInv /\ RoundInv /\ AgreementInv
<1>1. Init => IInv
  BY TypeInit, DeliveryInit, RoundInit, AgreementInit
<1>2. IInv /\ [Next]_vars => IInv'
  BY TypeNext, DeliveryNext, RoundNext, AgreementNext
<1>3. IInv => QuiescentAgreement
  BY AgreementImplies
<1> QED BY <1>1, <1>2, <1>3, PTL DEF Spec
-----------------------------------------------------------------------------
(* The byte budget *)

LEMMA NoBytes == SignalBytes(NoSignals) = 0
<1>1. /\ {p \in Panes : NoSignals[p] # NoSignal} = {}
      /\ {p \in Panes : NoSignals[p].has_patch} = {}
  BY DEF NoSignals, NoSignal
<1>2. Cardinality({}) = 0
  BY FS_EmptySet
<1>3. SnapshotBytes * 0 + PatchBytes * 0 = 0
  BY ConstantsAssumption
<1>4. SignalBytes(NoSignals) = SnapshotBytes * 0 + PatchBytes * 0
  BY <1>1, <1>2, Zenon DEF SignalBytes
<1> QED BY <1>3, <1>4

\* The signal set in the watch channel never exceeds the client's byte cap, however
\* many panes and frame sizes there are: it is degraded, or the loop fails.
THEOREM BudgetAlwaysKept == Spec => []SurfaceBudgetKept
<1>1. Init => SurfaceBudgetKept
  BY NoBytes, ConstantsAssumption DEF Init, NoConnection, SurfaceBudgetKept
<1>2. SurfaceBudgetKept /\ [Next]_vars => SurfaceBudgetKept'
  <2> SUFFICES ASSUME SurfaceBudgetKept, [Next]_vars PROVE SurfaceBudgetKept'
    OBVIOUS
  <2>1. ASSUME UNCHANGED latest_surfaces PROVE SurfaceBudgetKept'
    BY <2>1 DEF SurfaceBudgetKept, SignalBytes
  <2>2. ASSUME NEW p \in Panes, SignalSurface(p) PROVE SurfaceBudgetKept'
    <3>1. PICK signals : SendSignals(p, signals)
      BY <2>2 DEF SignalSurface
    <3>2. SignalBytes(latest_surfaces') <= SurfaceByteCap \/ UNCHANGED latest_surfaces
      BY <3>1 DEF SendSignals
    <3> QED BY <2>1, <3>2 DEF SurfaceBudgetKept, SignalBytes
  <2>3. CASE Detach
    BY <2>3, NoBytes, ConstantsAssumption DEF Detach, SurfaceBudgetKept, SignalBytes
  <2> QED BY <2>1, <2>2, <2>3
          DEF Next, SessionStep, AdvanceSurface, NewTab, SplitPane, CloseTab, Attach, StartRound,
              TakeSignals, WriteSurface, ReceiveFrame, vars, conn
<1> QED BY <1>1, <1>2, PTL DEF Spec
-----------------------------------------------------------------------------
(* Delivery is a cache that only moves forward *)

\* One session, no pane id used twice: the case SurfaceCache speaks of.
EveryIdOnce == MaxGeneration <= 1 /\ Sessions = {TheSession}

Published == [p \in Panes |-> panes[TheSession][p].version]

\* What is on the wire is newer than what the client holds and than what comes before it,
\* and no newer than what the write task has written.
Ascending(w, c, known) ==
  \A i \in 1..Len(w) :
    /\ w[i].version <= known[w[i].pane]
    /\ w[i].kind # "current" =>
         /\ c[w[i].pane] < w[i].version
         /\ \A j \in 1..(i-1) : w[j].pane = w[i].pane => w[j].version < w[i].version

\* Held, written, in the batch, in the channel, published: each no older than the one before.
InOrder(p) ==
  /\ CachedVersions[p] <= written[p] /\ written[p] <= Published[p]
  /\ batch[p] # NoSignal =>
       written[p] <= batch[p].version /\ batch[p].version <= Published[p]
  /\ latest_surfaces[p] # NoSignal =>
       /\ written[p] <= latest_surfaces[p].version
       /\ latest_surfaces[p].version <= Published[p]
       /\ batch[p] # NoSignal => batch[p].version <= latest_surfaces[p].version

NewIdsAreBlank == \A p \in Panes : panes[TheSession][p].gen = 0 => Published[p] = 0
HeldIsPublished == \A p \in Panes : CachedVersions[p] <= Published[p]
ForwardInv ==
  /\ NewIdsAreBlank /\ HeldIsPublished
  /\ client = "live" => /\ Ascending(wire, CachedVersions, written)
                        /\ \A p \in Panes : InOrder(p)

LEMMA ForwardTypes ==
  ASSUME TypeOK, EveryIdOnce
  PROVE  /\ Published \in [Panes -> Nat] /\ CachedVersions \in [Panes -> Nat]
         /\ written \in [Panes -> Nat] /\ attached = TheSession /\ TheSession \in Sessions
         /\ \A p \in Panes : /\ batch[p].version \in Nat /\ latest_surfaces[p].version \in Nat
                             /\ panes[TheSession][p] \in Pane
         /\ wire \in Seq(Frame)
<1>1. TheSession \in Sessions /\ attached = TheSession
  BY DEF EveryIdOnce, TypeOK
<1>2. \A p \in Panes : panes[TheSession][p] \in Pane /\ panes[TheSession][p].version \in Nat
  BY <1>1 DEF TypeOK, Pane
<1>3. \A p \in Panes : batch[p].version \in Nat /\ latest_surfaces[p].version \in Nat
  BY DEF TypeOK, Signal
<1>4. Published \in [Panes -> Nat]
  BY <1>2 DEF Published
<1> QED BY <1>1, <1>2, <1>3, <1>4, CachedType DEF TypeOK

LEMMA ForwardInit == EveryIdOnce /\ Init => ForwardInv
<1> SUFFICES ASSUME EveryIdOnce, Init PROVE ForwardInv
  OBVIOUS
<1>1. TheSession \in Sessions
  BY DEF EveryIdOnce
<1>2. ASSUME NEW p \in Panes
      PROVE  /\ CachedVersions[p] = 0 /\ Published[p] \in Nat
             /\ panes[TheSession][p].gen = 0 => Published[p] = 0
  BY <1>1 DEF Init, CachedVersions, Nothing, Published
<1>3. client # "live"
  BY DEF Init
<1> QED BY <1>2, <1>3 DEF ForwardInv, NewIdsAreBlank, HeldIsPublished

\* Versions of the session only grow, for an id that has none is new.
LEMMA SessionPublishes ==
  ASSUME TypeOK, EveryIdOnce, RoundInv, NewIdsAreBlank, SessionStep
  PROVE  /\ \A p \in Panes : Published[p] <= Published'[p]
         /\ NewIdsAreBlank'
         /\ UNCHANGED <<client, conn, wire, cache>>
<1>1. PICK s \in Sessions :
        \/ \E p \in Panes, kind \in Kinds : AdvanceSurface(s, p, kind)
        \/ \E q \in Panes : NewTab(s, q)
        \/ \E p, q \in Panes : SplitPane(s, p, q)
        \/ \E closing \in SUBSET Panes : CloseTab(s, closing)
  BY DEF SessionStep
<1>2. s = TheSession /\ TheSession \in Sessions
  BY DEF EveryIdOnce
<1>3. /\ panes \in [Sessions -> [Panes -> Pane]] /\ panes[s] \in [Panes -> Pane]
      /\ \A p \in Panes : /\ panes[s][p].version \in Nat /\ panes[s][p].gen \in Nat
                          /\ panes[s][p].gen = 0 => panes[s][p].version = 0
                          /\ panes[s][p].live => panes[s][p].gen # 0
  BY <1>2 DEF TypeOK, Pane, NewIdsAreBlank, Published, RoundInv
<1> DEFINE Grows == \A p \in Panes : /\ panes[s][p].version <= panes'[s][p].version
                                     /\ panes'[s][p].gen = 0 => panes'[s][p].version = 0
<1>4. ASSUME NEW q \in Panes, panes[s][q].gen < MaxGeneration PROVE panes[s][q].version = 0
  BY <1>3, <1>4, ConstantsAssumption DEF EveryIdOnce
<1>5. ASSUME NEW p \in Panes, NEW kind \in Kinds, AdvanceSurface(s, p, kind) PROVE Grows
  BY <1>3, <1>5 DEF AdvanceSurface, Advanced
<1>6. ASSUME NEW q \in Panes, NewTab(s, q) PROVE Grows
  BY <1>3, <1>4, <1>6 DEF NewTab, NewPane
<1>7. ASSUME NEW p \in Panes, NEW q \in Panes, SplitPane(s, p, q) PROVE Grows
  <2>1. p # q /\ panes[s][p].live /\ panes[s][q].version = 0
    BY <1>4, <1>7 DEF SplitPane
  <2>2. \A r \in Panes : panes'[s][r] = IF r = q THEN NewPane(panes[s][q].gen)
                                        ELSE IF r = p THEN Advanced(panes[s][p], "full")
                                        ELSE panes[s][r]
    BY <1>3, <1>7, <2>1 DEF SplitPane
  <2> QED BY <1>3, <2>1, <2>2 DEF Advanced, NewPane
<1>8. ASSUME NEW closing \in SUBSET Panes, CloseTab(s, closing) PROVE Grows
  BY <1>3, <1>8 DEF CloseTab, Closed
<1>9. Grows
  BY <1>1, <1>5, <1>6, <1>7, <1>8
<1>10. UNCHANGED <<client, conn, wire, cache>>
  BY <1>1 DEF AdvanceSurface, NewTab, SplitPane, CloseTab
<1> QED BY <1>2, <1>9, <1>10 DEF Published, NewIdsAreBlank

LEMMA ForwardSession ==
  ASSUME TypeOK, EveryIdOnce, RoundInv, ForwardInv, SessionStep
  PROVE  ForwardInv'
<1>1. /\ \A p \in Panes : Published[p] <= Published'[p]
      /\ NewIdsAreBlank' /\ UNCHANGED <<client, conn, wire, cache>>
  BY SessionPublishes DEF ForwardInv
<1>2. CachedVersions' = CachedVersions
  BY <1>1 DEF CachedVersions
<1>3. \A p \in Panes : /\ CachedVersions[p] \in Nat /\ Published[p] \in Nat
                       /\ written[p] \in Nat /\ batch[p].version \in Nat
                       /\ latest_surfaces[p].version \in Nat
  BY ForwardTypes
<1>4. \A p \in Panes : Published'[p] \in Nat
  BY <1>1, <1>3, TypeNext, ForwardTypes DEF Next, EveryIdOnce, Published, TheSession, TypeOK, Pane
<1>5. HeldIsPublished'
  BY <1>1, <1>2, <1>3, <1>4 DEF ForwardInv, HeldIsPublished
<1>6. ASSUME client = "live", NEW p \in Panes PROVE InOrder(p)'
  BY <1>1, <1>2, <1>3, <1>4, <1>6 DEF ForwardInv, InOrder, conn
<1>7. client' = "live" => Ascending(wire, CachedVersions, written)'
  BY <1>1, <1>2 DEF ForwardInv, Ascending, conn
<1> QED BY <1>1, <1>5, <1>6, <1>7 DEF ForwardInv

LEMMA ForwardAttach ==
  ASSUME TypeOK, EveryIdOnce, AgreementInv, ForwardInv,
         NEW s \in Sessions, NEW p \in Panes, Attach(s, p)
  PROVE  ForwardInv'
<1> DEFINE f == AttachFrame(s, p, cache[p].version)
           c == CachedVersions
<1>1. /\ s = TheSession /\ c \in [Panes -> Nat] /\ Published \in [Panes -> Nat]
      /\ c[p] = cache[p].version /\ Published[p] = panes[s][p].version
  BY ForwardTypes DEF EveryIdOnce, CachedVersions, Published
<1>2. /\ f.pane = p /\ f.version = Published[p]
      /\ f.kind # "current" => c[p] # Published[p]
  BY <1>1 DEF AttachFrame
<1>3. /\ wire' = <<f>> /\ client' = "live"
      /\ written' = [c EXCEPT ![p] = Published[p]]
      /\ UNCHANGED <<panes, cache, latest_surfaces, batch>>
  BY <1>1 DEF Attach
<1>4. CachedVersions' = c /\ Published' = Published
  BY <1>3 DEF CachedVersions, Published
<1>5. latest_surfaces = NoSignals /\ batch = NoSignals
  BY DEF Attach, AgreementInv, NoConnection
<1> HIDE DEF f, c
<1>6. \A q \in Panes : c[q] <= Published[q]
  BY DEF ForwardInv, HeldIsPublished, c
<1>7. Ascending(wire', c, written')
  <2>1. Len(wire') = 1 /\ wire'[1] = f
    BY <1>3
  <2>2. f.version <= written'[f.pane] /\ (f.kind # "current" => c[f.pane] < f.version)
    BY <1>1, <1>2, <1>3, <1>6
  <2> QED BY <2>1, <2>2 DEF Ascending
<1>8. ASSUME NEW q \in Panes PROVE InOrder(q)'
  <2>1. c[q] <= written'[q] /\ written'[q] <= Published[q]
    BY <1>1, <1>3, <1>6
  <2>2. latest_surfaces'[q] = NoSignal /\ batch'[q] = NoSignal
    BY <1>3, <1>5 DEF NoSignals
  <2> QED BY <1>4, <2>1, <2>2 DEF InOrder
<1>9. NewIdsAreBlank' /\ HeldIsPublished'
  BY <1>3, <1>4, <1>6 DEF ForwardInv, NewIdsAreBlank, HeldIsPublished
<1> QED BY <1>4, <1>7, <1>8, <1>9 DEF ForwardInv

LEMMA ForwardSignal ==
  ASSUME TypeOK, EveryIdOnce, ForwardInv, NEW p \in Panes, SignalSurface(p)
  PROVE  ForwardInv'
<1> DEFINE signal == [version |-> panes[attached][p].version,
                      snapshot_required |-> latest_surfaces[p].snapshot_required,
                      has_patch |-> panes[attached][p].kind # "full",
                      shows |-> TerminalOf(attached, p)]
           signals == [latest_surfaces EXCEPT ![p] = signal]
<1>1. /\ client = "live" /\ UNCHANGED <<panes, client, batch, written, wire, cache>>
      /\ SendSignals(p, signals)
  BY DEF SignalSurface
<1>2. CachedVersions' = CachedVersions /\ Published' = Published
  BY <1>1 DEF CachedVersions, Published
<1>3. \A q \in Panes : /\ CachedVersions[q] \in Nat /\ Published[q] \in Nat
                       /\ written[q] \in Nat /\ batch[q].version \in Nat
                       /\ latest_surfaces[q].version \in Nat
  BY ForwardTypes
<1>4. signal.version = Published[p]
  BY ForwardTypes DEF Published
<1>5. \A q \in Panes : signals[q] = IF q = p THEN signal ELSE latest_surfaces[q]
  BY DEF TypeOK
<1> HIDE DEF signal, signals
<1>6. \A q \in Panes : /\ signals[q] # NoSignal => q = p \/ latest_surfaces[q] # NoSignal
                       /\ signals[q].version = IF q = p THEN Published[q]
                                               ELSE latest_surfaces[q].version
  BY <1>4, <1>5
<1>7. ASSUME NEW q \in Panes, latest_surfaces'[q] # NoSignal
      PROVE  \/ UNCHANGED latest_surfaces
             \/ signals[q] # NoSignal /\ latest_surfaces'[q].version = signals[q].version
  <2>1. latest_surfaces' \in {signals, Degraded(signals), latest_surfaces}
    BY <1>1 DEF SendSignals
  <2> QED BY <1>7, <2>1 DEF Degraded
<1>8. ASSUME NEW q \in Panes PROVE InOrder(q)'
  <2>1. InOrder(q)
    BY <1>1 DEF ForwardInv
  <2>2. CASE latest_surfaces'[q] = NoSignal \/ UNCHANGED latest_surfaces
    BY <1>1, <1>2, <2>1, <2>2 DEF InOrder
  <2>3. CASE signals[q] # NoSignal /\ latest_surfaces'[q].version = signals[q].version
    <3>1. \/ q = p /\ latest_surfaces'[q].version = Published[q]
          \/ latest_surfaces[q] # NoSignal
             /\ latest_surfaces'[q].version = latest_surfaces[q].version
      BY <1>6, <2>3
    <3> QED BY <1>1, <1>2, <1>3, <2>1, <3>1 DEF InOrder
  <2> QED BY <1>7, <2>2, <2>3
<1> QED BY <1>1, <1>2, <1>8 DEF ForwardInv, NewIdsAreBlank, HeldIsPublished, Ascending

LEMMA ForwardTake ==
  ASSUME TypeOK, EveryIdOnce, ForwardInv, TakeSignals
  PROVE  ForwardInv'
<1>1. /\ client = "live" /\ batch' = latest_surfaces
      /\ UNCHANGED <<panes, client, latest_surfaces, written, wire, cache>>
  BY DEF TakeSignals
<1>2. CachedVersions' = CachedVersions /\ Published' = Published
  BY <1>1 DEF CachedVersions, Published
<1>3. \A q \in Panes : latest_surfaces[q].version \in Nat
  BY ForwardTypes
<1>4. ASSUME NEW q \in Panes PROVE InOrder(q)'
  BY <1>1, <1>2, <1>3 DEF ForwardInv, InOrder
<1> QED BY <1>1, <1>2, <1>4 DEF ForwardInv, NewIdsAreBlank, HeldIsPublished, Ascending

\* A frame that is newer than all that was written of its pane keeps the wire ascending.
LEMMA AscendingAppend ==
  ASSUME NEW w \in Seq(Frame), NEW c \in [Panes -> Nat], NEW known \in [Panes -> Nat],
         NEW f \in Frame, Ascending(w, c, known),
         c[f.pane] <= known[f.pane], known[f.pane] < f.version
  PROVE  Ascending(Append(w, f), c, [known EXCEPT ![f.pane] = f.version])
<1> DEFINE u == Append(w, f)
           n == Len(w)
           k == [known EXCEPT ![f.pane] = f.version]
<1>1. /\ n \in Nat /\ Len(u) = n+1 /\ u[n+1] = f
      /\ \A i \in 1..n : u[i] = w[i] /\ w[i] \in Frame
  OBVIOUS
<1>2. f.pane \in Panes /\ f.version \in Nat /\ \A i \in 1..n : w[i].pane \in Panes /\ w[i].version \in Nat
  BY <1>1 DEF Frame
<1>3. \A p \in Panes : /\ c[p] \in Nat /\ known[p] \in Nat /\ k[p] \in Nat
                       /\ known[p] <= k[p] /\ k[f.pane] = f.version
  BY <1>2
<1> HIDE DEF u, k
<1> DEFINE Good(i) ==
      /\ u[i].version <= k[u[i].pane]
      /\ u[i].kind # "current" =>
           /\ c[u[i].pane] < u[i].version
           /\ \A j \in 1..(i-1) : u[j].pane = u[i].pane => u[j].version < u[i].version
<1>4. ASSUME NEW i \in 1..n PROVE Good(i)
  <2>1. /\ w[i].version <= known[w[i].pane]
        /\ w[i].kind # "current" =>
             /\ c[w[i].pane] < w[i].version
             /\ \A j \in 1..(i-1) : w[j].pane = w[i].pane => w[j].version < w[i].version
    BY DEF Ascending
  <2>2. u[i] = w[i] /\ \A j \in 1..(i-1) : j \in 1..n /\ u[j] = w[j]
    BY <1>1
  <2>3. w[i].version <= k[w[i].pane]
    BY <1>2, <1>3, <2>1
  <2> QED BY <2>1, <2>2, <2>3
<1>5. Good(n+1)
  <2>1. ASSUME NEW j \in 1..n, w[j].pane = f.pane PROVE w[j].version < f.version
    <3>1. w[j].version <= known[f.pane]
      BY <2>1 DEF Ascending
    <3> QED BY <1>2, <1>3, <3>1
  <2>2. f.version <= k[f.pane] /\ c[f.pane] < f.version
    BY <1>2, <1>3
  <2>3. (n+1)-1 = n /\ \A j \in 1..n : u[j] = w[j]
    BY <1>1
  <2> QED BY <1>1, <2>1, <2>2, <2>3
<1>6. \A i \in 1..Len(u) : Good(i)
  <2>1. \A i \in 1..Len(u) : i \in 1..n \/ i = n+1
    BY <1>1
  <2> HIDE DEF Good, n
  <2> QED BY <1>4, <1>5, <2>1
<1> QED BY <1>6 DEF Ascending, u, k

LEMMA ForwardWrite ==
  ASSUME TypeOK, EveryIdOnce, ForwardInv, NEW p \in Panes, WriteSurface(p)
  PROVE  ForwardInv'
<1> DEFINE f == SignalFrame(p, batch[p], written[p])
           c == CachedVersions
<1>1. /\ client = "live" /\ batch[p] # NoSignal
      /\ UNCHANGED <<panes, client, latest_surfaces, cache>>
      /\ batch' = [batch EXCEPT ![p] = NoSignal]
  BY DEF WriteSurface
<1>2. CachedVersions' = c /\ Published' = Published
  BY <1>1 DEF CachedVersions, Published
<1>3. /\ c \in [Panes -> Nat] /\ written \in [Panes -> Nat] /\ wire \in Seq(Frame)
      /\ \A q \in Panes : /\ c[q] \in Nat /\ Published[q] \in Nat /\ written[q] \in Nat
                          /\ batch[q].version \in Nat /\ latest_surfaces[q].version \in Nat
      /\ batch[p] \in Signal
  BY ForwardTypes DEF TypeOK
<1>4. f \in Frame /\ f.pane = p /\ f.version = batch[p].version
  BY <1>3 DEF SignalFrame, PatchApplies, Frame, Signal
<1>5. /\ Ascending(wire, c, written) /\ \A q \in Panes : InOrder(q)
      /\ c[p] <= written[p] /\ written[p] <= batch[p].version
  BY <1>1 DEF ForwardInv, InOrder
<1>6. \/ written[p] = batch[p].version /\ wire' = wire /\ written' = written
      \/ /\ written[p] # batch[p].version /\ wire' = Append(wire, f)
         /\ written' = [written EXCEPT ![f.pane] = f.version]
  BY <1>4 DEF WriteSurface
<1> HIDE DEF f, c
<1>7. Ascending(wire', c, written')
  <2>1. CASE written[p] = batch[p].version /\ wire' = wire /\ written' = written
    BY <1>5, <2>1
  <2>2. CASE /\ written[p] # batch[p].version /\ wire' = Append(wire, f)
             /\ written' = [written EXCEPT ![f.pane] = f.version]
    <3>1. written[f.pane] < f.version /\ c[f.pane] <= written[f.pane]
      BY <1>3, <1>4, <1>5, <2>2
    <3> QED BY <1>3, <1>4, <1>5, <2>2, <3>1, AscendingAppend
  <2> QED BY <1>6, <2>1, <2>2
<1>8. ASSUME NEW q \in Panes PROVE InOrder(q)'
  <2>1. InOrder(q) /\ batch \in [Panes -> Signal]
    BY <1>5 DEF TypeOK
  <2>2. CASE q = p
    <3>1. batch'[p] = NoSignal /\ written'[p] = batch[p].version
      BY <1>3, <1>4, <1>6, <1>1, <2>1
    <3> QED BY <1>1, <1>2, <1>3, <2>1, <2>2, <3>1 DEF InOrder, c
  <2>3. CASE q # p
    <3>1. batch'[q] = batch[q] /\ written'[q] = written[q]
      BY <1>1, <1>3, <1>4, <1>6, <2>1, <2>3
    <3> QED BY <1>1, <1>2, <2>1, <3>1 DEF InOrder, c
  <2> QED BY <2>2, <2>3
<1> QED BY <1>1, <1>2, <1>7, <1>8 DEF ForwardInv, NewIdsAreBlank, HeldIsPublished, c

LEMMA AscendingTail ==
  ASSUME NEW w \in Seq(Frame), w # <<>>, NEW c \in [Panes -> Nat],
         NEW known, Ascending(w, c, known)
  PROVE  Ascending(Tail(w), [c EXCEPT ![w[1].pane] = w[1].version], known)
<1> DEFINE u == Tail(w)
           d == [c EXCEPT ![w[1].pane] = w[1].version]
<1>1. /\ Len(w) \in Nat \ {0} /\ Len(u) = Len(w) - 1
      /\ \A i \in 1..Len(u) : u[i] = w[i+1] /\ i+1 \in 1..Len(w)
  BY HeadTailProperties
<1>2. \A i \in 1..Len(w) : w[i].pane \in Panes
  <2>1. \A i \in 1..Len(w) : w[i] \in Frame
    OBVIOUS
  <2>2. \A f \in Frame : f.pane \in Panes
    BY DEF Frame
  <2> QED BY <2>1, <2>2
<1>3. 1 \in 1..Len(w)
  BY <1>1
<1>4. \A p \in Panes : d[p] = IF p = w[1].pane THEN w[1].version ELSE c[p]
  BY <1>2, <1>3
<1> HIDE DEF u, d
<1>5. ASSUME NEW i \in 1..Len(u)
      PROVE  /\ u[i].version <= known[u[i].pane]
             /\ u[i].kind # "current" =>
                  /\ d[u[i].pane] < u[i].version
                  /\ \A j \in 1..(i-1) : u[j].pane = u[i].pane => u[j].version < u[i].version
  <2>1. /\ w[i+1].version <= known[w[i+1].pane]
        /\ w[i+1].kind # "current" =>
             /\ c[w[i+1].pane] < w[i+1].version
             /\ \A j \in 1..i : w[j].pane = w[i+1].pane => w[j].version < w[i+1].version
    <3>1. i+1 \in 1..Len(w) /\ (i+1)-1 = i
      BY <1>1
    <3> QED BY <3>1 DEF Ascending
  <2>2. u[i] = w[i+1] /\ w[i+1].pane \in Panes /\ 1 \in 1..i
    BY <1>1, <1>2
  <2>3. \A j \in 1..(i-1) : j+1 \in 1..i /\ u[j] = w[j+1]
    BY <1>1
  <2>4. w[i+1].kind # "current" => d[w[i+1].pane] < w[i+1].version
    BY <1>4, <2>1, <2>2
  <2> QED BY <2>1, <2>2, <2>3, <2>4
<1> QED BY <1>5 DEF Ascending, u, d

\* What the client takes over is published, and newer than what it held.
LEMMA ReceiveLearns ==
  ASSUME TypeOK, EveryIdOnce, DeliveryInv, ForwardInv, ReceiveFrame
  PROVE  LET f == wire[1]
         IN  /\ f.pane \in Panes /\ f.version \in Nat /\ wire # <<>> /\ client = "live"
             /\ CachedVersions' = [CachedVersions EXCEPT ![f.pane] = f.version]
             /\ f.version <= written[f.pane]
             /\ f.version = CachedVersions[f.pane] \/ CachedVersions[f.pane] < f.version
             /\ wire' = Tail(wire) /\ client' = "live"
             /\ UNCHANGED <<panes, latest_surfaces, batch, written>>
<1> DEFINE f == wire[1]
           c == CachedVersions
<1>1. /\ c \in [Panes -> Nat] /\ wire \in Seq(Frame) /\ wire # <<>> /\ client = "live"
      /\ 1 \in 1..Len(wire) /\ f = Head(wire)
  BY ForwardTypes DEF ReceiveFrame
<1>2. f \in Frame /\ f.pane \in Panes /\ f.version \in Nat
  <2>1. f \in Frame
    BY <1>1
  <2> QED BY <2>1 DEF Frame
<1>3. /\ f.version <= written[f.pane] /\ (f.kind # "current" => c[f.pane] < f.version)
      /\ f.kind = "current" => f.version = c[f.pane]
  <2>1. Fits(wire, c, 1) /\ Ascending(wire, c, written)
    BY <1>1 DEF DeliveryInv, AllFit, ForwardInv
  <2>2. \A v : Holds(wire, c, 0, f.pane, v) => c[f.pane] = v
    BY DEF Holds
  <2> QED BY <1>1, <2>1, <2>2 DEF Fits, Ascending
<1>4. client' = "live"
  BY DeliveryReceive, <1>1 DEF DeliveryInv, NeverRejected, ReceiveFrame
<1>5. /\ wire' = Tail(wire) /\ UNCHANGED <<panes, latest_surfaces, batch, written>>
      /\ cache' = [cache EXCEPT ![f.pane] = Applied(f)]
  BY <1>1, <1>4 DEF ReceiveFrame, conn
<1>6. Applied(f).version = f.version
  <2>1. f.kind \in {"current", "snapshot", "patch"} /\ cache[f.pane].version = c[f.pane]
    BY <1>2 DEF Frame, CachedVersions
  <2> HIDE DEF f, c
  <2> QED BY <1>3, <2>1 DEF Applied
<1>7. c' = [c EXCEPT ![f.pane] = f.version]
  BY <1>2, <1>5, <1>6 DEF CachedVersions, TypeOK
<1> QED BY <1>1, <1>2, <1>3, <1>4, <1>5, <1>7

LEMMA ForwardReceive ==
  ASSUME TypeOK, EveryIdOnce, DeliveryInv, ForwardInv, ReceiveFrame
  PROVE  ForwardInv'
<1> DEFINE f == wire[1]
           c == CachedVersions
<1>1. /\ f.pane \in Panes /\ f.version \in Nat /\ wire # <<>> /\ client = "live"
      /\ c' = [c EXCEPT ![f.pane] = f.version] /\ f.version <= written[f.pane]
      /\ wire' = Tail(wire) /\ client' = "live"
      /\ UNCHANGED <<panes, latest_surfaces, batch, written>>
  BY ReceiveLearns
<1>2. /\ c \in [Panes -> Nat] /\ wire \in Seq(Frame)
      /\ \A q \in Panes : c[q] \in Nat /\ Published[q] \in Nat /\ written[q] \in Nat
  BY ForwardTypes
<1>3. Published' = Published
  BY <1>1 DEF Published
<1>4. Ascending(wire, c, written) /\ \A q \in Panes : InOrder(q)
  BY <1>1 DEF ForwardInv
<1>5. Ascending(wire', c', written')
  BY <1>1, <1>2, <1>4, AscendingTail
<1> HIDE DEF f
<1>6. ASSUME NEW q \in Panes PROVE InOrder(q)' /\ c'[q] <= Published'[q]
  <2>1. InOrder(q) /\ c[q] <= written[q] /\ written[q] <= Published[q]
    BY <1>4 DEF InOrder
  <2>2. c'[q] <= written[q] /\ c'[q] \in Nat
    BY <1>1, <1>2, <2>1
  <2> QED BY <1>1, <1>2, <1>3, <2>1, <2>2 DEF InOrder
<1> QED BY <1>1, <1>3, <1>5, <1>6 DEF ForwardInv, NewIdsAreBlank, HeldIsPublished

LEMMA ForwardNext ==
  EveryIdOnce /\ TypeOK /\ DeliveryInv /\ RoundInv /\ AgreementInv /\ ForwardInv /\ [Next]_vars
    => ForwardInv'
<1> SUFFICES ASSUME EveryIdOnce, TypeOK, DeliveryInv, RoundInv, AgreementInv, ForwardInv,
                    [Next]_vars
             PROVE  ForwardInv'
  OBVIOUS
<1>1. ASSUME UNCHANGED <<panes, client, latest_surfaces, batch, written, wire, cache>>
      PROVE  ForwardInv'
  <2>1. CachedVersions' = CachedVersions /\ Published' = Published
    BY <1>1 DEF CachedVersions, Published
  <2> QED BY <1>1, <2>1 DEF ForwardInv, NewIdsAreBlank, HeldIsPublished, Ascending, InOrder
<1>2. CASE SessionStep
  BY <1>2, ForwardSession
<1>3. CASE \E s \in Sessions, p \in Panes : Attach(s, p)
  BY <1>3, ForwardAttach
<1>4. CASE StartRound
  BY <1>1, <1>4 DEF StartRound
<1>5. CASE \E p \in Panes : SignalSurface(p)
  BY <1>5, ForwardSignal
<1>6. CASE TakeSignals
  BY <1>6, ForwardTake
<1>7. CASE \E p \in Panes : WriteSurface(p)
  BY <1>7, ForwardWrite
<1>8. CASE ReceiveFrame
  BY <1>8, ForwardReceive
<1>9. CASE Detach
  <2>1. client' # "live" /\ UNCHANGED <<panes, cache>>
    BY <1>9 DEF Detach
  <2>2. CachedVersions' = CachedVersions /\ Published' = Published
    BY <2>1 DEF CachedVersions, Published
  <2> QED BY <2>1, <2>2 DEF ForwardInv, NewIdsAreBlank, HeldIsPublished
<1>10. CASE UNCHANGED vars
  BY <1>1, <1>10 DEF vars, conn
<1> QED BY <1>2, <1>3, <1>4, <1>5, <1>6, <1>7, <1>8, <1>9, <1>10 DEF Next

LEMMA CacheInit == EveryIdOnce /\ Init => Cache!Init
<1> SUFFICES ASSUME EveryIdOnce, Init PROVE Cache!Init
  OBVIOUS
<1>1. Published \in [Panes -> Nat]
  BY TypeInit, ForwardTypes
<1>2. CachedVersions = [p \in Panes |-> 0]
  BY DEF Init, CachedVersions, Nothing
<1> QED BY <1>1, <1>2 DEF Cache!Init, Published

\* A step of the session publishes, a frame that is read is learned, the rest stutters.
LEMMA CacheStep ==
  EveryIdOnce /\ TypeOK /\ TypeOK' /\ DeliveryInv /\ RoundInv /\ ForwardInv /\ [Next]_vars
    => [Cache!Next]_(Cache!vars)
<1> SUFFICES ASSUME EveryIdOnce, TypeOK, TypeOK', DeliveryInv, RoundInv, ForwardInv, [Next]_vars
             PROVE  [Cache!Next]_(Cache!vars)
  OBVIOUS
<1>1. ASSUME UNCHANGED <<panes, cache>> PROVE UNCHANGED Cache!vars
  BY <1>1 DEF Cache!vars, CachedVersions
<1>2. CASE SessionStep
  <2>1. \A p \in Panes : Published[p] <= Published'[p]
    BY <1>2, SessionPublishes DEF ForwardInv
  <2>2. UNCHANGED CachedVersions
    BY <1>2, SessionPublishes DEF ForwardInv, CachedVersions
  <2>3. Published' \in [Panes -> Nat] /\ Published \in [Panes -> Nat]
    <3>1. \A p \in Panes : panes'[TheSession][p] \in Pane
      BY DEF TypeOK, EveryIdOnce
    <3>2. \A p \in Panes : panes'[TheSession][p].version \in Nat
      BY <3>1 DEF Pane
    <3> QED BY <3>2, ForwardTypes DEF Published
  <2>4. \A p \in Panes : Published'[p] >= Published[p]
    BY <2>1, <2>3
  <2>5. Cache!Publish
    BY <2>2, <2>3, <2>4 DEF Cache!Publish, Published
  <2> QED BY <2>5 DEF Cache!Next
<1>3. CASE ReceiveFrame
  <2> DEFINE f == wire[1]
             p == f.pane
  <2>1. /\ p \in Panes /\ f.version \in Nat /\ client = "live"
        /\ CachedVersions' = [CachedVersions EXCEPT ![p] = f.version]
        /\ f.version <= written[p] /\ UNCHANGED panes
        /\ f.version = CachedVersions[p] \/ CachedVersions[p] < f.version
    BY <1>3, ReceiveLearns
  <2>2. /\ CachedVersions \in [Panes -> Nat] /\ Published \in [Panes -> Nat]
        /\ written[p] \in Nat /\ written[p] <= Published[p]
    BY <2>1, ForwardTypes DEF ForwardInv, InOrder
  <2> HIDE DEF f, p
  <2>3. Published' = Published
    BY <2>1 DEF Published
  <2>4. CASE f.version = CachedVersions[p]
    <3>1. CachedVersions' = CachedVersions
      BY <2>1, <2>2, <2>4
    <3> QED BY <2>3, <3>1 DEF Cache!vars, Published
  <2>5. CASE CachedVersions[p] < f.version
    <3>1. f.version \in (CachedVersions[p] + 1)..Published[p]
      BY <2>1, <2>2, <2>5
    <3>2. Cache!Learn(p)
      BY <2>1, <2>3, <3>1 DEF Cache!Learn, Published
    <3> QED BY <2>1, <3>2 DEF Cache!Next
  <2> QED BY <2>1, <2>4, <2>5
<1>4. CASE \/ \E s \in Sessions, p \in Panes : Attach(s, p)
           \/ StartRound \/ TakeSignals \/ Detach
           \/ \E p \in Panes : SignalSurface(p) \/ WriteSurface(p)
  BY <1>1, <1>4 DEF Attach, StartRound, TakeSignals, Detach, SignalSurface, WriteSurface
<1>5. CASE UNCHANGED vars
  BY <1>1, <1>5 DEF vars
<1> QED BY <1>2, <1>3, <1>4, <1>5 DEF Next

\* Delivery implements the cache it is meant to be: with one session and no pane id used
\* twice, whatever is lost, skipped or sent again, the client's surface of a pane only
\* moves forward, to versions the session has published.
THEOREM DeliveryIsACache == EveryIdOnce => (Spec => CacheOnlyMovesForward)
<1> DEFINE IInv == TypeOK /\ DeliveryInv /\ RoundInv /\ AgreementInv /\ ForwardInv
<1> SUFFICES ASSUME EveryIdOnce PROVE Spec => CacheOnlyMovesForward
  OBVIOUS
<1>1. Init => IInv /\ Cache!Init
  BY TypeInit, DeliveryInit, RoundInit, AgreementInit, ForwardInit, CacheInit
<1>2. IInv /\ [Next]_vars => IInv'
  BY TypeNext, DeliveryNext, RoundNext, AgreementNext, ForwardNext
<1>3. IInv /\ IInv' /\ [Next]_vars => [Cache!Next]_(Cache!vars)
  BY CacheStep
<1> QED BY <1>1, <1>2, <1>3, PTL DEF Spec, CacheOnlyMovesForward, Cache!Spec
=============================================================================
