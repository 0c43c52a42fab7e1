--------------------------- MODULE LiveServe_proofs ---------------------------
(***************************************************************************)
(* Proofs about LiveServe, for all values of its constants.                *)
(*                                                                         *)
(* What a subscriber knows of the inventory depends on every frame still   *)
(* in its queue.  Reads(v, w, u) says that a client told v refuses none of *)
(* the frames w and has then been told u; InventoryInv that every queue    *)
(* can be read so, and that a subscriber which is not just joining then    *)
(* knows the loop's inventory.  Each frame the loop sends extends such a   *)
(* reading, each the client reads shortens it.                             *)
(*                                                                         *)
(* SmallestWins speaks of the moments between iterations; FitInv of all:   *)
(* a pane that does not fit is noted somewhere in the loop.                *)
(***************************************************************************)
EXTENDS LiveServe, TLAPS, FiniteSetTheorems, SequenceTheorems, WellFoundedInduction

View == [workspace : Nat, inventory : Nat, members : SUBSET Clients, missed : BOOLEAN]
OutFrame ==
  [type : {"workspace"}, version : Nat]
  \cup [type : {"patch"}, base : Int, version : Nat,
        joined : SUBSET Clients, left : SUBSET Clients]
  \cup [type : {"snapshot"}, version : Nat, members : SUBSET Clients]
  \cup [type : {"presence", "error"}]
InFrame ==
  [type : {"viewport", "command"}, pane : Panes, size : Sizes]
  \cup [type : {"input"}, pane : Panes] \cup [type : {"eof"}]

Workspace == [version : Nat, size : [Panes -> 0..MaxSize], initial : [Panes -> 0..MaxSize]]

Shape ==
  /\ view \in [Clients -> View] /\ output \in [Clients -> Seq(OutFrame)]
  /\ input \in [Clients -> Seq(InFrame)]
  /\ drained \in [input : BOOLEAN, resizes : SUBSET Panes, changed : BOOLEAN]
  /\ at \notin {"accept", "drain"} => todo = {}
  /\ joining # NoClient => at = "accept"
TypeInv == TypeOK /\ Shape
-----------------------------------------------------------------------------
(* Type correctness *)

LEMMA FrameTypes ==
  ASSUME inventory \in Nat, workspace.version \in Nat
  PROVE  /\ WorkspaceFrame \in OutFrame /\ Presence \in OutFrame /\ Error \in OutFrame
         /\ \A m \in SUBSET Clients : Snapshot(m) \in OutFrame
         /\ \A n \in Nat, j, l \in SUBSET Clients : Patch(n, j, l) \in OutFrame
BY DEF OutFrame, WorkspaceFrame, Presence, Error, Snapshot, Patch

LEMMA AppendTo ==
  ASSUME NEW T, NEW s \in Seq(T), NEW e \in T
  PROVE  Append(s, e) \in Seq(T) /\ Len(Append(s, e)) = Len(s) + 1 /\ Len(s) \in Nat
BY AppendProperties, LenProperties

LEMMA QueuedTypes ==
  ASSUME TypeInv, NEW cs, NEW frame \in OutFrame
  PROVE  /\ Queued(cs, frame) \in [Clients -> Seq(OutFrame)]
         /\ \A c \in Clients : Len(Queued(cs, frame)[c]) <= ReliableCap
<1>1. ASSUME NEW c \in Clients
      PROVE  Queued(cs, frame)[c] \in Seq(OutFrame) /\ Len(Queued(cs, frame)[c]) <= ReliableCap
  <2>1. output[c] \in Seq(OutFrame) /\ Len(output[c]) <= ReliableCap
    BY DEF TypeInv, TypeOK, Shape
  <2>2. Append(output[c], frame) \in Seq(OutFrame) /\ Len(Append(output[c], frame)) = Len(output[c]) + 1
        /\ Len(output[c]) \in Nat
    BY <2>1, AppendTo
  <2>3. ~Full(c) /\ writer[c] = "up" => Len(output[c]) + 1 <= ReliableCap
    BY <2>1, <2>2, ConstantsAssumption DEF Full
  <2> QED BY <2>1, <2>2, <2>3 DEF Queued
<1> QED BY <1>1 DEF Queued

LEMMA PostTypes ==
  ASSUME TypeInv, NEW cs, NEW frame \in OutFrame, Post(cs, frame)
  PROVE  /\ output' \in [Clients -> Seq(OutFrame)]
         /\ \A c \in Clients : Len(output'[c]) <= ReliableCap
         /\ daemon' \in {"serving", "stopped", "failed"}
BY QueuedTypes DEF Post, TypeInv, TypeOK

LEMMA GreetingTypes ==
  ASSUME TypeInv
  PROVE  /\ Greeting \in Seq(OutFrame) /\ Len(Greeting) <= ReliableCap
         /\ \A i \in 1..Len(Greeting) : Greeting[i] = Presence
<1>1. Cardinality(live) \in Nat
  BY ConstantsAssumption, FS_Subset, FS_CardinalityType DEF TypeInv, TypeOK
<1> DEFINE room == IF Cardinality(live) <= ReliableCap THEN Cardinality(live) ELSE ReliableCap
<1>2. room \in Nat /\ room <= ReliableCap
  BY <1>1, ConstantsAssumption
<1>3. Greeting = [i \in 1..room |-> Presence]
  BY DEF Greeting
<1>4. Presence \in OutFrame
  BY DEF Presence, OutFrame
<1> HIDE DEF room
<1> QED BY <1>2, <1>3, <1>4

\* A nonempty set of sizes has a smallest.
LEMMA SmallestExists ==
  ASSUME TypeInv, NEW p \in Panes, Wanted(p) # {}
  PROVE  Smallest(p) \in Wanted(p) /\ Smallest(p) \in Sizes /\ \A t \in Wanted(p) : Smallest(p) <= t
<1>1. Wanted(p) \subseteq Sizes
  <2>1. \A c \in Clients : constraint[c][p] \in 0..MaxSize
    BY DEF TypeInv, TypeOK
  <2>2. live \subseteq Clients
    BY DEF TypeInv, TypeOK
  <2> QED BY <2>1, <2>2, ConstantsAssumption DEF Wanted, Sizes
<1>2. Wanted(p) \subseteq Nat
  BY <1>1, ConstantsAssumption DEF Sizes
<1>3. \E x \in Wanted(p) : \A y \in Wanted(p) : ~(<<y, x>> \in OpToRel(<, Nat))
  BY <1>2, NatLessThanWellFounded, WFMin, Zenon
<1>4. \A x, y \in Nat : ~(<<y, x>> \in OpToRel(<, Nat)) => x <= y
  <2>1. \A x, y \in Nat : y < x => <<y, x>> \in OpToRel(<, Nat)
    BY Zenon DEF OpToRel
  <2>2. \A x, y \in Nat : y < x \/ x <= y
    OBVIOUS
  <2> QED BY <2>1, <2>2, Zenon
<1>5. \E x \in Wanted(p) : \A y \in Wanted(p) : x <= y
  BY <1>2, <1>3, <1>4, Zenon
<1>6. Smallest(p) \in Wanted(p) /\ \A t \in Wanted(p) : Smallest(p) <= t
  BY <1>5 DEF Smallest
<1> QED BY <1>1, <1>6

LEMMA ToldType ==
  ASSUME NEW v \in View, NEW frame \in OutFrame
  PROVE  Told(v, frame) \in View
BY DEF View, OutFrame, Told

LEMMA TypeInit == Init => TypeInv
<1> SUFFICES ASSUME Init PROVE TypeInv
  OBVIOUS
<1>1. workspace \in [version : Nat, size : [Panes -> 0..MaxSize], initial : [Panes -> 0..MaxSize]]
      /\ pty \in [Panes -> 0..MaxSize] /\ process \in [Panes -> {"none", "running", "exited"}]
  BY ConstantsAssumption DEF Init
<1>2. /\ constraint \in [Clients -> [Panes -> 0..MaxSize]]
      /\ \A c \in Viewers : constraint[c] = NoConstraint
  BY ConstantsAssumption DEF Init, NoConstraint
<1>3. /\ output \in [Clients -> Seq(OutFrame)] /\ input \in [Clients -> Seq(InFrame)]
      /\ view \in [Clients -> View]
      /\ \A c \in Clients : Len(output[c]) <= ReliableCap /\ view[c].members \subseteq Clients
  BY ConstantsAssumption DEF Init, View, Unseen
<1>4. drained \in [input : BOOLEAN, resizes : SUBSET Panes, changed : BOOLEAN]
  BY DEF Init, Nothing
<1> QED BY <1>1, <1>2, <1>3, <1>4 DEF Init, TypeInv, TypeOK, Shape

LEMMA TypeAround ==
  ASSUME TypeInv, NEW c \in Clients, NEW p \in Panes,
         \/ Connect(c) \/ Disconnect(c) \/ WriteFrame(c) \/ ProcessExit(p)
         \/ \E frame \in ClientFrames : SendFrame(c, frame)
  PROVE  TypeInv'
<1>1. CASE Connect(c)
  BY <1>1 DEF Connect, TypeInv, TypeOK, Shape, loop, session
<1>2. CASE Disconnect(c)
  <2>1. [type |-> "eof"] \in InFrame
    BY DEF InFrame
  <2>2. input' \in [Clients -> Seq(InFrame)]
    BY <1>2, <2>1, AppendTo DEF Disconnect, TypeInv, Shape
  <2> QED BY <1>2, <2>2 DEF Disconnect, TypeInv, TypeOK, Shape, loop, session
<1>3. CASE \E frame \in ClientFrames : SendFrame(c, frame)
  <2>1. ClientFrames \subseteq InFrame
    BY DEF ClientFrames, InFrame
  <2>2. input' \in [Clients -> Seq(InFrame)]
    BY <1>3, <2>1, AppendTo DEF SendFrame, TypeInv, Shape
  <2> QED BY <1>3, <2>2 DEF SendFrame, TypeInv, TypeOK, Shape, loop, session
<1>4. CASE ProcessExit(p)
  BY <1>4 DEF ProcessExit, TypeInv, TypeOK, Shape, loop, links
<1>5. CASE WriteFrame(c)
  <2>1. output[c] \in Seq(OutFrame) /\ output[c] # <<>> /\ view[c] \in View
    BY <1>5 DEF WriteFrame, TypeInv, Shape
  <2>2. /\ Head(output[c]) \in OutFrame /\ Tail(output[c]) \in Seq(OutFrame)
        /\ Len(Tail(output[c])) = Len(output[c]) - 1 /\ Len(output[c]) \in Nat
    BY <2>1, HeadTailProperties, LenProperties
  <2>3. Told(view[c], Head(output[c])) \in View
    BY <2>1, <2>2, ToldType
  <2>4. /\ output' \in [Clients -> Seq(OutFrame)] /\ view' \in [Clients -> View]
        /\ \A d \in Clients : Len(output'[d]) <= ReliableCap
    <3>1. /\ output' = [output EXCEPT ![c] = Tail(output[c])] \/ output' = [output EXCEPT ![c] = <<>>]
          /\ view' = view \/ view' = [view EXCEPT ![c] = Told(view[c], Head(output[c]))]
      BY <1>5 DEF WriteFrame
    <3>2. <<>> \in Seq(OutFrame) /\ Len(<<>>) = 0
      OBVIOUS
    <3>3. Len(Tail(output[c])) <= ReliableCap /\ 0 <= ReliableCap
      BY <2>2, ConstantsAssumption DEF TypeInv, TypeOK
    <3>4. /\ output \in [Clients -> Seq(OutFrame)] /\ view \in [Clients -> View]
          /\ \A d \in Clients : Len(output[d]) <= ReliableCap
      BY DEF TypeInv, TypeOK, Shape
    <3> QED BY <2>2, <2>3, <3>1, <3>2, <3>3, <3>4
  <2>5. \A d \in Clients : view'[d].members \subseteq Clients
    BY <2>4 DEF View
  <2>6. /\ writer' \in [Clients -> {"off", "up", "down", "legacy"}]
        /\ \A d \in Clients : writer'[d] # "off" <=> d \in live
    BY <1>5 DEF WriteFrame, TypeInv, TypeOK
  <2> QED BY <1>5, <2>4, <2>5, <2>6 DEF WriteFrame, TypeInv, TypeOK, Shape, loop, session
<1> QED BY <1>1, <1>2, <1>3, <1>4, <1>5

LEMMA TypeAccept ==
  ASSUME TypeInv, NEW c \in Clients, Accept(c)
  PROVE  TypeInv'
<1>1. CASE UNCHANGED <<inventory, live, writer, output, peer, view, joining>>
  BY <1>1 DEF Accept, Step, TypeInv, TypeOK, Shape, session
<1>2. CASE ~UNCHANGED <<inventory, live, writer, output, peer, view, joining>>
  <2>1. PICK found \in BOOLEAN :
          /\ writer' = [writer EXCEPT ![c] = IF found THEN "up" ELSE "legacy"]
          /\ view' = [view EXCEPT ![c] =
               [Unseen EXCEPT !.workspace = IF found THEN workspace.version ELSE 0]]
          /\ LET greeted == [d \in Clients |->
                   IF d \in live /\ writer[d] = "up" /\ ~Full(d)
                   THEN Append(output[d], Presence) ELSE output[d]]
                 crowded == {d \in live \cap Subscribers :
                               writer[d] = "up" /\ Len(greeted[d]) >= ReliableCap}
             IN  /\ output' = [d \in Clients |->
                      IF d = c
                      THEN IF found THEN Greeting ELSE <<>>
                      ELSE IF d \in (live \cap Subscribers) \ crowded /\ writer[d] = "up"
                      THEN Append(greeted[d], Patch(inventory + 1, {c}, {}))
                      ELSE greeted[d]]
                 /\ daemon' = IF crowded # {} THEN "failed" ELSE daemon
    BY <1>2 DEF Accept
  <2>2. /\ inventory' = inventory + 1 /\ peer' = [peer EXCEPT ![c] = "attached"]
        /\ live' = live \cup {c} /\ joining' = c /\ at = "accept"
        /\ UNCHANGED <<session, constraint, input, at, todo, reading, drained, resizes, closed,
                       updates, changed, spent>>
    BY <1>2 DEF Accept, Step
  <2>3. /\ Presence \in OutFrame /\ Patch(inventory + 1, {c}, {}) \in OutFrame
    <3>1. inventory + 1 \in Nat /\ {c} \in SUBSET Clients /\ {} \in SUBSET Clients
      BY DEF TypeInv, TypeOK
    <3> QED BY <3>1, FrameTypes DEF TypeInv, TypeOK
  <2>4. ASSUME NEW d \in Clients
        PROVE  output'[d] \in Seq(OutFrame) /\ Len(output'[d]) <= ReliableCap
    <3>1. output[d] \in Seq(OutFrame) /\ Len(output[d]) <= ReliableCap
      BY DEF TypeInv, TypeOK, Shape
    <3>2. /\ Append(output[d], Presence) \in Seq(OutFrame)
          /\ Len(Append(output[d], Presence)) = Len(output[d]) + 1 /\ Len(output[d]) \in Nat
      BY <2>3, <3>1, AppendTo
    <3> DEFINE g == IF d \in live /\ writer[d] = "up" /\ ~Full(d)
                    THEN Append(output[d], Presence) ELSE output[d]
    <3>3. g \in Seq(OutFrame) /\ Len(g) <= ReliableCap /\ Len(g) \in Nat
      BY <3>1, <3>2, ConstantsAssumption DEF Full
    <3>4. /\ Append(g, Patch(inventory + 1, {c}, {})) \in Seq(OutFrame)
          /\ Len(Append(g, Patch(inventory + 1, {c}, {}))) = Len(g) + 1
      BY <2>3, <3>3, AppendTo
    <3>5. \/ output'[d] = Greeting \/ output'[d] = <<>> \/ output'[d] = g
          \/ output'[d] = Append(g, Patch(inventory + 1, {c}, {})) /\ ~(Len(g) >= ReliableCap)
      BY <2>1
    <3> HIDE DEF g
    <3>6. <<>> \in Seq(OutFrame) /\ Len(<<>>) <= ReliableCap
      BY ConstantsAssumption
    <3>7. Len(g) + 1 <= ReliableCap \/ Len(g) >= ReliableCap
      BY <3>3, ConstantsAssumption
    <3> QED BY <3>3, <3>4, <3>5, <3>6, <3>7, GreetingTypes
  <2>5. output' \in [Clients -> Seq(OutFrame)] /\ \A d \in Clients : Len(output'[d]) <= ReliableCap
    BY <2>1, <2>4
  <2>6. view' \in [Clients -> View] /\ \A d \in Clients : view'[d].members \subseteq Clients
    <3>1. [Unseen EXCEPT !.workspace = IF found THEN workspace.version ELSE 0] \in View
      BY DEF Unseen, View, TypeInv, TypeOK
    <3>2. view' \in [Clients -> View]
      BY <2>1, <3>1 DEF TypeInv, Shape
    <3> QED BY <3>2 DEF View
  <2>7. /\ writer' \in [Clients -> {"off", "up", "down", "legacy"}]
        /\ \A d \in Clients : writer'[d] # "off" <=> d \in live'
        /\ daemon' \in {"serving", "stopped", "failed"}
        /\ live' \subseteq Clients /\ inventory' \in Nat
    BY <2>1, <2>2 DEF TypeInv, TypeOK
  <2> QED BY <2>2, <2>5, <2>6, <2>7 DEF TypeInv, TypeOK, Shape, session
<1> QED BY <1>1, <1>2

LEMMA TypeJoin ==
  ASSUME TypeInv, \/ SendSnapshot \/ Poll \/ AcceptDone \/ DrainDone \/ NoFrame
                  \/ \E c \in Clients : StartDrain(c)
  PROVE  TypeInv'
<1>1. CASE SendSnapshot
  <2>1. Snapshot(live) \in OutFrame
    BY FrameTypes DEF TypeInv, TypeOK
  <2>2. UNCHANGED <<output, daemon>> \/ (daemon' = "failed" /\ UNCHANGED output)
          \/ Post({joining}, Snapshot(live))
    BY <1>1 DEF SendSnapshot
  <2>3. /\ output' \in [Clients -> Seq(OutFrame)]
        /\ \A c \in Clients : Len(output'[c]) <= ReliableCap
        /\ daemon' \in {"serving", "stopped", "failed"}
    BY <2>1, <2>2, PostTypes DEF TypeInv, TypeOK, Shape
  <2>4. /\ joining' = NoClient
        /\ UNCHANGED <<session, inventory, live, constraint, writer, input, peer, view, at, todo,
                       reading, drained, resizes, closed, updates, changed, spent>>
    BY <1>1 DEF SendSnapshot
  <2> QED BY <2>3, <2>4 DEF TypeInv, TypeOK, Shape, session
<1>2. CASE Poll \/ AcceptDone \/ DrainDone
  BY <1>2 DEF Poll, AcceptDone, DrainDone, Step, Goto, TypeInv, TypeOK, Shape, links, session
<1>3. CASE NoFrame
  BY <1>3 DEF NoFrame, FinishDrain, Nothing, Step, TypeInv, TypeOK, Shape, links, session
<1>4. CASE \E c \in Clients : StartDrain(c)
  BY <1>4 DEF StartDrain, Nothing, Step, TypeInv, TypeOK, Shape, links, session
<1> QED BY <1>1, <1>2, <1>3, <1>4

LEMMA WorkspaceTypes ==
  ASSUME TypeInv, NEW p \in Panes, NEW size \in 0..MaxSize, NEW initial \in 0..MaxSize
  PROVE  /\ [workspace EXCEPT !.version = @ + 1, !.size[p] = size] \in Workspace
         /\ [workspace EXCEPT !.version = @ + 2, !.size[p] = size, !.initial[p] = initial]
              \in Workspace
<1>1. /\ workspace.version \in Nat /\ workspace.size \in [Panes -> 0..MaxSize]
      /\ workspace.initial \in [Panes -> 0..MaxSize] /\ workspace \in Workspace
  BY DEF TypeInv, TypeOK, Workspace
<1>2. /\ [workspace.size EXCEPT ![p] = size] \in [Panes -> 0..MaxSize]
      /\ [workspace.initial EXCEPT ![p] = initial] \in [Panes -> 0..MaxSize]
  BY <1>1
<1>3. workspace.version + 1 \in Nat /\ workspace.version + 2 \in Nat
  BY <1>1
<1>4. [workspace EXCEPT !.version = @ + 1, !.size[p] = size] \in Workspace
  BY <1>1, <1>2, <1>3 DEF Workspace
<1>5. [workspace EXCEPT !.version = @ + 2, !.size[p] = size, !.initial[p] = initial] \in Workspace
  BY <1>1, <1>2, <1>3 DEF Workspace
<1> QED BY <1>4, <1>5

LEMMA TypeCommand ==
  ASSUME TypeInv, NEW p \in Panes, CloseTab(p) \/ NewTab(p) \/ KillSession
  PROVE  TypeInv'
<1>1. UNCHANGED <<inventory, links, loop>>
  BY DEF CloseTab, NewTab, KillSession, CommandStep
<1>2. /\ workspace' \in Workspace
      /\ process' \in [Panes -> {"none", "running", "exited"}] /\ pty' \in [Panes -> 0..MaxSize]
      /\ daemon' \in {"serving", "stopped", "failed"}
  <2>1. CASE CloseTab(p)
    <3>1. 0 \in 0..MaxSize
      BY ConstantsAssumption
    <3>2. workspace' \in Workspace
      BY <2>1, <3>1, WorkspaceTypes DEF CloseTab
    <3> QED BY <2>1, <3>1, <3>2 DEF CloseTab, TypeInv, TypeOK
  <2>2. CASE NewTab(p)
    <3>1. PICK active \in Here :
            /\ pty' = [pty EXCEPT ![p] = workspace.initial[active]]
            /\ workspace' = [workspace EXCEPT !.version = @ + 2,
                                              !.size[p] = workspace.size[active],
                                              !.initial[p] = workspace.size[active]]
      BY <2>2 DEF NewTab
    <3>2. active \in Panes
      BY DEF Here
    <3>3. process' = [process EXCEPT ![p] = "running"] /\ UNCHANGED daemon
      BY <2>2 DEF NewTab
    <3>4. workspace.size[active] \in 0..MaxSize /\ workspace.initial[active] \in 0..MaxSize
      BY <3>2 DEF TypeInv, TypeOK
    <3>5. workspace' \in Workspace
      BY <3>1, <3>4, WorkspaceTypes
    <3> QED BY <3>1, <3>3, <3>4, <3>5 DEF TypeInv, TypeOK
  <2>3. CASE KillSession
    BY <2>3 DEF KillSession, session, TypeInv, TypeOK, Workspace
  <2> QED BY <2>1, <2>2, <2>3
<1> QED BY <1>1, <1>2 DEF TypeInv, TypeOK, Shape, links, loop, Workspace

LEMMA TypeDrain ==
  ASSUME TypeInv, DrainFrame
  PROVE  TypeInv'
<1> DEFINE frame == Head(input[reading])
<1>1. /\ reading \in Clients /\ input[reading] \in Seq(InFrame) /\ input[reading] # <<>>
      /\ at = "drain"
  BY DEF DrainFrame, Step, TypeInv, TypeOK, Shape
<1>2. frame \in InFrame /\ input' \in [Clients -> Seq(InFrame)]
  <2>1. Head(input[reading]) \in InFrame /\ Tail(input[reading]) \in Seq(InFrame)
    BY <1>1, HeadTailProperties
  <2> QED BY <2>1 DEF DrainFrame, TypeInv, Shape
<1>3. UNCHANGED <<inventory, live, writer, peer, view, at, joining, todo, spent>>
  BY DEF DrainFrame
<1>4. Error \in OutFrame
  BY FrameTypes DEF TypeInv, TypeOK
<1> DEFINE Output ==
      /\ output' \in [Clients -> Seq(OutFrame)]
      /\ \A c \in Clients : Len(output'[c]) <= ReliableCap
      /\ daemon' \in {"serving", "stopped", "failed"}
    Rest ==
      /\ workspace' \in Workspace
      /\ process' \in [Panes -> {"none", "running", "exited"}] /\ pty' \in [Panes -> 0..MaxSize]
      /\ constraint' \in [Clients -> [Panes -> 0..MaxSize]]
      /\ \A c \in Viewers : constraint'[c] = NoConstraint
      /\ drained' \in [input : BOOLEAN, resizes : SUBSET Panes, changed : BOOLEAN]
      /\ reading' \in Clients \cup {NoClient} /\ closed' \subseteq Clients
      /\ updates' \subseteq Clients /\ resizes' \subseteq Panes /\ changed' \in BOOLEAN
<1>5. UNCHANGED <<output, daemon>> => Output
  BY DEF TypeInv, TypeOK, Shape
<1>6. \A c \in Clients : Post({c}, Error) => Output
  BY <1>4, PostTypes
<1>7. /\ Constrained(reading) \subseteq Panes
      /\ drained \in [input : BOOLEAN, resizes : SUBSET Panes, changed : BOOLEAN]
  BY DEF Constrained, TypeInv, Shape
<1>8. Reject(reading) => Output /\ Rest
  BY <1>1, <1>6, <1>7 DEF Reject, Hangup, Nothing, session, TypeInv, TypeOK, Shape, Workspace
<1>9. CASE DrainResize(reading, frame)
  <2>1. frame.pane \in Panes /\ frame.size \in Sizes
    BY <1>2, <1>9 DEF DrainResize, InFrame
  <2>2. CASE Reject(reading)
    BY <1>3, <1>2, <1>8, <2>2 DEF TypeInv, TypeOK, Shape, Workspace
  <2>3. CASE Collect(drained) /\ UNCHANGED <<session, constraint, output, daemon>>
    BY <1>3, <1>2, <1>5, <2>3 DEF Collect, session, TypeInv, TypeOK, Shape
  <2>4. CASE /\ reading \notin Viewers
             /\ constraint' = [constraint EXCEPT ![reading][frame.pane] = frame.size]
             /\ Collect([drained EXCEPT !.resizes = @ \cup {frame.pane}])
             /\ UNCHANGED <<session, output, daemon>>
    <3>1. constraint' \in [Clients -> [Panes -> 0..MaxSize]]
      <4>1. constraint \in [Clients -> [Panes -> 0..MaxSize]]
        BY DEF TypeInv, TypeOK
      <4>2. frame.size \in 0..MaxSize
        BY <2>1, ConstantsAssumption DEF Sizes
      <4>3. [constraint[reading] EXCEPT ![frame.pane] = frame.size] \in [Panes -> 0..MaxSize]
        BY <1>1, <2>1, <4>1, <4>2
      <4>4. constraint' = [constraint EXCEPT ![reading] =
                             [constraint[reading] EXCEPT ![frame.pane] = frame.size]]
        BY <2>4
      <4> QED BY <4>1, <4>3, <4>4
    <3>2. \A c \in Viewers : constraint'[c] = NoConstraint
      BY <2>4, ConstantsAssumption DEF TypeInv, TypeOK
    <3>3. drained' \in [input : BOOLEAN, resizes : SUBSET Panes, changed : BOOLEAN]
      BY <1>7, <2>1, <2>4 DEF Collect
    <3> QED BY <1>3, <1>2, <1>5, <2>4, <3>1, <3>2, <3>3 DEF Collect, session, TypeInv, TypeOK, Shape
  <2>5. CASE /\ pty' = [pty EXCEPT ![frame.pane] = frame.size]
             /\ IF workspace.size[frame.pane] = frame.size
                THEN Collect(drained) /\ UNCHANGED workspace
                ELSE /\ workspace' = Resized(frame.pane, frame.size)
                     /\ Collect([drained EXCEPT !.changed = TRUE])
             /\ UNCHANGED <<process, constraint, output, daemon>>
    <3>0. frame.size \in 0..MaxSize
      BY <2>1, ConstantsAssumption DEF Sizes
    <3>1. pty' \in [Panes -> 0..MaxSize] /\ workspace' \in Workspace
      <4>1. Resized(frame.pane, frame.size) \in Workspace
        BY <2>1, <3>0, WorkspaceTypes DEF Resized
      <4>2. workspace \in Workspace /\ pty \in [Panes -> 0..MaxSize]
        BY DEF TypeInv, TypeOK, Workspace
      <4> QED BY <2>5, <3>0, <4>1, <4>2
    <3>2. drained' \in [input : BOOLEAN, resizes : SUBSET Panes, changed : BOOLEAN]
      BY <1>7, <2>5 DEF Collect
    <3>3. UNCHANGED <<reading, closed, resizes, updates, changed>>
      BY <2>5 DEF Collect
    <3> QED BY <1>3, <1>2, <1>5, <2>5, <3>1, <3>2, <3>3 DEF TypeInv, TypeOK, Shape, Workspace
  <2> QED BY <1>9, <2>2, <2>3, <2>4, <2>5 DEF DrainResize
<1>10. CASE DrainInput(reading, frame)
  <2>1. CASE Reject(reading)
    BY <1>3, <1>2, <1>8, <2>1 DEF TypeInv, TypeOK, Shape, Workspace
  <2>2. CASE ~Reject(reading)
    <3>1. /\ Collect([drained EXCEPT !.input = TRUE]) /\ UNCHANGED <<session, constraint>>
          /\ UNCHANGED <<output, daemon>> \/ Post({reading}, Error)
      BY <1>10, <2>2 DEF DrainInput
    <3>2. Output
      BY <1>1, <1>5, <1>6, <3>1
    <3>3. drained' \in [input : BOOLEAN, resizes : SUBSET Panes, changed : BOOLEAN]
      BY <1>7, <3>1 DEF Collect
    <3> QED BY <1>3, <1>2, <3>1, <3>2, <3>3 DEF Collect, session, TypeInv, TypeOK, Shape
  <2> QED BY <2>1, <2>2
<1>11. CASE DrainEnd(reading, frame)
  BY <1>1, <1>2, <1>3, <1>5, <1>7, <1>11
     DEF DrainEnd, FinishDrain, Nothing, session, TypeInv, TypeOK, Shape
<1> QED BY <1>9, <1>10, <1>11 DEF DrainFrame

LEMMA TypeFit ==
  ASSUME TypeInv, NEW p \in Panes, Fit(p)
  PROVE  TypeInv'
<1>1. \/ UNCHANGED <<session, daemon, changed>>
      \/ daemon' = "failed" /\ UNCHANGED <<session, changed>>
      \/ /\ Wanted(p) # {} /\ pty' = [pty EXCEPT ![p] = Smallest(p)]
         /\ workspace' = Resized(p, Smallest(p))
         /\ changed' = (changed \/ at # "final")
         /\ UNCHANGED <<process, daemon>>
  BY DEF Fit
<1>2. Wanted(p) # {} => Smallest(p) \in 0..MaxSize
  BY SmallestExists, ConstantsAssumption DEF Sizes
<1>3. /\ workspace' \in Workspace
      /\ process' \in [Panes -> {"none", "running", "exited"}] /\ pty' \in [Panes -> 0..MaxSize]
      /\ daemon' \in {"serving", "stopped", "failed"} /\ changed' \in BOOLEAN
  <2>1. Wanted(p) # {} => Resized(p, Smallest(p)) \in Workspace
    BY <1>2, WorkspaceTypes DEF Resized
  <2>2. workspace \in Workspace /\ pty \in [Panes -> 0..MaxSize]
    BY DEF TypeInv, TypeOK, Workspace
  <2>3. CASE UNCHANGED <<session, changed>> /\ (daemon' = daemon \/ daemon' = "failed")
    BY <2>2, <2>3 DEF session, TypeInv, TypeOK
  <2>4. CASE /\ Wanted(p) # {} /\ pty' = [pty EXCEPT ![p] = Smallest(p)]
             /\ workspace' = Resized(p, Smallest(p))
             /\ changed' = (changed \/ at # "final")
             /\ UNCHANGED <<process, daemon>>
    <3>1. pty' \in [Panes -> 0..MaxSize] /\ workspace' \in Workspace
      BY <1>2, <2>1, <2>2, <2>4
    <3>2. /\ changed' \in BOOLEAN /\ daemon' \in {"serving", "stopped", "failed"}
          /\ process' \in [Panes -> {"none", "running", "exited"}]
      BY <2>4 DEF TypeInv, TypeOK
    <3> QED BY <3>1, <3>2
  <2> QED BY <1>1, <2>3, <2>4
<1>4. /\ resizes' \subseteq Panes
      /\ UNCHANGED <<inventory, links, at, joining, todo, reading, drained, closed, updates, spent>>
  BY DEF Fit, TypeInv, TypeOK
<1> QED BY <1>3, <1>4 DEF TypeInv, TypeOK, Shape, links, Workspace

LEMMA PatchTypes ==
  ASSUME TypeInv, NEW gone \in SUBSET Clients, NEW left \in SUBSET Clients, WithPatch(gone, left)
  PROVE  /\ output' \in [Clients -> Seq(OutFrame)]
         /\ \A c \in Clients : Len(output'[c]) <= ReliableCap
         /\ daemon' \in {"serving", "stopped", "failed"} /\ inventory' \in Nat
<1> DEFINE q == Queued((live \ gone) \cap Subscribers, Patch(inventory + 1, {}, left))
<1>1. Patch(inventory + 1, {}, left) \in OutFrame
  <2>1. inventory + 1 \in Nat /\ {} \in SUBSET Clients
    BY DEF TypeInv, TypeOK
  <2> QED BY <2>1, FrameTypes DEF TypeInv, TypeOK
<1>2. q \in [Clients -> Seq(OutFrame)] /\ \A c \in Clients : Len(q[c]) <= ReliableCap
  BY <1>1, QueuedTypes
<1>3. \A c \in Clients : output'[c] = <<>> \/ output'[c] = output[c] \/ output'[c] = q[c]
  BY DEF WithPatch
<1>4. output' = [c \in Clients |-> output'[c]]
  BY DEF WithPatch
<1> HIDE DEF q
<1>5. <<>> \in Seq(OutFrame) /\ Len(<<>>) <= ReliableCap
  BY ConstantsAssumption
<1>6. \A c \in Clients : output'[c] \in Seq(OutFrame) /\ Len(output'[c]) <= ReliableCap
  BY <1>2, <1>3, <1>5 DEF TypeInv, TypeOK, Shape
<1>7. output' \in [Clients -> Seq(OutFrame)]
  BY <1>4, <1>6
<1>8. inventory' \in Nat /\ daemon' \in {"serving", "stopped", "failed"}
  BY DEF WithPatch, TypeInv, TypeOK
<1> QED BY <1>6, <1>7, <1>8

LEMMA DropTypes ==
  ASSUME TypeInv, todo = {}, joining = NoClient, NEW gone \in SUBSET Clients, Drop(gone)
  PROVE  /\ live' \subseteq Clients /\ constraint' \in [Clients -> [Panes -> 0..MaxSize]]
         /\ \A c \in Viewers : constraint'[c] = NoConstraint
         /\ writer' \in [Clients -> {"off", "up", "down", "legacy"}]
         /\ \A c \in Clients : writer'[c] # "off" <=> c \in live'
         /\ input' \in [Clients -> Seq(InFrame)]
         /\ peer' \in [Clients -> {"away", "connecting", "attached", "gone"}]
         /\ view' \in [Clients -> View] /\ \A c \in Clients : view'[c].members \subseteq Clients
         /\ resizes' \subseteq Panes
<1>1. NoConstraint \in [Panes -> 0..MaxSize] /\ Unseen \in View /\ <<>> \in Seq(InFrame)
  BY ConstantsAssumption DEF NoConstraint, Unseen, View
<1>2. view' \in [Clients -> View] /\ constraint' \in [Clients -> [Panes -> 0..MaxSize]]
      /\ input' \in [Clients -> Seq(InFrame)]
  BY <1>1 DEF Drop, Ended, TypeInv, TypeOK, Shape
<1>3. \A c \in Clients : view'[c].members \subseteq Clients
  BY <1>2 DEF View
<1>4. \A c \in Viewers : constraint'[c] = NoConstraint
  BY ConstantsAssumption DEF Drop, Ended, TypeInv, TypeOK
<1> QED BY <1>2, <1>3, <1>4 DEF Drop, Ended, Constrained, TypeInv, TypeOK, Shape

LEMMA TypePublish ==
  ASSUME TypeInv, RemoveClosed \/ UpdateInventory \/ Publish \/ EndIteration
  PROVE  TypeInv'
<1>0. todo = {} /\ joining = NoClient /\ closed \in SUBSET Clients
  BY DEF RemoveClosed, UpdateInventory, Publish, EndIteration, Step, TypeInv, TypeOK, Shape
<1>1. CASE RemoveClosed
  <2>1. Drop(closed) /\ WithPatch(closed, closed) /\ closed' = {} /\ at' = "refit"
        /\ UNCHANGED <<session, joining, todo, reading, drained, updates, changed, spent>>
    BY <1>1 DEF RemoveClosed, Goto
  <2> QED BY <1>0, <2>1, DropTypes, PatchTypes DEF TypeInv, TypeOK, Shape, session
<1>2. CASE UpdateInventory
  <2>1. Patch(inventory + 1, updates \cap live, {}) \in OutFrame
    <3>1. inventory + 1 \in Nat /\ updates \cap live \in SUBSET Clients /\ {} \in SUBSET Clients
      BY DEF TypeInv, TypeOK
    <3> QED BY <3>1, FrameTypes DEF TypeInv, TypeOK
  <2>2. /\ output' \in [Clients -> Seq(OutFrame)]
        /\ \A c \in Clients : Len(output'[c]) <= ReliableCap
        /\ daemon' \in {"serving", "stopped", "failed"} /\ inventory' \in Nat
    <3>1. inventory' \in Nat
      BY <1>2 DEF UpdateInventory, TypeInv, TypeOK
    <3>2. UNCHANGED <<output, daemon>>
            \/ Post(live \cap Subscribers, Patch(inventory + 1, updates \cap live, {}))
      BY <1>2 DEF UpdateInventory
    <3> QED BY <2>1, <3>1, <3>2, PostTypes DEF TypeInv, TypeOK, Shape
  <2>3. updates' = {} /\ at' = "publish"
        /\ UNCHANGED <<session, live, constraint, writer, input, peer, view, joining, todo, reading,
                       drained, resizes, closed, changed, spent>>
    BY <1>2 DEF UpdateInventory, Goto
  <2> QED BY <1>0, <2>2, <2>3 DEF TypeInv, TypeOK, Shape, session
<1>3. CASE Publish
  <2>1. PICK broken \in SUBSET Clients :
          /\ closed' = broken /\ Drop(broken)
          /\ output' = [c \in Clients |-> IF c \in broken THEN <<>>
                                          ELSE IF changed THEN Queued(live, WorkspaceFrame)[c]
                                          ELSE output[c]]
          /\ daemon' = IF changed /\ \E c \in live : Full(c) THEN "failed" ELSE daemon
    BY <1>3 DEF Publish, TypeInv, TypeOK
  <2> DEFINE q == Queued(live, WorkspaceFrame)
  <2>2. q \in [Clients -> Seq(OutFrame)] /\ \A c \in Clients : Len(q[c]) <= ReliableCap
    BY FrameTypes, QueuedTypes DEF TypeInv, TypeOK
  <2>3. \A c \in Clients : output'[c] = <<>> \/ output'[c] = output[c] \/ output'[c] = q[c]
    BY <2>1
  <2>4. output' = [c \in Clients |-> output'[c]]
    BY <2>1
  <2> HIDE DEF q
  <2>5. <<>> \in Seq(OutFrame) /\ Len(<<>>) <= ReliableCap
    BY ConstantsAssumption
  <2>6. \A c \in Clients : output'[c] \in Seq(OutFrame) /\ Len(output'[c]) <= ReliableCap
    BY <2>2, <2>3, <2>5 DEF TypeInv, TypeOK, Shape
  <2>7. output' \in [Clients -> Seq(OutFrame)]
    BY <2>4, <2>6
  <2>8. changed' = FALSE /\ at' = "final"
        /\ UNCHANGED <<session, inventory, joining, todo, reading, drained, updates, spent>>
    BY <1>3 DEF Publish, Goto
  <2>9. daemon' \in {"serving", "stopped", "failed"}
    BY <2>1 DEF TypeInv, TypeOK
  <2> QED BY <1>0, <2>1, <2>6, <2>7, <2>8, <2>9, DropTypes DEF TypeInv, TypeOK, Shape, session
<1>4. CASE EndIteration
  <2>1. WithPatch({}, closed) /\ closed' = {} /\ at' = "poll"
        /\ UNCHANGED <<session, live, constraint, writer, input, peer, view, joining, todo, reading,
                       drained, resizes, updates, changed, spent>>
    BY <1>4 DEF EndIteration, Goto
  <2>2. {} \in SUBSET Clients
    OBVIOUS
  <2> QED BY <1>0, <2>1, <2>2, PatchTypes DEF TypeInv, TypeOK, Shape, session
<1> QED BY <1>1, <1>2, <1>3, <1>4

LEMMA TypeNext == TypeInv /\ [Next]_vars => TypeInv'
<1> SUFFICES ASSUME TypeInv, [Next]_vars PROVE TypeInv'
  OBVIOUS
<1>1. CASE UNCHANGED vars
  BY <1>1 DEF vars, session, links, loop, TypeInv, TypeOK, Shape
<1>2. RootPane \in Panes
  BY ConstantsAssumption
<1>3. CASE \E c \in Clients : \/ Connect(c) \/ Disconnect(c) \/ WriteFrame(c)
                              \/ \E frame \in ClientFrames : SendFrame(c, frame)
  BY <1>2, <1>3, TypeAround
<1>4. CASE LoopStep
  BY <1>4, TypeAccept, TypeJoin, TypeDrain, TypeFit, TypePublish DEF LoopStep
<1>5. CASE KillSession \/ \E p \in Panes : CloseTab(p) \/ NewTab(p)
  BY <1>2, <1>5, TypeCommand
<1>6. ASSUME NEW p \in Panes, ProcessExit(p) PROVE TypeInv'
  BY <1>6 DEF ProcessExit, TypeInv, TypeOK, Shape, loop, links
<1> QED BY <1>1, <1>3, <1>4, <1>5, <1>6 DEF Next

\* Type correctness of the serve loop, with what its queues and lists may hold.
THEOREM TypeCorrect == Spec => []TypeOK
<1>1. TypeInv => TypeOK
  BY DEF TypeInv
<1> QED BY <1>1, TypeInit, TypeNext, PTL DEF Spec
-----------------------------------------------------------------------------
(* The inventory every subscriber is told *)

\* A client told v that reads the frames w refuses none and then has been told u.
Reads(v, w, u) ==
  \E f \in [0..Len(w) -> View] :
    /\ f[0] = v /\ f[Len(w)] = u
    /\ \A i \in 0..Len(w) : ~f[i].missed
    /\ \A i \in 1..Len(w) : f[i] = Told(f[i-1], w[i])

\* If `kept`, it then knows the inventory: version n with the clients m.
Knows(v, w, kept, n, m) ==
  \E u \in View : Reads(v, w, u) /\ (kept => u.inventory = n /\ u.members = m)

\* Whom the patches tell of: the loop is the last to tell of those it has just dropped.
Listed == IF at = "final" THEN live \cup closed ELSE live
KeptUp(c) == c \in live \cap Subscribers /\ writer[c] = "up" /\ c # joining

Followed == \A c \in Clients : Knows(view[c], output[c], KeptUp(c), inventory, Listed)
InventoryInv ==
  /\ InventoryNeverMissed
  /\ at = "final" => closed \cap live = {}
  /\ daemon = "serving" => Followed

LEMMA ReadsGreeting ==
  ASSUME NEW v \in View, ~v.missed, NEW w \in Seq(OutFrame), \A i \in 1..Len(w) : w[i] = Presence
  PROVE  Reads(v, w, v)
<1> DEFINE f == [i \in 0..Len(w) |-> v]
<1>1. Len(w) \in Nat
  OBVIOUS
<1>2. Told(v, Presence) = v
  BY DEF Told, Presence
<1>3. f \in [0..Len(w) -> View] /\ f[0] = v /\ f[Len(w)] = v
  BY <1>1
<1>4. \A i \in 0..Len(w) : ~f[i].missed
  OBVIOUS
<1>5. \A i \in 1..Len(w) : f[i] = Told(f[i-1], w[i])
  BY <1>1, <1>2
<1> HIDE DEF f
<1> QED BY <1>3, <1>4, <1>5 DEF Reads

LEMMA ReadsAppend ==
  ASSUME NEW v \in View, NEW w \in Seq(OutFrame), NEW u \in View, NEW frame \in OutFrame,
         Reads(v, w, u), ~Told(u, frame).missed
  PROVE  Reads(v, Append(w, frame), Told(u, frame))
<1>1. PICK f \in [0..Len(w) -> View] :
        /\ f[0] = v /\ f[Len(w)] = u
        /\ \A i \in 0..Len(w) : ~f[i].missed
        /\ \A i \in 1..Len(w) : f[i] = Told(f[i-1], w[i])
  BY DEF Reads
<1> DEFINE n == Len(w)
           x == Append(w, frame)
           t == Told(u, frame)
           g == [i \in 0..(n+1) |-> IF i = n + 1 THEN t ELSE f[i]]
<1>2. /\ n \in Nat /\ Len(x) = n + 1 /\ \A i \in 1..n : x[i] = w[i]
      /\ x[n + 1] = frame
  BY AppendProperties, LenProperties
<1>3. t \in View
  BY ToldType
<1> HIDE DEF x, t
<1>4. g \in [0..Len(x) -> View] /\ g[0] = v /\ g[Len(x)] = t
  BY <1>1, <1>2, <1>3
<1>5. \A i \in 0..Len(x) : ~g[i].missed
  BY <1>1, <1>2 DEF t
<1>6. ASSUME NEW i \in 1..Len(x) PROVE g[i] = Told(g[i-1], x[i])
  <2>1. CASE i = n + 1
    <3>1. g[i] = t /\ g[i-1] = u /\ x[i] = frame
      BY <1>1, <1>2, <2>1
    <3> QED BY <3>1 DEF t
  <2>2. CASE i # n + 1
    <3>1. i \in 1..n /\ g[i] = f[i] /\ g[i-1] = f[i-1] /\ x[i] = w[i]
      BY <1>1, <1>2, <2>2
    <3> QED BY <1>1, <3>1
  <2> QED BY <2>1, <2>2
<1> HIDE DEF g
<1>7. Reads(v, x, t)
  BY <1>4, <1>5, <1>6 DEF Reads
<1> QED BY <1>7 DEF x, t

LEMMA ReadsTail ==
  ASSUME NEW v \in View, NEW w \in Seq(OutFrame), w # <<>>, NEW u \in View, Reads(v, w, u)
  PROVE  Reads(Told(v, Head(w)), Tail(w), u) /\ ~Told(v, Head(w)).missed
<1>1. PICK f \in [0..Len(w) -> View] :
        /\ f[0] = v /\ f[Len(w)] = u
        /\ \A i \in 0..Len(w) : ~f[i].missed
        /\ \A i \in 1..Len(w) : f[i] = Told(f[i-1], w[i])
  BY DEF Reads
<1> DEFINE x == Tail(w)
           g == [i \in 0..Len(x) |-> f[i+1]]
<1>2. /\ Len(w) \in Nat \ {0} /\ Len(x) = Len(w) - 1
      /\ \A i \in 1..Len(x) : x[i] = w[i+1]
      /\ Head(w) = w[1]
  BY HeadTailProperties
<1>3. f[1] = Told(v, Head(w)) /\ ~f[1].missed
  BY <1>1, <1>2
<1> HIDE DEF x
<1>4. g \in [0..Len(x) -> View] /\ g[0] = f[1] /\ g[Len(x)] = u
  BY <1>1, <1>2
<1>5. \A i \in 0..Len(x) : ~g[i].missed
  BY <1>1, <1>2
<1>6. ASSUME NEW i \in 1..Len(x) PROVE g[i] = Told(g[i-1], x[i])
  <2>1. i + 1 \in 1..Len(w) /\ g[i] = f[i+1] /\ g[i-1] = f[i] /\ x[i] = w[i+1]
    BY <1>2
  <2>2. f[i+1] = Told(f[(i+1)-1], w[i+1]) /\ (i+1)-1 = i
    BY <1>1, <2>1
  <2> QED BY <2>1, <2>2
<1> HIDE DEF g
<1>7. Reads(f[1], x, u)
  BY <1>4, <1>5, <1>6 DEF Reads
<1> QED BY <1>3, <1>7 DEF x

\* Presence, errors and workspace trees say nothing of the inventory.
LEMMA KnowsNews ==
  ASSUME NEW v \in View, NEW w \in Seq(OutFrame), NEW frame \in OutFrame,
         frame.type \in {"presence", "error", "workspace"},
         NEW kept \in BOOLEAN, NEW n, NEW m, Knows(v, w, kept, n, m)
  PROVE  Knows(v, Append(w, frame), kept, n, m)
<1>1. PICK u \in View : Reads(v, w, u) /\ (kept => u.inventory = n /\ u.members = m)
  BY DEF Knows
<1>2. ~u.missed
  <2>1. PICK f \in [0..Len(w) -> View] : f[Len(w)] = u /\ \A i \in 0..Len(w) : ~f[i].missed
    BY <1>1 DEF Reads
  <2> QED BY <2>1, LenProperties
<1>3. /\ Told(u, frame) \in View /\ Told(u, frame).missed = u.missed
      /\ Told(u, frame).inventory = u.inventory /\ Told(u, frame).members = u.members
  BY ToldType DEF Told, View
<1> QED BY <1>1, <1>2, <1>3, ReadsAppend DEF Knows

LEMMA KnowsPatch ==
  ASSUME NEW v \in View, NEW w \in Seq(OutFrame), NEW n \in Nat, NEW m \in SUBSET Clients,
         NEW joined \in SUBSET Clients, NEW left \in SUBSET Clients, Knows(v, w, TRUE, n, m)
  PROVE  Knows(v, Append(w, Patch(n + 1, joined, left)), TRUE, n + 1, (m \ left) \cup joined)
<1> DEFINE frame == Patch(n + 1, joined, left)
           mm == (m \ left) \cup joined
<1>1. PICK u \in View : Reads(v, w, u) /\ u.inventory = n /\ u.members = m
  BY DEF Knows
<1>2. ~u.missed
  <2>1. PICK f \in [0..Len(w) -> View] : f[Len(w)] = u /\ \A i \in 0..Len(w) : ~f[i].missed
    BY <1>1 DEF Reads
  <2> QED BY <2>1, LenProperties
<1>3. frame \in OutFrame
  BY DEF Patch, OutFrame
<1>4. /\ frame.type = "patch" /\ frame.base = n /\ frame.version = n + 1
      /\ frame.joined = joined /\ frame.left = left
  BY DEF Patch
<1>5. Told(u, frame) \in View
  BY <1>3, ToldType
<1> HIDE DEF frame
<1>6. Told(u, frame) = [u EXCEPT !.inventory = frame.version,
                                 !.members = (@ \ frame.left) \cup frame.joined]
  BY <1>1, <1>4 DEF Told
<1>7. /\ Told(u, frame).missed = u.missed
      /\ Told(u, frame).inventory = n + 1 /\ Told(u, frame).members = mm
  BY <1>1, <1>4, <1>6 DEF View
<1>8. Reads(v, Append(w, frame), Told(u, frame))
  BY <1>1, <1>2, <1>3, <1>7, ReadsAppend
<1>9. Knows(v, Append(w, frame), TRUE, n + 1, mm)
  BY <1>5, <1>7, <1>8 DEF Knows
<1> QED BY <1>9 DEF frame

LEMMA KnowsSnapshot ==
  ASSUME NEW v \in View, NEW w \in Seq(OutFrame), NEW m \in SUBSET Clients,
         NEW kept \in BOOLEAN, NEW n, NEW k, Knows(v, w, kept, n, k), inventory \in Nat
  PROVE  Knows(v, Append(w, Snapshot(m)), TRUE, inventory, m)
<1>1. PICK u \in View : Reads(v, w, u)
  BY DEF Knows
<1>2. ~u.missed
  <2>1. PICK f \in [0..Len(w) -> View] : f[Len(w)] = u /\ \A i \in 0..Len(w) : ~f[i].missed
    BY <1>1 DEF Reads
  <2> QED BY <2>1, LenProperties
<1>3. Snapshot(m) \in OutFrame
  BY DEF Snapshot, OutFrame
<1>4. Told(u, Snapshot(m)) = [u EXCEPT !.inventory = inventory, !.members = m]
  BY DEF Snapshot, Told
<1>5. /\ Told(u, Snapshot(m)) \in View /\ Told(u, Snapshot(m)).missed = u.missed
      /\ Told(u, Snapshot(m)).inventory = inventory /\ Told(u, Snapshot(m)).members = m
  BY <1>3, <1>4, ToldType DEF View
<1> QED BY <1>1, <1>2, <1>3, <1>5, ReadsAppend DEF Knows

LEMMA KnowsLess ==
  ASSUME NEW v, NEW w, NEW kept \in BOOLEAN, NEW n, NEW m, Knows(v, w, kept, n, m), NEW i, NEW j
  PROVE  Knows(v, w, FALSE, i, j)
BY DEF Knows

LEMMA NothingRead == ASSUME NEW v \in View, ~v.missed PROVE Reads(v, <<>>, v)
<1>1. <<>> \in Seq(OutFrame) /\ Len(<<>>) = 0
  OBVIOUS
<1>2. \A i \in 1..Len(<<>>) : <<>>[i] = Presence
  BY <1>1
<1> QED BY <1>1, <1>2, ReadsGreeting
-----------------------------------------------------------------------------
LEMMA InventoryInit == Init => InventoryInv
<1> SUFFICES ASSUME Init PROVE InventoryInv
  OBVIOUS
<1>1. Unseen \in View /\ ~Unseen.missed
  BY DEF Unseen, View
<1>2. \A c \in Clients : view[c] = Unseen /\ output[c] = <<>> /\ ~KeptUp(c)
  BY DEF Init, KeptUp
<1>3. Followed
  BY <1>1, <1>2, NothingRead DEF Followed, Knows
<1> QED BY <1>1, <1>2, <1>3 DEF Init, InventoryInv, InventoryNeverMissed

\* Nothing is said and nobody's standing changes.
LEMMA InventoryQuiet ==
  ASSUME InventoryInv, UNCHANGED <<view, output, inventory, live, writer, joining>>,
         daemon' = "serving" => daemon = "serving",
         \/ at # "final" /\ at' # "final"
         \/ UNCHANGED <<at, closed>>
  PROVE  InventoryInv'
<1>1. Listed' = Listed /\ \A c \in Clients : KeptUp(c)' = KeptUp(c)
  BY DEF Listed, KeptUp
<1> QED BY <1>1 DEF InventoryInv, InventoryNeverMissed, Followed

LEMMA InventoryAround ==
  ASSUME TypeInv, InventoryInv, NEW c \in Clients, NEW p \in Panes,
         \/ Connect(c) \/ Disconnect(c) \/ WriteFrame(c) \/ ProcessExit(p)
         \/ \E frame \in ClientFrames : SendFrame(c, frame)
  PROVE  InventoryInv'
<1>1. CASE ~WriteFrame(c)
  <2>1. UNCHANGED <<daemon, at, view, output, inventory, live, writer, joining, closed>>
    BY <1>1 DEF Connect, Disconnect, ProcessExit, SendFrame, links, loop
  <2> QED BY <2>1, InventoryQuiet
<1>2. CASE WriteFrame(c)
  <2>0. /\ UNCHANGED <<daemon, at, inventory, live, joining, closed>> /\ daemon = "serving"
        /\ output[c] \in Seq(OutFrame) /\ output[c] # <<>> /\ view[c] \in View
    BY <1>2 DEF WriteFrame, loop, TypeInv, Shape
  <2>1. Listed' = Listed /\ Followed
    BY <2>0 DEF Listed, InventoryInv
  <2>2. CASE peer[c] = "attached"
    <3>1. /\ view' = [view EXCEPT ![c] = Told(@, Head(output[c]))]
          /\ output' = [output EXCEPT ![c] = Tail(@)] /\ UNCHANGED writer
      BY <1>2, <2>2 DEF WriteFrame
    <3>2. PICK u \in View : /\ Reads(view[c], output[c], u)
                            /\ KeptUp(c) => u.inventory = inventory /\ u.members = Listed
      BY <2>1 DEF Followed, Knows
    <3>3. /\ Reads(Told(view[c], Head(output[c])), Tail(output[c]), u)
          /\ ~Told(view[c], Head(output[c])).missed
      BY <2>0, <3>2, ReadsTail
    <3>4. \A d \in Clients : KeptUp(d)' = KeptUp(d)
      BY <2>0, <3>1 DEF KeptUp
    <3>5. /\ view'[c] = Told(view[c], Head(output[c])) /\ output'[c] = Tail(output[c])
          /\ \A d \in Clients \ {c} : view'[d] = view[d] /\ output'[d] = output[d]
      BY <3>1 DEF TypeInv, Shape
    <3>6. ASSUME NEW d \in Clients
          PROVE  Knows(view'[d], output'[d], KeptUp(d)', inventory', Listed') /\ ~view'[d].missed
      <4>1. CASE d = c
        BY <2>0, <2>1, <3>2, <3>3, <3>4, <3>5, <4>1 DEF Knows
      <4>2. CASE d # c
        BY <2>0, <2>1, <3>4, <3>5, <4>2 DEF Followed, InventoryInv, InventoryNeverMissed
      <4> QED BY <4>1, <4>2
    <3> QED BY <2>0, <3>6 DEF InventoryInv, InventoryNeverMissed, Followed
  <2>3. CASE peer[c] # "attached"
    <3>1. /\ writer' = [writer EXCEPT ![c] = "down"] /\ UNCHANGED view
          /\ output' = [output EXCEPT ![c] = <<>>]
      BY <1>2, <2>3 DEF WriteFrame
    <3>2. /\ output'[c] = <<>> /\ KeptUp(c)' = FALSE
          /\ \A d \in Clients \ {c} : output'[d] = output[d] /\ KeptUp(d)' = KeptUp(d)
      BY <2>0, <3>1 DEF KeptUp, TypeInv, TypeOK, Shape
    <3>3. Knows(view[c], <<>>, FALSE, inventory, Listed)
      BY <2>0, NothingRead DEF Knows, InventoryInv, InventoryNeverMissed
    <3>4. ASSUME NEW d \in Clients
          PROVE  Knows(view'[d], output'[d], KeptUp(d)', inventory', Listed')
      <4>1. CASE d = c
        BY <2>0, <2>1, <3>1, <3>2, <3>3, <4>1
      <4>2. CASE d # c
        BY <2>0, <2>1, <3>1, <3>2, <4>2 DEF Followed
      <4> QED BY <4>1, <4>2
    <3> QED BY <2>0, <3>1, <3>4 DEF InventoryInv, InventoryNeverMissed, Followed
  <2> QED BY <2>2, <2>3
<1> QED BY <1>1, <1>2

\* The loop failed: whatever it did last, nobody reads any more.
LEMMA InventoryEnd ==
  ASSUME InventoryInv, daemon' # "serving", \A c \in Clients : view'[c] \in {view[c], Unseen},
         at' = "final" => closed' \cap live' = {}
  PROVE  InventoryInv'
BY DEF InventoryInv, InventoryNeverMissed, Unseen

LEMMA InventoryAccept ==
  ASSUME TypeInv, InventoryInv, NEW c \in Clients, Accept(c)
  PROVE  InventoryInv'
<1>1. at = "accept" /\ at' = "accept" /\ joining = NoClient /\ daemon = "serving"
  BY DEF Accept, Step
<1>2. CASE UNCHANGED <<inventory, live, writer, output, peer, view, joining>>
  <2>1. daemon' = "failed" \/ daemon' = daemon
    BY DEF Accept
  <2> QED BY <1>1, <1>2, <2>1, InventoryQuiet
<1>3. CASE ~UNCHANGED <<inventory, live, writer, output, peer, view, joining>>
  <2> DEFINE first == [Unseen EXCEPT !.workspace = workspace.version]
             second == [Unseen EXCEPT !.workspace = 0]
             joins == Patch(inventory + 1, {c}, {})
             g(d) == IF d \in live /\ writer[d] = "up" /\ ~Full(d)
                     THEN Append(output[d], Presence) ELSE output[d]
  <2>1. PICK found \in BOOLEAN :
          /\ writer' = [writer EXCEPT ![c] = IF found THEN "up" ELSE "legacy"]
          /\ view' = [view EXCEPT ![c] =
               [Unseen EXCEPT !.workspace = IF found THEN workspace.version ELSE 0]]
          /\ LET greeted == [d \in Clients |->
                   IF d \in live /\ writer[d] = "up" /\ ~Full(d)
                   THEN Append(output[d], Presence) ELSE output[d]]
                 crowded == {d \in live \cap Subscribers :
                               writer[d] = "up" /\ Len(greeted[d]) >= ReliableCap}
             IN  /\ output' = [d \in Clients |->
                      IF d = c
                      THEN IF found THEN Greeting ELSE <<>>
                      ELSE IF d \in (live \cap Subscribers) \ crowded /\ writer[d] = "up"
                      THEN Append(greeted[d], Patch(inventory + 1, {c}, {}))
                      ELSE greeted[d]]
                 /\ daemon' = IF crowded # {} THEN "failed" ELSE daemon
    BY <1>3 DEF Accept
  <2>2. inventory' = inventory + 1 /\ live' = live \cup {c} /\ joining' = c
    BY <1>3 DEF Accept
  <2>3. first \in View /\ second \in View /\ ~first.missed /\ ~second.missed
    BY DEF Unseen, View, TypeInv, TypeOK
  <2>4. /\ view'[c] = first \/ view'[c] = second
        /\ output'[c] = Greeting \/ output'[c] = <<>>
        /\ \A d \in Clients \ {c} : view'[d] = view[d] /\ writer'[d] = writer[d]
    BY <2>1 DEF TypeInv, TypeOK, Shape
  <2>5. ASSUME daemon' = "serving", NEW d \in Clients \ {c}
        PROVE  output'[d] = IF d \in live \cap Subscribers /\ writer[d] = "up"
                            THEN Append(g(d), joins) ELSE g(d)
    BY <2>1, <2>5
  <2>6. /\ Listed = live /\ Listed' = live \cup {c}
        /\ KeptUp(c)' = FALSE
        /\ \A d \in Clients \ {c} : KeptUp(d)' = KeptUp(d)
        /\ \A d \in Clients \ {c} : KeptUp(d) = (d \in live \cap Subscribers /\ writer[d] = "up")
    BY <1>1, <2>2, <2>4, ConstantsAssumption DEF Listed, KeptUp
  <2>7. ASSUME daemon' = "serving", NEW d \in Clients
        PROVE  Knows(view'[d], output'[d], KeptUp(d)', inventory', Listed')
    <3>1. CASE d = c
      <4>1. Reads(view'[c], Greeting, view'[c]) /\ Reads(view'[c], <<>>, view'[c])
        BY <2>3, <2>4, GreetingTypes, ReadsGreeting, NothingRead
      <4> QED BY <2>3, <2>4, <2>6, <3>1, <4>1 DEF Knows
    <3>2. CASE d # c
      <4>1. /\ view[d] \in View /\ output[d] \in Seq(OutFrame) /\ inventory \in Nat
            /\ live \in SUBSET Clients /\ {c} \in SUBSET Clients /\ {} \in SUBSET Clients
            /\ Presence \in OutFrame /\ Presence.type = "presence" /\ KeptUp(d) \in BOOLEAN
        BY DEF TypeInv, TypeOK, Shape, Presence, OutFrame, KeptUp
      <4>2. Knows(view[d], output[d], KeptUp(d), inventory, live)
        BY <1>1, <2>6 DEF InventoryInv, Followed
      <4>3. /\ Knows(view[d], g(d), KeptUp(d), inventory, live)
            /\ g(d) \in Seq(OutFrame)
        BY <4>1, <4>2, KnowsNews, AppendTo
      <4> HIDE DEF g
      <4>4. CASE KeptUp(d)
        <5>1. Knows(view[d], g(d), TRUE, inventory, live)
          BY <4>3, <4>4 DEF Knows
        <5>2. Knows(view[d], Append(g(d), joins), TRUE, inventory + 1, (live \ {}) \cup {c})
          BY <4>1, <4>3, <5>1, KnowsPatch
        <5>3. output'[d] = Append(g(d), joins) /\ view'[d] = view[d]
          BY <2>4, <2>5, <2>6, <2>7, <3>2, <4>4
        <5>4. KeptUp(d)' = TRUE /\ (live \ {}) \cup {c} = Listed'
          BY <2>6, <3>2, <4>4 DEF KeptUp
        <5> HIDE DEF joins
        <5> QED BY <2>2, <5>2, <5>3, <5>4
      <4>5. CASE ~KeptUp(d)
        <5>1. output'[d] = g(d) /\ view'[d] = view[d] /\ KeptUp(d)' = FALSE
          BY <2>4, <2>5, <2>6, <2>7, <3>2, <4>5 DEF KeptUp
        <5> QED BY <4>1, <4>3, <5>1, KnowsLess
      <4> QED BY <4>4, <4>5
    <3> QED BY <3>1, <3>2
  <2>8. InventoryNeverMissed'
    BY <2>3, <2>4 DEF InventoryInv, InventoryNeverMissed
  <2> QED BY <1>1, <2>7, <2>8 DEF InventoryInv, Followed
<1> QED BY <1>2, <1>3

LEMMA InventorySnapshot ==
  ASSUME TypeInv, InventoryInv, SendSnapshot
  PROVE  InventoryInv'
<1>1. /\ at = "accept" /\ daemon = "serving" /\ joining \in Clients /\ joining' = NoClient
      /\ UNCHANGED <<inventory, live, writer, view, at>>
  BY DEF SendSnapshot, Step, TypeInv, TypeOK
<1>2. Listed = live /\ Listed' = live
  BY <1>1 DEF Listed
<1>3. ASSUME daemon' = "serving", NEW d \in Clients
      PROVE  Knows(view'[d], output'[d], KeptUp(d)', inventory', Listed')
  <2>1. Knows(view[d], output[d], KeptUp(d), inventory, live) /\ KeptUp(d) \in BOOLEAN
    BY <1>1, <1>2 DEF InventoryInv, Followed, KeptUp
  <2>2. /\ view[d] \in View /\ output[d] \in Seq(OutFrame) /\ inventory \in Nat
        /\ live \in SUBSET Clients
    BY DEF TypeInv, TypeOK, Shape
  <2>3. CASE d # joining
    <3>1. output'[d] = output[d]
      BY <1>1, <2>3 DEF SendSnapshot, Post, Queued
    <3>2. KeptUp(d)' = KeptUp(d)
      BY <1>1, <2>3, ConstantsAssumption DEF KeptUp
    <3> QED BY <1>1, <1>2, <2>1, <3>1, <3>2
  <2>4. CASE d = joining /\ d \in Subscribers /\ writer[d] = "up"
    <3>1. Post({d}, Snapshot(live)) /\ daemon' = "serving"
      BY <1>3, <2>4 DEF SendSnapshot
    <3>2. output'[d] = Append(output[d], Snapshot(live))
      BY <2>4, <3>1 DEF Post, Queued
    <3>3. Knows(view[d], Append(output[d], Snapshot(live)), TRUE, inventory, live)
      BY <2>1, <2>2, KnowsSnapshot
    <3>4. KeptUp(d)' = TRUE
      BY <1>1, <2>4, ConstantsAssumption DEF KeptUp, TypeInv, TypeOK
    <3> QED BY <1>1, <1>2, <3>2, <3>3, <3>4
  <2>5. CASE d = joining /\ ~(d \in Subscribers /\ writer[d] = "up")
    <3>1. output'[d] = output[d]
      BY <1>1, <2>5 DEF SendSnapshot, Post, Queued, TypeInv, Shape
    <3>2. KeptUp(d)' = FALSE
      BY <1>1, <2>5 DEF KeptUp
    <3>3. Knows(view[d], output[d], FALSE, inventory, live)
      BY <2>1, KnowsLess
    <3> QED BY <1>1, <1>2, <3>1, <3>2, <3>3
  <2> QED BY <2>3, <2>4, <2>5
<1> QED BY <1>1, <1>3 DEF InventoryInv, InventoryNeverMissed, Followed

LEMMA InventoryDrain ==
  ASSUME TypeInv, InventoryInv, DrainFrame
  PROVE  InventoryInv'
<1>1. /\ at = "drain" /\ daemon = "serving" /\ reading \in Clients
      /\ UNCHANGED <<inventory, live, writer, view, at, joining>>
  BY DEF DrainFrame, Step, TypeInv, TypeOK
<1>2. UNCHANGED <<output, daemon>> \/ Post({reading}, Error)
  BY DEF DrainFrame, DrainResize, DrainInput, DrainEnd, Reject
<1>3. Listed' = Listed /\ \A d \in Clients : KeptUp(d)' = KeptUp(d)
  BY <1>1 DEF Listed, KeptUp
<1>4. ASSUME NEW d \in Clients
      PROVE  Knows(view'[d], output'[d], KeptUp(d)', inventory', Listed')
  <2>1. Knows(view[d], output[d], KeptUp(d), inventory, Listed) /\ KeptUp(d) \in BOOLEAN
    BY <1>1 DEF InventoryInv, Followed, KeptUp
  <2>2. /\ view[d] \in View /\ output[d] \in Seq(OutFrame)
        /\ Error \in OutFrame /\ Error.type = "error"
    BY DEF TypeInv, TypeOK, Shape, Error, OutFrame
  <2>3. output'[d] = output[d] \/ output'[d] = Append(output[d], Error)
    BY <1>2 DEF Post, Queued
  <2>4. Knows(view[d], Append(output[d], Error), KeptUp(d), inventory, Listed)
    BY <2>1, <2>2, KnowsNews
  <2> QED BY <1>1, <1>3, <2>1, <2>3, <2>4
<1> QED BY <1>1, <1>4 DEF InventoryInv, InventoryNeverMissed, Followed

\* Those that stay are told who left; what those that leave were told does not matter.
LEMMA InventoryLeaves ==
  ASSUME TypeInv, InventoryInv, daemon = "serving", joining = NoClient,
         NEW gone \in SUBSET Clients, NEW left \in SUBSET Clients,
         \/ Ended(gone)
         \/ gone = {} /\ UNCHANGED <<live, writer, view>>,
         WithPatch(gone, left), joining' = NoClient,
         Listed \ left = live \ gone, at' # "final"
  PROVE  InventoryInv'
<1>1. /\ live' = live \ gone
      /\ \A c \in gone : view'[c] = Unseen /\ output'[c] = <<>> /\ KeptUp(c)' = FALSE
      /\ \A c \in Clients \ gone : view'[c] = view[c] /\ writer'[c] = writer[c]
  BY DEF Ended, WithPatch, KeptUp
<1>2. \A c \in Clients \ gone : KeptUp(c)' = KeptUp(c)
  BY <1>1 DEF KeptUp
<1>3. Listed' = live \ gone
  BY <1>1 DEF Listed
<1>4. ASSUME daemon' = "serving", NEW d \in Clients
      PROVE  Knows(view'[d], output'[d], KeptUp(d)', inventory', Listed')
  <2>1. CASE d \in gone
    <3>1. Unseen \in View /\ ~Unseen.missed
      BY DEF Unseen, View
    <3> QED BY <1>1, <2>1, <3>1, NothingRead DEF Knows
  <2>2. CASE d \notin gone
    <3>1. Knows(view[d], output[d], KeptUp(d), inventory, Listed) /\ KeptUp(d) \in BOOLEAN
      BY DEF InventoryInv, Followed, KeptUp
    <3>2. /\ view[d] \in View /\ output[d] \in Seq(OutFrame) /\ inventory \in Nat
          /\ Listed \in SUBSET Clients /\ {} \in SUBSET Clients
      BY DEF TypeInv, TypeOK, Shape, Listed
    <3>3. CASE left = {}
      <4>1. output'[d] = output[d] /\ inventory' = inventory /\ Listed = live \ gone
        BY <2>2, <3>3 DEF WithPatch
      <4> QED BY <1>1, <1>2, <1>3, <2>2, <3>1, <4>1
    <3>4. CASE left # {} /\ KeptUp(d)
      <4> DEFINE patch == Patch(inventory + 1, {}, left)
      <4>1. d \in (live \ gone) \cap Subscribers /\ writer[d] = "up" /\ ~Full(d)
        BY <1>4, <2>2, <3>4 DEF KeptUp, WithPatch
      <4>2. output'[d] = Append(output[d], patch) /\ inventory' = inventory + 1
        BY <2>2, <3>4, <4>1 DEF WithPatch, Queued
      <4>3. Knows(view[d], output[d], TRUE, inventory, Listed)
        BY <3>1, <3>4 DEF Knows
      <4>4. Knows(view[d], Append(output[d], patch), TRUE, inventory + 1, (Listed \ left) \cup {})
        BY <3>2, <4>3, KnowsPatch
      <4>5. KeptUp(d)' = TRUE /\ (Listed \ left) \cup {} = Listed'
        BY <1>2, <1>3, <2>2, <3>4 DEF KeptUp
      <4> HIDE DEF patch
      <4> QED BY <1>1, <2>2, <4>2, <4>4, <4>5
    <3>5. CASE ~KeptUp(d)
      <4>1. output'[d] = output[d] /\ KeptUp(d)' = FALSE
        BY <1>2, <2>2, <3>5, ConstantsAssumption DEF KeptUp, WithPatch, Queued
      <4>2. Knows(view[d], output[d], FALSE, inventory', Listed')
        BY <3>1, KnowsLess
      <4> QED BY <1>1, <2>2, <4>1, <4>2
    <3> QED BY <3>3, <3>4, <3>5
  <2> QED BY <2>1, <2>2
<1>5. InventoryNeverMissed'
  BY <1>1 DEF InventoryInv, InventoryNeverMissed, Unseen
<1> QED BY <1>4, <1>5 DEF InventoryInv, Followed

LEMMA InventoryUpdate ==
  ASSUME TypeInv, InventoryInv, UpdateInventory
  PROVE  InventoryInv'
<1>1. /\ at = "refit" /\ at' = "publish" /\ daemon = "serving" /\ joining = NoClient
      /\ UNCHANGED <<live, writer, view, joining>>
  BY DEF UpdateInventory, Step, Goto, TypeInv, Shape
<1>2. CASE updates \cap live = {}
  <2>1. UNCHANGED <<inventory, output, daemon>>
    BY <1>2 DEF UpdateInventory
  <2> QED BY <1>1, <2>1, InventoryQuiet
<1>3. CASE updates \cap live # {}
  <2> DEFINE patch == Patch(inventory + 1, updates \cap live, {})
  <2>1. Post(live \cap Subscribers, patch) /\ inventory' = inventory + 1
    BY <1>3 DEF UpdateInventory
  <2>2. Listed = live /\ Listed' = live /\ \A d \in Clients : KeptUp(d)' = KeptUp(d)
    BY <1>1 DEF Listed, KeptUp
  <2>3. ASSUME daemon' = "serving", NEW d \in Clients
        PROVE  Knows(view'[d], output'[d], KeptUp(d)', inventory', Listed')
    <3>1. Knows(view[d], output[d], KeptUp(d), inventory, live) /\ KeptUp(d) \in BOOLEAN
      BY <1>1, <2>2 DEF InventoryInv, Followed, KeptUp
    <3>2. /\ view[d] \in View /\ output[d] \in Seq(OutFrame) /\ inventory \in Nat
          /\ live \in SUBSET Clients /\ {} \in SUBSET Clients
          /\ updates \cap live \in SUBSET Clients
      BY DEF TypeInv, TypeOK, Shape
    <3>3. CASE KeptUp(d)
      <4>1. output'[d] = Append(output[d], patch)
        BY <2>1, <2>3, <3>3 DEF Post, Queued, KeptUp
      <4>2. Knows(view[d], output[d], TRUE, inventory, live)
        BY <3>1, <3>3 DEF Knows
      <4>3. Knows(view[d], Append(output[d], patch), TRUE, inventory + 1,
                  (live \ {}) \cup (updates \cap live))
        BY <3>2, <4>2, KnowsPatch
      <4>4. KeptUp(d)' = TRUE /\ (live \ {}) \cup (updates \cap live) = Listed'
        BY <2>2, <3>3 DEF KeptUp
      <4> HIDE DEF patch
      <4> QED BY <1>1, <2>1, <4>1, <4>3, <4>4
    <3>4. CASE ~KeptUp(d)
      <4>1. output'[d] = output[d] /\ KeptUp(d)' = FALSE
        BY <1>1, <2>1, <2>2, <3>4, ConstantsAssumption DEF Post, Queued, KeptUp
      <4>2. Knows(view[d], output[d], FALSE, inventory', Listed')
        BY <3>1, KnowsLess
      <4> QED BY <1>1, <4>1, <4>2
    <3> QED BY <3>3, <3>4
  <2> QED BY <1>1, <2>3 DEF InventoryInv, InventoryNeverMissed, Followed
<1> QED BY <1>2, <1>3

LEMMA InventoryPublish ==
  ASSUME TypeInv, InventoryInv, Publish
  PROVE  InventoryInv'
<1>1. /\ at = "publish" /\ at' = "final" /\ daemon = "serving" /\ joining = NoClient
      /\ UNCHANGED <<inventory, joining>>
  BY DEF Publish, Step, Goto, TypeInv, Shape
<1>2. PICK broken \in SUBSET live :
        /\ closed' = broken /\ Drop(broken)
        /\ output' = [c \in Clients |-> IF c \in broken THEN <<>>
                                        ELSE IF changed THEN Queued(live, WorkspaceFrame)[c]
                                        ELSE output[c]]
        /\ daemon' = IF changed /\ \E c \in live : Full(c) THEN "failed" ELSE daemon
  BY DEF Publish
<1>3. /\ live' = live \ broken /\ broken \in SUBSET Clients
      /\ \A c \in broken : view'[c] = Unseen /\ output'[c] = <<>> /\ KeptUp(c)' = FALSE
      /\ \A c \in Clients \ broken : view'[c] = view[c] /\ writer'[c] = writer[c]
  BY <1>2 DEF Drop, Ended, KeptUp, TypeInv, TypeOK
<1>4. \A c \in Clients \ broken : KeptUp(c)' = KeptUp(c)
  BY <1>1, <1>3 DEF KeptUp
<1>5. Listed = live /\ Listed' = live /\ closed' \cap live' = {}
  BY <1>1, <1>2, <1>3 DEF Listed
<1>6. ASSUME NEW d \in Clients
      PROVE  Knows(view'[d], output'[d], KeptUp(d)', inventory', Listed')
  <2>1. CASE d \in broken
    <3>1. Unseen \in View /\ ~Unseen.missed
      BY DEF Unseen, View
    <3> QED BY <1>3, <2>1, <3>1, NothingRead DEF Knows
  <2>2. CASE d \notin broken
    <3>1. Knows(view[d], output[d], KeptUp(d), inventory, live) /\ KeptUp(d) \in BOOLEAN
      BY <1>1, <1>5 DEF InventoryInv, Followed, KeptUp
    <3>2. /\ view[d] \in View /\ output[d] \in Seq(OutFrame)
          /\ WorkspaceFrame \in OutFrame /\ WorkspaceFrame.type = "workspace"
      BY FrameTypes DEF TypeInv, TypeOK, Shape, WorkspaceFrame
    <3>3. output'[d] = output[d] \/ output'[d] = Append(output[d], WorkspaceFrame)
      BY <1>2, <2>2 DEF Queued
    <3>4. Knows(view[d], Append(output[d], WorkspaceFrame), KeptUp(d), inventory, live)
      BY <3>1, <3>2, KnowsNews
    <3> QED BY <1>1, <1>3, <1>4, <1>5, <2>2, <3>1, <3>3, <3>4
  <2> QED BY <2>1, <2>2
<1>7. InventoryNeverMissed'
  BY <1>3 DEF InventoryInv, InventoryNeverMissed, Unseen
<1> QED BY <1>5, <1>6, <1>7 DEF InventoryInv, Followed

LEMMA InventoryNext == TypeInv /\ InventoryInv /\ [Next]_vars => InventoryInv'
<1> SUFFICES ASSUME TypeInv, InventoryInv, [Next]_vars PROVE InventoryInv'
  OBVIOUS
<1>0. RootPane \in Panes
  BY ConstantsAssumption
<1>1. CASE UNCHANGED vars
  BY <1>1, InventoryQuiet DEF vars, links, loop
<1>2. CASE \E c \in Clients : \/ Connect(c) \/ Disconnect(c) \/ WriteFrame(c)
                              \/ \E frame \in ClientFrames : SendFrame(c, frame)
  BY <1>0, <1>2, InventoryAround
<1>3. ASSUME NEW p \in Panes, ProcessExit(p) \/ CloseTab(p) \/ NewTab(p) \/ KillSession
      PROVE  InventoryInv'
  <2>1. UNCHANGED <<inventory, links, loop>>
    BY <1>3 DEF ProcessExit, CloseTab, NewTab, KillSession, CommandStep
  <2>2. daemon' = "serving" => daemon = "serving"
    BY <1>3 DEF ProcessExit, CloseTab, NewTab, KillSession
  <2> QED BY <2>1, <2>2, InventoryQuiet DEF links, loop
<1>4. CASE \/ Poll \/ AcceptDone \/ DrainDone \/ NoFrame \/ \E c \in Clients : StartDrain(c)
  <2>1. /\ at # "final" /\ at' # "final"
        /\ UNCHANGED <<daemon, view, output, inventory, live, writer, joining>>
    BY <1>4 DEF Poll, AcceptDone, DrainDone, NoFrame, StartDrain, Step, Goto, links
  <2> QED BY <2>1, InventoryQuiet
<1>5. ASSUME NEW p \in Panes, Fit(p) PROVE InventoryInv'
  <2>1. UNCHANGED <<at, closed, view, output, inventory, live, writer, joining>>
        /\ daemon = "serving"
    BY <1>5 DEF Fit, links
  <2> QED BY <2>1, InventoryQuiet
<1>6. CASE RemoveClosed
  <2>1. /\ at = "fit" /\ at' = "refit" /\ daemon = "serving" /\ joining' = joining
        /\ Ended(closed) /\ WithPatch(closed, closed)
    BY <1>6 DEF RemoveClosed, Step, Goto, Drop
  <2>2. joining = NoClient /\ closed \in SUBSET Clients /\ Listed = live
    BY <2>1 DEF TypeInv, TypeOK, Shape, Listed
  <2> QED BY <2>1, <2>2, InventoryLeaves
<1>7. CASE EndIteration
  <2>1. /\ at = "final" /\ at' = "poll" /\ daemon = "serving" /\ joining' = joining
        /\ WithPatch({}, closed) /\ UNCHANGED <<live, writer, view>>
    BY <1>7 DEF EndIteration, Step, Goto
  <2>2. /\ joining = NoClient /\ closed \in SUBSET Clients /\ {} \in SUBSET Clients
        /\ Listed \ closed = live \ {}
    BY <2>1 DEF TypeInv, TypeOK, Shape, Listed, InventoryInv
  <2> QED BY <2>1, <2>2, InventoryLeaves
<1>8. CASE (\E c \in Clients : Accept(c)) \/ SendSnapshot \/ DrainFrame \/ UpdateInventory \/ Publish
  BY <1>8, InventoryAccept, InventorySnapshot, InventoryDrain, InventoryUpdate, InventoryPublish
<1> QED BY <1>0, <1>1, <1>2, <1>3, <1>4, <1>5, <1>6, <1>7, <1>8 DEF Next, LoopStep

LEMMA InventoryInvariant == Spec => [](TypeInv /\ InventoryInv)
<1>1. Init => TypeInv /\ InventoryInv
  BY TypeInit, InventoryInit
<1>2. TypeInv /\ InventoryInv /\ [Next]_vars => (TypeInv /\ InventoryInv)'
  BY TypeNext, InventoryNext
<1> QED BY <1>1, <1>2, PTL DEF Spec

\* No subscriber is ever sent an inventory patch it must refuse: for any number of
\* clients, any queue size and whatever happens around the loop.
THEOREM PatchesAlwaysFit == Spec => []InventoryNeverMissed
<1>1. InventoryInv => InventoryNeverMissed
  BY DEF InventoryInv
<1> QED BY <1>1, InventoryInvariant, PTL

\* A subscriber that has read all its frames between two iterations lists exactly the
\* loop's connections.
THEOREM SubscribersAgree == Spec => []InventoryAgrees
<1>1. TypeInv /\ InventoryInv => InventoryAgrees
  <2> SUFFICES ASSUME TypeInv, InventoryInv, NEW c \in Subscribers, Settled(c)
               PROVE  view[c].inventory = inventory /\ view[c].members = live
    BY DEF InventoryAgrees
  <2>1. /\ c \in Clients /\ KeptUp(c) /\ Listed = live /\ output[c] = <<>>
        /\ daemon = "serving"
    BY ConstantsAssumption DEF Settled, KeptUp, Listed, TypeInv, Shape
  <2>2. PICK u \in View : /\ Reads(view[c], <<>>, u)
                          /\ u.inventory = inventory /\ u.members = live
    BY <2>1 DEF InventoryInv, Followed, Knows
  <2>3. Len(<<>>) = 0
    OBVIOUS
  <2>4. u = view[c]
    BY <2>2, <2>3 DEF Reads
  <2> QED BY <2>2, <2>4
<1> QED BY <1>1, InventoryInvariant, PTL
-----------------------------------------------------------------------------
(* Panes fit their smallest client *)

\* Nothing but the clients' viewports changes the size of a pane.
OnlyViewports == Environment \cap {"close_tab", "new_tab", "user_resize"} = {}
ViewportFrame == {frame \in InFrame : frame.type # "command"}

Fits(p) == Wanted(p) # {} => workspace.size[p] = Smallest(p)

\* A pane that does not fit is still to be looked at: it is in the list of this iteration,
\* or what is being drained has asked for it.
FitInv ==
  /\ input \in [Clients -> Seq(ViewportFrame)]
  /\ pty = workspace.size
  /\ \A c \in Clients \ live : constraint[c] = NoConstraint
  /\ reading # NoClient => /\ at = "drain" /\ reading \in live
                           /\ drained.resizes \subseteq Constrained(reading)
  /\ reading = NoClient => drained.resizes = {}
  /\ at \in {"poll", "accept", "publish"} => resizes = {}
  /\ daemon = "serving" => \A p \in Panes : p \notin resizes \cup drained.resizes => Fits(p)

LEMMA FitInit == Init => FitInv
<1> SUFFICES ASSUME Init PROVE FitInv
  OBVIOUS
<1>1. \A p \in Panes : Wanted(p) = {}
  BY DEF Init, Wanted
<1>2. input \in [Clients -> Seq(ViewportFrame)]
  BY DEF Init
<1> QED BY <1>1, <1>2 DEF Init, FitInv, Fits, Nothing

LEMMA FitsSame ==
  ASSUME UNCHANGED workspace, NEW p \in Panes, Wanted(p)' = Wanted(p), Fits(p)
  PROVE  Fits(p)'
BY DEF Fits, Smallest

\* A step that leaves sizes, viewports and the loop's notes alone.
LEMMA FitQuiet ==
  ASSUME TypeInv, FitInv, input' \in [Clients -> Seq(ViewportFrame)],
         UNCHANGED <<workspace, pty, constraint, live, reading, drained, resizes>>,
         daemon' = "serving" => daemon = "serving",
         reading = NoClient \/ at' = at,
         at' \in {"poll", "accept", "publish"} => resizes = {}
  PROVE  FitInv'
<1>1. \A p \in Panes : Wanted(p)' = Wanted(p)
  BY DEF Wanted
<1>2. \A c \in Clients : Constrained(c)' = Constrained(c)
  BY DEF Constrained
<1>3. daemon' = "serving" => \A p \in Panes : p \notin resizes' \cup drained'.resizes => Fits(p)'
  BY <1>1, FitsSame DEF FitInv
<1> QED BY <1>2, <1>3 DEF FitInv, TypeInv, TypeOK

LEMMA FitAround ==
  ASSUME OnlyViewports, TypeInv, FitInv, NEW c \in Clients, NEW p \in Panes,
         \/ Connect(c) \/ Disconnect(c) \/ WriteFrame(c) \/ ProcessExit(p)
         \/ \E frame \in ClientFrames : SendFrame(c, frame)
         \/ CloseTab(p) \/ NewTab(p) \/ KillSession
  PROVE  FitInv'
<1>1. /\ UNCHANGED <<workspace, pty, constraint, live, reading, drained, resizes, at>>
      /\ daemon' = "serving" => daemon = "serving"
  BY DEF OnlyViewports, Connect, Disconnect, WriteFrame, ProcessExit, SendFrame, CloseTab, NewTab,
         KillSession, CommandStep, session, links, loop
<1>2. input' \in [Clients -> Seq(ViewportFrame)]
  <2>1. CASE Disconnect(c)
    <3>1. [type |-> "eof"] \in ViewportFrame
      BY DEF InFrame, ViewportFrame
    <3> QED BY <2>1, <3>1, AppendTo DEF Disconnect, FitInv
  <2>2. CASE \E frame \in ClientFrames : SendFrame(c, frame)
    <3>1. ClientFrames \subseteq ViewportFrame
      BY DEF ClientFrames, InFrame, ViewportFrame, OnlyViewports
    <3> QED BY <2>2, <3>1, AppendTo DEF SendFrame, FitInv
  <2>3. CASE UNCHANGED input
    BY <2>3 DEF FitInv
  <2> QED BY <2>1, <2>2, <2>3
          DEF Connect, WriteFrame, ProcessExit, CloseTab, NewTab, KillSession, CommandStep, links
<1>3. at' \in {"poll", "accept", "publish"} => resizes = {}
  BY <1>1 DEF FitInv
<1> QED BY <1>1, <1>2, <1>3, FitQuiet

LEMMA FitMoves ==
  ASSUME TypeInv, FitInv,
         Poll \/ SendSnapshot \/ AcceptDone \/ DrainDone \/ UpdateInventory \/ EndIteration
  PROVE  FitInv'
<1>1. /\ UNCHANGED <<workspace, pty, constraint, live, input, reading, drained, resizes>>
      /\ daemon = "serving"
      /\ reading = NoClient
      /\ at' \in {"poll", "accept", "publish"} => resizes = {}
  BY DEF Poll, SendSnapshot, AcceptDone, DrainDone, UpdateInventory, EndIteration, Step, Goto,
         session, links, FitInv
<1> QED BY <1>1, FitQuiet DEF FitInv

LEMMA FitAccept ==
  ASSUME TypeInv, FitInv, NEW c \in Clients, Accept(c)
  PROVE  FitInv'
<1>1. /\ UNCHANGED <<workspace, pty, constraint, input, reading, drained, resizes, at>>
      /\ daemon = "serving"
      /\ live' = live \/ live' = live \cup {c}
  BY DEF Accept, Step, session
<1>2. \A p \in Panes : Wanted(p)' = Wanted(p)
  <2>1. \A p \in Panes : c \notin live => constraint[c][p] = 0
    BY DEF FitInv, NoConstraint
  <2> QED BY <1>1, <2>1 DEF Wanted
<1>3. \A d \in Clients : Constrained(d)' = Constrained(d)
  BY <1>1 DEF Constrained
<1>4. \A p \in Panes : p \notin resizes' \cup drained'.resizes => Fits(p)'
  BY <1>1, <1>2, FitsSame DEF FitInv
<1> QED BY <1>1, <1>3, <1>4 DEF FitInv, TypeInv, TypeOK

LEMMA FitOne ==
  ASSUME TypeInv, FitInv, NEW p \in Panes, Fit(p)
  PROVE  FitInv'
<1>1. /\ daemon = "serving" /\ at \in {"fit", "refit", "final"} /\ p \in resizes
      /\ resizes' = resizes \ {p}
      /\ UNCHANGED <<constraint, live, input, reading, drained, at>>
  BY DEF Fit, links
<1>2. /\ \A q \in Panes : Wanted(q)' = Wanted(q) /\ Smallest(q)' = Smallest(q)
      /\ \A d \in Clients : Constrained(d)' = Constrained(d)
  BY <1>1 DEF Wanted, Smallest, Constrained
<1>3. \/ UNCHANGED <<workspace, pty, daemon>> /\ (Wanted(p) = {} \/ Smallest(p) = workspace.size[p])
      \/ UNCHANGED <<workspace, pty>> /\ daemon' = "failed"
      \/ /\ pty' = [pty EXCEPT ![p] = Smallest(p)]
         /\ workspace' = Resized(p, Smallest(p))
  BY DEF Fit, session
<1>4. /\ pty' = workspace'.size
      /\ daemon' = "serving" => Fits(p)' /\ \A q \in Panes \ {p} : workspace'.size[q] = workspace.size[q]
  <2>1. workspace' = Resized(p, Smallest(p)) =>
          workspace'.size = [workspace.size EXCEPT ![p] = Smallest(p)]
    BY DEF Resized, TypeInv, TypeOK
  <2>2. pty = workspace.size /\ workspace.size \in [Panes -> 0..MaxSize]
    BY DEF FitInv, TypeInv, TypeOK
  <2> QED BY <1>2, <1>3, <2>1, <2>2 DEF Fits
<1>5. ASSUME daemon' = "serving", NEW q \in Panes, q \notin resizes' \cup drained'.resizes
      PROVE  Fits(q)'
  <2>1. CASE q = p
    BY <1>4, <1>5, <2>1
  <2>2. CASE q # p
    <3>1. Fits(q)
      BY <1>1, <1>5, <2>2 DEF FitInv
    <3> QED BY <1>2, <1>4, <1>5, <2>2, <3>1 DEF Fits
  <2> QED BY <2>1, <2>2
<1> QED BY <1>1, <1>2, <1>4, <1>5 DEF FitInv, TypeInv, TypeOK

\* Whoever leaves has its panes looked at again.
LEMMA FitDrop ==
  ASSUME TypeInv, FitInv, daemon = "serving", at \in {"fit", "publish"}, resizes = {},
         NEW gone, Drop(gone), UNCHANGED <<workspace, pty, reading, drained>>,
         at' \in {"refit", "final"}
  PROVE  FitInv'
<1>1. reading = NoClient /\ drained.resizes = {}
  BY DEF FitInv
<1>2. ASSUME NEW p \in Panes, p \notin resizes'
      PROVE  Wanted(p)' = Wanted(p)
  <2>1. \A c \in gone \cap Clients : constraint[c][p] = 0
    BY <1>2 DEF Drop, Constrained
  <2>2. /\ live' = live \ gone /\ live \subseteq Clients
        /\ \A c \in Clients \ gone : constraint'[c] = constraint[c]
    BY DEF Drop, Ended, TypeInv, TypeOK
  <2> QED BY <2>1, <2>2 DEF Wanted
<1>3. \A p \in Panes : p \notin resizes' => Fits(p)'
  BY <1>1, <1>2, FitsSame DEF FitInv
<1>4. \A c \in Clients \ live' : constraint'[c] = NoConstraint
  BY DEF Drop, Ended, FitInv
<1>5. input' \in [Clients -> Seq(ViewportFrame)]
  <2>1. <<>> \in Seq(ViewportFrame)
    OBVIOUS
  <2> QED BY <2>1 DEF Drop, Ended, FitInv
<1> QED BY <1>1, <1>3, <1>4, <1>5 DEF FitInv

LEMMA FitDrain ==
  ASSUME TypeInv, FitInv, DrainFrame \/ NoFrame \/ \E c \in Clients : StartDrain(c)
  PROVE  FitInv'
<1>0. at = "drain" /\ at' = at /\ daemon = "serving" /\ live' = live
  BY DEF DrainFrame, NoFrame, StartDrain, Step, links
<1>1. CASE \E c \in Clients : StartDrain(c)
  <2>1. /\ reading = NoClient /\ drained' = Nothing /\ Nothing.resizes = {}
        /\ UNCHANGED <<workspace, pty, daemon, constraint, input, resizes>>
    BY <1>1 DEF StartDrain, session, links, Nothing
  <2>2. \A p \in Panes : Wanted(p)' = Wanted(p)
    BY <1>0, <2>1 DEF Wanted
  <2>3. \A p \in Panes : p \notin resizes' => Fits(p)'
    BY <1>0, <2>1, <2>2, FitsSame DEF FitInv
  <2>4. reading' \in live
    BY <1>1 DEF StartDrain, TypeInv, TypeOK
  <2> QED BY <1>0, <2>1, <2>3, <2>4 DEF FitInv
<1>2. ASSUME UNCHANGED <<workspace, pty, constraint>>, reading' = NoClient, drained' = Nothing,
             resizes \cup drained.resizes \subseteq resizes',
             input' \in [Clients -> Seq(ViewportFrame)]
      PROVE  FitInv'
  <2>1. \A p \in Panes : Wanted(p)' = Wanted(p)
    BY <1>0, <1>2 DEF Wanted
  <2>2. \A p \in Panes : p \notin resizes' => Fits(p)'
    BY <1>0, <1>2, <2>1, FitsSame DEF FitInv
  <2> QED BY <1>0, <1>2, <2>2 DEF FitInv, Nothing
<1>3. CASE NoFrame
  <2>1. UNCHANGED <<workspace, pty, constraint, input>> /\ FinishDrain(reading, {})
    BY <1>3 DEF NoFrame, session, links
  <2> QED BY <1>2, <2>1 DEF FinishDrain, FitInv
<1>4. CASE DrainFrame
  <2> DEFINE frame == Head(input[reading])
  <2>1. /\ reading \in Clients /\ input[reading] \in Seq(ViewportFrame) /\ input[reading] # <<>>
    BY <1>4 DEF DrainFrame, FitInv, TypeInv, TypeOK
  <2>2. frame \in ViewportFrame /\ input' \in [Clients -> Seq(ViewportFrame)]
    <3>1. Head(input[reading]) \in ViewportFrame /\ Tail(input[reading]) \in Seq(ViewportFrame)
      BY <2>1, HeadTailProperties
    <3> QED BY <1>4, <3>1 DEF DrainFrame, FitInv
  <2>3. drained.resizes \subseteq Constrained(reading)
    BY <2>1, ConstantsAssumption DEF FitInv
  <2>4. Reject(reading) => FitInv'
    BY <1>2, <2>2, <2>3 DEF Reject, Hangup, session
  <2>5. CASE DrainEnd(reading, frame)
    BY <1>2, <2>2, <2>5 DEF DrainEnd, FinishDrain, session
  <2>6. ASSUME Collect(drained) \/ Collect([drained EXCEPT !.input = TRUE]),
               UNCHANGED <<session, constraint>>
        PROVE  FitInv'
    <3>1. /\ drained'.resizes = drained.resizes
          /\ UNCHANGED <<workspace, pty, constraint, reading, resizes>>
      BY <2>6 DEF Collect, session, TypeInv, Shape
    <3>2. \A p \in Panes : Wanted(p)' = Wanted(p)
      BY <1>0, <3>1 DEF Wanted
    <3>3. \A p \in Panes : p \notin resizes' \cup drained'.resizes => Fits(p)'
      BY <1>0, <3>1, <3>2, FitsSame DEF FitInv
    <3>4. Constrained(reading)' = Constrained(reading)
      BY <3>1 DEF Constrained
    <3> QED BY <1>0, <2>2, <3>1, <3>3, <3>4 DEF FitInv
  <2>7. CASE DrainInput(reading, frame)
    BY <2>4, <2>6, <2>7 DEF DrainInput
  <2>8. CASE DrainResize(reading, frame)
    <3>1. frame.type = "viewport" /\ frame.pane \in Panes /\ frame.size \in Sizes
      BY <2>2, <2>8 DEF DrainResize, ViewportFrame, InFrame
    <3>2. CASE /\ constraint' = [constraint EXCEPT ![reading][frame.pane] = frame.size]
               /\ Collect([drained EXCEPT !.resizes = @ \cup {frame.pane}])
               /\ UNCHANGED <<session, output, daemon>>
      <4>1. /\ drained'.resizes = drained.resizes \cup {frame.pane}
            /\ UNCHANGED <<workspace, pty, reading, resizes>>
        BY <3>2 DEF Collect, session, TypeInv, Shape
      <4>2. /\ constraint'[reading][frame.pane] = frame.size /\ frame.size # 0
            /\ \A q \in Panes \ {frame.pane} : constraint'[reading][q] = constraint[reading][q]
            /\ \A d \in Clients \ {reading} : constraint'[d] = constraint[d]
        BY <2>1, <3>1, <3>2 DEF Sizes, TypeInv, TypeOK
      <4>3. \A q \in Panes \ {frame.pane} : Wanted(q)' = Wanted(q)
        <5>1. \A q \in Panes \ {frame.pane}, d \in live : constraint'[d][q] = constraint[d][q]
          BY <4>2 DEF TypeInv, TypeOK
        <5> QED BY <1>0, <5>1 DEF Wanted
      <4>4. \A q \in Panes : q \notin resizes' \cup drained'.resizes => Fits(q)'
        BY <1>0, <4>1, <4>3, FitsSame DEF FitInv
      <4>5. drained'.resizes \subseteq Constrained(reading)'
        BY <2>3, <3>1, <4>1, <4>2 DEF Constrained
      <4>6. \A c \in Clients \ live' : constraint'[c] = NoConstraint
        <5>1. reading \in live
          BY <2>1, ConstantsAssumption DEF FitInv
        <5> QED BY <1>0, <4>2, <5>1 DEF FitInv
      <4> QED BY <1>0, <2>1, <2>2, <4>1, <4>4, <4>5, <4>6, ConstantsAssumption DEF FitInv
    <3> QED BY <2>4, <2>6, <2>8, <3>1, <3>2 DEF DrainResize
  <2> QED BY <1>4, <2>5, <2>7, <2>8 DEF DrainFrame
<1> QED BY <1>1, <1>3, <1>4

LEMMA FitNext == OnlyViewports /\ TypeInv /\ FitInv /\ [Next]_vars => FitInv'
<1> SUFFICES ASSUME OnlyViewports, TypeInv, FitInv, [Next]_vars PROVE FitInv'
  OBVIOUS
<1>0. RootPane \in Panes
  BY ConstantsAssumption
<1>1. CASE UNCHANGED vars
  <2>1. /\ UNCHANGED <<workspace, pty, constraint, live, reading, drained, resizes, at, input, daemon>>
        /\ input \in [Clients -> Seq(ViewportFrame)]
        /\ at \in {"poll", "accept", "publish"} => resizes = {}
    BY <1>1 DEF vars, session, links, loop, FitInv
  <2> QED BY <2>1, FitQuiet
<1>2. CASE \E c \in Clients : \/ Connect(c) \/ Disconnect(c) \/ WriteFrame(c)
                              \/ \E frame \in ClientFrames : SendFrame(c, frame)
  BY <1>0, <1>2, FitAround
<1>3. CASE \E p \in Panes : ProcessExit(p) \/ CloseTab(p) \/ NewTab(p)
  <2>1. CASE Clients = {}
    <3>1. PICK p \in Panes : ProcessExit(p) \/ CloseTab(p) \/ NewTab(p)
      BY <1>3
    <3>2. /\ UNCHANGED <<workspace, pty, constraint, live, reading, drained, resizes, at, input>>
          /\ daemon' = "serving" => daemon = "serving"
      BY <3>1 DEF OnlyViewports, ProcessExit, CloseTab, NewTab, CommandStep, links, loop
    <3> QED BY <3>2, FitQuiet DEF FitInv
  <2>2. CASE Clients # {}
    BY <1>3, <2>2, FitAround
  <2> QED BY <2>1, <2>2
<1>4. CASE KillSession
  <2>1. /\ UNCHANGED <<workspace, pty, constraint, live, reading, drained, resizes, at, input>>
        /\ daemon' # "serving"
    BY <1>4 DEF KillSession, CommandStep, session, links, loop
  <2> QED BY <2>1, FitQuiet DEF FitInv
<1>5. CASE RemoveClosed
  <2>1. /\ daemon = "serving" /\ at = "fit" /\ resizes = {} /\ Drop(closed) /\ at' = "refit"
        /\ UNCHANGED <<workspace, pty, reading, drained>>
    BY <1>5 DEF RemoveClosed, Step, Goto, session
  <2> QED BY <2>1, FitDrop
<1>6. CASE Publish
  <2>1. PICK gone : Drop(gone)
    BY <1>6 DEF Publish
  <2>2. /\ daemon = "serving" /\ at = "publish" /\ resizes = {} /\ at' = "final"
        /\ UNCHANGED <<workspace, pty, reading, drained>>
    BY <1>6 DEF Publish, Step, Goto, session, FitInv
  <2> QED BY <2>1, <2>2, FitDrop
<1>7. CASE \/ Poll \/ SendSnapshot \/ AcceptDone \/ DrainDone \/ UpdateInventory \/ EndIteration
  BY <1>7, FitMoves
<1>8. CASE \/ \E c \in Clients : Accept(c) \/ StartDrain(c)
           \/ DrainFrame \/ NoFrame \/ \E p \in Panes : Fit(p)
  BY <1>8, FitAccept, FitDrain, FitOne
<1> QED BY <1>1, <1>2, <1>3, <1>4, <1>5, <1>6, <1>7, <1>8 DEF Next, LoopStep

\* While only viewports change sizes, a pane that clients constrain has between two
\* iterations the size of the smallest of them, and its PTY too: for any number of
\* clients and panes, whoever joins, leaves, is refused or loses its connection.
THEOREM SmallestAlwaysWins == OnlyViewports => (Spec => []SmallestWins)
<1> SUFFICES ASSUME OnlyViewports PROVE Spec => []SmallestWins
  OBVIOUS
<1>1. Init => TypeInv /\ FitInv
  BY TypeInit, FitInit
<1>2. TypeInv /\ FitInv /\ [Next]_vars => (TypeInv /\ FitInv)'
  BY TypeNext, FitNext
<1>3. TypeInv /\ FitInv => SmallestWins
  <2> SUFFICES ASSUME FitInv, daemon = "serving", at = "poll", NEW p \in Panes, Wanted(p) # {}
               PROVE  workspace.size[p] = Smallest(p) /\ pty[p] = Smallest(p)
    BY DEF SmallestWins
  <2>1. resizes = {} /\ reading = NoClient /\ drained.resizes = {}
    BY DEF FitInv
  <2> QED BY <2>1 DEF FitInv, Fits
<1> QED BY <1>1, <1>2, <1>3, PTL DEF Spec
-----------------------------------------------------------------------------
(* What can end the loop *)

\* Connections end only once they are accepted, processes do not exit, and tabs
\* are not closed.
NothingBreaks == Environment \cap {"early_close", "exit", "close_tab"} = {}

\* Every queue has room for two frames, the most that one step queues for a client
\* which is in the list already.
Room == \A c \in Clients : writer[c] = "up" => Len(output[c]) + 1 < ReliableCap

\* No read or write the loop must do fails: a client is gone only once it is in the
\* list, and not while it is being accepted.
PeersInv ==
  /\ \A c \in Clients : peer[c] \in {"attached", "gone"} => c \in live
  /\ joining # NoClient => peer[joining] = "attached" /\ writer[joining] # "down"

\* A pane that is there, or that a client constrains, has a running process.
ProcessesInv ==
  \A p \in Panes :
    (workspace.size[p] # 0 \/ \E c \in Clients : constraint[c][p] # 0) => process[p] = "running"

ServeInv == PeersInv /\ ProcessesInv /\ daemon # "failed"

LEMMA ServeInit == Init => ServeInv
BY DEF Init, ServeInv, PeersInv, ProcessesInv, NoConstraint

LEMMA NoneFull ==
  ASSUME TypeInv, Room, NEW c \in Clients
  PROVE  ~Full(c)
<1>1. Len(output[c]) \in Nat
  BY LenProperties DEF TypeInv, Shape
<1> QED BY <1>1, ConstantsAssumption DEF Room, Full

LEMMA PostServes ==
  ASSUME TypeInv, Room, NEW cs \in SUBSET Clients, NEW frame, Post(cs, frame)
  PROVE  daemon' = daemon
BY NoneFull DEF Post

LEMMA PatchServes ==
  ASSUME TypeInv, Room, NEW gone, NEW left, WithPatch(gone, left)
  PROVE  daemon' = daemon
<1>1. live \subseteq Clients
  BY DEF TypeInv, TypeOK
<1> QED BY <1>1, NoneFull DEF WithPatch

\* A step that leaves peers, writers and the new client alone.
LEMMA PeersQuiet ==
  ASSUME PeersInv, UNCHANGED <<peer, live, writer>>, joining' \in {joining, NoClient}
  PROVE  PeersInv'
BY DEF PeersInv

LEMMA ProcessesQuiet ==
  ASSUME ProcessesInv, UNCHANGED <<workspace, process, constraint>>
  PROVE  ProcessesInv'
BY DEF ProcessesInv

LEMMA ServeQuiet ==
  ASSUME ServeInv, UNCHANGED <<peer, live, writer, workspace, process, constraint, daemon>>,
         joining' \in {joining, NoClient}
  PROVE  ServeInv'
BY PeersQuiet, ProcessesQuiet DEF ServeInv

LEMMA ServeAround ==
  ASSUME NothingBreaks, TypeInv, ServeInv, NEW c \in Clients, NEW p \in Panes,
         \/ Connect(c) \/ Disconnect(c) \/ WriteFrame(c) \/ ProcessExit(p)
         \/ \E frame \in ClientFrames : SendFrame(c, frame)
  PROVE  ServeInv'
<1>1. joining \in Clients \cup {NoClient}
  BY DEF TypeInv, TypeOK
<1>2. peer \in [Clients -> {"away", "connecting", "attached", "gone"}]
      /\ writer \in [Clients -> {"off", "up", "down", "legacy"}]
  BY DEF TypeInv, TypeOK
<1>3. CASE Connect(c)
  <2>1. /\ peer' = [peer EXCEPT ![c] = "connecting"] /\ peer[c] = "away"
        /\ UNCHANGED <<live, writer, joining, workspace, process, constraint, daemon>>
    BY <1>3 DEF Connect, session, loop
  <2>2. PeersInv'
    BY <1>1, <1>2, <2>1 DEF PeersInv, ServeInv
  <2> QED BY <2>1, <2>2, ProcessesQuiet DEF ServeInv
<1>4. CASE Disconnect(c)
  <2>1. /\ peer' = [peer EXCEPT ![c] = "gone"] /\ peer[c] = "attached" /\ c # joining
        /\ UNCHANGED <<live, writer, joining, workspace, process, constraint, daemon>>
    BY <1>4 DEF Disconnect, session, loop, NothingBreaks
  <2>2. PeersInv'
    BY <1>1, <1>2, <2>1 DEF PeersInv, ServeInv
  <2> QED BY <2>1, <2>2, ProcessesQuiet DEF ServeInv
<1>5. CASE WriteFrame(c)
  <2>1. /\ writer' = writer \/ (writer' = [writer EXCEPT ![c] = "down"] /\ peer[c] # "attached")
        /\ UNCHANGED <<live, peer, joining, workspace, process, constraint, daemon>>
    BY <1>5 DEF WriteFrame, session, loop
  <2>2. PeersInv'
    BY <1>1, <1>2, <2>1 DEF PeersInv, ServeInv
  <2> QED BY <2>1, <2>2, ProcessesQuiet DEF ServeInv
<1>6. ASSUME NEW frame \in ClientFrames, SendFrame(c, frame) PROVE ServeInv'
  BY <1>6, ServeQuiet DEF SendFrame, session, loop
<1>7. ~ProcessExit(p)
  BY DEF ProcessExit, NothingBreaks
<1> QED BY <1>3, <1>4, <1>5, <1>6, <1>7

LEMMA ServeAccept ==
  ASSUME NothingBreaks, TypeInv, Room, ServeInv, NEW c \in Clients, Accept(c)
  PROVE  ServeInv'
<1>1. peer[c] = "connecting"
  BY DEF Accept, ServeInv, PeersInv
<1>2. /\ peer' = [peer EXCEPT ![c] = "attached"]
      /\ \E w \in {"up", "legacy"} : writer' = [writer EXCEPT ![c] = w]
      /\ live' = live \cup {c} /\ joining' = c
      /\ UNCHANGED <<workspace, process, constraint>>
  BY <1>1 DEF Accept, session
<1>3. daemon' = daemon
  <2> DEFINE greeted == [d \in Clients |-> IF d \in live /\ writer[d] = "up" /\ ~Full(d)
                                           THEN Append(output[d], Presence) ELSE output[d]]
             crowded == {d \in live \cap Subscribers :
                           writer[d] = "up" /\ Len(greeted[d]) >= ReliableCap}
  <2>1. daemon' = IF crowded # {} THEN "failed" ELSE daemon
    BY <1>1, Zenon DEF Accept
  <2>2. ASSUME NEW d \in crowded PROVE FALSE
    <3>1. d \in Clients /\ writer[d] = "up" /\ Len(greeted[d]) >= ReliableCap
      BY DEF TypeInv, TypeOK
    <3>2. output[d] \in Seq(OutFrame) /\ Presence \in OutFrame
      BY <3>1, FrameTypes DEF TypeInv, TypeOK, Shape, OutFrame, Presence
    <3>3. /\ Len(output[d]) \in Nat
          /\ greeted[d] = output[d] \/ Len(greeted[d]) = Len(output[d]) + 1
      BY <3>1, <3>2, AppendTo
    <3> HIDE DEF greeted, crowded
    <3> QED BY <3>1, <3>3, ConstantsAssumption DEF Room
  <2> HIDE DEF crowded
  <2> QED BY <2>1, <2>2
<1>4. PeersInv'
  <2>1. peer \in [Clients -> {"away", "connecting", "attached", "gone"}]
        /\ writer \in [Clients -> {"off", "up", "down", "legacy"}]
    BY DEF TypeInv, TypeOK
  <2> QED BY <1>2, <2>1 DEF PeersInv, ServeInv
<1> QED BY <1>2, <1>3, <1>4, ProcessesQuiet DEF ServeInv

LEMMA ServeJoin ==
  ASSUME TypeInv, Room, ServeInv, SendSnapshot
  PROVE  ServeInv'
<1>1. joining \in Clients
  BY DEF SendSnapshot, TypeInv, TypeOK
<1>2. /\ UNCHANGED <<peer, live, writer, workspace, process, constraint>>
      /\ joining' = NoClient
  BY DEF SendSnapshot, session
<1>3. daemon' = daemon
  <2>1. peer[joining] = "attached" /\ writer[joining] # "down"
    BY DEF SendSnapshot, ServeInv, PeersInv
  <2>2. UNCHANGED daemon \/ Post({joining}, Snapshot(live))
    BY <2>1 DEF SendSnapshot
  <2> QED BY <1>1, <2>2, PostServes
<1> QED BY <1>2, <1>3, ServeQuiet

LEMMA ServeCommand ==
  ASSUME NothingBreaks, TypeInv, ServeInv, NEW p \in Panes,
         CloseTab(p) \/ NewTab(p) \/ KillSession
  PROVE  ServeInv'
<1>1. ~CloseTab(p)
  BY DEF CloseTab, NothingBreaks
<1>2. CASE NewTab(p)
  <2>1. /\ process' = [process EXCEPT ![p] = "running"]
        /\ UNCHANGED <<peer, live, writer, joining, constraint, daemon>>
    BY <1>2 DEF NewTab, CommandStep, links, loop
  <2>2. PICK size, initial :
          workspace' = [workspace EXCEPT !.version = @ + 2, !.size[p] = size,
                                         !.initial[p] = initial]
    BY <1>2, Zenon DEF NewTab
  <2>3. \A q \in Panes : q # p => workspace'.size[q] = workspace.size[q]
    BY <2>2 DEF TypeInv, TypeOK
  <2>4. ProcessesInv'
    BY <2>1, <2>3 DEF ProcessesInv, ServeInv, TypeInv, TypeOK
  <2> QED BY <2>1, <2>4, PeersQuiet DEF ServeInv
<1>3. CASE KillSession
  <2>1. /\ UNCHANGED <<peer, live, writer, joining, workspace, process, constraint>>
        /\ daemon' = "stopped"
    BY <1>3 DEF KillSession, CommandStep, links, loop, session
  <2> QED BY <2>1, PeersQuiet, ProcessesQuiet DEF ServeInv
<1> QED BY <1>1, <1>2, <1>3

LEMMA ServeDrain ==
  ASSUME TypeInv, Room, ServeInv, DrainFrame
  PROVE  ServeInv'
<1>1. reading \in Clients /\ input[reading] \in Seq(InFrame) /\ input[reading] # <<>>
  BY DEF DrainFrame, TypeInv, TypeOK, Shape
<1>2. UNCHANGED <<peer, live, writer, joining>>
  BY DEF DrainFrame
<1> DEFINE frame == Head(input[reading])
<1>3. frame \in InFrame
  BY <1>1, HeadTailProperties
<1>4. DrainResize(reading, frame) \/ DrainInput(reading, frame) \/ DrainEnd(reading, frame)
  BY DEF DrainFrame
<1> HIDE DEF frame
<1>5. CASE Reject(reading)
  BY <1>1, <1>2, <1>5, PostServes, ServeQuiet DEF Reject, session
<1>6. CASE DrainInput(reading, frame) /\ ~Reject(reading)
  <2>1. /\ UNCHANGED <<workspace, process, constraint>>
        /\ UNCHANGED daemon \/ Post({reading}, Error)
    BY <1>6 DEF DrainInput, session
  <2> QED BY <1>1, <1>2, <2>1, PostServes, ServeQuiet
<1>7. CASE DrainEnd(reading, frame)
  BY <1>2, <1>7, ServeQuiet DEF DrainEnd, session
<1>8. CASE DrainResize(reading, frame) /\ ~Reject(reading)
  <2>1. frame.pane \in Here /\ UNCHANGED daemon /\ UNCHANGED process
    BY <1>8 DEF DrainResize, session
  <2>2. frame.pane \in Panes /\ process[frame.pane] = "running"
    BY <2>1 DEF Here, ServeInv, ProcessesInv
  <2>3. /\ \A q \in Panes : q # frame.pane => workspace'.size[q] = workspace.size[q]
        /\ \A c \in Clients, q \in Panes :
             q # frame.pane => constraint'[c][q] = constraint[c][q]
    <3>1. constraint \in [Clients -> [Panes -> 0..MaxSize]]
          /\ workspace.size \in [Panes -> 0..MaxSize]
      BY DEF TypeInv, TypeOK
    <3>2. \/ UNCHANGED workspace
          \/ workspace' = Resized(frame.pane, frame.size)
      BY <1>8 DEF DrainResize, session
    <3>3. \/ UNCHANGED constraint
          \/ constraint' = [constraint EXCEPT ![reading][frame.pane] = frame.size]
      BY <1>8, Zenon DEF DrainResize
    <3>4. \A q \in Panes : q # frame.pane => workspace'.size[q] = workspace.size[q]
      <4>1. workspace \in Workspace
        BY DEF Workspace, TypeInv, TypeOK
      <4>2. CASE workspace' = Resized(frame.pane, frame.size)
        BY <4>1, <4>2 DEF Resized, Workspace
      <4> QED BY <3>2, <4>2
    <3>5. \A c \in Clients, q \in Panes :
            q # frame.pane => constraint'[c][q] = constraint[c][q]
      BY <1>1, <3>1, <3>3
    <3> QED BY <3>4, <3>5
  <2>4. ProcessesInv'
    BY <2>1, <2>2, <2>3 DEF ProcessesInv, ServeInv
  <2> QED BY <1>2, <2>1, <2>4, PeersQuiet DEF ServeInv
<1> QED BY <1>4, <1>5, <1>6, <1>7, <1>8

LEMMA ServeFit ==
  ASSUME TypeInv, ServeInv, NEW p \in Panes, Fit(p)
  PROVE  ServeInv'
<1>1. UNCHANGED <<peer, live, writer, joining, constraint>>
  BY DEF Fit, links
<1>2. CASE UNCHANGED <<workspace, process, daemon>>
  BY <1>1, <1>2, ServeQuiet
<1>3. CASE ~UNCHANGED <<workspace, process, daemon>>
  <2>1. Wanted(p) # {}
    BY <1>3 DEF Fit, session
  <2>2. \E c \in Clients : constraint[c][p] # 0
    BY <2>1 DEF Wanted, TypeInv, TypeOK
  <2>3. process[p] = "running"
    BY <2>2 DEF ServeInv, ProcessesInv
  <2>4. workspace' = Resized(p, Smallest(p)) /\ UNCHANGED <<process, daemon>>
    BY <1>3, <2>3 DEF Fit, session
  <2>5. \A q \in Panes : q # p => workspace'.size[q] = workspace.size[q]
    BY <2>4 DEF Resized, TypeInv, TypeOK
  <2>6. ProcessesInv'
    BY <1>1, <2>3, <2>4, <2>5 DEF ProcessesInv, ServeInv
  <2> QED BY <1>1, <2>4, <2>6, PeersQuiet DEF ServeInv
<1> QED BY <1>2, <1>3

\* Clients leave the list while none is being accepted.
LEMMA ServeDrop ==
  ASSUME TypeInv, ServeInv, NEW gone, Drop(gone), at # "accept",
         UNCHANGED <<workspace, process, joining, daemon>>
  PROVE  ServeInv'
<1>1. joining = NoClient
  BY DEF TypeInv, Shape
<1>2. PeersInv'
  BY <1>1 DEF Drop, Ended, PeersInv, ServeInv
<1>3. \A c \in Clients, p \in Panes : constraint'[c][p] # 0 => constraint[c][p] # 0
  BY DEF Drop, Ended, NoConstraint
<1>4. ProcessesInv'
  BY <1>3 DEF ProcessesInv, ServeInv
<1> QED BY <1>2, <1>4 DEF ServeInv

LEMMA ServeLeaves ==
  ASSUME TypeInv, Room, ServeInv, RemoveClosed \/ Publish
  PROVE  ServeInv'
<1>1. CASE RemoveClosed
  <2>1. daemon' = daemon
    BY <1>1, PatchServes DEF RemoveClosed
  <2> QED BY <1>1, <2>1, ServeDrop DEF RemoveClosed, Step, session
<1>2. CASE Publish
  <2>1. live \subseteq Clients
    BY DEF TypeInv, TypeOK
  <2>2. daemon' = daemon
    <3>1. daemon' = IF changed /\ \E c \in live : Full(c) THEN "failed" ELSE daemon
      BY <1>2, Zenon DEF Publish
    <3> QED BY <2>1, <3>1, NoneFull
  <2>3. PICK gone : Drop(gone)
    BY <1>2, Zenon DEF Publish
  <2> QED BY <1>2, <2>2, <2>3, ServeDrop DEF Publish, Step, session
<1> QED BY <1>1, <1>2

LEMMA ServeMoves ==
  ASSUME TypeInv, Room, ServeInv,
         \/ Poll \/ AcceptDone \/ (\E c \in Clients : StartDrain(c)) \/ NoFrame \/ DrainDone \/ UpdateInventory
         \/ EndIteration
  PROVE  ServeInv'
<1>1. UNCHANGED <<peer, live, writer, workspace, process, constraint, joining>>
  BY DEF Poll, AcceptDone, StartDrain, NoFrame, DrainDone, UpdateInventory, EndIteration,
         session, links
<1>2. daemon' = daemon
  <2>1. live \subseteq Clients
    BY DEF TypeInv, TypeOK
  <2>2. UpdateInventory =>
          UNCHANGED daemon \/ \E frame : Post(live \cap Subscribers, frame)
    BY Zenon DEF UpdateInventory
  <2>3. UpdateInventory => UNCHANGED daemon
    BY <2>1, <2>2, PostServes
  <2>4. EndIteration => UNCHANGED daemon
    BY PatchServes DEF EndIteration
  <2> QED BY <2>3, <2>4 DEF Poll, AcceptDone, StartDrain, NoFrame, DrainDone
<1> QED BY <1>1, <1>2, ServeQuiet

LEMMA ServeNext ==
  NothingBreaks /\ TypeInv /\ Room /\ ServeInv /\ [Next]_vars => ServeInv'
<1> SUFFICES ASSUME NothingBreaks, TypeInv, Room, ServeInv, [Next]_vars PROVE ServeInv'
  OBVIOUS
<1>0. RootPane \in Panes
  BY ConstantsAssumption
<1>1. CASE UNCHANGED vars
  BY <1>1, ServeQuiet DEF vars, session, links, loop
<1>2. ASSUME NEW c \in Clients,
             \/ Connect(c) \/ Disconnect(c) \/ WriteFrame(c)
             \/ \E frame \in ClientFrames : SendFrame(c, frame)
      PROVE  ServeInv'
  BY <1>0, <1>2, ServeAround
<1>3. ASSUME NEW p \in Panes, ProcessExit(p) PROVE ServeInv'
  BY <1>3 DEF ProcessExit, NothingBreaks
<1>4. ASSUME NEW p \in Panes, CloseTab(p) \/ NewTab(p) \/ KillSession PROVE ServeInv'
  BY <1>4, ServeCommand
<1>5. ASSUME NEW c \in Clients, Accept(c) \/ StartDrain(c) PROVE ServeInv'
  BY <1>5, ServeAccept, ServeMoves
<1>6. CASE Poll \/ AcceptDone \/ NoFrame \/ DrainDone \/ UpdateInventory \/ EndIteration
  BY <1>6, ServeMoves
<1>7. CASE SendSnapshot \/ DrainFrame \/ RemoveClosed \/ Publish
  BY <1>7, ServeJoin, ServeDrain, ServeLeaves
<1>8. ASSUME NEW p \in Panes, Fit(p) PROVE ServeInv'
  BY <1>8, ServeFit
<1> QED BY <1>0, <1>1, <1>2, <1>3, <1>4, <1>5, <1>6, <1>7, <1>8 DEF Next, LoopStep

\* The loop returns an error only for one of the happenings in NothingBreaks or a
\* full queue: clients that come, leave, are refused, resize or lose their
\* connection, sessions with new tabs and users' resizes never end it.
THEOREM OnlyFullQueuesEnd ==
  NothingBreaks => (Spec /\ []Room => []ServesUntilShutdown)
<1> SUFFICES ASSUME NothingBreaks PROVE Spec /\ []Room => []ServesUntilShutdown
  OBVIOUS
<1>1. Init => TypeInv /\ ServeInv
  BY TypeInit, ServeInit
<1>2. Room /\ TypeInv /\ ServeInv /\ [Next]_vars => (TypeInv /\ ServeInv)'
  BY TypeNext, ServeNext
<1>3. ServeInv => ServesUntilShutdown
  BY DEF ServeInv, ServesUntilShutdown
<1> QED BY <1>1, <1>2, <1>3, PTL DEF Spec
=============================================================================
