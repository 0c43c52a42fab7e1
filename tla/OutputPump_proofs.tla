-------------------------- MODULE OutputPump_proofs --------------------------
(***************************************************************************)
(* Proofs about OutputPump, for all values of its constants.               *)
(*                                                                         *)
(* InOrder follows from Accounted: what a pane's process has written is    *)
(* what the terminal has been given, followed by what the handoff, the     *)
(* host, the channel and the PTY hold, in this order.  It needs to know    *)
(* that a pane id nobody uses has nothing left anywhere (Attended), and    *)
(* that the handoff is that of the pane being read (HandoffInv).           *)
(* WakeUpPending is about the poll only; WakeInv says what each other      *)
(* place of the loop still owes a pane whose output is unread.             *)
(***************************************************************************)
EXTENDS OutputPump, SequenceTheorems, TLAPS

Attended ==
  \A p \in Panes :
    /\ program[p] = "none" <=> status[p] = "none"
    /\ status[p] = "none" => /\ tty[p] = <<>> /\ channel[p] = <<>> /\ pending[p] = <<>>
    /\ pump[p] \in {"closing", "ended"} => program[p] # "running" /\ tty[p] = <<>>

HandoffInv ==
  /\ at = "read" => reading \in todo \cup {NoPane} /\ todo \subseteq Here
  /\ at # "read" \/ reading = NoPane => handoff = NoChunks

Cat(s, t) == s \o t
Held(p) == IF p = reading THEN handoff.bytes ELSE <<>>
OnItsWay(p) == Cat(Held(p), Cat(Cat(pending[p], channel[p]), tty[p]))
AccountedFor(p) == status[p] # "none" => Cat(shown[p], OnItsWay(p)) = written[p]
Accounted == \A p \in Panes : AccountedFor(p)

\* What the loop owes pane p: while it is not inside a pass that will come to p, a
\* wake-up; while it handles clients, having been woken is enough.
Owed(p) ==
  /\ at \in {"poll", "accept", "input", "join"} \/ (at = "read" /\ then = "discard")
       => WakeUp(p) \/ discarded \/ (woken /\ at # "poll")
  /\ at = "discard" \/ (at = "read" /\ p \notin todo)
       => WakeUp(p)
WakeInv == \A p \in Panes : Unread(p) => Owed(p)

-----------------------------------------------------------------------------
(* Sequences: a queue split at n, and what a prefix is. *)

LEMMA SplitAt ==
  ASSUME NEW T, NEW s \in Seq(T), NEW n \in 0..Len(s)
  PROVE  /\ SubSeq(s, 1, n) \in Seq(T) /\ From(s, n + 1) \in Seq(T)
         /\ SubSeq(s, 1, n) \o From(s, n + 1) = s
<1>0. Len(s) \in Nat /\ \A i \in 1..Len(s) : s[i] \in T
  BY ElementOfSeq
<1>1. SubSeq(s, 1, n) \o SubSeq(s, n + 1, Len(s)) = SubSeq(s, 1, Len(s))
  <2>1. 1 \in 1..Len(s)+1 /\ n \in 1-1..Len(s) /\ Len(s) \in n..Len(s)
    BY <1>0
  <2> QED BY <2>1, ConcatAdjacentSubSeq, Zenon
<1>2. SubSeq(s, 1, Len(s)) = s
  BY SubSeqFull
<1>3. SubSeq(s, 1, n) \in Seq(T) /\ SubSeq(s, n + 1, Len(s)) \in Seq(T)
  BY <1>0, SubSeqProperties
<1> QED BY <1>1, <1>2, <1>3 DEF From

LEMMA PrefixIs ==
  ASSUME NEW T, NEW s \in Seq(T), NEW r \in Seq(T), NEW w, s \o r = w
  PROVE  Len(s) \in 0..Len(w) /\ s = SubSeq(w, 1, Len(s)) /\ w \in Seq(T)
<1>1. /\ w \in Seq(T) /\ Len(w) = Len(s) + Len(r)
      /\ \A i \in 1..Len(s) : w[i] = s[i]
      /\ Len(s) \in Nat /\ Len(r) \in Nat
  <2>1. /\ w \in Seq(T) /\ Len(w) = Len(s) + Len(r)
        /\ \A i \in 1..Len(s) + Len(r) : w[i] = IF i <= Len(s) THEN s[i] ELSE r[i - Len(s)]
    BY ConcatProperties, Zenon
  <2>2. Len(s) \in Nat /\ Len(r) \in Nat
    BY LenProperties
  <2> QED BY <2>1, <2>2
<1>2. /\ SubSeq(w, 1, Len(s)) \in Seq(T)
      /\ Len(SubSeq(w, 1, Len(s))) = Len(s)
      /\ \A i \in 1..Len(s) : SubSeq(w, 1, Len(s))[i] = w[i]
  <2>1. \A i \in 1..Len(s) : w[i] \in T
    BY <1>1, ElementOfSeq
  <2>2. /\ SubSeq(w, 1, Len(s)) \in Seq(T)
        /\ Len(SubSeq(w, 1, Len(s))) = IF 1 <= Len(s) THEN Len(s) - 1 + 1 ELSE 0
        /\ \A i \in 1..Len(s) - 1 + 1 : SubSeq(w, 1, Len(s))[i] = w[1 + i - 1]
    BY <1>1, <2>1, SubSeqProperties
  <2> QED BY <1>1, <2>2
<1>3. s = SubSeq(w, 1, Len(s))
  BY <1>1, <1>2, SeqEqual
<1> QED BY <1>1, <1>3

LEMMA CatType ==
  ASSUME NEW T, NEW s \in Seq(T), NEW t \in Seq(T)
  PROVE  Cat(s, t) \in Seq(T)
BY ConcatProperties, SMT DEF Cat

LEMMA CatAssociative ==
  ASSUME NEW T, NEW s \in Seq(T), NEW t \in Seq(T), NEW u \in Seq(T)
  PROVE  Cat(Cat(s, t), u) = Cat(s, Cat(t, u))
BY ConcatAssociative, SMT DEF Cat

LEMMA CatOfThree ==
  ASSUME NEW T, NEW a \in Seq(T), NEW b \in Seq(T), NEW c \in Seq(T), NEW d \in Seq(T)
  PROVE  Cat(a, Cat(Cat(b, c), d)) \in Seq(T)
<1>1. Cat(Cat(b, c), d) \in Seq(T)
  <2>1. Cat(b, c) \in Seq(T)
    BY CatType, Zenon
  <2> QED BY <2>1, CatType, Zenon
<1> QED BY <1>1, CatType, Zenon

\* Moving the first part of a queue to the end of the one before it.
LEMMA Regroup ==
  ASSUME NEW T, NEW a \in Seq(T), NEW b \in Seq(T), NEW c \in Seq(T), NEW d \in Seq(T)
  PROVE  Cat(a, Cat(Cat(b, c), d)) = Cat(Cat(a, b), Cat(c, d))
<1>1. Cat(b, c) \in Seq(T) /\ Cat(c, d) \in Seq(T) /\ Cat(a, b) \in Seq(T)
  BY CatType, Zenon
<1>2. Cat(Cat(b, c), d) = Cat(b, Cat(c, d))
  BY CatAssociative, SMT
<1>3. Cat(Cat(a, b), Cat(c, d)) = Cat(a, Cat(b, Cat(c, d)))
  BY <1>1, CatAssociative, SMT
<1> QED BY <1>2, <1>3, SMT

-----------------------------------------------------------------------------
(* Types *)

LEMMA TypeInit == Init => TypeOK
<1> SUFFICES ASSUME Init PROVE TypeOK
  OBVIOUS
<1>0. <<>> \in Seq(Bytes)
  BY EmptySeq
<1>1. PaneTypes
  BY <1>0 DEF Init, PaneTypes
<1>2. LoopTypes
  BY DEF Init, LoopTypes
<1>3. HandoffType
  BY <1>0, ConstantsAssumption DEF Init, HandoffType, NoChunks
<1>4. CounterTypes
  BY ConstantsAssumption DEF Init, CounterTypes
<1> QED BY <1>1, <1>2, <1>3, <1>4 DEF TypeOK

LEMMA PassTypes ==
  ASSUME NEW next, BeginPass(next)
  PROVE  /\ at' = "read" /\ then' = next
         /\ todo' \subseteq Panes /\ reading' = NoPane
         /\ HandoffType'
<1>1. NoChunks \in [bytes : Seq(Bytes), chunks : 0..(HandoffChunks - 1)]
  BY EmptySeq, ConstantsAssumption DEF NoChunks
<1> QED BY <1>1 DEF BeginPass, Here, HandoffType

\* What reading a chunk of p does, with the lengths and sets that are involved.
LEMMA ChunkFacts ==
  ASSUME TypeOK, NEW p \in Panes
  PROVE  /\ Received(p) \in Seq(Bytes)
         /\ Lesser(HandoffBytes, Len(Received(p))) \in 0..Len(Received(p))
         /\ \A n \in 0..Len(Received(p)) :
              /\ SubSeq(Received(p), 1, n) \in Seq(Bytes)
              /\ From(Received(p), n + 1) \in Seq(Bytes)
              /\ SubSeq(Received(p), 1, n) \o From(Received(p), n + 1) = Received(p)
<1>1. Received(p) \in Seq(Bytes)
  BY ConcatProperties DEF TypeOK, PaneTypes, Received
<1>2. Len(Received(p)) \in Nat
  BY <1>1, LenProperties
<1>3. Lesser(HandoffBytes, Len(Received(p))) \in 0..Len(Received(p))
  BY <1>2, ConstantsAssumption DEF Lesser
<1> QED BY <1>1, <1>3, SplitAt

LEMMA TtyFacts ==
  ASSUME TypeOK, NEW p \in Panes, NEW n \in 1..Lesser(PumpBytes, Len(tty[p]))
  PROVE  /\ SubSeq(tty[p], 1, n) \in Seq(Bytes) /\ From(tty[p], n + 1) \in Seq(Bytes)
         /\ SubSeq(tty[p], 1, n) \o From(tty[p], n + 1) = tty[p]
         /\ channel[p] \o SubSeq(tty[p], 1, n) \in Seq(Bytes)
<1>1. tty[p] \in Seq(Bytes) /\ channel[p] \in Seq(Bytes)
  BY DEF TypeOK, PaneTypes
<1>2. n \in 0..Len(tty[p])
  <2>1. Len(tty[p]) \in Nat
    BY <1>1, LenProperties
  <2> QED BY <2>1, ConstantsAssumption DEF Lesser
<1>3. /\ SubSeq(tty[p], 1, n) \in Seq(Bytes) /\ From(tty[p], n + 1) \in Seq(Bytes)
      /\ SubSeq(tty[p], 1, n) \o From(tty[p], n + 1) = tty[p]
  BY <1>1, <1>2, SplitAt
<1> QED BY <1>1, <1>3, ConcatProperties

LEMMA CounterStep == TypeOK /\ [Next]_vars => CounterTypes'
<1> SUFFICES ASSUME TypeOK, [Next]_vars PROVE CounterTypes'
  OBVIOUS
<1> USE DEF TypeOK, CounterTypes
<1>1. spent' \in [output : Nat, events : Nat]
  <2>1. \/ spent' = spent \/ spent' = [spent EXCEPT !.output = @ + 1]
        \/ spent' = [spent EXCEPT !.events = @ + 1]
    BY Zenon DEF Next, LoopStep, PumpStep, Write, Exit, ReadTty, EndOfTty, Notify, Poll, Attach,
         Discard, Probe, JoinPump, AcceptDone, NoInput, ReadAgain, WaitForQuiet, EndPass,
         OpenPane, ClosePane, Input, ReadChunk, EndRead, vars
  <2> QED BY <2>1
<1>2. pipe' \in 0..PipeCap
  <2>1. pipe' = pipe \/ pipe' = 0 \/ pipe' = Lesser(pipe + 1, PipeCap)
    BY Zenon DEF Next, LoopStep, PumpStep, Write, Exit, ReadTty, EndOfTty, Notify, Poll, Attach,
         Discard, Probe, JoinPump, AcceptDone, NoInput, ReadAgain, WaitForQuiet, EndPass,
         OpenPane, ClosePane, Input, ReadChunk, EndRead, vars
  <2> QED BY <2>1, ConstantsAssumption DEF Lesser
<1> QED BY <1>1, <1>2

LEMMA PaneStep == TypeOK /\ [Next]_vars => PaneTypes'
<1> SUFFICES ASSUME TypeOK, [Next]_vars PROVE PaneTypes'
  OBVIOUS
<1> USE DEF PaneTypes
<1>0. <<>> \in Seq(Bytes) /\ PaneTypes
  BY EmptySeq DEF TypeOK
<1>1. ASSUME NEW p \in Panes, Write(p) PROVE PaneTypes'
  <2>1. PICK b \in Bytes : /\ written' = [written EXCEPT ![p] = Append(@, b)]
                           /\ tty' = [tty EXCEPT ![p] = Append(@, b)]
    BY <1>1 DEF Write
  <2>2. Append(written[p], b) \in Seq(Bytes) /\ Append(tty[p], b) \in Seq(Bytes)
    BY <1>0
  <2>3. written' \in [Panes -> Seq(Bytes)] /\ tty' \in [Panes -> Seq(Bytes)]
    BY <1>0, <2>1, <2>2
  <2> QED BY <1>0, <1>1, <2>3 DEF Write, host, terminal
<1>2. ASSUME NEW p \in Panes, Exit(p) PROVE PaneTypes'
  BY <1>0, <1>2 DEF Exit, host, terminal
<1>3. ASSUME NEW p \in Panes, PumpStep(p) PROVE PaneTypes'
  <2>1. CASE ReadTty(p)
    <3>1. PICK n \in 1..Lesser(PumpBytes, Len(tty[p])) :
            /\ channel' = [channel EXCEPT ![p] = @ \o SubSeq(tty[p], 1, n)]
            /\ tty' = [tty EXCEPT ![p] = From(@, n + 1)]
      BY <2>1 DEF ReadTty
    <3>2. From(tty[p], n + 1) \in Seq(Bytes) /\ channel[p] \o SubSeq(tty[p], 1, n) \in Seq(Bytes)
      BY TtyFacts
    <3>3. channel' \in [Panes -> Seq(Bytes)] /\ tty' \in [Panes -> Seq(Bytes)]
      BY <1>0, <3>1, <3>2
    <3> QED BY <1>0, <2>1, <3>3 DEF ReadTty, terminal
  <2>2. CASE EndOfTty(p)
    BY <1>0, <2>2 DEF EndOfTty, process, host, terminal
  <2>3. CASE Notify(p)
    BY <1>0, <2>3 DEF Notify, process, host, terminal
  <2> QED BY <1>3, <2>1, <2>2, <2>3 DEF PumpStep
<1>4. CASE UNCHANGED <<process, pump, host, terminal>>
  BY <1>0, <1>4 DEF process, host, terminal
<1>5. CASE JoinPump
  <2>1. reading \in Panes
    BY <1>5 DEF JoinPump, TypeOK, LoopTypes
  <2> QED BY <1>0, <1>5, <2>1 DEF JoinPump
<1>6. ASSUME NEW p \in Panes, OpenPane(p) PROVE PaneTypes'
  BY <1>0, <1>6 DEF OpenPane
<1>7. ASSUME NEW p \in Panes, ClosePane(p) PROVE PaneTypes'
  BY <1>0, <1>7 DEF ClosePane, host, terminal
<1>8. ASSUME NEW p \in Panes, Input(p) PROVE PaneTypes'
  BY <1>0, <1>8 DEF Input, process, terminal
<1>9. ASSUME NEW p \in Panes, ReadChunk(p) PROVE PaneTypes'
  <2> DEFINE n     == Lesser(HandoffBytes, Len(Received(p)))
             bytes == handoff.bytes \o SubSeq(Received(p), 1, n)
  <2>1. From(Received(p), n + 1) \in Seq(Bytes) /\ SubSeq(Received(p), 1, n) \in Seq(Bytes)
    BY ChunkFacts
  <2>2. shown[p] \o bytes \in Seq(Bytes)
    <3>1. handoff.bytes \in Seq(Bytes) /\ shown[p] \in Seq(Bytes)
      BY <1>0 DEF TypeOK, HandoffType
    <3>2. bytes \in Seq(Bytes)
      BY <2>1, <3>1, ConcatProperties
    <3> QED BY <3>1, <3>2, ConcatProperties
  <2>3. UNCHANGED terminal \/ Flush(p, bytes)
    BY <1>9 DEF ReadChunk
  <2>4. shown' \in [Panes -> Seq(Bytes)]
    BY <1>0, <2>2, <2>3 DEF Flush, terminal
  <2>5. asked' \in [Panes -> BOOLEAN]
    BY <1>0, <2>3, Zenon DEF Flush, terminal, Asks
  <2>6. pending' \in [Panes -> Seq(Bytes)] /\ channel' \in [Panes -> Seq(Bytes)]
    BY <1>0, <1>9, <2>1 DEF ReadChunk
  <2> QED BY <1>0, <1>9, <2>4, <2>5, <2>6 DEF ReadChunk, process
<1>10. ASSUME NEW p \in Panes, EndRead(p) PROVE PaneTypes'
  <2>1. shown[p] \o handoff.bytes \in Seq(Bytes)
    BY <1>0, ConcatProperties DEF TypeOK, HandoffType
  <2> QED BY <1>0, <1>10, <2>1 DEF EndRead, process
<1>11. UNCHANGED vars => UNCHANGED <<process, pump, host, terminal>>
  BY DEF vars
<1>12. (Poll \/ Attach \/ Discard \/ Probe \/ AcceptDone \/ NoInput \/ ReadAgain
         \/ WaitForQuiet \/ EndPass) => UNCHANGED <<process, pump, host, terminal>>
  BY DEF Poll, Attach, Discard, Probe, AcceptDone, NoInput, ReadAgain, WaitForQuiet, EndPass
<1> HIDE DEF PaneTypes
<1>13. LoopStep => PaneTypes'
  BY <1>4, <1>5, <1>6, <1>7, <1>8, <1>9, <1>10, <1>12, Zenon DEF LoopStep
<1> QED
  BY <1>1, <1>2, <1>3, <1>4, <1>11, <1>13, Zenon DEF Next

LEMMA LoopTypeStep == TypeOK /\ [Next]_vars => LoopTypes' /\ HandoffType'
<1> SUFFICES ASSUME TypeOK, [Next]_vars PROVE LoopTypes' /\ HandoffType'
  OBVIOUS
<1>0. LoopTypes /\ HandoffType /\ <<>> \in Seq(Bytes)
  BY EmptySeq DEF TypeOK
<1>1. CASE UNCHANGED <<at, pass, round, discarded>>
  BY <1>0, <1>1 DEF LoopTypes, HandoffType, pass, round
<1>2. CASE (\E p \in Panes : Write(p) \/ Exit(p) \/ PumpStep(p)) \/ UNCHANGED vars
  <2>1. UNCHANGED <<at, pass, round, discarded>>
    BY <1>2 DEF Write, Exit, PumpStep, ReadTty, EndOfTty, Notify, vars
  <2> QED BY <2>1, <1>1
<1>3. CASE Poll \/ Discard \/ AcceptDone \/ JoinPump \/ EndPass
  <2>1. CASE Poll \/ Discard \/ AcceptDone
    <3>1. woken' \in BOOLEAN /\ discarded' \in BOOLEAN
      <4>1. woken \in BOOLEAN /\ discarded \in BOOLEAN
        BY <1>0 DEF LoopTypes
      <4>2. \/ woken' = woken /\ discarded' = discarded
            \/ woken' = (pipe > 0) /\ discarded' = discarded
            \/ woken' = woken /\ discarded' = (discarded \/ pipe > 0)
        BY <2>1, Zenon DEF Poll, Discard, AcceptDone, round
      <4>3. CASE pipe > 0
        BY <4>1, <4>2, <4>3
      <4>4. CASE ~(pipe > 0)
        <5>1. (discarded \/ pipe > 0) = discarded
          BY <4>1, <4>4
        <5>2. (pipe > 0) = FALSE
          BY <4>4
        <5> QED BY <4>1, <4>2, <5>1, <5>2
      <4> QED BY <4>3, <4>4
    <3> QED
      BY <1>0, <2>1, <3>1 DEF Poll, Discard, AcceptDone, LoopTypes, HandoffType, pass, round
  <2>2. CASE JoinPump
    BY <1>0, <2>2 DEF JoinPump, LoopTypes, HandoffType, round
  <2>3. CASE EndPass
    BY <1>0, <2>3 DEF EndPass, LoopTypes, HandoffType
  <2> QED BY <1>3, <2>1, <2>2, <2>3
<1>4. CASE Attach \/ Probe
  <2>1. BeginPass("discard") \/ BeginPass("accept")
    BY <1>4 DEF Attach, Probe
  <2> QED BY <1>0, <1>4, <2>1, PassTypes DEF Attach, Probe, LoopTypes, round
<1>5. ASSUME NEW p \in Panes, OpenPane(p) \/ ClosePane(p) PROVE LoopTypes' /\ HandoffType'
  BY <1>0, <1>5 DEF OpenPane, ClosePane, LoopTypes, HandoffType, pass, round
<1>6. ASSUME NEW p \in Panes, Input(p) PROVE LoopTypes' /\ HandoffType'
  BY <1>0, <1>6, PassTypes DEF Input, LoopTypes
<1>7. CASE NoInput
  <2>1. CASE woken
    BY <1>0, <1>7, <2>1, PassTypes DEF NoInput, LoopTypes
  <2>2. CASE ~woken
    BY <1>0, <1>7, <2>2 DEF NoInput, LoopTypes, HandoffType, pass
  <2> QED BY <2>1, <2>2
<1>8. CASE ReadAgain \/ WaitForQuiet
  <2>1. \E next \in {"poll", "discard", "accept", "quiet"} : BeginPass(next)
    BY <1>8 DEF ReadAgain, WaitForQuiet
  <2> QED BY <1>0, <1>8, <2>1, PassTypes DEF ReadAgain, WaitForQuiet, LoopTypes, round
<1>9. ASSUME NEW p \in Panes, ReadChunk(p) PROVE LoopTypes' /\ HandoffType'
  <2> DEFINE n     == Lesser(HandoffBytes, Len(Received(p)))
             bytes == handoff.bytes \o SubSeq(Received(p), 1, n)
  <2>1. bytes \in Seq(Bytes)
    <3>1. handoff.bytes \in Seq(Bytes) /\ SubSeq(Received(p), 1, n) \in Seq(Bytes)
      BY <1>0, ChunkFacts DEF HandoffType
    <3> QED BY <3>1, ConcatProperties
  <2> HIDE DEF bytes
  <2>2. \/ handoff' = NoChunks
        \/ /\ ~(handoff.chunks + 1 >= HandoffChunks)
           /\ handoff' = [bytes |-> bytes, chunks |-> handoff.chunks + 1]
    BY <1>9 DEF ReadChunk, bytes
  <2>3. HandoffType'
    <3>1. CASE handoff' = NoChunks
      BY <1>0, <3>1, ConstantsAssumption DEF HandoffType, NoChunks
    <3>2. CASE /\ ~(handoff.chunks + 1 >= HandoffChunks)
               /\ handoff' = [bytes |-> bytes, chunks |-> handoff.chunks + 1]
      <4>1. handoff.chunks \in 0..(HandoffChunks - 1)
        BY <1>0 DEF HandoffType
      <4>2. handoff.chunks + 1 \in 0..(HandoffChunks - 1)
        BY <3>2, <4>1, ConstantsAssumption
      <4> QED BY <2>1, <3>2, <4>2 DEF HandoffType
    <3> QED BY <2>2, <3>1, <3>2
  <2>4. LoopTypes'
    BY <1>0, <1>9 DEF ReadChunk, LoopTypes, round
  <2> QED BY <2>3, <2>4
<1>10. ASSUME NEW p \in Panes, EndRead(p) PROVE LoopTypes' /\ HandoffType'
  <2>1. HandoffType'
    BY <1>0, <1>10, ConstantsAssumption DEF EndRead, NoChunks, HandoffType
  <2>2. at' \in {"accept", "ended", "read"} /\ todo' \subseteq Panes /\ discarded' \in BOOLEAN
    BY <1>0, <1>10 DEF EndRead, Break, LoopTypes
  <2>3. LoopTypes'
    BY <1>0, <1>10, <2>2 DEF EndRead, LoopTypes, round
  <2> QED BY <2>1, <2>3
<1> QED
  BY <1>2, <1>3, <1>4, <1>5, <1>6, <1>7, <1>8, <1>9, <1>10 DEF Next, LoopStep

LEMMA TypeStep == TypeOK /\ [Next]_vars => TypeOK'
  BY CounterStep, PaneStep, LoopTypeStep DEF TypeOK

\* The types of the pump's, the channel's and the loop's state, whatever they do.
THEOREM TypeCorrect == Spec => []TypeOK
<1> QED BY TypeInit, TypeStep, PTL DEF Spec
-----------------------------------------------------------------------------
(* Who uses a pane id, and whose the handoff is *)

LEMMA AttendedInit == Init => Attended /\ HandoffInv
  BY DEF Init, Attended, HandoffInv

LEMMA AttendedStep == TypeOK /\ Attended /\ HandoffInv /\ [Next]_vars => Attended'
<1> SUFFICES ASSUME TypeOK, Attended, HandoffInv, [Next]_vars PROVE Attended'
  OBVIOUS
<1>0. PaneTypes /\ LoopTypes
  BY DEF TypeOK
<1>1. ASSUME NEW p \in Panes, Write(p) PROVE Attended'
  BY <1>0, <1>1 DEF Write, Attended, PaneTypes, host
<1>2. ASSUME NEW p \in Panes, Exit(p) PROVE Attended'
  BY <1>0, <1>2 DEF Exit, Attended, PaneTypes, host
<1>3. ASSUME NEW p \in Panes, ReadTty(p) PROVE Attended'
  <2>1. PICK n : /\ channel' = [channel EXCEPT ![p] = @ \o SubSeq(tty[p], 1, n)]
                 /\ tty' = [tty EXCEPT ![p] = From(@, n + 1)]
    BY <1>3 DEF ReadTty
  <2> QED BY <1>0, <1>3, <2>1 DEF ReadTty, Attended, PaneTypes
<1>4. ASSUME NEW p \in Panes, EndOfTty(p) \/ Notify(p) PROVE Attended'
  BY <1>0, <1>4 DEF EndOfTty, Notify, Attended, PaneTypes, process, host
<1>5. CASE UNCHANGED <<process, pump, host>>
  BY <1>5 DEF Attended, process, host
<1>6. CASE JoinPump
  BY <1>0, <1>6 DEF JoinPump, Attended, PaneTypes, LoopTypes
<1>7. ASSUME NEW p \in Panes, OpenPane(p) PROVE Attended'
  BY <1>0, <1>7 DEF OpenPane, Attended, PaneTypes
<1>8. ASSUME NEW p \in Panes, ClosePane(p) PROVE Attended'
  BY <1>0, <1>8 DEF ClosePane, Attended, PaneTypes, host
<1>9. ASSUME NEW p \in Panes, Input(p) PROVE Attended'
  BY <1>0, <1>9 DEF Input, Attended, PaneTypes, process, Here
<1>10. ASSUME NEW p \in Panes, ReadChunk(p) PROVE Attended'
  <2>1. status[p] # "none"
    BY <1>10 DEF ReadChunk, HandoffInv, Here
  <2>2. UNCHANGED <<program, status, tty, pump>>
    BY <1>10 DEF ReadChunk, process
  <2>3. \A q \in Panes \ {p} : channel'[q] = channel[q] /\ pending'[q] = pending[q]
    BY <1>0, <1>10 DEF ReadChunk, PaneTypes
  <2> QED BY <2>1, <2>2, <2>3 DEF Attended
<1>11. ASSUME NEW p \in Panes, EndRead(p) PROVE Attended'
  <2>1. status[p] # "none"
    BY <1>11 DEF EndRead, HandoffInv, Here
  <2> QED BY <1>0, <1>11, <2>1 DEF EndRead, Attended, PaneTypes, process
<1>12. (Poll \/ Attach \/ Discard \/ Probe \/ AcceptDone \/ NoInput \/ ReadAgain
         \/ WaitForQuiet \/ EndPass \/ UNCHANGED vars) => UNCHANGED <<process, pump, host>>
  BY DEF Poll, Attach, Discard, Probe, AcceptDone, NoInput, ReadAgain, WaitForQuiet, EndPass, vars
<1>13. LoopStep => Attended'
  BY <1>5, <1>6, <1>7, <1>8, <1>9, <1>10, <1>11, <1>12, Zenon DEF LoopStep
<1> QED
  BY <1>1, <1>2, <1>3, <1>4, <1>5, <1>12, <1>13, Zenon DEF Next, PumpStep

\* Between two panes nothing is held.
LEMMA NothingHeld ==
  ASSUME HandoffInv, at # "read" \/ todo = {}
  PROVE  handoff = NoChunks
BY DEF HandoffInv

\* A pass begins with the panes there are, whatever else the step does.
LEMMA PassHandoff ==
  ASSUME NEW next, BeginPass(next), Here' = Here
  PROVE  HandoffInv'
BY DEF BeginPass, HandoffInv, NoChunks

LEMMA HandoffStep == TypeOK /\ Attended /\ HandoffInv /\ [Next]_vars => HandoffInv'
<1> SUFFICES ASSUME TypeOK, Attended, HandoffInv, [Next]_vars PROVE HandoffInv'
  OBVIOUS
<1>0. PaneTypes /\ LoopTypes /\ NoChunks' = NoChunks
  BY DEF TypeOK, NoChunks
<1>1. CASE UNCHANGED <<status, at, pass>>
  BY <1>0, <1>1 DEF HandoffInv, Here, pass
<1>2. CASE (\E p \in Panes : Write(p) \/ Exit(p) \/ PumpStep(p)) \/ UNCHANGED vars
  <2>1. UNCHANGED <<status, at, pass>>
    BY <1>2 DEF Write, Exit, PumpStep, ReadTty, EndOfTty, Notify, vars, host
  <2> QED BY <2>1, <1>1
<1>3. CASE Poll \/ Discard \/ AcceptDone
  BY <1>0, <1>3 DEF Poll, Discard, AcceptDone, HandoffInv, pass
<1>4. CASE JoinPump
  BY <1>0, <1>4 DEF JoinPump, HandoffInv
<1>5. CASE Attach \/ Probe \/ ReadAgain \/ WaitForQuiet
  <2>1. Here' = Here
    BY <1>5 DEF Attach, Probe, ReadAgain, WaitForQuiet, Here, host
  <2>2. \E next : BeginPass(next)
    BY <1>5 DEF Attach, Probe, ReadAgain, WaitForQuiet
  <2> QED BY <2>1, <2>2, PassHandoff
<1>6. ASSUME NEW p \in Panes, OpenPane(p) \/ ClosePane(p) PROVE HandoffInv'
  BY <1>0, <1>6 DEF OpenPane, ClosePane, HandoffInv, pass
<1>7. ASSUME NEW p \in Panes, Input(p) PROVE HandoffInv'
  <2>1. Here' = Here
    BY <1>0, <1>7 DEF Input, Here, Attended, PaneTypes
  <2> QED BY <1>7, <2>1, PassHandoff DEF Input
<1>8. CASE NoInput
  <2>1. Here' = Here
    BY <1>8 DEF NoInput, Here, host
  <2>2. CASE woken
    BY <1>8, <2>1, <2>2, PassHandoff DEF NoInput
  <2>3. CASE ~woken
    BY <1>0, <1>8, <2>3 DEF NoInput, HandoffInv, pass
  <2> QED BY <2>2, <2>3
<1>9. CASE EndPass
  <2>1. at' # "read" /\ handoff' = handoff
    BY <1>0, <1>9 DEF EndPass, LoopTypes, HandoffInv
  <2>2. handoff = NoChunks
    BY <1>9 DEF EndPass, HandoffInv
  <2> QED BY <1>0, <2>1, <2>2 DEF HandoffInv
<1>10. ASSUME NEW p \in Panes, ReadChunk(p) PROVE HandoffInv'
  <2>1. at = "read" /\ at' = at /\ todo' = todo /\ reading' = p /\ p \in todo /\ status' = status
    BY <1>10 DEF ReadChunk
  <2>2. p # NoPane
    BY ConstantsAssumption
  <2> QED BY <2>1, <2>2 DEF HandoffInv, Here
<1>11. ASSUME NEW p \in Panes, EndRead(p) PROVE HandoffInv'
  <2>1. Here' = Here
    BY <1>0, <1>11 DEF EndRead, Here, Attended, PaneTypes, HandoffInv
  <2>2. todo' \subseteq todo /\ at = "read" /\ handoff' = NoChunks /\ reading' = NoPane
    BY <1>11 DEF EndRead, Break
  <2> QED BY <1>0, <2>1, <2>2 DEF HandoffInv
<1>12. LoopStep => HandoffInv'
  BY <1>3, <1>4, <1>5, <1>6, <1>7, <1>8, <1>9, <1>10, <1>11, Zenon DEF LoopStep
<1> QED
  BY <1>2, <1>12, Zenon DEF Next
-----------------------------------------------------------------------------
(* Everything written is accounted for *)

LEMMA CatEmpty ==
  ASSUME NEW T, NEW s \in Seq(T)
  PROVE  Cat(<<>>, s) = s /\ Cat(s, <<>>) = s
BY ConcatEmptySeq, SMT DEF Cat

LEMMA AppendIsCat ==
  ASSUME NEW T, NEW s \in Seq(T), NEW b \in T
  PROVE  Append(s, b) = Cat(s, <<b>>) /\ <<b>> \in Seq(T)
<1>1. Append(s, b) = s \o <<b>>
  OBVIOUS
<1>2. <<b>> \in Seq(T)
  OBVIOUS
<1> QED BY <1>1, <1>2 DEF Cat

LEMMA BytesOf ==
  ASSUME TypeOK, NEW p \in Panes
  PROVE  /\ shown[p] \in Seq(Bytes) /\ Held(p) \in Seq(Bytes) /\ pending[p] \in Seq(Bytes)
         /\ channel[p] \in Seq(Bytes) /\ tty[p] \in Seq(Bytes) /\ written[p] \in Seq(Bytes)
         /\ handoff.bytes \in Seq(Bytes) /\ <<>> \in Seq(Bytes)
         /\ OnItsWay(p) \in Seq(Bytes)
<1>1. /\ shown[p] \in Seq(Bytes) /\ pending[p] \in Seq(Bytes) /\ channel[p] \in Seq(Bytes)
      /\ tty[p] \in Seq(Bytes) /\ written[p] \in Seq(Bytes)
  BY DEF TypeOK, PaneTypes
<1>2. handoff.bytes \in Seq(Bytes) /\ <<>> \in Seq(Bytes) /\ Held(p) \in Seq(Bytes)
  BY EmptySeq DEF TypeOK, HandoffType, Held
<1>3. OnItsWay(p) \in Seq(Bytes)
  BY <1>1, <1>2, CatOfThree, Zenon DEF OnItsWay
<1> QED BY <1>1, <1>2, <1>3

\* A pane whose part of the state a step leaves alone stays accounted for.
LEMMA SamePane ==
  ASSUME NEW p \in Panes, AccountedFor(p),
         shown'[p] = shown[p], written'[p] = written[p], tty'[p] = tty[p],
         channel'[p] = channel[p], pending'[p] = pending[p], Held(p)' = Held(p),
         status'[p] # "none" => status[p] # "none"
  PROVE  AccountedFor(p)'
BY Zenon DEF AccountedFor, OnItsWay

LEMMA NotHeld ==
  ASSUME NEW p \in Panes, p # reading \/ handoff = NoChunks
  PROVE  Held(p) = <<>>
BY DEF Held, NoChunks

LEMMA AccountedInit == Init => Accounted
<1> SUFFICES ASSUME Init, NEW p \in Panes PROVE AccountedFor(p)
  BY DEF Accounted
<1>1. <<>> \in Seq(Bytes)
  BY EmptySeq
<1>2. Held(p) = <<>>
  BY NotHeld DEF Init
<1>3. /\ shown[p] = <<>> /\ written[p] = <<>> /\ tty[p] = <<>> /\ channel[p] = <<>>
      /\ pending[p] = <<>>
  BY DEF Init
<1>4. Cat(<<>>, <<>>) = <<>>
  BY <1>1, CatEmpty, Zenon
<1> QED BY <1>2, <1>3, <1>4, Zenon DEF AccountedFor, OnItsWay

\* The process writes one byte more.
LEMMA AccountedWrite ==
  ASSUME TypeOK, Accounted, NEW p \in Panes, Write(p)
  PROVE  Accounted'
<1> SUFFICES ASSUME NEW q \in Panes PROVE AccountedFor(q)'
  BY DEF Accounted
<1>0. PaneTypes /\ AccountedFor(q)
  BY DEF TypeOK, Accounted
<1>1. PICK b \in Bytes : /\ written' = [written EXCEPT ![p] = Append(@, b)]
                         /\ tty' = [tty EXCEPT ![p] = Append(@, b)]
  BY DEF Write
<1>2. UNCHANGED <<shown, channel, pending, status>> /\ Held(q)' = Held(q)
  BY DEF Write, host, terminal, pass, Held
<1>3. CASE q # p
  <2>1. written'[q] = written[q] /\ tty'[q] = tty[q]
    BY <1>0, <1>1, <1>3 DEF PaneTypes
  <2> QED BY <1>0, <1>2, <2>1, SamePane
<1>4. CASE q = p
  <2> DEFINE one == <<b>>
             r   == Cat(pending[q], channel[q])
             all == Cat(r, tty[q])
  <2>1. /\ one \in Seq(Bytes) /\ written'[q] = Cat(written[q], one)
        /\ tty'[q] = Cat(tty[q], one)
    <3>1. written'[q] = Append(written[q], b) /\ tty'[q] = Append(tty[q], b)
      BY <1>0, <1>1, <1>4 DEF PaneTypes
    <3>2. /\ Append(written[q], b) = Cat(written[q], one)
          /\ Append(tty[q], b) = Cat(tty[q], one) /\ one \in Seq(Bytes)
      BY BytesOf, AppendIsCat
    <3> QED BY <3>1, <3>2
  <2> HIDE DEF one
  <2>2. r \in Seq(Bytes)
    BY BytesOf, CatType, Zenon
  <2>3. Cat(r, Cat(tty[q], one)) = Cat(all, one)
    BY <2>1, <2>2, BytesOf, CatAssociative, SMT
  <2>4. all \in Seq(Bytes)
    BY <2>2, BytesOf, CatType, Zenon
  <2>5. OnItsWay(q) = Cat(Held(q), all)
    BY DEF OnItsWay
  <2>6. OnItsWay(q)' = Cat(Held(q), Cat(r, Cat(tty[q], one)))
    BY <1>2, <2>1 DEF OnItsWay
  <2> HIDE DEF r, all
  <2>7. Cat(Held(q), Cat(all, one)) = Cat(Cat(Held(q), all), one)
    BY <2>1, <2>4, BytesOf, CatAssociative, SMT
  <2>8. Cat(shown[q], Cat(OnItsWay(q), one)) = Cat(Cat(shown[q], OnItsWay(q)), one)
    BY <2>1, BytesOf, CatAssociative, SMT
  <2>9. Cat(shown[q], OnItsWay(q)') = Cat(Cat(shown[q], OnItsWay(q)), one)
    BY <2>3, <2>5, <2>6, <2>7, <2>8
  <2> QED BY <1>0, <1>2, <2>1, <2>9 DEF AccountedFor
<1> QED BY <1>3, <1>4

\* The reader thread moves bytes from the PTY to the channel.
LEMMA AccountedReadTty ==
  ASSUME TypeOK, Accounted, NEW p \in Panes, ReadTty(p)
  PROVE  Accounted'
<1> SUFFICES ASSUME NEW q \in Panes PROVE AccountedFor(q)'
  BY DEF Accounted
<1>0. PaneTypes /\ AccountedFor(q)
  BY DEF TypeOK, Accounted
<1>1. PICK n \in 1..Lesser(PumpBytes, Len(tty[p])) :
        /\ channel' = [channel EXCEPT ![p] = @ \o SubSeq(tty[p], 1, n)]
        /\ tty' = [tty EXCEPT ![p] = From(@, n + 1)]
  BY DEF ReadTty
<1>2. UNCHANGED <<shown, written, pending, status>> /\ Held(q)' = Held(q)
  BY DEF ReadTty, terminal, pass, Held
<1>3. CASE q # p
  <2>1. channel'[q] = channel[q] /\ tty'[q] = tty[q]
    BY <1>0, <1>1, <1>3 DEF PaneTypes
  <2> QED BY <1>0, <1>2, <2>1, SamePane
<1>4. CASE q = p
  <2> DEFINE c    == SubSeq(tty[p], 1, n)
             rest == From(tty[p], n + 1)
  <2>1. c \in Seq(Bytes) /\ rest \in Seq(Bytes) /\ Cat(c, rest) = tty[p]
    BY TtyFacts, Zenon DEF Cat
  <2>2. channel'[q] = Cat(channel[q], c) /\ tty'[q] = rest
    BY <1>0, <1>1, <1>4, Zenon DEF PaneTypes, Cat
  <2> HIDE DEF c, rest
  <2>3. Cat(Cat(pending[q], Cat(channel[q], c)), rest)
          = Cat(Cat(pending[q], channel[q]), Cat(c, rest))
    <3>1. /\ Cat(channel[q], c) \in Seq(Bytes) /\ Cat(c, rest) \in Seq(Bytes)
      BY <2>1, BytesOf, CatType, Zenon
    <3>2. Cat(Cat(pending[q], Cat(channel[q], c)), rest)
            = Cat(pending[q], Cat(Cat(channel[q], c), rest))
      BY <2>1, <3>1, BytesOf, CatAssociative, SMT
    <3>3. Cat(Cat(channel[q], c), rest) = Cat(channel[q], Cat(c, rest))
      BY <2>1, BytesOf, CatAssociative, SMT
    <3>4. Cat(Cat(pending[q], channel[q]), Cat(c, rest))
            = Cat(pending[q], Cat(channel[q], Cat(c, rest)))
      BY <2>1, <3>1, BytesOf, CatAssociative, SMT
    <3> QED BY <3>2, <3>3, <3>4
  <2>4. OnItsWay(q)' = OnItsWay(q)
    BY <1>2, <1>4, <2>1, <2>2, <2>3 DEF OnItsWay
  <2> QED BY <1>0, <1>2, <2>4 DEF AccountedFor
<1> QED BY <1>3, <1>4
\* The loop moves a chunk from the host to the handoff, and a full handoff on to the
\* terminal.
LEMMA AccountedReadChunk ==
  ASSUME TypeOK, HandoffInv, Accounted, NEW p \in Panes, ReadChunk(p)
  PROVE  Accounted'
<1> SUFFICES ASSUME NEW q \in Panes PROVE AccountedFor(q)'
  BY DEF Accounted
<1>0. PaneTypes /\ AccountedFor(q)
  BY DEF TypeOK, Accounted
<1> DEFINE n     == Lesser(HandoffBytes, Len(Received(p)))
           c     == SubSeq(Received(p), 1, n)
           rest  == From(Received(p), n + 1)
           bytes == handoff.bytes \o c
<1>1. /\ UNCHANGED <<written, tty, status>> /\ reading' = p /\ reading \in {NoPane, p}
      /\ at = "read"
      /\ pending' = [pending EXCEPT ![p] = rest] /\ channel' = [channel EXCEPT ![p] = <<>>]
      /\ \/ Flush(p, bytes) /\ handoff' = NoChunks
         \/ handoff'.bytes = bytes /\ UNCHANGED terminal
  <2>1. \/ Flush(p, bytes) /\ handoff' = NoChunks
        \/ /\ handoff' = [bytes |-> bytes, chunks |-> handoff.chunks + 1]
           /\ UNCHANGED terminal
    BY Zenon DEF ReadChunk
  <2>2. [bytes |-> bytes, chunks |-> handoff.chunks + 1].bytes = bytes
    OBVIOUS
  <2>3. \/ Flush(p, bytes) /\ handoff' = NoChunks
        \/ handoff'.bytes = bytes /\ UNCHANGED terminal
    BY <2>1, <2>2, Zenon
  <2> HIDE DEF n, bytes
  <2> QED BY <2>3 DEF ReadChunk, process, n
<1>2. /\ c \in Seq(Bytes) /\ rest \in Seq(Bytes)
      /\ Cat(c, rest) = Cat(pending[p], channel[p])
  <2>1. n \in 0..Len(Received(p))
    BY ChunkFacts
  <2> HIDE DEF n
  <2>2. c \in Seq(Bytes) /\ rest \in Seq(Bytes) /\ c \o rest = Received(p)
    BY <2>1, ChunkFacts
  <2> QED BY <2>2, Zenon DEF Cat, Received
<1>3. bytes = Cat(handoff.bytes, c)
  BY DEF Cat
<1> HIDE DEF n, c, rest, bytes
<1>4. CASE q # p
  <2>1. q # reading /\ q # reading'
    BY <1>1, <1>4, ConstantsAssumption
  <2>2. Held(q)' = Held(q)
    BY <2>1 DEF Held
  <2>3. pending'[q] = pending[q] /\ channel'[q] = channel[q]
    BY <1>0, <1>1, <1>4 DEF PaneTypes
  <2>4. shown'[q] = shown[q]
    BY <1>0, <1>1, <1>4 DEF PaneTypes, Flush, terminal
  <2> QED BY <1>0, <1>1, <2>2, <2>3, <2>4, SamePane
<1>5. CASE q = p
  <2>1. pending'[q] = rest /\ channel'[q] = <<>>
    BY <1>0, <1>1, <1>5 DEF PaneTypes
  <2>2. Held(q) = handoff.bytes
    BY <1>1, <1>5, ConstantsAssumption DEF Held, HandoffInv, NoChunks
  <2>3. OnItsWay(q)' = Cat(Held(q)', Cat(rest, tty[q]))
    <3>1. Cat(rest, <<>>) = rest
      BY <1>2, CatEmpty, Zenon
    <3> QED BY <1>1, <2>1, <3>1 DEF OnItsWay
  <2>4. OnItsWay(q) = Cat(bytes, Cat(rest, tty[q]))
    <3>1. OnItsWay(q) = Cat(handoff.bytes, Cat(Cat(c, rest), tty[q]))
      BY <1>2, <1>5, <2>2 DEF OnItsWay
    <3>2. Cat(handoff.bytes, Cat(Cat(c, rest), tty[q]))
            = Cat(Cat(handoff.bytes, c), Cat(rest, tty[q]))
      <4>1. /\ handoff.bytes \in Seq(Bytes) /\ tty[q] \in Seq(Bytes)
            /\ c \in Seq(Bytes) /\ rest \in Seq(Bytes)
        BY <1>2, BytesOf
      <4> QED BY <4>1, Regroup, SMT
    <3> QED BY <1>3, <3>1, <3>2
  <2>5. bytes \in Seq(Bytes) /\ Cat(rest, tty[q]) \in Seq(Bytes)
    <3>1. handoff.bytes \in Seq(Bytes) /\ tty[q] \in Seq(Bytes)
      BY BytesOf
    <3>2. Cat(handoff.bytes, c) \in Seq(Bytes) /\ Cat(rest, tty[q]) \in Seq(Bytes)
      BY <1>2, <3>1, CatType, Zenon
    <3> QED BY <1>3, <3>2
  <2>6. CASE Flush(p, bytes) /\ handoff' = NoChunks
    <3>1. shown'[q] = Cat(shown[q], bytes)
      BY <1>0, <1>5, <2>6 DEF Flush, PaneTypes, Cat
    <3>2. Held(q)' = <<>>
      BY <2>6, <1>1, <1>5 DEF Held, NoChunks
    <3>3. OnItsWay(q)' = Cat(rest, tty[q])
      BY <2>3, <2>5, <3>2, CatEmpty, SMT
    <3>4. Cat(Cat(shown[q], bytes), Cat(rest, tty[q])) = Cat(shown[q], Cat(bytes, Cat(rest, tty[q])))
      BY <2>5, BytesOf, CatAssociative, SMT
    <3> QED BY <1>0, <1>1, <2>4, <3>1, <3>3, <3>4 DEF AccountedFor
  <2>7. CASE handoff'.bytes = bytes /\ UNCHANGED terminal
    <3>1. Held(q)' = bytes /\ shown' = shown
      BY <1>1, <1>5, <2>7 DEF Held, terminal
    <3>2. OnItsWay(q)' = OnItsWay(q)
      BY <2>3, <2>4, <3>1
    <3> QED BY <1>0, <1>1, <3>1, <3>2 DEF AccountedFor
  <2> QED BY <1>1, <2>6, <2>7
<1> QED BY <1>4, <1>5

\* When a pane has no more, the handoff goes to the terminal.
LEMMA AccountedEndRead ==
  ASSUME TypeOK, Attended, HandoffInv, Accounted, NEW p \in Panes, EndRead(p)
  PROVE  Accounted'
<1> SUFFICES ASSUME NEW q \in Panes PROVE AccountedFor(q)'
  BY DEF Accounted
<1>0. PaneTypes /\ AccountedFor(q)
  BY DEF TypeOK, Accounted
<1>1. /\ UNCHANGED <<written, tty, channel, pending>> /\ reading' = NoPane /\ handoff' = NoChunks
      /\ reading \in {NoPane, p} /\ at = "read" /\ p \in todo
      /\ shown' = [shown EXCEPT ![p] = @ \o handoff.bytes]
      /\ status' = [status EXCEPT ![p] = program[p]]
  BY DEF EndRead, process
<1>2. Held(q)' = <<>>
  BY <1>1, ConstantsAssumption DEF Held
<1>3. status'[q] # "none" => status[q] # "none"
  BY <1>0, <1>1 DEF PaneTypes, HandoffInv, Here
<1>4. CASE q # p
  <2>1. Held(q) = <<>>
    BY <1>1, <1>4, ConstantsAssumption DEF Held
  <2>2. shown'[q] = shown[q]
    BY <1>0, <1>1, <1>4 DEF PaneTypes
  <2> QED BY <1>0, <1>1, <1>2, <1>3, <2>1, <2>2, SamePane
<1>5. CASE q = p
  <2> DEFINE rest == Cat(Cat(pending[q], channel[q]), tty[q])
  <2>1. Held(q) = handoff.bytes
    BY <1>1, <1>5, ConstantsAssumption DEF Held, HandoffInv, NoChunks
  <2>2. shown'[q] = Cat(shown[q], Held(q))
    BY <1>0, <1>1, <1>5, <2>1 DEF PaneTypes, Cat
  <2>3. OnItsWay(q)' = Cat(<<>>, rest) /\ OnItsWay(q) = Cat(Held(q), rest)
    BY <1>1, <1>2, Zenon DEF OnItsWay
  <2>4. rest \in Seq(Bytes)
    <3>1. Cat(pending[q], channel[q]) \in Seq(Bytes)
      BY BytesOf, CatType, Zenon
    <3> QED BY <3>1, BytesOf, CatType, Zenon
  <2> HIDE DEF rest
  <2>5. Cat(<<>>, rest) = rest
    BY <2>4, CatEmpty, Zenon
  <2>6. Cat(Cat(shown[q], Held(q)), rest) = Cat(shown[q], Cat(Held(q), rest))
    BY <2>4, BytesOf, CatAssociative, SMT
  <2> QED BY <1>0, <1>1, <1>3, <2>2, <2>3, <2>5, <2>6 DEF AccountedFor
<1> QED BY <1>4, <1>5

\* Steps that move no byte, and find or leave the handoff empty.
LEMMA AccountedOther ==
  ASSUME TypeOK, Accounted, UNCHANGED <<written, tty, channel, pending, shown>>,
         \/ UNCHANGED <<reading, handoff>>
         \/ handoff = NoChunks /\ handoff' = NoChunks,
         \A q \in Panes : status'[q] # "none" => status[q] # "none"
  PROVE  Accounted'
<1> SUFFICES ASSUME NEW q \in Panes PROVE AccountedFor(q)'
  BY DEF Accounted
<1>1. Held(q)' = Held(q)
  BY DEF Held, NoChunks
<1> QED BY <1>1, SamePane, Zenon DEF Accounted

LEMMA AccountedStep ==
  TypeOK /\ Attended /\ HandoffInv /\ Accounted /\ [Next]_vars => Accounted'
<1> SUFFICES ASSUME TypeOK, Attended, HandoffInv, Accounted, [Next]_vars PROVE Accounted'
  OBVIOUS
<1>0. PaneTypes /\ LoopTypes
  BY DEF TypeOK
<1>1. ASSUME NEW p \in Panes, Exit(p) \/ EndOfTty(p) \/ Notify(p) PROVE Accounted'
  BY <1>1, AccountedOther DEF Exit, EndOfTty, Notify, process, host, terminal, pass
<1>2. CASE Poll \/ Discard \/ AcceptDone \/ UNCHANGED vars
  BY <1>2, AccountedOther DEF Poll, Discard, AcceptDone, process, host, terminal, pass, vars
<1>3. CASE Attach \/ Probe \/ ReadAgain \/ WaitForQuiet
  <2>1. handoff = NoChunks /\ handoff' = NoChunks
    BY <1>3, NothingHeld DEF Attach, Probe, ReadAgain, WaitForQuiet, BeginPass
  <2> QED BY <1>3, <2>1, AccountedOther DEF Attach, Probe, ReadAgain, WaitForQuiet, process,
          host, terminal
<1>4. CASE NoInput
  <2>1. handoff = NoChunks /\ handoff' = NoChunks
    BY <1>4, NothingHeld DEF NoInput, BeginPass, pass
  <2> QED BY <1>4, <2>1, AccountedOther DEF NoInput, process, host, terminal
<1>5. ASSUME NEW p \in Panes, Input(p) PROVE Accounted'
  <2>1. handoff = NoChunks /\ handoff' = NoChunks
    BY <1>5, NothingHeld DEF Input, BeginPass
  <2>2. \A q \in Panes : status'[q] # "none" => status[q] # "none"
    BY <1>0, <1>5 DEF Input, PaneTypes, Here
  <2> QED BY <1>5, <2>1, <2>2, AccountedOther DEF Input, process, terminal
<1>6. CASE EndPass
  BY <1>6, AccountedOther DEF EndPass, process, host, terminal
<1>7. ASSUME NEW p \in Panes, ClosePane(p) PROVE Accounted'
  <2>1. handoff = NoChunks /\ handoff' = NoChunks
    BY <1>7, NothingHeld DEF ClosePane
  <2> QED BY <1>7, <2>1, AccountedOther DEF ClosePane, host, terminal
<1>8. CASE JoinPump
  <2> SUFFICES ASSUME NEW q \in Panes PROVE AccountedFor(q)'
    BY DEF Accounted
  <2>1. CASE q = reading
    BY <1>0, <1>8, <2>1 DEF JoinPump, AccountedFor, PaneTypes
  <2>2. CASE q # reading
    <3>1. /\ UNCHANGED <<written, tty, shown>> /\ channel'[q] = channel[q]
          /\ pending'[q] = pending[q] /\ status'[q] = status[q]
      BY <1>0, <1>8, <2>2 DEF JoinPump, PaneTypes
    <3>2. handoff = NoChunks /\ handoff' = NoChunks
      BY <1>8, NothingHeld DEF JoinPump
    <3>3. Held(q)' = Held(q)
      BY <3>2 DEF Held, NoChunks
    <3> QED BY <3>1, <3>3, SamePane DEF Accounted
  <2> QED BY <2>1, <2>2
<1>9. ASSUME NEW p \in Panes, OpenPane(p) PROVE Accounted'
  <2> SUFFICES ASSUME NEW q \in Panes PROVE AccountedFor(q)'
    BY DEF Accounted
  <2>0. UNCHANGED <<tty, channel, pending>> /\ Held(q)' = Held(q) /\ handoff = NoChunks
    BY <1>9, NothingHeld DEF OpenPane, Held, pass
  <2>1. CASE q = p
    <3>1. tty[q] = <<>> /\ channel[q] = <<>> /\ pending[q] = <<>> /\ Held(q) = <<>>
      BY <1>9, <2>0, <2>1, NotHeld DEF OpenPane, Attended
    <3>2. shown'[q] = <<>> /\ written'[q] = <<>>
      BY <1>0, <1>9, <2>1 DEF OpenPane, PaneTypes
    <3>3. Cat(<<>>, <<>>) = <<>>
      BY EmptySeq, CatEmpty, Zenon
    <3> QED BY <2>0, <3>1, <3>2, <3>3, Zenon DEF AccountedFor, OnItsWay
  <2>2. CASE q # p
    <3>1. shown'[q] = shown[q] /\ written'[q] = written[q] /\ status'[q] = status[q]
      BY <1>0, <1>9, <2>2 DEF OpenPane, PaneTypes
    <3> QED BY <2>0, <3>1, SamePane DEF Accounted
  <2> QED BY <2>1, <2>2
<1>10. LoopStep => Accounted'
  BY <1>2, <1>3, <1>4, <1>5, <1>6, <1>7, <1>8, <1>9, AccountedReadChunk, AccountedEndRead, Zenon
  DEF LoopStep
<1> QED
  BY <1>1, <1>2, <1>10, AccountedWrite, AccountedReadTty, Zenon DEF Next, PumpStep
-----------------------------------------------------------------------------
(* OutputPump implements OutputStream *)

WayTyped == TypeOK => \A p \in Panes : OnItsWay(p) \in Seq(Bytes)

LEMMA WayTypedAlways == WayTyped /\ WayTyped'
<1>1. WayTyped
  BY BytesOf, Zenon DEF WayTyped
<1> QED BY <1>1, PTL

LEMMA ShowsPrefix ==
  ASSUME TypeOK, TypeOK', NEW p \in Panes, AccountedFor(p)', status'[p] # "none",
         NEW more \in Seq(Bytes), shown' = [shown EXCEPT ![p] = @ \o more],
         written' = written
  PROVE  Stream!Show(p)
<1>0. shown \in [Panes -> Seq(Bytes)] /\ written[p] \in Seq(Bytes) /\ shown[p] \in Seq(Bytes)
  BY DEF TypeOK, PaneTypes
<1>1. /\ shown'[p] = shown[p] \o more /\ shown'[p] \in Seq(Bytes)
      /\ OnItsWay(p)' \in Seq(Bytes)
  <2>1. OnItsWay(p)' \in Seq(Bytes)
    BY WayTypedAlways DEF WayTyped
  <2>2. shown[p] \o more \in Seq(Bytes)
    BY <1>0, ConcatProperties, Zenon
  <2> QED BY <1>0, <2>1, <2>2
<1> DEFINE s == shown'[p]
           r == OnItsWay(p)'
           w == written[p]
<1>2. s \o r = w /\ s \in Seq(Bytes) /\ r \in Seq(Bytes)
  BY <1>1, Zenon DEF AccountedFor, Cat
<1> HIDE DEF s, r, w
<1>3. Len(s) \in 0..Len(written[p]) /\ s = SubSeq(written[p], 1, Len(s))
  <2>1. Len(s) \in 0..Len(w) /\ s = SubSeq(w, 1, Len(s))
    BY <1>2, PrefixIs
  <2> QED BY <2>1 DEF w
<1>4. Len(shown[p]) \in Nat /\ Len(more) \in Nat /\ Len(s) = Len(shown[p]) + Len(more)
  <2>1. Len(shown[p] \o more) = Len(shown[p]) + Len(more)
    BY <1>0, ConcatProperties, Zenon
  <2>2. Len(shown[p]) \in Nat /\ Len(more) \in Nat
    BY <1>0, LenProperties, Zenon
  <2> QED BY <1>1, <2>1, <2>2, Zenon DEF s
<1>5. Len(s) \in Len(shown[p])..Len(written[p])
  <2>1. Len(written[p]) \in Nat
    BY <1>0, LenProperties
  <2> QED BY <1>3, <1>4, <2>1
<1>6. shown' = [shown EXCEPT ![p] = s]
  BY <1>0, <1>1, Zenon DEF s
<1>7. shown' = [shown EXCEPT ![p] = SubSeq(written[p], 1, Len(s))]
  BY <1>3, <1>6, Zenon
<1> QED BY <1>5, <1>7, Zenon DEF Stream!Show

LEMMA StepImplements ==
  ASSUME TypeOK, TypeOK', Attended, HandoffInv, Accounted', [Next]_vars
  PROVE  Stream!Next \/ UNCHANGED Stream!vars
<1> USE DEF Stream!vars
<1>0. PaneTypes
  BY DEF TypeOK
<1>1. ASSUME NEW p \in Panes, Write(p) PROVE Stream!Next
  <2>1. UNCHANGED shown /\ \E b \in Bytes : written' = [written EXCEPT ![p] = Append(@, b)]
    BY <1>1 DEF Write, terminal
  <2> QED BY <2>1, Zenon DEF Stream!Next, Stream!Write
<1>2. ASSUME NEW p \in Panes, OpenPane(p) PROVE Stream!Next
  BY <1>2, Zenon DEF OpenPane, Stream!Next, Stream!Renew
<1>3. ASSUME NEW p \in Panes, ReadChunk(p) PROVE Stream!Next \/ UNCHANGED Stream!vars
  <2> DEFINE n     == Lesser(HandoffBytes, Len(Received(p)))
             bytes == handoff.bytes \o SubSeq(Received(p), 1, n)
  <2>1. written' = written /\ status' = status /\ (Flush(p, bytes) \/ UNCHANGED terminal)
    BY <1>3, Zenon DEF ReadChunk, process
  <2>2. bytes \in Seq(Bytes)
    <3>1. handoff.bytes \in Seq(Bytes) /\ SubSeq(Received(p), 1, n) \in Seq(Bytes)
      BY BytesOf, ChunkFacts
    <3> QED BY <3>1, ConcatProperties, Zenon
  <2> HIDE DEF n, bytes
  <2>3. CASE Flush(p, bytes)
    <3>1. status'[p] # "none" /\ AccountedFor(p)'
      BY <1>3, <2>1 DEF ReadChunk, HandoffInv, Here, Accounted
    <3>2. Stream!Show(p)
      BY <2>1, <2>2, <2>3, <3>1, ShowsPrefix DEF Flush
    <3> QED BY <3>2, Zenon DEF Stream!Next
  <2> QED BY <2>1, <2>3 DEF terminal
<1>4. ASSUME NEW p \in Panes, EndRead(p) PROVE Stream!Next
  <2>1. written' = written /\ shown' = [shown EXCEPT ![p] = @ \o handoff.bytes]
    BY <1>4 DEF EndRead, process
  <2>2. status'[p] # "none" /\ AccountedFor(p)'
    BY <1>0, <1>4 DEF EndRead, HandoffInv, Here, Accounted, Attended, PaneTypes
  <2>3. handoff.bytes \in Seq(Bytes)
    BY BytesOf
  <2>4. Stream!Show(p)
    BY <2>1, <2>2, <2>3, ShowsPrefix
  <2> QED BY <2>4, Zenon DEF Stream!Next
<1>5. (Poll \/ Attach \/ Discard \/ Probe \/ JoinPump \/ AcceptDone \/ NoInput \/ ReadAgain
        \/ WaitForQuiet \/ EndPass \/ UNCHANGED vars) => UNCHANGED <<written, shown>>
  BY DEF Poll, Attach, Discard, Probe, JoinPump, AcceptDone, NoInput, ReadAgain, WaitForQuiet,
         EndPass, vars, process, terminal
<1>6. ASSUME NEW p \in Panes,
             Exit(p) \/ EndOfTty(p) \/ Notify(p) \/ ReadTty(p) \/ ClosePane(p) \/ Input(p)
      PROVE  UNCHANGED <<written, shown>>
  BY <1>6 DEF Exit, EndOfTty, Notify, ReadTty, ClosePane, Input, process, terminal
<1>7. LoopStep => Stream!Next \/ UNCHANGED Stream!vars
  BY <1>2, <1>3, <1>4, <1>5, <1>6, Zenon DEF LoopStep
<1> QED
  BY <1>1, <1>5, <1>6, <1>7, Zenon DEF Next, PumpStep

\* What a terminal has been given is what its process wrote, in order, once and without
\* gap, through PTY, channel, pending_output and the bounded handoff (host.rs:453-466,
\* local.rs:4826-4866).
THEOREM InOrderHolds == Spec => InOrder
<1> DEFINE Inv == TypeOK /\ Attended /\ HandoffInv /\ Accounted
<1>1. Init => Inv
  BY TypeInit, AttendedInit, AccountedInit
<1>2. Inv /\ [Next]_vars => Inv'
  BY TypeStep, AttendedStep, HandoffStep, AccountedStep
<1>3. Init => Stream!Init
  BY DEF Init, Stream!Init
<1>4. Inv /\ Inv' /\ [Next]_vars => [Stream!Next]_Stream!vars
  BY StepImplements
<1> HIDE DEF Inv
<1> QED BY <1>1, <1>2, <1>3, <1>4, PTL DEF Spec, InOrder, Stream!Spec
-----------------------------------------------------------------------------
(* No wake-up is lost, but for those that are thrown away *)

LEMMA WakeInit == Init => WakeInv
<1> SUFFICES ASSUME Init, NEW p \in Panes PROVE Received(p) = <<>>
  BY DEF WakeInv, Unread
<1>1. pending[p] = <<>> /\ channel[p] = <<>>
  BY DEF Init
<1>2. <<>> \o <<>> = <<>>
  BY EmptySeq, ConcatEmptySeq
<1> QED BY <1>1, <1>2 DEF Received

\* A wake-up survives a step that neither empties the pipe nor moves the thread on.
LEMMA WakeUpStays ==
  ASSUME NEW p \in Panes, WakeUp(p),
         pipe' > 0 \/ (pipe' = pipe /\ pump'[p] = pump[p])
  PROVE  WakeUp(p)'
BY DEF WakeUp

LEMMA WakeNotify ==
  ASSUME TypeOK, WakeInv, NEW p \in Panes, Notify(p)
  PROVE  WakeInv'
<1>1. pipe' > 0
  BY ConstantsAssumption DEF Notify, Lesser, TypeOK, CounterTypes
<1> QED BY <1>1 DEF WakeInv, Owed, WakeUp

LEMMA WakeReadTty ==
  ASSUME TypeOK, WakeInv, NEW p \in Panes, ReadTty(p)
  PROVE  WakeInv'
<1> SUFFICES ASSUME NEW q \in Panes, Unread(q)' PROVE Owed(q)'
  BY DEF WakeInv
<1>1. UNCHANGED <<pipe, at, then, todo, woken, discarded, status, pending>>
      /\ pump' = [pump EXCEPT ![p] = "notifying"]
  BY DEF ReadTty, pass, round
<1>2. CASE q = p
  <2>1. WakeUp(q)'
    BY <1>1, <1>2 DEF WakeUp, TypeOK, PaneTypes
  <2> QED BY <2>1 DEF Owed
<1>3. CASE q # p
  <2>1. channel'[q] = channel[q] /\ pump'[q] = pump[q]
    BY <1>3 DEF ReadTty, TypeOK, PaneTypes
  <2>2. Unread(q)
    BY <1>1, <2>1 DEF Unread, Received, Here
  <2> QED BY <1>1, <2>1, <2>2 DEF WakeInv, Owed, WakeUp
<1> QED BY <1>2, <1>3

\* Steps that bring no pane any output.
LEMMA StillUnread ==
  ASSUME UNCHANGED <<channel, pending>>, NEW q \in Panes,
         status'[q] # "none" => status[q] # "none", Unread(q)'
  PROVE  Unread(q)
BY DEF Unread, Received, Here

LEMMA WakeProcess ==
  ASSUME TypeOK, WakeInv, NEW p \in Panes, Write(p) \/ Exit(p) \/ EndOfTty(p)
  PROVE  WakeInv'
<1> SUFFICES ASSUME NEW q \in Panes, Unread(q)' PROVE Owed(q)'
  BY DEF WakeInv
<1>1. UNCHANGED <<pipe, at, then, todo, woken, discarded, status, pending, channel>>
  BY DEF Write, Exit, EndOfTty, host, pass, round
<1>2. pump'[q] = pump[q] \/ pump[q] = "reading"
  BY DEF Write, Exit, EndOfTty, TypeOK, PaneTypes
<1>3. Unread(q)
  BY <1>1, StillUnread
<1> QED BY <1>1, <1>2, <1>3 DEF WakeInv, Owed, WakeUp

LEMMA WakePoll ==
  ASSUME TypeOK, WakeInv, Poll \/ Discard \/ AcceptDone
  PROVE  WakeInv'
<1> SUFFICES ASSUME NEW q \in Panes, Unread(q)' PROVE Owed(q)'
  BY DEF WakeInv
<1>1. UNCHANGED <<pump, status, pending, channel>>
  BY DEF Poll, Discard, AcceptDone, host
<1>2. Unread(q) /\ Owed(q)
  BY <1>1, StillUnread DEF WakeInv
<1>3. CASE Poll
  BY <1>1, <1>2, <1>3 DEF Poll, Owed, WakeUp, TypeOK, CounterTypes
<1>4. CASE Discard
  BY <1>1, <1>2, <1>4 DEF Discard, Owed, WakeUp, round
<1>5. CASE AcceptDone
  BY <1>1, <1>2, <1>5 DEF AcceptDone, Owed, WakeUp, round
<1> QED BY <1>3, <1>4, <1>5

\* A pass that begins comes to every pane there is.
LEMMA WakePass ==
  ASSUME TypeOK, WakeInv, Attach \/ Probe \/ ReadAgain \/ WaitForQuiet \/ EndPass
  PROVE  WakeInv'
<1> SUFFICES ASSUME NEW q \in Panes, Unread(q)' PROVE Owed(q)'
  BY DEF WakeInv
<1>1. UNCHANGED <<pump, status, pending, channel>>
  BY DEF Attach, Probe, ReadAgain, WaitForQuiet, EndPass, host
<1>2. Unread(q) /\ Owed(q) /\ q \in Here
  BY <1>1, StillUnread DEF WakeInv, Unread
<1>3. CASE Attach
  BY <1>1, <1>2, <1>3 DEF Attach, BeginPass, Owed, WakeUp, round
<1>4. CASE Probe \/ WaitForQuiet
  BY <1>1, <1>2, <1>4 DEF Probe, WaitForQuiet, BeginPass, Owed, WakeUp
<1>5. CASE ReadAgain
  BY <1>1, <1>2, <1>5 DEF ReadAgain, BeginPass, Owed, WakeUp
<1>6. CASE EndPass
  BY <1>1, <1>2, <1>6 DEF EndPass, Owed, WakeUp, TypeOK, LoopTypes
<1> QED BY <1>3, <1>4, <1>5, <1>6

LEMMA WakeInput ==
  ASSUME TypeOK, WakeInv, NoInput \/ \E p \in Panes : Input(p)
  PROVE  WakeInv'
<1> SUFFICES ASSUME NEW q \in Panes, Unread(q)' PROVE Owed(q)'
  BY DEF WakeInv
<1>1. UNCHANGED <<pump, pending, channel>>
  BY DEF NoInput, Input, host
<1>2. status'[q] # "none" => status[q] # "none"
  BY DEF NoInput, Input, host, TypeOK, PaneTypes, Here
<1>3. Unread(q) /\ Owed(q) /\ q \in Here
  BY <1>1, <1>2, StillUnread DEF WakeInv, Unread
<1>4. CASE \E p \in Panes : Input(p)
  BY <1>1, <1>3, <1>4 DEF Input, BeginPass, Owed
<1>5. CASE NoInput /\ woken
  BY <1>1, <1>3, <1>5 DEF NoInput, BeginPass, Owed
<1>6. CASE NoInput /\ ~woken
  BY <1>1, <1>3, <1>6 DEF NoInput, Owed, WakeUp, pass
<1> QED BY <1>4, <1>5, <1>6

LEMMA WakePanes ==
  ASSUME TypeOK, Attended, WakeInv, JoinPump \/ \E p \in Panes : OpenPane(p) \/ ClosePane(p)
  PROVE  WakeInv'
<1> SUFFICES ASSUME NEW q \in Panes, Unread(q)' PROVE Owed(q)'
  BY DEF WakeInv
<1>0. PaneTypes /\ LoopTypes
  BY DEF TypeOK
<1>1. CASE JoinPump
  <2>1. q # reading
    BY <1>0, <1>1 DEF JoinPump, Unread, Here, PaneTypes
  <2>2. UNCHANGED <<pipe, discarded, woken, then>> /\ pump'[q] = pump[q]
        /\ at = "join" /\ at' = "accept"
        /\ channel'[q] = channel[q] /\ pending'[q] = pending[q] /\ status'[q] = status[q]
    BY <1>0, <1>1, <2>1 DEF JoinPump, PaneTypes, round
  <2>3. Unread(q)
    BY <2>2 DEF Unread, Received, Here
  <2> QED BY <2>2, <2>3 DEF WakeInv, Owed, WakeUp
<1>2. ASSUME NEW p \in Panes, OpenPane(p) PROVE Owed(q)'
  <2>1. UNCHANGED <<channel, pending, pipe, at, then, todo, woken, discarded>>
    BY <1>2 DEF OpenPane, pass, round
  <2>2. q # p
    <3> SUFFICES ASSUME q = p PROVE Received(q)' = <<>>
      BY DEF Unread
    <3>1. channel[q] = <<>> /\ pending[q] = <<>>
      BY <1>2 DEF OpenPane, Attended
    <3>2. <<>> \o <<>> = <<>>
      BY EmptySeq, ConcatEmptySeq
    <3> QED BY <2>1, <3>1, <3>2 DEF Received
  <2>3. status'[q] = status[q] /\ pump'[q] = pump[q]
    BY <1>0, <1>2, <2>2 DEF OpenPane, PaneTypes
  <2>4. Unread(q)
    BY <2>1, <2>3, StillUnread
  <2> QED BY <2>1, <2>3, <2>4 DEF WakeInv, Owed, WakeUp
<1>3. ASSUME NEW p \in Panes, ClosePane(p) PROVE Owed(q)'
  <2>1. UNCHANGED <<channel, pending, status, pump, pipe, woken, discarded>>
        /\ at = "accept" /\ at' = "join"
    BY <1>3 DEF ClosePane, host, round
  <2>2. Unread(q)
    BY <2>1, StillUnread
  <2> QED BY <2>1, <2>2 DEF WakeInv, Owed, WakeUp
<1> QED BY <1>1, <1>2, <1>3

LEMMA WakeRead ==
  ASSUME TypeOK, WakeInv, NEW p \in Panes, ReadChunk(p) \/ EndRead(p)
  PROVE  WakeInv'
<1> SUFFICES ASSUME NEW q \in Panes, Unread(q)' PROVE Owed(q)'
  BY DEF WakeInv
<1>0. PaneTypes /\ LoopTypes
  BY DEF TypeOK
<1>1. CASE ReadChunk(p)
  <2>1. UNCHANGED <<pump, status, pipe, at, then, todo, woken, discarded>>
        /\ at = "read" /\ p \in todo
    BY <1>1 DEF ReadChunk, round
  <2>2. CASE q = p
    <3>1. Unread(q)
      BY <1>1, <2>1, <2>2 DEF ReadChunk, Unread, Here
    <3> QED BY <2>1, <3>1 DEF WakeInv, Owed, WakeUp
  <2>3. CASE q # p
    <3>1. channel'[q] = channel[q] /\ pending'[q] = pending[q]
      BY <1>0, <1>1, <2>3 DEF ReadChunk, PaneTypes
    <3>2. Unread(q)
      BY <2>1, <3>1 DEF Unread, Received, Here
    <3> QED BY <2>1, <3>2 DEF WakeInv, Owed, WakeUp
  <2> QED BY <2>2, <2>3
<1>2. CASE EndRead(p)
  <2>1. UNCHANGED <<pump, channel, pending, pipe, then, woken>> /\ at = "read"
        /\ Received(p) = <<>>
    BY <1>2 DEF EndRead, round
  <2>2. q # p
    BY <2>1 DEF Unread, Received
  <2>3. status'[q] = status[q]
    BY <1>0, <1>2, <2>2 DEF EndRead, PaneTypes
  <2>4. Unread(q) /\ Owed(q)
    BY <2>1, <2>3, StillUnread DEF WakeInv
  <2>5. \/ todo' = todo \ {p} /\ UNCHANGED <<at, discarded>>
        \/ Break(p)
    BY <1>2 DEF EndRead
  <2>6. CASE todo' = todo \ {p} /\ UNCHANGED <<at, discarded>>
    BY <2>1, <2>2, <2>4, <2>6 DEF Owed, WakeUp
  <2>7. CASE Break(p)
    BY <2>1, <2>4, <2>7 DEF Break, Owed, WakeUp
  <2> QED BY <2>5, <2>6, <2>7
<1> QED BY <1>1, <1>2

LEMMA WakeStep == TypeOK /\ Attended /\ WakeInv /\ [Next]_vars => WakeInv'
<1> SUFFICES ASSUME TypeOK, Attended, WakeInv, [Next]_vars PROVE WakeInv'
  OBVIOUS
<1>1. CASE UNCHANGED vars
  BY <1>1
  DEF vars, host, pass, round, WakeInv, Owed, WakeUp, Unread, Received, Here
<1>2. LoopStep => WakeInv'
  BY WakePoll, WakePass, WakeInput, WakePanes, WakeRead, Zenon DEF LoopStep
<1> QED BY <1>1, <1>2, WakeNotify, WakeReadTty, WakeProcess, Zenon DEF Next, PumpStep

\* While the loop waits, output it has not read has a wake-up in the pipe or on its way,
\* unless one was discarded: the pipe is emptied before the channels are read, and a
\* full pipe swallows only wake-ups that change nothing (host.rs:632-648,
\* local.rs:987-999).
THEOREM WakeUpPendingHolds == Spec => []WakeUpPending
<1> DEFINE Inv == TypeOK /\ Attended /\ HandoffInv /\ WakeInv
<1>1. Init => Inv
  BY TypeInit, AttendedInit, WakeInit
<1>2. Inv /\ [Next]_vars => Inv'
  BY TypeStep, AttendedStep, HandoffStep, WakeStep
<1>3. Inv => WakeUpPending
  BY DEF WakeInv, Owed, WakeUpPending
<1> HIDE DEF Inv
<1> QED BY <1>1, <1>2, <1>3, PTL DEF Spec
=============================================================================
