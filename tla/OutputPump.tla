----------------------------- MODULE OutputPump -----------------------------
(***************************************************************************)
(* How the output of a pane's process reaches its terminal: a reader       *)
(* thread per pane (LocalPtyHost::start_pane in host.rs) takes it from the *)
(* PTY, sends it over a channel and writes a byte to a pipe that all panes *)
(* share; the serve loop (local.rs) waits for the pipe, empties it, and    *)
(* hands what the channels hold to the terminals, chunk by chunk.          *)
(*                                                                         *)
(* The loop is serve_live_concurrent_n_with_session_actor, of which only   *)
(* the steps that wait for, empty or read something are kept.  A timeout   *)
(* of its poll is a poll that finds nothing.                               *)
(***************************************************************************)
EXTENDS Integers, Sequences, FiniteSets

CONSTANTS
  Panes,          \* pane ids
  RootPane,       \* the pane of the session's first tab
  NoPane,         \* no pane
  Bytes,          \* what processes write
  Queries,        \* the bytes that the terminal answers
  PumpBytes,      \* the reader thread's buffer
  HandoffBytes,   \* PANE_OUTPUT_HANDOFF_CHUNK_BYTES
  HandoffChunks,  \* PANE_OUTPUT_HANDOFF_MAX_CHUNKS
  PipeCap,        \* bytes the wake-up pipe holds
  TtyCap,         \* bytes the PTY holds before it blocks the process
  Coalesce,       \* whether input is followed by a wait for quiet: {TRUE}, {FALSE} or both
  MaxOutput,      \* bound: bytes all processes write
  MaxEvents       \* bound: attaches, probes, rounds with input, panes opened or closed

ASSUME ConstantsAssumption ==
  /\ RootPane \in Panes /\ NoPane \notin Panes
  /\ Queries \subseteq Bytes /\ Coalesce \subseteq BOOLEAN /\ Coalesce # {}
  /\ PumpBytes \in Nat \ {0} /\ HandoffBytes \in Nat \ {0} /\ HandoffChunks \in Nat \ {0}
  /\ PipeCap \in Nat \ {0} /\ TtyCap \in Nat \ {0} /\ MaxOutput \in Nat /\ MaxEvents \in Nat

VARIABLES
  program,    \* the process of each pane: "none", "running", "exited"
  written,    \* history: what it has written
  tty,        \* of that, what the PTY holds
  pump,       \* the reader thread: "none", "reading", "notifying", "closing", "ended"
  channel,    \* what it has sent and the loop has not received
  pipe,       \* bytes in the wake-up pipe
  status,     \* what the host believes of the process: "none", "running", "exited"
  pending,    \* pending_output: received and not yet read
  shown,      \* what the terminal has been given
  asked,      \* whether the terminal has an answer for the process
  at,         \* where the loop is
  then,       \* what follows its pass over the panes
  todo,       \* panes the pass has still to read
  reading,    \* the pane that is being read
  handoff,    \* PaneOutputHandoff: its bytes and the number of its chunks
  woken,      \* readiness.host_output of the iteration
  had_input,  \* had_input of the iteration
  discarded,  \* history: a wake-up was thrown away and no pass has followed
  spent       \* counters of the bounds

process == <<program, written, tty>>
host == <<channel, status, pending>>
terminal == <<shown, asked>>
pass == <<then, todo, reading, handoff>>
round == <<woken, had_input>>
vars == <<process, pump, host, pipe, terminal, at, pass, round, discarded, spent>>
-----------------------------------------------------------------------------
Here == {p \in Panes : status[p] # "none"}
NoChunks == [bytes |-> <<>>, chunks |-> 0]
Lesser(m, n) == IF m < n THEN m ELSE n
From(s, n) == SubSeq(s, n, Len(s))
Asks(s) == \E i \in 1..Len(s) : s[i] \in Queries

Init ==
  /\ program = [p \in Panes |-> IF p = RootPane THEN "running" ELSE "none"]
  /\ pump = [p \in Panes |-> IF p = RootPane THEN "reading" ELSE "none"]
  /\ status = program
  /\ written = [p \in Panes |-> <<>>] /\ tty = written
  /\ channel = written /\ pending = written /\ shown = written
  /\ asked = [p \in Panes |-> FALSE] /\ pipe = 0
  /\ at = "poll" /\ then = "poll" /\ todo = {} /\ reading = NoPane /\ handoff = NoChunks
  /\ woken = FALSE /\ had_input = FALSE /\ discarded = FALSE
  /\ spent = [output |-> 0, events |-> 0]
-----------------------------------------------------------------------------
(* The process and its reader thread *)

Write(p) ==
  /\ program[p] = "running" /\ Len(tty[p]) < TtyCap /\ spent.output < MaxOutput
  /\ \E b \in Bytes : /\ written' = [written EXCEPT ![p] = Append(@, b)]
                      /\ tty' = [tty EXCEPT ![p] = Append(@, b)]
  /\ spent' = [spent EXCEPT !.output = @ + 1]
  /\ UNCHANGED <<program, pump, host, pipe, terminal, at, pass, round, discarded>>

Exit(p) ==
  /\ program[p] = "running"
  /\ program' = [program EXCEPT ![p] = "exited"]
  /\ UNCHANGED <<written, tty, pump, host, pipe, terminal, at, pass, round, discarded, spent>>

\* Mutant: the channel is bounded, as mpsc::sync_channel would be.
ReadTty_Bounded(p) ==
  /\ pump[p] = "reading" /\ tty[p] # <<>> /\ channel[p] = <<>>
  /\ \E n \in 1..Lesser(PumpBytes, Len(tty[p])) :
       /\ channel' = [channel EXCEPT ![p] = @ \o SubSeq(tty[p], 1, n)]
       /\ tty' = [tty EXCEPT ![p] = From(@, n + 1)]
  /\ pump' = [pump EXCEPT ![p] = "notifying"]
  /\ UNCHANGED <<program, written, status, pending, pipe, terminal, at, pass, round, discarded,
                 spent>>

\* What is read is sent at once, over a channel without bound; the receiver takes all
\* there is, so chunks need not be told apart.
ReadTty(p) ==
  /\ pump[p] = "reading" /\ tty[p] # <<>>
  /\ \E n \in 1..Lesser(PumpBytes, Len(tty[p])) :
       /\ channel' = [channel EXCEPT ![p] = @ \o SubSeq(tty[p], 1, n)]
       /\ tty' = [tty EXCEPT ![p] = From(@, n + 1)]
  /\ pump' = [pump EXCEPT ![p] = "notifying"]
  /\ UNCHANGED <<program, written, status, pending, pipe, terminal, at, pass, round, discarded,
                 spent>>

\* End of file, or the error a PTY reports in its place, after what it still held.
EndOfTty(p) ==
  /\ pump[p] = "reading" /\ tty[p] = <<>> /\ program[p] = "exited"
  /\ pump' = [pump EXCEPT ![p] = "closing"]
  /\ UNCHANGED <<process, host, pipe, terminal, at, pass, round, discarded, spent>>

\* Mutant: only the end of the output wakes the loop.
Notify_OnlyAtEnd(p) ==
  /\ pump[p] \in {"notifying", "closing"}
  /\ pipe' = IF pump[p] = "closing" THEN Lesser(pipe + 1, PipeCap) ELSE pipe
  /\ pump' = [pump EXCEPT ![p] = IF @ = "closing" THEN "ended" ELSE "reading"]
  /\ UNCHANGED <<process, host, terminal, at, pass, round, discarded, spent>>

\* NotifyPipeWriter::notify: a full pipe is left as it is.
Notify(p) ==
  /\ pump[p] \in {"notifying", "closing"}
  /\ pipe' = Lesser(pipe + 1, PipeCap)
  /\ pump' = [pump EXCEPT ![p] = IF @ = "closing" THEN "ended" ELSE "reading"]
  /\ UNCHANGED <<process, host, terminal, at, pass, round, discarded, spent>>
-----------------------------------------------------------------------------
(* The loop: waiting, accepting, input *)

\* A pass over all panes, after which the loop goes on with `next`.
BeginPass(next) ==
  /\ at' = "read" /\ then' = next /\ todo' = Here
  /\ reading' = NoPane /\ handoff' = NoChunks

\* Mutant: what woke the loop is not remembered.
Poll_Forgets ==
  /\ at = "poll"
  /\ woken' = FALSE /\ had_input' = FALSE /\ pipe' = 0
  /\ at' = "accept"
  /\ UNCHANGED <<process, pump, host, terminal, pass, discarded, spent>>

\* poll_live_concurrent_sources, and drain_notify_fd if the pipe was readable.
Poll ==
  /\ at = "poll"
  /\ woken' = (pipe > 0) /\ had_input' = FALSE /\ pipe' = 0
  /\ at' = "accept"
  /\ UNCHANGED <<process, pump, host, terminal, pass, discarded, spent>>

\* accept_live_client_with_session_actor: the panes are read until they are quiet, and
\* then the pipe is emptied.
Attach ==
  /\ at = "accept" /\ spent.events < MaxEvents
  /\ BeginPass("discard")
  /\ spent' = [spent EXCEPT !.events = @ + 1]
  /\ UNCHANGED <<process, pump, host, pipe, terminal, round, discarded>>

Discard ==
  /\ at = "discard"
  /\ pipe' = 0 /\ at' = "accept"
  /\ discarded' = (discarded \/ pipe > 0)
  /\ UNCHANGED <<process, pump, host, terminal, pass, round, spent>>

\* serve_health_probe_with_session_actor: the pipe first.
Probe ==
  /\ at = "accept" /\ spent.events < MaxEvents
  /\ pipe' = 0 /\ BeginPass("accept")
  /\ spent' = [spent EXCEPT !.events = @ + 1]
  /\ UNCHANGED <<process, pump, host, terminal, round, discarded>>

\* start_pane, for a tab or a split.
OpenPane(p) ==
  /\ at = "accept" /\ spent.events < MaxEvents /\ status[p] = "none"
  /\ program' = [program EXCEPT ![p] = "running"]
  /\ status' = [status EXCEPT ![p] = "running"]
  /\ pump' = [pump EXCEPT ![p] = "reading"]
  /\ written' = [written EXCEPT ![p] = <<>>] /\ shown' = [shown EXCEPT ![p] = <<>>]
  /\ spent' = [spent EXCEPT !.events = @ + 1]
  /\ UNCHANGED <<tty, channel, pending, pipe, asked, at, pass, round, discarded>>

\* stop_pane: the process is killed, and the reader thread waited for.
ClosePane(p) ==
  /\ at = "accept" /\ spent.events < MaxEvents /\ status[p] # "none" /\ Here # {p}
  /\ program' = [program EXCEPT ![p] = "exited"]
  /\ reading' = p /\ at' = "join"
  /\ spent' = [spent EXCEPT !.events = @ + 1]
  /\ UNCHANGED <<written, tty, pump, host, pipe, terminal, then, todo, handoff, round, discarded>>

JoinPump ==
  /\ at = "join" /\ pump[reading] = "ended"
  /\ program' = [program EXCEPT ![reading] = "none"]
  /\ status' = [status EXCEPT ![reading] = "none"]
  /\ pump' = [pump EXCEPT ![reading] = "none"]
  /\ channel' = [channel EXCEPT ![reading] = <<>>]
  /\ pending' = [pending EXCEPT ![reading] = <<>>]
  /\ asked' = [asked EXCEPT ![reading] = FALSE]
  /\ reading' = NoPane /\ at' = "accept"
  /\ UNCHANGED <<written, tty, pipe, shown, then, todo, handoff, round, discarded, spent>>

AcceptDone ==
  /\ at = "accept" /\ at' = "input"
  /\ UNCHANGED <<process, pump, host, pipe, terminal, pass, round, discarded, spent>>

\* Frames with input were drained; writing to p notices that its process exited.  If
\* nothing had woken the loop, it waits once more for the first answer.
Input(p) ==
  /\ at = "input" /\ spent.events < MaxEvents /\ p \in Here
  /\ status' = [status EXCEPT ![p] = program[p]]
  /\ had_input' = TRUE /\ woken' = FALSE
  /\ pipe' = IF woken THEN pipe ELSE 0
  /\ BeginPass("poll")
  /\ spent' = [spent EXCEPT !.events = @ + 1]
  /\ UNCHANGED <<process, pump, channel, pending, terminal, discarded>>

NoInput ==
  /\ at = "input"
  /\ IF woken THEN BeginPass("poll") ELSE at' = "poll" /\ UNCHANGED pass
  /\ woken' = FALSE
  /\ UNCHANGED <<process, pump, host, pipe, terminal, had_input, discarded, spent>>
-----------------------------------------------------------------------------
(* The loop: poll_pane_output_with_session_actor for every pane *)

Received(p) == pending[p] \o channel[p]

\* The handoff becomes an event of the actor, which applies it at once.
Flush(p, bytes) ==
  /\ shown' = [shown EXCEPT ![p] = @ \o bytes]
  /\ asked' = [asked EXCEPT ![p] = @ \/ Asks(bytes)]

\* Mutant: the handoff is flushed after one chunk too many.
ReadChunk_FlushesLate(p) ==
  /\ at = "read" /\ p \in todo /\ reading \in {NoPane, p} /\ Received(p) # <<>>
  /\ LET n == Lesser(HandoffBytes, Len(Received(p)))
         bytes == handoff.bytes \o SubSeq(Received(p), 1, n)
     IN  /\ pending' = [pending EXCEPT ![p] = From(Received(p), n + 1)]
         /\ IF handoff.chunks + 1 > HandoffChunks
            THEN Flush(p, bytes) /\ handoff' = NoChunks
            ELSE /\ handoff' = [bytes |-> bytes, chunks |-> handoff.chunks + 1]
                 /\ UNCHANGED terminal
  /\ channel' = [channel EXCEPT ![p] = <<>>]
  /\ reading' = p
  /\ UNCHANGED <<process, pump, status, pipe, at, then, todo, round, discarded, spent>>

\* try_read_output returns a chunk; a full handoff is flushed before the next one.
ReadChunk(p) ==
  /\ at = "read" /\ p \in todo /\ reading \in {NoPane, p} /\ Received(p) # <<>>
  /\ LET n == Lesser(HandoffBytes, Len(Received(p)))
         bytes == handoff.bytes \o SubSeq(Received(p), 1, n)
     IN  /\ pending' = [pending EXCEPT ![p] = From(Received(p), n + 1)]
         /\ IF handoff.chunks + 1 >= HandoffChunks
            THEN Flush(p, bytes) /\ handoff' = NoChunks
            ELSE /\ handoff' = [bytes |-> bytes, chunks |-> handoff.chunks + 1]
                 /\ UNCHANGED terminal
  /\ channel' = [channel EXCEPT ![p] = <<>>]
  /\ reading' = p
  /\ UNCHANGED <<process, pump, status, pipe, at, then, todo, round, discarded, spent>>

\* An answer cannot be written: the client that attaches or probes is told, or the
\* serve loop ends.  The panes after p are not read.
Break(p) ==
  /\ at' = IF then \in {"discard", "accept"} THEN "accept" ELSE "ended"
  /\ todo' = {}
  /\ discarded' = (discarded \/ then = "accept")

\* Mutant: what was flushed stays in the handoff, which the next pane fills further.
EndRead_KeepsHandoff(p) ==
  /\ at = "read" /\ p \in todo /\ reading \in {NoPane, p} /\ Received(p) = <<>>
  /\ status' = [status EXCEPT ![p] = program[p]]
  /\ shown' = [shown EXCEPT ![p] = @ \o handoff.bytes]
  /\ asked' = [asked EXCEPT ![p] = FALSE]
  /\ reading' = NoPane /\ handoff' = handoff
  /\ IF (asked[p] \/ Asks(handoff.bytes)) /\ program[p] = "exited" THEN Break(p)
     ELSE todo' = todo \ {p} /\ UNCHANGED <<at, discarded>>
  /\ UNCHANGED <<process, pump, channel, pending, pipe, then, round, spent>>

\* try_read_output returns nothing: an exit is noticed, the rest is flushed, and what
\* the terminal answers is written to the process.
EndRead(p) ==
  /\ at = "read" /\ p \in todo /\ reading \in {NoPane, p} /\ Received(p) = <<>>
  /\ status' = [status EXCEPT ![p] = program[p]]
  /\ shown' = [shown EXCEPT ![p] = @ \o handoff.bytes]
  /\ asked' = [asked EXCEPT ![p] = FALSE]
  /\ reading' = NoPane /\ handoff' = NoChunks
  /\ IF (asked[p] \/ Asks(handoff.bytes)) /\ program[p] = "exited" THEN Break(p)
     ELSE todo' = todo \ {p} /\ UNCHANGED <<at, discarded>>
  /\ UNCHANGED <<process, pump, channel, pending, pipe, then, round, spent>>

\* A wait for quiet reads again; the one that follows input empties the pipe first.
ReadAgain ==
  /\ at = "read" /\ todo = {} /\ then \in {"discard", "accept", "quiet"}
  /\ BeginPass(then)
  /\ pipe' = IF then = "quiet" THEN 0 ELSE pipe
  /\ discarded' = FALSE
  /\ UNCHANGED <<process, pump, host, terminal, round, spent>>

WaitForQuiet ==
  /\ at = "read" /\ todo = {} /\ then = "poll" /\ had_input /\ TRUE \in Coalesce
  /\ BeginPass("quiet") /\ pipe' = 0
  /\ discarded' = FALSE
  /\ UNCHANGED <<process, pump, host, terminal, round, spent>>

\* The panes were quiet, or the deadline of the wait has passed.
EndPass ==
  /\ at = "read" /\ todo = {} /\ ~(then = "poll" /\ had_input /\ Coalesce = {TRUE})
  /\ at' = IF then = "quiet" THEN "poll" ELSE then
  /\ then' = "poll" /\ had_input' = FALSE
  /\ discarded' = FALSE
  /\ UNCHANGED <<process, pump, host, pipe, terminal, todo, reading, handoff, woken, spent>>
-----------------------------------------------------------------------------
PumpStep(p) == ReadTty(p) \/ EndOfTty(p) \/ Notify(p)

LoopStep ==
  \/ Poll \/ Attach \/ Discard \/ Probe \/ JoinPump \/ AcceptDone \/ NoInput
  \/ ReadAgain \/ WaitForQuiet \/ EndPass
  \/ \E p \in Panes : OpenPane(p) \/ ClosePane(p) \/ Input(p) \/ ReadChunk(p) \/ EndRead(p)

Next == LoopStep \/ \E p \in Panes : Write(p) \/ Exit(p) \/ PumpStep(p)

Spec == Init /\ [][Next]_vars

\* Threads are scheduled, the loop's polls have timeouts, its waits for quiet deadlines.
FairSpec ==
  Spec /\ WF_vars(LoopStep) /\ SF_vars(EndPass) /\ \A p \in Panes : WF_vars(PumpStep(p))
-----------------------------------------------------------------------------
(* Properties *)

PaneTypes ==
  /\ program \in [Panes -> {"none", "running", "exited"}]
  /\ status \in [Panes -> {"none", "running", "exited"}]
  /\ pump \in [Panes -> {"none", "reading", "notifying", "closing", "ended"}]
  /\ written \in [Panes -> Seq(Bytes)] /\ tty \in [Panes -> Seq(Bytes)]
  /\ channel \in [Panes -> Seq(Bytes)]
  /\ pending \in [Panes -> Seq(Bytes)] /\ shown \in [Panes -> Seq(Bytes)]
  /\ asked \in [Panes -> BOOLEAN]
LoopTypes ==
  /\ at \in {"poll", "accept", "discard", "join", "input", "read", "ended"}
  /\ then \in {"poll", "discard", "accept", "quiet"}
  /\ todo \subseteq Panes /\ reading \in Panes \cup {NoPane}
  /\ at = "join" => reading \in Panes
  /\ woken \in BOOLEAN /\ had_input \in BOOLEAN /\ discarded \in BOOLEAN
HandoffType == handoff \in [bytes : Seq(Bytes), chunks : 0..(HandoffChunks - 1)]
CounterTypes == pipe \in 0..PipeCap /\ spent \in [output : Nat, events : Nat]

TypeOK == PaneTypes /\ LoopTypes /\ HandoffType /\ CounterTypes

\* What a terminal has been given is what its process wrote, in order and without gap
\* or repetition, through the PTY, the channel, pending_output and the
\* bounded handoff (host.rs:453-466, local.rs:4826-4866); the abstract specification.
Stream == INSTANCE OutputStream
InOrder == Stream!Spec

Unread(p) == p \in Here /\ Received(p) # <<>>
WakeUp(p) == pipe > 0 \/ pump[p] = "notifying"

\* While the loop waits, output it has not read has a wake-up in the pipe or on its
\* way, although the pipe is emptied before the channels are and a full pipe swallows
\* wake-ups (host.rs:632-648, local.rs:987-999) - unless one was discarded.
WakeUpPending == at = "poll" /\ ~discarded => \A p \in Panes : Unread(p) => WakeUp(p)

\* All output is shown in the end, without more output or input to help, unless its
\* wake-up was discarded, its pane closed or the loop ended.
ShownUnlessDiscarded ==
  \A p \in Panes :
    shown[p] # written[p] ~> shown[p] = written[p] \/ discarded \/ p \notin Here \/ at = "ended"

\* Closing a pane ends: the thread that is waited for is never waiting for the loop,
\* which has stopped reading (stop_pane, host.rs:724-775).
CloseReturns == at = "join" ~> at # "join"

\* All output is shown in the end: readiness alone drives delivery, so that no idle
\* poll is needed (docs/adr/0037-event-driven-host-output-wakeups.md:28-32).
AllShown ==
  \A p \in Panes :
    shown[p] # written[p] ~> shown[p] = written[p] \/ p \notin Here \/ at = "ended"
=============================================================================
