------------------------------ MODULE LiveClient ------------------------------
(***************************************************************************)
(* run_live (bin/nmux.rs): the client that stays attached.  It reads       *)
(* frames and keys in one loop, keeps a cache of surfaces and what it      *)
(* shows of them, guesses echoes (SpeculativeEcho), pages through          *)
(* scrollback, changes focus on its own and switches tabs through a        *)
(* connection of its own.                                                  *)
(*                                                                         *)
(* The daemon is what the client can tell of it: panes with surfaces and   *)
(* processes that answer keys, the handlers of the frames a client sends   *)
(* (local.rs), and the other clients that switch and close tabs.  Which    *)
(* versions are written is SurfaceDelivery's subject: here a pane is       *)
(* written whenever its surface is newer, as a patch if by one version.    *)
(* A tab is the set of its panes.                                          *)
(***************************************************************************)
EXTENDS SpeculativeEcho, SequencesExt

CONSTANTS
  Tabs,        \* tabs, disjoint sets of panes
  NoSurface,   \* no cached surface
  NoText,      \* no text for a pane
  NoView,      \* a pane shows its surface
  NoFetch,     \* no scrollback asked for
  ViewRows,    \* visible_rows of a pane, and the lines an attach asks for
  FirstLines,  \* lines of scrollback at the start
  Scenarios    \* bounds: the tabs at the start and how often each thing happens

Counted == {"changes", "erased", "keys", "scrolls", "pings", "resizes", "moves", "others"}

\* Frames each way, and what the client keeps.
Tree == {t \in [pane : Panes, panes : Tabs, tabs : SUBSET Tabs] : t.pane \in t.panes}
ClientFrame ==
  [kind : {"fetch"}, pane : Panes, start : Nat, count : Nat, known : Nat]
  \cup [kind : {"key"}, pane : Panes, char : Chars]
  \cup [kind : {"resize"}, pane : Panes] \cup [kind : {"ping"}]
DaemonFrame ==
  Update \cup [kind : {"tree"}, tree : Tree] \cup [kind : {"pong", "stale", "error"}]
  \cup [kind : {"chunk"}, pane : Panes, start : Nat, lines : Nat, total : Nat, version : Nat]
Text == [kind : {"live", "guess", "view", "blank"}, pane : Panes, at : Nat]
View == [start : Nat, lines : Nat, total : Nat]
KnownRange == [pane : Panes, start : Nat, lines : Nat, version : Nat]
Fetch == [phase : {"probe", "range", "apply"}, pane : Panes, start : Nat, count : Nat,
          retried : BOOLEAN, lines : Nat, total : Nat, version : Nat]

ASSUME ConstantsAssumption ==
  /\ Panes = UNION Tabs /\ {} \notin Tabs
  /\ \A s, t \in Tabs : s # t => s \cap t = {}
  /\ NoGuess \notin Guess /\ NoSurface \notin Surface /\ NoText \notin Text
  /\ NoView \notin View /\ NoFetch \notin Fetch
  /\ ViewRows \in Nat \ {0}
  /\ FirstLines \in Nat
  /\ Scenarios \subseteq [tabs : (SUBSET Tabs) \ {{}}, bound : [Counted -> Nat]]

VARIABLES
  \* the daemon
  tabs,       \* open tabs
  opened,     \* history: tabs that were ever open
  active,     \* the active tab
  due,        \* changed_workspace: the client is to be told of the tree
  surface,    \* of each pane
  changed,    \* what its last update changed: rows, or more than a patch can say
  history,    \* its scrollback: version and number of lines
  typed,      \* keys its process has not answered yet
  written,    \* the version last written to the client
  \* the connection
  sent,       \* frames on their way to the daemon
  wire,       \* frames on their way to the client
  \* the client
  at,         \* "attach", "resize", "settle", "loop", "ended"
  outcome,    \* why it has ended
  attached,   \* attached_pane_id
  tree,       \* current_workspace: its pane_id, the active tab's panes, and the tabs
  cache,      \* client_state.surfaces
  text,       \* current_pane_surfaces
  shown,      \* current_surface_text
  views,      \* scrollback_views
  overlay,    \* speculative_echo
  known,      \* client_state.scrollbacks: the version of each range
  fetch,      \* the scrollback request that is waited for or applied
  pending,    \* updates that came instead of its answer
  ping,       \* a ping is unanswered
  \* histories and bounds
  marks,      \* what has happened that a screen need not recover from
  left        \* what the scenario still has

session == <<tabs, opened, active, due>>
content == <<surface, changed, history, typed>>
daemon == <<session, content, written>>
phase == <<at, outcome>>
screen == <<cache, text, shown, views, overlay>>
scrolling == <<known, fetch, pending>>
client == <<phase, attached, tree, screen, scrolling, ping>>
vars == <<daemon, sent, wire, client, marks, left>>
-----------------------------------------------------------------------------
FirstPane(t) == CHOOSE p \in t : TRUE
Up == UNION tabs

Live(p, v) == [kind |-> "live", pane |-> p, at |-> v]
Guessed(p, v) == [kind |-> "guess", pane |-> p, at |-> v]
History(p, n) == [kind |-> "view", pane |-> p, at |-> n]
NotCached(p) == [kind |-> "blank", pane |-> p, at |-> 0]

TreeOf(t, ts) == [pane |-> FirstPane(t), panes |-> t, tabs |-> ts]
Blank == [version |-> 1, main |-> TRUE, row |-> 1, col |-> 0, rows |-> [r \in Rows |-> <<>>]]

FetchFrame(p, start, count, version) ==
  [kind |-> "fetch", pane |-> p, start |-> start, count |-> count, known |-> version]
\* A request for `count' lines, whose first is to be found out by a probe or given.
Request(p, how, start) ==
  [phase |-> how, pane |-> p, start |-> start, count |-> ViewRows, retried |-> FALSE,
   lines |-> 0, total |-> 0, version |-> 0]

Count(c) == left[c] > 0 /\ left' = [left EXCEPT ![c] = @ - 1]

\* A client that was sent the attached pane's surface, knew those of the other panes from
\* an earlier attach, and asks for the attached pane's scrollback.
Init ==
  /\ \E s \in Scenarios : tabs = s.tabs /\ left = s.bound
  /\ opened = tabs /\ active \in tabs /\ due = FALSE
  /\ surface = [p \in Panes |-> Blank]
  /\ changed = [p \in Panes |-> [full |-> TRUE, dirty |-> {}]]
  /\ history = [p \in Panes |-> [version |-> 1, lines |-> FirstLines]]
  /\ typed = [p \in Panes |-> <<>>]
  /\ attached = FirstPane(active) /\ tree = TreeOf(active, tabs)
  /\ written = [p \in Panes |-> IF p \in Up THEN 1 ELSE 0]
  /\ cache = [p \in Panes |-> IF p \in Up THEN Blank ELSE NoSurface]
  /\ text = [p \in Panes |-> IF p \in active THEN Live(p, 1) ELSE NoText]
  /\ shown = Live(attached, 1) /\ views = [p \in Panes |-> NoView]
  /\ overlay = NoOverlay /\ at = "attach" /\ outcome = "none" /\ ping = FALSE
  /\ known = {} /\ pending = <<>> /\ fetch = Request(attached, "range", 1)
  /\ sent = <<FetchFrame(attached, 1, ViewRows, 0)>> /\ wire = <<>>
  /\ marks = {} 
-----------------------------------------------------------------------------
(* Processes and their surfaces *)

Padded(row, n) == [i \in 1..n |-> IF i <= Len(row) THEN row[i] ELSE Space]
Put(s, c) == [s EXCEPT !.rows[s.row] = Append(Padded(@, s.col), c), !.col = @ + 1]
Wipe(s) == [s EXCEPT !.rows[s.row] = <<>>]
Home(s) == [s EXCEPT !.col = 0]
Other(s) == [s EXCEPT !.main = ~@, !.rows = Blank.rows, !.row = 1, !.col = 0]
NewLine(s) ==
  IF s.row < Height THEN [s EXCEPT !.row = @ + 1, !.col = 0]
  ELSE [s EXCEPT !.rows = [r \in Rows |-> IF r < Height THEN s.rows[r + 1] ELSE <<>>], !.col = 0]
Wraps(s) == s.col = Cols
Echo(s, c) == Put(IF Wraps(s) THEN NewLine(s) ELSE s, c)

\* apply_terminal_update: the next version, and a line of scrollback if one left the top
\* of the main screen.
Show(p, s, full, line) ==
  /\ Count("changes")
  /\ surface' = [surface EXCEPT ![p] = [s EXCEPT !.version = surface[p].version + 1]]
  /\ changed' = [changed EXCEPT ![p] =
       [full |-> full, dirty |-> {r \in Rows : s.rows[r] # surface[p].rows[r]}]]
  /\ history' = IF ~line \/ surface[p].row < Height \/ ~surface[p].main THEN history
                ELSE [history EXCEPT ![p] = [version |-> @.version + 1, lines |-> @.lines + 1]]

\* Output nobody typed for.
Output(p) ==
  /\ p \in Up
  /\ LET s == surface[p]
     IN  \/ \E c \in Chars \cup {Space} : Show(p, Echo(s, c), FALSE, Wraps(s))
         \/ Show(p, NewLine(s), FALSE, TRUE)
         \/ \E t \in {Home(s), Wipe(s), s} : Show(p, t, FALSE, FALSE)
         \/ Show(p, Other(s), TRUE, FALSE)
  /\ UNCHANGED <<session, typed, written, sent, wire, client, marks>>

\* The scrollback is erased, which the surface does not show.
Erase(p) ==
  /\ p \in Up /\ history[p].lines > 0 /\ Count("erased")
  /\ history' = [history EXCEPT ![p] = [version |-> @.version + 1, lines |-> 0]]
  /\ UNCHANGED <<session, surface, changed, typed, written, sent, wire, client, marks>>

\* A key is echoed, or taken without a sign, as passwords are.
Answer(p) ==
  /\ p \in Up /\ typed[p] # <<>>
  /\ typed' = [typed EXCEPT ![p] = Tail(@)]
  /\ \/ /\ Show(p, Echo(surface[p], Head(typed[p])), FALSE, Wraps(surface[p]))
        /\ UNCHANGED marks
     \/ marks' = marks \cup {"swallowed"} /\ UNCHANGED <<surface, changed, history, left>>
  /\ UNCHANGED <<session, written, sent, wire, client>>
-----------------------------------------------------------------------------
(* The daemon *)

\* An error frame is the last the client is sent.
HungUp == \E f \in ToSet(wire) : f.kind = "error"
Write(f) == ~HungUp /\ wire' = Append(wire, f)

\* The frame drain_live_client_frames reads next.
Received(kind) == sent # <<>> /\ Head(sent).kind = kind /\ sent' = Tail(sent) /\ ~HungUp

ServePing ==
  /\ Received("ping") /\ Write([kind |-> "pong"])
  /\ UNCHANGED <<daemon, client, marks, left>>

ServeClosedPane ==
  /\ \E kind \in {"key", "fetch", "resize"} : Received(kind)
  /\ Head(sent).pane \notin Up /\ Write([kind |-> "error"])
  /\ UNCHANGED <<daemon, client, marks, left>>

ServeKey ==
  /\ Received("key") /\ Head(sent).pane \in Up
  /\ typed' = [typed EXCEPT ![Head(sent).pane] = Append(@, Head(sent).char)]
  /\ UNCHANGED <<session, surface, changed, history, written, wire, client, marks, left>>

\* Mutant: nothing is said of a stale request.
ServeFetch_Silent ==
  /\ Received("fetch")
  /\ LET f == Head(sent)
         h == history[f.pane]
     IN  /\ f.pane \in Up
         /\ IF f.known \notin {0, h.version} THEN UNCHANGED wire
            ELSE Write([kind |-> "chunk", pane |-> f.pane, start |-> f.start,
                        lines |-> Cardinality({n \in f.start..h.lines : n < f.start + f.count}),
                        total |-> h.lines, version |-> h.version])
  /\ UNCHANGED <<daemon, client, marks, left>>

\* A request that knows another version than the pane's is stale, one that knows none
\* or the same is answered with the lines there are.
ServeFetch ==
  /\ Received("fetch")
  /\ LET f == Head(sent)
         h == history[f.pane]
     IN  /\ f.pane \in Up
         /\ IF f.known \notin {0, h.version} THEN Write([kind |-> "stale"])
            ELSE Write([kind |-> "chunk", pane |-> f.pane, start |-> f.start,
                        lines |-> Cardinality({n \in f.start..h.lines : n < f.start + f.count}),
                        total |-> h.lines, version |-> h.version])
  /\ UNCHANGED <<daemon, client, marks, left>>

\* A size that is no other changes nothing; another one changes the surface, and every
\* client is told of the tree.
ServeResize ==
  /\ Received("resize") /\ Head(sent).pane \in Up
  /\ \/ UNCHANGED <<due, surface, changed, history, left>>
     \/ due' = TRUE /\ Show(Head(sent).pane, surface[Head(sent).pane], TRUE, FALSE)
  /\ UNCHANGED <<tabs, opened, active, typed, written, wire, client, marks>>

\* Mutant: a patch is sent although versions were left out.
WriteSurface_OverGap(p) ==
  /\ p \in Up /\ written[p] < surface[p].version
  /\ written' = [written EXCEPT ![p] = surface[p].version]
  /\ LET full == written[p] = 0 \/ changed[p].full
     IN  Write([kind |-> "update", pane |-> p, full |-> full,
                base |-> IF full THEN 0 ELSE surface[p].version - 1,
                dirty |-> IF full THEN Rows ELSE changed[p].dirty, surface |-> surface[p]])
  /\ UNCHANGED <<session, content, sent, client, marks, left>>

\* A patch if the client has the version before, and what changed can be patched.
WriteSurface(p) ==
  /\ p \in Up /\ written[p] < surface[p].version
  /\ written' = [written EXCEPT ![p] = surface[p].version]
  /\ LET full == written[p] + 1 # surface[p].version \/ changed[p].full
     IN  Write([kind |-> "update", pane |-> p, full |-> full,
                base |-> IF full THEN 0 ELSE written[p],
                dirty |-> IF full THEN Rows ELSE changed[p].dirty, surface |-> surface[p]])
  /\ UNCHANGED <<session, content, sent, client, marks, left>>

WriteTree ==
  /\ due /\ due' = FALSE /\ Write([kind |-> "tree", tree |-> TreeOf(active, tabs)])
  /\ UNCHANGED <<tabs, opened, active, content, written, sent, client, marks, left>>

\* Another client resizes a pane, or switches or closes a tab.  The commands tell the
\* attached clients nothing.
OtherResize(p) ==
  /\ p \in active /\ Count("others") /\ due' = TRUE
  /\ surface' = [surface EXCEPT ![p].version = @ + 1]
  /\ changed' = [changed EXCEPT ![p] = [full |-> TRUE, dirty |-> {}]]
  /\ UNCHANGED <<tabs, opened, active, history, typed, written, sent, wire, client, marks>>

OtherSwitch(t) ==
  /\ t \in tabs /\ t # active /\ Count("others") /\ active' = t
  /\ UNCHANGED <<tabs, opened, due, content, written, sent, wire, client, marks>>

OtherClose(t) ==
  /\ t \in tabs /\ tabs # {t} /\ Count("others") /\ tabs' = tabs \ {t}
  /\ IF t = active THEN active' \in tabs' ELSE UNCHANGED active
  /\ UNCHANGED <<opened, due, content, written, sent, wire, client, marks>>
-----------------------------------------------------------------------------
(* The client: frames *)

Send(f) == sent' = Append(sent, f)
Got(kind) == wire # <<>> /\ Head(wire).kind = kind /\ wire' = Tail(wire)
End(reason) == at' = "ended" /\ outcome' = reason

Waiting == fetch # NoFetch /\ fetch.phase \in {"probe", "range"}
Reading == at \in {"resize", "loop"} /\ fetch = NoFetch

\* apply_update: a patch has the rows that changed.
Fits(u) == u.full \/ (cache[u.pane] # NoSurface /\ cache[u.pane].version = u.base)
Patched(u) ==
  IF u.full THEN u.surface
  ELSE [u.surface EXCEPT !.rows =
          [r \in Rows |-> IF r \in u.dirty THEN u.surface.rows[r] ELSE cache[u.pane].rows[r]]]

\* Mutant: the pane stays paged to its scrollback.
Apply_KeepsView(u) ==
  /\ overlay' = Reconciled(overlay, u)
  /\ IF Fits(u)
     THEN /\ cache' = [cache EXCEPT ![u.pane] = Patched(u)]
          /\ text' = [text EXCEPT ![u.pane] = Live(u.pane, u.surface.version)]
          /\ shown' = IF text'[tree.pane] = NoText \/ (at = "resize" /\ u.pane # tree.pane)
                      THEN shown ELSE text'[tree.pane]
          /\ UNCHANGED <<views, phase>>
     ELSE End("rejected") /\ UNCHANGED <<cache, text, shown, views>>

\* process_surface_update: the guess is reconciled first, the cache takes what fits, the
\* pane leaves its scrollback, and the screen shows the active pane.  The loop of the
\* first resize leaves the screen alone when the update is another pane's.
Apply(u) ==
  /\ overlay' = Reconciled(overlay, u)
  /\ IF Fits(u)
     THEN /\ cache' = [cache EXCEPT ![u.pane] = Patched(u)]
          /\ text' = [text EXCEPT ![u.pane] = Live(u.pane, u.surface.version)]
          /\ views' = [views EXCEPT ![u.pane] = NoView]
          /\ shown' = IF text'[tree.pane] = NoText \/ (at = "resize" /\ u.pane # tree.pane)
                      THEN shown ELSE text'[tree.pane]
          /\ UNCHANGED phase
     ELSE End("rejected") /\ UNCHANGED <<cache, text, shown, views>>

ReadUpdate ==
  /\ Reading /\ Got("update") /\ Apply(Head(wire))
  /\ marks' = IF pending = <<>> THEN marks ELSE marks \cup {"overtaken"}
  /\ UNCHANGED <<daemon, sent, attached, tree, scrolling, ping, left>>

\* preserve_live_client_focus: the client's own focus is kept when the tree that comes
\* shows its pane.
ReadTree ==
  /\ Reading /\ Got("tree")
  /\ LET t == Head(wire).tree
         kept == attached \in t.panes
     IN  /\ tree' = [t EXCEPT !.pane = IF kept THEN attached ELSE @]
         /\ marks' = IF kept THEN marks ELSE marks \cup {"strayed"}
  /\ UNCHANGED <<daemon, sent, phase, attached, screen, scrolling, ping, left>>

ReadPong ==
  /\ Reading /\ Got("pong") /\ ping' = FALSE
  /\ UNCHANGED <<daemon, sent, phase, attached, tree, screen, scrolling, marks, left>>

ReadError ==
  /\ Reading \/ Waiting
  /\ Got("error") /\ End("error")
  /\ UNCHANGED <<daemon, sent, attached, tree, screen, scrolling, ping, marks, left>>

\* The first resize loop ends when nothing comes for a while.
EndResize ==
  /\ at = "resize" /\ at' = "settle"
  /\ UNCHANGED <<daemon, sent, wire, outcome, attached, tree, screen, scrolling, ping, marks,
                 left>>

\* The updates that came instead of a chunk are applied: an attach's after the first
\* resize, a scroll's before the chunk.
ApplyPending ==
  /\ at = "settle" \/ (fetch # NoFetch /\ fetch.phase = "apply")
  /\ pending # <<>> /\ pending' = Tail(pending) /\ Apply(Head(pending))
  /\ UNCHANGED <<daemon, sent, wire, attached, tree, known, fetch, ping, marks, left>>

Settle ==
  /\ at = "settle" /\ pending = <<>> /\ at' = "loop"
  /\ UNCHANGED <<daemon, sent, wire, outcome, attached, tree, screen, scrolling, ping, marks,
                 left>>
-----------------------------------------------------------------------------
(* The client: scrollback *)

\* Mutant: updates are dropped.
DeferUpdate_Dropped ==
  /\ Waiting /\ Got("update")
  /\ UNCHANGED <<daemon, sent, client, marks, left>>

\* read_scrollback_response_from_stream: updates are kept for later, trees are dropped,
\* a pong is a frame nobody expects.
DeferUpdate ==
  /\ Waiting /\ Got("update") /\ pending' = Append(pending, Head(wire))
  /\ UNCHANGED <<daemon, sent, phase, attached, tree, screen, known, fetch, ping, marks, left>>

DropTree ==
  /\ Waiting /\ Got("tree")
  /\ UNCHANGED <<daemon, sent, client, marks, left>>

RefusePong ==
  /\ Waiting /\ Got("pong") /\ End("unexpected")
  /\ UNCHANGED <<daemon, sent, attached, tree, screen, scrolling, ping, marks, left>>

KnownVersion(p, start, count) ==
  LET same == {k \in known : k.pane = p /\ k.start = start /\ k.lines = count}
  IN  IF same = {} THEN 0 ELSE (CHOOSE k \in same : TRUE).version

\* cache_scrollback_chunk
Cached(c) ==
  IF c.lines = 0 THEN known
  ELSE {k \in known : <<k.pane, k.start, k.lines>> # <<c.pane, c.start, c.lines>>}
         \cup {[pane |-> c.pane, start |-> c.start, lines |-> c.lines, version |-> c.version]}

\* A stale range is asked for once more, by a client that claims to know nothing.
RetryStale ==
  /\ Waiting /\ Got("stale")
  /\ IF fetch.retried THEN End("error") /\ UNCHANGED <<sent, fetch>>
     ELSE /\ fetch' = [fetch EXCEPT !.retried = TRUE]
          /\ Send(FetchFrame(fetch.pane, fetch.start, fetch.count, 0))
          /\ UNCHANGED phase
  /\ UNCHANGED <<daemon, attached, tree, screen, known, pending, ping, marks, left>>

FirstOfTail(total, count) == IF total > count THEN total - count + 1 ELSE 1

\* The probe's answer has the number of lines, of which the last are asked for.
TakeProbe ==
  /\ Waiting /\ fetch.phase = "probe" /\ Got("chunk")
  /\ LET start == FirstOfTail(Head(wire).total, fetch.count)
     IN  /\ fetch' = [fetch EXCEPT !.phase = "range", !.start = start, !.retried = FALSE]
         /\ Send(FetchFrame(fetch.pane, start, fetch.count,
                            KnownVersion(fetch.pane, start, fetch.count)))
  /\ UNCHANGED <<daemon, phase, attached, tree, screen, known, pending, ping, marks, left>>

TakeRange ==
  /\ Waiting /\ at = "loop" /\ fetch.phase = "range" /\ Got("chunk")
  /\ LET c == Head(wire)
     IN  fetch' = [fetch EXCEPT !.phase = "apply", !.start = c.start, !.lines = c.lines,
                                !.total = c.total, !.version = c.version]
  /\ UNCHANGED <<daemon, sent, phase, attached, tree, screen, known, pending, ping, marks,
                 left>>

\* The scrollback of an attach.  A client on a terminal then sends its size.
EndAttach ==
  /\ at = "attach" /\ Got("chunk")
  /\ known' = Cached(Head(wire)) /\ fetch' = NoFetch
  /\ \/ at' = "resize" /\ Send([kind |-> "resize", pane |-> attached])
     \/ at' = "settle" /\ UNCHANGED sent
  /\ UNCHANGED <<daemon, outcome, attached, tree, screen, pending, ping, marks, left>>

\* Mutant: the lines are asked for before the probe is answered.
AskTail_Pipelined(p) ==
  /\ fetch' = Request(p, "range", 1)
  /\ sent' = sent \o <<FetchFrame(p, 1, 1, 0), FetchFrame(p, 1, ViewRows, 0)>>

\* fetch_scrollback_chunk_with_selection_and_pending_live
AskTail(p) == fetch' = Request(p, "probe", 1) /\ Send(FetchFrame(p, 1, 1, 0))
AskFrom(p, start) ==
  /\ fetch' = Request(p, "range", start)
  /\ Send(FetchFrame(p, start, ViewRows, KnownVersion(p, start, ViewRows)))

Idle == at = "loop" /\ fetch = NoFetch

ScrollUp(p) ==
  /\ Idle /\ p \in tree.panes /\ Count("scrolls")
  /\ IF views[p] = NoView THEN AskTail(p)
     ELSE views[p].start > 1 /\ AskFrom(p, views[p].start - 1)
  /\ UNCHANGED <<daemon, wire, phase, attached, tree, screen, known, pending, ping, marks>>

AtEnd(v) == v.start >= FirstOfTail(v.total, v.lines)

ScrollDown(p) ==
  /\ Idle /\ p \in tree.panes /\ views[p] # NoView /\ ~AtEnd(views[p]) /\ Count("scrolls")
  /\ AskFrom(p, views[p].start + 1)
  /\ UNCHANGED <<daemon, wire, phase, attached, tree, screen, known, pending, ping, marks>>

\* What a pane shows when it shows its surface.
SurfaceText(p) == IF cache[p] = NoSurface THEN NotCached(p) ELSE Live(p, cache[p].version)

\* restore_live_pane_surface
ScrollBack(p) ==
  /\ Idle /\ p \in tree.panes /\ views[p] # NoView /\ AtEnd(views[p]) /\ Count("scrolls")
  /\ views' = [views EXCEPT ![p] = NoView]
  /\ text' = [text EXCEPT ![p] = SurfaceText(p)]
  /\ shown' = IF p = tree.pane THEN SurfaceText(p) ELSE shown
  /\ UNCHANGED <<daemon, sent, wire, phase, attached, tree, cache, overlay, scrolling, ping,
                 marks>>

\* The end of scroll_live_pane_view.
ShowLines ==
  /\ fetch # NoFetch /\ fetch.phase = "apply" /\ pending = <<>>
  /\ fetch' = NoFetch /\ known' = Cached(fetch)
  /\ IF fetch.lines = 0 THEN UNCHANGED <<text, shown, views>>
     ELSE LET p == fetch.pane
              view == History(p, fetch.start)
          IN  /\ views' = [views EXCEPT ![p] = [start |-> fetch.start, lines |-> fetch.lines,
                                                total |-> fetch.total]]
              /\ text' = [text EXCEPT ![p] = view]
              /\ shown' = IF p = tree.pane THEN view ELSE shown
  /\ UNCHANGED <<daemon, sent, wire, phase, attached, tree, cache, overlay, pending, ping,
                 marks, left>>
-----------------------------------------------------------------------------
(* The client: keys, focus and tabs *)

\* repaint_speculative_echo, on the surface that is cached for the attached pane.
Key(c) ==
  /\ Idle /\ Count("keys") /\ Send([kind |-> "key", pane |-> attached, char |-> c])
  /\ LET s == cache[attached]
         o == IF s = NoSurface THEN overlay ELSE Predicted(overlay, attached, s, c)
     IN  /\ overlay' = o
         /\ shown' = IF o.guess = overlay.guess THEN shown ELSE Guessed(attached, s.version)
  /\ UNCHANGED <<daemon, wire, phase, attached, tree, cache, text, views, scrolling, ping,
                 marks>>

\* switch_live_surface_to_workspace_pane
ShowPane(p) ==
  /\ text' = [text EXCEPT ![p] = SurfaceText(p)] /\ shown' = SurfaceText(p)
  /\ views' = [views EXCEPT ![p] = NoView]

\* focus_live_client_pane
Focus(p) ==
  /\ Idle /\ p \in tree.panes /\ p # attached /\ Count("moves")
  /\ attached' = p /\ tree' = [tree EXCEPT !.pane = p] /\ ShowPane(p)
  /\ UNCHANGED <<daemon, sent, wire, phase, cache, overlay, scrolling, ping, marks>>

\* run_live_tab_switch_menu_command and run_live_new_tab_menu_command: on a connection of
\* its own, so that its answer passes the frames that are on their way.
SwitchTab(t) ==
  /\ Idle /\ t \in tree.tabs \cup (Tabs \ opened) /\ Count("moves")
  /\ IF t \in opened \ tabs
     THEN End("error") /\ UNCHANGED <<session, attached, tree, text, shown, views>>
     ELSE /\ active' = t /\ tabs' = tabs \cup {t} /\ opened' = opened \cup {t}
          /\ tree' = TreeOf(t, tabs') /\ attached' = FirstPane(t) /\ ShowPane(FirstPane(t))
          /\ UNCHANGED <<due, phase>>
  /\ UNCHANGED <<content, written, sent, wire, cache, overlay, scrolling, ping, marks>>

SendPing ==
  /\ Idle /\ ~ping /\ ping' = TRUE /\ Count("pings") /\ Send([kind |-> "ping"])
  /\ UNCHANGED <<daemon, wire, phase, attached, tree, screen, scrolling, marks>>

SendResize ==
  /\ Idle /\ Count("resizes") /\ Send([kind |-> "resize", pane |-> attached])
  /\ UNCHANGED <<daemon, wire, client, marks>>

-----------------------------------------------------------------------------
Serve == ServePing \/ ServeClosedPane \/ ServeKey \/ ServeFetch \/ ServeResize
Answered == DeferUpdate \/ DropTree \/ RefusePong \/ RetryStale \/ TakeProbe \/ TakeRange
            \/ EndAttach
Read == ReadUpdate \/ ReadTree \/ ReadPong \/ ReadError \/ Answered
Finish == ApplyPending \/ Settle \/ ShowLines

\* What happens after the client has ended is not followed.
Next ==
  /\ at # "ended"
  /\ \/ \E p \in Panes : \/ Output(p) \/ Erase(p) \/ Answer(p) \/ WriteSurface(p)
                         \/ OtherResize(p) \/ Focus(p)
                         \/ ScrollUp(p) \/ ScrollDown(p) \/ ScrollBack(p)
     \/ \E t \in Tabs : OtherSwitch(t) \/ OtherClose(t) \/ SwitchTab(t)
     \/ \E c \in Chars : Key(c)
     \/ Serve \/ WriteTree \/ Read \/ Finish \/ EndResize
     \/ SendPing \/ SendResize

Spec == Init /\ [][Next]_vars

\* The daemon serves what it is sent; the client reads what comes and finishes what it
\* has begun, for it does both without waiting for a user.
FairSpec == Spec /\ WF_vars(Serve) /\ WF_vars(Read) /\ WF_vars(Finish)
-----------------------------------------------------------------------------
(* Properties *)

\* Every variable has its type.
TypeOK ==
  /\ tabs \subseteq opened /\ opened \subseteq Tabs /\ active \in tabs /\ due \in BOOLEAN
  /\ surface \in [Panes -> Surface] /\ written \in [Panes -> Nat]
  /\ changed \in [Panes -> [full : BOOLEAN, dirty : SUBSET Rows]]
  /\ history \in [Panes -> [version : Nat, lines : Nat]] /\ typed \in [Panes -> Seq(Chars)]
  /\ sent \in Seq(ClientFrame) /\ wire \in Seq(DaemonFrame)
  /\ at \in {"attach", "resize", "settle", "loop", "ended"}
  /\ outcome \in {"none", "rejected", "error", "unexpected"}
  /\ at = "ended" <=> outcome # "none"
  /\ attached \in Panes /\ tree \in Tree
  /\ cache \in [Panes -> Surface \cup {NoSurface}] /\ text \in [Panes -> Text \cup {NoText}]
  /\ shown \in Text /\ views \in [Panes -> View \cup {NoView}] /\ overlay \in Overlay
  /\ known \subseteq KnownRange /\ fetch \in Fetch \cup {NoFetch}
  /\ pending \in Seq(Update) /\ ping \in BOOLEAN
  /\ marks \subseteq {"swallowed", "overtaken", "strayed"} /\ left \in [Counted -> Nat]

\* What the client keeps of a pane is its cached surface or the scrollback it is paged to,
\* and what it shows is what it keeps of the active pane, or the guess that is
\* outstanding there.  (process_surface_update, scroll_live_pane_view and
\* switch_live_surface_to_workspace_pane keep four copies of a screen in step.)
TextIsTrue(p) ==
  \/ text[p] = NoText /\ views[p] = NoView
  \/ views[p] = NoView /\ text[p] = SurfaceText(p)
  \/ views[p] # NoView /\ text[p] = History(p, views[p].start)
ShowsGuess ==
  LET g == overlay.guess
  IN  g # NoGuess /\ g.pane = tree.pane /\ shown = Guessed(g.pane, g.base)
ScreenIsTrue ==
  at # "ended" =>
    /\ \A p \in Panes : TextIsTrue(p)
    /\ "strayed" \in marks \/ shown = text[tree.pane] \/ ShowsGuess

\* A guess that is outstanding can be drawn on the surface that is cached for its pane:
\* it is for that version and for the place after the last character of its row, however
\* many updates it has been rebased over.
GuessFits ==
  LET g == overlay.guess
  IN  at # "ended" /\ g # NoGuess => Placed(g, g.pane, cache[g.pane])

\* When nothing is on its way, every key was echoed and the focus has never strayed from
\* the pane that is shown, the screen shows the daemon's surface of that pane, or the
\* scrollback it is paged to, and no guess is left.
Quiet ==
  /\ Idle /\ sent = <<>> /\ wire = <<>> /\ ~due /\ marks = {}
  /\ \A p \in Up : typed[p] = <<>> /\ written[p] = surface[p].version
QuietScreen ==
  Quiet /\ tree.pane \in Up =>
    LET p == tree.pane
    IN  /\ overlay.guess = NoGuess \/ overlay.guess.pane \notin Up
        /\ cache[p] = surface[p]
        /\ shown = IF views[p] = NoView THEN SurfaceText(p) ELSE History(p, views[p].start)

\* A patch is refused only by a client that has applied a later update before one it had
\* put aside while it waited for the scrollback of the attach.
PatchesFit == outcome = "rejected" => "overtaken" \in marks

\* One request for scrollback is on its way, or one answer, while the client waits for it
\* and none otherwise, and it is about the pane the client asked for: stale answers and
\* retries never leave one too many.
Of(f) == f.kind \in {"fetch", "chunk", "stale"}
OneFetch ==
  at # "ended" /\ ~HungUp =>
    LET both == sent \o wire
        about == {i \in DOMAIN both : Of(both[i])}
    IN  /\ Cardinality(about) = IF Waiting THEN 1 ELSE 0
        /\ \A i \in about : both[i].kind # "stale" => both[i].pane = fetch.pane

\* A scroll comes to an end: the lines are shown, or the client has ended.
ScrollReturns == fetch # NoFetch ~> (fetch = NoFetch \/ at = "ended")
=============================================================================
