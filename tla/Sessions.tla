------------------------------ MODULE Sessions ------------------------------
(***************************************************************************)
(* The daemon's sessions: the registry of session actors, the control      *)
(* commands that change their workspace trees, and the processes a host    *)
(* runs for their panes.                                                   *)
(*                                                                         *)
(* A command is one connection and is served to its end before the next,   *)
(* so each is one action: the host call, the events the actor accepts, the *)
(* roll back and the answer.  What interleaves with commands is the world: *)
(* processes exit, and starting or stopping one may fail half way through a*)
(* command.                                                                *)
(*                                                                         *)
(* The daemon runs in one of two modes.  In "registry" mode it serves any  *)
(* session of its registry, one connection at a time; in "live" mode it    *)
(* serves the default session only, whatever session a command names.      *)
(*                                                                         *)
(* The host knows a pane as "session:pane"; the names of sessions hold no  *)
(* colon here, so that name stands for the pair.  No client names a tab    *)
(* "split-...": the first pane of such a tab could have the name a later   *)
(* split gives its container, which the code does not check.               *)
(***************************************************************************)
EXTENDS SessionTree, FiniteSets

CONSTANTS
  SessionIds,   \* names of sessions a client may use
  Default,      \* the session the daemon starts with
  NoName,       \* a command that names no session, tab or pane
  TabNames,     \* names a client may give a new tab
  Modes,        \* the ways of serving considered, of {"registry", "live"}
  Sizes,        \* sizes a client's viewport may ask for
  MaxVersion,   \* bound: the versions of all trees together stop here
  MaxMishaps    \* bound: exits, failed starts and failed stops in a behaviour

ASSUME DefaultAssumption == Default \in SessionIds /\ NoName \notin SessionIds
ASSUME ModesAssumption == Modes \subseteq {"registry", "live"}
ASSUME SizesAssumption == Sizes \subseteq Nat
ASSUME TabNamesAssumption ==
  \A name \in TabNames :
    /\ Len(name) \in Nat \ {0}
    /\ name = [i \in 1..Len(name) |-> name[i]]
    /\ name[1] # "split"
ASSUME BoundsAssumption == MaxVersion \in Nat /\ MaxMishaps \in Nat

VARIABLES
  mode,        \* how this daemon serves
  registry,    \* session id -> workspace tree, for every session actor
  replicas,    \* session id -> what replaying the actor's trace gives
  processes,   \* <<session, pane>> -> what the host believes of the process
  daemon,      \* "serving", "killed" (SessionKill) or "failed"
  reply,       \* the session the last command named, and whether it was refused
  bypassed,    \* history: sessions changed without an accepted event
  stopFailed,  \* history: sessions for which stopping a pane failed
  mishaps      \* how much of MaxMishaps is used up

vars == <<mode, registry, replicas, processes, daemon, reply, bypassed,
          stopFailed, mishaps>>

Names == SessionIds \cup {NoName}

-----------------------------------------------------------------------------
(* The process host.  "running": as far as the host knows; "gone": exited,  *)
(* and the host has not looked yet; "exited": reaped.                       *)

Key(s, p) == <<s, p>>
Hosted(s) == {k[2] : k \in {k \in DOMAIN processes : k[1] = s}}

Without(procs, keys) == [k \in DOMAIN procs \ keys |-> procs[k]]

\* start_pane refuses a pane whose process it has not seen exit.
AlreadyRunning(k) == k \in DOMAIN processes /\ processes[k] # "exited"

\* What the host knows once a command has started a pane's process and, if the
\* actor did not accept the pane, stopped it again.
StartedOrRolledBack_KeepsIt(k, accepted) == With(processes, k, "running")

StartedOrRolledBack(k, accepted) ==
  IF accepted THEN With(processes, k, "running") ELSE Without(processes, {k})

\* try_read_output and check_pane notice the exit of the process they look at.
Reaped(keys) ==
  [k \in DOMAIN processes |->
     IF k \in keys /\ processes[k] = "gone" THEN "exited" ELSE processes[k]]

\* Stopping panes in order ends at the first failure.  stop_pane forgets the
\* process before it kills it, so the one that fails is forgotten too.
StopOutcomes(keys) ==
  {[stopped |-> Len(keys), failed |-> FALSE]} \cup
  {[stopped |-> n, failed |-> TRUE] :
     n \in {n \in 1..Len(keys) : /\ processes[keys[n]] # "exited"
                                 /\ mishaps < MaxMishaps}}

StopPanes_SkipsFirst(s, leaves, outcome) ==
  /\ processes' = Without(processes,
                          {Key(s, leaves[i]) : i \in 2..outcome.stopped})
  /\ stopFailed' = IF outcome.failed THEN stopFailed \cup {s} ELSE stopFailed
  /\ mishaps' = IF outcome.failed THEN mishaps + 1 ELSE mishaps

StopPanes(s, leaves, outcome) ==
  /\ processes' = Without(processes,
                          {Key(s, leaves[i]) : i \in 1..outcome.stopped})
  /\ stopFailed' = IF outcome.failed THEN stopFailed \cup {s} ELSE stopFailed
  /\ mishaps' = IF outcome.failed THEN mishaps + 1 ELSE mishaps

-----------------------------------------------------------------------------
(* Routing and answering *)

\* Mutant: no mode looks at a name.
Served_Default(named) == Default

\* The session a command is applied to: live mode looks at no name.
Served(named) ==
  IF mode = "live" \/ named = NoName THEN Default ELSE named

\* The bound on histories; the code has none.
Versions == SumFunction([s \in DOMAIN registry |-> registry[s].version])

Routed(named) ==
  /\ daemon = "serving"
  /\ Served(named) \in DOMAIN registry
  /\ Versions < MaxVersion

Answer(named, refused) == reply' = [named |-> named, refused |-> refused]

\* An error frame, and nothing else.
Refuse(named) ==
  /\ Answer(named, TRUE)
  /\ UNCHANGED <<mode, registry, replicas, processes, daemon, bypassed,
                 stopFailed, mishaps>>

\* A refusal because the host could not start the pane's process.
RefuseStart(named) ==
  /\ mishaps < MaxMishaps
  /\ mishaps' = mishaps + 1
  /\ Answer(named, TRUE)
  /\ UNCHANGED <<mode, registry, replicas, processes, daemon, bypassed,
                 stopFailed>>

\* The actor accepts an event: the tree and the trace both have it.
Accept(s, event) ==
  /\ registry' = [registry EXCEPT ![s] = Apply(@, event)]
  /\ replicas' = [replicas EXCEPT ![s] = Apply(@, event)]

AcceptBoth_SecondDirectly(s, first, second) ==
  /\ registry' = [registry EXCEPT ![s] = Apply(Apply(@, first), second)]
  /\ replicas' = [replicas EXCEPT ![s] = Apply(@, first)]

AcceptBoth(s, first, second) ==
  /\ registry' = [registry EXCEPT ![s] = Apply(Apply(@, first), second)]
  /\ replicas' = [replicas EXCEPT ![s] = Apply(Apply(@, first), second)]

-----------------------------------------------------------------------------
(* Commands *)

UnknownSession(named) ==
  /\ daemon = "serving"
  /\ Served(named) \notin DOMAIN registry
  /\ Refuse(named)

\* Splits a pane: starts the new pane's process, then asks the actor, and
\* stops the process when the actor would not split.  A target may be any pane
\* of the session, but only leaves of the active tab can be split.
PaneSplit(named, target) ==
  LET s       == Served(named)
      session == registry[s]
      pane    == IF target = NoName THEN ActiveTab(session).active ELSE target
      new     == NextPane(session)
      event   == [kind |-> "SplitPane", pane |-> pane, new |-> new]
      split   == Apply(session, event) # session
  IN /\ Routed(named)
     /\ \/ /\ \/ target = NoName /\ ~HasActivePane(session)
              \/ pane \notin Panes(session)
              \/ AlreadyRunning(Key(s, new))
           /\ Refuse(named)
        \/ /\ target = NoName => HasActivePane(session)
           /\ pane \in Panes(session)
           /\ ~AlreadyRunning(Key(s, new))
           /\ \/ RefuseStart(named)
              \/ /\ Accept(s, event)
                 /\ processes' = StartedOrRolledBack(Key(s, new), split)
                 /\ Answer(named, ~split)
                 /\ UNCHANGED <<mode, daemon, bypassed, stopFailed, mishaps>>

\* Opens a tab and switches to it: two events.  The process is stopped again
\* when the tab could not be added.
TabNew(named, name) ==
  LET s       == Served(named)
      session == registry[s]
      tab     == IF name = NoName THEN NextTab(session) ELSE name
      pane    == FirstPaneOf(tab)
      add     == [kind |-> "AddTab", tab |-> tab, pane |-> pane]
      switch  == [kind |-> "SwitchTab", tab |-> tab]
      added   == Apply(session, add) # session
  IN /\ Routed(named)
     /\ \/ /\ \/ ~HasActivePane(session)
              \/ tab \in TabIds(session)
              \/ AlreadyRunning(Key(s, pane))
           /\ Refuse(named)
        \/ /\ HasActivePane(session)
           /\ tab \notin TabIds(session)
           /\ ~AlreadyRunning(Key(s, pane))
           /\ \/ RefuseStart(named)
              \/ /\ AcceptBoth(s, add, switch)
                 /\ processes' = StartedOrRolledBack(Key(s, pane), added)
                 /\ Answer(named, ~added)
                 /\ UNCHANGED <<mode, daemon, bypassed, stopFailed, mishaps>>

\* Closes a tab, then stops the processes of its leaves one by one.  The first
\* that cannot be stopped makes the answer an error and leaves the rest alone.
TabClose(named, name) ==
  LET s       == Served(named)
      session == registry[s]
      tab     == IF name = NoName THEN session.active ELSE name
      event   == [kind |-> "CloseTab", tab |-> tab]
  IN /\ Routed(named)
     /\ \/ /\ tab \notin TabIds(session) \/ Apply(session, event) = session
           /\ Refuse(named)
        \/ /\ tab \in TabIds(session)
           /\ Apply(session, event) # session
           /\ Accept(s, event)
           /\ LET leaves == Tab(session, tab).leaves
              IN \E outcome \in StopOutcomes([i \in DOMAIN leaves |->
                                                Key(s, leaves[i])]) :
                   /\ StopPanes(s, leaves, outcome)
                   /\ Answer(named, outcome.failed)
           /\ UNCHANGED <<mode, daemon, bypassed>>

\* Switching to the tab that is active already is a success.
TabSwitch(named, tab) ==
  LET s     == Served(named)
      event == [kind |-> "SwitchTab", tab |-> tab]
  IN /\ Routed(named)
     /\ \/ /\ tab \notin TabIds(registry[s])
           /\ Refuse(named)
        \/ /\ tab \in TabIds(registry[s])
           /\ Accept(s, event)
           /\ Answer(named, Apply(registry[s], event).active # tab)
           /\ UNCHANGED <<mode, processes, daemon, bypassed, stopFailed, mishaps>>

\* Only the registry can make sessions.  A first process that does not start
\* is an error of the serve loop, and the daemon ends.
SessionNew(named) ==
  /\ daemon = "serving"
  /\ \/ /\ mode = "live" \/ named = NoName \/ named \in DOMAIN registry
        /\ Refuse(named)
     \/ /\ mode = "registry"
        /\ named \in SessionIds \ DOMAIN registry
        /\ registry'  = With(registry, named, InitialSession)
        /\ replicas'  = With(replicas, named, InitialSession)
        /\ processes' = With(processes, Key(named, PaneNumber(1)), "running")
        /\ Answer(named, FALSE)
        /\ UNCHANGED <<mode, daemon, bypassed, stopFailed, mishaps>>
     \/ /\ mode = "registry"
        /\ named \in SessionIds \ DOMAIN registry
        /\ mishaps < MaxMishaps
        /\ mishaps' = mishaps + 1
        /\ daemon' = "failed"
        /\ Answer(NoName, FALSE)
        /\ UNCHANGED <<mode, registry, replicas, processes, bypassed, stopFailed>>

\* Acknowledges, then leaves the serve loop: whichever session was named, the
\* daemon ends, and stops the panes of the session it started with.
SessionKill(named) ==
  /\ daemon = "serving"
  /\ Served(named) \in DOMAIN registry
  /\ \/ /\ named \notin {NoName, Served(named)}
        /\ Refuse(named)
     \/ /\ named \in {NoName, Served(named)}
        /\ Accept(Served(named), [kind |-> "RequestSessionShutdown"])
        /\ LET leaves == LeafOrder(registry[Default])
           IN \E outcome \in StopOutcomes([i \in DOMAIN leaves |->
                                             Key(Default, leaves[i])]) :
                StopPanes(Default, leaves, outcome)
        /\ daemon' = "killed"
        /\ Answer(named, FALSE)
        /\ UNCHANGED <<mode, bypassed>>

-----------------------------------------------------------------------------
(* Clients that attach, probe and resize *)

\* A client attaches to a pane, to a tab or to whatever is active.  A tab that
\* is not active becomes active, in the tree and not by way of the actor.  The
\* panes it polls before answering are looked at by the host.
Attach(named, target) ==
  LET s       == Served(named)
      session == registry[s]
      isPane  == target \in Panes(session)
      isTab   == ~isPane /\ target \in TabIds(session)
      shown   == IF isTab THEN SwitchTab(session, target) ELSE session
      pane    == CASE isPane -> target
                   [] isTab -> Tab(session, target).active
                   [] OTHER -> ActiveTab(session).active
      polled  == IF mode = "live" THEN Leaves(session) ELSE {pane}
  IN /\ Routed(named)
     /\ \/ /\ \/ named \notin {NoName, s}
              \/ target = NoName /\ ~HasActivePane(session)
              \/ target # NoName /\ ~isPane /\ ~isTab
           /\ Refuse(named)
        \/ /\ named \in {NoName, s}
           /\ target = NoName => HasActivePane(session)
           /\ target # NoName => isPane \/ isTab
           /\ registry' = [registry EXCEPT ![s] = shown]
           /\ bypassed' = IF shown # session THEN bypassed \cup {s} ELSE bypassed
           /\ processes' = Reaped({Key(s, p) : p \in polled})
           /\ Answer(named, \E p \in polled : Key(s, p) \notin DOMAIN processes)
           /\ UNCHANGED <<mode, replicas, daemon, stopFailed, mishaps>>

\* A health probe polls every pane of the session and says whether the active
\* one still runs.
HealthProbe ==
  LET session == registry[Default]
      active  == Key(Default, ActiveTab(session).active)
      seen    == Reaped({Key(Default, p) : p \in Leaves(session)})
  IN /\ daemon = "serving"
     /\ processes' = seen
     /\ Answer(NoName, ~(HasActivePane(session) /\ seen[active] = "running"))
     /\ UNCHANGED <<mode, registry, replicas, daemon, bypassed, stopFailed, mishaps>>

\* A live client's viewport: the process is resized, then the pane.  A process
\* the host finds gone ends the serve loop.
Resize(p, size) ==
  /\ mode = "live"
  /\ Routed(NoName)
  /\ p \in Panes(registry[Default])
  /\ Answer(NoName, FALSE)
  /\ LET k == Key(Default, p)
     IN IF k \in DOMAIN processes /\ processes[k] = "running"
        THEN /\ Accept(Default, [kind |-> "CommitPaneResize",
                                 pane |-> p, size |-> size])
             /\ UNCHANGED <<mode, processes, daemon, bypassed, stopFailed,
                            mishaps>>
        ELSE /\ daemon' = "failed"
             /\ processes' = Reaped({k})
             /\ UNCHANGED <<mode, registry, replicas, bypassed, stopFailed,
                            mishaps>>

-----------------------------------------------------------------------------
(* The world *)

ProcessExits(k) ==
  /\ mishaps < MaxMishaps
  /\ processes[k] = "running"
  /\ processes' = [processes EXCEPT ![k] = "gone"]
  /\ mishaps' = mishaps + 1
  /\ UNCHANGED <<mode, registry, replicas, daemon, reply, bypassed, stopFailed>>

-----------------------------------------------------------------------------
Init ==
  /\ mode \in Modes
  /\ registry = [s \in {Default} |-> InitialSession]
  /\ replicas = [s \in {Default} |-> InitialSession]
  /\ processes = [k \in {Key(Default, PaneNumber(1))} |-> "running"]
  /\ daemon = "serving"
  /\ reply = [named |-> NoName, refused |-> FALSE]
  /\ bypassed = {}
  /\ stopFailed = {}
  /\ mishaps = 0

\* What a client may name: anything in the session, and something that is not.
PaneTargets(s) == Panes(s) \cup {NoName, PaneNumber(0)}
TabTargets(s) == TabIds(s) \cup {TabNumber(0)}

Next ==
  \/ \E named \in Names :
       \/ UnknownSession(named)
       \/ SessionNew(named)
       \/ SessionKill(named)
       \/ /\ Served(named) \in DOMAIN registry
          /\ LET session == registry[Served(named)]
             IN \/ \E target \in PaneTargets(session) : PaneSplit(named, target)
                \/ \E name \in TabNames \cup {NoName} : TabNew(named, name)
                \/ \E name \in TabTargets(session) \cup {NoName} :
                     TabClose(named, name)
                \/ \E tab \in TabTargets(session) : TabSwitch(named, tab)
                \/ \E target \in PaneTargets(session) \cup TabTargets(session) :
                     Attach(named, target)
  \/ HealthProbe
  \/ \E p \in Panes(registry[Default]), size \in Sizes : Resize(p, size)
  \/ \E k \in DOMAIN processes : ProcessExits(k)

Spec == Init /\ [][Next]_vars

-----------------------------------------------------------------------------
(* Properties *)

\* Every variable has its type, and every tree of the registry is well formed:
\* names and panes of tabs are distinct, the active tab exists and its active
\* pane is one of its leaves.
TypeOK ==
  /\ mode \in Modes
  /\ DOMAIN registry = DOMAIN replicas
  /\ Default \in DOMAIN registry
  /\ DOMAIN registry \subseteq SessionIds
  /\ \A s \in DOMAIN registry : TreeWellFormed(registry[s])
  /\ \A k \in DOMAIN processes :
       k[1] \in SessionIds /\ processes[k] \in {"running", "gone", "exited"}
  /\ daemon \in {"serving", "killed", "failed"}
  /\ reply \in [named : Names, refused : BOOLEAN]
  /\ bypassed \subseteq SessionIds
  /\ stopFailed \subseteq SessionIds
  /\ mishaps \in 0..MaxMishaps

\* While the daemon serves, the host knows a process for every leaf of every
\* session, and for nothing else unless stopping a pane of that session failed:
\* no roll back forgets one, no closed tab leaves one behind.
HostMatchesTree ==
  daemon = "serving" =>
    \A s \in DOMAIN registry :
      /\ Leaves(registry[s]) \subseteq Hosted(s)
      /\ s \notin stopFailed => Hosted(s) = Leaves(registry[s])

\* Replaying the events an actor accepted, refused ones included, gives the
\* tree it serves, unless a client that attached to a tab switched to it.
TraceReplays ==
  \A s \in DOMAIN registry \ bypassed : replicas[s] = registry[s]

\* The next pane a split would make can be started: its name is not held by a
\* process of a pane that is gone, unless stopping a pane failed.
NextPaneIsFree ==
  daemon = "serving" =>
    \A s \in DOMAIN registry \ stopFailed :
      ~AlreadyRunning(Key(s, NextPane(registry[s])))

\* When a kill ends the daemon, no process of the session it started with is
\* left, unless one could not be stopped.
KillStopsDefault ==
  daemon = "killed" /\ Default \notin stopFailed => Hosted(Default) = {}

\* A refused command starts no process, and in no session does it change a tab
\* or stop a process, except that a close whose stop failed has closed its tab.
Running == {k \in DOMAIN processes : processes[k] = "running"}
RefusalsChangeNothing ==
  [][reply'.refused =>
       /\ Running' \subseteq Running
       /\ \A s \in DOMAIN registry :
            \/ /\ registry'[s].tabs = registry[s].tabs
               /\ \A k \in Running : k[1] = s => k \in DOMAIN processes'
            \/ /\ s \in stopFailed'
               /\ Len(registry'[s].tabs) < Len(registry[s].tabs)]_vars

\* A tree that changes, changes its version, and a version never goes back:
\* clients tell workspaces apart by it.
VersionMovesWithTree ==
  [][\A s \in DOMAIN registry :
       /\ registry'[s].version >= registry[s].version
       /\ registry'[s] # registry[s] =>
            registry'[s].version > registry[s].version]_vars

\* "A non-empty session_id must match the daemon-owned session or the daemon
\* returns ErrorCode::SessionNotFound" (docs/protocol.md:240): behind the registry a
\* command that names one session leaves every other one as it was, whatever it was
\* refused or undone for.  (Routing by session_id, daemon.rs.  In live mode the name is
\* not compared.)
OnlyTheNamedSession ==
  [][\A s \in DOMAIN registry :
       mode # "live" /\ reply'.named \notin {NoName, s}
         => s \in DOMAIN registry' /\ registry'[s] = registry[s]]_vars
=============================================================================
