----------------------------- MODULE DaemonStartup -----------------------------
(***************************************************************************)
(* Bare `nmux': several launchers (run_default) find, replace or start the *)
(* default daemon behind one socket path, and the daemons they start bind  *)
(* that path and remove it when they end.  Nothing but the file system     *)
(* arbitrates between them.                                                *)
(*                                                                         *)
(* A daemon binds at most once, so it also names the socket it bound: path *)
(* is the daemon whose socket is found at the path, and a SocketIdentity   *)
(* is a daemon.                                                            *)
(***************************************************************************)
EXTENDS Naturals

CONSTANTS
  Launchers,    \* nmux processes without arguments
  Daemons,      \* bound: daemon processes that exist at one time
  NoSocket,     \* nothing at the socket path
  Beginnings,   \* in which states the launchers may find the path
  MaxMishaps    \* bound: crashes, failed starts, expired deadlines, exited panes

ASSUME StartupAssumption ==
  /\ Daemons # {} /\ NoSocket \notin Daemons
  /\ Beginnings \subseteq {"none", "healthy", "broken", "stale"}
  /\ MaxMishaps \in Nat \ {0}

VARIABLES
  path,       \* the socket found at the default path
  phase,      \* where each daemon process is
  abandoned,  \* daemons with a health probe whose launcher no longer listens
  pc,         \* where each launcher is in run_default
  place,      \* at which of its three places a launcher starts a daemon next
  conn,       \* the daemon a launcher is connected to
  beginning,  \* what the path was found in
  mishaps     \* mishaps so far (bound); a broken or stale beginning is one

vars == <<path, phase, abandoned, pc, place, conn, beginning, mishaps>>

Answering == {"serving", "broken"}    \* broken: its pane's process has exited
Up == Answering \cup {"bound"}
Phases == Up \cup {"down", "starting", "exiting", "owns"}
Connecting == {"probe", "kill", "attach", "live"}
Settled == {"attached", "left", "failed"}
Locations == Connecting \cup Settled \cup {"idle", "look", "check", "start", "appear", "unlink"}

TypeOK ==
  /\ path \in Daemons \cup {NoSocket}
  /\ phase \in [Daemons -> Phases]
  /\ abandoned \subseteq Daemons
  /\ pc \in [Launchers -> Locations]
  /\ place \in [Launchers -> 1..3]
  /\ conn \in [Launchers -> Daemons \cup {NoSocket}]
  /\ beginning \in Beginnings
  /\ mishaps \in 0..MaxMishaps

Init ==
  /\ beginning \in Beginnings
  /\ LET old == CHOOSE d \in Daemons : TRUE
         found == IF beginning = "healthy" THEN "serving"
                  ELSE IF beginning = "broken" THEN "broken" ELSE "down"
     IN /\ path = IF beginning = "none" THEN NoSocket ELSE old
        /\ phase = [d \in Daemons |-> IF d = old THEN found ELSE "down"]
  /\ abandoned = {}
  /\ pc = [l \in Launchers |-> "idle"]
  /\ place = [l \in Launchers |-> 1]
  /\ conn = [l \in Launchers |-> NoSocket]
  /\ mishaps = IF beginning \in {"none", "healthy"} THEN 0 ELSE 1

\* The kernel accepts connections from bind until the listener is dropped.
Listening == path # NoSocket /\ phase[path] \in Up \cup {"exiting"}

\* Daemons nothing is left of.
Free == {d \in Daemons : /\ phase[d] = "down" /\ path # d
                         /\ \A l \in Launchers : conn[l] # d}

Mishap == mishaps < MaxMishaps /\ mishaps' = mishaps + 1 /\ UNCHANGED beginning
NoMishap == UNCHANGED <<beginning, mishaps>>

-----------------------------------------------------------------------------
(* The launcher *)

Goto(l, location) == pc' = [pc EXCEPT ![l] = location]
Leave(l) == conn' = [conn EXCEPT ![l] = NoSocket]

Begin(l) ==
  /\ pc[l] = "idle" /\ Goto(l, "look")
  /\ UNCHANGED <<path, phase, abandoned, place, conn>> /\ NoMishap

\* run_default tests for the path twice, before the probe and after it.
Look(l) ==
  /\ pc[l] = "look"
  /\ Goto(l, IF path = NoSocket THEN "check" ELSE "probe")
  /\ UNCHANGED <<path, phase, abandoned, place, conn>> /\ NoMishap

Check(l) ==
  /\ pc[l] = "check"
  /\ Goto(l, IF path = NoSocket THEN "start" ELSE "live")
  /\ UNCHANGED <<path, phase, abandoned, place, conn>> /\ NoMishap

Start(l) ==
  /\ pc[l] = "start" /\ Free # {}
  /\ phase' = [phase EXCEPT ![CHOOSE d \in Free : TRUE] = "starting"]
  /\ Goto(l, "appear")
  /\ UNCHANGED <<path, abandoned, place, conn>> /\ NoMishap

\* wait_for_daemon_socket looks for a socket, which may be another daemon's.
Appear(l) ==
  /\ pc[l] = "appear" /\ path # NoSocket
  /\ Goto(l, IF place[l] = 3 THEN "live" ELSE "attach")
  /\ UNCHANGED <<path, phase, abandoned, place, conn>> /\ NoMishap

NeverAppears(l) ==
  /\ pc[l] = "appear" /\ path = NoSocket
  /\ \A d \in Daemons : phase[d] # "starting"
  /\ Goto(l, "failed")
  /\ UNCHANGED <<path, phase, abandoned, place, conn>> /\ NoMishap

Connect(l) ==
  /\ pc[l] \in Connecting /\ conn[l] = NoSocket /\ Listening
  /\ conn' = [conn EXCEPT ![l] = path]
  /\ UNCHANGED <<path, phase, abandoned, pc, place>> /\ NoMishap

\* replace_default_daemon_socket, on the way to the start at place n
Replace(l, n) == Goto(l, "kill") /\ place' = [place EXCEPT ![l] = n]

\* To go on without replacing the daemon.
Proceed(l, location) == Goto(l, location) /\ UNCHANGED place

\* Mutant: no limit on how often
LiveError_Always(l) == Replace(l, 3) \/ Proceed(l, "failed")

\* A stream that ends early or cannot be written makes run_default replace the
\* daemon, once; other errors, a reset for one, end the launcher.
LiveError(l) ==
  \/ place[l] < 3 /\ Replace(l, 3)
  \/ Proceed(l, "failed")

\* wait_for_default_daemon_attach fails.
NotAttachable(l) ==
  \/ place[l] = 1 /\ Replace(l, 2)
  \/ place[l] # 1 /\ Proceed(l, "failed")

\* The path stayed without a listener until the deadline.
Refused(l) ==
  /\ pc[l] \in Connecting /\ conn[l] = NoSocket /\ ~Listening
  /\ \/ pc[l] = "probe" /\ Replace(l, 1)
     \/ pc[l] = "kill" /\ Proceed(l, "unlink")
     \/ pc[l] = "attach" /\ NotAttachable(l)
     \/ pc[l] = "live" /\ Proceed(l, "failed")
  /\ UNCHANGED <<path, phase, abandoned, conn>> /\ NoMishap

\* The daemon went away before it answered, or while the launcher was attached.
\* Finding that out by a write is an error; a probe or an attached launcher that
\* reads the end of the stream goes on or ends as usual.
Closed(l) ==
  /\ conn[l] # NoSocket /\ phase[conn[l]] \notin Up
  /\ \/ pc[l] = "probe" /\ Replace(l, 1)
     \/ pc[l] = "probe" /\ Proceed(l, "live")
     \/ pc[l] = "kill" /\ Proceed(l, "unlink")
     \/ pc[l] = "attach" /\ Proceed(l, "attach")
     \/ pc[l] \in {"live", "attached"} /\ LiveError(l)
     \/ pc[l] = "attached" /\ Proceed(l, "left")
  /\ Leave(l)
  /\ UNCHANGED <<path, phase, abandoned>> /\ NoMishap

\* Mutant: only the socket of a daemon that is there
Unlink_IfListening(l) ==
  /\ pc[l] = "unlink"
  /\ path' = IF Listening THEN NoSocket ELSE path
  /\ Goto(l, IF place[l] = 1 THEN "check" ELSE "start")
  /\ UNCHANGED <<phase, abandoned, place, conn>> /\ NoMishap

\* fs::remove_file removes whatever is at the path by now.
Unlink(l) ==
  /\ pc[l] = "unlink"
  /\ path' = NoSocket
  /\ Goto(l, IF place[l] = 1 THEN "check" ELSE "start")
  /\ UNCHANGED <<phase, abandoned, place, conn>> /\ NoMishap

Detach(l) ==
  /\ pc[l] = "attached" /\ Goto(l, "left") /\ Leave(l)
  /\ UNCHANGED <<path, phase, abandoned, place>> /\ NoMishap

\* A deadline expires although a daemon is there to answer, or is coming up.
\* Nothing limits the wait for the reply to a kill.
Expire(l) ==
  /\ \/ /\ pc[l] = "probe" /\ conn[l] # NoSocket /\ Proceed(l, "live")
        /\ abandoned' = abandoned \cup {d \in {conn[l]} : phase[d] \in Up}
     \/ /\ \/ pc[l] = "attach" /\ Listening /\ NotAttachable(l)
           \/ pc[l] = "live" /\ conn[l] # NoSocket /\ Proceed(l, "failed")
           \/ pc[l] = "appear" /\ path = NoSocket /\ Proceed(l, "failed")
        /\ UNCHANGED abandoned
  /\ Leave(l) /\ Mishap
  /\ UNCHANGED <<path, phase>>

LauncherStep(l) ==
  \/ Look(l) \/ Check(l) \/ Start(l) \/ Appear(l) \/ NeverAppears(l)
  \/ Connect(l) \/ Refused(l) \/ Closed(l) \/ Unlink(l)

-----------------------------------------------------------------------------
(* The daemon *)

Become(d, p) == phase' = [phase EXCEPT ![d] = p]
End(d) == Become(d, "exiting") /\ abandoned' = abandoned \ {d}

\* Mutant: takes an existing path over
Bind_TakesOver(d) ==
  /\ phase[d] = "starting" /\ path' = d /\ Become(d, "bound")
  /\ UNCHANGED <<abandoned, pc, place, conn>> /\ NoMishap

\* bind_listener fails on a path that exists, and the daemon ends.  The identity
\* that SocketCleanup::new takes right after is that of the socket just bound.
Bind(d) ==
  /\ phase[d] = "starting"
  /\ \/ path = NoSocket /\ path' = d /\ Become(d, "bound")
     \/ path # NoSocket /\ UNCHANGED path /\ Become(d, "down")
  /\ UNCHANGED <<abandoned, pc, place, conn>> /\ NoMishap

StartSession(d) ==
  /\ phase[d] = "bound" /\ Become(d, "serving")
  /\ UNCHANGED <<path, abandoned, pc, place, conn>> /\ NoMishap

SessionFails(d) ==
  /\ phase[d] = "bound" /\ End(d) /\ Mishap
  /\ UNCHANGED <<path, pc, place, conn>>

\* The serve loop takes the launcher's first frame and answers it.
Serve(l) ==
  /\ conn[l] # NoSocket /\ phase[conn[l]] \in Answering
  /\ \/ /\ pc[l] = "probe" /\ phase[conn[l]] = "serving" /\ Proceed(l, "live")
        /\ Leave(l) /\ UNCHANGED <<phase, abandoned>>
     \/ /\ pc[l] = "probe" /\ phase[conn[l]] = "broken" /\ Replace(l, 1)
        /\ Leave(l) /\ UNCHANGED <<phase, abandoned>>
     \/ /\ pc[l] = "attach" /\ Proceed(l, "live")
        /\ Leave(l) /\ UNCHANGED <<phase, abandoned>>
     \/ /\ pc[l] = "live" /\ Proceed(l, "attached")
        /\ UNCHANGED <<conn, phase, abandoned>>
     \/ /\ pc[l] = "kill" /\ Proceed(l, "unlink")
        /\ Leave(l) /\ End(conn[l])
  /\ UNCHANGED path /\ NoMishap

\* The heartbeat cannot be written, and the serve loop returns the error.
ServeAbandoned(d) ==
  /\ phase[d] \in Answering /\ d \in abandoned /\ End(d)
  /\ UNCHANGED <<path, pc, place, conn>> /\ NoMishap

PaneExits(d) ==
  /\ phase[d] = "serving" /\ Become(d, "broken") /\ Mishap
  /\ UNCHANGED <<path, abandoned, pc, place, conn>>

\* A viewport for a pane that is not running is an error of the serve loop.
ViewportFails(d) ==
  /\ phase[d] = "broken"
  /\ \E l \in Launchers : pc[l] = "attached" /\ conn[l] = d
  /\ End(d)
  /\ UNCHANGED <<path, pc, place, conn>> /\ NoMishap

\* The listener is dropped; SocketCleanup::drop reads the identity of the path,
\* and removes the path in a step of its own.
CompareIdentity(d) ==
  /\ phase[d] = "exiting"
  /\ Become(d, IF path = d THEN "owns" ELSE "down")
  /\ UNCHANGED <<path, abandoned, pc, place, conn>> /\ NoMishap

RemoveSocket(d) ==
  /\ phase[d] = "owns" /\ Become(d, "down") /\ path' = NoSocket
  /\ UNCHANGED <<abandoned, pc, place, conn>> /\ NoMishap

Crash(d) ==
  /\ phase[d] # "down" /\ Become(d, "down") /\ abandoned' = abandoned \ {d} /\ Mishap
  /\ UNCHANGED <<path, pc, place, conn>>

DaemonStep(d) ==
  \/ Bind(d) \/ StartSession(d) \/ ServeAbandoned(d)
  \/ CompareIdentity(d) \/ RemoveSocket(d)

-----------------------------------------------------------------------------

Next ==
  \/ \E l \in Launchers : \/ Begin(l) \/ LauncherStep(l) \/ Serve(l)
                          \/ Detach(l) \/ Expire(l)
  \/ \E d \in Daemons : \/ DaemonStep(d) \/ SessionFails(d) \/ PaneExits(d)
                        \/ ViewportFails(d) \/ Crash(d)

\* Processes run on: a launcher takes its next step, a daemon answers.  Nobody
\* has to run nmux or to detach, and mishaps need not happen.
Fairness ==
  /\ \A l \in Launchers : WF_vars(LauncherStep(l)) /\ WF_vars(Serve(l))
  /\ \A d \in Daemons : WF_vars(DaemonStep(d))

Spec == Init /\ [][Next]_vars /\ Fairness

-----------------------------------------------------------------------------
(* Properties *)

\* Launchers that find no daemon, or a healthy one that stays so, agree: however many run at
\* once and however many daemons they start, only the daemon at the path is up,
\* all launchers talk to it, and none of them replaces it or fails (run_default,
\* bind_listener).
Shared ==
  mishaps = 0 =>
    /\ \A d \in Daemons : phase[d] \notin {"down", "starting"} => d = path /\ phase[d] \in Up
    /\ \A l \in Launchers : /\ pc[l] \notin {"kill", "unlink", "failed"}
                            /\ conn[l] \in {path, NoSocket}

Alone(l) == \A o \in Launchers \ {l} : pc[o] = "idle"

\* A daemon is about to remove the socket of another one.
Trespassing == \E d \in Daemons : phase[d] = "owns" /\ path \notin {d, NoSocket}

\* A launcher that has the path to itself attaches, whether it finds nothing, a
\* healthy daemon, a broken one that it kills and that still has to clean up, or
\* a socket nobody listens on (replace_default_daemon_socket).
Recovered ==
  \A l \in Launchers, n \in 0..MaxMishaps :
    pc[l] = "look" /\ Alone(l) /\ mishaps = n
      ~> pc[l] \in {"attached", "left"} \/ ~Alone(l) \/ mishaps # n \/ Trespassing

\* Whatever happens, a launcher ends up attached or tells its user why not: it
\* neither waits for ever for a socket or an answer, nor replaces daemons without
\* end (wait_for_default_daemon_attach, default_live_error_needs_restart).
EventuallySettled ==
  \A l \in Launchers : []<>(pc[l] \in Settled \cup {"idle"} \/ Free = {})

================================================================================
