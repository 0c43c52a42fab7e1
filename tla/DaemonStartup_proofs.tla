------------------------ MODULE DaemonStartup_proofs ------------------------
(***************************************************************************)
(* Proofs about DaemonStartup, for any number of launchers and daemons.    *)
(*                                                                         *)
(* Shared is not inductive.  Settling adds why no launcher comes to        *)
(* replace a daemon or to fail: the daemon at the path is up and its pane  *)
(* runs, whoever connects found a socket that is still there, and whoever  *)
(* waits for a socket has one or a daemon that is about to bind.           *)
(***************************************************************************)
EXTENDS DaemonStartup, TLAPS

Settling ==
  /\ path # NoSocket => phase[path] \in Up
  /\ \A d \in Daemons : phase[d] # "broken" /\ d \notin abandoned
  /\ \A l \in Launchers : pc[l] \in Connecting \cup {"attached"} => path # NoSocket
  /\ \A l \in Launchers :
       pc[l] = "appear" => path # NoSocket \/ \E d \in Daemons : phase[d] = "starting"

StartupInv == TypeOK /\ Shared /\ (mishaps = 0 => Settling)

\* What a launcher spawns is a daemon nothing is left of.
LEMMA FreeIsFree ==
  ASSUME Free # {}
  PROVE  LET d == CHOOSE x \in Free : TRUE
         IN  d \in Daemons /\ phase[d] = "down" /\ path # d
BY DEF Free

LEMMA InitTyped == Init => TypeOK
<1> SUFFICES ASSUME Init PROVE TypeOK
  OBVIOUS
<1> DEFINE old == CHOOSE d \in Daemons : TRUE
<1>1. old \in Daemons
  BY StartupAssumption
<1>2. phase \in [Daemons -> Phases]
  BY DEF Init, Phases, Up, Answering
<1>3. path \in Daemons \cup {NoSocket}
  BY <1>1 DEF Init
<1> QED
  BY <1>2, <1>3, StartupAssumption DEF Init, TypeOK, Locations

LEMMA GotoTyped ==
  ASSUME TypeOK, NEW l \in Launchers, NEW location \in Locations, Goto(l, location)
  PROVE  pc' \in [Launchers -> Locations]
BY DEF TypeOK, Goto

LEMMA LeaveTyped ==
  ASSUME TypeOK, NEW l \in Launchers, Leave(l)
  PROVE  conn' \in [Launchers -> Daemons \cup {NoSocket}]
BY DEF TypeOK, Leave

LEMMA BecomeTyped ==
  ASSUME TypeOK, NEW d \in Daemons, NEW p \in Phases, Become(d, p)
  PROVE  phase' \in [Daemons -> Phases]
BY DEF TypeOK, Become

LEMMA MishapTyped ==
  ASSUME TypeOK, Mishap \/ NoMishap
  PROVE  beginning' \in Beginnings /\ mishaps' \in 0..MaxMishaps
BY StartupAssumption DEF TypeOK, Mishap, NoMishap

\* Every step of a launcher keeps the types of the launchers' variables.
LEMMA ReplaceTyped ==
  ASSUME TypeOK, NEW l \in Launchers,
         \/ \E n \in 1..3 : Replace(l, n)
         \/ \E location \in Locations : Proceed(l, location)
  PROVE  pc' \in [Launchers -> Locations] /\ place' \in [Launchers -> 1..3]
BY GotoTyped DEF TypeOK, Replace, Proceed, Goto, Locations, Connecting

LEMMA LauncherTyped ==
  ASSUME TypeOK, NEW l \in Launchers, LauncherStep(l)
  PROVE  TypeOK'
<1> USE DEF Locations, Connecting, Settled
<1>1. CASE Look(l)
  BY <1>1, GotoTyped, MishapTyped DEF TypeOK, Look
<1>2. CASE Check(l)
  BY <1>2, GotoTyped, MishapTyped DEF TypeOK, Check
<1>3. CASE Start(l)
  <2>1. phase' \in [Daemons -> Phases]
    BY <1>3, FreeIsFree DEF TypeOK, Start, Phases
  <2> QED
    BY <1>3, <2>1, GotoTyped, MishapTyped DEF TypeOK, Start
<1>4. CASE Appear(l)
  BY <1>4, GotoTyped, MishapTyped DEF TypeOK, Appear
<1>5. CASE NeverAppears(l)
  BY <1>5, GotoTyped, MishapTyped DEF TypeOK, NeverAppears
<1>6. CASE Connect(l)
  BY <1>6, MishapTyped DEF TypeOK, Connect
<1>7. CASE Refused(l)
  <2>1. \/ \E n \in 1..3 : Replace(l, n)
        \/ \E location \in Locations : Proceed(l, location)
    BY <1>7 DEF Refused, NotAttachable
  <2> QED
    BY <1>7, <2>1, ReplaceTyped, MishapTyped DEF TypeOK, Refused
<1>8. CASE Closed(l)
  <2>1. \/ \E n \in 1..3 : Replace(l, n)
        \/ \E location \in Locations : Proceed(l, location)
    BY <1>8 DEF Closed, LiveError
  <2> QED
    BY <1>8, <2>1, ReplaceTyped, LeaveTyped, MishapTyped DEF TypeOK, Closed
<1>9. CASE Unlink(l)
  BY <1>9, GotoTyped, MishapTyped DEF TypeOK, Unlink
<1> QED
  BY <1>1, <1>2, <1>3, <1>4, <1>5, <1>6, <1>7, <1>8, <1>9 DEF LauncherStep

LEMMA NextTyped == TypeOK /\ [Next]_vars => TypeOK'
<1> SUFFICES ASSUME TypeOK, [Next]_vars PROVE TypeOK'
  OBVIOUS
<1> USE DEF Locations, Connecting, Settled
<1>1. ASSUME NEW l \in Launchers, Begin(l) PROVE TypeOK'
  BY <1>1, GotoTyped, MishapTyped DEF TypeOK, Begin
<1>2. ASSUME NEW l \in Launchers, LauncherStep(l) PROVE TypeOK'
  BY <1>2, LauncherTyped
<1>3. ASSUME NEW l \in Launchers, Serve(l) PROVE TypeOK'
  <2>1. \/ \E n \in 1..3 : Replace(l, n)
        \/ \E location \in Locations : Proceed(l, location)
    BY <1>3 DEF Serve
  <2>2. conn[l] \in Daemons
    BY <1>3 DEF Serve, TypeOK
  <2>3. phase' \in [Daemons -> Phases] /\ abandoned' \subseteq Daemons
    BY <1>3, <2>2, BecomeTyped DEF Serve, End, TypeOK, Phases
  <2>4. conn' \in [Launchers -> Daemons \cup {NoSocket}]
    BY <1>3, LeaveTyped DEF Serve, TypeOK
  <2> QED
    BY <1>3, <2>1, <2>3, <2>4, ReplaceTyped, MishapTyped DEF TypeOK, Serve
<1>4. ASSUME NEW l \in Launchers, Detach(l) PROVE TypeOK'
  BY <1>4, GotoTyped, LeaveTyped, MishapTyped DEF TypeOK, Detach
<1>5. ASSUME NEW l \in Launchers, Expire(l) PROVE TypeOK'
  <2>1. \/ \E n \in 1..3 : Replace(l, n)
        \/ \E location \in Locations : Proceed(l, location)
    BY <1>5 DEF Expire, NotAttachable
  <2>2. abandoned' \subseteq Daemons
    BY <1>5 DEF Expire, TypeOK
  <2> QED
    BY <1>5, <2>1, <2>2, ReplaceTyped, LeaveTyped, MishapTyped DEF TypeOK, Expire
<1>6. ASSUME NEW d \in Daemons,
             DaemonStep(d) \/ SessionFails(d) \/ PaneExits(d) \/ ViewportFails(d) \/ Crash(d)
      PROVE  TypeOK'
  <2>1. \E p \in Phases : Become(d, p)
    BY <1>6 DEF DaemonStep, Bind, StartSession, ServeAbandoned, CompareIdentity, RemoveSocket,
                SessionFails, PaneExits, ViewportFails, Crash, End, Phases, Up, Answering
  <2>2. path' \in Daemons \cup {NoSocket} /\ abandoned' \subseteq Daemons
    BY <1>6 DEF DaemonStep, Bind, StartSession, ServeAbandoned, CompareIdentity, RemoveSocket,
                SessionFails, PaneExits, ViewportFails, Crash, End, TypeOK
  <2>3. UNCHANGED <<pc, place, conn>> /\ (Mishap \/ NoMishap)
    BY <1>6 DEF DaemonStep, Bind, StartSession, ServeAbandoned, CompareIdentity, RemoveSocket,
                SessionFails, PaneExits, ViewportFails, Crash
  <2> QED
    BY <2>1, <2>2, <2>3, BecomeTyped, MishapTyped DEF TypeOK
<1>7. CASE UNCHANGED vars
  BY <1>7 DEF TypeOK, vars
<1> QED
  BY <1>1, <1>2, <1>3, <1>4, <1>5, <1>6, <1>7 DEF Next

\* TypeOK: in particular, no launcher goes on to a fourth place to start a daemon
\* (run_default starts at most three).
THEOREM TypeCorrect == Spec => []TypeOK
<1> QED
  BY InitTyped, NextTyped, PTL DEF Spec

-----------------------------------------------------------------------------
(* Without a mishap, launchers share one daemon *)

Quiet == mishaps = 0 /\ Shared /\ Settling /\ TypeOK

LEMMA InitSettling == Init => Shared /\ (mishaps = 0 => Settling)
<1> SUFFICES ASSUME Init, mishaps = 0 PROVE Shared /\ Settling
  BY DEF Shared
<1>1. beginning \in {"none", "healthy"}
  BY DEF Init
<1> DEFINE old == CHOOSE d \in Daemons : TRUE
<1>2. old \in Daemons /\ old # NoSocket
  BY StartupAssumption
<1>3. CASE beginning = "none"
  BY <1>3 DEF Init, Shared, Settling, Connecting
<1>4. CASE beginning = "healthy"
  BY <1>4, <1>2 DEF Init, Shared, Settling, Connecting, Up, Answering
<1> QED
  BY <1>1, <1>3, <1>4

\* Where a launcher can go, and what it can be connected to.
LEMMA LauncherSettled ==
  ASSUME Quiet, mishaps' = 0, NEW l \in Launchers,
         Begin(l) \/ LauncherStep(l) \/ Serve(l) \/ Detach(l) \/ Expire(l)
  PROVE  Shared' /\ Settling'
<1> USE DEF Connecting
<1>0. Listening <=> path # NoSocket
  BY DEF Quiet, Settling, Listening
<1>1. CASE Begin(l)
  BY <1>1 DEF Quiet, Begin, Goto, Shared, Settling, TypeOK
<1>2. CASE Look(l)
  BY <1>2 DEF Quiet, Look, Goto, Shared, Settling, TypeOK
<1>3. CASE Check(l)
  BY <1>3 DEF Quiet, Check, Goto, Shared, Settling, TypeOK
<1>4. CASE Start(l)
  <2> DEFINE d == CHOOSE x \in Free : TRUE
  <2>1. d \in Daemons /\ phase[d] = "down" /\ path # d
    BY <1>4, FreeIsFree DEF Start
  <2>2. /\ phase' = [phase EXCEPT ![d] = "starting"] /\ pc' = [pc EXCEPT ![l] = "appear"]
        /\ UNCHANGED <<path, abandoned, conn>>
    BY <1>4 DEF Start, Goto
  <2> HIDE DEF d
  <2> QED
    BY <2>1, <2>2 DEF Quiet, Shared, Settling, TypeOK
<1>5. CASE Appear(l)
  BY <1>5 DEF Quiet, Appear, Goto, Shared, Settling, TypeOK
<1>6. CASE NeverAppears(l)
  BY <1>6 DEF Quiet, NeverAppears, Settling
<1>7. CASE Connect(l)
  BY <1>7 DEF Quiet, Connect, Shared, Settling, TypeOK
<1>8. CASE Refused(l)
  BY <1>8, <1>0 DEF Quiet, Refused, Settling
<1>9. CASE Closed(l)
  BY <1>9 DEF Quiet, Closed, Shared, Settling
<1>10. CASE Unlink(l)
  BY <1>10 DEF Quiet, Unlink, Shared
<1>11. CASE Serve(l)
  <2>1. phase[conn[l]] = "serving"
    BY <1>11 DEF Quiet, Serve, Answering, Settling, TypeOK
  <2>2. pc[l] # "kill"
    BY DEF Quiet, Shared
  <2>3. /\ UNCHANGED <<path, phase, abandoned>>
        /\ pc' = [pc EXCEPT ![l] = "live"] \/ pc' = [pc EXCEPT ![l] = "attached"]
        /\ conn' = conn \/ conn' = [conn EXCEPT ![l] = NoSocket]
        /\ pc[l] \in Connecting
    BY <1>11, <2>1, <2>2 DEF Serve, Proceed, Goto, Leave
  <2> QED
    BY <2>3 DEF Quiet, Shared, Settling, TypeOK
<1>12. CASE Detach(l)
  BY <1>12 DEF Quiet, Detach, Goto, Leave, Shared, Settling, TypeOK
<1>13. CASE Expire(l)
  BY <1>13 DEF Quiet, Expire, Mishap
<1> QED
  BY <1>1, <1>2, <1>3, <1>4, <1>5, <1>6, <1>7, <1>8, <1>9, <1>10, <1>11, <1>12, <1>13
  DEF LauncherStep

LEMMA DaemonSettled ==
  ASSUME Quiet, mishaps' = 0, NEW d \in Daemons,
         DaemonStep(d) \/ SessionFails(d) \/ PaneExits(d) \/ ViewportFails(d) \/ Crash(d)
  PROVE  Shared' /\ Settling'
<1>1. CASE Bind(d)
  <2>1. CASE path = NoSocket
    <3>1. d # NoSocket /\ path' = d /\ phase' = [phase EXCEPT ![d] = "bound"]
      BY <1>1, <2>1, StartupAssumption DEF Bind, Become
    <3>2. UNCHANGED <<abandoned, pc, conn>>
      BY <1>1 DEF Bind
    <3>3. phase' \in [Daemons -> Phases] /\ phase'[d] = "bound"
      BY <3>1 DEF Quiet, TypeOK, Phases, Up
    <3>4. \A e \in Daemons \ {d} : phase'[e] = phase[e] /\ phase[e] \in {"down", "starting"}
      BY <2>1, <3>1, StartupAssumption DEF Quiet, TypeOK, Shared
    <3> QED
      BY <2>1, <3>1, <3>2, <3>3, <3>4 DEF Quiet, Shared, Settling, Up
  <2>2. CASE path # NoSocket
    BY <1>1, <2>2 DEF Quiet, Bind, Become, Shared, Settling, TypeOK, Up, Answering
  <2> QED
    BY <2>1, <2>2
<1>2. CASE StartSession(d)
  BY <1>2 DEF Quiet, StartSession, Become, Shared, Settling, TypeOK, Up, Answering
<1>3. CASE ServeAbandoned(d) \/ CompareIdentity(d) \/ RemoveSocket(d) \/ ViewportFails(d)
  BY <1>3 DEF Quiet, ServeAbandoned, CompareIdentity, RemoveSocket, ViewportFails,
              Shared, Settling, Up, Answering
<1>4. CASE SessionFails(d) \/ PaneExits(d) \/ Crash(d)
  BY <1>4 DEF Quiet, SessionFails, PaneExits, Crash, Mishap
<1> QED
  BY <1>1, <1>2, <1>3, <1>4 DEF DaemonStep

LEMMA NextSettling == StartupInv /\ [Next]_vars => StartupInv'
<1> SUFFICES ASSUME StartupInv, [Next]_vars PROVE StartupInv'
  OBVIOUS
<1>1. TypeOK'
  BY NextTyped DEF StartupInv
<1>2. ASSUME mishaps' = 0 PROVE Shared' /\ Settling'
  <2>1. mishaps = 0
    <3>1. mishaps \in Nat
      BY DEF StartupInv, TypeOK
    <3>2. mishaps' \in {mishaps, mishaps + 1}
      BY DEF Next, vars, Begin, LauncherStep, Look, Check, Start, Appear, NeverAppears, Connect,
             Refused, Closed, Unlink, Serve, Detach, Expire, DaemonStep, Bind, StartSession,
             ServeAbandoned, CompareIdentity, RemoveSocket, SessionFails, PaneExits,
             ViewportFails, Crash, Mishap, NoMishap
    <3> QED
      BY <1>2, <3>1, <3>2
  <2>2. Quiet
    BY <2>1 DEF Quiet, StartupInv
  <2>3. CASE UNCHANGED vars
    BY <2>2, <2>3 DEF Quiet, vars, Shared, Settling
  <2>4. CASE Next
    BY <1>2, <2>2, <2>4, LauncherSettled, DaemonSettled DEF Next
  <2> QED
    BY <2>3, <2>4
<1>3. Shared'
  BY <1>2 DEF Shared
<1> QED
  BY <1>1, <1>2, <1>3 DEF StartupInv

\* Shared: any number of launchers that find no daemon or a healthy one end up
\* with one daemon, which none of them replaces (run_default, bind_listener).
THEOREM LaunchersShare == Spec => []Shared
<1>1. Init => StartupInv
  BY InitTyped, InitSettling DEF StartupInv
<1>2. StartupInv => Shared
  BY DEF StartupInv
<1> QED
  BY <1>1, <1>2, NextSettling, PTL DEF Spec

================================================================================
