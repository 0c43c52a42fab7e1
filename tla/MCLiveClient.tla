---------------------------- MODULE MCLiveClient ----------------------------
(* LiveClient in the scenarios that TLC goes through: each has one part of *)
(* the client busy, with what can disturb it.                              *)
EXTENDS LiveClient, TLC

CONSTANTS p1, p2, p3

Nothing == [c \in Counted |-> 0]
One == {{p1}}
All == {{p1}, {p2, p3}}

MCTabs == All
Mix(ts, counts) == [tabs |-> ts, bound |-> counts @@ Nothing]
MCScenarios == {
  \* keys and echoes
  Mix(One, "changes" :> 3 @@ "keys" :> 3),
  \* paging while there is output, and a scrollback that is erased
  Mix(One, "changes" :> 2 @@ "erased" :> 1 @@ "scrolls" :> 3),
  \* paging, keys and pings
  Mix(One, "changes" :> 1 @@ "keys" :> 1 @@ "scrolls" :> 2 @@ "pings" :> 1),
  \* focus and tabs, with keys, with paging, and with what another client does
  Mix(All, "moves" :> 1 @@ "keys" :> 1 @@ "changes" :> 2),
  Mix(All, "moves" :> 1 @@ "scrolls" :> 2 @@ "changes" :> 1),
  Mix(All, "moves" :> 2 @@ "others" :> 1 @@ "changes" :> 1),
  Mix(All, "moves" :> 1 @@ "others" :> 1 @@ "resizes" :> 1 @@ "changes" :> 1)}
=============================================================================
