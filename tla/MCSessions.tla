----------------------------- MODULE MCSessions -----------------------------
(***************************************************************************)
(* Instances of Sessions.  Of the tab names a client may choose one is      *)
(* ordinary and the other is a name the daemon also makes up itself.       *)
(***************************************************************************)
EXTENDS Sessions

CONSTANT work

MCTabNames == {<<work>>, TabNumber(2)}
MCOneTabName == {<<work>>}
=============================================================================
