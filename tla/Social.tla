------------------------------- MODULE Social -------------------------------
(***************************************************************************)
(* Friendships and notifications in one process of the API: the calls emit *)
(* on the bus, the listeners store and push. The process may end at any    *)
(* time and start again.                                                   *)
(***************************************************************************)
EXTENDS Friendships, Notifications

vars == <<friendshipVars, notificationVars, bus>>

Init ==
  /\ FriendshipsInit
  /\ NotificationsInit
  /\ bus = {}

\* Also a summary that cannot be read, outside the catch of the send that follows:
\* nobody awaits the listener, and its rejection ends the process. With nothing at
\* work an end is no more than clients that disconnect.
Crash ==
  /\ bus # {} \/ \E r \in Requests : request[r] # Idle /\ ~ Ended(r)
  /\ LoseRequests
  /\ LoseDeliveries

Next ==
  \/ FriendshipsNext /\ UNCHANGED notificationVars
  \/ NotificationsNext /\ UNCHANGED friendshipVars
  \/ Crash

Spec == Init /\ [][Next]_vars

-----------------------------------------------------------------------------
(* Properties.                                                             *)

TypeOK == FriendshipsTypeOK /\ NotificationsTypeOK
=============================================================================
