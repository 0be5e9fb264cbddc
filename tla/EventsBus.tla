----------------------------- MODULE EventsBus -----------------------------
(***************************************************************************)
(* events.bus.ts: emit() calls the listeners in the emitting process, one  *)
(* after the other and synchronously, and nobody awaits the promises they  *)
(* return. The variable holds the listeners of the notifications that are  *)
(* at work, one delivery per emitted event. It is memory: a process that   *)
(* ends takes its deliveries with it.                                      *)
(***************************************************************************)

CONSTANTS
  Users,
  Requests   \* bound: the requests at work, which emit

VARIABLE bus  \* deliveries at work

\* The listeners of friend events load the summary of the other party before they
\* send; those of QuestCompleted, LevelUp, AchievementUnlocked and
\* BusinessQuestApproved, which tell a user of their own doing, send at once.
Events == {"FriendRequestSent", "FriendRequestAccepted", "OwnEvent"}

Deliveries == [by : Requests, event : Events, to : Users, step : {"send", "push"}]

Emit(by, event, to) ==
  bus' = bus \cup {[by |-> by, event |-> event, to |-> to, step |-> "send"]}
=============================================================================
