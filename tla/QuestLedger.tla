----------------------------- MODULE QuestLedger -----------------------------
(***************************************************************************)
(* What playing quests does to a player's records, each request one atomic *)
(* step: the promise SKILL.md makes of cross-table writes, "completing a   *)
(* quest updates QuestCompletion + User.xp + User.questsDone atomically",  *)
(* without transactions, locks or handlers. QuestPlay implements it.       *)
(***************************************************************************)
EXTENDS Integers, FiniteSets

CONSTANTS Users, Quests, Locations, StopsOf, XpReward

VARIABLES
  status,   \* status[u][q] : "NONE" before u ever starts q
  visited,  \* visited[u] : the locations u has checked in at
  account   \* account[u] : XP, quests done and places visited

ledgerVars == <<status, visited, account>>

LedgerInit ==
  /\ status = [u \in Users |-> [q \in Quests |-> "NONE"]]
  /\ visited = [u \in Users |-> {}]
  /\ account = [u \in Users |-> [xp |-> 0, questsDone |-> 0, placesVisited |-> 0]]

Start(u, q) ==
  /\ status' = [status EXCEPT ![u][q] = "STARTED"]
  /\ UNCHANGED <<visited, account>>

Rewarded(a, q) == [xp |-> a.xp + XpReward[q], questsDone |-> a.questsDone + 1,
                   placesVisited |-> a.placesVisited]

Visited(a) == [xp |-> a.xp, questsDone |-> a.questsDone, placesVisited |-> a.placesVisited + 1]

\* A quest is finished without its last check-in.
Finish(u, q) ==
  /\ status[u][q] # "NONE"
  /\ status' = [status EXCEPT ![u][q] = "COMPLETED"]
  /\ account' = [account EXCEPT ![u] = Rewarded(@, q)]
  /\ UNCHANGED visited

\* A stop is checked in once and for all; the last one finishes the quest.
Visit(u, q, l) ==
  /\ status[u][q] # "NONE"
  /\ l \in StopsOf[q] \ visited[u]
  /\ visited' = [visited EXCEPT ![u] = @ \cup {l}]
  /\ IF StopsOf[q] \subseteq visited[u] \cup {l}
     THEN /\ status' = [status EXCEPT ![u][q] = "COMPLETED"]
          /\ account' = [account EXCEPT ![u] = Rewarded(Visited(@), q)]
     ELSE /\ account' = [account EXCEPT ![u] = Visited(@)]
          /\ UNCHANGED status

LedgerNext ==
  \E u \in Users, q \in Quests :
    Start(u, q) \/ Finish(u, q) \/ \E l \in Locations : Visit(u, q, l)

Spec == LedgerInit /\ [][LedgerNext]_ledgerVars
=============================================================================
