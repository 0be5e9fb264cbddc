----------------------------- MODULE QuestPlayMC -----------------------------
(***************************************************************************)
(* The instance TLC checks: one player and one quest of two stops, so that *)
(* every request contends for the same rows. Rows of different players or  *)
(* quests share nothing but the user row.                                  *)
(***************************************************************************)
EXTENDS QuestPlay, TLC

CONSTANTS u1, q1, l1, l2

TwoStops == q1 :> {l1, l2}

\* One award stays on level 1, two meet the threshold of level 2 (100 XP) exactly.
Reward50 == q1 :> 50
=============================================================================
