--------------------------- MODULE ProgressionMC ---------------------------
(***************************************************************************)
(* One player, whose awards, evaluations and referrals all meet at one     *)
(* user row, and an achievement of each metric.                            *)
(***************************************************************************)
EXTENDS Progression, TLC

CONSTANTS u1, firstQuest, collector, friendly

\* The bonus of the first changes what the second measures.
InOrder == <<firstQuest, collector, friendly>>

Metrics1 == firstQuest :> "quests" @@ collector :> "xp" @@ friendly :> "other"

\* One award leaves the second in progress, one and the bonus earn it.
Minimum1 == firstQuest :> 1 @@ collector :> 150 @@ friendly :> 2

Targets == firstQuest :> 0 @@ collector :> 150 @@ friendly :> 2

Bonuses == firstQuest :> 200 @@ collector :> 0 @@ friendly :> 50
=============================================================================
