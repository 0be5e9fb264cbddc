------------------------------- MODULE Reads -------------------------------
(***************************************************************************)
(* The calls that read: the activity feed, the leaderboard, the metrics of *)
(* the business portal, the listings in pages, the presence of friends, a  *)
(* user's statistics and the quests nearby. They share nothing but the     *)
(* tables others write, so a behaviour goes on with one of them and leaves *)
(* the rest at rest.                                                       *)
(***************************************************************************)
EXTENDS Feed, Leaderboard, Portal, Listing, Presence, UserStats, Nearby

VARIABLE subject

allVars == <<feedVars, leaderboardVars, portalVars, listingVars, presenceVars,
             userStatsVars, nearbyVars, subject>>

\* What there would be in the feed or a listing does not matter to a behaviour that
\* leaves them at rest.
Init ==
  /\ subject \in {"feed", "leaderboard", "portal", "listing", "presence", "userStats", "nearby"}
  /\ subject = "feed" \/ activity = [i \in Activities |-> Nothing]
  /\ subject = "listing" \/ (listing = "quests" /\ rows = {} /\ value = [i \in Ids |-> 1])
  /\ FeedInit /\ LeaderboardInit /\ PortalInit /\ ListingInit /\ PresenceInit
  /\ UserStatsInit /\ NearbyInit

Next ==
  /\ UNCHANGED subject
  /\ \/ /\ subject = "feed" /\ FeedNext
        /\ UNCHANGED <<leaderboardVars, portalVars, listingVars,
                       presenceVars, userStatsVars, nearbyVars>>
     \/ /\ subject = "leaderboard" /\ LeaderboardNext
        /\ UNCHANGED <<feedVars, portalVars, listingVars,
                       presenceVars, userStatsVars, nearbyVars>>
     \/ /\ subject = "portal" /\ PortalNext
        /\ UNCHANGED <<feedVars, leaderboardVars, listingVars,
                       presenceVars, userStatsVars, nearbyVars>>
     \/ /\ subject = "listing" /\ ListingNext
        /\ UNCHANGED <<feedVars, leaderboardVars, portalVars,
                       presenceVars, userStatsVars, nearbyVars>>
     \/ /\ subject = "presence" /\ PresenceNext
        /\ UNCHANGED <<feedVars, leaderboardVars, portalVars,
                       listingVars, userStatsVars, nearbyVars>>
     \/ /\ subject = "userStats" /\ UserStatsNext
        /\ UNCHANGED <<feedVars, leaderboardVars, portalVars,
                       listingVars, presenceVars, nearbyVars>>
     \/ /\ subject = "nearby" /\ NearbyNext
        /\ UNCHANGED <<feedVars, leaderboardVars, portalVars,
                       listingVars, presenceVars, userStatsVars>>

Spec == Init /\ [][Next]_allVars
=============================================================================
