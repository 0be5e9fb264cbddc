------------------------------ MODULE Presence ------------------------------
(***************************************************************************)
(* Who is seen online: last-seen.interceptor.ts pings User.lastSeenAt with *)
(* every request of a user, at most once in a while and without waiting    *)
(* for it, and listFriends of friendships.service.ts makes a status of it  *)
(* and of the quest that was started last. Both go by the database's time, *)
(* in half minutes here.                                                   *)
(***************************************************************************)
EXTENDS Integers

CONSTANTS
  PING,          \* 60 seconds
  ONLINE,        \* 5 minutes
  QUESTING,      \* 2 hours
  LastHalfMinute \* bound: when the clock stops

ASSUME PresenceAssumption == /\ PING \in Nat /\ ONLINE \in Nat /\ QUESTING \in Nat
                             /\ PING < ONLINE /\ ONLINE < QUESTING

VARIABLES
  halfMinute,
  lastSeenAt,   \* NeverSeen if it is null
  pinging,      \* the pings of the user's requests on their way, by when the request came
  lastRequest,  \* when the last request came whose ping arrived; for the properties
  startedAt     \* when the STARTED quest was started, NeverSeen if there is none

presenceVars == <<halfMinute, lastSeenAt, pinging, lastRequest, startedAt>>

NeverSeen == 0 - QUESTING - 1

PresenceInit ==
  /\ halfMinute = 0
  /\ lastSeenAt = NeverSeen /\ lastRequest = NeverSeen /\ startedAt = NeverSeen
  /\ pinging = {}

\* A request of the user: the ping goes off and nobody waits for it.
Request ==
  /\ halfMinute \notin pinging
  /\ pinging' = pinging \cup {halfMinute}
  /\ UNCHANGED <<halfMinute, lastSeenAt, lastRequest, startedAt>>

\* Faulty variant: only who would be shown offline is pinged.
DueWhenOffline == lastSeenAt < halfMinute - ONLINE

PingDue == lastSeenAt < halfMinute - PING

\* touchLastSeen, one conditional update; pings may overtake one another.
Ping ==
  \E came \in pinging :
    /\ pinging' = pinging \ {came}
    /\ lastSeenAt' = IF PingDue THEN halfMinute ELSE lastSeenAt
    /\ lastRequest' = IF came > lastRequest THEN came ELSE lastRequest
    /\ UNCHANGED <<halfMinute, startedAt>>

\* The process ends: by a ping that fails too, since nobody handles its rejection.
LosePings ==
  /\ pinging # {}
  /\ pinging' = {}
  /\ UNCHANGED <<halfMinute, lastSeenAt, lastRequest, startedAt>>

\* Time does not pass over a ping for longer than one step.
PresenceTick ==
  /\ halfMinute < LastHalfMinute
  /\ \A came \in pinging : came = halfMinute
  /\ halfMinute' = halfMinute + 1
  /\ UNCHANGED <<lastSeenAt, pinging, lastRequest, startedAt>>

StartQuest ==
  /\ startedAt # halfMinute
  /\ startedAt' = halfMinute
  /\ UNCHANGED <<halfMinute, lastSeenAt, pinging, lastRequest>>

EndQuest ==
  /\ startedAt # NeverSeen
  /\ startedAt' = NeverSeen
  /\ UNCHANGED <<halfMinute, lastSeenAt, pinging, lastRequest>>

PresenceNext == Request \/ Ping \/ LosePings \/ PresenceTick \/ StartQuest \/ EndQuest

\* The CASE of listFriends.
Status ==
  IF startedAt > halfMinute - QUESTING THEN "QUESTING"
  ELSE IF lastSeenAt > halfMinute - ONLINE THEN "ONLINE"
  ELSE "OFFLINE"

-----------------------------------------------------------------------------
(* Properties.                                                             *)

\* Few pings are written, and still nobody is shown offline who has asked for
\* something lately, nor online who has not: the two differ by the while a ping is
\* put off for, and the moment it is on its way.
PresenceTrue ==
  /\ Status = "OFFLINE" => lastRequest <= halfMinute - (ONLINE - PING)
  /\ Status = "ONLINE" => lastRequest > halfMinute - ONLINE - 1
=============================================================================
