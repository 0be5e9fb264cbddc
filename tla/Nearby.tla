------------------------------- MODULE Nearby -------------------------------
(***************************************************************************)
(* GET /quests/nearby and the map that is opened on the same place.        *)
(* listNearby of quests.service.ts asks for at most 200 published quests   *)
(* with a location in a bounding box, in no order, and keeps those whose   *)
(* nearest location is within the radius; getPinsInBounds of               *)
(* map.service.ts asks for locations, and for businesses, in the box of    *)
(* the viewport. What the trigonometry of geo.service.ts yields is given   *)
(* by constants. Nothing is assumed of them: the box is none that holds    *)
(* the circle, as it ends at the 180th meridian and is a little narrow off *)
(* the equator.                                                            *)
(***************************************************************************)
EXTENDS Integers, FiniteSetsExt

CONSTANTS
  MapQuests,
  Hard,          \* the quests of the difficulty that may be asked for
  Spots,         \* where locations may be and searches begin
  Latitude,      \* of a spot, in millionths of a degree
  Longitude,
  VerifiedSpots, \* where VERIFIED businesses are
  Radii,         \* the radii that are asked for, in metres
  LatDelta,      \* LatDelta[r], LngDelta[s][r] : half the height and the width of the
  LngDelta,      \*   box of radius r around spot s
  Haversine,     \* Haversine[s][t] : the metres between two spots
  BOX_LIMIT,     \* the limit of the candidates, 200
  PIN_LIMIT      \* the limit of a viewport's rows of either kind

ASSUME NearbyAssumption ==
  /\ IsFiniteSet(MapQuests) /\ IsFiniteSet(Spots) /\ Radii \subseteq Nat
  /\ Hard \subseteq MapQuests /\ VerifiedSpots \subseteq Spots
  /\ Latitude \in [Spots -> Int] /\ Longitude \in [Spots -> Int]
  /\ LatDelta \in [Radii -> Nat] /\ LngDelta \in [Spots -> [Radii -> Nat]]
  /\ Haversine \in [Spots -> [Spots -> Nat]]
  /\ BOX_LIMIT \in Nat \ {0} /\ PIN_LIMIT \in 1 .. 1000

VARIABLES
  places,    \* places[q] : the locations of quest q, none before it is created
  onMap,     \* the PUBLISHED quests
  search     \* what was asked for and answered: the list, then the map

nearbyVars == <<places, onMap, search>>

NoSearch == [step |-> "idle"]

NearbyInit ==
  /\ places = [q \in MapQuests |-> {}]
  /\ onMap = {}
  /\ search = NoSearch

\* A quest's locations, one or two of them here, stay where they are.
CreateOnMap ==
  /\ search = NoSearch
  /\ \E q \in MapQuests, spots \in kSubset(1, Spots) \cup kSubset(2, Spots) :
       places[q] = {} /\ places' = [places EXCEPT ![q] = spots]
  /\ UNCHANGED <<onMap, search>>

PublishOnMap ==
  /\ search.step # "mapped"
  /\ \E q \in MapQuests \ onMap : places[q] # {} /\ onMap' = onMap \cup {q}
  /\ UNCHANGED <<places, search>>

WithdrawFromMap ==
  /\ search.step # "mapped"
  /\ \E q \in onMap : onMap' = onMap \ {q}
  /\ UNCHANGED <<places, search>>

-----------------------------------------------------------------------------
(* The geometry.                                                           *)

\* An edge may lie beyond a pole or the 180th meridian: nothing wraps around.
BoundingBox(center, radius) ==
  [minLat |-> Latitude[center] - LatDelta[radius],
   maxLat |-> Latitude[center] + LatDelta[radius],
   minLng |-> Longitude[center] - LngDelta[center][radius],
   maxLng |-> Longitude[center] + LngDelta[center][radius]]

InBox(s, box) ==
  /\ box.minLat <= Latitude[s] /\ Latitude[s] <= box.maxLat
  /\ box.minLng <= Longitude[s] /\ Longitude[s] <= box.maxLng

\* take without orderBy: any rows, as many as there are up to the limit.
Take(limit, found) == kSubset(Min({limit, Cardinality(found)}), found)

-----------------------------------------------------------------------------
(* The list.                                                               *)

Asked(filtered) == IF filtered THEN onMap \cap Hard ELSE onMap

\* Faulty variant: every location has to be in the box.
EveryInBoundingBox(filtered, box) ==
  {q \in Asked(filtered) : \A s \in places[q] : InBox(s, box)}

WithinBoundingBox(filtered, box) ==
  {q \in Asked(filtered) : \E s \in places[q] : InBox(s, box)}

\* The nearest of all locations of a quest, also of those outside the box.
Nearest(q, center) == Min({Haversine[center][s] : s \in places[q]})

ListNearby ==
  /\ search = NoSearch
  /\ \E center \in Spots, radius \in Radii, filtered \in BOOLEAN :
       LET inBox == WithinBoundingBox(filtered, BoundingBox(center, radius))
       IN  \E candidates \in Take(BOX_LIMIT, inBox) :
             search' = [step |-> "listed", center |-> center, radius |-> radius,
               filtered |-> filtered, asked |-> Asked(filtered),
               inBox |-> Cardinality(inBox), kinds |-> {}, pins |-> {},
               listed |-> {q \in candidates : Nearest(q, center) <= radius}]
  /\ UNCHANGED <<places, onMap>>

-----------------------------------------------------------------------------
(* The map.                                                                *)

Kinds == {"QUEST", "BUSINESS"}

\* parseKinds: none that is known stands for all.
ParseKinds(asked) == IF asked = {} THEN Kinds ELSE asked

Pins(kind, rows) ==
  {[kind |-> kind, refId |-> x[1], at |-> x[2], distance |-> Haversine[search.center][x[2]]] :
     x \in rows}

\* MapBoundsQueryDto and the first lines of getPinsInBounds refuse any other.
Degree == 1000000
Accepted(bounds) ==
  /\ -90 * Degree <= bounds.minLat /\ bounds.minLat < bounds.maxLat /\ bounds.maxLat <= 90 * Degree
  /\ -180 * Degree <= bounds.minLng /\ bounds.minLng < bounds.maxLng /\ bounds.maxLng <= 180 * Degree

\* The viewport is the box of the search, whose middle is its center. A filter of quests
\* leaves no business.
GetPinsInBounds ==
  /\ search.step = "listed"
  /\ LET bounds == BoundingBox(search.center, search.radius)
     IN  /\ Accepted(bounds)
         /\ \E asked \in SUBSET Kinds :
              LET kinds      == ParseKinds(asked)
                  quests     == {x \in Asked(search.filtered) \X Spots :
                                   x[2] \in places[x[1]] /\ InBox(x[2], bounds)}
                  businesses == {<<s, s>> : s \in {t \in VerifiedSpots : InBox(t, bounds)}}
              IN  \E questRows \in (IF "QUEST" \in kinds THEN Take(PIN_LIMIT, quests) ELSE {{}}),
                     businessRows \in (IF "BUSINESS" \in kinds /\ ~ search.filtered
                                       THEN Take(PIN_LIMIT, businesses) ELSE {{}}) :
                    search' = [search EXCEPT !.step = "mapped", !.kinds = kinds,
                      !.pins = Pins("QUEST", questRows) \cup Pins("BUSINESS", businessRows)]
  /\ UNCHANGED <<places, onMap>>

NearbyNext ==
  CreateOnMap \/ PublishOnMap \/ WithdrawFromMap \/ ListNearby \/ GetPinsInBounds

-----------------------------------------------------------------------------
(* Properties.                                                             *)

InSearchBox(s) == InBox(s, BoundingBox(search.center, search.radius))

InCircle(s) == Haversine[search.center][s] <= search.radius

\* Of the quests asked for only those are listed that have a location within the radius.
\* One is missing because none of its locations is in the box, though one of them may be
\* within the radius, or because the box held more quests than its limit; no more are
\* missing for that than it held beyond. The map that is opened then agrees, below its
\* own limit and but for what was published or withdrawn in between: a listed quest has
\* a pin, and one within the radius unless those of its locations are outside the box;
\* and a quest with a pin within the radius is listed, if the box held no more than its
\* limit.
NearestListed ==
  search.step # "idle" =>
    LET near    == {q \in search.asked : \E s \in places[q] : InCircle(s)}
        boxed   == {q \in search.asked : \E s \in places[q] : InSearchBox(s)}
        missing == Max({0, search.inBox - BOX_LIMIT})
        pins    == {pin \in search.pins : pin.kind = "QUEST"}
        close   == {pin.refId : pin \in {p \in pins : p.distance <= search.radius}}
    IN  /\ search.listed \subseteq near
        /\ Cardinality((near \cap boxed) \ search.listed) <= missing
        /\ (search.step = "mapped" /\ "QUEST" \in search.kinds /\ Cardinality(pins) < PIN_LIMIT) =>
             /\ search.listed \cap onMap \subseteq {pin.refId : pin \in pins}
             /\ \A q \in search.listed \cap onMap :
                  (\E s \in places[q] : InCircle(s) /\ InSearchBox(s)) => q \in close
             /\ missing = 0 => search.asked \cap close \subseteq search.listed
=============================================================================
