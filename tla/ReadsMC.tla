------------------------------ MODULE ReadsMC ------------------------------
(***************************************************************************)
(* Two quests played, one of them without a category. Five places, in      *)
(* millionths of a degree and metres as geo.service.ts computes them: one  *)
(* at 80 degrees north; one in the corner of its box of 100 km, outside    *)
(* the circle; one within the circle and just east of the box; and two on  *)
(* either side of the 180th meridian.                                      *)
(***************************************************************************)
EXTENDS Reads, TLC

CONSTANTS art, quest1, quest2, row1, row2, friend

QuestCategories == <<art, NoCategory>>

Owners == [i \in Activities |-> friend]

PortalQuests == [c \in {row1, row2} |-> IF c = row1 THEN 1 ELSE 2]

SpotLatitude == <<80000000, 80850000, 80040000, 10000000, 10000000>>

SpotLongitude == <<0, 5100000, 5182500, 179990000, -179990000>>

BoxHeight == 5000 :> 44966 @@ 100000 :> 899322

BoxWidth == <<
  5000 :> 258949 @@ 100000 :> 5178987,
  5000 :> 282771 @@ 100000 :> 5655410,
  5000 :> 259979 @@ 100000 :> 5199575,
  5000 :> 45660 @@ 100000 :> 913195,
  5000 :> 45660 @@ 100000 :> 913195 >>

SpotDistance == <<
  <<0, 133447, 99936, 10007543, 10007543>>,
  <<133447, 0, 90081, 9909062, 9909093>>,
  <<99936, 90081, 0, 9998642, 9998676>>,
  <<10007543, 9909062, 9998642, 0, 2190>>,
  <<10007543, 9909093, 9998676, 2190, 0>> >>

SameWriters == Permutations(Writers)
=============================================================================
