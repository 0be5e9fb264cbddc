--------------------------- MODULE PublicStatsMC ---------------------------
(***************************************************************************)
(* Two calls to the catalogue beside two of the statistics: two ratings    *)
(* that overtake one another, or two reloads and what comes in between.    *)
(***************************************************************************)
EXTENDS PublicStats, TLC

CONSTANTS author, player, slug1, slug2, r1, r2, c1, c2

\* Requests, calls and slugs are told apart by nothing but their names.
Symmetry ==
  Permutations({r1, r2}) \cup Permutations({c1, c2}) \cup Permutations({slug1, slug2})
=============================================================================
