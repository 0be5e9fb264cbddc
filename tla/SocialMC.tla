------------------------------ MODULE SocialMC ------------------------------
(***************************************************************************)
(* Three calls of two users, enough for a block, the accept that runs      *)
(* beside it and the call that comes after both.                           *)
(***************************************************************************)
EXTENDS Social, TLC

CONSTANTS alice, bob, r1, r2, r3

\* Requests are told apart by nothing but their name.
Symmetry == Permutations({r1, r2, r3})
=============================================================================
