----------------------------- MODULE InvitesMC -----------------------------
(***************************************************************************)
(* Three calls about the invites of one inviter, who may have sent one     *)
(* already: enough for two registrations with it beside a cancel.          *)
(***************************************************************************)
EXTENDS Invites, TLC

CONSTANTS ann, mail1, mail2
=============================================================================
