----------------------------- MODULE MCUpgrade -----------------------------
(***************************************************************************)
(* An image of two chunks, a slot with room for it, lengths on both sides. *)
(***************************************************************************)
EXTENDS Upgrade
=============================================================================
