------------------------- MODULE MCEmailIntelligence -------------------------
(* EmailIntelligence for TLC: the slots are model values given in the .cfg. *)
EXTENDS EmailIntelligence
==============================================================================
