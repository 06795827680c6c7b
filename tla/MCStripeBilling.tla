-------------------------- MODULE MCStripeBilling --------------------------
(* StripeBilling on a small instance. *)
EXTENDS StripeBilling
=============================================================================
