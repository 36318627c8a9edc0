---------------------------- MODULE MCGroundItem ----------------------------
(* Small instances of GroundItem for TLC. *)
EXTENDS GroundItem
=============================================================================
