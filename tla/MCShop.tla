------------------------------- MODULE MCShop -------------------------------
(* Two players, a stocked and an unstocked good.  The rate is ten times the
   code's, so that an amount of 2 moves prices as far as one of 20 does there. *)
EXTENDS Shop, TLC
CONSTANTS p1, p2, jug, ring

MCStock == (jug :> 2) @@ (ring :> 0)
MCOwned == (jug :> 1) @@ (ring :> 1)

ASSUME MarginHolds == Margin
=============================================================================
