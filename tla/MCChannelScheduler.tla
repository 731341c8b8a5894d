------------------------- MODULE MCChannelScheduler -------------------------
(* Bounds for TLC: one channel has room for two circuit cells, the other   *)
(* for one.                                                                *)
EXTENDS ChannelScheduler, TLC

CONSTANTS c1, c2

TwoAndOne == c1 :> 2 @@ c2 :> 1
=============================================================================
