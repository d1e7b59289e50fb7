---------------------------- MODULE MCBattleship ----------------------------
(***************************************************************************)
(* Battleship with the server's boat in a fixed cell, which is as good as  *)
(* any for the liveness run: the order in which the users name the cells   *)
(* is free.                                                                *)
(***************************************************************************)
EXTENDS Battleship

ServerBoatInCorner ==
  \A c \in Cells \ {0} : userGrid["server"][c] \in {DEFAULT, MISSED_SHOT}

=============================================================================
