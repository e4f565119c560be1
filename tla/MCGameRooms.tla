---------------------------- MODULE MCGameRooms ----------------------------
(***************************************************************************)
(* The players are interchangeable.                                        *)
(***************************************************************************)
EXTENDS GameRooms, TLC

Symmetry == Permutations(Players)
=============================================================================
