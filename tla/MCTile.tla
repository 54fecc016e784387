------------------------------- MODULE MCTile -------------------------------
(***************************************************************************)
(* Tile and Service on small instances.                                    *)
(***************************************************************************)
EXTENDS Tile

ReadingSymmetry == Permutations(Readings)
=============================================================================
