------------------------------ MODULE MCTilePm ------------------------------
(* Small instances of TilePm. *)
EXTENDS TilePm
=============================================================================
