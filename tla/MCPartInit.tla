----------------------------- MODULE MCPartInit -----------------------------
(* Small instances of PartInit. *)
EXTENDS PartInit
=============================================================================
