------------------------------ MODULE MCRscMgr ------------------------------
(* The resource manager on small partitions. *)
EXTENDS RscMgr, TLC

Symmetry == Permutations(Clients)
=============================================================================
