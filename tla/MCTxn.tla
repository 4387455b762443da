------------------------------- MODULE MCTxn -------------------------------
(* Small instances of Txn. *)
EXTENDS Txn, TLC

Symmetry == Permutations(Threads) \cup Permutations(TxnInsts)

NoCustom == AllOps \ {"custom"}
=============================================================================
