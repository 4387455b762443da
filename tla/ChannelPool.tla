----------------------------- MODULE ChannelPool -----------------------------
(***************************************************************************)
(* What the reservation of broadcast channels promises: every channel of   *)
(* every module has at most one owner, and a call serves one owner, who    *)
(* takes free channels and gives back his own.                             *)
(***************************************************************************)
CONSTANTS Owners, Rscs

VARIABLE owned   \* by each owner

Init == owned = [o \in Owners |-> {}]

Serve(o) ==
    /\ owned' \in [Owners -> SUBSET Rscs]
    /\ \A p \in Owners \ {o} : owned'[p] = owned[p] /\ owned'[o] \cap owned[p] = {}

Next == \E o \in Owners : Serve(o)

Spec == Init /\ [][Next]_owned
=============================================================================
