------------------------------ MODULE RscPool ------------------------------
(***************************************************************************)
(* What the resource manager promises its callers, with no bitmap in it:   *)
(* a pool of resources, each of which at most one client holds at a time.  *)
(* RscMgr is shown to implement this specification.                        *)
(***************************************************************************)
CONSTANTS Clients, Rscs

VARIABLES
    held,      \* held[c]: the resources client c was granted and still has
    reserved   \* the resources set aside at compile time

poolVars == <<held, reserved>>

Taken == UNION { held[c] : c \in Clients }

Init == held = [c \in Clients |-> {}] /\ reserved = {}

(* A request gets resources nobody holds, all at once.                     *)
Grant(c) == \E S \in SUBSET (Rscs \ Taken) :
    held' = [held EXCEPT ![c] = @ \cup S] /\ UNCHANGED reserved

(* Freeing keeps the reservations; releasing gives them up as well, and a  *)
(* reservation nobody uses can be released.                                *)
Free(c) == \E S \in SUBSET held[c] :
    held' = [held EXCEPT ![c] = @ \ S] /\ UNCHANGED reserved

Release(c) == \E S \in SUBSET (Rscs \ (Taken \ held[c])) :
    held' = [held EXCEPT ![c] = @ \ S] /\ reserved' = reserved \ S

LoadStatic == \E S \in SUBSET Rscs :
    reserved' = reserved \cup S /\ UNCHANGED held

Next == \/ LoadStatic
        \/ \E c \in Clients : Grant(c) \/ Free(c) \/ Release(c)

Spec == Init /\ [][Next]_poolVars
=============================================================================
