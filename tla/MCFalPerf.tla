----------------------------- MODULE MCFalPerf -----------------------------
(* Small instances of FalPerf. *)
EXTENDS FalPerf, TLC

CONSTANTS c1, c2

(* A counter that may move to the memory module, and one that stays there. *)
Homes == [c \in Objs |-> IF c = c1 THEN "CORE" ELSE "MEM"]
SomeEvents == [c \in Objs |->
    IF c = c1 THEN [start |-> {"CORE"}, stop |-> Mods, rst |-> {"CORE"}]
    ELSE [start |-> {"CORE"}, stop |-> {"MEM"}, rst |-> {}]]

CoreCounter == {<<"CORE", 0>>}

(* A write early in a start and the one that completes it; not the two     *)
(* whose failure the code forgets, see the README.                         *)
Checked == {<<"rst", "route">>, <<"start", "control">>}
=============================================================================
