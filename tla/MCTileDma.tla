------------------------------ MODULE MCTileDma ------------------------------
EXTENDS TileDma

\* Both generations count channels of both directions in the same way.
MCChNum == [s \in Sides |-> IF s = "out" THEN 0 ELSE 1]
=============================================================================
