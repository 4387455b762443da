--------------------------- MODULE MCErrBacktrack ---------------------------
EXTENDS ErrBacktrack

Err(c, r, m, b) == [col |-> c, row |-> r, mod |-> m, bit |-> b]

\* Two errors in a core module above another one and a memory tile below them,
\* in the last column, which has no shim NOC on its right; and a shim whose
\* column reports to another controller.
MCErrors == {Err(5, 4, "CORE", 0), Err(5, 4, "CORE", 1), Err(5, 1, "MEM", 0), Err(2, 0, "PL", 0)}
MCResumeErrors == MCErrors \ {Err(2, 0, "PL", 0)}

\* All tiles but one, which the walk up the last column skips.
MCRequested == ((0..5) \X (1..4)) \ {<<5, 2>>}
=============================================================================
