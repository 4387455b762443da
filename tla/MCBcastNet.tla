----------------------------- MODULE MCBcastNet -----------------------------
EXTENDS BcastNet

\* All tiles, or the first row only in some columns.
AllTiles == ColRange \X {1, 2}
MCTileSets == {AllTiles \ {<<1, 2>>, <<4, 1>>, <<4, 2>>}, AllTiles}

Req(kind, at, id) == [kind |-> kind, at |-> at, id |-> id]
MCRequests == {Req("all", {}, 0), Req("any", {<<2, 0>>, <<2, 1>>}, 0), Req("id", {<<3, 0>>}, 3)}

\* The third module of the first column, the event, and a block of the second shim.
MCRefused == {<<"SetReset", <<0, 1, 2, 1>>>>, <<"Generate", Start>>, <<"Errors", <<1, 1, 3, 0, 8, 1>>>>}

\* A write that blocks a channel in the first loop of XAie_SyncTimer.
MCRefusedBlock == {<<"Block", At(<<0, 2, "CORE">>, DirNo[d])>> : d \in {"W", "E"}}

MCStatic == {<<2, 0>>}
=============================================================================
