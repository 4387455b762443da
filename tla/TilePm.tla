------------------------------- MODULE TilePm -------------------------------
(***************************************************************************)
(* Clock gating of the tiles of a partition: XAie_PmRequestTiles and the   *)
(* two implementations behind it, _XAie_RequestTiles for AIE and           *)
(* _XAieMl_RequestTiles for AIE-ML.                                        *)
(*                                                                         *)
(* A column has one clock buffer, in its shim tile (row 0); on AIE the     *)
(* clock of a tile is passed on by a register of the tile below it.  The   *)
(* driver keeps in TilesInUse which tiles it has already enabled.  A step  *)
(* is one register write.  Register writes do not fail here.               *)
(***************************************************************************)
EXTENDS Integers, Sequences, FiniteSets

CONSTANTS
    Devs,      \* the device instances, one for each partition
    DevGens,   \* the generations the array may be of
    NumCols,   \* columns of a partition
    NumRows,   \* rows, the shim row included
    MaxTiles,  \* bound: tiles in the list of one request
    Allowed    \* the unusual orders of calls that the users may make

ASSUME DevGenAssumption == DevGens \subseteq {"AIE", "AIEML"}
ASSUME ShapeAssumption == NumCols \in Nat \ {0} /\ NumRows \in Nat \ {0, 1}
ASSUME AllowedAssumption == Allowed \subseteq {"all_after_list", "reset_after_request"}

VARIABLES
    DevGen,       \* the generation of the array; it never changes
    TilesInUse,   \* bitmap DevOps->TilesInUse: the set of its set bits
    ColClk,       \* ColClk[d]: columns whose clock buffer is enabled
    NextTileClk,  \* NextTileClk[d]: tiles that pass the clock on to the next row
    call,         \* call[d]: the request device instance d is in
    requested     \* requested[d]: tiles of the requests that returned XAIE_OK
                  \* since the partition was last reset

vars == <<DevGen, TilesInUse, ColClk, NextTileClk, call, requested>>

Cols == 0 .. NumCols - 1
Rows == 0 .. NumRows - 1
Tiles == Cols \X Rows
AieRows == Rows \ {0}

(* The shim row has no bit.                                                *)
TileBit(c, r) == c * (NumRows - 1) + r - 1
InUse(c, r) == TileBit(c, r) \in TilesInUse

TileLists == UNION { [1 .. n -> Tiles] : n \in 1 .. MaxTiles }

(* stage: the loop the request is in; row: its loop variable.              *)
NoCall == [stage |-> "idle", locs |-> <<>>, all |-> {}, row |-> 0]
Idle(d) == call[d].stage = "idle"
Stages == {"idle", "tile", "ungate", "gate", "mark"}

TypeOK ==
    /\ DevGen \in DevGens
    /\ TilesInUse \subseteq { TileBit(c, r) : c \in Cols, r \in AieRows }
    /\ ColClk \in [Devs -> SUBSET Cols]
    /\ NextTileClk \in [Devs -> SUBSET Tiles]
    /\ requested \in [Devs -> SUBSET Tiles]
    /\ call \in [Devs -> [stage : Stages, locs : Seq(Tiles), all : SUBSET Tiles, row : Rows]]

(* At boot all the tiles above the shim row are gated by the column clock  *)
(* buffers, and every tile passes on the clock it gets.                    *)
Init ==
    /\ DevGen \in DevGens
    /\ TilesInUse = {}
    /\ ColClk = [d \in Devs |-> {}]
    /\ NextTileClk = [d \in Devs |-> Tiles]
    /\ call = [d \in Devs |-> NoCall]
    /\ requested = [d \in Devs |-> {}]

(* Does the clock reach the tile?  The shim row is always clocked.         *)
Clocked(d, c, r) ==
    r = 0 \/ (c \in ColClk[d] /\ (DevGen = "AIE" => \A j \in 0 .. r - 1 : <<c, j>> \in NextTileClk[d]))

-----------------------------------------------------------------------------
(* The calls *)

XAie_PmRequestTiles(d) ==
    /\ Idle(d)
    /\ \E locs \in TileLists :
           call' = [call EXCEPT ![d] = [stage |-> "tile", locs |-> locs,
                                        all |-> { locs[k] : k \in DOMAIN locs }, row |-> 0]]
    /\ UNCHANGED <<TilesInUse, ColClk, NextTileClk, requested>>

(* No list: all the tiles are marked and the column clock buffers enabled. *)
RequestAllTiles(d) ==
    /\ Idle(d)
    /\ TilesInUse = {} \/ "all_after_list" \in Allowed
    /\ TilesInUse' = TilesInUse \cup { TileBit(c, r) : c \in Cols, r \in AieRows }
    /\ ColClk' = [ColClk EXCEPT ![d] = Cols]
    /\ requested' = [requested EXCEPT ![d] = Tiles]
    /\ UNCHANGED <<NextTileClk, call>>

(* What partition initialization, teardown and XAie_ResetPartition leave   *)
(* of the clocks, when they succeed.  None of them touches TilesInUse.     *)
ResetClocks(d) ==
    /\ Idle(d)
    /\ TilesInUse = {} \/ "reset_after_request" \in Allowed
    /\ \E clk \in IF DevGen = "AIE" THEN {{}} ELSE {{}, Cols} :
           ColClk' = [ColClk EXCEPT ![d] = clk]
    /\ NextTileClk' = [NextTileClk EXCEPT ![d] = Tiles]
    /\ requested' = [requested EXCEPT ![d] = {}]
    /\ UNCHANGED <<TilesInUse, call>>

-----------------------------------------------------------------------------
(* The loop over the list *)

Loc(d) == Head(call[d].locs)
Col(d) == Loc(d)[1]
Row(d) == Loc(d)[2]
AtTile(d) == call[d].stage = "tile" /\ call[d].locs # <<>>
GoTo(d, stage, row) == call' = [call EXCEPT ![d].stage = stage, ![d].row = row]
NextLoc(d) == call' = [call EXCEPT ![d].stage = "tile", ![d].locs = Tail(@), ![d].row = 0]

RequestReturns(d) ==
    /\ call[d].stage = "tile" /\ call[d].locs = <<>>
    /\ requested' = [requested EXCEPT ![d] = @ \cup call[d].all]
    /\ call' = [call EXCEPT ![d] = NoCall]
    /\ UNCHANGED <<TilesInUse, ColClk, NextTileClk>>

ShimIsSkipped(d) ==
    /\ AtTile(d) /\ Row(d) = 0
    /\ NextLoc(d)
    /\ UNCHANGED <<TilesInUse, ColClk, NextTileClk, requested>>

RowsInUse(d) == { r \in AieRows : InUse(Col(d), r) }
IsTopRowInUse(d, r) == r \in RowsInUse(d) /\ \A s \in RowsInUse(d) : s <= r

(* AIE: the column is in use up to a row.  Tiles above it are ungated from *)
(* there, if the requested tile is one of them.                            *)
ColumnIsInUse(d) ==
    /\ DevGen = "AIE" /\ AtTile(d) /\ Row(d) # 0
    /\ \E top \in RowsInUse(d) :
           /\ IsTopRowInUse(d, top)
           /\ IF TileBit(Col(d), Row(d)) > TileBit(Col(d), top)
              THEN GoTo(d, "ungate", top)
              ELSE GoTo(d, "mark", 0)
    /\ UNCHANGED <<TilesInUse, ColClk, NextTileClk, requested>>

(* AIE: the column is not in use yet: _XAie_PmSetColumnClockBuffer, and    *)
(* then the tiles above the requested one are gated from the top.          *)
EnableColumn_NoGating(d) ==
    /\ DevGen = "AIE" /\ AtTile(d) /\ Row(d) # 0
    /\ RowsInUse(d) = {}
    /\ ColClk' = [ColClk EXCEPT ![d] = @ \cup {Col(d)}]
    /\ GoTo(d, "mark", 0)
    /\ UNCHANGED <<TilesInUse, NextTileClk, requested>>

EnableColumn_Always(d) ==
    /\ DevGen = "AIE" /\ AtTile(d) /\ Row(d) # 0
    /\ ColClk' = [ColClk EXCEPT ![d] = @ \cup {Col(d)}]
    /\ GoTo(d, "gate", NumRows - 1)
    /\ UNCHANGED <<TilesInUse, NextTileClk, requested>>

EnableColumn(d) ==
    /\ DevGen = "AIE" /\ AtTile(d) /\ Row(d) # 0
    /\ RowsInUse(d) = {}
    /\ ColClk' = [ColClk EXCEPT ![d] = @ \cup {Col(d)}]
    /\ GoTo(d, "gate", NumRows - 1)
    /\ UNCHANGED <<TilesInUse, NextTileClk, requested>>

(* One turn of the loop of _XAie_PmUngateTiles.                            *)
UngateTile(d) ==
    /\ call[d].stage = "ungate"
    /\ IF call[d].row < Row(d)
       THEN /\ NextTileClk' = [NextTileClk EXCEPT ![d] = @ \cup {<<Col(d), call[d].row>>}]
            /\ GoTo(d, "ungate", call[d].row + 1)
       ELSE GoTo(d, "mark", 0) /\ UNCHANGED NextTileClk
    /\ UNCHANGED <<TilesInUse, ColClk, requested>>

(* One turn of the loop of _XAie_PmGateTiles.                              *)
GateTile_FromBelow(d) ==
    /\ call[d].stage = "gate"
    /\ IF call[d].row > Row(d)
       THEN /\ NextTileClk' = [NextTileClk EXCEPT ![d] =
                                   @ \ {<<Col(d), Row(d) + NumRows - 1 - call[d].row>>}]
            /\ GoTo(d, "gate", call[d].row - 1)
       ELSE GoTo(d, "mark", 0) /\ UNCHANGED NextTileClk
    /\ UNCHANGED <<TilesInUse, ColClk, requested>>

GateTile_OneMore(d) ==
    /\ call[d].stage = "gate"
    /\ IF call[d].row >= Row(d)
       THEN /\ NextTileClk' = [NextTileClk EXCEPT ![d] = @ \ {<<Col(d), call[d].row - 1>>}]
            /\ GoTo(d, "gate", call[d].row - 1)
       ELSE GoTo(d, "mark", 0) /\ UNCHANGED NextTileClk
    /\ UNCHANGED <<TilesInUse, ColClk, requested>>

GateTile(d) ==
    /\ call[d].stage = "gate"
    /\ IF call[d].row > Row(d)
       THEN /\ NextTileClk' = [NextTileClk EXCEPT ![d] = @ \ {<<Col(d), call[d].row - 1>>}]
            /\ GoTo(d, "gate", call[d].row - 1)
       ELSE GoTo(d, "mark", 0) /\ UNCHANGED NextTileClk
    /\ UNCHANGED <<TilesInUse, ColClk, requested>>

(* The bits of the tile and of those below it: Row bits that end at its.   *)
MarkTiles(d) ==
    /\ call[d].stage = "mark"
    /\ LET last == TileBit(Col(d), Row(d))
       IN  TilesInUse' = TilesInUse \cup ((last + 1 - Row(d)) .. last)
    /\ NextLoc(d)
    /\ UNCHANGED <<ColClk, NextTileClk, requested>>

(* AIE-ML: a column is enabled and marked as a whole, unless it is already *)
(* marked.                                                                 *)
RequestColumn(d) ==
    /\ DevGen = "AIEML" /\ AtTile(d) /\ Row(d) # 0
    /\ IF InUse(Col(d), 1) THEN UNCHANGED <<TilesInUse, ColClk>>
       ELSE /\ ColClk' = [ColClk EXCEPT ![d] = @ \cup {Col(d)}]
            /\ TilesInUse' = TilesInUse \cup
                   (TileBit(Col(d), 1) .. TileBit(Col(d), 1) + NumRows - 2)
    /\ NextLoc(d)
    /\ UNCHANGED <<NextTileClk, requested>>

Next ==
    /\ UNCHANGED DevGen
    /\ \E d \in Devs : \/ XAie_PmRequestTiles(d)
                       \/ RequestAllTiles(d)
                       \/ ResetClocks(d)
                       \/ RequestReturns(d)
                       \/ ShimIsSkipped(d)
                       \/ ColumnIsInUse(d)
                       \/ EnableColumn(d)
                       \/ UngateTile(d)
                       \/ GateTile(d)
                       \/ MarkTiles(d)
                       \/ RequestColumn(d)

Spec == Init /\ [][Next]_vars

-----------------------------------------------------------------------------
(* Properties *)

(* "This API enables clock for all the tiles passed as argument": the      *)
(* tiles of every request that returned XAIE_OK have a clock until the     *)
(* partition is reset, whatever was requested before or after.             *)
RequestedTilesAreClocked ==
    \A d \in Devs : \A t \in requested[d] : Clocked(d, t[1], t[2])

(* AIE: "Gate unused tiles from top to uppermost tile inuse": once a       *)
(* column has a tile in use and no request is going on, no unused tile of  *)
(* the column has a clock.                                                 *)
UnusedTilesAreGated ==
    \A d \in Devs : DevGen = "AIE" /\ Idle(d) =>
        \A c \in Cols, r, u \in AieRows :
            InUse(c, u) /\ Clocked(d, c, r) => InUse(c, r)

(* "The control of clock gating a tile is present in the tile below that   *)
(* tile ... Hence gating of clocks of unused tiles in a col happens from   *)
(* top": a request never changes the register of a tile without a clock.   *)
WritesReachClockedTiles ==
    [][\A d \in Devs : call'[d] # call[d] =>
          \A t \in Tiles : (t \in NextTileClk[d]) # (t \in NextTileClk'[d]) =>
              Clocked(d, t[1], t[2])]_vars

(* The tiles in use of a column are those up to some row, as the search    *)
(* for the uppermost one assumes: _XAie_PmIsTileRequested is also true of  *)
(* the tiles a requested one gets its clock through.                       *)
InUseIsColumnPrefix ==
    \A c \in Cols, r \in AieRows : InUse(c, r) => \A s \in 1 .. r : InUse(c, s)

(* No step of a request takes the clock from a tile in use, of whatever    *)
(* column: only a reset does.                                              *)
RequestsNeverGateTilesInUse ==
    [][\A d \in Devs :
          (\E e \in Devs : call'[e] # call[e]) =>
              \A c \in Cols, r \in AieRows :
                  InUse(c, r) /\ Clocked(d, c, r) => Clocked(d, c, r)']_vars
=============================================================================
