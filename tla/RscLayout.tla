----------------------------- MODULE RscLayout -----------------------------
(***************************************************************************)
(* The bitmap arithmetic of the AI engine resource manager                 *)
(* (driver/src/rsc).  For each tile type and each resource type the driver *)
(* keeps ONE bit array that holds, in this order, the runtime bits and the *)
(* static bits of the MEM (or PL) module and, for AIE tiles, the runtime   *)
(* bits and the static bits of the CORE module.  This module computes      *)
(* where a resource's bits are; it has no state.  One instance stands for  *)
(* one resource type (performance counters, combo events, ...): the arrays *)
(* of two resource types are never touched by the same call.               *)
(***************************************************************************)
EXTENDS Integers, FiniteSets

CONSTANTS
    NumCols,          \* columns of the partition (DevInst->NumCols)
    MemTileNumRows,   \* rows of memory tiles, possibly 0; they start at row 1
    AieTileNumRows,   \* rows of AIE tiles, above the memory tiles
    MaxRscMem,        \* resources of the MEM module of an AIE tile
    MaxRscCore,       \* resources of the CORE module of an AIE tile
    MaxRscMemTile,    \* resources of the only module of a memory tile
    MaxRscPl,         \* resources of the only module of a shim tile
    Strays            \* ids callers name although the module has no such resource

(* An operator whose name ends in _<Word> after the name of another is a   *)
(* deliberately wrong variant of it: the runs must tell the two apart.     *)

ASSUME DimensionsAssumption ==
    /\ NumCols \in Nat \ {0}
    /\ AieTileNumRows \in Nat \ {0}
    /\ MemTileNumRows \in Nat

ASSUME MaxRscAssumption ==
    /\ MaxRscMem \in Nat
    /\ MaxRscCore \in Nat
    /\ MaxRscMemTile \in Nat
    /\ MaxRscPl \in Nat

ASSUME StraysAssumption == Strays \subseteq Nat

(* SHIMNOC has no arrays of its own: _XAie_RscMgrInit makes it share those *)
(* of SHIMPL, so the two are one tile type here.                           *)
TileTypes == {"SHIMPL", "MEMTILE", "AIETILE"}
Modules == {"MEM", "CORE", "PL"}

NumRows == 1 + MemTileNumRows + AieTileNumRows
Locs == [col : 0 .. NumCols - 1, row : 0 .. NumRows - 1]

GetTTypefromLoc(loc) ==
    IF loc.row = 0 THEN "SHIMPL"
    ELSE IF loc.row <= MemTileNumRows THEN "MEMTILE"
    ELSE "AIETILE"

GetNumRows(tt) ==
    CASE tt = "SHIMPL"  -> 1
      [] tt = "MEMTILE" -> MemTileNumRows
      [] tt = "AIETILE" -> AieTileNumRows

GetStartRow(tt) ==
    CASE tt = "SHIMPL"  -> 0
      [] tt = "MEMTILE" -> 1
      [] tt = "AIETILE" -> 1 + MemTileNumRows

(* The modules a tile of each type has (_XAie_CheckModule).                *)
CheckModule(tt, mod) ==
    \/ tt = "SHIMPL"  /\ mod = "PL"
    \/ tt = "MEMTILE" /\ mod = "MEM"
    \/ tt = "AIETILE" /\ mod \in {"MEM", "CORE"}

GetMaxRscVal(tt, mod) ==
    CASE tt = "SHIMPL"  -> MaxRscPl
      [] tt = "MEMTILE" -> MaxRscMemTile
      [] tt = "AIETILE" -> IF mod = "CORE" THEN MaxRscCore ELSE MaxRscMem

-----------------------------------------------------------------------------
(* Where the bits are: _XAie_RscMgr_GetBitmapOffsets and what it calls.    *)

TileIndex(loc) ==
    LET tt == GetTTypefromLoc(loc)
    IN  loc.col * GetNumRows(tt) + (loc.row - GetStartRow(tt))

GetCoreBitmapOffset_RuntimeOnly == MaxRscMem * AieTileNumRows * NumCols

GetCoreBitmapOffset == MaxRscMem * AieTileNumRows * NumCols * 2

BitmapOffset(mod) == IF mod = "CORE" THEN GetCoreBitmapOffset ELSE 0

StartBit(loc, mod) ==
    TileIndex(loc) * GetMaxRscVal(GetTTypefromLoc(loc), mod) + BitmapOffset(mod)

StaticBitmapOffset(tt, mod) == GetMaxRscVal(tt, mod) * NumCols * GetNumRows(tt)

(* The bits _XAie_RscMgrInit allocates: twice the resources of all modules.*)
GetTotalNumRscs(tt) ==
    CASE tt = "SHIMPL"  -> MaxRscPl
      [] tt = "MEMTILE" -> MaxRscMemTile
      [] tt = "AIETILE" -> MaxRscMem + MaxRscCore

BitmapSize(tt) == GetNumRows(tt) * GetTotalNumRscs(tt) * NumCols * 2

-----------------------------------------------------------------------------
(* A module of a tile, and a resource: tile, module and id (XAie_UserRsc). *)
ModLocs == { m \in [loc : Locs, mod : Modules] :
                CheckModule(GetTTypefromLoc(m.loc), m.mod) }

IdsOf(loc, mod) == 0 .. GetMaxRscVal(GetTTypefromLoc(loc), mod) - 1

RscIds == 0 .. MaxRscMem + MaxRscCore + MaxRscMemTile + MaxRscPl

(* The resources that exist: what the searches and the statistics scan.    *)
Rscs == { r \in [loc : Locs, mod : Modules, id : RscIds] :
            /\ CheckModule(GetTTypefromLoc(r.loc), r.mod)
            /\ r.id < GetMaxRscVal(GetTTypefromLoc(r.loc), r.mod) }

Rsc(loc, mod, id) == [loc |-> loc, mod |-> mod, id |-> id]

TypeOf(r) == GetTTypefromLoc(r.loc)
RuntimeBit(r) == StartBit(r.loc, r.mod) + r.id
StaticBit(r) == RuntimeBit(r) + StaticBitmapOffset(TypeOf(r), r.mod)

(* What a caller can name: _XAie_RscMgrRscApi_CheckArgs looks at the tile, *)
(* the module and the type, never at the id.  An id past the module's last *)
(* resource has the bits of another tile, of another module or of the      *)
(* static half; those with bits outside of the array are left out.         *)
NamedRscs == Rscs \cup
    { r \in [loc : Locs, mod : Modules, id : Strays] :
        /\ CheckModule(TypeOf(r), r.mod)
        /\ StaticBit(r) < BitmapSize(TypeOf(r)) }
=============================================================================
