--------------------------- MODULE RscMgr_proofs ---------------------------
(***************************************************************************)
(* Proofs about the resource manager, for partitions of every size, any    *)
(* number of resources per module and any number of clients.               *)
(***************************************************************************)
EXTENDS RscMgr, Integers, FiniteSetTheorems, FunctionTheorems, TLAPS

(* A pair of digits in a mixed radix names one number (the shape of every  *)
(* index the driver computes: column and row, tile and resource id).       *)
LEMMA MixedRadix ==
    ASSUME NEW a \in Nat, NEW c \in Nat, NEW n \in Nat, NEW b \in Nat, NEW d \in Nat,
           b < n, d < n, a * n + b = c * n + d
    PROVE  a = c /\ b = d
<1>1. ASSUME NEW x \in Nat, NEW y \in Nat, NEW u \in Nat, NEW v \in Nat,
             x < y, u < n, x * n + u = y * n + v
      PROVE  FALSE
  <2>1. PICK k \in Nat : y = x + 1 + k
    <3>1. y - x - 1 \in Nat /\ y = x + 1 + (y - x - 1)
      BY <1>1
    <3> QED BY <3>1
  <2>2. y * n = x * n + n + k * n
    BY <2>1
  <2>3. k * n \in Nat /\ x * n \in Nat /\ y * n \in Nat
    OBVIOUS
  <2> QED BY <1>1, <2>2, <2>3
<1>2. a = c
  BY <1>1
<1> QED BY <1>2

(* ... and the number is below the product of the radices.                 *)
LEMMA MixedRadixBound ==
    ASSUME NEW a \in Nat, NEW m \in Nat, NEW n \in Nat, NEW b \in Nat, b < n, a < m
    PROVE  a * n + b \in Nat /\ a * n + b < m * n
<1>1. PICK k \in Nat : m = a + 1 + k
  <2>1. m - a - 1 \in Nat /\ m = a + 1 + (m - a - 1)
    OBVIOUS
  <2> QED BY <2>1
<1>2. m * n = a * n + n + k * n
  BY <1>1
<1>3. k * n \in Nat /\ a * n \in Nat /\ m * n \in Nat
  OBVIOUS
<1> QED BY <1>2, <1>3

(***************************************************************************)
(* The bits of the resource manager's arrays are disjoint.                 *)
(***************************************************************************)
-----------------------------------------------------------------------------
(* Types of the layout operators.                                          *)
LEMMA LayoutTypes ==
    ASSUME NEW tt \in TileTypes, NEW mod \in Modules
    PROVE  /\ GetMaxRscVal(tt, mod) \in Nat
           /\ GetNumRows(tt) \in Nat
           /\ GetStartRow(tt) \in Nat
           /\ StaticBitmapOffset(tt, mod) \in Nat
           /\ BitmapOffset(mod) \in Nat
           /\ BitmapSize(tt) \in Nat
<1>1. /\ GetMaxRscVal(tt, mod) \in Nat /\ GetNumRows(tt) \in Nat
      /\ GetStartRow(tt) \in Nat /\ GetTotalNumRscs(tt) \in Nat
  BY DimensionsAssumption, MaxRscAssumption
     DEF TileTypes, Modules, GetMaxRscVal, GetNumRows, GetStartRow, GetTotalNumRscs
<1>2. \A x, y \in Nat : x * y \in Nat
  OBVIOUS
<1>3. StaticBitmapOffset(tt, mod) \in Nat
  BY <1>1, <1>2, DimensionsAssumption DEF StaticBitmapOffset
<1>4. GetCoreBitmapOffset \in Nat
  BY <1>2, DimensionsAssumption, MaxRscAssumption DEF GetCoreBitmapOffset
<1>5. BitmapSize(tt) \in Nat
  BY <1>1, <1>2, DimensionsAssumption DEF BitmapSize
<1> QED BY <1>1, <1>3, <1>4, <1>5 DEF BitmapOffset

(* A tile has a type, and lies in the rows of that type.                   *)
LEMMA TileRow ==
    ASSUME NEW loc \in Locs
    PROVE  LET tt == GetTTypefromLoc(loc)
           IN  /\ tt \in TileTypes
               /\ loc.col \in Nat /\ loc.col < NumCols
               /\ loc.row - GetStartRow(tt) \in Nat
               /\ loc.row - GetStartRow(tt) < GetNumRows(tt)
  BY DimensionsAssumption
     DEF Locs, NumRows, TileTypes, GetTTypefromLoc, GetStartRow, GetNumRows

(* The index of a tile among the tiles of its type is in bounds ...        *)
LEMMA TileIndexBound ==
    ASSUME NEW loc \in Locs
    PROVE  /\ TileIndex(loc) \in Nat
           /\ TileIndex(loc) < NumCols * GetNumRows(GetTTypefromLoc(loc))
<1> DEFINE tt == GetTTypefromLoc(loc)
<1>1. GetNumRows(tt) \in Nat
  BY TileRow, LayoutTypes DEF Modules
<1> HIDE DEF tt
<1>2. /\ loc.col \in Nat /\ loc.col < NumCols /\ NumCols \in Nat
      /\ loc.row - GetStartRow(tt) \in Nat
      /\ loc.row - GetStartRow(tt) < GetNumRows(tt)
  BY TileRow, DimensionsAssumption DEF tt
<1>3. /\ loc.col * GetNumRows(tt) + (loc.row - GetStartRow(tt)) \in Nat
      /\ loc.col * GetNumRows(tt) + (loc.row - GetStartRow(tt)) < NumCols * GetNumRows(tt)
  BY <1>1, <1>2, MixedRadixBound
<1> QED BY <1>3 DEF TileIndex, tt

(* ... and differs from that of every other tile of the type.              *)
LEMMA TileIndexInjective ==
    ASSUME NEW loc1 \in Locs, NEW loc2 \in Locs,
           GetTTypefromLoc(loc1) = GetTTypefromLoc(loc2),
           TileIndex(loc1) = TileIndex(loc2)
    PROVE  loc1 = loc2
<1> DEFINE tt == GetTTypefromLoc(loc1)
           R == GetNumRows(tt)
           row1 == loc1.row - GetStartRow(tt)
           row2 == loc2.row - GetStartRow(tt)
<1>1. R \in Nat /\ GetStartRow(tt) \in Nat
  BY TileRow, LayoutTypes DEF Modules
<1>2. loc1.col \in Nat /\ row1 \in Nat /\ row1 < R
  BY TileRow
<1>3. loc2.col \in Nat /\ row2 \in Nat /\ row2 < R
  BY TileRow
<1>4. loc1.col * R + row1 = loc2.col * R + row2
  BY DEF TileIndex
<1>5. loc1.col = loc2.col /\ row1 = row2
  <2> DEFINE c1 == loc1.col
             c2 == loc2.col
  <2>1. /\ R \in Nat /\ c1 \in Nat /\ c2 \in Nat /\ row1 \in Nat /\ row2 \in Nat
        /\ row1 < R /\ row2 < R /\ c1 * R + row1 = c2 * R + row2
    BY <1>1, <1>2, <1>3, <1>4
  <2> HIDE DEF tt, R, row1, row2, c1, c2
  <2>2. c1 = c2 /\ row1 = row2
    BY <2>1, MixedRadix
  <2> QED BY <2>2 DEF c1, c2
<1>6. loc1.row = loc2.row
  <2> HIDE DEF tt
  <2> QED BY <1>1, <1>5 DEF Locs, NumRows
<1> QED BY <1>5, <1>6 DEF Locs

-----------------------------------------------------------------------------
(* The facts about one resource that the proofs below use.                 *)
LEMMA RscFacts ==
    ASSUME NEW r \in Rscs
    PROVE  /\ r.loc \in Locs /\ r.mod \in Modules /\ r.id \in Nat
           /\ TypeOf(r) \in TileTypes
           /\ CheckModule(TypeOf(r), r.mod)
           /\ r.id < GetMaxRscVal(TypeOf(r), r.mod)
           /\ r = Rsc(r.loc, r.mod, r.id)
  BY TileRow, MaxRscAssumption DEF Rscs, RscIds, Rsc, TypeOf

(* A resource's place in its module's region is in bounds.                 *)
LEMMA PlaceBound ==
    ASSUME NEW r \in Rscs
    PROVE  LET place == TileIndex(r.loc) * GetMaxRscVal(TypeOf(r), r.mod) + r.id
           IN  /\ place \in Nat
               /\ place < StaticBitmapOffset(TypeOf(r), r.mod)
               /\ RuntimeBit(r) = place + BitmapOffset(r.mod)
               /\ StaticBit(r) = place + BitmapOffset(r.mod) + StaticBitmapOffset(TypeOf(r), r.mod)
<1> DEFINE M == GetMaxRscVal(TypeOf(r), r.mod)
           R == GetNumRows(TypeOf(r))
           t == TileIndex(r.loc)
           B == BitmapOffset(r.mod)
<1>1. M \in Nat /\ R \in Nat /\ B \in Nat /\ r.id \in Nat /\ r.id < M
  BY RscFacts, LayoutTypes
<1>2. t \in Nat /\ t < NumCols * R
  BY RscFacts, TileIndexBound DEF TypeOf
<1>3. StaticBitmapOffset(TypeOf(r), r.mod) = M * NumCols * R
  BY DEF StaticBitmapOffset
<1>4. RuntimeBit(r) = (t * M + B) + r.id
  BY DEF RuntimeBit, StartBit, TypeOf
<1>5. StaticBit(r) = RuntimeBit(r) + StaticBitmapOffset(TypeOf(r), r.mod)
  BY DEF StaticBit
<1> HIDE DEF M, R, t, B
<1>6. NumCols * R \in Nat /\ NumCols \in Nat /\ t * M \in Nat
  BY <1>1, <1>2, DimensionsAssumption
<1>7. t * M + r.id \in Nat /\ t * M + r.id < (NumCols * R) * M
  BY <1>1, <1>2, <1>6, MixedRadixBound
<1>8. (NumCols * R) * M = M * NumCols * R
  BY <1>1, <1>6
<1>9. M * NumCols * R \in Nat
  BY <1>1, <1>6, <1>8
<1>10. RuntimeBit(r) = t * M + r.id + B
  BY <1>1, <1>4, <1>6
<1> QED BY <1>1, <1>3, <1>5, <1>6, <1>7, <1>8, <1>9, <1>10 DEF M, t, B

(* The CORE region of an AIE tile type starts where the MEM region ends.   *)
LEMMA CoreRegion == GetCoreBitmapOffset = 2 * StaticBitmapOffset("AIETILE", "MEM")
<1>1. StaticBitmapOffset("AIETILE", "MEM") = MaxRscMem * NumCols * AieTileNumRows
  BY DEF StaticBitmapOffset, GetMaxRscVal, GetNumRows
<1>2. MaxRscMem * AieTileNumRows * NumCols * 2 = 2 * (MaxRscMem * NumCols * AieTileNumRows)
  BY DimensionsAssumption, MaxRscAssumption
<1> QED BY <1>1, <1>2 DEF GetCoreBitmapOffset

(* A module's runtime bits are one interval and its static bits the next;  *)
(* of two modules of a tile type, the intervals of one come before those   *)
(* of the other.                                                           *)
LEMMA Regions ==
    ASSUME NEW r \in Rscs
    PROVE  LET W == StaticBitmapOffset(TypeOf(r), r.mod)
               O == BitmapOffset(r.mod)
           IN  /\ W \in Nat /\ O \in Nat
               /\ RuntimeBit(r) \in Nat /\ StaticBit(r) \in Nat
               /\ O <= RuntimeBit(r) /\ RuntimeBit(r) < O + W
               /\ O + W <= StaticBit(r) /\ StaticBit(r) < O + 2 * W
               /\ r.mod # "CORE" => O = 0
               /\ r.mod = "CORE" => O = 2 * StaticBitmapOffset("AIETILE", "MEM")
<1> DEFINE place == TileIndex(r.loc) * GetMaxRscVal(TypeOf(r), r.mod) + r.id
           W == StaticBitmapOffset(TypeOf(r), r.mod)
           O == BitmapOffset(r.mod)
<1>1. /\ place \in Nat /\ place < W
      /\ RuntimeBit(r) = place + O /\ StaticBit(r) = place + O + W
  BY PlaceBound
<1>2. W \in Nat /\ O \in Nat
  BY RscFacts, LayoutTypes
<1>3. /\ r.mod # "CORE" => O = 0
      /\ r.mod = "CORE" => O = 2 * StaticBitmapOffset("AIETILE", "MEM")
  BY CoreRegion DEF BitmapOffset
<1> HIDE DEF place, W, O
<1>4. /\ RuntimeBit(r) \in Nat /\ StaticBit(r) \in Nat
      /\ O <= RuntimeBit(r) /\ RuntimeBit(r) < O + W
      /\ O + W <= StaticBit(r) /\ StaticBit(r) < O + 2 * W
  BY <1>1, <1>2
<1> QED BY <1>2, <1>3, <1>4 DEF W, O

(* The module of a resource of a given tile type, when it has a choice.    *)
LEMMA ModuleOfType ==
    ASSUME NEW r \in Rscs, NEW q \in Rscs, TypeOf(r) = TypeOf(q), r.mod # q.mod
    PROVE  /\ TypeOf(r) = "AIETILE"
           /\ \/ r.mod = "MEM" /\ q.mod = "CORE"
              \/ r.mod = "CORE" /\ q.mod = "MEM"
  BY RscFacts DEF CheckModule

(* No two bits of the arrays coincide: two resources of one tile type have *)
(* different runtime bits and different static bits, and no runtime bit is *)
(* a static bit of any resource.                                           *)
THEOREM BitsAreDisjoint ==
    ASSUME NEW r \in Rscs, NEW q \in Rscs, TypeOf(r) = TypeOf(q)
    PROVE  /\ RuntimeBit(r) = RuntimeBit(q) => r = q
           /\ StaticBit(r) = StaticBit(q) => r = q
           /\ RuntimeBit(r) # StaticBit(q)
<1>1. CASE r.mod = q.mod
  <2> DEFINE M == GetMaxRscVal(TypeOf(r), r.mod)
             t == TileIndex(r.loc)
             u == TileIndex(q.loc)
             W == StaticBitmapOffset(TypeOf(r), r.mod)
             O == BitmapOffset(r.mod)
  <2>1. /\ RuntimeBit(r) = t * M + r.id + O /\ StaticBit(r) = t * M + r.id + O + W
        /\ t * M + r.id \in Nat /\ t * M + r.id < W
    BY PlaceBound
  <2>2. /\ RuntimeBit(q) = u * M + q.id + O /\ StaticBit(q) = u * M + q.id + O + W
        /\ u * M + q.id \in Nat /\ u * M + q.id < W
    BY <1>1, PlaceBound
  <2>3. M \in Nat /\ W \in Nat /\ O \in Nat /\ t \in Nat /\ u \in Nat
    BY RscFacts, LayoutTypes, TileIndexBound
  <2>4. r.id \in Nat /\ q.id \in Nat /\ r.id < M /\ q.id < M
    BY <1>1, RscFacts
  <2>5. ASSUME t * M + r.id = u * M + q.id PROVE r = q
    <3>1. t = u /\ r.id = q.id
      <4> HIDE DEF M, t, u
      <4> QED BY <2>3, <2>4, <2>5, MixedRadix
    <3>2. r.loc = q.loc
      BY <3>1, RscFacts, TileIndexInjective DEF TypeOf
    <3> QED BY <1>1, <3>1, <3>2, RscFacts
  <2>6. /\ RuntimeBit(r) = RuntimeBit(q) => t * M + r.id = u * M + q.id
        /\ StaticBit(r) = StaticBit(q) => t * M + r.id = u * M + q.id
        /\ RuntimeBit(r) # StaticBit(q)
    <3> DEFINE p == t * M + r.id
               s == u * M + q.id
    <3>1. /\ RuntimeBit(r) = p + O /\ StaticBit(r) = p + O + W
          /\ RuntimeBit(q) = s + O /\ StaticBit(q) = s + O + W
          /\ p \in Nat /\ p < W /\ s \in Nat /\ s < W
      BY <2>1, <2>2
    <3> HIDE DEF p, s, W, O
    <3>2. /\ RuntimeBit(r) = RuntimeBit(q) => p = s
          /\ StaticBit(r) = StaticBit(q) => p = s
          /\ RuntimeBit(r) # StaticBit(q)
      BY <2>3, <3>1
    <3> QED BY <3>2 DEF p, s
  <2> QED BY <2>5, <2>6
<1>2. CASE r.mod # q.mod
  <2> DEFINE V == StaticBitmapOffset("AIETILE", "MEM")
  <2>1. CASE r.mod = "MEM" /\ q.mod = "CORE"
    <3>1. TypeOf(r) = "AIETILE"
      BY <1>2, ModuleOfType
    <3>2. /\ RuntimeBit(r) \in Nat /\ StaticBit(r) \in Nat /\ V \in Nat
          /\ RuntimeBit(r) < V /\ StaticBit(r) < 2 * V
      BY <2>1, <3>1, Regions
    <3>3. /\ RuntimeBit(q) \in Nat /\ StaticBit(q) \in Nat
          /\ 2 * V <= RuntimeBit(q) /\ 2 * V <= StaticBit(q)
      <4>1. BitmapOffset(q.mod) = 2 * V
        BY <2>1, Regions
      <4>2. StaticBitmapOffset(TypeOf(q), q.mod) \in Nat
        BY Regions
      <4>3. /\ RuntimeBit(q) \in Nat /\ StaticBit(q) \in Nat
            /\ 2 * V <= RuntimeBit(q)
            /\ 2 * V + StaticBitmapOffset(TypeOf(q), q.mod) <= StaticBit(q)
        BY <4>1, Regions
      <4> QED BY <3>2, <4>2, <4>3
    <3> QED BY <3>2, <3>3
  <2>2. CASE r.mod = "CORE" /\ q.mod = "MEM"
    <3>1. TypeOf(q) = "AIETILE"
      BY <1>2, ModuleOfType
    <3>2. /\ RuntimeBit(q) \in Nat /\ StaticBit(q) \in Nat /\ V \in Nat
          /\ RuntimeBit(q) < V /\ StaticBit(q) < 2 * V
      BY <2>2, <3>1, Regions
    <3>3. /\ RuntimeBit(r) \in Nat /\ StaticBit(r) \in Nat
          /\ 2 * V <= RuntimeBit(r) /\ 2 * V <= StaticBit(r)
      <4>1. BitmapOffset(r.mod) = 2 * V
        BY <2>2, Regions
      <4>2. StaticBitmapOffset(TypeOf(r), r.mod) \in Nat
        BY Regions
      <4>3. /\ RuntimeBit(r) \in Nat /\ StaticBit(r) \in Nat
            /\ 2 * V <= RuntimeBit(r)
            /\ 2 * V + StaticBitmapOffset(TypeOf(r), r.mod) <= StaticBit(r)
        BY <4>1, Regions
      <4> QED BY <3>2, <4>2, <4>3
    <3> QED BY <3>2, <3>3
  <2> QED BY <1>2, <2>1, <2>2, ModuleOfType
<1> QED BY <1>1, <1>2

(* The regions of a tile type's modules lie in the array allocated for it. *)
LEMMA RegionsFit ==
    ASSUME NEW tt \in TileTypes, NEW mod \in Modules, CheckModule(tt, mod)
    PROVE  BitmapOffset(mod) + 2 * StaticBitmapOffset(tt, mod) <= BitmapSize(tt)
<1>1. CASE tt = "SHIMPL" \/ tt = "MEMTILE"
  <2>1. mod # "CORE" /\ BitmapOffset(mod) = 0
    BY <1>1 DEF CheckModule, BitmapOffset
  <2>2. GetMaxRscVal(tt, mod) = GetTotalNumRscs(tt)
    BY <1>1, <2>1 DEF GetMaxRscVal, GetTotalNumRscs
  <2> DEFINE M == GetMaxRscVal(tt, mod)
             R == GetNumRows(tt)
  <2>3. M \in Nat /\ R \in Nat
    BY LayoutTypes
  <2>4. /\ StaticBitmapOffset(tt, mod) = M * NumCols * R
        /\ BitmapSize(tt) = R * M * NumCols * 2
    BY <2>2 DEF StaticBitmapOffset, BitmapSize
  <2> HIDE DEF M, R
  <2>5. 2 * (M * NumCols * R) = R * M * NumCols * 2 /\ M * NumCols * R \in Nat
    BY <2>3, DimensionsAssumption
  <2> QED BY <2>1, <2>4, <2>5
<1>2. CASE tt = "AIETILE"
  <2> DEFINE a == MaxRscMem * NumCols * AieTileNumRows
             c == MaxRscCore * NumCols * AieTileNumRows
  <2>1. /\ BitmapSize(tt) = AieTileNumRows * (MaxRscMem + MaxRscCore) * NumCols * 2
        /\ StaticBitmapOffset(tt, "MEM") = a /\ StaticBitmapOffset(tt, "CORE") = c
    BY <1>2 DEF BitmapSize, StaticBitmapOffset, GetNumRows, GetTotalNumRscs, GetMaxRscVal
  <2>2. AieTileNumRows * (MaxRscMem + MaxRscCore) * NumCols * 2 = 2 * a + 2 * c
    BY DimensionsAssumption, MaxRscAssumption
  <2>3. a \in Nat /\ c \in Nat
    <3>1. \A x, y \in Nat : x * y \in Nat
      OBVIOUS
    <3> QED BY <3>1, DimensionsAssumption, MaxRscAssumption
  <2>4. BitmapOffset("MEM") = 0 /\ BitmapOffset("CORE") = 2 * a
    BY <1>2, <2>1, CoreRegion DEF BitmapOffset
  <2>5. mod = "MEM" \/ mod = "CORE"
    BY <1>2 DEF CheckModule
  <2> HIDE DEF a, c
  <2> QED BY <2>1, <2>2, <2>3, <2>4, <2>5
<1> QED BY <1>1, <1>2 DEF TileTypes

(* A bit of a static region is the runtime bit of no resource.             *)
LEMMA StaticRegion ==
    ASSUME NEW q \in Rscs, NEW mod \in Modules, CheckModule(TypeOf(q), mod),
           NEW b \in Nat,
           BitmapOffset(mod) + StaticBitmapOffset(TypeOf(q), mod) <= b,
           b < BitmapOffset(mod) + 2 * StaticBitmapOffset(TypeOf(q), mod)
    PROVE  b # RuntimeBit(q)
<1>1. CASE mod = q.mod
  BY <1>1, Regions
<1>2. CASE mod # q.mod
  <2> DEFINE V == StaticBitmapOffset("AIETILE", "MEM")
             W == StaticBitmapOffset("AIETILE", "CORE")
  <2>1. TypeOf(q) = "AIETILE"
    BY <1>2, RscFacts DEF CheckModule
  <2>2. V \in Nat /\ W \in Nat
    BY LayoutTypes DEF TileTypes, Modules
  <2>3. BitmapOffset("MEM") = 0 /\ BitmapOffset("CORE") = 2 * V
    BY CoreRegion DEF BitmapOffset
  <2>4. CASE mod = "MEM" /\ q.mod = "CORE"
    <3>1. b < 2 * V
      BY <2>1, <2>2, <2>3, <2>4
    <3>2. 2 * V <= RuntimeBit(q) /\ RuntimeBit(q) \in Nat
      BY <2>2, <2>3, <2>4, Regions
    <3> QED BY <2>2, <3>1, <3>2
  <2>5. CASE mod = "CORE" /\ q.mod = "MEM"
    <3>1. 2 * V <= b
      BY <2>1, <2>2, <2>3, <2>5
    <3>2. RuntimeBit(q) < V /\ RuntimeBit(q) \in Nat
      BY <2>1, <2>2, <2>3, <2>5, Regions
    <3> QED BY <2>2, <3>1, <3>2
  <2> QED BY <1>2, <2>1, <2>4, <2>5, RscFacts DEF CheckModule
<1> QED BY <1>1, <1>2

-----------------------------------------------------------------------------
(* The inductive invariant.  TypeOK bounds the bits and the requests,      *)
(* RuntimeBitsAreHeld ties the bits to their owners, and ExclusiveGrants   *)
(* is needed for both: freeing one client's bits must not free another's.  *)
IInv == TypeOK /\ RuntimeBitsAreHeld /\ ExclusiveGrants

-----------------------------------------------------------------------------
(* Sequences *)

LEMMA ToSetConcat ==
    ASSUME NEW S, NEW s \in Seq(S), NEW t \in Seq(S)
    PROVE  ToSet(s \o t) = ToSet(s) \cup ToSet(t)
<1>1. /\ s \o t \in Seq(S)
      /\ Len(s \o t) = Len(s) + Len(t)
      /\ \A i \in 1 .. Len(s) + Len(t) :
             (s \o t)[i] = IF i <= Len(s) THEN s[i] ELSE t[i - Len(s)]
      /\ Len(s) \in Nat /\ Len(t) \in Nat
  OBVIOUS
<1>2. /\ DOMAIN s = 1 .. Len(s) /\ DOMAIN t = 1 .. Len(t)
      /\ DOMAIN (s \o t) = 1 .. Len(s) + Len(t)
  BY <1>1
<1>3. ASSUME NEW x \in ToSet(s \o t) PROVE x \in ToSet(s) \cup ToSet(t)
  <2>1. PICK i \in 1 .. Len(s) + Len(t) : x = (s \o t)[i]
    BY <1>2 DEF ToSet
  <2>2. CASE i <= Len(s)
    BY <1>1, <1>2, <2>1, <2>2 DEF ToSet
  <2>3. CASE ~(i <= Len(s))
    <3>1. i - Len(s) \in 1 .. Len(t) /\ x = t[i - Len(s)]
      BY <1>1, <2>1, <2>3
    <3> QED BY <1>2, <3>1 DEF ToSet
  <2> QED BY <2>2, <2>3
<1>4. ASSUME NEW i \in 1 .. Len(s) PROVE s[i] \in ToSet(s \o t)
  <2>1. i \in 1 .. Len(s) + Len(t) /\ (s \o t)[i] = s[i]
    BY <1>1, <1>4
  <2> QED BY <1>2, <2>1 DEF ToSet
<1>5. ASSUME NEW i \in 1 .. Len(t) PROVE t[i] \in ToSet(s \o t)
  <2>1. Len(s) + i \in 1 .. Len(s) + Len(t) /\ (s \o t)[Len(s) + i] = t[i]
    BY <1>1, <1>5
  <2> QED BY <1>2, <2>1 DEF ToSet
<1> QED BY <1>2, <1>3, <1>4, <1>5 DEF ToSet

LEMMA ToSetTail ==
    ASSUME NEW S, NEW s \in Seq(S), s # <<>>
    PROVE  /\ Tail(s) \in Seq(S) /\ ToSet(Tail(s)) \subseteq ToSet(s)
           /\ Head(s) \in ToSet(s) /\ Head(s) \in S
<1>1. Tail(s) \in Seq(S) /\ Len(s) >= 1 /\ Len(s) \in Nat
  OBVIOUS
<1>2. /\ DOMAIN Tail(s) = 1 .. Len(s) - 1 /\ DOMAIN s = 1 .. Len(s)
      /\ \A i \in 1 .. Len(s) - 1 : Tail(s)[i] = s[i + 1]
      /\ Head(s) = s[1]
  BY <1>1
<1>3. \A i \in 1 .. Len(s) - 1 : i + 1 \in 1 .. Len(s)
  BY <1>1
<1> QED BY <1>1, <1>2, <1>3 DEF ToSet

LEMMA ToSetInSeq ==
    ASSUME NEW S, NEW s \in Seq(S) PROVE ToSet(s) \subseteq S
  BY DEF ToSet

LEMMA BoundedSeqIsSeq ==
    ASSUME NEW S, NEW n \in Nat, NEW s \in BoundedSeq(S, n)
    PROVE  s \in Seq(S) /\ ToSet(s) \subseteq S
<1>1. PICK m \in 0 .. n : s \in [1 .. m -> S]
  BY DEF BoundedSeq, SeqOf
<1>2. s \in Seq(S)
  BY <1>1
<1> QED BY <1>2, ToSetInSeq

-----------------------------------------------------------------------------
(* What the bitmap operations do to the bits of a resource *)

LEMMA RscBits ==
    ASSUME NEW r \in Rscs
    PROVE  /\ TypeOf(r) \in TileTypes
           /\ RuntimeBit(r) \in 0 .. BitmapSize(TypeOf(r)) - 1
           /\ StaticBit(r) \in 0 .. BitmapSize(TypeOf(r)) - 1
<1> DEFINE W == StaticBitmapOffset(TypeOf(r), r.mod)
           O == BitmapOffset(r.mod)
           Z == BitmapSize(TypeOf(r))
<1>1. TypeOf(r) \in TileTypes /\ Z \in Nat
  BY RscFacts, LayoutTypes
<1>2. O + 2 * W <= Z
  BY RscFacts, RegionsFit
<1>3. /\ W \in Nat /\ O \in Nat /\ RuntimeBit(r) \in Nat /\ StaticBit(r) \in Nat
      /\ RuntimeBit(r) < O + W /\ StaticBit(r) < O + 2 * W
  BY Regions
<1> HIDE DEF W, O, Z
<1>4. RuntimeBit(r) \in 0 .. Z - 1 /\ StaticBit(r) \in 0 .. Z - 1
  BY <1>1, <1>2, <1>3
<1> QED BY <1>1, <1>4 DEF Z

(* Marking sets the runtime bits of S and no other resource's bits.        *)
LEMMA MarkEffect ==
    ASSUME NEW S \in SUBSET Rscs, TypeOK, Bitmaps' = MarkRuntime(S)
    PROVE  /\ Bitmaps' \in [TileTypes -> SUBSET Nat]
           /\ \A tt \in TileTypes : Bitmaps'[tt] \subseteq 0 .. BitmapSize(tt) - 1
           /\ \A r \in Rscs : /\ InUse(r)' <=> InUse(r) \/ r \in S
                              /\ Reserved(r)' <=> Reserved(r)
<1>1. \A tt \in TileTypes : RuntimeBitsOf(S, tt) \subseteq 0 .. BitmapSize(tt) - 1
  BY RscBits DEF RuntimeBitsOf
<1>2. \A tt \in TileTypes : Bitmaps'[tt] = Bitmaps[tt] \cup RuntimeBitsOf(S, tt)
  BY DEF MarkRuntime
<1>3. ASSUME NEW r \in Rscs
      PROVE  /\ RuntimeBit(r) \in RuntimeBitsOf(S, TypeOf(r)) <=> r \in S
             /\ StaticBit(r) \notin RuntimeBitsOf(S, TypeOf(r))
  BY BitsAreDisjoint DEF RuntimeBitsOf
<1>4. /\ Bitmaps' \in [TileTypes -> SUBSET Nat]
      /\ \A tt \in TileTypes : Bitmaps'[tt] \subseteq 0 .. BitmapSize(tt) - 1
  <2>1. DOMAIN Bitmaps' = TileTypes /\ Bitmaps' = [tt \in TileTypes |-> Bitmaps'[tt]]
    BY DEF MarkRuntime
  <2>2. \A tt \in TileTypes : Bitmaps'[tt] \subseteq 0 .. BitmapSize(tt) - 1
    BY <1>1, <1>2 DEF TypeOK
  <2>3. \A tt \in TileTypes : 0 .. BitmapSize(tt) - 1 \subseteq Nat
    OBVIOUS
  <2> QED BY <2>1, <2>2, <2>3
<1> QED BY <1>2, <1>3, <1>4, RscBits DEF InUse, Reserved

(* Freeing clears the runtime bits of S and no other resource's bits.      *)
LEMMA FreeEffect ==
    ASSUME NEW S \in SUBSET Rscs, TypeOK, Bitmaps' = FreeRscs(S)
    PROVE  /\ Bitmaps' \in [TileTypes -> SUBSET Nat]
           /\ \A tt \in TileTypes : Bitmaps'[tt] \subseteq 0 .. BitmapSize(tt) - 1
           /\ \A r \in Rscs : /\ InUse(r)' <=> InUse(r) /\ r \notin S
                              /\ Reserved(r)' <=> Reserved(r)
<1>2. \A tt \in TileTypes : Bitmaps'[tt] = Bitmaps[tt] \ RuntimeBitsOf(S, tt)
  BY DEF FreeRscs
<1>3. ASSUME NEW r \in Rscs
      PROVE  /\ RuntimeBit(r) \in RuntimeBitsOf(S, TypeOf(r)) <=> r \in S
             /\ StaticBit(r) \notin RuntimeBitsOf(S, TypeOf(r))
  BY BitsAreDisjoint DEF RuntimeBitsOf
<1>4. /\ Bitmaps' \in [TileTypes -> SUBSET Nat]
      /\ \A tt \in TileTypes : Bitmaps'[tt] \subseteq 0 .. BitmapSize(tt) - 1
  BY <1>2 DEF FreeRscs, TypeOK
<1> QED BY <1>2, <1>3, <1>4, RscBits DEF InUse, Reserved

(* Releasing clears both bits of S and no other resource's.                *)
LEMMA ReleaseEffect ==
    ASSUME NEW S \in SUBSET Rscs, TypeOK, Bitmaps' = ReleaseRscs(S)
    PROVE  /\ Bitmaps' \in [TileTypes -> SUBSET Nat]
           /\ \A tt \in TileTypes : Bitmaps'[tt] \subseteq 0 .. BitmapSize(tt) - 1
           /\ \A r \in Rscs : /\ InUse(r)' <=> InUse(r) /\ r \notin S
                              /\ Reserved(r)' <=> Reserved(r) /\ r \notin S
<1>2. \A tt \in TileTypes : Bitmaps'[tt] =
          Bitmaps[tt] \ (RuntimeBitsOf(S, tt) \cup StaticBitsOf(S, tt))
  BY DEF ReleaseRscs
<1>3. ASSUME NEW r \in Rscs
      PROVE  /\ RuntimeBit(r) \in RuntimeBitsOf(S, TypeOf(r)) <=> r \in S
             /\ StaticBit(r) \notin RuntimeBitsOf(S, TypeOf(r))
             /\ StaticBit(r) \in StaticBitsOf(S, TypeOf(r)) <=> r \in S
             /\ RuntimeBit(r) \notin StaticBitsOf(S, TypeOf(r))
  BY BitsAreDisjoint DEF RuntimeBitsOf, StaticBitsOf
<1>4. /\ Bitmaps' \in [TileTypes -> SUBSET Nat]
      /\ \A tt \in TileTypes : Bitmaps'[tt] \subseteq 0 .. BitmapSize(tt) - 1
  BY <1>2 DEF ReleaseRscs, TypeOK
<1> QED BY <1>2, <1>3, <1>4, RscBits DEF InUse, Reserved

(* Loading static metadata touches no runtime bit and clears no static one.*)
LEMMA LoadEffect ==
    ASSUME TypeOK, LoadStaticRscfromMem
    PROVE  /\ Bitmaps' \in [TileTypes -> SUBSET Nat]
           /\ \A tt \in TileTypes : Bitmaps'[tt] \subseteq 0 .. BitmapSize(tt) - 1
           /\ \A r \in Rscs : /\ InUse(r)' <=> InUse(r)
                              /\ Reserved(r) => Reserved(r)'
<1>1. PICK tt \in TileTypes, mod \in Modules :
          /\ CheckModule(tt, mod)
          /\ \E payload \in SUBSET (0 .. StaticBitmapOffset(tt, mod) - 1) :
                 Bitmaps' = [Bitmaps EXCEPT ![tt] = @ \cup
                    { pos + BitmapOffset(mod) + StaticBitmapOffset(tt, mod) : pos \in payload }]
  BY DEF LoadStaticRscfromMem
<1> DEFINE W == StaticBitmapOffset(tt, mod)
           O == BitmapOffset(mod)
<1>2. PICK payload \in SUBSET (0 .. W - 1) :
          Bitmaps' = [Bitmaps EXCEPT ![tt] = @ \cup { pos + O + W : pos \in payload }]
  BY <1>1
<1>3. W \in Nat /\ O \in Nat /\ BitmapSize(tt) \in Nat /\ O + 2 * W <= BitmapSize(tt)
  BY <1>1, LayoutTypes, RegionsFit
<1> DEFINE New == { pos + O + W : pos \in payload }
<1>4. \A b \in New : b \in Nat /\ O + W <= b /\ b < O + 2 * W
  <2> HIDE DEF W, O
  <2> QED BY <1>2, <1>3
<1>5. New \subseteq 0 .. BitmapSize(tt) - 1
  <2> HIDE DEF New, W, O
  <2> QED BY <1>3, <1>4
<1>6. \A r \in Rscs : TypeOf(r) = tt => RuntimeBit(r) \notin New
  BY <1>1, <1>4, StaticRegion
<1>7. /\ Bitmaps'[tt] = Bitmaps[tt] \cup New
      /\ \A u \in TileTypes : u # tt => Bitmaps'[u] = Bitmaps[u]
      /\ DOMAIN Bitmaps' = TileTypes /\ Bitmaps' = [u \in TileTypes |-> Bitmaps'[u]]
  BY <1>1, <1>2 DEF TypeOK
<1> HIDE DEF New
<1>8. \A u \in TileTypes : Bitmaps'[u] \subseteq 0 .. BitmapSize(u) - 1
  BY <1>5, <1>7 DEF TypeOK
<1>9. \A u \in TileTypes : 0 .. BitmapSize(u) - 1 \subseteq Nat
  OBVIOUS
<1>10. Bitmaps' \in [TileTypes -> SUBSET Nat]
  BY <1>7, <1>8, <1>9
<1> QED BY <1>6, <1>7, <1>8, <1>10, RscBits DEF InUse, Reserved

-----------------------------------------------------------------------------
(* What one iteration of a request grants *)

(* A block of contiguous resources that is granted lies in its module.     *)
LEMMA ContigGrant ==
    ASSUME WindowsFit, TypeOK, NEW q \in PoolRequests, NEW id \in IdsOf(q.loc, q.mod),
           FindAvailableRscContig(q.loc, q.mod, id, q.n)
    PROVE  /\ q.n \in Nat \ {0} /\ id \in Nat
           /\ \A k \in id .. id + q.n - 1 : /\ Rsc(q.loc, q.mod, k) \in Rscs
                                            /\ Available(Rsc(q.loc, q.mod, k))
<1> DEFINE tt == GetTTypefromLoc(q.loc)
           M == GetMaxRscVal(tt, q.mod)
<1>1. /\ q.loc \in Locs /\ q.mod \in Modules /\ q.n \in 1 .. MaxPerTile
      /\ CheckModule(tt, q.mod) /\ tt \in TileTypes /\ M \in Nat
  BY TileRow, LayoutTypes DEF PoolRequests, Requests
<1>2. /\ id \in 0 .. M - 1 /\ id % q.n = 0 /\ id % 2 = 0
      /\ RscType \in {"PC_EVENTS", "COMBO_EVENTS"}
      /\ \A k \in id .. id + q.n - 1 : Available(Rsc(q.loc, q.mod, k))
  BY DEF FindAvailableRscContig, ContigWindow, IdsOf
<1>3. id + q.n <= M
  BY <1>1, <1>2 DEF WindowsFit
<1>4. M <= MaxRscMem + MaxRscCore + MaxRscMemTile + MaxRscPl
  BY <1>1, MaxRscAssumption DEF GetMaxRscVal, TileTypes
<1>5. ASSUME NEW k \in id .. id + q.n - 1 PROVE Rsc(q.loc, q.mod, k) \in Rscs
  <2>1. k \in Nat /\ k < M
    <3> HIDE DEF M
    <3> QED BY <1>1, <1>2, <1>3
  <2>2. k \in RscIds
    <3> HIDE DEF M
    <3> QED BY <2>1, <1>1, <1>4, MaxRscAssumption DEF RscIds
  <2> QED BY <1>1, <2>1, <2>2 DEF Rscs, Rsc
<1> QED BY <1>1, <1>2, <1>5

(* Likewise for the resources of a request that is not contiguous.         *)
LEMMA SingleGrant ==
    ASSUME NEW q \in PoolRequests, NEW id \in IdsOf(q.loc, q.mod)
    PROVE  Rsc(q.loc, q.mod, id) \in Rscs
<1> DEFINE tt == GetTTypefromLoc(q.loc)
           M == GetMaxRscVal(tt, q.mod)
<1>1. /\ q.loc \in Locs /\ q.mod \in Modules
      /\ CheckModule(tt, q.mod) /\ tt \in TileTypes /\ M \in Nat
  BY TileRow, LayoutTypes DEF PoolRequests, Requests
<1>2. M <= MaxRscMem + MaxRscCore + MaxRscMemTile + MaxRscPl
  BY <1>1, MaxRscAssumption DEF GetMaxRscVal, TileTypes
<1>3. id \in Nat /\ id < M
  BY <1>1 DEF IdsOf
<1>4. id \in RscIds
  <2> HIDE DEF M
  <2> QED BY <1>1, <1>2, <1>3, MaxRscAssumption DEF RscIds
<1> QED BY <1>1, <1>3, <1>4 DEF Rscs, Rsc

(* Every grant marks a set S of existing resources whose runtime bits were *)
(* clear, and appends exactly these to the resources of the call.          *)
LEMMA GrantShape ==
    ASSUME WindowsFit, TypeOK, GrantRsc \/ GrantRscContig \/ GrantAllocatedRsc
    PROVE  \E S \in SUBSET Rscs, rscs \in Seq(Rscs) :
               /\ ToSet(rscs) = S
               /\ \A r \in S : /\ ~InUse(r)
                               /\ call.op \in {"request", "contig"} => ~Reserved(r)
               /\ Granting(S, rscs)
               /\ call.op # "idle" /\ call.reqs # <<>>
<1> DEFINE q == Head(call.reqs)
<1>1. call.op # "idle" /\ call.reqs # <<>> /\ call.reqs \in Seq(Entries)
  BY DEF GrantRsc, GrantRscContig, GrantAllocatedRsc, TypeOK
<1>2. q \in ToSet(call.reqs)
  BY <1>1, ToSetTail
<1>3. CASE GrantRsc
  <2>1. q \in PoolRequests
    BY <1>2, <1>3 DEF GrantRsc, TypeOK
  <2>2. PICK id \in IdsOf(q.loc, q.mod) :
            /\ FindAvailableRsc(q.loc, q.mod, id)
            /\ Granting({Rsc(q.loc, q.mod, id)}, [j \in 1 .. q.n |-> Rsc(q.loc, q.mod, id)])
    BY <1>3 DEF GrantRsc
  <2> DEFINE r == Rsc(q.loc, q.mod, id)
             rscs == [j \in 1 .. q.n |-> r]
  <2>3. r \in Rscs /\ q.n \in Nat \ {0}
    BY <2>1, SingleGrant, BoundsAssumption DEF PoolRequests, Requests
  <2>4. ~InUse(r) /\ ~Reserved(r)
    BY <2>2 DEF FindAvailableRsc, Available
  <2>5. rscs \in Seq(Rscs) /\ ToSet(rscs) = {r}
    <3> HIDE DEF r, q
    <3>1. rscs \in Seq(Rscs)
      BY <2>3
    <3>2. 1 \in 1 .. q.n
      BY <2>3
    <3> QED BY <3>1, <3>2 DEF ToSet
  <2> QED BY <1>1, <2>2, <2>3, <2>4, <2>5
<1>4. CASE GrantRscContig
  <2>1. q \in PoolRequests
    BY <1>2, <1>4 DEF GrantRscContig, TypeOK
  <2>2. PICK id \in IdsOf(q.loc, q.mod) :
            /\ FindAvailableRscContig(q.loc, q.mod, id, q.n)
            /\ Granting({ Rsc(q.loc, q.mod, k) : k \in id .. id + q.n - 1 },
                        [j \in 1 .. q.n |-> Rsc(q.loc, q.mod, id + j - 1)])
    BY <1>4 DEF GrantRscContig
  <2> DEFINE S == { Rsc(q.loc, q.mod, k) : k \in id .. id + q.n - 1 }
             rscs == [j \in 1 .. q.n |-> Rsc(q.loc, q.mod, id + j - 1)]
  <2>3. /\ q.n \in Nat \ {0} /\ id \in Nat
        /\ \A k \in id .. id + q.n - 1 : /\ Rsc(q.loc, q.mod, k) \in Rscs
                                         /\ Available(Rsc(q.loc, q.mod, k))
    BY <2>1, <2>2, ContigGrant
  <2>4. \A r \in S : r \in Rscs /\ ~InUse(r) /\ ~Reserved(r)
    BY <2>3 DEF Available
  <2>5. \A j \in 1 .. q.n : id + j - 1 \in id .. id + q.n - 1
    BY <2>3
  <2>6. \A k \in id .. id + q.n - 1 : k - id + 1 \in 1 .. q.n /\ id + (k - id + 1) - 1 = k
    BY <2>3
  <2>7. rscs \in Seq(Rscs)
    <3>1. \A j \in 1 .. q.n : rscs[j] \in Rscs
      BY <2>3, <2>5
    <3> HIDE DEF q
    <3> QED BY <2>3, <3>1
  <2>8. ToSet(rscs) = S
    <3>1. ToSet(rscs) = { Rsc(q.loc, q.mod, id + j - 1) : j \in 1 .. q.n }
      BY DEF ToSet
    <3> HIDE DEF q
    <3> QED BY <2>5, <2>6, <3>1
  <2>9. S \in SUBSET Rscs
    BY <2>4
  <2> HIDE DEF S, rscs
  <2> QED BY <1>1, <2>2, <2>4, <2>7, <2>8, <2>9 DEF S, rscs
<1>5. CASE GrantAllocatedRsc
  <2>1. q \in Rscs
    BY <1>2, <1>5 DEF GrantAllocatedRsc, TypeOK
  <2>2. ~InUse(q) /\ Granting({q}, <<q>>) /\ call.op = "allocated"
    BY <1>5 DEF GrantAllocatedRsc
  <2>3. <<q>> \in Seq(Rscs) /\ ToSet(<<q>>) = {q}
    <3> HIDE DEF q
    <3> QED BY <2>1 DEF ToSet
  <2> QED BY <1>1, <2>1, <2>2, <2>3
<1> QED BY <1>3, <1>4, <1>5

-----------------------------------------------------------------------------
(* The invariant holds *)

LEMMA InitIInv == Init => IInv
<1> SUFFICES ASSUME Init PROVE IInv
  OBVIOUS
<1>1. TypeOK
  BY DEF Init, TypeOK, Idle, Ops, ToSet
<1>2. Marked = {}
  BY DEF Init, Marked, Idle, ToSet
<1>3. RuntimeBitsAreHeld
  BY <1>2, RscBits DEF Init, RuntimeBitsAreHeld, InUse
<1>4. ExclusiveGrants
  BY DEF Init, ExclusiveGrants
<1> QED BY <1>1, <1>3, <1>4 DEF IInv

(* Entering a request marks nothing.                                       *)
LEMMA BeginIInv ==
    ASSUME IInv, NEW op \in Ops \ {"idle"}, NEW c \in Clients, NEW reqs \in Seq(Entries),
           op \in {"request", "contig"} => ToSet(reqs) \subseteq PoolRequests,
           op = "allocated" => ToSet(reqs) \subseteq Rscs,
           Begin(op, c, reqs)
    PROVE  IInv'
<1>1. /\ call = Idle /\ Bitmaps' = Bitmaps /\ held' = held
      /\ call' = [op |-> op, client |-> c, reqs |-> reqs, rscs |-> <<>>]
  BY DEF Begin
<1>2. TypeOK'
  BY <1>1 DEF IInv, TypeOK
<1>3. ToSet(call.rscs) = {} /\ ToSet(call'.rscs) = {}
  BY <1>1 DEF Idle, ToSet
<1>4. Marked' = Marked
  BY <1>1, <1>3 DEF Marked
<1>5. RuntimeBitsAreHeld'
  BY <1>1, <1>4 DEF IInv, RuntimeBitsAreHeld, InUse
<1>6. ExclusiveGrants'
  BY <1>1, <1>3 DEF IInv, ExclusiveGrants
<1> QED BY <1>2, <1>5, <1>6 DEF IInv

LEMMA GrantIInv ==
    ASSUME WindowsFit, IInv, GrantRsc \/ GrantRscContig \/ GrantAllocatedRsc
    PROVE  IInv'
<1>1. PICK S \in SUBSET Rscs, rscs \in Seq(Rscs) :
          /\ ToSet(rscs) = S
          /\ \A r \in S : /\ ~InUse(r)
                          /\ call.op \in {"request", "contig"} => ~Reserved(r)
          /\ Granting(S, rscs)
          /\ call.op # "idle" /\ call.reqs # <<>>
  <2>1. TypeOK
    BY DEF IInv
  <2> QED BY <2>1, GrantShape
<1>2. TypeOK
  BY DEF IInv
<1>3. /\ Bitmaps' = MarkRuntime(S) /\ held' = held
      /\ call' = [call EXCEPT !.reqs = Tail(call.reqs), !.rscs = call.rscs \o rscs]
  BY <1>1 DEF Granting
<1>4. /\ call.rscs \in Seq(Rscs) /\ call.reqs \in Seq(Entries)
      /\ Tail(call.reqs) \in Seq(Entries)
      /\ ToSet(Tail(call.reqs)) \subseteq ToSet(call.reqs)
      /\ call.rscs \o rscs \in Seq(Rscs)
  BY <1>1, <1>2, ToSetTail DEF TypeOK
<1>5. /\ call'.op = call.op /\ call'.client = call.client
      /\ call'.reqs = Tail(call.reqs) /\ call'.rscs = call.rscs \o rscs
      /\ call' \in [op : Ops, client : Clients \cup {"none"}, reqs : Seq(Entries), rscs : Seq(Rscs)]
  BY <1>2, <1>3, <1>4 DEF TypeOK
<1>6. TypeOK'
  <2>1. /\ Bitmaps' \in [TileTypes -> SUBSET Nat]
        /\ \A tt \in TileTypes : Bitmaps'[tt] \subseteq 0 .. BitmapSize(tt) - 1
    BY <1>2, <1>3, MarkEffect
  <2> QED BY <1>1, <1>2, <1>3, <1>4, <1>5, <2>1 DEF TypeOK
<1>7. ToSet(call'.rscs) = ToSet(call.rscs) \cup S
  BY <1>1, <1>4, <1>5, ToSetConcat
<1>8. RuntimeBitsAreHeld'
  <2>1. Marked' = Marked \cup S
    BY <1>3, <1>7 DEF Marked
  <2>2. \A r \in Rscs : InUse(r)' <=> InUse(r) \/ r \in S
    BY <1>2, <1>3, MarkEffect
  <2> QED BY <2>1, <2>2 DEF RuntimeBitsAreHeld, IInv
<1>9. ExclusiveGrants'
  <2>1. \A c \in Clients : held[c] \cap S = {}
    <3>1. \A r \in S : r \in Rscs /\ ~InUse(r)
                                  BY <1>1
    <3>2. \A r \in S : r \notin Marked
      BY <3>1 DEF IInv, RuntimeBitsAreHeld
    <3>3. \A c \in Clients : held[c] \subseteq Marked
      BY DEF Marked
    <3> QED BY <3>2, <3>3
  <2> QED BY <1>3, <1>7, <2>1 DEF IInv, ExclusiveGrants
<1> QED BY <1>6, <1>8, <1>9 DEF IInv

(* The rollback of a failed request frees its own grants and nothing else. *)
LEMMA RequestFailsIInv ==
    ASSUME IInv, RequestFails PROVE IInv'
<1> DEFINE S == ToSet(call.rscs)
<1>1. TypeOK
  BY DEF IInv
<1>2. S \subseteq Rscs
  BY <1>1, ToSetInSeq DEF TypeOK
<1>3. Bitmaps' = FreeRscs(S) /\ call' = Idle /\ held' = held
  BY DEF RequestFails
<1>4. ToSet(call'.rscs) = {}
  BY <1>3 DEF Idle, ToSet
<1>5. TypeOK'
  <2>1. /\ Bitmaps' \in [TileTypes -> SUBSET Nat]
        /\ \A tt \in TileTypes : Bitmaps'[tt] \subseteq 0 .. BitmapSize(tt) - 1
    BY <1>1, <1>2, <1>3, FreeEffect
  <2> QED BY <1>1, <1>3, <2>1 DEF TypeOK, Idle, Ops
<1>6. Marked' = Marked \ S
  <2>1. Marked' = UNION { held[c] : c \in Clients }
    BY <1>3, <1>4 DEF Marked
  <2>2. \A c \in Clients : held[c] \cap S = {}
    BY DEF IInv, ExclusiveGrants
  <2> QED BY <2>1, <2>2 DEF Marked
<1>7. \A r \in Rscs : InUse(r)' <=> InUse(r) /\ r \notin S
  BY <1>1, <1>2, <1>3, FreeEffect
<1>8. RuntimeBitsAreHeld'
  BY <1>6, <1>7 DEF RuntimeBitsAreHeld, IInv
<1>9. ExclusiveGrants'
  BY <1>3, <1>4 DEF IInv, ExclusiveGrants
<1> QED BY <1>5, <1>8, <1>9 DEF IInv

LEMMA RequestReturnsIInv ==
    ASSUME IInv, RequestReturns PROVE IInv'
<1> DEFINE S == ToSet(call.rscs)
<1>1. TypeOK
  BY DEF IInv
<1>2. S \subseteq Rscs
  BY <1>1, ToSetInSeq DEF TypeOK
<1>3. /\ call.client \in Clients
      /\ held' = [held EXCEPT ![call.client] = @ \cup S] /\ call' = Idle /\ Bitmaps' = Bitmaps
  BY <1>1 DEF RequestReturns, TypeOK
<1>4. ToSet(call'.rscs) = {}
  BY <1>3 DEF Idle, ToSet
<1>5. /\ held' \in [Clients -> SUBSET Rscs]
      /\ \A c \in Clients : held'[c] = IF c = call.client THEN held[c] \cup S ELSE held[c]
  <2> HIDE DEF S
  <2> QED BY <1>1, <1>2, <1>3 DEF TypeOK
<1>6. TypeOK'
  BY <1>1, <1>3, <1>5 DEF TypeOK, Idle, Ops
<1>7. Marked' = Marked
  <2> HIDE DEF S
  <2>1. Marked' = UNION { held'[c] : c \in Clients }
    BY <1>4 DEF Marked
  <2>2. Marked = (UNION { held[c] : c \in Clients }) \cup S
    BY DEF Marked, S
  <2> QED BY <1>3, <1>5, <2>1, <2>2
<1>8. RuntimeBitsAreHeld'
  BY <1>3, <1>7 DEF IInv, RuntimeBitsAreHeld, InUse
<1>9. ExclusiveGrants'
  <2>1. \A c \in Clients : held[c] \cap S = {}
    BY DEF IInv, ExclusiveGrants
  <2>2. \A c, d \in Clients : c # d => held[c] \cap held[d] = {}
    BY DEF IInv, ExclusiveGrants
  <2>3. \A c, d \in Clients : c # d => held'[c] \cap held'[d] = {}
    <3> HIDE DEF S
    <3> QED BY <1>5, <2>1, <2>2
  <2> QED BY <1>4, <2>3 DEF ExclusiveGrants
<1> QED BY <1>6, <1>8, <1>9 DEF IInv

(* Giving resources back clears the bits of resources nobody else has.     *)
LEMMA GiveBackIInv ==
    ASSUME IInv, NEW c \in Clients, NEW S \in SUBSET Rscs, call = Idle,
           S \cap HeldByOthers(c) = {},
           Bitmaps' = FreeRscs(S) \/ Bitmaps' = ReleaseRscs(S),
           held' = [held EXCEPT ![c] = @ \ S], call' = call
    PROVE  IInv'
<1>1. TypeOK
  BY DEF IInv
<1>2. /\ Bitmaps' \in [TileTypes -> SUBSET Nat]
      /\ \A tt \in TileTypes : Bitmaps'[tt] \subseteq 0 .. BitmapSize(tt) - 1
      /\ \A r \in Rscs : InUse(r)' <=> InUse(r) /\ r \notin S
  BY <1>1, FreeEffect, ReleaseEffect
<1>3. /\ held' \in [Clients -> SUBSET Rscs]
      /\ \A d \in Clients : held'[d] = IF d = c THEN held[d] \ S ELSE held[d]
  BY <1>1 DEF TypeOK
<1>4. TypeOK'
  BY <1>1, <1>2, <1>3 DEF TypeOK
<1>5. ToSet(call.rscs) = {} /\ ToSet(call'.rscs) = {}
  BY DEF Idle, ToSet
<1>6. \A d \in Clients \ {c} : held[d] \cap S = {}
  BY DEF HeldByOthers
<1>7. Marked' = Marked \ S
  <2>1. /\ Marked' = UNION { held'[d] : d \in Clients }
        /\ Marked = UNION { held[d] : d \in Clients }
    BY <1>5 DEF Marked
  <2> QED BY <1>3, <1>6, <2>1
<1>8. RuntimeBitsAreHeld'
  BY <1>2, <1>7 DEF RuntimeBitsAreHeld, IInv
<1>9. ExclusiveGrants'
  BY <1>3, <1>5 DEF IInv, ExclusiveGrants
<1> QED BY <1>4, <1>8, <1>9 DEF IInv

LEMMA LoadIInv ==
    ASSUME IInv, LoadStaticRscfromMem PROVE IInv'
<1>1. TypeOK /\ held' = held /\ call' = call
  BY DEF IInv, LoadStaticRscfromMem
<1>2. TypeOK'
  BY <1>1, LoadEffect DEF TypeOK
<1>3. RuntimeBitsAreHeld'
  <2>1. Marked' = Marked
    BY <1>1 DEF Marked
  <2> QED BY <1>1, <2>1, LoadEffect DEF IInv, RuntimeBitsAreHeld
<1>4. ExclusiveGrants'
  BY <1>1 DEF IInv, ExclusiveGrants
<1> QED BY <1>2, <1>3, <1>4 DEF IInv

LEMMA NextIInv ==
    ASSUME WindowsFit, NamesExist, IInv, [Next]_vars PROVE IInv'
<1>1. ASSUME NEW c \in Clients, RequestRsc(c) PROVE IInv'
  <2>1. PICK reqs \in BoundedSeq(PoolRequests, MaxReqs) : Begin("request", c, reqs)
    BY <1>1 DEF RequestRsc
  <2>2. reqs \in Seq(PoolRequests) /\ ToSet(reqs) \subseteq PoolRequests
    BY BoundedSeqIsSeq, BoundsAssumption
  <2>3. reqs \in Seq(Entries)
    BY <2>2 DEF Entries, PoolRequests
  <2> QED BY <2>1, <2>2, <2>3, BeginIInv DEF Ops
<1>2. ASSUME NEW c \in Clients, RequestRscContiguous(c) PROVE IInv'
  <2>1. PICK reqs \in BoundedSeq(PoolRequests, MaxReqs) : Begin("contig", c, reqs)
    BY <1>2 DEF RequestRscContiguous
  <2>2. reqs \in Seq(PoolRequests) /\ ToSet(reqs) \subseteq PoolRequests
    BY BoundedSeqIsSeq, BoundsAssumption
  <2>3. reqs \in Seq(Entries)
    BY <2>2 DEF Entries, PoolRequests
  <2> QED BY <2>1, <2>2, <2>3, BeginIInv DEF Ops
<1>3. ASSUME NEW c \in Clients, RequestAllocatedRsc(c) PROVE IInv'
  <2>1. PICK reqs \in BoundedSeq(NamedRscs, MaxReqs) : Begin("allocated", c, reqs)
    BY <1>3 DEF RequestAllocatedRsc
  <2>2. reqs \in Seq(Rscs) /\ ToSet(reqs) \subseteq Rscs
    BY BoundedSeqIsSeq, BoundsAssumption DEF NamesExist
  <2>3. reqs \in Seq(Entries)
    BY <2>2 DEF Entries
  <2> QED BY <2>1, <2>2, <2>3, BeginIInv DEF Ops
<1>4. ASSUME NEW c \in Clients, Free(c) PROVE IInv'
  <2>1. PICK S \in SUBSET held[c] :
            /\ Bitmaps' = FreeRscs(S) /\ held' = [held EXCEPT ![c] = @ \ S]
            /\ call = Idle /\ call' = call
    BY <1>4 DEF Free
  <2>2. S \in SUBSET Rscs /\ S \cap HeldByOthers(c) = {}
    BY DEF IInv, TypeOK, ExclusiveGrants, HeldByOthers
  <2> QED BY <2>1, <2>2, GiveBackIInv
<1>5. ASSUME NEW c \in Clients, Release(c) PROVE IInv'
  <2>1. PICK S \in SUBSET (NamedRscs \ HeldByOthers(c)) :
            /\ Bitmaps' = ReleaseRscs(S) /\ held' = [held EXCEPT ![c] = @ \ S]
            /\ call = Idle /\ call' = call
    BY <1>5 DEF Release
  <2>2. S \in SUBSET Rscs /\ S \cap HeldByOthers(c) = {}
    BY DEF NamesExist
  <2> QED BY <2>1, <2>2, GiveBackIInv
<1>6. CASE GrantRsc \/ GrantRscContig \/ GrantAllocatedRsc
  BY <1>6, GrantIInv
<1>7. CASE RequestFails
  BY <1>7, RequestFailsIInv
<1>8. CASE RequestReturns
  BY <1>8, RequestReturnsIInv
<1>9. CASE LoadStaticRscfromMem
  BY <1>9, LoadIInv
<1>10. CASE UNCHANGED vars
  BY <1>10 DEF vars, IInv, TypeOK, RuntimeBitsAreHeld, ExclusiveGrants, Marked, InUse
<1> QED BY <1>1, <1>2, <1>3, <1>4, <1>5, <1>6, <1>7, <1>8, <1>9, <1>10 DEF Next

(* Types, ownership of the runtime bits and exclusiveness of the grants    *)
(* hold in every reachable state, for every partition, every number of     *)
(* clients and every request list (_XAie_RscMgr_RequestRsc and the rest).  *)
THEOREM RscMgrSafety ==
    ASSUME WindowsFit, NamesExist
    PROVE  Spec => [](TypeOK /\ RuntimeBitsAreHeld /\ ExclusiveGrants)
<1>1. Init => IInv
  BY InitIInv
<1>2. IInv /\ [Next]_vars => IInv'
  BY NextIInv
<1>3. IInv => TypeOK /\ RuntimeBitsAreHeld /\ ExclusiveGrants
  BY DEF IInv
<1> QED BY <1>1, <1>2, <1>3, PTL DEF Spec

-----------------------------------------------------------------------------
(* The bits that XAie_GetAvailRscStat counts in a module are those of its  *)
(* resources, one for one.                                                 *)
LEMMA BitsOfModule ==
    ASSUME NEW m \in ModLocs, NEW id \in IdsOf(m.loc, m.mod)
    PROVE  /\ Rsc(m.loc, m.mod, id) \in Rscs
           /\ TypeOf(Rsc(m.loc, m.mod, id)) = GetTTypefromLoc(m.loc)
           /\ RuntimeBit(Rsc(m.loc, m.mod, id)) = StartBit(m.loc, m.mod) + id
           /\ StaticBit(Rsc(m.loc, m.mod, id)) =
                  StartBit(m.loc, m.mod) + id + StaticBitmapOffset(GetTTypefromLoc(m.loc), m.mod)
<1> DEFINE r == Rsc(m.loc, m.mod, id)
<1>1. /\ m.loc \in Locs /\ m.mod \in Modules /\ CheckModule(GetTTypefromLoc(m.loc), m.mod)
  BY DEF ModLocs
<1>2. r.loc = m.loc /\ r.mod = m.mod /\ r.id = id
  BY DEF Rsc
<1>3. GetTTypefromLoc(m.loc) \in TileTypes /\ GetMaxRscVal(GetTTypefromLoc(m.loc), m.mod) \in Nat
  BY <1>1, TileRow, LayoutTypes
<1>4. id \in Nat /\ id < GetMaxRscVal(GetTTypefromLoc(m.loc), m.mod)
  BY <1>3 DEF IdsOf
<1>5. GetMaxRscVal(GetTTypefromLoc(m.loc), m.mod) <= MaxRscMem + MaxRscCore + MaxRscMemTile + MaxRscPl
  BY <1>1, <1>3, MaxRscAssumption DEF GetMaxRscVal, TileTypes
<1>6. id \in RscIds
  BY <1>3, <1>4, <1>5, MaxRscAssumption DEF RscIds
<1>7. r \in Rscs
  BY <1>1, <1>4, <1>6 DEF Rscs, Rsc
<1> QED BY <1>2, <1>7 DEF TypeOf, RuntimeBit, StaticBit

(* What XAie_GetAvailRscStat returns for a module is the number of its     *)
(* resources neither held, nor being granted, nor reserved, on a partition *)
(* of any size: the interval of bits it scans is the module's own.         *)
LEMMA StatIsTrue ==
    ASSUME RuntimeBitsAreHeld PROVE AvailRscStatIsTrue
<1> SUFFICES ASSUME NEW m \in ModLocs
             PROVE  GetAvailRscs(m.loc, m.mod) =
                        Cardinality({ id \in IdsOf(m.loc, m.mod) :
                            /\ Rsc(m.loc, m.mod, id) \notin Marked
                            /\ ~Reserved(Rsc(m.loc, m.mod, id)) })
  BY DEF AvailRscStatIsTrue
<1> DEFINE tt == GetTTypefromLoc(m.loc)
           B == StartBit(m.loc, m.mod)
           M == GetMaxRscVal(tt, m.mod)
           W == StaticBitmapOffset(tt, m.mod)
           Ids == { id \in 0 .. M - 1 : /\ Rsc(m.loc, m.mod, id) \notin Marked
                                       /\ ~Reserved(Rsc(m.loc, m.mod, id)) }
           Clear == { i \in B .. B + M - 1 : i \notin Bitmaps[tt] /\ i + W \notin Bitmaps[tt] }
           f == [id \in Ids |-> B + id]
<1>1. m.loc \in Locs /\ m.mod \in Modules /\ tt \in TileTypes /\ M \in Nat
  BY TileRow, LayoutTypes DEF ModLocs
<1>2. B \in Nat
  <2>1. TileIndex(m.loc) \in Nat /\ BitmapOffset(m.mod) \in Nat
    BY <1>1, TileIndexBound, LayoutTypes
  <2>2. TileIndex(m.loc) * M \in Nat
    BY <1>1, <2>1
  <2> QED BY <2>1, <2>2 DEF StartBit
<1>3. \A id \in 0 .. M - 1 :
          id \in Ids <=> B + id \notin Bitmaps[tt] /\ (B + id) + W \notin Bitmaps[tt]
  <2> SUFFICES ASSUME NEW id \in 0 .. M - 1
               PROVE  id \in Ids <=> B + id \notin Bitmaps[tt] /\ (B + id) + W \notin Bitmaps[tt]
    OBVIOUS
  <2> DEFINE r == Rsc(m.loc, m.mod, id)
  <2>1. /\ r \in Rscs /\ TypeOf(r) = tt
        /\ RuntimeBit(r) = B + id /\ StaticBit(r) = (B + id) + W
    BY BitsOfModule DEF IdsOf
  <2>2. r \in Marked <=> B + id \in Bitmaps[tt]
    BY <2>1 DEF RuntimeBitsAreHeld, InUse
  <2>3. Reserved(r) <=> (B + id) + W \in Bitmaps[tt]
    BY <2>1 DEF Reserved
  <2> QED BY <2>2, <2>3
<1>4. Ids \subseteq 0 .. M - 1
  OBVIOUS
<1>5. \A i \in B .. B + M - 1 : i \notin Clear <=> i \in Bitmaps[tt] \/ i + W \in Bitmaps[tt]
  OBVIOUS
<1>6. Clear \subseteq B .. B + M - 1
  OBVIOUS
<1>7. GetAvailRscs(m.loc, m.mod) = Cardinality(Clear)
  BY DEF GetAvailRscs
<1> HIDE DEF tt, B, M, W, Ids, Clear
<1>8. f \in [Ids -> Clear]
  BY <1>1, <1>2, <1>3, <1>4, <1>5
<1>9. \A a, b \in Ids : f[a] = f[b] => a = b
  BY <1>1, <1>2, <1>4
<1>10. \A i \in Clear : \E id \in Ids : f[id] = i
  <2> SUFFICES ASSUME NEW i \in Clear PROVE \E id \in Ids : f[id] = i
    OBVIOUS
  <2>1. i - B \in 0 .. M - 1 /\ B + (i - B) = i
    BY <1>1, <1>2, <1>6
  <2>2. i - B \in Ids
    BY <2>1, <1>3, <1>5, <1>6
  <2> QED BY <2>1, <2>2
<1>11. ExistsBijection(Ids, Clear)
  <2> HIDE DEF f
  <2>1. f \in Bijection(Ids, Clear)
    BY <1>8, <1>9, <1>10, Fun_IsBij
  <2> QED BY <2>1, Fun_ExistsBij
<1>12. IsFiniteSet(Ids)
  <2>1. IsFiniteSet(0 .. M - 1)
    BY <1>1, FS_Interval
  <2> QED BY <2>1, <1>4, FS_Subset
<1>13. Cardinality(Clear) = Cardinality(Ids)
  BY <1>11, <1>12, FS_Bijection
<1> QED BY <1>7, <1>13 DEF Ids, M, tt, IdsOf

(* XAie_GetAvailRscStat tells the truth in every reachable state.          *)
THEOREM AvailRscStatIsTrueHolds ==
    ASSUME WindowsFit, NamesExist PROVE Spec => []AvailRscStatIsTrue
<1>1. RuntimeBitsAreHeld => AvailRscStatIsTrue
  BY StatIsTrue
<1> QED BY <1>1, RscMgrSafety, PTL

-----------------------------------------------------------------------------
(* Serving, refusing or returning a request changes no reservation: the    *)
(* roll back of a request that fails clears runtime bits only              *)
(* (_XAie_RscMgr_FreeRscs, not _XAie_RscMgr_ReleaseRscs).                  *)
THEOREM RequestsKeepReservationsHolds ==
    ASSUME WindowsFit, NamesExist PROVE Spec => RequestsKeepReservations
<1> DEFINE A == call # Idle => \A r \in Rscs : Reserved(r) <=> Reserved(r)'
<1>1. ASSUME TypeOK, [Next]_vars, call # Idle
      PROVE  \A r \in Rscs : Reserved(r) <=> Reserved(r)'
  <2>1. CASE GrantRsc \/ GrantRscContig \/ GrantAllocatedRsc
    <3>1. PICK S \in SUBSET Rscs, rscs \in Seq(Rscs) : Granting(S, rscs)
      BY <1>1, <2>1, GrantShape
    <3>2. Bitmaps' = MarkRuntime(S)
      BY <3>1 DEF Granting
    <3> QED BY <1>1, <3>2, MarkEffect
  <2>2. CASE RequestFails
    <3>1. ToSet(call.rscs) \in SUBSET Rscs
      BY <1>1, ToSetInSeq DEF TypeOK
    <3>2. Bitmaps' = FreeRscs(ToSet(call.rscs))
      BY <2>2 DEF RequestFails
    <3> QED BY <1>1, <3>1, <3>2, FreeEffect
  <2>3. ASSUME Bitmaps' = Bitmaps
        PROVE  \A r \in Rscs : Reserved(r) <=> Reserved(r)'
    BY <2>3 DEF Reserved
  <2>4. CASE RequestReturns \/ UNCHANGED vars
    BY <2>3, <2>4 DEF RequestReturns, vars
  <2>5. ~LoadStaticRscfromMem
    BY <1>1 DEF LoadStaticRscfromMem
  <2>6. \A c \in Clients : ~(\/ RequestRsc(c) \/ RequestRscContiguous(c)
                             \/ RequestAllocatedRsc(c) \/ Free(c) \/ Release(c))
    BY <1>1 DEF RequestRsc, RequestRscContiguous, RequestAllocatedRsc, Begin, Free, Release
  <2> QED BY <1>1, <2>1, <2>2, <2>4, <2>5, <2>6 DEF Next
<1>2. Spec => []TypeOK
  BY RscMgrSafety, PTL
<1>3. TypeOK /\ [Next]_vars => [A]_vars
  BY <1>1
<1> HIDE DEF A
<1>4. Spec => [][A]_vars
  BY <1>2, <1>3, PTL DEF Spec
<1> QED BY <1>4 DEF RequestsKeepReservations, A

-----------------------------------------------------------------------------
(* Every step of the resource manager is a step of the pool of resources   *)
(* or leaves the pool as it is.                                            *)
LEMMA PoolStep ==
    ASSUME WindowsFit, NamesExist, IInv, [Next]_vars
    PROVE  [Pool!Next]_(Pool!poolVars)
<1> DEFINE res == { r \in Rscs : Reserved(r) }
<1> USE DEF Pool!poolVars, Pool!Next
<1>1. TypeOK
  BY DEF IInv
<1>2. ASSUME \A r \in Rscs : Reserved(r)' <=> Reserved(r)  PROVE res' = res
  BY <1>2
<1>3. ASSUME Bitmaps' = Bitmaps PROVE res' = res
  BY <1>3 DEF Reserved
<1>4. ASSUME NEW op, NEW c, NEW reqs, Begin(op, c, reqs) PROVE res' = res /\ held' = held
  BY <1>3, <1>4 DEF Begin
<1>5. ASSUME NEW c \in Clients, RequestRsc(c) \/ RequestRscContiguous(c) \/ RequestAllocatedRsc(c)
      PROVE  res' = res /\ held' = held
  <2> HIDE DEF res
  <2> QED BY <1>4, <1>5 DEF RequestRsc, RequestRscContiguous, RequestAllocatedRsc
<1>6. ASSUME GrantRsc \/ GrantRscContig \/ GrantAllocatedRsc PROVE res' = res /\ held' = held
  <2>1. PICK S \in SUBSET Rscs, rscs \in Seq(Rscs) :
            /\ ToSet(rscs) = S
            /\ \A r \in S : /\ ~InUse(r)
                            /\ call.op \in {"request", "contig"} => ~Reserved(r)
            /\ Granting(S, rscs)
            /\ call.op # "idle" /\ call.reqs # <<>>
    BY <1>1, <1>6, GrantShape
  <2>2. Bitmaps' = MarkRuntime(S) /\ held' = held
    BY <2>1 DEF Granting
  <2>3. \A r \in Rscs : Reserved(r)' <=> Reserved(r)
    BY <1>1, <2>2, MarkEffect
  <2> QED BY <1>2, <2>2, <2>3
<1>7. ASSUME RequestFails PROVE res' = res /\ held' = held
  <2>1. ToSet(call.rscs) \in SUBSET Rscs
    BY <1>1, ToSetInSeq DEF TypeOK
  <2>2. Bitmaps' = FreeRscs(ToSet(call.rscs)) /\ held' = held
    BY <1>7 DEF RequestFails
  <2>3. \A r \in Rscs : Reserved(r)' <=> Reserved(r)
    BY <1>1, <2>1, <2>2, FreeEffect
  <2> QED BY <1>2, <2>2, <2>3
<1>8. ASSUME RequestReturns PROVE \E c \in Clients : Pool!Grant(c)
  <2> DEFINE S == ToSet(call.rscs)
  <2>1. /\ call.client \in Clients /\ S \subseteq Rscs
        /\ held' = [held EXCEPT ![call.client] = @ \cup S] /\ Bitmaps' = Bitmaps
    BY <1>1, <1>8, ToSetInSeq DEF RequestReturns, TypeOK
  <2>2. S \cap Pool!Taken = {}
    BY DEF IInv, ExclusiveGrants, Pool!Taken
  <2>3. res' = res
    BY <1>3, <2>1
  <2>4. S \in SUBSET (Rscs \ Pool!Taken)
    BY <2>1, <2>2
  <2> HIDE DEF S
  <2> QED BY <2>1, <2>3, <2>4 DEF Pool!Grant
<1>9. ASSUME NEW c \in Clients, Free(c) PROVE Pool!Free(c)
  <2>1. PICK S \in SUBSET held[c] :
            Bitmaps' = FreeRscs(S) /\ held' = [held EXCEPT ![c] = @ \ S]
    BY <1>9 DEF Free
  <2>2. S \in SUBSET Rscs
    BY <1>1 DEF TypeOK
  <2>3. \A r \in Rscs : Reserved(r)' <=> Reserved(r)
    BY <1>1, <2>1, <2>2, FreeEffect
  <2>4. res' = res
    BY <1>2, <2>3
  <2> QED BY <2>1, <2>4 DEF Pool!Free
<1>10. ASSUME NEW c \in Clients, Release(c) PROVE Pool!Release(c)
  <2>1. PICK S \in SUBSET (NamedRscs \ HeldByOthers(c)) :
            Bitmaps' = ReleaseRscs(S) /\ held' = [held EXCEPT ![c] = @ \ S]
    BY <1>10 DEF Release
  <2>6. S \in SUBSET Rscs
    BY DEF NamesExist
  <2>2. \A r \in Rscs : Reserved(r)' <=> Reserved(r) /\ r \notin S
    BY <1>1, <2>1, <2>6, ReleaseEffect
  <2>3. res' = res \ S
    BY <2>2
  <2>4. Pool!Taken \ held[c] \subseteq HeldByOthers(c)
    BY DEF Pool!Taken, HeldByOthers
  <2>5. S \in SUBSET (Rscs \ (Pool!Taken \ held[c]))
    BY <2>4, <2>6
  <2> QED BY <2>1, <2>3, <2>5 DEF Pool!Release
<1>11. ASSUME LoadStaticRscfromMem PROVE Pool!LoadStatic
  <2>1. \A r \in Rscs : Reserved(r) => Reserved(r)'
    BY <1>1, <1>11, LoadEffect
  <2>2. res' = res \cup res' /\ res' \in SUBSET Rscs
    BY <2>1
  <2>3. held' = held
    BY <1>11 DEF LoadStaticRscfromMem
  <2> QED BY <2>2, <2>3 DEF Pool!LoadStatic
<1>12. CASE UNCHANGED vars
  BY <1>3, <1>12 DEF vars
<1> HIDE DEF res
<1>13. CASE Next
  BY <1>5, <1>6, <1>7, <1>8, <1>9, <1>10, <1>11, <1>13 DEF Next, res
<1> QED BY <1>12, <1>13 DEF res

(* The bitmaps implement the pool, for every partition: callers see        *)
(* exclusive, all-or-nothing grants although the driver marks bit by bit   *)
(* and rolls back.                                                         *)
THEOREM RscMgrImplementsPool ==
    ASSUME WindowsFit, NamesExist PROVE Spec => ImplementsPool
<1>1. Init => Pool!Init
  <2> SUFFICES ASSUME Init PROVE Pool!Init
    OBVIOUS
  <2>1. \A r \in Rscs : ~Reserved(r)
    BY RscBits DEF Init, Reserved
  <2> QED BY <2>1 DEF Init, Pool!Init
<1>2. IInv /\ [Next]_vars => [Pool!Next]_(Pool!poolVars)
  BY PoolStep
<1>3. Spec => []IInv
  BY InitIInv, NextIInv, PTL DEF Spec
<1> QED BY <1>1, <1>2, <1>3, PTL DEF Spec, ImplementsPool, Pool!Spec
=============================================================================
