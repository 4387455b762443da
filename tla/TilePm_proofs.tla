--------------------------- MODULE TilePm_proofs ---------------------------
(***************************************************************************)
(* Proofs about the clocks of tiles, for partitions of every shape, lists  *)
(* of every length and both generations.                                   *)
(***************************************************************************)
EXTENDS TilePm, Integers, TLAPS

(* A pair of digits in a mixed radix names one number (the shape of every  *)
(* index the driver computes: column and row, tile and resource id).       *)
LEMMA MixedRadix ==
    ASSUME NEW a \in Nat, NEW c \in Nat, NEW n \in Nat, NEW b \in Nat, NEW d \in Nat,
           b < n, d < n, a * n + b = c * n + d
    PROVE  a = c /\ b = d
<1>1. ASSUME NEW x \in Nat, NEW y \in Nat, NEW u \in Nat, NEW v \in Nat,
             x < y, u < n, x * n + u = y * n + v
      PROVE  FALSE
  <2>1. PICK k \in Nat : y = x + 1 + k
    <3>1. y - x - 1 \in Nat /\ y = x + 1 + (y - x - 1)
      BY <1>1
    <3> QED BY <3>1
  <2>2. y * n = x * n + n + k * n
    BY <2>1
  <2>3. k * n \in Nat /\ x * n \in Nat /\ y * n \in Nat
    OBVIOUS
  <2> QED BY <1>1, <2>2, <2>3
<1>2. a = c
  BY <1>1
<1> QED BY <1>2

(* What the runs that pass assume too: one device instance (the bitmap is  *)
(* shared by all of them), and none of the orders of calls after which the *)
(* bitmap and the registers disagree.                                      *)
OneInstance == Allowed = {} /\ \A d, e \in Devs : d = e

Pass(d, c, j) == <<c, j>> \in NextTileClk[d]
ColumnInUse(c) == \E u \in AieRows : InUse(c, u)
Working(d, c, stages) == call[d].stage \in stages /\ Col(d) = c

(* The tiles in use have a clock.                                          *)
UsedAreClocked ==
    \A d \in Devs, c \in Cols, r \in AieRows : InUse(c, r) => Clocked(d, c, r)

(* A column that is not in use yet passes the clock on everywhere.         *)
UnusedColumnsPass ==
    DevGen = "AIE" => \A d \in Devs, c \in Cols :
        ~Working(d, c, {"gate", "mark"}) /\ ~ColumnInUse(c) => \A j \in Rows : Pass(d, c, j)

(* The loops over a column: up to the row they are at, or to the tile that *)
(* is marked next, the clock passes.                                       *)
LoopsFollowTheClock ==
    \A d \in Devs : call[d].stage \in {"ungate", "gate", "mark"} =>
        /\ DevGen = "AIE" /\ call[d].locs # <<>> /\ Row(d) # 0
        /\ Col(d) \in ColClk[d]
        /\ call[d].stage = "ungate" =>
               /\ call[d].row <= Row(d)
               /\ \A j \in Rows : j < call[d].row => Pass(d, Col(d), j)
        /\ call[d].stage = "gate" =>
               /\ ~ColumnInUse(Col(d)) /\ Row(d) <= call[d].row
               /\ \A j \in Rows : j < call[d].row => Pass(d, Col(d), j)
        /\ call[d].stage = "mark" => \A j \in Rows : j < Row(d) => Pass(d, Col(d), j)

(* The lowest row that is gated on behalf of the column's tiles in use.    *)
IsGatedFrom(d, c, j) ==
    IF Working(d, c, {"ungate", "mark"}) THEN j >= Row(d)
    ELSE IF Working(d, c, {"gate"}) THEN j >= call[d].row
    ELSE ColumnInUse(c)

(* ... and what lies above it is gated.                                    *)
AboveIsGated ==
    DevGen = "AIE" => \A d \in Devs, c \in Cols, j \in Rows :
        j + 1 \in Rows /\ ~InUse(c, j + 1) /\ IsGatedFrom(d, c, j) => ~Pass(d, c, j)

(* The tiles of a request are in use or still in the list.                 *)
RequestProgresses ==
    \A d \in Devs : \A t \in call[d].all :
        t[2] = 0 \/ InUse(t[1], t[2]) \/ \E k \in DOMAIN call[d].locs : t = call[d].locs[k]

RequestedAreInUse == \A d \in Devs : \A t \in requested[d] : t[2] = 0 \/ InUse(t[1], t[2])

(* AIE-ML marks whole columns.                                             *)
ColumnsAreWhole ==
    DevGen = "AIEML" => \A c \in Cols, r, s \in AieRows : InUse(c, r) => InUse(c, s)

IInv ==
    /\ TypeOK /\ InUseIsColumnPrefix /\ UsedAreClocked /\ UnusedColumnsPass
    /\ LoopsFollowTheClock /\ AboveIsGated /\ RequestProgresses /\ RequestedAreInUse
    /\ ColumnsAreWhole

-----------------------------------------------------------------------------
(* Bits *)

LEMMA Shape ==
    /\ NumRows - 1 \in Nat \ {0} /\ NumCols \in Nat \ {0}
    /\ \A c \in Cols : c \in Nat /\ c < NumCols
    /\ \A r \in Rows : r \in Nat /\ r < NumRows
    /\ \A r \in AieRows : r \in Rows /\ r - 1 \in Nat /\ r - 1 < NumRows - 1 /\ r >= 1
    /\ \A r \in Rows : r # 0 => r \in AieRows
    /\ 0 \in Rows /\ 1 \in AieRows /\ NumRows - 1 \in AieRows
  BY ShapeAssumption DEF Cols, Rows, AieRows

(* Different tiles have different bits.                                    *)
LEMMA BitsDiffer ==
    ASSUME NEW c \in Cols, NEW r \in AieRows, NEW e \in Cols, NEW s \in AieRows,
           TileBit(c, r) = TileBit(e, s)
    PROVE  c = e /\ r = s
<1> DEFINE N == NumRows - 1
<1>1. /\ c \in Nat /\ e \in Nat /\ N \in Nat /\ r \in Nat /\ s \in Nat
      /\ r - 1 \in Nat /\ s - 1 \in Nat /\ r - 1 < N /\ s - 1 < N
  BY Shape
<1>2. c * N \in Nat /\ e * N \in Nat
  BY <1>1
<1>3. c * N + (r - 1) = e * N + (s - 1)
  <2>1. c * N + r - 1 = e * N + s - 1
    BY DEF TileBit
  <2> HIDE DEF N
  <2> QED BY <1>1, <1>2, <2>1
<1> HIDE DEF N
<1>4. c = e /\ r - 1 = s - 1
  BY <1>1, <1>3, MixedRadix
<1> QED BY <1>1, <1>4

LEMMA BitsAreIntegers ==
    ASSUME NEW c \in Cols, NEW r \in AieRows
    PROVE  TileBit(c, r) \in Nat /\ TileBit(c, r) = c * (NumRows - 1) + (r - 1)
<1> DEFINE N == NumRows - 1
<1>1. c \in Nat /\ N \in Nat /\ r \in Nat /\ r - 1 \in Nat
  BY Shape
<1>2. c * N \in Nat
  BY <1>1
<1>3. TileBit(c, r) = c * N + r - 1
  BY DEF TileBit
<1> HIDE DEF N
<1>4. TileBit(c, r) = c * N + (r - 1) /\ TileBit(c, r) \in Nat
  BY <1>1, <1>2, <1>3
<1> QED BY <1>4 DEF N

(* The bits that are set for a tile are those of the column's rows up to   *)
(* its own, and of no other column.                                        *)
LEMMA MarkedBits ==
    ASSUME NEW c \in Cols, NEW r \in AieRows, NEW e \in Cols, NEW s \in AieRows
    PROVE  TileBit(e, s) \in TileBit(c, r) + 1 - r .. TileBit(c, r) <=> e = c /\ s <= r
<1> DEFINE N == NumRows - 1
           x == c * N
<1>1. /\ c \in Nat /\ N \in Nat /\ r \in Nat /\ s \in Nat /\ r >= 1 /\ s >= 1
      /\ TileBit(c, r) = x + (r - 1) /\ TileBit(e, s) \in Nat
  BY Shape, BitsAreIntegers
<1>2. x \in Nat
  BY <1>1
<1>3. e = c => TileBit(e, s) = x + (s - 1)
  BY BitsAreIntegers
<1>4. ASSUME TileBit(e, s) \in TileBit(c, r) + 1 - r .. TileBit(c, r)
      PROVE  e = c /\ s <= r
  <2> HIDE DEF x
  <2>1. PICK k \in 0 .. r - 1 : TileBit(e, s) = x + k
    <3>1. TileBit(e, s) - x \in 0 .. r - 1
      BY <1>1, <1>2, <1>4
    <3> QED BY <1>1, <1>2, <3>1
  <2>2. k + 1 \in AieRows /\ k \in Nat
    BY <1>1, <2>1, ShapeAssumption DEF AieRows, Rows
  <2>3. TileBit(c, k + 1) = x + k
    BY <2>2, BitsAreIntegers, <1>1 DEF x
  <2>4. e = c /\ s = k + 1
    BY <2>1, <2>2, <2>3, BitsDiffer
  <2> QED BY <2>1, <2>4, <1>1
<1>5. ASSUME e = c, s <= r
      PROVE  TileBit(e, s) \in TileBit(c, r) + 1 - r .. TileBit(c, r)
  <2> HIDE DEF x
  <2> QED BY <1>1, <1>2, <1>3, <1>5
<1> QED BY <1>4, <1>5

LEMMA BitOrder ==
    ASSUME NEW c \in Cols, NEW r \in AieRows, NEW s \in AieRows
    PROVE  TileBit(c, r) > TileBit(c, s) <=> r > s
<1> DEFINE x == c * (NumRows - 1)
<1>1. /\ TileBit(c, r) = x + (r - 1) /\ TileBit(c, s) = x + (s - 1)
      /\ x \in Nat /\ r \in Nat /\ s \in Nat
  <2>1. c \in Nat /\ NumRows - 1 \in Nat
    BY Shape
  <2> QED BY <2>1, Shape, BitsAreIntegers
<1> HIDE DEF x
<1> QED BY <1>1

(* The tile a request is at is one of the partition.                       *)
LEMMA LocInTiles ==
    ASSUME TypeOK, NEW d \in Devs, call[d].locs # <<>>
    PROVE  /\ Loc(d) \in Tiles /\ Loc(d) = <<Col(d), Row(d)>>
           /\ Col(d) \in Cols /\ Row(d) \in Rows
           /\ Tail(call[d].locs) \in Seq(Tiles)
           /\ \A k \in DOMAIN call[d].locs : 
                  call[d].locs[k] = Loc(d)
                  \/ \E i \in DOMAIN Tail(call[d].locs) : Tail(call[d].locs)[i] = call[d].locs[k]
<1> DEFINE s == call[d].locs
<1>1. s \in Seq(Tiles) /\ s # <<>>
  BY DEF TypeOK
<1> HIDE DEF s
<1>2. /\ Head(s) \in Tiles /\ Tail(s) \in Seq(Tiles)
      /\ Len(s) \in Nat /\ Len(s) >= 1 /\ DOMAIN s = 1 .. Len(s)
      /\ Len(Tail(s)) = Len(s) - 1 /\ DOMAIN Tail(s) = 1 .. Len(s) - 1
      /\ \A i \in 1 .. Len(s) - 1 : Tail(s)[i] = s[i + 1]
      /\ Head(s) = s[1]
  BY <1>1
<1>3. ASSUME NEW k \in DOMAIN s, k # 1
      PROVE  k - 1 \in DOMAIN Tail(s) /\ Tail(s)[k - 1] = s[k]
  BY <1>2, <1>3
<1>4. \A k \in DOMAIN s : s[k] = Head(s) \/ \E i \in DOMAIN Tail(s) : Tail(s)[i] = s[k]
  BY <1>2, <1>3
<1>5. Head(s) = <<Head(s)[1], Head(s)[2]>> /\ Head(s)[1] \in Cols /\ Head(s)[2] \in Rows
  BY <1>2 DEF Tiles
<1> QED BY <1>2, <1>4, <1>5 DEF s, Loc, Col, Row

(* What the two ways to go on do to the request.                           *)
CallSet == [Devs -> [stage : Stages, locs : Seq(Tiles), all : SUBSET Tiles, row : Rows]]

LEMMA NextLocEffect ==
    ASSUME TypeOK, NEW d \in Devs, call[d].locs # <<>>, NextLoc(d)
    PROVE  /\ call' \in CallSet
           /\ call'[d] = [stage |-> "tile", locs |-> Tail(call[d].locs),
                          all |-> call[d].all, row |-> 0]
<1>1. call \in CallSet /\ Tail(call[d].locs) \in Seq(Tiles) /\ 0 \in Rows
  BY LocInTiles, Shape DEF TypeOK, CallSet
<1>2. call[d] \in [stage : Stages, locs : Seq(Tiles), all : SUBSET Tiles, row : Rows]
  BY <1>1 DEF CallSet
<1>3. call'[d] = [stage |-> "tile", locs |-> Tail(call[d].locs), all |-> call[d].all, row |-> 0]
  BY <1>1, <1>2 DEF NextLoc, CallSet
<1>4. DOMAIN call' = Devs /\ call' = [e \in Devs |-> call'[e]]
  BY <1>1 DEF NextLoc, CallSet
<1>5. \A e \in Devs : e # d => call'[e] = call[e]
  BY <1>1 DEF NextLoc, CallSet
<1>6. ASSUME NEW e \in Devs
      PROVE  call'[e] \in [stage : Stages, locs : Seq(Tiles), all : SUBSET Tiles, row : Rows]
  <2>1. CASE e = d
    BY <1>1, <1>2, <1>3, <2>1 DEF Stages
  <2>2. CASE e # d
    BY <1>1, <1>5, <2>2 DEF CallSet
  <2> QED BY <2>1, <2>2
<1> QED BY <1>3, <1>4, <1>6 DEF CallSet

LEMMA GoToEffect ==
    ASSUME TypeOK, NEW d \in Devs, NEW stage \in Stages, NEW row \in Rows, GoTo(d, stage, row)
    PROVE  /\ call' \in CallSet
           /\ call'[d] = [stage |-> stage, locs |-> call[d].locs,
                          all |-> call[d].all, row |-> row]
           /\ Col(d)' = Col(d) /\ Row(d)' = Row(d)
<1>1. call \in CallSet
  BY DEF TypeOK, CallSet
<1>2. call[d] \in [stage : Stages, locs : Seq(Tiles), all : SUBSET Tiles, row : Rows]
  BY <1>1 DEF CallSet
<1>3. call'[d] = [stage |-> stage, locs |-> call[d].locs, all |-> call[d].all, row |-> row]
  BY <1>1, <1>2 DEF GoTo, CallSet
<1>4. DOMAIN call' = Devs /\ call' = [e \in Devs |-> call'[e]]
  BY <1>1 DEF GoTo, CallSet
<1>5. \A e \in Devs : e # d => call'[e] = call[e]
  BY <1>1 DEF GoTo, CallSet
<1>6. ASSUME NEW e \in Devs
      PROVE  call'[e] \in [stage : Stages, locs : Seq(Tiles), all : SUBSET Tiles, row : Rows]
  <2>1. CASE e = d
    BY <1>2, <1>3, <2>1
  <2>2. CASE e # d
    BY <1>1, <1>5, <2>2 DEF CallSet
  <2> QED BY <2>1, <2>2
<1>7. Col(d)' = Col(d) /\ Row(d)' = Row(d)
  BY <1>3 DEF Col, Row, Loc
<1> QED BY <1>3, <1>4, <1>6, <1>7 DEF CallSet

(* A step that leaves the bitmap alone leaves alone what is in use.        *)
LEMMA InUseSame ==
    ASSUME TilesInUse' = TilesInUse
    PROVE  /\ \A c, r : InUse(c, r)' <=> InUse(c, r)
           /\ \A c : ColumnInUse(c)' <=> ColumnInUse(c)
  BY DEF InUse, ColumnInUse

-----------------------------------------------------------------------------
(* The inductive invariant *)

LEMMA InitIInv == Init => IInv
<1> SUFFICES ASSUME Init PROVE IInv
  OBVIOUS
<1>1. TypeOK
  BY Shape DEF Init, TypeOK, NoCall, Stages
<1>2. \A c, r : ~InUse(c, r)
  BY DEF Init, InUse
<1>3. \A d \in Devs : call[d] = NoCall /\ NextTileClk[d] = Tiles /\ requested[d] = {}
  BY DEF Init
<1>4. UnusedColumnsPass
  BY <1>3 DEF UnusedColumnsPass, Pass, Tiles
<1>5. LoopsFollowTheClock
  BY <1>3 DEF LoopsFollowTheClock, NoCall
<1>6. AboveIsGated
  BY <1>2, <1>3 DEF AboveIsGated, IsGatedFrom, Working, ColumnInUse, NoCall
<1>7. RequestProgresses /\ RequestedAreInUse
  BY <1>3 DEF RequestProgresses, RequestedAreInUse, NoCall
<1> QED
  BY <1>1, <1>2, <1>4, <1>5, <1>6, <1>7
     DEF IInv, InUseIsColumnPrefix, UsedAreClocked, ColumnsAreWhole

(* Calls that begin or end, and tiles that are skipped: only `call` and    *)
(* `requested` change.                                                     *)
LEMMA CallIInv ==
    ASSUME OneInstance, IInv, DevGen' = DevGen, NEW d \in Devs,
           XAie_PmRequestTiles(d) \/ RequestReturns(d) \/ ShimIsSkipped(d)
    PROVE  IInv'
<1>1. /\ UNCHANGED <<TilesInUse, ColClk, NextTileClk>>
      /\ call[d].stage \in {"idle", "tile"} /\ call'[d].stage \in {"idle", "tile"}
      /\ call' = [call EXCEPT ![d] = call'[d]]
  BY DEF IInv, TypeOK, XAie_PmRequestTiles, RequestReturns, ShimIsSkipped, NextLoc, NoCall, AtTile, Idle
<1>2. \A e \in Devs : e = d
  BY DEF OneInstance
<1>3. /\ \A c, r : InUse(c, r)' <=> InUse(c, r)
      /\ \A c : ColumnInUse(c)' <=> ColumnInUse(c)
  BY <1>1, InUseSame
<1>4. TypeOK'
  <2>1. CASE XAie_PmRequestTiles(d)
    <3>1. PICK locs \in TileLists :
              call' = [call EXCEPT ![d] = [stage |-> "tile", locs |-> locs,
                           all |-> { locs[k] : k \in DOMAIN locs }, row |-> 0]]
      BY <2>1 DEF XAie_PmRequestTiles
    <3>2. PICK n \in 1 .. MaxTiles : locs \in [1 .. n -> Tiles]
      BY DEF TileLists
    <3>3. locs \in Seq(Tiles) /\ { locs[k] : k \in DOMAIN locs } \subseteq Tiles
      BY <3>2
    <3>4. requested' = requested
      BY <2>1 DEF XAie_PmRequestTiles
    <3> QED BY <1>1, <3>1, <3>3, <3>4, Shape DEF IInv, TypeOK, Stages
  <2>2. CASE RequestReturns(d)
    BY <1>1, <2>2, Shape DEF IInv, TypeOK, Stages, RequestReturns, NoCall
  <2>3. CASE ShimIsSkipped(d)
    <3>1. call' \in CallSet
      BY <2>3, NextLocEffect DEF IInv, ShimIsSkipped, AtTile
    <3>2. requested' = requested
      BY <2>3 DEF ShimIsSkipped
    <3> QED BY <1>1, <3>1, <3>2 DEF IInv, TypeOK, CallSet
  <2> QED BY <2>1, <2>2, <2>3
<1>5. InUseIsColumnPrefix' /\ UsedAreClocked' /\ ColumnsAreWhole'
  BY <1>1, <1>3 DEF IInv, InUseIsColumnPrefix, UsedAreClocked, ColumnsAreWhole, Clocked
<1>6. UnusedColumnsPass'
  BY <1>1, <1>2, <1>3 DEF IInv, UnusedColumnsPass, Working, Pass
<1>7. LoopsFollowTheClock'
  BY <1>1, <1>2 DEF LoopsFollowTheClock
<1>8. AboveIsGated'
  BY <1>1, <1>2, <1>3 DEF IInv, AboveIsGated, IsGatedFrom, Working, Pass
<1>9. RequestProgresses' /\ RequestedAreInUse'
  <2>1. CASE XAie_PmRequestTiles(d)
    BY <1>2, <1>3, <2>1 DEF XAie_PmRequestTiles, IInv, TypeOK, RequestProgresses, RequestedAreInUse
  <2>2. CASE RequestReturns(d)
    BY <1>2, <1>3, <2>2 DEF RequestReturns, NoCall, IInv, TypeOK, RequestProgresses, RequestedAreInUse
  <2>3. CASE ShimIsSkipped(d)
    BY <1>2, <1>3, <2>3, LocInTiles
       DEF ShimIsSkipped, NextLoc, AtTile, IInv, TypeOK, RequestProgresses, RequestedAreInUse
  <2> QED BY <2>1, <2>2, <2>3
<1> QED BY <1>4, <1>5, <1>6, <1>7, <1>8, <1>9 DEF IInv

(* A request without a list: nothing was in use, so every tile passes the  *)
(* clock on, and then everything is in use.                                *)
LEMMA RequestAllTilesIInv ==
    ASSUME OneInstance, IInv, DevGen' = DevGen, NEW d \in Devs, RequestAllTiles(d)
    PROVE  IInv'
<1>1. /\ call' = call /\ NextTileClk' = NextTileClk
      /\ call[d].stage = "idle" /\ TilesInUse = {}
      /\ ColClk' = [ColClk EXCEPT ![d] = Cols]
      /\ requested' = [requested EXCEPT ![d] = Tiles]
      /\ TilesInUse' = TilesInUse \cup { TileBit(c, r) : c \in Cols, r \in AieRows }
  BY DEF RequestAllTiles, OneInstance, Idle
<1>2. \A e \in Devs : e = d
  BY DEF OneInstance
<1>3. \A c \in Cols, r \in AieRows : InUse(c, r)'
  BY <1>1 DEF InUse, TileBit
<1>4. \A c, r : ~InUse(c, r)
  BY <1>1 DEF InUse
<1>5. TypeOK'
  BY <1>1 DEF IInv, TypeOK
<1>6. DevGen = "AIE" => \A c \in Cols, j \in Rows : Pass(d, c, j)
  BY <1>1, <1>4 DEF IInv, UnusedColumnsPass, Working, ColumnInUse
<1>7. UsedAreClocked'
  <2>1. \A r \in AieRows : \A j \in 0 .. r - 1 : j \in Rows
    BY ShapeAssumption DEF AieRows, Rows
  <2>2. ColClk'[d] = Cols
    BY <1>1 DEF IInv, TypeOK
  <2> QED BY <1>1, <1>2, <1>6, <2>1, <2>2 DEF UsedAreClocked, Clocked, Pass
<1>8. InUseIsColumnPrefix' /\ ColumnsAreWhole'
  <2>1. \A r \in AieRows : \A s \in 1 .. r : s \in AieRows
    BY ShapeAssumption DEF AieRows, Rows
  <2> QED BY <1>3, <2>1 DEF InUseIsColumnPrefix, ColumnsAreWhole
<1>9. UnusedColumnsPass' /\ LoopsFollowTheClock'
  BY <1>1, <1>2, <1>6 DEF UnusedColumnsPass, LoopsFollowTheClock, Working, Pass
<1>10. AboveIsGated'
  <2>1. \A j \in Rows : j + 1 \in Rows => j + 1 \in AieRows
    BY ShapeAssumption DEF AieRows, Rows
  <2> QED BY <1>3, <2>1 DEF AboveIsGated
<1>11. RequestProgresses' /\ RequestedAreInUse'
  <2>1. \A t \in Tiles : t[1] \in Cols /\ (t[2] = 0 \/ t[2] \in AieRows)
    BY Shape DEF Tiles
  <2>2. call'[d].all \subseteq Tiles /\ requested'[d] \subseteq Tiles
    BY <1>1 DEF IInv, TypeOK
  <2> QED BY <1>2, <1>3, <2>1, <2>2 DEF RequestProgresses, RequestedAreInUse
<1> QED BY <1>5, <1>7, <1>8, <1>9, <1>10, <1>11 DEF IInv

(* A reset while nothing is in use.                                        *)
LEMMA ResetClocksIInv ==
    ASSUME OneInstance, IInv, DevGen' = DevGen, NEW d \in Devs, ResetClocks(d)
    PROVE  IInv'
<1>1. /\ call' = call /\ TilesInUse' = TilesInUse
      /\ call[d].stage = "idle" /\ TilesInUse = {}
      /\ NextTileClk' = [NextTileClk EXCEPT ![d] = Tiles]
      /\ requested' = [requested EXCEPT ![d] = {}]
  BY DEF ResetClocks, OneInstance, Idle
<1>2. \A e \in Devs : e = d
  BY DEF OneInstance
<1>3. /\ \A c, r : ~InUse(c, r) /\ ~InUse(c, r)'
      /\ \A c : ~ColumnInUse(c) /\ ~ColumnInUse(c)'
  BY <1>1 DEF InUse, ColumnInUse
<1>4. TypeOK'
  <2>1. PICK clk \in IF DevGen = "AIE" THEN {{}} ELSE {{}, Cols} :
            ColClk' = [ColClk EXCEPT ![d] = clk]
    BY DEF ResetClocks
  <2>2. clk \subseteq Cols
    OBVIOUS
  <2> QED BY <1>1, <2>1, <2>2 DEF IInv, TypeOK
<1>5. NextTileClk'[d] = Tiles /\ requested'[d] = {}
  BY <1>1 DEF IInv, TypeOK
<1>6. InUseIsColumnPrefix' /\ ColumnsAreWhole' /\ UsedAreClocked'
  BY <1>3 DEF InUseIsColumnPrefix, ColumnsAreWhole, UsedAreClocked
<1>7. UnusedColumnsPass' /\ LoopsFollowTheClock'
  BY <1>1, <1>2, <1>5 DEF UnusedColumnsPass, LoopsFollowTheClock, Pass, Tiles
<1>8. AboveIsGated'
  BY <1>1, <1>2, <1>3 DEF AboveIsGated, IsGatedFrom, Working
<1>9. RequestProgresses' /\ RequestedAreInUse'
  BY <1>1, <1>2, <1>3, <1>5 DEF IInv, RequestProgresses, RequestedAreInUse
<1> QED BY <1>4, <1>6, <1>7, <1>8, <1>9 DEF IInv

(* AIE: the search of the uppermost tile in use.                           *)
LEMMA ColumnIsInUseIInv ==
    ASSUME OneInstance, IInv, DevGen' = DevGen, NEW d \in Devs, ColumnIsInUse(d)
    PROVE  IInv'
<1>1. /\ UNCHANGED <<TilesInUse, ColClk, NextTileClk, requested>>
      /\ DevGen = "AIE" /\ call[d].stage = "tile" /\ call[d].locs # <<>> /\ Row(d) # 0
  BY DEF ColumnIsInUse, AtTile
<1>2. \A e \in Devs : e = d
  BY DEF OneInstance
<1>3. /\ \A b, s : InUse(b, s)' <=> InUse(b, s)
      /\ \A b : ColumnInUse(b)' <=> ColumnInUse(b)
  BY <1>1, InUseSame
<1>4. PICK c \in Cols, r \in AieRows : c = Col(d) /\ r = Row(d)
  BY <1>1, LocInTiles, Shape DEF IInv
<1>5. PICK top \in RowsInUse(d) :
          /\ IsTopRowInUse(d, top)
          /\ IF TileBit(c, r) > TileBit(c, top)
             THEN GoTo(d, "ungate", top) ELSE GoTo(d, "mark", 0)
  BY <1>4 DEF ColumnIsInUse
<1>6. top \in AieRows /\ InUse(c, top) /\ \A s \in AieRows : InUse(c, s) => s <= top
  BY <1>4, <1>5 DEF RowsInUse, IsTopRowInUse
<1>7. PICK stage \in {"ungate", "mark"}, row \in Rows :
          /\ GoTo(d, stage, row)
          /\ stage = "ungate" => row = top /\ top < r
          /\ stage = "mark" => r <= top
  <2>1. TileBit(c, r) > TileBit(c, top) <=> r > top
    BY <1>4, <1>6, BitOrder
  <2>2. r \in Nat /\ top \in Nat /\ top \in Rows /\ 0 \in Rows
    BY <1>4, <1>6, Shape
  <2>3. CASE r > top
    BY <1>5, <2>1, <2>2, <2>3
  <2>4. CASE ~(r > top)
    BY <1>5, <2>1, <2>2, <2>4
  <2> QED BY <2>3, <2>4
<1>8. /\ call' \in CallSet
      /\ call'[d] = [stage |-> stage, locs |-> call[d].locs, all |-> call[d].all, row |-> row]
      /\ Col(d)' = c /\ Row(d)' = r
  BY <1>4, <1>7, GoToEffect DEF IInv, Stages
<1>9. c \in ColClk[d] /\ \A j \in Rows : j < top => Pass(d, c, j)
  <2>1. Clocked(d, c, top) /\ top # 0
    BY <1>4, <1>6, Shape DEF IInv, UsedAreClocked
  <2>2. \A j \in Rows : j < top => j \in 0 .. top - 1
    BY <1>6, Shape
  <2> QED BY <1>1, <2>1, <2>2 DEF Clocked, Pass
<1>10. TypeOK'
  BY <1>1, <1>8 DEF IInv, TypeOK, CallSet
<1>11. InUseIsColumnPrefix' /\ UsedAreClocked' /\ ColumnsAreWhole'
  BY <1>1, <1>3 DEF IInv, InUseIsColumnPrefix, UsedAreClocked, ColumnsAreWhole, Clocked
<1>12. UnusedColumnsPass'
  <2>1. \A b \in Cols : ~ColumnInUse(b) => \A j \in Rows : Pass(d, b, j)
    BY <1>1 DEF IInv, UnusedColumnsPass, Working
  <2> QED BY <1>1, <1>2, <1>3, <2>1 DEF UnusedColumnsPass, Pass
<1>13. LoopsFollowTheClock'
  <2>1. top \in Nat /\ r \in Nat /\ \A j \in Rows : j \in Nat
    BY <1>4, <1>6, Shape
  <2>2. \A j \in Rows : stage = "mark" /\ j < r => Pass(d, c, j)'
    BY <1>1, <1>7, <1>9, <2>1 DEF Pass
  <2>3. \A j \in Rows : j < top => Pass(d, c, j)'
    BY <1>1, <1>9 DEF Pass
  <2>4. c \in ColClk'[d]
    BY <1>1, <1>9
  <2>5. stage = "ungate" => row <= r
    BY <1>7, <2>1
  <2> QED BY <1>1, <1>2, <1>4, <1>7, <1>8, <2>2, <2>3, <2>4, <2>5 DEF LoopsFollowTheClock
<1>14. AboveIsGated'
  <2>1. ColumnInUse(c)
    BY <1>6 DEF ColumnInUse
  <2>2. \A b \in Cols, j \in Rows : IsGatedFrom(d, b, j)' => IsGatedFrom(d, b, j)
    BY <1>1, <1>3, <1>8, <2>1 DEF IsGatedFrom, Working
  <2> QED BY <1>1, <1>2, <1>3, <2>2 DEF IInv, AboveIsGated, Pass
<1>15. RequestProgresses' /\ RequestedAreInUse'
  BY <1>1, <1>2, <1>3, <1>8 DEF IInv, RequestProgresses, RequestedAreInUse
<1> QED BY <1>10, <1>11, <1>12, <1>13, <1>14, <1>15 DEF IInv

(* AIE: the clock buffer of a column that is not in use.                   *)
LEMMA EnableColumnIInv ==
    ASSUME OneInstance, IInv, DevGen' = DevGen, NEW d \in Devs, EnableColumn(d)
    PROVE  IInv'
<1>1. /\ UNCHANGED <<TilesInUse, NextTileClk, requested>>
      /\ DevGen = "AIE" /\ call[d].stage = "tile" /\ call[d].locs # <<>> /\ Row(d) # 0
      /\ RowsInUse(d) = {}
      /\ ColClk' = [ColClk EXCEPT ![d] = @ \cup {Col(d)}]
      /\ GoTo(d, "gate", NumRows - 1)
  BY DEF EnableColumn, AtTile
<1>2. \A e \in Devs : e = d
  BY DEF OneInstance
<1>3. /\ \A b, s : InUse(b, s)' <=> InUse(b, s)
      /\ \A b : ColumnInUse(b)' <=> ColumnInUse(b)
  BY <1>1, InUseSame
<1>4. PICK c \in Cols, r \in AieRows : c = Col(d) /\ r = Row(d)
  BY <1>1, LocInTiles, Shape DEF IInv
<1>5. /\ call' \in CallSet
      /\ call'[d] = [stage |-> "gate", locs |-> call[d].locs, all |-> call[d].all,
                     row |-> NumRows - 1]
      /\ Col(d)' = c /\ Row(d)' = r
  BY <1>1, <1>4, GoToEffect, Shape DEF IInv, Stages
<1>6. ColClk' \in [Devs -> SUBSET Cols] /\ ColClk'[d] = ColClk[d] \cup {c}
  BY <1>1, <1>4 DEF IInv, TypeOK
<1>7. ~ColumnInUse(c)
  BY <1>1, <1>4 DEF RowsInUse, ColumnInUse
<1>8. \A j \in Rows : Pass(d, c, j)
  BY <1>1, <1>7 DEF IInv, UnusedColumnsPass, Working
<1>9. TypeOK'
  BY <1>1, <1>5, <1>6 DEF IInv, TypeOK, CallSet
<1>10. InUseIsColumnPrefix' /\ ColumnsAreWhole'
  BY <1>1, <1>3 DEF IInv, InUseIsColumnPrefix, ColumnsAreWhole
<1>11. UsedAreClocked'
  BY <1>1, <1>2, <1>3, <1>6 DEF IInv, UsedAreClocked, Clocked
<1>12. UnusedColumnsPass'
  <2>1. \A b \in Cols : ~ColumnInUse(b) => \A j \in Rows : Pass(d, b, j)
    BY <1>1 DEF IInv, UnusedColumnsPass, Working
  <2> QED BY <1>1, <1>2, <1>3, <2>1 DEF UnusedColumnsPass, Pass
<1>13. LoopsFollowTheClock'
  <2>1. r <= NumRows - 1
    BY <1>4, ShapeAssumption DEF AieRows, Rows
  <2>2. \A j \in Rows : Pass(d, c, j)'
    BY <1>1, <1>8 DEF Pass
  <2>3. r # 0
    BY <1>1, <1>4
  <2> QED BY <1>1, <1>2, <1>3, <1>5, <1>6, <1>7, <2>1, <2>2, <2>3 DEF LoopsFollowTheClock
<1>14. AboveIsGated'
  <2>1. \A j \in Rows : j + 1 \in Rows => ~(j >= NumRows - 1)
    BY ShapeAssumption DEF Rows
  <2>2. ASSUME NEW b \in Cols, NEW j \in Rows, j + 1 \in Rows, IsGatedFrom(d, b, j)'
        PROVE  IsGatedFrom(d, b, j)
    BY <1>1, <1>3, <1>5, <2>1, <2>2 DEF IsGatedFrom, Working
  <2> QED BY <1>1, <1>2, <1>3, <2>2 DEF IInv, AboveIsGated, Pass
<1>15. RequestProgresses' /\ RequestedAreInUse'
  BY <1>1, <1>2, <1>3, <1>5 DEF IInv, RequestProgresses, RequestedAreInUse
<1> QED BY <1>9, <1>10, <1>11, <1>12, <1>13, <1>14, <1>15 DEF IInv

(* One turn of the loop that ungates: it only adds tiles that pass.        *)
LEMMA UngateTileIInv ==
    ASSUME OneInstance, IInv, DevGen' = DevGen, NEW d \in Devs, UngateTile(d)
    PROVE  IInv'
<1>1. /\ UNCHANGED <<TilesInUse, ColClk, requested>> /\ call[d].stage = "ungate"
      /\ IF call[d].row < Row(d)
         THEN /\ NextTileClk' = [NextTileClk EXCEPT ![d] = @ \cup {<<Col(d), call[d].row>>}]
              /\ GoTo(d, "ungate", call[d].row + 1)
         ELSE GoTo(d, "mark", 0) /\ NextTileClk' = NextTileClk
  BY DEF UngateTile
<1>2. \A e \in Devs : e = d
  BY DEF OneInstance
<1>3. /\ \A b, s : InUse(b, s)' <=> InUse(b, s)
      /\ \A b : ColumnInUse(b)' <=> ColumnInUse(b)
  BY <1>1, InUseSame
<1>4. /\ DevGen = "AIE" /\ call[d].locs # <<>> /\ Row(d) # 0
      /\ Col(d) \in ColClk[d] /\ call[d].row <= Row(d)
      /\ \A j \in Rows : j < call[d].row => Pass(d, Col(d), j)
  BY <1>1 DEF IInv, LoopsFollowTheClock
<1>5. PICK c \in Cols, r \in AieRows : c = Col(d) /\ r = Row(d)
  BY <1>4, LocInTiles, Shape DEF IInv
<1>6. PICK k \in Rows : k = call[d].row
  BY DEF IInv, TypeOK
<1>7. k \in Nat /\ r \in Nat /\ r \in Rows /\ \A j \in Rows : j \in Nat
  BY <1>5, <1>6, Shape
<1>8. PICK stage \in {"ungate", "mark"}, row \in Rows :
          /\ GoTo(d, stage, row)
          /\ stage = "ungate" => row = k + 1 /\ k < r
          /\ stage = "mark" => k = r
  <2>1. k < r => k + 1 \in Rows
    BY <1>7, ShapeAssumption DEF Rows
  <2>2. CASE k < r
    BY <1>1, <1>5, <1>6, <2>1, <2>2
  <2>3. CASE ~(k < r)
    BY <1>1, <1>4, <1>5, <1>6, <1>7, <2>3, Shape
  <2> QED BY <2>2, <2>3
<1>9. /\ call' \in CallSet
      /\ call'[d] = [stage |-> stage, locs |-> call[d].locs, all |-> call[d].all, row |-> row]
      /\ Col(d)' = c /\ Row(d)' = r
  BY <1>5, <1>8, GoToEffect DEF IInv, Stages
<1>10. /\ NextTileClk' \in [Devs -> SUBSET Tiles]
       /\ \A b, j : Pass(d, b, j)' <=> Pass(d, b, j) \/ (k < r /\ b = c /\ j = k)
  <2>1. NextTileClk \in [Devs -> SUBSET Tiles] /\ <<c, k>> \in Tiles
    BY DEF IInv, TypeOK, Tiles
  <2>2. CASE k < r
    BY <1>1, <1>5, <1>6, <2>1, <2>2 DEF Pass
  <2>3. CASE ~(k < r)
    BY <1>1, <1>5, <1>6, <2>1, <2>3 DEF Pass
  <2> QED BY <2>2, <2>3
<1>11. TypeOK'
  BY <1>1, <1>9, <1>10 DEF IInv, TypeOK, CallSet
<1>12. InUseIsColumnPrefix' /\ ColumnsAreWhole'
  BY <1>1, <1>3 DEF IInv, InUseIsColumnPrefix, ColumnsAreWhole
<1>13. UsedAreClocked'
  <2>1. \A b, j : <<b, j>> \in NextTileClk[d] => <<b, j>> \in NextTileClk'[d]
    BY <1>10 DEF Pass
  <2> QED BY <1>1, <1>2, <1>3, <2>1 DEF IInv, UsedAreClocked, Clocked
<1>14. UnusedColumnsPass'
  <2>1. \A b \in Cols : ~ColumnInUse(b) => \A j \in Rows : Pass(d, b, j)
    BY <1>1, <1>4 DEF IInv, UnusedColumnsPass, Working
  <2> QED BY <1>2, <1>3, <1>10, <2>1 DEF UnusedColumnsPass
<1>15. LoopsFollowTheClock'
  <2>1. \A j \in Rows : j < k => Pass(d, c, j)'
    BY <1>4, <1>5, <1>6, <1>10
  <2>2. \A j \in Rows : stage = "ungate" /\ j < row => Pass(d, c, j)'
    BY <1>7, <1>8, <1>10, <2>1
  <2>3. \A j \in Rows : stage = "mark" /\ j < r => Pass(d, c, j)'
    BY <1>8, <2>1
  <2>4. c \in ColClk'[d] /\ r # 0
    BY <1>1, <1>4, <1>5
  <2>5. stage = "ungate" => row <= r
    BY <1>7, <1>8
  <2> QED BY <1>2, <1>4, <1>8, <1>9, <2>2, <2>3, <2>4, <2>5 DEF LoopsFollowTheClock
<1>16. AboveIsGated'
  <2>1. \A b \in Cols, j \in Rows :
            IsGatedFrom(d, b, j)' => IsGatedFrom(d, b, j) /\ (b = c => j >= r)
    BY <1>1, <1>3, <1>5, <1>9 DEF IsGatedFrom, Working
  <2>2. \A b \in Cols, j \in Rows : IsGatedFrom(d, b, j)' => (Pass(d, b, j)' <=> Pass(d, b, j))
    BY <1>7, <1>10, <2>1
  <2> QED BY <1>2, <1>3, <2>1, <2>2 DEF IInv, AboveIsGated
<1>17. RequestProgresses' /\ RequestedAreInUse'
  BY <1>1, <1>2, <1>3, <1>9 DEF IInv, RequestProgresses, RequestedAreInUse
<1> QED BY <1>11, <1>12, <1>13, <1>14, <1>15, <1>16, <1>17 DEF IInv

(* One turn of the loop that gates: the column is not in use, and the      *)
(* tiles below the row it is at still pass the clock on.                   *)
LEMMA GateTileIInv ==
    ASSUME OneInstance, IInv, DevGen' = DevGen, NEW d \in Devs, GateTile(d)
    PROVE  IInv'
<1>1. /\ UNCHANGED <<TilesInUse, ColClk, requested>> /\ call[d].stage = "gate"
      /\ IF call[d].row > Row(d)
         THEN /\ NextTileClk' = [NextTileClk EXCEPT ![d] = @ \ {<<Col(d), call[d].row - 1>>}]
              /\ GoTo(d, "gate", call[d].row - 1)
         ELSE GoTo(d, "mark", 0) /\ NextTileClk' = NextTileClk
  BY DEF GateTile
<1>2. \A e \in Devs : e = d
  BY DEF OneInstance
<1>3. /\ \A b, s : InUse(b, s)' <=> InUse(b, s)
      /\ \A b : ColumnInUse(b)' <=> ColumnInUse(b)
  BY <1>1, InUseSame
<1>4. /\ DevGen = "AIE" /\ call[d].locs # <<>> /\ Row(d) # 0
      /\ Col(d) \in ColClk[d] /\ ~ColumnInUse(Col(d)) /\ Row(d) <= call[d].row
      /\ \A j \in Rows : j < call[d].row => Pass(d, Col(d), j)
  BY <1>1 DEF IInv, LoopsFollowTheClock
<1>5. PICK c \in Cols, r \in AieRows : c = Col(d) /\ r = Row(d)
  BY <1>4, LocInTiles, Shape DEF IInv
<1>6. PICK k \in Rows : k = call[d].row
  BY DEF IInv, TypeOK
<1>7. k \in Nat /\ r \in Nat /\ r \in Rows /\ r >= 1 /\ \A j \in Rows : j \in Nat
  BY <1>5, <1>6, Shape
<1>8. PICK stage \in {"gate", "mark"}, row \in Rows :
          /\ GoTo(d, stage, row)
          /\ stage = "gate" => row = k - 1 /\ k > r
          /\ stage = "mark" => k = r
  <2>1. k > r => k - 1 \in Rows
    BY <1>7, ShapeAssumption DEF Rows
  <2>2. CASE k > r
    BY <1>1, <1>5, <1>6, <2>1, <2>2
  <2>3. CASE ~(k > r)
    BY <1>1, <1>4, <1>5, <1>6, <1>7, <2>3, Shape
  <2> QED BY <2>2, <2>3
<1>9. /\ call' \in CallSet
      /\ call'[d] = [stage |-> stage, locs |-> call[d].locs, all |-> call[d].all, row |-> row]
      /\ Col(d)' = c /\ Row(d)' = r
  BY <1>5, <1>8, GoToEffect DEF IInv, Stages
<1>10. /\ NextTileClk' \in [Devs -> SUBSET Tiles]
       /\ \A b, j : Pass(d, b, j)' <=> Pass(d, b, j) /\ ~(k > r /\ b = c /\ j = k - 1)
  <2>1. NextTileClk \in [Devs -> SUBSET Tiles]
    BY DEF IInv, TypeOK
  <2>2. CASE k > r
    BY <1>1, <1>5, <1>6, <2>1, <2>2 DEF Pass
  <2>3. CASE ~(k > r)
    BY <1>1, <1>5, <1>6, <2>1, <2>3 DEF Pass
  <2> QED BY <2>2, <2>3
<1>11. TypeOK'
  BY <1>1, <1>9, <1>10 DEF IInv, TypeOK, CallSet
<1>12. InUseIsColumnPrefix' /\ ColumnsAreWhole'
  BY <1>1, <1>3 DEF IInv, InUseIsColumnPrefix, ColumnsAreWhole
<1>13. UsedAreClocked'
  <2>1. \A b, j : b # c => (<<b, j>> \in NextTileClk[d] <=> <<b, j>> \in NextTileClk'[d])
    BY <1>10 DEF Pass
  <2>2. \A s \in AieRows : ~InUse(c, s)
    BY <1>4, <1>5 DEF ColumnInUse
  <2> QED BY <1>1, <1>2, <1>3, <2>1, <2>2 DEF IInv, UsedAreClocked, Clocked
<1>14. UnusedColumnsPass'
  <2>1. \A b \in Cols : b # c /\ ~ColumnInUse(b) => \A j \in Rows : Pass(d, b, j)
    BY <1>1, <1>4, <1>5 DEF IInv, UnusedColumnsPass, Working
  <2>2. Working(d, c, {"gate", "mark"})'
    BY <1>9 DEF Working
  <2> QED BY <1>2, <1>3, <1>10, <2>1, <2>2 DEF UnusedColumnsPass
<1>15. LoopsFollowTheClock'
  <2>1. \A j \in Rows : j < k => Pass(d, c, j)
    BY <1>4, <1>5, <1>6
  <2>2. \A j \in Rows : stage = "gate" /\ j < row => Pass(d, c, j)'
    BY <1>7, <1>8, <1>10, <2>1
  <2>3. \A j \in Rows : stage = "mark" /\ j < r => Pass(d, c, j)'
    BY <1>7, <1>8, <1>10, <2>1
  <2>4. c \in ColClk'[d] /\ r # 0 /\ ~ColumnInUse(c)
    BY <1>1, <1>4, <1>5
  <2>5. stage = "gate" => r <= row
    BY <1>7, <1>8
  <2> QED BY <1>2, <1>3, <1>4, <1>8, <1>9, <2>2, <2>3, <2>4, <2>5 DEF LoopsFollowTheClock
<1>16. AboveIsGated'
  <2>1. \A b \in Cols, j \in Rows :
            IsGatedFrom(d, b, j)' => IsGatedFrom(d, b, j) \/ (b = c /\ k > r /\ j = k - 1)
    <3>1. CASE stage = "gate"
      BY <1>1, <1>3, <1>5, <1>6, <1>7, <1>8, <1>9, <3>1 DEF IsGatedFrom, Working
    <3>2. CASE stage = "mark"
      BY <1>1, <1>3, <1>5, <1>6, <1>7, <1>8, <1>9, <3>2 DEF IsGatedFrom, Working
    <3> QED BY <3>1, <3>2
  <2> QED BY <1>2, <1>3, <1>10, <2>1 DEF IInv, AboveIsGated
<1>17. RequestProgresses' /\ RequestedAreInUse'
  BY <1>1, <1>2, <1>3, <1>9 DEF IInv, RequestProgresses, RequestedAreInUse
<1> QED BY <1>11, <1>12, <1>13, <1>14, <1>15, <1>16, <1>17 DEF IInv

(* A range of bits that ends at a tile's bit holds bits of tiles only.     *)
LEMMA MarkedAreBits ==
    ASSUME NEW c \in Cols, NEW r \in AieRows
    PROVE  TileBit(c, r) + 1 - r .. TileBit(c, r)
               \subseteq { TileBit(e, s) : e \in Cols, s \in AieRows }
<1> DEFINE x == c * (NumRows - 1)
<1>1. /\ TileBit(c, r) = x + (r - 1) /\ x \in Nat /\ r \in Nat /\ r >= 1
  <2>1. c \in Nat /\ NumRows - 1 \in Nat
    BY Shape
  <2> QED BY <2>1, Shape, BitsAreIntegers
<1> SUFFICES ASSUME NEW b \in TileBit(c, r) + 1 - r .. TileBit(c, r)
             PROVE  \E s \in AieRows : b = TileBit(c, s)
  OBVIOUS
<1>2. \A s \in AieRows : TileBit(c, s) = x + (s - 1)
  BY BitsAreIntegers
<1> HIDE DEF x
<1>3. b - x + 1 \in 1 .. r
  BY <1>1
<1>4. b - x + 1 \in AieRows /\ b = x + ((b - x + 1) - 1)
  BY <1>1, <1>3, ShapeAssumption DEF AieRows, Rows
<1> QED BY <1>2, <1>4

(* A tile whose clock passes all the tiles below it is marked, with them.  *)
LEMMA MarkTilesIInv ==
    ASSUME OneInstance, IInv, DevGen' = DevGen, NEW d \in Devs, MarkTiles(d)
    PROVE  IInv'
<1>1. /\ UNCHANGED <<ColClk, NextTileClk, requested>> /\ call[d].stage = "mark"
      /\ TilesInUse' = TilesInUse \cup (TileBit(Col(d), Row(d)) + 1 - Row(d) .. TileBit(Col(d), Row(d)))
      /\ NextLoc(d)
  BY DEF MarkTiles
<1>2. \A e \in Devs : e = d
  BY DEF OneInstance
<1>3. /\ DevGen = "AIE" /\ call[d].locs # <<>> /\ Row(d) # 0 /\ Col(d) \in ColClk[d]
      /\ \A j \in Rows : j < Row(d) => Pass(d, Col(d), j)
  BY <1>1 DEF IInv, LoopsFollowTheClock
<1>4. PICK c \in Cols, r \in AieRows : c = Col(d) /\ r = Row(d)
  BY <1>3, LocInTiles, Shape DEF IInv
<1>5. \A b \in Cols, s \in AieRows : InUse(b, s)' <=> InUse(b, s) \/ (b = c /\ s <= r)
  <2>1. TilesInUse' = TilesInUse \cup (TileBit(c, r) + 1 - r .. TileBit(c, r))
    BY <1>1, <1>4
  <2>2. \A b, s : InUse(b, s)' <=> TileBit(b, s) \in TilesInUse'
    BY DEF InUse, TileBit
  <2> QED BY <2>1, <2>2, MarkedBits DEF InUse
<1>6. /\ call' \in CallSet
      /\ call'[d] = [stage |-> "tile", locs |-> Tail(call[d].locs),
                     all |-> call[d].all, row |-> 0]
  BY <1>1, <1>3, NextLocEffect DEF IInv
<1>7. r \in Nat /\ (\A s \in AieRows : s \in Nat /\ s >= 1) /\ (\A j \in Rows : j \in Nat)
  BY <1>4, Shape
<1>8. TypeOK'
  <2>1. TilesInUse' \subseteq { TileBit(b, s) : b \in Cols, s \in AieRows }
    BY <1>1, <1>4, MarkedAreBits DEF IInv, TypeOK
  <2> QED BY <1>1, <1>6, <2>1 DEF IInv, TypeOK, CallSet, TileBit
<1>9. InUseIsColumnPrefix' /\ ColumnsAreWhole'
  <2>1. ASSUME NEW b \in Cols, NEW u \in AieRows, InUse(b, u)', NEW s \in 1 .. u
        PROVE  InUse(b, s)'
    <3>1. s \in AieRows /\ s <= u
      BY ShapeAssumption DEF AieRows, Rows
    <3>2. CASE InUse(b, u)
      BY <1>5, <3>1, <3>2 DEF IInv, InUseIsColumnPrefix
    <3>3. CASE b = c /\ u <= r
      BY <1>5, <1>7, <3>1, <3>3
    <3> QED BY <1>5, <2>1, <3>2, <3>3
  <2>2. InUseIsColumnPrefix'
    BY <2>1 DEF InUseIsColumnPrefix
  <2>3. ColumnsAreWhole'
    BY <1>3 DEF ColumnsAreWhole
  <2> QED BY <2>2, <2>3
<1>10. UsedAreClocked'
  <2>1. ASSUME NEW s \in AieRows, s <= r, NEW j \in 0 .. s - 1
        PROVE  <<c, j>> \in NextTileClk[d]
    <3>1. j \in Rows /\ j < r
      BY <1>7, <2>1, ShapeAssumption DEF AieRows, Rows
    <3> QED BY <1>3, <1>4, <3>1 DEF Pass
  <2>2. c \in ColClk[d]
    BY <1>3, <1>4
  <2> QED BY <1>1, <1>2, <1>5, <2>1, <2>2 DEF IInv, UsedAreClocked, Clocked
<1>11. UnusedColumnsPass'
  <2>1. ASSUME NEW b \in Cols, ~ColumnInUse(b)'
        PROVE  b # c /\ ~ColumnInUse(b)
    BY <1>5, <1>7, <2>1 DEF ColumnInUse
  <2>2. \A b \in Cols : b # c /\ ~ColumnInUse(b) => \A j \in Rows : Pass(d, b, j)
    BY <1>3, <1>4 DEF IInv, UnusedColumnsPass, Working
  <2> QED BY <1>1, <1>2, <2>1, <2>2 DEF UnusedColumnsPass, Pass
<1>12. LoopsFollowTheClock'
  BY <1>2, <1>6 DEF LoopsFollowTheClock
<1>13. AboveIsGated'
  <2>1. ASSUME NEW b \in Cols, NEW j \in Rows, j + 1 \in Rows,
               ~InUse(b, j + 1)', IsGatedFrom(d, b, j)'
        PROVE  ~Pass(d, b, j)
    <3>1. j + 1 \in AieRows
      BY <2>1, ShapeAssumption DEF AieRows, Rows
    <3>2. ~InUse(b, j + 1) /\ (b = c => j >= r)
      BY <1>5, <1>7, <2>1, <3>1
    <3>3. ColumnInUse(b)'
      BY <1>6, <2>1 DEF IsGatedFrom, Working
    <3>4. b # c => ColumnInUse(b)
      BY <1>5, <3>3 DEF ColumnInUse
    <3>5. IsGatedFrom(d, b, j)
      BY <1>1, <1>4, <3>2, <3>4 DEF IsGatedFrom, Working
    <3> QED BY <1>3, <2>1, <3>2, <3>5 DEF IInv, AboveIsGated
  <2> QED BY <1>1, <1>2, <2>1 DEF AboveIsGated, Pass
<1>14. RequestProgresses' /\ RequestedAreInUse'
  <2>1. \A t \in Tiles : /\ t[1] \in Cols /\ (t[2] = 0 \/ t[2] \in AieRows)
                         /\ t[2] # 0 /\ InUse(t[1], t[2]) => InUse(t[1], t[2])'
    BY <1>5, Shape DEF Tiles
  <2>2. call[d].all \subseteq Tiles /\ requested[d] \subseteq Tiles
    BY DEF IInv, TypeOK
  <2>3. \A k \in DOMAIN call[d].locs :
            call[d].locs[k] = <<c, r>>
            \/ \E i \in DOMAIN Tail(call[d].locs) : Tail(call[d].locs)[i] = call[d].locs[k]
    BY <1>3, <1>4, LocInTiles DEF IInv
  <2>4. InUse(c, r)'
    BY <1>5, <1>7
  <2>5. RequestProgresses'
    BY <1>2, <1>6, <2>1, <2>2, <2>3, <2>4 DEF IInv, RequestProgresses
  <2>6. RequestedAreInUse'
    BY <1>1, <1>2, <2>1, <2>2 DEF IInv, RequestedAreInUse
  <2> QED BY <2>5, <2>6
<1> QED BY <1>8, <1>9, <1>10, <1>11, <1>12, <1>13, <1>14 DEF IInv

(* AIE-ML: a whole column is marked and its clock buffer enabled.          *)
LEMMA RequestColumnIInv ==
    ASSUME OneInstance, IInv, DevGen' = DevGen, NEW d \in Devs, RequestColumn(d)
    PROVE  IInv'
<1>1. /\ UNCHANGED <<NextTileClk, requested>> /\ DevGen = "AIEML"
      /\ call[d].stage = "tile" /\ call[d].locs # <<>> /\ Row(d) # 0
      /\ NextLoc(d)
      /\ IF InUse(Col(d), 1) THEN TilesInUse' = TilesInUse /\ ColClk' = ColClk
         ELSE /\ ColClk' = [ColClk EXCEPT ![d] = @ \cup {Col(d)}]
              /\ TilesInUse' = TilesInUse \cup
                     (TileBit(Col(d), 1) .. TileBit(Col(d), 1) + NumRows - 2)
  BY DEF RequestColumn, AtTile
<1>2. \A e \in Devs : e = d
  BY DEF OneInstance
<1>3. PICK c \in Cols, r \in AieRows : c = Col(d) /\ r = Row(d)
  BY <1>1, LocInTiles, Shape DEF IInv
<1>4. /\ call' \in CallSet
      /\ call'[d] = [stage |-> "tile", locs |-> Tail(call[d].locs),
                     all |-> call[d].all, row |-> 0]
  BY <1>1, NextLocEffect DEF IInv
<1>5. \A s, u \in AieRows : InUse(c, s) => InUse(c, u)
  BY <1>1 DEF IInv, ColumnsAreWhole
<1>6. /\ \A b \in Cols, s \in AieRows : InUse(b, s)' <=> InUse(b, s) \/ b = c
      /\ TilesInUse' \subseteq { TileBit(b, s) : b \in Cols, s \in AieRows }
  <2>1. CASE InUse(c, 1)
    <3>1. TilesInUse' = TilesInUse /\ \A s \in AieRows : InUse(c, s)
      BY <1>1, <1>3, <1>5, <2>1, Shape
    <3> QED BY <3>1, InUseSame DEF IInv, TypeOK
  <2>2. CASE ~InUse(c, 1)
    <3> DEFINE top == NumRows - 1
    <3>1. top \in AieRows /\ 1 \in AieRows /\ \A s \in AieRows : s <= top
      BY ShapeAssumption DEF AieRows, Rows
    <3>2. TileBit(c, 1) .. TileBit(c, 1) + NumRows - 2 = TileBit(c, top) + 1 - top .. TileBit(c, top)
      <4> DEFINE x == c * (NumRows - 1)
      <4>1. /\ TileBit(c, 1) = x + (1 - 1) /\ TileBit(c, top) = x + (top - 1)
            /\ TileBit(c, 1) \in Nat
        BY <3>1, BitsAreIntegers
      <4>2. x \in Nat
        BY Shape
      <4> HIDE DEF x
      <4> QED BY <4>1, <4>2, ShapeAssumption
    <3> HIDE DEF top
    <3>3. TilesInUse' = TilesInUse \cup (TileBit(c, top) + 1 - top .. TileBit(c, top))
      BY <1>1, <1>3, <2>2, <3>2
    <3>4. \A b, s : InUse(b, s)' <=> TileBit(b, s) \in TilesInUse'
      BY DEF InUse, TileBit
    <3>5. \A b \in Cols, s \in AieRows : InUse(b, s)' <=> InUse(b, s) \/ b = c
      BY <3>1, <3>3, <3>4, MarkedBits DEF InUse
    <3>6. TilesInUse' \subseteq { TileBit(b, s) : b \in Cols, s \in AieRows }
      BY <3>1, <3>3, MarkedAreBits DEF IInv, TypeOK
    <3> QED BY <3>5, <3>6
  <2> QED BY <2>1, <2>2
<1>7. /\ ColClk' \in [Devs -> SUBSET Cols] /\ ColClk[d] \subseteq ColClk'[d] /\ c \in ColClk'[d]
  <2>1. ColClk \in [Devs -> SUBSET Cols]
    BY DEF IInv, TypeOK
  <2>2. CASE InUse(c, 1)
    <3>1. Clocked(d, c, 1)
      BY <2>2, Shape DEF IInv, UsedAreClocked
    <3> QED BY <1>1, <1>3, <2>1, <2>2, <3>1 DEF Clocked
  <2>3. CASE ~InUse(c, 1)
    BY <1>1, <1>3, <2>1, <2>3
  <2> QED BY <2>2, <2>3
<1>8. TypeOK'
  BY <1>1, <1>4, <1>6, <1>7 DEF IInv, TypeOK, CallSet, TileBit
<1>9. InUseIsColumnPrefix' /\ ColumnsAreWhole'
  <2>1. \A u \in AieRows : \A s \in 1 .. u : s \in AieRows
    BY ShapeAssumption DEF AieRows, Rows
  <2> QED BY <1>1, <1>6, <2>1 DEF IInv, InUseIsColumnPrefix, ColumnsAreWhole
<1>10. UsedAreClocked'
  BY <1>1, <1>2, <1>6, <1>7 DEF IInv, UsedAreClocked, Clocked
<1>11. UnusedColumnsPass' /\ LoopsFollowTheClock' /\ AboveIsGated'
  BY <1>1, <1>2, <1>4 DEF UnusedColumnsPass, LoopsFollowTheClock, AboveIsGated
<1>12. RequestProgresses' /\ RequestedAreInUse'
  <2>1. \A t \in Tiles : /\ t[1] \in Cols /\ (t[2] = 0 \/ t[2] \in AieRows)
                         /\ t[2] # 0 /\ InUse(t[1], t[2]) => InUse(t[1], t[2])'
    BY <1>6, Shape DEF Tiles
  <2>2. call[d].all \subseteq Tiles /\ requested[d] \subseteq Tiles
    BY DEF IInv, TypeOK
  <2>3. \A k \in DOMAIN call[d].locs :
            call[d].locs[k] = <<c, r>>
            \/ \E i \in DOMAIN Tail(call[d].locs) : Tail(call[d].locs)[i] = call[d].locs[k]
    BY <1>1, <1>3, LocInTiles DEF IInv
  <2>4. InUse(c, r)'
    BY <1>6
  <2>5. RequestProgresses'
    BY <1>2, <1>4, <2>1, <2>2, <2>3, <2>4 DEF IInv, RequestProgresses
  <2>6. RequestedAreInUse'
    BY <1>1, <1>2, <2>1, <2>2 DEF IInv, RequestedAreInUse
  <2> QED BY <2>5, <2>6
<1> QED BY <1>8, <1>9, <1>10, <1>11, <1>12 DEF IInv

LEMMA NextIInv == OneInstance /\ IInv /\ [Next]_vars => IInv'
<1> SUFFICES ASSUME OneInstance, IInv, [Next]_vars PROVE IInv'
  OBVIOUS
<1>1. CASE UNCHANGED vars
  BY <1>1 DEF vars, IInv, TypeOK, InUseIsColumnPrefix, UsedAreClocked, UnusedColumnsPass,
     LoopsFollowTheClock, AboveIsGated, RequestProgresses, RequestedAreInUse, ColumnsAreWhole,
     Clocked, InUse, TileBit, ColumnInUse, Working, Pass, IsGatedFrom, Col, Row, Loc
<1>2. ASSUME Next PROVE IInv'
  <2>1. PICK d \in Devs :
            \/ XAie_PmRequestTiles(d) \/ RequestAllTiles(d) \/ ResetClocks(d)
            \/ RequestReturns(d) \/ ShimIsSkipped(d) \/ ColumnIsInUse(d) \/ EnableColumn(d)
            \/ UngateTile(d) \/ GateTile(d) \/ MarkTiles(d) \/ RequestColumn(d)
    BY <1>2 DEF Next
  <2>2. DevGen' = DevGen
    BY <1>2 DEF Next
  <2>3. CASE XAie_PmRequestTiles(d) \/ RequestReturns(d) \/ ShimIsSkipped(d)
    BY <2>2, <2>3, CallIInv
  <2>4. CASE RequestAllTiles(d)
    BY <2>2, <2>4, RequestAllTilesIInv
  <2>5. CASE ResetClocks(d)
    BY <2>2, <2>5, ResetClocksIInv
  <2>6. CASE ColumnIsInUse(d)
    BY <2>2, <2>6, ColumnIsInUseIInv
  <2>7. CASE EnableColumn(d)
    BY <2>2, <2>7, EnableColumnIInv
  <2>8. CASE UngateTile(d)
    BY <2>2, <2>8, UngateTileIInv
  <2>9. CASE GateTile(d)
    BY <2>2, <2>9, GateTileIInv
  <2>10. CASE MarkTiles(d)
    BY <2>2, <2>10, MarkTilesIInv
  <2>11. CASE RequestColumn(d)
    BY <2>2, <2>11, RequestColumnIInv
  <2> QED BY <2>1, <2>3, <2>4, <2>5, <2>6, <2>7, <2>8, <2>9, <2>10, <2>11
<1> QED BY <1>1, <1>2

LEMMA IInvIsInvariant == ASSUME OneInstance PROVE Spec => []IInv
<1>1. Init => IInv
  BY InitIInv
<1>2. IInv /\ [Next]_vars => IInv'
  BY NextIInv
<1> QED BY <1>1, <1>2, PTL DEF Spec

-----------------------------------------------------------------------------
(* The properties the run `tile` checks *)

(* The tiles of the requests that returned XAIE_OK have a clock, whatever  *)
(* was requested before or after (_XAie_RequestTiles and its AIE-ML twin). *)
THEOREM RequestedTilesAreClockedHolds ==
    ASSUME OneInstance PROVE Spec => [](TypeOK /\ RequestedTilesAreClocked)
<1>1. IInv => TypeOK /\ RequestedTilesAreClocked
  <2> SUFFICES ASSUME IInv, NEW d \in Devs, NEW t \in requested[d]
               PROVE  Clocked(d, t[1], t[2])
    BY DEF IInv, RequestedTilesAreClocked
  <2>1. t \in Tiles
    BY DEF IInv, TypeOK
  <2>2. t[1] \in Cols /\ (t[2] = 0 \/ t[2] \in AieRows)
    BY <2>1, Shape DEF Tiles
  <2>3. CASE t[2] = 0
    BY <2>3 DEF Clocked
  <2>4. CASE t[2] # 0
    BY <2>2, <2>4 DEF IInv, RequestedAreInUse, UsedAreClocked
  <2> QED BY <2>3, <2>4
<1> QED BY <1>1, IInvIsInvariant, PTL

(* The bits that are set for a column are those of its rows up to some     *)
(* row: what the search of the uppermost tile in use relies on.            *)
THEOREM InUseIsColumnPrefixHolds ==
    ASSUME OneInstance PROVE Spec => []InUseIsColumnPrefix
<1>1. IInv => InUseIsColumnPrefix
  BY DEF IInv
<1> QED BY <1>1, IInvIsInvariant, PTL

(* AIE: between requests no tile above the uppermost one in use of a       *)
(* column has a clock (_XAie_PmGateTiles and _XAie_PmUngateTiles).         *)
THEOREM UnusedTilesAreGatedHolds ==
    ASSUME OneInstance PROVE Spec => []UnusedTilesAreGated
<1>1. IInv => UnusedTilesAreGated
  <2> SUFFICES ASSUME IInv, NEW d \in Devs, DevGen = "AIE", Idle(d), NEW c \in Cols,
                      NEW r \in AieRows, NEW u \in AieRows, InUse(c, u), ~InUse(c, r)
               PROVE  ~Clocked(d, c, r)
    BY DEF UnusedTilesAreGated
  <2>1. r - 1 \in Rows /\ (r - 1) + 1 = r /\ r - 1 \in 0 .. r - 1 /\ r \in Rows /\ r # 0
    BY ShapeAssumption DEF AieRows, Rows
  <2>2. IsGatedFrom(d, c, r - 1)
    BY DEF IsGatedFrom, Working, Idle, ColumnInUse
  <2>3. ~Pass(d, c, r - 1)
    BY <2>1, <2>2 DEF IInv, AboveIsGated
  <2> QED BY <2>1, <2>3 DEF Clocked, Pass
<1> QED BY <1>1, IInvIsInvariant, PTL

(* The loops of _XAie_PmUngateTiles and _XAie_PmGateTiles write registers  *)
(* of tiles that have a clock, and no other step of a request writes one.  *)
THEOREM WritesReachClockedTilesHolds ==
    ASSUME OneInstance PROVE Spec => WritesReachClockedTiles
<1>1. ASSUME OneInstance, IInv, [Next]_vars, NEW d \in Devs, call'[d] # call[d], NEW t \in Tiles,
             (t \in NextTileClk[d]) # (t \in NextTileClk'[d])
      PROVE  Clocked(d, t[1], t[2])
  <2>1. \A e \in Devs : e = d
    BY <1>1 DEF OneInstance
  <2>2. Next
    BY <1>1 DEF vars
  <2>3. NextTileClk' # NextTileClk /\ call' # call
    BY <1>1
  <2>4. UngateTile(d) \/ GateTile(d)
    BY <2>1, <2>2, <2>3
       DEF Next, XAie_PmRequestTiles, RequestAllTiles, ResetClocks, RequestReturns, ShimIsSkipped,
           ColumnIsInUse, EnableColumn, MarkTiles, RequestColumn
  <2>5. call[d].stage \in {"ungate", "gate"}
    BY <2>4 DEF UngateTile, GateTile
  <2>6. /\ Col(d) \in ColClk[d] /\ call[d].locs # <<>>
        /\ \A j \in Rows : j < call[d].row => Pass(d, Col(d), j)
    BY <1>1, <2>5 DEF IInv, LoopsFollowTheClock
  <2>7. Row(d) \in Nat /\ call[d].row \in Rows /\ call[d].row \in Nat
    BY <1>1, <2>6, LocInTiles, Shape DEF IInv, TypeOK
  <2>8. /\ NextTileClk \in [Devs -> SUBSET Tiles]
        /\ \E j \in {call[d].row, call[d].row - 1} :
               \/ NextTileClk' = [NextTileClk EXCEPT ![d] = @ \cup {<<Col(d), j>>}]
               \/ NextTileClk' = [NextTileClk EXCEPT ![d] = @ \ {<<Col(d), j>>}]
    BY <1>1, <2>3, <2>4 DEF IInv, TypeOK, UngateTile, GateTile
  <2>9. PICK j \in {call[d].row, call[d].row - 1} : t = <<Col(d), j>>
    BY <1>1, <2>8
  <2>10. t[1] = Col(d) /\ t[2] = j /\ j \in Rows /\ j <= call[d].row
    BY <2>7, <2>9 DEF Tiles
  <2>11. \A i \in 0 .. j - 1 : i \in Rows /\ i < call[d].row
    BY <2>7, <2>10, ShapeAssumption DEF Rows
  <2> QED BY <2>6, <2>10, <2>11 DEF Clocked, Pass
<1>2. ASSUME OneInstance, IInv, [Next]_vars
      PROVE  [\A d \in Devs : call'[d] # call[d] =>
                 \A t \in Tiles : (t \in NextTileClk[d]) # (t \in NextTileClk'[d]) =>
                     Clocked(d, t[1], t[2])]_vars
  BY <1>1, <1>2
<1> QED BY <1>2, IInvIsInvariant, PTL DEF Spec, WritesReachClockedTiles

(* No step of a request takes the clock from a tile in use: a bit is never *)
(* cleared, and what is in use is clocked.                                 *)
THEOREM RequestsNeverGateTilesInUseHolds ==
    ASSUME OneInstance PROVE Spec => RequestsNeverGateTilesInUse
<1>1. ASSUME OneInstance, IInv, [Next]_vars
      PROVE  [\A d \in Devs :
                 (\E e \in Devs : call'[e] # call[e]) =>
                     \A c \in Cols, r \in AieRows :
                         InUse(c, r) /\ Clocked(d, c, r) => Clocked(d, c, r)']_vars
  <2>1. UsedAreClocked'
    BY <1>1, NextIInv DEF IInv
  <2>2. TilesInUse \subseteq TilesInUse'
    BY <1>1
       DEF vars, Next, XAie_PmRequestTiles, RequestAllTiles, ResetClocks, RequestReturns, ShimIsSkipped,
           ColumnIsInUse, EnableColumn, UngateTile, GateTile, MarkTiles, RequestColumn
  <2>3. \A c, r : InUse(c, r) => InUse(c, r)'
    BY <2>2 DEF InUse, TileBit
  <2> QED BY <2>1, <2>3 DEF UsedAreClocked
<1> QED BY <1>1, IInvIsInvariant, PTL DEF Spec, RequestsNeverGateTilesInUse
=============================================================================
