------------------------------ MODULE BcastNet ------------------------------
(***************************************************************************)
(* The event broadcast network of a partition and those who share it:      *)
(* users who request broadcast channels (xaie_rsc_bcast.c), the            *)
(* synchronization of the timers (XAie_SyncTimer) and the set up of the    *)
(* error network (XAie_ErrorHandlingInit).                                 *)
(*                                                                         *)
(* A module forwards a channel in each direction its switch does not       *)
(* block.  A channel is reserved module by module in the bitmaps of the    *)
(* resource manager; the network itself knows no owners, so that what one  *)
(* owner leaves blocked or armed is found by the next.                     *)
(*                                                                         *)
(* XAie_SyncTimer and XAie_ErrorHandlingInit are loops over register       *)
(* writes.  A loop is given here as a set of writes, each with its place   *)
(* in the order of the program; each write is one step, which the device   *)
(* may refuse.                                                             *)
(***************************************************************************)
EXTENDS Integers, FiniteSets, FiniteSetsExt

CONSTANTS
    NumCols, NumRows,   \* of the partition, row 0 is the shim
    StartCol,           \* its first column in the device
    Gens,               \* the generations of the device, within {"AIE", "AIEML"}
    NumChannels,        \* XAIE_NUM_BROADCAST_CHANNELS
    MaxErrorBcIdsRvd,   \* channels that errors need on the shims
    TileSets,           \* the sets of tiles <<col, row>> that may be in use
    Users,
    Requests,           \* [kind : "any", "id" or "all"; at : tiles; id : channel]
    StaticTiles,        \* tiles on which channel 0 is reserved at compile time
    Refused,            \* the writes <<loop, place>> that the device may refuse
    MaxFaults           \* how many it refuses

Rows == 0..NumRows-1
ColRange == 0..NumCols-1
Channels == 0..NumChannels-1
ShimRow == 0
Slots == ColRange \X Rows \X {"PL", "MEM", "CORE"}
Rscs == Slots \X Channels

ASSUME NetAssumption ==
    /\ NumCols \in Nat \ {0} /\ NumRows \in Nat \ {0} /\ StartCol \in Nat
    /\ Gens \subseteq {"AIE", "AIEML"}
    \* on fewer columns the roll back of the error channels writes past its list
    /\ NumChannels \in Nat \ {0} /\ MaxErrorBcIdsRvd \in 1..NumChannels /\ MaxErrorBcIdsRvd <= NumCols
    \* a tile is clocked through those below it
    /\ \A T \in TileSets : /\ T \subseteq ColRange \X (Rows \ {ShimRow})
                           /\ \A t \in T : t[2] > 1 => <<t[1], t[2] - 1>> \in T
    /\ StaticTiles \subseteq ColRange \X Rows
    /\ \A r \in Requests : r.at \subseteq ColRange \X Rows /\ r.id \in Channels
    /\ MaxFaults \in Nat /\ "driver" \notin Users

VARIABLES
    Gen, tiles,     \* the device, and its tiles in use above the shim
    runtime,        \* reserved channels: a set of <<slot, channel>>
    static,         \* channels reserved at compile time
    regs,           \* the registers of the event switches and interrupt controllers:
                    \* <<"block", slot, channel, switch, direction>>, <<"reset", slot,
                    \* channel>>: the channel resets the timer, <<"broadcast", slot,
                    \* channel, event>>: the event starts the channel, and others
    \* owners
    held,           \* what each user was granted
    errors,         \* what the error network holds; its state is errs
    errs,           \* "off", "on" or "failed"
    lost,           \* reserved for good by calls that failed
    \* the call in progress
    pc, pos,        \* where it is: a loop and the place of its last write
    bcId,           \* the channel that XAie_ErrorHandlingReserveRsc asks for next
    RscsBC, RscsBCShim,                  \* modules with a reserved channel
    BcastChannelId, BcastChannelIdShim,  \* these channels
    wired,          \* the tiles in use when the error network was set up
    synced,         \* modules whose timer the generated event has reset
    result,         \* what the last call of XAie_SyncTimer returned
    faults          \* writes that were refused

bits == <<runtime, static>>
errnet == <<errors, errs, wired>>
lists == <<RscsBC, RscsBCShim, BcastChannelId, BcastChannelIdShim>>
device == <<Gen, tiles>>
vars == <<device, bits, regs, held, errnet, lost, pc, pos, bcId, lists, synced, result, faults>>

----------------------------------------------------------------------------
(* The array. *)

IsAie(gen, row) == row > ShimRow /\ (gen = "AIE" \/ row > 1)

ModsOf(gen, row) ==
    IF row = ShimRow THEN {"PL"} ELSE IF IsAie(gen, row) THEN {"CORE", "MEM"} ELSE {"MEM"}

SlotsOf(gen, T) == {s \in Slots : <<s[1], s[2]>> \in T /\ s[3] \in ModsOf(gen, s[2])}

ShimSlots == {<<c, ShimRow, "PL">> : c \in ColRange}

\* _XAie_GetUngatedTilesInPartition: the shims always count as in use.
Ungated(gen, T) == ShimSlots \cup SlotsOf(gen, T)

IsNoc(col) == (StartCol + col) % 4 \in {2, 3}

\* The memory is on the west of its core in the even rows of an AIE only, as
\* _XAie_GetTargetTileLoc finds it.
MemIsWest(gen, row) == gen = "AIE" /\ IsAie(gen, row) /\ row % 2 = 0

\* Every tile has two event switches <<slot, switch>>, one on the west and one on
\* the east, and two lines from row to row: along switches A and the cores, and
\* along switches B and the memories.
Single(c, r, mod) == <<<<c, r, mod>>, 0>>
Mod(r) == IF r = ShimRow THEN "PL" ELSE "MEM"
LineA(gen, c, r) == IF IsAie(gen, r) THEN Single(c, r, "CORE") ELSE <<<<c, r, Mod(r)>>, 0>>
LineB(gen, c, r) == IF IsAie(gen, r) THEN Single(c, r, "MEM") ELSE <<<<c, r, Mod(r)>>, 1>>
West(gen, c, r) == IF MemIsWest(gen, r) THEN LineB(gen, c, r) ELSE LineA(gen, c, r)
East(gen, c, r) == IF MemIsWest(gen, r) THEN LineA(gen, c, r) ELSE LineB(gen, c, r)

\* Pairs of neighbours from west to east and from south to north.
Horizontal(gen) == {<<West(gen, c, r), East(gen, c, r)>> : c \in ColRange, r \in Rows}
                   \cup {<<East(gen, c, r), West(gen, c + 1, r)>> : c \in 0..NumCols-2, r \in Rows}
Vertical(gen) == {<<LineA(gen, c, r), LineA(gen, c, r + 1)>> : c \in ColRange, r \in 0..NumRows-2}
                 \cup {<<LineB(gen, c, r), LineB(gen, c, r + 1)>> : c \in ColRange, r \in 0..NumRows-2}

Links == [gen \in Gens |->
    {<<p[1], "E", p[2]>> : p \in Horizontal(gen)} \cup {<<p[2], "W", p[1]>> : p \in Horizontal(gen)}
    \cup {<<p[1], "N", p[2]>> : p \in Vertical(gen)} \cup {<<p[2], "S", p[1]>> : p \in Vertical(gen)}]

\* The links over which a channel is forwarded inside of a set of modules, the switches
\* one link on, and those to which it gets from a set of switches.
Open(c, within) == {l \in Links[Gen] : /\ l[3][1] \in within
                                       /\ <<"block", l[1][1], c, l[1][2], l[2]>> \notin regs}
Onwards(R, open) == R \cup {l[3] : l \in {k \in open : k[1] \in R}}

Reach(c, from, within) ==
    LET open == Open(c, within)
        step[n \in Nat] == IF n = 0 THEN from ELSE Onwards(step[n - 1], open)
    IN  step[2 * (NumCols + NumRows)]

----------------------------------------------------------------------------
(* Register writes: what a write clears and sets, and whether the call ends *)
(* when it is refused.                                                      *)

DirNo == [S |-> 1, W |-> 2, N |-> 3, E |-> 4]   \* the bits of XAie_BroadcastDir
Dirs == DOMAIN DirNo
GroupErrors == -1                \* an event besides those of the channels

Write(set) == [clr |-> {}, set |-> set, must |-> TRUE]
Ignored(w) == [w EXCEPT !.must = FALSE]

\* XAie_EventBroadcastBlockDir and BlockMapDir: the register of one direction.
Block(s, sw, chans, d) == Write({<<"block", s, c, sw, d>> : c \in chans})

Unblock(s, sw, c, d) == [clr |-> {<<"block", s, c, sw, d>>}, set |-> {}, must |-> FALSE]

Events == Channels \cup {GroupErrors}

EventBroadcast_Itself(s, c, event) ==
    [clr |-> {<<"broadcast", s, c, e>> : e \in Events}, set |-> {<<"broadcast", s, c, c>>}, must |-> TRUE]

EventBroadcast(s, c, event) ==
    [clr |-> {<<"broadcast", s, c, e>> : e \in Events}, set |-> {<<"broadcast", s, c, event>>}, must |-> TRUE]
EventNone(s, c) ==
    [clr |-> {<<"broadcast", s, c, e>> : e \in Events}, set |-> {}, must |-> FALSE]

SetTimerResetEvent(s, set) ==
    [clr |-> {<<"reset", s, c>> : c \in Channels}, set |-> set, must |-> set # {}]

\* A write w of a loop is a record [at, w], with its place, a sequence of numbers.
Before(p, q) == \E i \in DOMAIN p : p[i] < q[i] /\ \A j \in 1..i-1 : p[j] = q[j]
Start == <<-1>>
Left(writes) == {l \in writes : Before(pos, l.at)}
IsFirst(l, left) == \A m \in left \ {l} : Before(l.at, m.at)

\* A place in the loops over the modules: column, row, call and number in the call,
\* the core before the memory.
At(s, k) == <<s[1], s[2], IF s[3] = "MEM" THEN 2 ELSE 1, k>>

\* A write that the device carries out, and one that it refuses.
Done(w) == regs' = (regs \ w.clr) \cup w.set /\ UNCHANGED faults
Refuses(loop, at) ==
    <<loop, at>> \in Refused /\ faults < MaxFaults /\ faults' = faults + 1 /\ UNCHANGED regs

\* A refused write ends the call it belongs to, so that the other directions of an
\* unblocking are not written.
AfterRefused(at) == [at EXCEPT ![4] = 4]

\* The next write of a loop; it goes on unless the write mattered and was refused.
Goes(loop, l) == /\ pc = loop
                 /\ \/ Done(l.w) /\ pos' = l.at
                    \/ Refuses(loop, l.at) /\ ~l.w.must /\ pos' = AfterRefused(l.at)
                 /\ UNCHANGED pc

----------------------------------------------------------------------------
(* Broadcast channels. *)

Free_InOne(S, taken) == {c \in Channels : \E s \in S : <<s, c>> \notin taken}

Free(S, taken) == {c \in Channels : \A s \in S : <<s, c>> \notin taken}

\* Channels are marked and released in all modules of a list.
Mark(S, c) == runtime' = runtime \cup (S \X {c})
ReleaseBroadcastChannel(G) == runtime' = runtime \ G /\ static' = static \ G

\* The first channel that is free in all modules, at run time and at compile time.
FirstFree(S) == Min(Free(S, runtime \cup static))
HasFree(S) == Free(S, runtime \cup static) # {}

\* Another call: what the last synchronization achieved is over.
Forget == result' = "none" /\ synced' = {}

\* XAie_RequestBroadcastChannel and XAie_RequestSpecificBroadcastChannel.
UserRequest(u, r) ==
    LET S == IF r.kind = "all" THEN Ungated(Gen, tiles) ELSE SlotsOf(Gen, r.at)
        c == IF r.kind = "id" THEN r.id ELSE FirstFree(S)
    IN  /\ pc = "Idle" /\ held[u] = {} /\ S # {}
        /\ IF r.kind = "id" THEN r.id \in Free(S, runtime) ELSE HasFree(S)
        /\ Mark(S, c)
        /\ held' = [held EXCEPT ![u] = S \X {c}]
        /\ UNCHANGED <<device, static, regs, errnet, lost, pc, pos, bcId, lists, faults>>
        /\ Forget

UserRelease(u) ==
    /\ pc = "Idle" /\ held[u] # {}
    /\ ReleaseBroadcastChannel(held[u])
    /\ held' = [held EXCEPT ![u] = {}]
    /\ Forget
    /\ UNCHANGED <<device, regs, errnet, lost, pc, pos, bcId, lists, faults>>

LoadStatic ==
    /\ pc = "Idle" /\ runtime = {}
    /\ static' = static \cup (SlotsOf(Gen, StaticTiles) \X {0})
    /\ Forget
    /\ UNCHANGED <<device, runtime, regs, held, errnet, lost, pc, pos, bcId, lists, faults>>

\* More tiles come into use.
RequestTiles(T) ==
    /\ pc = "Idle" /\ tiles \subseteq T
    /\ tiles' = T
    /\ Forget
    /\ UNCHANGED <<Gen, bits, regs, held, errnet, lost, pc, pos, bcId, lists, faults>>

----------------------------------------------------------------------------
(* XAie_SyncTimer. *)

Own == (RscsBC \X {BcastChannelId}) \cup (RscsBCShim \X {BcastChannelIdShim})

\* The call ends: its variables go out of scope.
EndSync(rc) == /\ pc' = "Idle" /\ pos' = Start /\ result' = rc
               /\ RscsBC' = {} /\ RscsBCShim' = {}
               /\ BcastChannelId' = 0 /\ BcastChannelIdShim' = 0

\* It ends without releasing its channels.
AbandonSync(rc) == EndSync(rc) /\ lost' = lost \cup Own

SyncTimer ==
    /\ pc = "Idle" /\ HasFree(Ungated(Gen, tiles))
    /\ RscsBC' = Ungated(Gen, tiles)
    /\ BcastChannelId' = FirstFree(RscsBC')
    /\ Mark(RscsBC', BcastChannelId')
    /\ pc' = "RequestShim" /\ Forget
    /\ UNCHANGED <<device, static, regs, held, errnet, lost, pos, bcId, RscsBCShim, BcastChannelIdShim, faults>>

RequestShim ==
    /\ pc = "RequestShim"
    /\ IF HasFree(ShimSlots)
       THEN /\ RscsBCShim' = ShimSlots
            /\ BcastChannelIdShim' = FirstFree(ShimSlots)
            /\ Mark(ShimSlots, BcastChannelIdShim')
            /\ pc' = "Block"
            /\ UNCHANGED <<lost, pos, RscsBC, BcastChannelId, result>>
       ELSE AbandonSync("error") /\ UNCHANGED runtime
    /\ UNCHANGED <<device, static, regs, held, errnet, bcId, synced, faults>>

BlockDirs_NoParity(s) == IF ~IsAie(Gen, s[2]) THEN {"W", "E"} ELSE IF s[3] = "MEM" THEN {"E"} ELSE {"W"}

\* A column keeps the broadcast to itself; inside of a tile it may pass.
BlockDirs(s) ==
    IF ~IsAie(Gen, s[2]) THEN {"W", "E"}
    ELSE IF Gen = "AIE" /\ s[2] % 2 = 0
    THEN IF s[3] = "MEM" THEN {"W"} ELSE {"E"}
    ELSE IF s[3] = "MEM" THEN {"E"} ELSE {"W"}

Above(S) == {s \in S : s[2] # ShimRow}

\* The loops of the function.
SyncWrites(loop) ==
    LET zero == <<0, ShimRow, "PL">>
        arm(s) == EventBroadcast(s, BcastChannelId, BcastChannelIdShim)
    IN CASE loop = "Block" ->
              {[at |-> At(x[1], DirNo[x[2]]), w |-> Block(x[1], 0, {BcastChannelId}, x[2])] :
                  x \in {y \in Above(RscsBC) \X Dirs : y[2] \in BlockDirs(y[1])}}
         [] loop = "Arm" ->   \* the result of the first is overwritten by that of the second
              {[at |-> At(s, 1), w |-> IF s = zero THEN Ignored(arm(s)) ELSE arm(s)] : s \in ShimSlots}
              \cup {[at |-> <<0, ShimRow, 2, 1>>,
                     w |-> EventBroadcast(zero, BcastChannelIdShim, BcastChannelIdShim)]}
         [] loop = "SetReset" ->
              {[at |-> At(s, 1), w |-> SetTimerResetEvent(s, {<<"reset", s, BcastChannelId>>})] :
                  s \in RscsBC}
         [] loop = "ClearReset" ->
              {[at |-> At(s, 1), w |-> SetTimerResetEvent(s, {})] : s \in RscsBC}
         [] loop = "Unblock" ->
              {[at |-> At(x[1], DirNo[x[2]]), w |-> Unblock(x[1], 0, BcastChannelId, x[2])] :
                  x \in Above(RscsBC) \X {"W", "E"}}
         [] loop = "ClearShim" ->
              {[at |-> At(s, 1), w |-> EventNone(s, BcastChannelId)] : s \in ShimSlots}
         [] loop = "ClearFirst" ->
              {[at |-> At(zero, 1), w |-> EventNone(zero, BcastChannelIdShim)]}

NextLoop_NoUnblock ==
    [Block |-> "Arm", Arm |-> "SetReset", SetReset |-> "Generate",
     ClearReset |-> "ClearShim", ClearShim |-> "ClearFirst", ClearFirst |-> "Release"]

NextLoop ==
    [Block |-> "Arm", Arm |-> "SetReset", SetReset |-> "Generate",
     ClearReset |-> "Unblock", Unblock |-> "ClearShim", ClearShim |-> "ClearFirst", ClearFirst |-> "Release"]

\* What a refused write makes the call return: in the first loop, RC is what the
\* request of the channels has returned.
Returned(loop) == IF loop = "Block" THEN "ok" ELSE "error"

SyncLoop(loop) ==
    /\ pc = loop
    /\ LET left == Left(SyncWrites(loop)) IN
         \/ \E l \in left :
               /\ IsFirst(l, left)
               /\ \/ Goes(loop, l) /\ UNCHANGED <<lists, result, lost>>
                  \/ Refuses(loop, l.at) /\ l.w.must /\ AbandonSync(Returned(loop))
         \/ /\ left = {}
            /\ pc' = NextLoop[loop] /\ pos' = Start
            /\ UNCHANGED <<lists, result, lost, regs, faults>>
    /\ UNCHANGED <<device, bits, held, errnet, bcId, synced>>

SyncLoops == \E loop \in DOMAIN NextLoop : SyncLoop(loop)

\* The event is generated in the first shim, runs along the shims if it is armed
\* there to do so, and starts a broadcast in each that it reaches and that is armed.
Started ==
    LET first == <<<<0, ShimRow, "PL">>, 0>>
        along == IF <<"broadcast", first[1], BcastChannelIdShim, BcastChannelIdShim>> \in regs
                 THEN Reach(BcastChannelIdShim, {first}, ShimSlots)
                 ELSE {first}
    IN  {s \in ShimSlots : /\ <<s, 0>> \in along
                           /\ <<"broadcast", s, BcastChannelId, BcastChannelIdShim>> \in regs}

\* Where the broadcasts of some shims get to.
Broadcasted(from) == {x[1] : x \in Reach(BcastChannelId, from \X {0}, Ungated(Gen, tiles))}

Generate ==
    /\ pc = "Generate"
    /\ \/ /\ synced' = {s \in Broadcasted(Started) : <<"reset", s, BcastChannelId>> \in regs}
          /\ pc' = "ClearReset"
          /\ UNCHANGED <<lists, pos, result, lost, regs, faults>>
       \/ Refuses(pc, pos) /\ AbandonSync("error") /\ UNCHANGED synced
    /\ UNCHANGED <<device, bits, held, errnet, bcId>>

Release ==
    /\ pc = "Release"
    /\ ReleaseBroadcastChannel(Own)
    /\ EndSync("ok")
    /\ UNCHANGED <<device, regs, held, errnet, lost, bcId, synced, faults>>

SyncStep == SyncTimer \/ RequestShim \/ SyncLoops \/ Generate \/ Release

----------------------------------------------------------------------------
(* XAie_ErrorHandlingInit. *)

\* XAie_ErrorHandlingReserveRsc: the error channel in all modules, then the
\* channels from L1 to L2 in the shims.
ErrorHandlingInit ==
    /\ pc = "Idle" /\ 0 \in Free(Ungated(Gen, tiles), runtime)
    /\ Mark(Ungated(Gen, tiles), 0)
    /\ errors' = Ungated(Gen, tiles) \X {0}
    /\ wired' = tiles
    /\ pc' = "Reserve" /\ Forget
    /\ UNCHANGED <<device, static, regs, held, errs, lost, pos, bcId, lists, faults>>

RollBack_OneMore(i) == (ShimSlots \X (1..i)) \cup {g \in errors : g[2] = 0}

\* The roll back sets the channel in entry i of the list, not in all of them:
\* the other entries hold the last channel that was granted.
RollBack(i) ==
    (IF i = 1 THEN {} ELSE {<<s, IF s[1] = i THEN j ELSE i - 1>> : s \in ShimSlots, j \in 1..i-1})
    \cup {g \in errors : g[2] = 0}

ReserveShim ==
    /\ pc = "Reserve" /\ bcId < MaxErrorBcIdsRvd
    /\ IF bcId \in Free(ShimSlots, runtime)
       THEN /\ Mark(ShimSlots, bcId)
            /\ errors' = errors \cup (ShimSlots \X {bcId})
            /\ bcId' = bcId + 1
            /\ UNCHANGED <<static, lost, pc, wired>>
       ELSE /\ ReleaseBroadcastChannel(RollBack(bcId))
            /\ lost' = lost \cup (errors \ RollBack(bcId))
            /\ errors' = {} /\ wired' = {} /\ pc' = "Idle" /\ bcId' = 1
    /\ UNCHANGED <<device, regs, held, errs, pos, lists, synced, result, faults>>

Reserved ==
    /\ pc = "Reserve" /\ bcId = MaxErrorBcIdsRvd
    /\ pc' = "Errors" /\ bcId' = 1
    /\ UNCHANGED <<device, bits, regs, held, errnet, lost, pos, lists, synced, result, faults>>

\* _XAie_IntrCtrlL1IrqId and _XAieMl_IntrCtrlL1IrqId.
L1IrqId(gen, col, sw) ==
    IF gen = "AIE"
    THEN ((col % 4) % 3) * 2 + sw + (IF col + 3 > NumCols THEN 2 ELSE 0)
    ELSE IF ~IsNoc(col)
    THEN (col % 4) * 2 + sw + (IF (col \div 4) * 4 + 2 < NumCols THEN 0 ELSE 2)
    ELSE IF col % 4 = 2 THEN 4 + sw ELSE sw

HasNextNoc(col) == \E c \in ColRange : c > col /\ IsNoc(c)

\* The direction in which the shim of a column hands on what its L1 reports.
ShimDirs_East(col) == {"N", "S", "W"}

ShimDirs(col) == IF IsNoc(col) \/ HasNextNoc(col) THEN {"N", "S", "W"} ELSE {"N", "S", "E"}

\* The writes of the function are in the order of phase, column, part of the column,
\* row, call and number in the call: AIE tiles come before memory tiles, and these
\* before the shim.
Part(gen, row) == IF row = ShimRow THEN 3 ELSE IF IsAie(gen, row) THEN 1 ELSE 2

\* Modules above the shim keep channel 0 from going anywhere but down.
ArrayWrites(gen, T) ==
    {[at |-> <<1, x[1][1], Part(gen, x[1][2]), x[1][2],
               IF x[1][3] = "MEM" /\ IsAie(gen, x[1][2]) THEN 2 ELSE 1 + x[2], DirNo[x[3]]>>,
      w |-> Block(x[1], x[2], {0}, x[3])] :
         x \in {y \in SlotsOf(gen, T) \X {0, 1} \X {"N", "E", "W"} : IsAie(gen, y[1][2]) => y[2] = 0}}

\* The channels that the switch B of a shim keeps from going on, and the directions.
BlockedB(gen, col) ==
    IF ~IsNoc(col) THEN {L1IrqId(gen, col, 1)}
    ELSE 0..(IF HasNextNoc(col) THEN L1IrqId(gen, col, 1) ELSE 5)
DirsB(col) == IF IsNoc(col) THEN Dirs ELSE ShimDirs(col)

\* The writes for the shim of a column.
ShimWrites(gen, col) ==
    LET s == <<col, ShimRow, "PL">>
        at(k, d) == <<1, col, Part(gen, ShimRow), ShimRow, k, d>>
        set(k, x) == [at |-> at(k, 0), w |-> Write({x})]
    IN  {set(1, <<"l1block", s, 0>>), set(2, <<"l1block", s, 1>>),
         set(3, <<"l1enable", s, 0>>), set(4, <<"l1enable", s, 1>>), set(5, <<"l1enable shim", s, 0>>),
         set(6, <<"irq", s, 0, L1IrqId(gen, col, 0)>>), set(7, <<"irq", s, 1, L1IrqId(gen, col, 1)>>)}
        \cup {[at |-> at(8, DirNo[d]), w |-> Block(s, 1, BlockedB(gen, col), d)] : d \in DirsB(col)}
        \cup (IF IsNoc(col) THEN {set(9, <<"l2enable", s, 0>>)} ELSE {})
        \cup {[at |-> at(10, DirNo[d]), w |-> Block(s, 0, {L1IrqId(gen, col, 0)}, d)] : d \in ShimDirs(col)}

AllShimWrites(gen) == UNION {ShimWrites(gen, col) : col \in ColRange}

\* _XAie_GroupErrorInit: the memory before the core.
GroupWrites(gen, T) ==
    LET at(s, k) == <<2, s[1], Part(gen, s[2]), s[2], IF s[3] = "CORE" THEN 2 ELSE 1, k>>
    IN  {[at |-> at(s, 1), w |-> Write({<<"group", s, 0>>})] : s \in SlotsOf(gen, T) \cup ShimSlots}
        \cup {[at |-> at(s, 2), w |-> EventBroadcast(s, 0, GroupErrors)] : s \in SlotsOf(gen, T)}
        \cup {[at |-> at(s, 2), w |-> Write({<<"l1event", s, 0>>})] : s \in ShimSlots}

\* _XAie_ErrorHandlingEventHaltCore: the columns are those of the partition, and the
\* loop begins with a column of the device.
HaltWrites(gen, T) ==
    {[at |-> <<3, s[1], 1, s[2], 1, 1>>, w |-> Write({<<"halt", s, 0>>})] :
        s \in {t \in SlotsOf(gen, T) : t[3] = "CORE" /\ t[1] >= StartCol}}

ErrorWrites == [gen \in Gens |-> [T \in TileSets |->
    ArrayWrites(gen, T) \cup AllShimWrites(gen) \cup GroupWrites(gen, T) \cup HaltWrites(gen, T)]]

ErrorsWritten ==
    /\ pc = "Errors"
    /\ LET left == Left(ErrorWrites[Gen][tiles]) IN
         \/ \E l \in left :
               /\ IsFirst(l, left)
               /\ \/ Goes(pc, l) /\ UNCHANGED errs
                  \/ /\ Refuses(pc, l.at) /\ l.w.must
                     /\ pc' = "Idle" /\ pos' = Start /\ errs' = "failed"
         \/ /\ left = {}
            /\ pc' = "Idle" /\ pos' = Start /\ errs' = "on"
            /\ UNCHANGED <<regs, faults>>
    /\ UNCHANGED <<device, bits, held, errors, wired, lost, bcId, lists, synced, result>>

ErrorStep == ErrorHandlingInit \/ ReserveShim \/ Reserved \/ ErrorsWritten

----------------------------------------------------------------------------
Init ==
    /\ Gen \in Gens /\ tiles \in TileSets
    /\ runtime = {} /\ static = {} /\ regs = {}
    /\ held = [u \in Users |-> {}] /\ errors = {} /\ errs = "off" /\ wired = {}
    /\ lost = {} /\ pc = "Idle" /\ pos = Start /\ bcId = 1
    /\ RscsBC = {} /\ RscsBCShim = {} /\ BcastChannelId = 0 /\ BcastChannelIdShim = 0
    /\ synced = {} /\ result = "none" /\ faults = 0

Next ==
    \/ \E u \in Users : UserRelease(u) \/ \E r \in Requests : UserRequest(u, r)
    \/ LoadStatic
    \/ \E T \in TileSets : RequestTiles(T)
    \/ SyncStep
    \/ ErrorStep

Spec == Init /\ [][Next]_vars

----------------------------------------------------------------------------
(* Properties. *)

Driver == errors \cup lost \cup Own

TypeOK ==
    /\ Gen \in Gens /\ tiles \in TileSets
    /\ runtime \subseteq Rscs /\ static \subseteq Rscs
    /\ held \in [Users -> SUBSET Rscs]
    /\ errors \subseteq Rscs /\ lost \subseteq Rscs
    /\ RscsBC \subseteq Slots /\ RscsBCShim \subseteq Slots
    /\ BcastChannelId \in Channels /\ BcastChannelIdShim \in Channels
    /\ errs \in {"off", "on", "failed"} /\ result \in {"none", "ok", "error"}
    /\ bcId \in 1..MaxErrorBcIdsRvd /\ faults \in 0..MaxFaults

\* A bit of the bitmaps is set for one owner, and for as long as he owns it.
RuntimeBitsAreOwned ==
    /\ runtime = Driver \cup UNION {held[u] : u \in Users}
    /\ \A u \in Users : held[u] \cap Driver = {}
    /\ \A u, v \in Users : u # v => held[u] \cap held[v] = {}

\* A channel nobody has reserved in a module is as it was after reset: nothing
\* blocked, armed or reset by it.
FreeChannelsAreClean ==
    pc = "Idle" => \A f \in regs :
        f[1] \in {"block", "broadcast", "reset"} => <<f[2], f[3]>> \in runtime

\* "This API synchronizes timer for all tiles for all modules in the partition":
\* when it returns XAIE_OK, one event has reset the timers of all of them.
TimersAreSynchronized == result = "ok" => Ungated(Gen, tiles) \subseteq synced

\* In the rows of AIE tiles the broadcast of a column stays in it, and passes from
\* core to memory: on both generations, in even and in odd rows.
ColumnsAreSeparate ==
    pc = "Generate" => \A l \in Links[Gen] :
        LET s == l[1][1]
            t == l[3][1]
        IN  {s, t} \subseteq Above(Ungated(Gen, tiles)) /\ IsAie(Gen, s[2]) /\ l[2] \in {"E", "W"} =>
                (<<"block", s, BcastChannelId, 0, l[2]>> \in regs <=> s[1] # t[1])

\* The switches at which the errors of a module leave it.
Leaves(s) == IF s[3] = "MEM" /\ ~IsAie(Gen, s[2]) THEN {<<s, 0>>, <<s, 1>>} ELSE {<<s, 0>>}

\* The L1 switches at which they arrive.
ArrivesAt(s) ==
    LET R == Reach(0, Leaves(s), SlotsOf(Gen, tiles))
    IN  {<<l[3][1][1], l[3][2]>> : l \in {k \in Links[Gen] : /\ k[1] \in R /\ k[2] = "S"
                                       /\ k[3][1] \in ShimSlots
                                       /\ <<"block", k[1][1], 0, k[1][2], "S">> \notin regs}}

\* The L2 controllers, and the channels, at which an L1 switch reports.
ReportsTo(col, sw) ==
    LET s == <<col, ShimRow, "PL">>
        ids == {i \in Channels : <<"irq", s, sw, i>> \in regs}
    IN  {x \in ColRange \X ids :
            LET noc == <<x[1], ShimRow, "PL">>
            IN  <<"l2enable", noc, 0>> \in regs /\ <<noc, 1>> \in Reach(x[2], {<<s, sw>>}, ShimSlots)}

\* When the error network is on, the errors of a module arrive at switches of its
\* own column only, and each of these switches has one channel of one L2
\* controller to itself: no error is lost, reported twice or taken for another's.
ErrorsReachTheirL2 ==
    errs = "on" /\ pc = "Idle" =>
        /\ \A s \in SlotsOf(Gen, wired) : /\ ArrivesAt(s) # {}
                                          /\ \A a \in ArrivesAt(s) : a[1] = s[1]
        /\ \A c \in ColRange, sw \in {0, 1} : Cardinality(ReportsTo(c, sw)) = 1
        /\ \A c, d \in ColRange, sw, tw \in {0, 1} :
              <<c, sw>> # <<d, tw>> => ReportsTo(c, sw) \cap ReportsTo(d, tw) = {}

\* For its users the resource manager is a pool of channels that are each owned
\* once.
Owners == Users \cup {"driver"}
owned == [o \in Owners |-> IF o = "driver" THEN Driver ELSE held[o]]
Pool == INSTANCE ChannelPool WITH owned <- owned
ImplementsPool == Pool!Spec
=============================================================================
