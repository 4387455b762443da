# aie-rt in TLA+

A verification project for the AI Engine run time: the user space driver (`src/driver`) and the C++
functional abstraction layer on top of it (FAL, `src/fal`). The modules are translated from the source;
TLC checks them on small instances, and TLAPS proves, for every value of their constants, theorems about
the resource manager, the transactions, the tile clocks, the broadcast channels, the backtracking of error
interrupts, the streaming of data through locks and DMA channels, and the counters of the FAL.

## 1. The system

An AI Engine array is a grid of tiles: row 0 holds shim tiles, then there may be rows of memory tiles,
then rows of AIE tiles with a core and a memory module. A *partition* is a range of columns; a device
instance (`XAie_DevInst`) drives one partition. Two families are supported, AIE and AIE-ML, which differ
in most of the sequences below.

### Components, their state and what makes them correct

| Component | State | Operations | Must hold |
|---|---|---|---|
| Resource manager (`rsc/`, `io_backend/ext/xaie_io_common.c`) | one bit array per tile type and resource type: runtime and static bits of each module | request, request contiguous, request by name, free, release, load metadata, count | a bit is set exactly while somebody owns the resource; grants are exclusive; a request that fails leaves nothing |
| Transactions (`common/xaie_helper.c`) | a list of instances, each with a thread id and a command buffer; heap copies of block writes | start, register operations, automatic flush, submit, export, free, clear, finish | program order per thread, nothing lost, nothing run twice, buffers owned once |
| Tile clocks (`pm/xaie_clock.c`, `device/`) | bitmap `TilesInUse`; clock registers | request a list of tiles or all | requested tiles have a clock, unused tiles have none, registers are written through clocked tiles |
| Partition sequences (`io_backend/privilege`, `pm/xaie_reset*.c`, `npi/`) | column and NPI registers | initialize, teardown, reset | protected registers are closed, success means done, resets are quiet |
| FAL resources (`fal/src/rsc`) | per object the life cycle bits, the granted resource, pointers to sub-resources | configure, reserve, release, free, start, stop | what an object owns is what the driver has marked; a running counter's events reach it |
| Broadcast channels and timers (`rsc/xaie_rsc_bcast.c`, `timer/`, `events/`) | bits as above, on many modules; block, broadcast and reset registers | request any or one channel, release, synchronize the timers | one owner per channel; free channels are clean; all timers are reset by one event |
| Error network (`interrupt/xaie_interrupt_init.c`) | reserved channels, interrupt controllers | reserve, set up | every error reaches one channel of one second level controller |
| Interrupt backtracking (`interrupt/xaie_interrupt_backtrack.c`, `_control.c`, `lite/`) | event statuses, enabled errors, controllers; the place to go on | handle an interrupt, walk up the columns, go on after a full buffer | every error is reported, once; channels are enabled again |
| DMA and locks (`dma/`, `locks/`, `MaskPoll` of the backends) | locks, task queues, descriptors | acquire, release, push, count, wait | a buffer has one user; the pending count is exact; timeouts tell the truth |
| ECC and ELF loading (`pm/xaie_ecc.c`, `core/xaie_elfloader.c`) | per tile flags, reserved counters | load, switch on and off, event reset | a memory in use is scrubbed once |
| Stream switch, events, trace, PL interface, core control, memory access, utilities, register tables | registers only | one access per call | encodings |

### How they interact

Every component changes registers through `XAie_Write32` and its siblings, so a transaction that the
calling thread has started may buffer them (`Txn`). The FAL, the error network and ECC are clients of the
resource manager: they hold what it grants. Partition initialization gates and ungates the columns behind
the back of the clock driver, which remembers in `TilesInUse` what it enabled (`TilePm` has an action for
it). All device instances of a process share the resource manager's common backend and, through
`DevOps`, `TilesInUse`. The synchronization of the timers and the error network compete with the users for
the broadcast channels, and the errors that the backtracking looks for come along the routes that the error
network has programmed. The driver starts no thread of its own: what is concurrent are the threads of the
host, the interrupt handler that it installs, and the device, whose DMA channels and errors do not wait.

### Hard behaviours

- requests over several tiles that fail in the middle and are rolled back, mixed with requests by name;
- bit arithmetic: two modules, two kinds of bits and all tiles of a type in one array;
- several threads that issue, flush and submit on one instance; a device that refuses a command half way;
- clocks that pass from tile to tile, with lists of tiles in any order, and a cache of them that goes
  stale when something else resets the columns;
- long privileged sequences in which any write may fail and every error path has to restore the protection;
- a network of registers that knows no owners, shared by several of them one after the other;
- a handler and a walk over many registers that race with the errors they look for, and a walk that has to
  stop in the middle and be taken up again;
- registers that change when they are read, read by a loop with a time out;
- resources made of resources, and errors in the middle of a start or a stop.

`PROJECT.json` lists each hazard at its line, with the properties that cover it.

## 2. Modules

A definition whose name ends in `_<Word>` after the name of another is a deliberately wrong variant of
it; the properties are known to tell the two apart.

**`RscLayout`** has no state: where the bits of a resource are (`RuntimeBit`, `StaticBit`), from
`_XAie_GetTileRscStartBitPosFromLoc`, `_XAie_GetCoreBitmapOffset` and `_XAie_RscMgr_GetBitmapOffsets`.
One instance stands for one resource type. `Rscs` are the resources that exist; a caller may also name one
that does not: its id is then in `Strays`, and nothing in the code objects (`NamedRscs`).

**`RscMgr`** extends it with the requests. `Bitmaps` is the driver's array, `held` what the callers were
returned and have not given back (a ghost: the driver does not know its callers), `call` the request in
progress. A request is a loop over the caller's list; each iteration is a step (`GrantRsc`,
`GrantRscContig`, `GrantAllocatedRsc`), so that the roll back of a failure at any iteration is visible.
Calls do not overlap: the resource manager has no lock and its users serialize their calls.

**`RscPool`** is what the resource manager promises: a pool in which a request takes effect at once or
not at all, and a resource has at most one holder. `RscMgr` implements it with `held` as it is and
`reserved` computed from the static bits.

**`Txn`**: `TxnList` is the list of instances, `insts[i].cmds` the command buffer, `heap` the allocated
copies of block write data, `flush[t]` where thread `t` is in `_XAie_Txn_FlushCmdBuf`. Every command a
flush runs is a step, so other threads act in between. `issued`, `done` and `dropped` record what
happened to each operation.

**`TilePm`**: `TilesInUse`, the column clock buffers `ColClk` and the registers `NextTileClk` that pass
the clock on (AIE). A request goes through its list; each turn of the gating and ungating loops is one
step. `ResetClocks` is what the partition sequences leave of the clocks.

**`PartInit`**: `InitPart`, `TeardownPart` and `ResetPartition` are the sequences as data, a list of steps
each of which names a register, the columns, and what the code does when the write fails (return, close
the protected registers, go on). `StepSucceeds` and `StepFails` run them; a failing step may have written
some of its columns.

**`FalPerf`**: objects `XAiePerfCounter` of one tile, with the life cycle of `XAieRsc`, the counter that
the driver grants (of the other module if need be), and the broadcast channels for the events of the other
module. `ctrl` and `bcast` are the registers; `used` and `static` the driver's bits for the tile. A release
gives back the channels of the events of that moment; `lost` holds what was reserved and no object will ever
give back.

**`BcastNet`**: `runtime` and `static` are the bits of the broadcast channels, module by module; `held`,
`errors`, `RscsBC` and `RscsBCShim` say who reserved them and `lost` which of them a failed call forgot.
`regs` is the set of register bits that are not as after a reset. The network itself (`Links`, `Reach`) is
the device's: which module forwards what to whom. `XAie_SyncTimer` and `XAie_ErrorHandlingInit` are loops
over register writes. A loop is a set of writes, each with its place in the order of the program
(`SyncWrites`, `ErrorWrites`); `pos` is the place of the last one, and the next step is the write with the
least place behind it (`IsFirst`, `Goes`). The writes in `Refused` may be refused, and what then follows is
that of the code for each loop. The tiles in use of a column are contiguous from below, as a tile is
clocked through those below it.

**`ChannelPool`** is what the reservation of channels promises its users; `BcastNet` implements it.

**`ErrBacktrack`**: `active`, `enables`, `group` and the controllers are the device's side; `pc` and the
variables that bear the code's names are where `XAie_BacktrackErrorInterrupts` is. Every register access is
one step, so errors occur (`Raise`) and their broadcasts run down the column (`Arrive`) in between, and the
handler of the interrupt (`Isr`) runs when a channel reports. A call whose buffer is full ends in `Insufficient` and is repeated with another buffer.
`reports` counts how often each error was reported.

**`TileDma`**: on each of two sides a host thread (`HostStep`) and a DMA channel (`ChannelStep`) pass a
buffer to each other with its lock. A poll (`MaskPoll` of the bare metal, Linux or simulator backend) is
one read per step, `left` the reads it still makes before its time out; a read of a lock's register is a request to the lock.
`queue` is the occupancy of the task queue that the driver reads from the channel's status; `pushed` and
`completed` are ghosts.

The `MC*` modules and the `.cfg` files hold the instances. `RscMgr_proofs`, `Txn_proofs`, `TilePm_proofs`,
`PartInit_proofs`, `FalPerf_proofs`, `BcastNet_proofs`, `ErrBacktrack_proofs` and `TileDma_proofs` hold the
theorems.

## 3. Runs

| Run | Instance | Shows |
|---|---|---|
| `rsc_core` | two columns, a memory tile row and one row of AIE tiles, a resource per module, lists of two, two clients | the bits are owned and exclusive, counting is true, failed requests leave nothing and keep the reservations, and the bitmaps implement `RscPool` |
| `rsc_contig` | one core module with four PC events, blocks of one to four, two clients | the bits are owned when blocks are mixed with single and named requests |
| `txn_threads` | two threads, two instances, two operations each, all kinds of operations, refusals | program order and nothing lost |
| `txn_memory` | two threads, three operations each, no refusals, no custom operations | commands run once, buffers are owned, a flush is not disturbed |
| `tile` | two columns of three tiles above the shim row, lists of two, AIE and AIE-ML | requested tiles are and stay clocked, unused ones gated, writes reach clocked tiles |
| `part` | two columns, one with a SHIM NOC, AIE and AIE-ML, every set of options, failures | protection closed, success is complete, resets quiet, memories zeroized while clocked |
| `fal_perf` | two counter objects, one counter per module (the core's set aside), two channels, a failing start or stop | ownership, channels for every crossing event, routing of running counters |
| `bcast` | six columns of a shim and two rows, AIE and AIE-ML, with all or some tiles in use; one user, six error channels of eight, one refused write | channels are owned and free ones clean, timers are synchronized, columns stay separate, every error reaches one channel of one controller, `ChannelPool` is implemented |
| `backtrack` | six columns, four errors in two modules of the last column, over a tile that is not in use, and in the shim of another, buffers of one and five entries | every error is reported exactly once and disabled, broadcasts arrive where they are looked for, group events are cleared late enough, channels are enabled again |
| `backtrack_resume` | the same, and errors may occur while a buffer that can overflow is filled | *violation*: an error in a lower row hides those that a full buffer left above it |
| `dma` | three items through two channels with queues of two, AIE and AIE-ML, three backends, time outs of zero and two | locks are taken once, items arrive in order and all of them, the pending count is exact, a wait that succeeds tells the truth |
| `dma_linux` | the same with the Linux backend | *violation*: the second read of a lock's register acquires or releases once more |

### What the hypotheses leave out

Each hypothesis under which the passing runs and the theorems hold stands for something the code does not check. The
following configurations drop one hypothesis each (`tlc -config MCRscStray.cfg MCRscMgr`), and TLC finds the property violated:

| Configuration | Instance | Property | What happens |
|---|---|---|---|
| `MCRscStray.cfg` of `MCRscMgr` | two tiles with one counter each, and the id after the last | `RequestsStayInTheirModules` | a request by name marks a bit of the next tile |
| `MCRscBlock.cfg` of `MCRscMgr` | two cores with four PC events each, blocks of up to five | `RequestsStayInTheirModules` | a block does not end with its module |
| `MCTxnRefused.cfg` of `MCTxn` | two threads, two operations each, refusals | `BuffersAreOwned` | after a failed flush the buffer refers to data that was freed |
| `MCTileReset.cfg` of `MCTilePm` | as `tile` with lists of one, and resets after requests | `RequestedTilesAreClocked` | a tile that is requested again stays gated |
| `MCPartOne.cfg` of `MCPartInit` | one column, no failures | `BoundaryIsIsolated` | the partition is not isolated to the east |
| `MCFalLate.cfg` of `MCFalPerf` | as `fal_perf`, and reset events given after the reservation | `ChannelsAreReserved` | a reserved counter has no channel for its reset event |
| `MCBcastBlock.cfg` of `MCBcastNet` | as `bcast` on AIE-ML, one refused write of the first loop of `XAie_SyncTimer` | `TimersAreSynchronized` | the call returns `XAIE_OK`, and no timer is synchronized |
| `MCErrScan.cfg` of `MCErrBacktrack` | as `backtrack`, and errors may occur in the module that is examined | `GroupClearedWhenBacktracked` | the group event is cleared while an error is active that was not reported |

### Why the bounds are enough

- *Resource manager.* Interference needs two tiles of one type, two modules and two clients: all are
  there, and a list of two is the shortest that can fail after a grant. The theorems of section 5 cover all
  other sizes for callers that name resources that exist and ask for blocks that fit; `MCRscStray.cfg`
  and `MCRscBlock.cfg` are about the others.
- *Transactions.* Order can go wrong between two operations of a thread, with a third operation or another
  thread in between; two instances are the most two threads have listed unless one also exports. The
  theorems cover all other numbers.
- *Tiles.* Three tiles above the shim row give a tile in the middle of a column, with one below and one
  above; two columns expose bits that leave their column; the number of requests is not bounded.
- *Partitions.* AIE treats the first and the last column differently, so two are needed; a step fails
  before, between or after the columns; `MCPartOne.cfg` has the one column that is first and last. One partition:
  see section 6.
- *FAL.* Two objects compete for the same memory module counter and for two channels while one of them may
  need up to three, so that every reservation can fail after the first or second channel. The constants
  `Named`, `EventMods` and `CanFail` of the instance say which objects are configured how and keep it
  small; the number of calls is not bounded. `fal_perf` keeps the reset events of reserved counters as they
  are (`LateRst`), `MCFalLate.cfg` does not.
- *Broadcast network.* Six columns have a controller with columns on both sides and the columns at the east
  edge that report to the west; two rows of AIE tiles have both parities. The user holds channels of tiles
  and of shims, one of which is reserved at compile time. The refused writes `Refused` are one of a loop
  whose result is kept, one of the generation and one of the error network, and in `MCBcastBlock.cfg` one of the
  first loop; `MaxFaults` bounds them.
- *Backtracking.* Two errors of a module and one of a module below it are needed to stop within a module
  and between the modules of a column, a third module to stop between columns. Its column has another
  controller; the column of the others has no controller of its own nor one on its right, the case in which
  the tables of `RoutesAreInverse` are shifted.
- *DMA.* A queue of two is filled by three items, and the host pushes the third while the first moves. A
  poll of the bare metal and Linux backends reads at most twice for a time out between one and 200
  microseconds, one of the simulator reads once per microsecond: zero and two are the two cases.

### Fairness

`ErrBacktrack` states `Fairness`: errors need not occur (`Raise` is not fair), but the broadcast of one that
did reaches the controller (`Arrive`), an enabled interrupt is taken (`Isr`), and the backtracking that the
handler asked for is called, goes on, and is called again after it returned that the buffer was too small,
as the comment of the function asks (`BacktrackStep`). `TileDma` states weak fairness of the
two host threads and the two channels: threads are scheduled, and a channel that finds its lock and its
stream ready goes on. Weak fairness is enough as nobody but its owner disables a step for good. The other
specifications state none: all of their code runs in the caller's thread and nothing obliges a caller to
call again; their loops end by counting.

## 4. Deadlock

Deadlock is checked in all passing runs but `backtrack` (and in `dma_linux`): when all errors have been
reported nothing needs to happen any more. In `TileDma` the step `Terminated` stands for the end of both
threads, so a deadlock between hosts, locks, queues and the stream would be found.

## 5. Theorems

In `RscMgr_proofs`, `BitsAreDisjoint`: the runtime and static bits of all resources of one tile type are
pairwise different. The bit position is a mixed radix number (module, kind, column, row, id); the lemmas
bound each digit and show that the regions of the modules and kinds follow each other inside the array.

Also there:

- `RscMgrSafety`: `Spec => [](TypeOK /\ RuntimeBitsAreHeld /\ ExclusiveGrants)`. The three are inductive
  only together: clearing the bits of one client's resources keeps `RuntimeBitsAreHeld` only if nobody else
  holds them (`ExclusiveGrants`), a grant is exclusive only if a clear bit means that nobody holds the
  resource (`RuntimeBitsAreHeld`), and both need the types to apply the layout's lemmas. `MarkEffect` and
  its counterparts for freeing and releasing say what an operation does to the bits of each resource; there
  is one step per action.
- `AvailRscStatIsTrueHolds`: the statistics count the resources that are free. The interval of bits that the code
  scans is the module's own, one bit for each of its resources (`BitsOfModule`), so the clear bits in it and
  the free resources are in bijection.
- `RequestsKeepReservationsHolds`: no step of a request, the roll back included, changes a static bit.
- `RscMgrImplementsPool`: the refinement. Only the return of a request, a free, a release and a load change
  the pool; the other steps stutter.

Assumptions: the partition has at least one column and one row of AIE tiles, the numbers of resources are
natural numbers, and two hypotheses of the theorems about requests: `NamesExist`, that callers name only
resources that exist, and `WindowsFit`, that a block of contiguous resources that begins in a module ends in
it. `WindowsFit` speaks of PC and combo events only, the two types that are granted in blocks; it is true of
them on all devices as long as no more than four are asked for. The code checks neither, and without
either hypothesis the theorems are false (`MCRscStray.cfg`, `MCRscBlock.cfg`).

In `TilePm_proofs`, the four properties of the run `tile` and one more, for every shape of the partition, lists of every
length and both generations: `RequestedTilesAreClockedHolds` (with the types),
`UnusedTilesAreGatedHolds`, `InUseIsColumnPrefixHolds`, `WritesReachClockedTilesHolds` and
`RequestsNeverGateTilesInUseHolds`. The inductive invariant `IInv` relates the bitmap to the registers at
every point of the loops:

- `UsedAreClocked`: a tile whose bit is set has a clock. To keep it when a tile is marked, the loops must
  have made its column pass the clock on up to that tile: `LoopsFollowTheClock`, which says how far the
  clock passes at each turn of the ungating and of the gating loop. A column enters the gating loop only
  when it is not in use, and then everything in it passes: `UnusedColumnsPass`.
- `AboveIsGated`: above the row that the loop has reached, and between requests above the uppermost tile in
  use, no tile passes the clock on. The loops move this row along with the first part.
- `RequestProgresses` and `RequestedAreInUse`: a tile of a request is in the list or marked.
- `InUseIsColumnPrefix` and, for AIE-ML, `ColumnsAreWhole`.

`MarkedBits` and `MarkedAreBits` show that the range of bits of a tile is that of the rows up to its own in
its own column. The theorems have the hypothesis `OneInstance`, which holds in the run as well: there is
one device instance, and no reset or request for all tiles comes after a request for a list. Without it
they are false (`MCTileReset.cfg`, and section 7).

In `Txn_proofs`, for any number of threads, instances and operations, and whatever the device refuses:
`ProgramOrderHolds`, `NothingLostHolds`, `FlushedInstIsStableHolds`, `TypeOKHolds`, and, for a device that
refuses nothing, `AtMostOnceHolds`. The invariant has two parts. `SInv` is about the data structures:
`ListInv` (the list holds allocated instances that are not exported, each once), `EmptyInv` (only the first
instance of a thread in the list has commands: the driver always finds that one) and `FlushInv` (a flush is
at a command of an allocated instance, of its thread or exported). `ThreadInv` is about one thread: its
waiting commands are in increasing order, all it issued ran, was thrown away or waits, and everything in
front of the flush has run. To a thread every step of anybody is one of eight effects (`Effect`: nothing,
one more command, one executed, the buffer drained, and so on); the lemmas `...Step` show this for each
action (`Served`), `EffectKeepsThread` that each effect keeps `ThreadInv`. `BuffersAreOwnedHolds` is about the
data copies, for a device that refuses nothing and without custom operations (section 7): the copies on the
heap that bear an instance's name are exactly those of its block writes that still have to run (`Buffers`),
so none is freed twice, used after it was freed, or lost.

In `PartInit_proofs`, for any number of partitions of every size, both generations and every set of options:
`TypeOKHolds`, `ProtectedRegsAreClosedHolds`, `InitOkIsCompleteHolds`,
`ColumnResetsAreQuietHolds` and `ZeroizedWhileClockedHolds`. The argument is that of a program logic. A step of a
sequence needs some facts about the hardware, secures some and spoils others (`Needs`, `Secures`,
`Spoils`); `Held` is the set of facts that hold now. `LeadsTo(gen, P, s, Q)` says that the steps `s` get
from the facts `P` to the facts `Q` and that every step on the way that may fail leaves what its error path
needs; the rules for a step and for concatenation give it for the three sequences. The invariant is that
what is left of the running sequence leads from `Held` to what the call promises (`Final`). Each
action removes one step from the front. What may fail: any register for the two action properties and the
types; not the protection register and the routing of the interrupts for `ProtectedRegsAreClosed`; not
the isolation for `InitOkIsComplete` (section 7 says what goes wrong otherwise). The run leaves out the same
registers.

In `BcastNet_proofs`, for every partition, set of requests and of refused writes: `RuntimeBitsAreOwnedHolds`,
`TypeOKHolds` and `ImplementsPoolHolds`, the refinement of `ChannelPool`. What a call of the driver owns is
in five places: the two lists of `XAie_SyncTimer`, what the error network holds, and what failed calls
lost. The invariant adds that these are disjoint, and what the roll back of the error channels may release
(`Held`): a release of one of them would otherwise take from another. The other four are about the registers:

- `FreeChannelsAreCleanHolds`. A bit that is set is of a channel that a failed call lost, or of the error
  network, or is cleared by a write of the running call that is still to come (`Tidy`). So the loops
  that clean up are compared with those that set, write by write and place by place (`SetIsCleared`).
- `ColumnsAreSeparateHolds`. A block above the shims that is not of the error network is on a side of a column
  (`Known`), and what a loop has passed is set (`Written`); the sides are those of the neighbours
  (`Sides`).
- `TimersAreSynchronizedHolds`. When the event is generated no link on its way is blocked, the first shim is armed
  to send it to the others, they to start the broadcast, and every module to reset its timer (`Ready`). That it gets everywhere is an induction over the columns (`ShimsReached`) and over the rows
  (`ColumnsReached`).
- `ErrorsReachTheirL2Holds`. When the error network is on, the routes are set as their writes set them
  (`Wired`) and nothing else is (`Shaped`). From each module the links to the south lead down its column,
  and no other link is open (`ErrorsArrive`, `ErrorsStayInColumn`). From each L1 switch the links lead along
  the shims to the L2 controller (`ReportGetsEast`, `ReportGetsWest`), and the set of shim switches in between
  is one that no open link leaves (`ReachWithin`, `ReportStaysEast`, `ReportStaysWest`), so no other
  controller is reached. `IrqIds` gives the channels as a function of the distance to the controller, so
  those of different switches differ.

`Reach` is defined by a recursive function. That this function exists, and with it everything that is
proved about `Reach`, is shown without the library's induction theorems: a set of numbers that holds 0 and
the successor of each of its elements is `Nat` (`EveryNumber`), used for the set of the numbers up to which
there is such a function (`StepExists`).

The hypotheses: `ErrorChannelsSuffice`, that at least six channels are reserved for errors (both register
tables have six), that the L1 ids stay below that and that the partition begins at a multiple of four
columns (section 7); `LastColumnsReport`, that on AIE two columns follow
the last controllers (both are about the widths of section 7: for AIE they say that the width leaves the
rest 2 when divided by 4, as 50, the width of the device, does, and for AIE-ML they exclude nothing);
`CleanUpSucceeds`, that no write of the loops that clean up is refused; and `RefusalsAreReported`, that
none of the writes is refused whose result the code forgets (section 7). A write of any other place may
be refused.

In `ErrBacktrack_proofs`, for every array, set of errors and sequence of buffer sizes: `TypeOKHolds`,
`BacktrackedOnceHolds`, `ReportedErrorsAreDisabledHolds`, and, if no error occurs in a module while it is
examined (`"scan" \notin Racing`), `GroupClearedWhenBacktrackedHolds`, and, for the widths of the two
devices (`NumCols % 4 = 2`, section 7), `RoutesAreInverseHolds`: what the tables of the backtracking say
of a channel is where its broadcast comes from, shown for each of the cases of a column's place among the
controllers. The local map of the code is ahead of the register of enabled errors while a module is
examined: `MapIsExamined` says by how much, and `ReportedLeaves` that a reported error is disabled or
about to be.

In `TileDma_proofs`, for any number of items, queue sizes and time outs, on both generations and all
backends (without Linux where the statement says so): `LocksAreConservedHolds`, `ItemsInOrderHolds`,
`PendingIsExactHolds`, `DoneMeansMovedHolds` and `TypeOKHolds`. Whose turn it is with a buffer is told by
its lock or by who holds it (`HostsTurn`, `ChannelsTurn`); what the buffers, the stream and the other host
hold follows from whose turn it is (`OutInv`, `InInv`).

In `FalPerf_proofs`, for any number of objects, counters and channels and any writes that fail: `TypeOKHolds`,
`PoolIsAccountedHolds`, also with reset events that appear or disappear after the reservation (what is lost
is lost on one of the three ways of `free` and `release`), and, unless a reset event may appear after the reservation (`LateRst`, section 7),
`ChannelsAreReservedHolds`. `AccountStep` says when a step of one object keeps the account: what it newly
owns was free, and what it no longer owns is given back or recorded as lost. That a channel is open only
while it is there (`Valid`) needs the list of writes of a start (`OpenWrites`): it opens no channel for an
event that does not cross. `RunningCountersAreRoutedHolds` has the further hypothesis `Told`, that none of the
writes fails whose failure the code tells nobody about (section 7). Its invariant `Routing` says of each
object that its events are the user's or what `stop` left (`Chosen`), that only the module of an event
sends on its channel (`Directed`) and that a running counter is connected (`Connected`); and that nobody
sends on a free channel (`Silent`). As different objects use different counters and channels
(`ObjectsApart`, from the account of the pool), a step of one object keeps the wires of the others.

Every safety invariant and every action property of the passing runs is proved. Only model-checked: liveness
(`EveryErrorIsReported`, `ChannelsAreReenabled`, `AllReceived`), as this prover does not reach fairness and
`ENABLED`.

## 6. What the models leave out

- The device: register writes and reset values are modelled from how the code uses them
  (`ResetShims` in `PartInit` is marked external). In `TilePm` writes do not fail.
- Resource manager: saving the allocation to a file, group events' separate encoding, the mapping of event
  enumerators to ids, memory exhaustion, and the Linux driver, which keeps the bits in the kernel.
- Transactions: the serialized export, growth of the buffer, the pointers of the list. Its operations are
  atomic here, although the code has no lock around them.
- Tiles: the Linux driver's own bookkeeping of clocks.
- Partitions: `XAie_ClearPartitionContext`, column requests, polling of the NPI lock. Sequences of two
  partitions do not overlap: the note of `XAie_ResetPartition` asks for that.
- FAL: channels over several tiles, groups, traces, event objects and the destructors. The layer
  is not thread safe, so a call is a step.
- Broadcast: channels by name and the events of users; the network forwards at once. `XAie_SyncTimer` and
  the set up of errors are not interrupted by users' calls of the resource manager: there is no lock, and
  the callers serialize their calls.
- Error network: enabling the groups and the boot time set up of the controllers; one call of the set up.
- Backtracking: the code is that of `XAIE_FEATURE_LITE`, AIE-ML controllers; errors that occur while their
  own module is examined, or while a buffer that can overflow is filled, are excluded by `Racing` (section
  7, `MCErrScan.cfg` and `backtrack_resume`); the handler does not run while a walk is in progress (`BottomHalf`).
- DMA: descriptors are data movements of one item, with an acquire and a release each; the fields of a
  descriptor, packets and the stream switch are left out, the stream is a queue of one item.
- Atomicity: a register access is atomic, and a call of the resource manager.
- All other components of `PROJECT.json` marked `not_modelled`, with the reason for each.

## 7. Disagreements between the code and its comments

Two runs find a violation; the findings in `PROJECT.json` quote the comments. The following is all that was met,
with the run or the configuration of section 3 where there is one; the passing runs are stated so that they leave it out.

Resource manager and transactions:

- A request for two resources of one module returns the same id twice (`xaie_io_common.c:142`), although
  each is documented as requested (`xaie_io_common.c:123`): lists of `rsc_core` have distinct entries.
- A request by name looks only at the runtime bit, so it is granted a resource that nobody reserved,
  although the functions promise statically allocated ones (`xaie_io_common.c:503`).
- Nothing checks the id of a resource that is requested by name, freed or released (`xaie_rsc.c:441`,
  `xaie_io_common.c:450`, `:503`): one past the last of its module stands for a bit of another module, of
  another tile or of the static half (`MCRscStray.cfg`).
- A contiguous request that is longer than what is left of its module makes a window that reaches the next
  tile's bits (`xaie_io_common.c:97`; `MCRscBlock.cfg`).
- A `XAie_MaskPoll` in a transaction with commands and without automatic flush is buffered and reports
  success before anything was polled; the data of custom operations is not freed on a submission.
- A flush that fails half way has freed the data of the block writes that ran, while their commands stay
  in the buffer and would run again on freed data (`xaie_helper.c:655`, and the comment at `:700`; `MCTxnRefused.cfg`).
- The list of transactions is changed without a lock.

Clocks and partitions:

- A request after a reset leaves its tile gated, as `TilesInUse` still says it is enabled
  (`xaie_device_aie.c:478`; `xaie_clock.c:36` promises that the tiles are enabled; `MCTileReset.cfg`).
- The initialization returns `XAIE_OK` although its isolation failed (`xaie_io_privilege.c:424`, comment at
  `:338`).
- Requesting all tiles after a list of tiles marks those the list gated without ungating them;
  `TilesInUse` is shared by all device instances, so tiles of a second partition count as enabled.
- A partition of one column is isolated on its west side only (`xaie_device_aie.c:285`,
  `xaie_device_aieml.c:158`; `MCPartOne.cfg`); `XAie_ResetPartition` ignores the results
  of its steps; on AIE the reset bits of shims stay set; if routing the error interrupt fails the
  protected registers stay open (`xaie_io_privilege.c:436`). Hence `CanFail` of `part` leaves out the
  isolation, the interrupt routing and the protection register itself. On AIE memories may be zeroized
  while gated when a partition is initialized again, so `ZeroizedWhileClocked` is about AIE-ML.

FAL:

- A reset event given after the reservation has no channel and is followed through a null pointer
  (`xaiefal-perf.hpp:147`, against lines 26 and 132; `MCFalLate.cfg`); `LateRst` leaves it out of `fal_perf`. The null
  pointer itself is not modelled: the model's release and start look at the channels that are there.
- The channel of a reset event that was removed after the reservation is not released
  (`xaiefal-perf.hpp:440`).
- No class overrides `_free`, so `free()` gives nothing back; a start that fails after it started a
  channel leaves the channel running, and `release` loses it (recorded by the variable `lost`, as is the
  channel of a removed reset event).
  `stop` stores the broadcast event in place of the user's, so a counter whose events cross cannot simply
  be started again; `RunningCountersAreRouted` is about counters whose events are still the user's. A
  failure of the blocking registers or of routing the stop event is forgotten by the code, so `CanFail` of
  `fal_perf` leaves them out. A counter that was asked for by name loses its reservation when its
  channels are not available. The destructors call virtual functions from the base class, so nothing is
  released.

Broadcast channels, timers and the error network:

- The roll back of the error channels writes the id to entry `i` of its list instead of entry `k`
  (`xaie_interrupt_init.c:731`), so the channels of the other entries stay reserved, and with fewer columns
  than channels it writes past the list (excluded by `NetAssumption`).
- `XAie_SyncTimer` returns without releasing its first channel when there is no second
  (`xaie_timer.c:598`), and without releasing or cleaning anything when a write fails; it returns `RC`,
  still `XAIE_OK`, when a write of its first loop is refused (`:680`), overwrites the first result for
  column 0 (`:687`), ignores refused unblockings, and leaves switch B of memory tiles open. `lost` records
  the channels, and `MCBcastBlock.cfg` is about the first loop.
- `_XAie_GetUngatedTilesInPartition` can write one entry more than its caller has room for; a request for a
  specific channel does not check that the id is below 16.
- `XAie_ReadTimer` and `XAie_WaitCycles` read the two halves of a 64 bit counter one after the other
  (`xaie_timer.c:296`): a carry in between makes the value wrong.
- The loop that halts the cores on errors begins with the column of the device at which the partition
  begins and ends with the last column of the partition (`xaie_interrupt_init.c:611`): in a partition that
  does not begin in column 0 some cores are left out (`HaltWrites`; no property is about them). The note of
  `XAie_ErrorHandlingInit` (`:758`) excuses it: the API assumes the whole array as a single partition.
- The L1 ids count the columns of the partition (`xaie_interrupt_aieml.c:54`), the tile types those of the device
  (`xaie_device_aieml.c:60`): they fit together if the partition begins at a multiple of four columns, which
  `ErrorChannelsSuffice` assumes (`StartCol` is 4 in the runs).
- On AIE the last two columns of a partition get L1 ids that are two higher (`xaie_interrupt_aie.c:53`),
  whichever they are. That is the pattern of the comment (`:44`, for 50 columns) only if two columns follow
  the last controllers. `XAie_SetupPartitionConfig` allows a partition of any width. With a width that leaves
  the rest 0 or 3 when divided by 4, the ids 6 and 7 appear, of channels that
  `XAie_ErrorHandlingReserveRsc` does not reserve (`xaiegbl_reginit.c:3094`: six); with the rest 1 the last two
  columns share the channels of one controller. `ErrorChannelsSuffice` and `LastColumnsReport` exclude
  these widths for AIE; on AIE-ML every width is covered.

Backtracking:

- An error that occurs after the statuses of its module were read and before the group event is cleared is
  cleared with it and never reported (`MCErrScan.cfg`).
- A full buffer and new errors below the remembered place hide errors above it (`backtrack_resume`).
- A handler that runs while a walk is in progress, or a full buffer in another column, makes the remembered
  place useless: it records no column (`BottomHalf`).
- The routes of the error network and the map back from channels to columns agree if the number of columns
  is more than two and leaves the rest 2 when divided by 4, as it is for the 50 and 38 columns of the devices
  (`src/driver/src/lite/xaie_lite_hwcfg.h:47` and `:84`); `RoutesAreInverse` fails for a partition of 5
  columns; the walk over the next
  controllers adds the start column at every turn (`XAie_LPartGetNextNocTile`).

DMA, locks and polling:

- The Linux backend reads a register once more after a poll that succeeded (`dma_linux`).
- The checks of channel, descriptor and lock numbers accept the number after the last (`xaie_dma.c:1160`).
- Two threads that count the pending descriptors and then push may both fill the last place.
- `XAie_MaskPoll` inside a transaction is buffered and its time out lost.

## 8. What is left

1. Weaker hypotheses: what `BuffersAreOwned`, `RunningCountersAreRouted` and `FreeChannelsAreClean` become when
   a write fails whose failure the code ignores.
2. `Ecc`: loading twice, failing half way, switching off; the counters it takes from the resource manager.
3. The AIE-only parts of locks and interrupts that the modules leave out, and the walk without the lite
   driver.
4. FAL groups on top of `FalPerf`, and broadcasts over several tiles on top of `BcastNet`.
5. The list of transactions at pointer level, once the code has a lock whose use can be checked.

Modules of one component share a run where the question is the same, so that each run stays one question.
