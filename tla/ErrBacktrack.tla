--------------------------- MODULE ErrBacktrack ---------------------------
(***************************************************************************)
(* Error interrupts: the routing that XAie_ErrorHandlingInit programs, the *)
(* interrupt handler (XAie_DisableErrorInterrupts) and the backtracking    *)
(* (XAie_BacktrackErrorInterrupts) that looks for the errors.              *)
(*                                                                         *)
(* An error in a module sets its event status and, while its bit of the    *)
(* group is enabled, the module's group event.  A broadcast then runs down *)
(* the column, leaves the status BROADCAST0 in the modules it passes,      *)
(* reaches the first level controller (L1) of the column and from there a  *)
(* channel of a second level controller (L2).  The handler disables the    *)
(* channels that report; the backtracking walks up the columns of the      *)
(* disabled channels, reports and disables the errors it finds, and        *)
(* enables the channels again.  Each register access is one step.          *)
(***************************************************************************)
EXTENDS Integers, FiniteSets, FiniteSetsExt

CONSTANTS
    NumCols,     \* columns of the device; the partition is all of it
    Gen,         \* "AIE" or "AIEML"
    Cols,        \* the columns of one interrupt line, XAie_MapIrqIdToCols
    MemRows, AieRows,
    Requested,   \* the tiles <<col, row>> that are in use
    Errors,      \* the errors that can occur: [col, row, mod, bit]
    Sizes,       \* sizes of the payload buffers passed by the caller
    Racing,      \* when errors may occur besides: "scan", while their module is
                 \* examined; "resume", while a buffer that can overflow is filled
    BottomHalf   \* may the handler run while backtracking is in progress?

Switches == {0, 1}    \* XAIE_EVENT_SWITCH_A and _B
ShimRow == 0
Modules == [col : 0..NumCols-1, row : {ShimRow} \cup MemRows \cup AieRows,
            mod : {"PL", "MEM", "CORE"}]
ModuleOf(e) == [col |-> e.col, row |-> e.row, mod |-> e.mod]

ASSUME ErrorsAssumption ==
    /\ NumCols \in Nat \ {0} /\ Gen \in {"AIE", "AIEML"}
    /\ Cols \subseteq 0..NumCols-1
    /\ MemRows \subseteq Nat \ {0} /\ AieRows \subseteq Nat \ {0}
    /\ MemRows \cap AieRows = {}
    /\ \A e \in Errors : ModuleOf(e) \in Modules /\ e.bit \in Nat
    /\ Sizes \subseteq Nat \ {0}
    /\ Racing \subseteq {"scan", "resume"} /\ BottomHalf \in BOOLEAN

VARIABLES
    \* the array
    active,      \* errors whose event status is set
    enables,     \* errors whose bit of the group is enabled
    group,       \* modules whose group event status is set
    bcast,       \* modules whose BROADCAST0 event status is set
    signals,     \* broadcasts on their way down
    l1,          \* status of the L1 controllers: <<col, switch, kind>>
    l2status,    \* status of the L2 controllers: <<col, channel>>
    l2enable,    \* enabled L2 channels
    \* the interrupt handler
    isr, isrCol, isrStatus,
    \* the backtracking
    wake,        \* the handler has asked for it
    pc, l2, todo, Enable, Status, Row, Module, Value, ErrorsMap,
    \* XAie_ErrorMetaData
    room,        \* ArraySize - ErrorCount: entries left in the buffer
    IsNextInfoValid, NextTile,
    reports      \* how often each error was put in a payload buffer

array == <<active, enables, group, bcast, signals, l1, l2status, l2enable>>
handler == <<isr, isrCol, isrStatus>>
channel == <<l2, todo, Enable, Status>>
walk == <<Row, Module>>
scan == <<Value, ErrorsMap>>
next == <<IsNextInfoValid, NextTile>>
meta == <<room, next>>
vars == <<array, handler, wake, pc, channel, walk, scan, meta, reports>>

----------------------------------------------------------------------------
(* Routing from L1 to L2 and back. *)

IsNoc(col) == col % 4 \in {2, 3}
NocTiles == {c \in Cols : IsNoc(c)}
NextNoc(col) == {c \in NocTiles : c > col}

L1IrqId_NoShift(gen, col, sw) ==
    IF gen = "AIE" THEN ((col % 4) % 3) * 2 + sw
    ELSE IF ~IsNoc(col) THEN (col % 4) * 2 + sw
    ELSE IF col % 4 = 2 THEN 4 + sw ELSE sw

\* The channel on which the L1 controller of a column and switch reports.
L1IrqId(gen, col, sw) ==
    IF gen = "AIE"
    THEN ((col % 4) % 3) * 2 + sw + (IF col + 3 > NumCols THEN 2 ELSE 0)
    ELSE IF ~IsNoc(col)
    THEN (col % 4) * 2 + sw + (IF (col \div 4) * 4 + 2 < NumCols THEN 0 ELSE 2)
    ELSE IF col % 4 = 2 THEN 4 + sw ELSE sw

\* The L2 controller its broadcast is led to: the one of its own column, else
\* the next on the right, else the last on the left.
L2Of(col) ==
    LET noc == {c \in 0..NumCols-1 : IsNoc(c)}
        right == {c \in noc : c >= col}
    IN  IF right # {} THEN Min(right) ELSE Max(noc)

\* The column and switch that a channel of an L2 controller stands for.
MapL2MaskToL1(index, col) ==
    IF col + 3 >= NumCols THEN <<col + (index % 6) \div 2, (index % 6) % 2>>
    ELSE IF col % 2 = 0 THEN <<col - (2 - (index % 6) \div 2), (index % 6) % 2>>
    ELSE <<col, index>>

Channels == 0..5
L2Channels == NocTiles \X Channels

\* The disabled channels of a controller.
Disabled(col) == {i \in Channels : <<col, i>> \notin l2enable}

----------------------------------------------------------------------------
(* The array: errors and the broadcasts they cause. *)

SwitchesOf(n) ==
    IF n.mod = "CORE" THEN {0} ELSE IF n.row \in MemRows THEN {0, 1} ELSE {1}

Broadcasts(n) ==
    IF n.mod = "PL" THEN {[col |-> n.col, sw |-> 0, row |-> ShimRow, kind |-> "shim"]}
    ELSE {[col |-> n.col, sw |-> s, row |-> n.row - 1, kind |-> "broadcast"] : s \in SwitchesOf(n)}

\* The module in which a broadcast on a switch leaves its status at a row.
Passes(col, sw, row) ==
    [col |-> col, row |-> row,
     mod |-> IF row \in AieRows /\ sw = 0 THEN "CORE" ELSE "MEM"]

L1Col == MapL2MaskToL1(Min(todo), l2)[1]
Switch == MapL2MaskToL1(Min(todo), l2)[2]

\* The module that the walk has reached.
Examined == [col |-> L1Col, row |-> Row, mod |-> Module]
Examining(n) == /\ pc \in {"ReadGroupErrors", "ReadEvents", "ClearGroup"}
                /\ Examined = n

\* A buffer takes all errors that can still occur.
FitsAll(size) == size > Cardinality({e \in Errors : reports[e] = 0})

\* An error occurs.  (Once more it would only repeat its broadcast, or, when it
\* was reported, do nothing.)
Raise(e) ==
    /\ e \notin active
    /\ "scan" \in Racing \/ ~Examining(ModuleOf(e))
    /\ "resume" \in Racing \/ pc = "Idle" \/ (~IsNextInfoValid /\ FitsAll(room))
    /\ active' = active \cup {e}
    /\ group' = group \cup {ModuleOf(e)}
    /\ signals' = signals \cup Broadcasts(ModuleOf(e))
    /\ UNCHANGED <<enables, bcast, l1, l2status, l2enable,
                   handler, wake, pc, channel, walk, scan, meta, reports>>

\* A broadcast passes one module of the column.
PassModule(s) ==
    /\ s.row > ShimRow
    /\ bcast' = bcast \cup {Passes(s.col, s.sw, s.row)}
    /\ signals' = (signals \ {s}) \cup {[s EXCEPT !.row = @ - 1]}
    /\ UNCHANGED <<active, enables, group, l1, l2status, l2enable,
                   handler, wake, pc, channel, walk, scan, meta, reports>>

\* A broadcast reaches the L1 controller, which passes it on to L2.
ReachL1(s) ==
    /\ s.row = ShimRow
    /\ l1' = l1 \cup {<<s.col, s.sw, s.kind>>}
    /\ l2status' = l2status \cup {<<L2Of(s.col), L1IrqId(Gen, s.col, s.sw)>>}
    /\ signals' = signals \ {s}
    /\ UNCHANGED <<active, enables, group, bcast, l2enable,
                   handler, wake, pc, channel, walk, scan, meta, reports>>

Arrive(s) == PassModule(s) \/ ReachL1(s)

----------------------------------------------------------------------------
(* The interrupt handler. *)

Pending == {c \in NocTiles : \E i \in Channels : <<c, i>> \in l2status \cap l2enable}

\* XAie_DisableErrorInterrupts begins at the first SHIM NOC of the line.
TakeInterrupt ==
    /\ isr = "Idle" /\ Pending # {}
    /\ BottomHalf \/ (pc = "Idle" /\ ~wake)
    /\ isr' = "ReadStatus" /\ isrCol' = Min(NocTiles)
    /\ UNCHANGED <<array, isrStatus, wake, pc, channel, walk, scan, meta, reports>>

\* The next controller, or the end: the backtracking is asked for.
NextDisable ==
    /\ isrStatus' = {}
    /\ IF NextNoc(isrCol) # {}
       THEN isr' = "ReadStatus" /\ isrCol' = Min(NextNoc(isrCol)) /\ UNCHANGED wake
       ELSE isr' = "Idle" /\ wake' = TRUE /\ isrCol' = 0

ReadL2Status ==
  LET reporting == {i \in Channels : <<isrCol, i>> \in l2status} IN
    /\ isr = "ReadStatus"
    /\ IF reporting # {} THEN /\ isr' = "Disable" /\ isrStatus' = reporting
                              /\ UNCHANGED <<isrCol, wake>>
                         ELSE NextDisable
    /\ UNCHANGED <<array, pc, channel, walk, scan, meta, reports>>

DisableL2 ==
    /\ isr = "Disable"
    /\ l2enable' = l2enable \ ({isrCol} \X isrStatus)
    /\ isr' = "Ack"
    /\ UNCHANGED <<active, enables, group, bcast, signals, l1, l2status, isrCol, isrStatus,
                   wake, pc, channel, walk, scan, meta, reports>>

AckL2 ==
    /\ isr = "Ack"
    /\ l2status' = l2status \ ({isrCol} \X isrStatus)
    /\ NextDisable
    /\ UNCHANGED <<active, enables, group, bcast, signals, l1, l2enable,
                   pc, channel, walk, scan, meta, reports>>

Isr == TakeInterrupt \/ ReadL2Status \/ DisableL2 \/ AckL2

----------------------------------------------------------------------------
(* The backtracking.                                                        *)

NoTile == [col |-> 0, row |-> ShimRow, mod |-> "PL"]

\* The local variables of the walk go out of scope.
OutOfScope == Row' = ShimRow /\ Module' = "PL" /\ Value' = {} /\ ErrorsMap' = {}

\* A call of XAie_BacktrackErrorInterrupts: after an interrupt, or again
\* after XAIE_INSUFFICIENT_BUFFER_SIZE with the same metadata.
Backtrack ==
    /\ \/ pc = "Idle" /\ wake /\ isr = "Idle" /\ wake' = FALSE
       \/ pc = "Insufficient" /\ UNCHANGED wake
    /\ room' \in {n \in Sizes : "resume" \in Racing \/ signals = {} \/ FitsAll(n)}
    /\ l2' = Min(NocTiles) /\ Enable' = {} /\ pc' = "ReadL2Mask"
    /\ UNCHANGED <<array, handler, todo, Status, walk, scan, next, reports>>

NextL2 ==
    /\ Enable' = {}
    /\ IF NextNoc(l2) # {} THEN l2' = Min(NextNoc(l2)) /\ pc' = "ReadL2Mask"
                           ELSE pc' = "Return" /\ l2' = 0

\* Only the disabled channels of a controller are backtracked.
ReadL2Mask ==
    /\ pc = "ReadL2Mask"
    /\ todo' = Disabled(l2)
    /\ IF todo' = {} THEN NextL2 ELSE pc' = "ReadL1Status" /\ UNCHANGED <<l2, Enable>>
    /\ UNCHANGED <<array, handler, wake, Status, walk, scan, meta, reports>>

\* The walk stopped for lack of space in a module of the tiles above the shim.
ResumeAbove == IsNextInfoValid /\ NextTile.mod # "PL"
ResumeShim == IsNextInfoValid /\ NextTile.mod = "PL" /\ NextTile.row = ShimRow

AfterShim(stat) == IF "broadcast" \in stat \/ (ResumeAbove /\ NextTile.row >= ShimRow)
                   THEN "AckBroadcast" ELSE "ChannelDone"

ReadL1Status ==
    /\ pc = "ReadL1Status"
    /\ Status' = {k \in {"shim", "broadcast"} : <<L1Col, Switch, k>> \in l1}
    /\ pc' = IF "shim" \in Status' \/ ResumeShim THEN "AckShim" ELSE AfterShim(Status')
    /\ UNCHANGED <<array, handler, wake, l2, todo, Enable, walk, scan, meta, reports>>

\* Acknowledge the shim's own interrupt and examine the shim.
AckShim ==
    /\ pc = "AckShim"
    /\ l1' = l1 \ {<<L1Col, Switch, "shim">>}
    /\ Row' = ShimRow /\ Module' = "PL" /\ pc' = "ReadGroup"
    /\ UNCHANGED <<active, enables, group, bcast, signals, l2status, l2enable,
                   handler, wake, channel, scan, meta, reports>>

\* Tiles that are not requested are skipped.
GoUp(row) ==
    LET above == {r \in MemRows \cup AieRows : r > row /\ <<L1Col, r>> \in Requested}
    IN  IF above # {}
        THEN /\ Row' = Min(above) /\ pc' = "ReadGroup"
             /\ Module' = Passes(L1Col, Switch, Min(above)).mod
        ELSE pc' = "ChannelDone" /\ UNCHANGED walk

\* Acknowledge the broadcast from above and walk up the column.
AckBroadcast ==
    /\ pc = "AckBroadcast"
    /\ l1' = l1 \ {<<L1Col, Switch, "broadcast">>}
    /\ GoUp(ShimRow)
    /\ UNCHANGED <<active, enables, group, bcast, signals, l2status, l2enable,
                   handler, wake, channel, scan, meta, reports>>

\* What follows the examination of a module.
Examination == IF Module = "PL" THEN AfterShim(Status)
               ELSE IF Row \in MemRows THEN "ClearBroadcast" ELSE "ReadBroadcast"

\* _XAie_LBacktrackTile: nothing is done unless the group event is set.
ReadGroup ==
    /\ pc = "ReadGroup"
    /\ pc' = IF Examined \in group THEN "ReadGroupErrors" ELSE Examination
    /\ UNCHANGED <<array, handler, wake, channel, walk, scan, meta, reports>>

ReadGroupErrors ==
    /\ pc = "ReadGroupErrors"
    /\ Value' = {e \in enables : ModuleOf(e) = Examined}
    /\ ErrorsMap' = Value'
    /\ pc' = "ReadEvents"
    /\ UNCHANGED <<array, handler, wake, channel, walk, meta, reports>>

IsFull(left) == left = 0

\* The status of the next error; an error that is set goes to the buffer.
ReadEvent ==
    /\ pc = "ReadEvents"
    /\ \E e \in Value :
        /\ \A f \in Value : e.bit <= f.bit
        /\ Value' = Value \ {e}
        /\ IF e \in active
           THEN /\ ErrorsMap' = ErrorsMap \ {e}
                /\ reports' = [reports EXCEPT ![e] = @ + 1]
                /\ room' = room - 1
                /\ pc' = IF IsFull(room') THEN "BufferFull" ELSE pc
           ELSE UNCHANGED <<ErrorsMap, reports, room, pc>>
    /\ UNCHANGED <<array, handler, wake, channel, walk, next>>

GroupErrorControl_Lost == UNCHANGED enables

\* The errors that were reported no longer raise the group event.
GroupErrorControl == enables' = {e \in enables : ModuleOf(e) # Examined} \cup ErrorsMap

BufferFull_Cleared ==
    /\ pc = "BufferFull"
    /\ GroupErrorControl
    /\ group' = group \ {Examined}
    /\ NextTile' = Examined
    /\ IsNextInfoValid' = TRUE
    /\ pc' = "EnableDone"
    /\ todo' = {} /\ Status' = {} /\ OutOfScope
    /\ UNCHANGED <<active, bcast, signals, l1, l2status, l2enable,
                   handler, wake, l2, Enable, room, reports>>

BufferFull_NotDisabled ==
    /\ pc = "BufferFull"
    /\ NextTile' = Examined
    /\ IsNextInfoValid' = TRUE
    /\ pc' = "EnableDone"
    /\ todo' = {} /\ Status' = {} /\ OutOfScope
    /\ UNCHANGED <<array, handler, wake, l2, Enable, room, reports>>

\* Remember where to go on.
BufferFull ==
    /\ pc = "BufferFull"
    /\ GroupErrorControl
    /\ NextTile' = Examined
    /\ IsNextInfoValid' = TRUE
    /\ pc' = "EnableDone"
    /\ todo' = {} /\ Status' = {} /\ OutOfScope
    /\ UNCHANGED <<active, group, bcast, signals, l1, l2status, l2enable,
                   handler, wake, l2, Enable, room, reports>>

DisableReported ==
    /\ pc = "ReadEvents" /\ Value = {}
    /\ GroupErrorControl
    /\ pc' = "ClearGroup"
    /\ UNCHANGED <<active, group, bcast, signals, l1, l2status, l2enable,
                   handler, wake, channel, walk, scan, meta, reports>>

ClearGroup ==
    /\ pc = "ClearGroup"
    /\ group' = group \ {Examined}
    /\ pc' = Examination
    /\ Value' = {} /\ ErrorsMap' = {}
    /\ UNCHANGED <<active, enables, bcast, signals, l1, l2status, l2enable,
                   handler, wake, channel, walk, meta, reports>>

ReadBroadcast_NoResume ==
    /\ pc = "ReadBroadcast"
    /\ pc' = IF Examined \in bcast THEN "ClearBroadcast" ELSE "ChannelDone"
    /\ UNCHANGED <<array, handler, wake, channel, walk, scan, meta, reports>>

\* The walk goes on above an AIE tile if something came from above, or if it
\* stopped above the last time.
ReadBroadcast ==
    /\ pc = "ReadBroadcast"
    /\ pc' = IF \/ Examined \in bcast
                \/ IsNextInfoValid /\ NextTile.mod = Module /\ NextTile.row > Row
             THEN "ClearBroadcast" ELSE "ChannelDone"
    /\ UNCHANGED <<array, handler, wake, channel, walk, scan, meta, reports>>

ClearBroadcast ==
    /\ pc = "ClearBroadcast"
    /\ bcast' = bcast \ {Examined}
    /\ GoUp(Row)
    /\ UNCHANGED <<active, enables, group, signals, l1, l2status, l2enable,
                   handler, wake, channel, scan, meta, reports>>

ChannelDone_Forgotten ==
    /\ pc = "ChannelDone"
    /\ todo' = todo \ {Min(todo)}
    /\ pc' = IF todo' = {} THEN "EnableL2" ELSE "ReadL1Status"
    /\ Status' = {} /\ OutOfScope
    /\ UNCHANGED <<array, handler, wake, l2, Enable, meta, reports>>

ChannelDone ==
    /\ pc = "ChannelDone"
    /\ Enable' = Enable \cup {Min(todo)}
    /\ todo' = todo \ {Min(todo)}
    /\ pc' = IF todo' = {} THEN "EnableL2" ELSE "ReadL1Status"
    /\ Status' = {} /\ OutOfScope
    /\ UNCHANGED <<array, handler, wake, l2, meta, reports>>

\* The buffer is full: enable the channels that were finished and return.
EnableDone ==
    /\ pc = "EnableDone"
    /\ l2enable' = l2enable \cup ({l2} \X Enable)
    /\ pc' = "Insufficient"
    /\ UNCHANGED <<active, enables, group, bcast, signals, l1, l2status,
                   handler, wake, channel, walk, scan, meta, reports>>

EnableL2 ==
    /\ pc = "EnableL2"
    /\ l2enable' = l2enable \cup ({l2} \X Enable)
    /\ NextL2
    /\ UNCHANGED <<active, enables, group, bcast, signals, l1, l2status,
                   handler, wake, todo, Status, walk, scan, meta, reports>>

Return ==
    /\ pc = "Return"
    /\ IsNextInfoValid' = FALSE /\ pc' = "Idle"
    /\ NextTile' = NoTile /\ room' = 0
    /\ UNCHANGED <<array, handler, wake, channel, walk, scan, reports>>

BacktrackStep ==
    \/ Backtrack \/ ReadL2Mask \/ ReadL1Status \/ AckShim \/ AckBroadcast
    \/ ReadGroup \/ ReadGroupErrors \/ ReadEvent \/ BufferFull
    \/ DisableReported \/ ClearGroup \/ ReadBroadcast \/ ClearBroadcast
    \/ ChannelDone \/ EnableDone \/ EnableL2 \/ Return

----------------------------------------------------------------------------
Init ==
    /\ active = {} /\ enables = Errors /\ group = {} /\ bcast = {} /\ signals = {}
    /\ l1 = {} /\ l2status = {} /\ l2enable = L2Channels
    /\ isr = "Idle" /\ isrCol = 0 /\ isrStatus = {}
    /\ wake = FALSE /\ pc = "Idle"
    /\ l2 = 0 /\ todo = {} /\ Enable = {} /\ Status = {}
    /\ Row = ShimRow /\ Module = "PL" /\ Value = {} /\ ErrorsMap = {}
    /\ room = 0 /\ IsNextInfoValid = FALSE /\ NextTile = NoTile
    /\ reports = [e \in Errors |-> 0]

Next ==
    \/ \E e \in Errors : Raise(e)
    \/ \E s \in signals : Arrive(s)
    \/ Isr
    \/ BacktrackStep

\* Broadcasts arrive, an enabled interrupt is taken and the backtracking that
\* was begun goes on: it never waits.  Errors need not occur.
Fairness ==
    /\ WF_vars(\E s \in signals : Arrive(s))
    /\ WF_vars(Isr)
    /\ WF_vars(BacktrackStep)

Spec == Init /\ [][Next]_vars
FairSpec == Spec /\ Fairness

----------------------------------------------------------------------------
TypeOK ==
    /\ active \subseteq Errors /\ enables \subseteq Errors
    /\ group \subseteq Modules
    /\ Value \subseteq Errors /\ ErrorsMap \subseteq Errors
    /\ todo \subseteq Channels
    /\ room \in Nat
    /\ wake \in BOOLEAN /\ IsNextInfoValid \in BOOLEAN
    /\ reports \in [Errors -> Nat]

\* "Any active error can be backtracked only once": however often an error
\* occurs, and however often the buffer is full and the call repeated, it is
\* in the payload of one call only.
BacktrackedOnce == \A e \in Errors : reports[e] <= 1

\* Whenever a call has returned, the errors it reported can no longer raise an
\* interrupt, also when it stopped in the middle of a module.
ReportedErrorsAreDisabled ==
    pc \in {"Idle", "Insufficient"} => \A e \in Errors : reports[e] > 0 => e \notin enables

\* The comment in _XAie_LBacktrackTile: the status of the group event is
\* cleared only if all active errors of the module were backtracked.
GroupClearedWhenBacktracked ==
    [][\A m \in group \ group' : \A e \in active : ModuleOf(e) = m => reports[e] > 0]_vars

\* The controllers lead a broadcast to the channel from which the backtracking
\* finds its column and switch again: the two tables are programmed in
\* different files.
RoutesAreInverse ==
    \A s \in signals :
        MapL2MaskToL1(L1IrqId(Gen, s.col, s.sw), L2Of(s.col)) = <<s.col, s.sw>>

\* Every error that occurs is reported in the end.
EveryErrorIsReported == \A e \in Errors : (e \in active) ~> (reports[e] > 0)

\* Disabled channels are enabled again in the end.
ChannelsAreReenabled == []<>(l2enable = L2Channels)
=============================================================================
