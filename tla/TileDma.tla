------------------------------- MODULE TileDma -------------------------------
(***************************************************************************)
(* Locks, polling with time outs, and the queues of the DMA channels.      *)
(*                                                                         *)
(* Two threads of the host stream data through the DMAs of two tiles, the  *)
(* way examples/xaie_tile_dma_loopback.c connects them.  On the side "out" *)
(* the host fills a buffer that an MM2S channel empties into a stream; on  *)
(* the side "in" an S2MM channel fills a buffer from the stream and the    *)
(* host empties it.  On each side the host and the channel pass the buffer *)
(* to each other by its lock.                                              *)
(*                                                                         *)
(* A request to a lock is a read of a register: the read itself acquires   *)
(* or releases, and returns whether it did.  XAie_LockAcquire and          *)
(* XAie_LockRelease poll that register, so how often a backend reads       *)
(* matters.                                                                *)
(***************************************************************************)
EXTENDS Integers, Sequences

CONSTANTS
    Gens,           \* the generations of the device, within {"AIE", "AIEML"}
    Backends,       \* the IO backends, within {"baremetal", "linux", "sim"}
    NumItems,       \* that the host sends
    MaxQueueSize,   \* XAIE_DMA_MAX_QUEUE_SIZE
    NumChannels,    \* of a tile's DMA in each direction
    ChNum,          \* the channel used on each side
    Timeouts,       \* that the host gives to its calls, in micro seconds
    DefWaitTime     \* XAIE_DMA_WAITFORDONE_DEF_WAIT_TIME_US

Sides == {"out", "in"}

\* The checks of the driver also accept channel NumChannels: of S2MM, that is
\* channel 0 of MM2S.
ASSUME DmaAssumption ==
    /\ Gens \subseteq {"AIE", "AIEML"} /\ Backends \subseteq {"baremetal", "linux", "sim"}
    /\ NumItems \in Nat \ {0} /\ MaxQueueSize \in Nat \ {0} /\ NumChannels \in Nat \ {0}
    /\ ChNum \in [Sides -> 0..NumChannels-1]
    /\ DefWaitTime \in Nat \ {0} /\ Timeouts \subseteq 0..DefWaitTime

VARIABLES
    Gen, backend,
    \* the hosts
    pc, left,       \* the call in progress, and the reads it still makes
    rc,             \* what the last call returned
    round,          \* items passed to or from the channel
    pushed,         \* buffer descriptors pushed
    \* the device
    lock,           \* of the buffer of each side
    queue, enabled, phase,  \* of the channels: descriptors in the queue, and what the
                            \* channel does with the one it has taken
    completed,      \* descriptors of each side that are done
    \* data
    buffer, stream, received

device == <<Gen, backend>>
host == <<pc, left, rc, round, pushed>>
channels == <<queue, enabled, phase, completed>>
data == <<buffer, stream, received>>
vars == <<device, host, lock, channels, data>>

----------------------------------------------------------------------------
(* Locks.  The tiles of an AIE have binary locks with a value, that is     *)
(* checked by an acquire and set by a release: the value says what the     *)
(* buffer is ready for.  Those of an AIEML are counters: a buffer has one  *)
(* for each use it may be ready for, from which an acquire with value -1   *)
(* takes 1, and to which a release with value 1 adds 1.                    *)

Uses == {"write", "read"}
HostUse(s) == IF s = "out" THEN "write" ELSE "read"
ChannelUse(s) == IF s = "out" THEN "read" ELSE "write"

MaxLockVal == 63   \* LockValUpperBound

Requestable(l, op, use) ==
    IF op = "acquire"
    THEN IF Gen = "AIE" THEN ~l.acq /\ l.val = use ELSE l[use] > 0
    ELSE IF Gen = "AIE" THEN l.acq ELSE l[use] < MaxLockVal

\* The lock after a request that succeeds.
After(l, op, use) ==
    IF op = "acquire"
    THEN IF Gen = "AIE" THEN [l EXCEPT !.acq = TRUE] ELSE [l EXCEPT ![use] = @ - 1]
    ELSE IF Gen = "AIE" THEN [acq |-> FALSE, val |-> use] ELSE [l EXCEPT ![use] = @ + 1]

\* A request reads the register: it takes effect if it can.
Request(s, op, use) ==
    lock' = IF Requestable(lock[s], op, use) THEN [lock EXCEPT ![s] = After(@, op, use)] ELSE lock

----------------------------------------------------------------------------
(* The channels. *)

\* The registers of a channel: those of MM2S follow those of S2MM.
Regs == 0..2 * NumChannels - 1
ChIdx(s) == ChNum[s] + (IF s = "out" THEN NumChannels ELSE 0)

\* The descriptor at the head of the queue is taken, acquires the lock of its
\* buffer, moves the data and releases the lock.
TakeBd(s) ==
    /\ LET i == ChIdx(s) IN
         /\ enabled[i] /\ queue[i] > 0 /\ phase[s] = "idle"
         /\ queue' = [queue EXCEPT ![i] = @ - 1]
    /\ phase' = [phase EXCEPT ![s] = "acquire"]
    /\ UNCHANGED <<device, host, lock, enabled, completed, data>>

ChannelAcquire(s) ==
    /\ phase[s] = "acquire" /\ Requestable(lock[s], "acquire", ChannelUse(s))
    /\ Request(s, "acquire", ChannelUse(s))
    /\ phase' = [phase EXCEPT ![s] = "move"]
    /\ UNCHANGED <<device, host, queue, enabled, completed, data>>

Move(s) ==
    /\ phase[s] = "move"
    /\ IF s = "out"
       THEN stream = <<>> /\ stream' = <<buffer[s]>> /\ UNCHANGED buffer
       ELSE stream # <<>> /\ stream' = <<>> /\ buffer' = [buffer EXCEPT ![s] = Head(stream)]
    /\ phase' = [phase EXCEPT ![s] = "release"]
    /\ UNCHANGED <<device, host, lock, queue, enabled, completed, received>>

ChannelRelease(s) ==
    /\ phase[s] = "release" /\ Requestable(lock[s], "release", HostUse(s))
    /\ Request(s, "release", HostUse(s))
    /\ phase' = [phase EXCEPT ![s] = "idle"]
    /\ completed' = [completed EXCEPT ![s] = @ + 1]
    /\ UNCHANGED <<device, host, queue, enabled, data>>

ChannelStep(s) == TakeBd(s) \/ ChannelAcquire(s) \/ Move(s) \/ ChannelRelease(s)

----------------------------------------------------------------------------
(* XAie_MaskPoll of the backends. *)

MinTimeOutUs == 200

\* How often a register is read that never has the value: those of baremetal and
\* linux read once more after the time out.
Reads_NoMin(t) ==
    IF backend = "sim" THEN t ELSE (t + MinTimeOutUs - 1) \div MinTimeOutUs + 1

Reads(t) ==
    IF backend = "sim" THEN (IF t = 0 THEN 1 ELSE t)
    ELSE (t + MinTimeOutUs - 1) \div MinTimeOutUs + 1

\* That of linux also reads once more after a success before the time out.
ReadsAgain_Baremetal(s) == backend \in {"linux", "baremetal"} /\ left[s] > 1
ReadsAgain(s) == backend = "linux" /\ left[s] > 1

\* A call begins, makes a read that is in vain, and returns.
Call(s, from, to, t) ==
    /\ pc[s] = from /\ pc' = [pc EXCEPT ![s] = to]
    /\ left' = [left EXCEPT ![s] = Reads(t)]
    /\ UNCHANGED rc
InVain(s) == left[s] > 0 /\ left' = [left EXCEPT ![s] = @ - 1] /\ UNCHANGED <<pc, rc>>
Return(s, to, result) ==
    /\ pc' = [pc EXCEPT ![s] = to]
    /\ rc' = [rc EXCEPT ![s] = result]
    /\ left' = [left EXCEPT ![s] = 0]

----------------------------------------------------------------------------
(* The hosts: for each item, a descriptor is pushed to the channel while   *)
(* there is room for it, and the buffer acquired, used and released.       *)

\* XAie_LockSetValue: on an AIEML the buffers start out ready for writing; an AIE
\* does not have it, nor need it.
LockSetValue(s) ==
    /\ pc[s] = "start" /\ pc' = [pc EXCEPT ![s] = "count"]
    /\ lock' = IF Gen = "AIE" THEN lock ELSE [lock EXCEPT ![s]["write"] = 1]
    /\ UNCHANGED <<device, left, rc, round, pushed, channels, data>>

PendingBd_QueueOnly(s) == queue[ChIdx(s)]

\* XAie_DmaGetPendingBdCount: a channel that is not idle has taken one of them.
PendingBd(s) == queue[ChIdx(s)] + (IF phase[s] = "idle" THEN 0 ELSE 1)

Count(s) ==
    /\ pc[s] = "count"
    /\ pc' = [pc EXCEPT ![s] = IF pushed[s] < NumItems /\ PendingBd(s) < MaxQueueSize THEN "push"
                              ELSE IF round[s] < pushed[s] THEN "acquire" ELSE "wait"]
    /\ UNCHANGED <<device, left, rc, round, pushed, lock, channels, data>>

\* A full queue loses what is pushed.
PushBdToQueue(s) ==
    /\ pc[s] = "push" /\ pc' = [pc EXCEPT ![s] = "enable"]
    /\ pushed' = [pushed EXCEPT ![s] = @ + 1]
    /\ queue' = IF queue[ChIdx(s)] < MaxQueueSize THEN [queue EXCEPT ![ChIdx(s)] = @ + 1] ELSE queue
    /\ UNCHANGED <<device, left, rc, round, lock, enabled, phase, completed, data>>

ChannelEnable(s) ==
    /\ pc[s] = "enable" /\ \E to \in {"acquire", "count"} : pc' = [pc EXCEPT ![s] = to]
    /\ enabled' = [enabled EXCEPT ![ChIdx(s)] = TRUE]
    /\ UNCHANGED <<device, left, rc, round, pushed, lock, queue, phase, completed, data>>

\* XAie_LockAcquire and XAie_LockRelease: "acquiring" and "releasing" poll, and
\* "acquired" and "released" read again.  The host repeats a call that timed out.
CallLock(s) ==
    /\ \E t \in Timeouts : Call(s, "acquire", "acquiring", t) \/ Call(s, "release", "releasing", t)
    /\ UNCHANGED <<device, round, pushed, lock, channels, data>>

PollLock(s, op, use, from, to, again) ==
    /\ pc[s] = from /\ left[s] > 0
    /\ Request(s, op, use)
    /\ IF Requestable(lock[s], op, use)
       THEN IF ReadsAgain(s) THEN pc' = [pc EXCEPT ![s] = again] /\ UNCHANGED <<left, rc>>
                             ELSE Return(s, to, "ok")
       ELSE InVain(s)

AfterRelease(s) == IF round[s] + 1 = NumItems THEN "wait" ELSE "count"

PollAcquire(s) ==
    /\ PollLock(s, "acquire", HostUse(s), "acquiring", "use", "acquired")
    /\ UNCHANGED <<device, round, pushed, channels, data>>

\* The round is over with the read that releases the lock.
PollRelease(s) ==
    /\ PollLock(s, "release", ChannelUse(s), "releasing", AfterRelease(s), "released")
    /\ round' = IF Requestable(lock[s], "release", ChannelUse(s)) /\ ~ReadsAgain(s)
                THEN [round EXCEPT ![s] = @ + 1] ELSE round
    /\ UNCHANGED <<device, pushed, channels, data>>

ReadAcquireAgain(s) ==
    /\ pc[s] = "acquired" /\ Request(s, "acquire", HostUse(s)) /\ Return(s, "use", "ok")
    /\ UNCHANGED <<device, round, pushed, channels, data>>

ReadReleaseAgain(s) ==
    /\ pc[s] = "released" /\ Request(s, "release", ChannelUse(s))
    /\ Return(s, AfterRelease(s), "ok")
    /\ round' = [round EXCEPT ![s] = @ + 1]
    /\ UNCHANGED <<device, pushed, channels, data>>

TimeOut(s) ==
    /\ left[s] = 0
    /\ \E from \in {<<"acquiring", "acquire">>, <<"releasing", "release">>,
                    <<"waiting", IF round[s] = NumItems THEN "wait" ELSE "count">>} :
          pc[s] = from[1] /\ Return(s, from[2], "failed")
    /\ UNCHANGED <<device, round, pushed, lock, channels, data>>

UseBuffer(s) ==
    /\ pc[s] = "use" /\ pc' = [pc EXCEPT ![s] = "release"]
    /\ IF s = "out" THEN buffer' = [buffer EXCEPT ![s] = round[s] + 1] /\ UNCHANGED received
                    ELSE received' = Append(received, buffer[s]) /\ UNCHANGED buffer
    /\ UNCHANGED <<device, left, rc, round, pushed, lock, channels, stream>>

\* XAie_DmaWaitForDone; a time out of 0 is the default.
CallWait(s) ==
    /\ \E t \in Timeouts : Call(s, "wait", "waiting", IF t = 0 THEN DefWaitTime ELSE t)
    /\ UNCHANGED <<device, round, pushed, lock, channels, data>>

IsDone_Idle(s) == phase[s] = "idle"
IsDone(s) == phase[s] = "idle" /\ queue[ChIdx(s)] = 0

PollWait(s) ==
    /\ pc[s] = "waiting" /\ left[s] > 0
    /\ IF IsDone(s) THEN Return(s, IF round[s] = NumItems THEN "end" ELSE "count", "ok")
                    ELSE InVain(s)
    /\ UNCHANGED <<device, round, pushed, lock, channels, data>>

HostStep(s) ==
    \/ LockSetValue(s) \/ Count(s) \/ PushBdToQueue(s) \/ ChannelEnable(s)
    \/ CallLock(s) \/ PollAcquire(s) \/ PollRelease(s)
    \/ ReadAcquireAgain(s) \/ ReadReleaseAgain(s)
    \/ UseBuffer(s) \/ CallWait(s) \/ PollWait(s) \/ TimeOut(s)

----------------------------------------------------------------------------
Init ==
    /\ Gen \in Gens /\ backend \in Backends
    /\ pc = [s \in Sides |-> "start"] /\ left = [s \in Sides |-> 0]
    /\ rc = [s \in Sides |-> "none"]
    /\ round = [s \in Sides |-> 0] /\ pushed = [s \in Sides |-> 0]
    /\ lock = [s \in Sides |-> IF Gen = "AIE" THEN [acq |-> FALSE, val |-> "write"]
                                              ELSE [use \in Uses |-> 0]]
    /\ queue = [i \in Regs |-> 0] /\ enabled = [i \in Regs |-> FALSE]
    /\ phase = [s \in Sides |-> "idle"] /\ completed = [s \in Sides |-> 0]
    /\ buffer = [s \in Sides |-> 0] /\ stream = <<>> /\ received = <<>>

Terminated == (\A s \in Sides : pc[s] = "end") /\ UNCHANGED vars

Next == (\E s \in Sides : HostStep(s) \/ ChannelStep(s)) \/ Terminated

Spec == Init /\ [][Next]_vars

\* The threads of the host run, and the channels do not stop by themselves.
Fairness == \A s \in Sides : WF_vars(HostStep(s)) /\ WF_vars(ChannelStep(s))

FairSpec == Spec /\ Fairness

----------------------------------------------------------------------------
(* Properties. *)

HostHolds(s) == pc[s] \in {"acquired", "use", "release", "releasing"}
ChannelHolds(s) == phase[s] \in {"move", "release"}

AieLock == [acq : BOOLEAN, val : Uses]
AieMlLock == [Uses -> 0..MaxLockVal]

\* Also: a poll does not go on after its time out.
TypeOK ==
    /\ Gen \in Gens /\ backend \in Backends
    /\ pc \in [Sides -> {"start", "count", "push", "enable", "acquire", "acquiring", "acquired",
                         "use", "release", "releasing", "released", "wait", "waiting", "end"}]
    /\ left \in [Sides -> 0..IF backend = "sim" THEN DefWaitTime
                                               ELSE DefWaitTime \div MinTimeOutUs + 2]
    /\ rc \in [Sides -> {"none", "ok", "failed"}]
    /\ round \in [Sides -> 0..NumItems] /\ pushed \in [Sides -> Nat]
    /\ lock \in [Sides -> IF Gen = "AIE" THEN AieLock ELSE AieMlLock]
    /\ queue \in [Regs -> 0..MaxQueueSize] /\ enabled \in [Regs -> BOOLEAN]
    /\ phase \in [Sides -> {"idle", "acquire", "move", "release"}]
    /\ completed \in [Sides -> Nat]
    /\ buffer \in [Sides -> 0..NumItems] /\ received \in Seq(0..NumItems)

\* "will issue lock release request until the release is successful": the host and the
\* channel never use a buffer at the same time.
BufferExclusive == \A s \in Sides : ~(HostHolds(s) /\ ChannelHolds(s))

\* A lock is taken for exactly as long as the host, from its call of XAie_LockAcquire
\* to its call of XAie_LockRelease, or the channel holds the buffer: no poll takes or
\* gives it twice.  The counters of a buffer and its holders add up to one.
LockIsConserved(s) ==
    IF Gen = "AIE" THEN lock[s].acq <=> HostHolds(s) \/ ChannelHolds(s)
    ELSE lock[s]["write"] + lock[s]["read"] + (IF HostHolds(s) THEN 1 ELSE 0)
         + (IF ChannelHolds(s) THEN 1 ELSE 0) = (IF pc[s] = "start" THEN 0 ELSE 1)

LocksAreConserved ==
    backend # "linux" => BufferExclusive /\ \A s \in Sides : LockIsConserved(s)

\* The other host receives the items in the order in which they were sent, none
\* twice and none left out, across both locks, both queues and the stream.
ItemsInOrder == backend # "linux" => received = [i \in 1..Len(received) |-> i]

\* "get the count of scheduled BDs in pending": what XAie_DmaGetPendingBdCount counts
\* is what was pushed and is not done.  A host that asks before it pushes never loses
\* a descriptor to a full queue.
PendingIsExact == \A s \in Sides : PendingBd(s) = pushed[s] - completed[s]

\* When XAie_DmaWaitForDone returns XAIE_OK, all that was pushed is done.
DoneMeansMoved ==
    [][\A s \in Sides : pc[s] = "waiting" /\ pc'[s] # "waiting" /\ rc'[s] = "ok" =>
            completed[s] = pushed[s]]_vars

\* All items get to the other host, whatever calls time out on the way.
AllReceived ==
    backend # "linux" => <>(Len(received) = NumItems /\ \A s \in Sides : pc[s] = "end")
=============================================================================
