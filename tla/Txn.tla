-------------------------------- MODULE Txn --------------------------------
(***************************************************************************)
(* Transactions of the driver (driver/src/common/xaie_helper.c): between   *)
(* XAie_StartTransaction and XAie_SubmitTransaction the register           *)
(* operations of a thread go to a command buffer of its own instead of to  *)
(* the device.  Buffers are found in a list of the device instance by the  *)
(* thread id.  A block write owns a heap copy of its data until it runs.   *)
(*                                                                         *)
(* Threads run concurrently: every step below is the part of one call that *)
(* touches the list, one buffer or the device; a flush executes one        *)
(* command per step.  Modelled is the path without Backend->Ops.SubmitTxn, *)
(* which only the Linux backend has.  Memory allocation does not fail.     *)
(***************************************************************************)
EXTENDS Naturals, Sequences, FiniteSets

CONSTANTS
    Threads,    \* the threads that use the device instance
    TxnInsts,   \* addresses of transaction instances
    Ops,        \* the kinds of operation the threads issue
    CanFail,    \* may an operation of the device fail?
    MaxOps      \* bound: operations a thread issues

(* write: Write32, MaskWrite32 and, when commands are pending without auto *)
(* flush, a shim DMA RunOp; sync: Read32, CmdWrite and any other RunOp.    *)
AllOps == {"write", "blockwrite", "blockset", "maskpoll", "sync", "custom"}

ASSUME OpsAssumption == Ops \subseteq AllOps /\ CanFail \in BOOLEAN
ASSUME MaxOpsAssumption == MaxOps \in Nat
ASSUME NoneAssumption == "none" \notin Threads

VARIABLES
    TxnList,   \* the list of transaction instances of the device instance
    insts,     \* the instances: insts[i] is NotAllocated or a record
    heap,      \* the data copies that are allocated
    flush,     \* flush[t]: the flush thread t is in, or NoFlush
    issued,    \* issued[t]: number of operations of t that returned XAIE_OK
    done,      \* done[t][n]: times operation n of t ran on the device, up to 2
    dropped    \* dropped[t]: operations of t that XAie_ClearTransaction or
               \* XAie_Finish threw away

vars == <<TxnList, insts, heap, flush, issued, done, dropped>>

NotAllocated == [tid |-> "none"]
NoFlush == [inst |-> "none", k |-> 0, op |-> "none"]

OpNums == 1 .. MaxOps

(* The data copy made for operation n of thread t when it was put in the   *)
(* buffer of instance i.                                                   *)
DataPtrs == TxnInsts \X Threads \X OpNums
Cmds == [op : AllOps, n : OpNums, data : SUBSET DataPtrs]
Insts == [tid : Threads, autoFlush : BOOLEAN, exported : BOOLEAN, cmds : Seq(Cmds)]

Allocated(i) == insts[i] # NotAllocated
Idle(t) == flush[t] = NoFlush

(* The listed instances and those in a flush are allocated ones.           *)
TypeOK ==
    /\ TxnList \in Seq({ i \in TxnInsts : Allocated(i) })
    /\ insts \in [TxnInsts -> Insts \cup {NotAllocated}]
    /\ heap \subseteq DataPtrs
    /\ flush \in [Threads -> [inst : TxnInsts, k : Nat, op : AllOps \cup {"submit"}]
                             \cup {NoFlush}]
    /\ issued \in [Threads -> 0 .. MaxOps]
    /\ done \in [Threads -> [OpNums -> 0 .. 2]]
    /\ dropped \in [Threads -> SUBSET OpNums]

Init ==
    /\ TxnList = <<>>
    /\ insts = [i \in TxnInsts |-> NotAllocated]
    /\ heap = {}
    /\ flush = [t \in Threads |-> NoFlush]
    /\ issued = [t \in Threads |-> 0]
    /\ done = [t \in Threads |-> [n \in OpNums |-> 0]]
    /\ dropped = [t \in Threads |-> {}]

-----------------------------------------------------------------------------
(* The list and the buffers *)

HasTxn(t) == \E k \in DOMAIN TxnList : insts[TxnList[k]].tid = t

NodeOf_AnyThread(t) == 1

(* The first node of the list with the thread's id.                        *)
NodeOf(t) == CHOOSE k \in DOMAIN TxnList :
                 /\ insts[TxnList[k]].tid = t
                 /\ \A j \in 1 .. k - 1 : insts[TxnList[j]].tid # t

GetTxnInst(t) == TxnList[NodeOf(t)]

(* _XAie_RemoveTxnInstFromList looks for the thread's id again.            *)
Remove(t) == SubSeq(TxnList, 1, NodeOf(t) - 1) \o SubSeq(TxnList, NodeOf(t) + 1, Len(TxnList))

NumsOf(cmds) == { cmds[k].n : k \in DOMAIN cmds }
DataOf(cmds) == UNION { cmds[k].data : k \in DOMAIN cmds }

(* Running operation n of thread t on the device.                          *)
Ran(t, n) == [done EXCEPT ![t][n] = IF @ = 2 THEN 2 ELSE @ + 1]

XAie_StartTransaction(t, auto) ==
    /\ Idle(t)
    /\ \E i \in TxnInsts :
           /\ ~Allocated(i)
           /\ insts' = [insts EXCEPT ![i] = [tid |-> t, autoFlush |-> auto,
                                             exported |-> FALSE, cmds |-> <<>>]]
           /\ TxnList' = Append(TxnList, i)
    /\ UNCHANGED <<heap, flush, issued, done, dropped>>

-----------------------------------------------------------------------------
(* The register operations.  What happens to one depends on the thread's   *)
(* transaction x; in the remaining case, a sync operation that finds       *)
(* commands and no auto flush, it is refused and changes nothing.          *)

BlockOps == {"blockwrite", "blockset"}

FlushesFirst(x, op) ==
    /\ x.autoFlush /\ x.cmds # <<>>
    /\ op \in BlockOps \cup {"maskpoll", "sync"}

GoesToDevice_BlockToo(x, op) ==
    \/ op \in {"maskpoll", "sync"} /\ x.cmds = <<>>
    \/ op \in BlockOps

GoesToDevice(x, op) ==
    \/ op \in {"maskpoll", "sync"} /\ x.cmds = <<>>
    \/ op \in BlockOps /\ x.autoFlush /\ x.cmds = <<>>

IsBuffered(x, op) ==
    \/ op \in {"write", "custom"}
    \/ op \in BlockOps /\ ~x.autoFlush
    \/ op = "maskpoll" /\ ~x.autoFlush /\ x.cmds # <<>>

MayIssue(t) == Idle(t) /\ issued[t] < MaxOps

(* An operation that fails on the device returns its error and leaves no   *)
(* trace here.                                                             *)
RunOnDevice(t) ==
    /\ MayIssue(t)
    /\ \E op \in Ops : IF HasTxn(t) THEN GoesToDevice(insts[GetTxnInst(t)], op)
                       ELSE op # "custom"
    /\ issued' = [issued EXCEPT ![t] = @ + 1]
    /\ done' = Ran(t, issued[t] + 1)
    /\ UNCHANGED <<TxnList, insts, heap, flush, dropped>>

AppendCmd(t) ==
    /\ MayIssue(t) /\ HasTxn(t)
    /\ LET i == GetTxnInst(t)
           n == issued[t] + 1
       IN  \E op \in Ops :
               /\ IsBuffered(insts[i], op)
               /\ LET data == IF op \in {"blockwrite", "custom"}
                              THEN {<<i, t, n>>} ELSE {}
                  IN  /\ insts' = [insts EXCEPT ![i].cmds =
                                      Append(@, [op |-> op, n |-> n, data |-> data])]
                      /\ heap' = heap \cup data
    /\ issued' = [issued EXCEPT ![t] = @ + 1]
    /\ UNCHANGED <<TxnList, flush, done, dropped>>

StartFlush(t, i, op) ==
    /\ flush' = [flush EXCEPT ![t] = [inst |-> i, k |-> 1, op |-> op]]
    /\ UNCHANGED <<TxnList, insts, heap, issued, done, dropped>>

AutoFlush(t) ==
    /\ MayIssue(t) /\ HasTxn(t)
    /\ \E op \in Ops :
           /\ FlushesFirst(insts[GetTxnInst(t)], op)
           /\ StartFlush(t, GetTxnInst(t), op)

XAie_SubmitTransaction(t) ==
    /\ Idle(t) /\ HasTxn(t)
    /\ StartFlush(t, GetTxnInst(t), "submit")

SubmitExported(t) ==
    /\ Idle(t)
    /\ \E i \in TxnInsts : /\ Allocated(i) /\ insts[i].exported
                           /\ StartFlush(t, i, "submit")

-----------------------------------------------------------------------------
(* The flush *)

Flushing(t) == ~Idle(t)
FlushedInst(t) == insts[flush[t].inst]
NextCmd(t) == FlushedInst(t).cmds[flush[t].k]
CmdsLeft(t) == flush[t].k <= Len(FlushedInst(t).cmds)

(* _XAie_ExecuteCmd: the copy of a block write is freed once it ran, but   *)
(* not that of an exported instance.  A custom operation does nothing.     *)
(* The commands of an exported instance run again what `done` has counted  *)
(* or will count: they are left out of it.                                 *)
ExecuteCmd(t) ==
    /\ Flushing(t) /\ CmdsLeft(t)
    /\ done' = IF FlushedInst(t).exported THEN done ELSE Ran(FlushedInst(t).tid, NextCmd(t).n)
    /\ heap' = IF NextCmd(t).op = "blockwrite" /\ ~FlushedInst(t).exported
               THEN heap \ NextCmd(t).data ELSE heap
    /\ flush' = [flush EXCEPT ![t].k = @ + 1]
    /\ UNCHANGED <<TxnList, insts, issued, dropped>>

(* The device refused a command: the error is returned to the caller and   *)
(* the buffer is left as it was, the commands that ran included.           *)
ExecuteCmdFails_Resets(t) ==
    /\ CanFail /\ Flushing(t) /\ CmdsLeft(t) /\ NextCmd(t).op # "custom"
    /\ insts' = [insts EXCEPT ![flush[t].inst].cmds = <<>>]
    /\ flush' = [flush EXCEPT ![t] = NoFlush]
    /\ UNCHANGED <<TxnList, heap, issued, done, dropped>>

ExecuteCmdFails(t) ==
    /\ CanFail /\ Flushing(t) /\ CmdsLeft(t) /\ NextCmd(t).op # "custom"
    /\ flush' = [flush EXCEPT ![t] = NoFlush]
    /\ UNCHANGED <<TxnList, insts, heap, issued, done, dropped>>

AutoFlushReturns_KeepsCmds(t) ==
    /\ Flushing(t) /\ ~CmdsLeft(t) /\ flush[t].op # "submit"
    /\ \/ /\ issued' = [issued EXCEPT ![t] = @ + 1]
          /\ done' = Ran(t, issued[t] + 1)
       \/ CanFail /\ UNCHANGED <<issued, done>>
    /\ flush' = [flush EXCEPT ![t] = NoFlush]
    /\ UNCHANGED <<TxnList, insts, heap, dropped>>

(* The buffer is empty: NumCmds is reset and the operation that caused the *)
(* flush goes to the device.                                               *)
AutoFlushReturns(t) ==
    /\ Flushing(t) /\ ~CmdsLeft(t) /\ flush[t].op # "submit"
    /\ insts' = [insts EXCEPT ![flush[t].inst].cmds = <<>>]
    /\ \/ /\ issued' = [issued EXCEPT ![t] = @ + 1]
          /\ done' = Ran(t, issued[t] + 1)
       \/ CanFail /\ UNCHANGED <<issued, done>>
    /\ flush' = [flush EXCEPT ![t] = NoFlush]
    /\ UNCHANGED <<TxnList, heap, dropped>>

(* A submitted instance leaves the list and is freed; an exported one is   *)
(* kept for the next submission.                                           *)
SubmitReturns(t) ==
    /\ Flushing(t) /\ ~CmdsLeft(t) /\ flush[t].op = "submit"
    /\ IF FlushedInst(t).exported THEN UNCHANGED <<TxnList, insts>>
       ELSE /\ TxnList' = Remove(t)
            /\ insts' = [insts EXCEPT ![flush[t].inst] = NotAllocated]
    /\ flush' = [flush EXCEPT ![t] = NoFlush]
    /\ UNCHANGED <<heap, issued, done, dropped>>

-----------------------------------------------------------------------------
(* Exported copies, and throwing a transaction away *)

XAie_ExportTransactionInstance_Shallow(t) ==
    /\ Idle(t) /\ HasTxn(t)
    /\ \E i \in TxnInsts :
           /\ ~Allocated(i)
           /\ insts' = [insts EXCEPT ![i] =
                  [insts[GetTxnInst(t)] EXCEPT !.exported = TRUE]]
    /\ UNCHANGED <<TxnList, heap, flush, issued, done, dropped>>

(* The data of block writes is copied, that of custom operations shared.   *)
XAie_ExportTransactionInstance(t) ==
    /\ Idle(t) /\ HasTxn(t)
    /\ \E i \in TxnInsts :
           /\ ~Allocated(i)
           /\ LET x == insts[GetTxnInst(t)]
                  Copy(c) == IF c.op = "blockwrite"
                             THEN [c EXCEPT !.data = {<<i, t, c.n>>}] ELSE c
                  cmds == [k \in DOMAIN x.cmds |-> Copy(x.cmds[k])]
              IN  /\ insts' = [insts EXCEPT ![i] =
                                  [x EXCEPT !.exported = TRUE, !.cmds = cmds]]
                  /\ heap' = heap \cup DataOf(cmds)
    /\ UNCHANGED <<TxnList, flush, issued, done, dropped>>

(* The owner of an exported instance does not free it while it is being    *)
(* submitted.                                                              *)
XAie_FreeTransactionInstance ==
    /\ \E i \in TxnInsts :
           /\ Allocated(i) /\ insts[i].exported
           /\ \A t \in Threads : flush[t].inst # i
           /\ heap' = heap \ DataOf(insts[i].cmds)
           /\ insts' = [insts EXCEPT ![i] = NotAllocated]
    /\ UNCHANGED <<TxnList, flush, issued, done, dropped>>

XAie_ClearTransaction_KeepsData(t) ==
    /\ Idle(t) /\ HasTxn(t)
    /\ LET i == GetTxnInst(t)
       IN  /\ TxnList' = Remove(t)
           /\ insts' = [insts EXCEPT ![i] = NotAllocated]
           /\ dropped' = [dropped EXCEPT ![t] = @ \cup NumsOf(insts[i].cmds)]
    /\ UNCHANGED <<heap, flush, issued, done>>

XAie_ClearTransaction(t) ==
    /\ Idle(t) /\ HasTxn(t)
    /\ LET i == GetTxnInst(t)
       IN  /\ heap' = heap \ DataOf(insts[i].cmds)
           /\ TxnList' = Remove(t)
           /\ insts' = [insts EXCEPT ![i] = NotAllocated]
           /\ dropped' = [dropped EXCEPT ![t] = @ \cup NumsOf(insts[i].cmds)]
    /\ UNCHANGED <<flush, issued, done>>

(* _XAie_TxnResourceCleanup, when XAie_Finish is called: no other thread   *)
(* is in a call.  XAie_CfgInitialize gives the device instance a new list. *)
XAie_Finish ==
    /\ \A t \in Threads : Idle(t)
    /\ LET listed == { TxnList[k] : k \in DOMAIN TxnList }
       IN  /\ heap' = heap \ UNION { DataOf(insts[i].cmds) : i \in listed }
           /\ insts' = [i \in TxnInsts |-> IF i \in listed THEN NotAllocated ELSE insts[i]]
           /\ dropped' = [t \in Threads |-> dropped[t] \cup
                 UNION { NumsOf(insts[i].cmds) : i \in { j \in listed : insts[j].tid = t } }]
    /\ TxnList' = <<>>
    /\ UNCHANGED <<flush, issued, done>>

Next ==
    \/ \E t \in Threads : \/ \E auto \in BOOLEAN : XAie_StartTransaction(t, auto)
                          \/ RunOnDevice(t)
                          \/ AppendCmd(t)
                          \/ AutoFlush(t)
                          \/ XAie_SubmitTransaction(t)
                          \/ SubmitExported(t)
                          \/ ExecuteCmd(t)
                          \/ ExecuteCmdFails(t)
                          \/ AutoFlushReturns(t)
                          \/ SubmitReturns(t)
                          \/ XAie_ExportTransactionInstance(t)
                          \/ XAie_ClearTransaction(t)
    \/ XAie_FreeTransactionInstance
    \/ XAie_Finish

Spec == Init /\ [][Next]_vars

-----------------------------------------------------------------------------
(* Properties *)

HasRun(t, n) == done[t][n] > 0

(* What the flush of instance i that is in progress has not run yet; all   *)
(* of the commands when there is none, or when i is exported.              *)
PendingCmds(i) ==
    { c \in DOMAIN insts[i].cmds :
          insts[i].exported \/ \A t \in Threads : flush[t].inst = i => c >= flush[t].k }
PendingData(i) == UNION { insts[i].cmds[c].data : c \in PendingCmds(i) }
Live == { i \in TxnInsts : Allocated(i) }

(* The operations of a thread reach the device in the order it issued      *)
(* them, whatever the mix of buffered, flushed and direct ones, other      *)
(* threads' flushes, failed submissions and abandoned transactions: when   *)
(* one ran, every earlier one ran or was thrown away.                      *)
ProgramOrder ==
    \A t \in Threads, n \in OpNums : HasRun(t, n) =>
        \A m \in 1 .. n - 1 : HasRun(t, m) \/ m \in dropped[t]

(* An operation that returned XAIE_OK is not lost: it ran, or waits in a   *)
(* listed transaction of its thread, or was thrown away on request.        *)
NothingLost ==
    \A t \in Threads : \A n \in 1 .. issued[t] :
        \/ HasRun(t, n)
        \/ n \in dropped[t]
        \/ \E k \in DOMAIN TxnList : /\ insts[TxnList[k]].tid = t
                                     /\ n \in NumsOf(insts[TxnList[k]].cmds)

(* A buffered operation runs once (XAie_SubmitTransaction and the          *)
(* automatic flushes of one buffer never run a command again).             *)
AtMostOnce == \A t \in Threads, n \in OpNums : done[t][n] <= 1

(* The allocated data copies are those of the commands that wait in live   *)
(* instances, each of one instance: nothing leaks, nothing is freed while  *)
(* a command still refers to it, and no copy is freed twice.               *)
BuffersAreOwned ==
    /\ heap = UNION { PendingData(i) : i \in Live }
    /\ \A i, j \in Live : i # j => PendingData(i) \cap PendingData(j) = {}

(* What a flush in progress refers to stays as it was: no step frees the   *)
(* instance or changes its commands before the flush returns.              *)
FlushedInstIsStable ==
    [][\A t \in Threads :
          flush[t] # NoFlush /\ flush'[t] # NoFlush =>
              insts'[flush[t].inst] = insts[flush[t].inst]]_vars
=============================================================================
