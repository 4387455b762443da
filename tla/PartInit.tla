------------------------------ MODULE PartInit ------------------------------
(***************************************************************************)
(* The privileged sequences that bring a partition into a known state:     *)
(* _XAie_PrivilegeInitPart and _XAie_PrivilegeTeardownPart                 *)
(* (io_backend/privilege/xaie_io_privilege.c) and XAie_ResetPartition      *)
(* (pm/xaie_reset.c), on an array that may hold several partitions.        *)
(*                                                                         *)
(* A sequence is a list of steps; a step writes one register in each of    *)
(* some columns and says what the sequence does if that fails.  Only one   *)
(* partition at a time is in such a sequence: the note of                  *)
(* XAie_ResetPartition asks for that.                                      *)
(***************************************************************************)
EXTENDS Naturals, Sequences, FiniteSets

CONSTANTS
    Devs,      \* the partitions of the array
    DevGens,   \* the generations the array may be of
    NumCols,   \* columns of a partition
    NocCols,   \* those with a SHIM NOC
    CanFail,   \* the registers whose writes may fail
    Ops        \* the sequences that are run

ColRegs == {"clk", "colrst", "shimrst", "nsu", "isolate", "zero", "irq"}
ArrayRegs == {"prot", "npirst"}
Cols == 0 .. NumCols - 1

ASSUME GenAssumption == DevGens \subseteq {"AIE", "AIEML"}
ASSUME ColsAssumption == NumCols \in Nat \ {0} /\ NocCols \subseteq Cols
ASSUME FailAssumption == CanFail \subseteq ColRegs \cup ArrayRegs
ASSUME OpsAssumption == Ops \subseteq {"init", "teardown", "reset"}

VARIABLES
    DevGen,  \* the generation of the array; it never changes
    hw,      \* hw[d][reg]: the columns of partition d where reg is set
    array,   \* the registers of the NPI: array[reg] is set or not
    call,    \* the sequence that is running, or ran last
    wasRst   \* the <<reg, d, c>> that were reset since that sequence began

vars == <<DevGen, hw, array, call, wasRst>>

InitOpts == {"column_rst", "shim_rst", "block_nocaximmerr", "isolate", "zeroizemem"}

(* AIE isolates the partition at its edges; AIE-ML writes every column.    *)
IsolatedCols == IF DevGen = "AIE" THEN {0, NumCols - 1} ELSE Cols

(* The sides on which a column is isolated.                                *)
IsolationDirs(c) ==
    IF c = 0 THEN {"west"} ELSE IF c = NumCols - 1 THEN {"east"} ELSE {}

-----------------------------------------------------------------------------
(* The sequences *)

Step(reg, set, cols, fail) == [reg |-> reg, set |-> set, cols |-> cols, fail |-> fail]
Part(reg, set, fail) == Step(reg, set, Cols, fail)
Array(reg, set, fail) == Step(reg, set, {}, fail)
When(cond, steps) == IF cond THEN steps ELSE <<>>
CloseProtRegs(fail) == Array("prot", FALSE, fail)

ColumnReset_NotQuiet ==
    << Part("colrst", TRUE, "close"), Part("clk", FALSE, "close"),
       Part("clk", TRUE, "close"), Part("colrst", FALSE, "close") >>

ColumnReset ==
    << Part("clk", FALSE, "close"), Part("colrst", TRUE, "close"),
       Part("clk", TRUE, "close"), Part("colrst", FALSE, "close") >>

(* _XAie_PrivilegeRstPartShims; on AIE-ML shims have no reset of their own.*)
ShimReset ==
    When(DevGen = "AIE", <<Part("shimrst", TRUE, "close")>>)
    \o << Array("npirst", TRUE, "close"), Array("npirst", FALSE, "close") >>

(* SetPartColClockAfterRst(XAIE_ENABLE).                                   *)
ClockAfterReset == When(DevGen = "AIEML", <<Part("clk", TRUE, "close")>>)

InitPart_BlockFirst(opts) ==
    <<Array("prot", TRUE, "return")>>
    \o When("column_rst" \in opts, ColumnReset)
    \o When("block_nocaximmerr" \in opts, <<Step("nsu", TRUE, NocCols, "close")>>)
    \o When("shim_rst" \in opts, ShimReset)
    \o ClockAfterReset
    \o When("isolate" \in opts, <<Step("isolate", TRUE, IsolatedCols, "close_go_on")>>)
    \o When("zeroizemem" \in opts, <<Part("zero", TRUE, "close")>>)
    \o <<Step("irq", TRUE, NocCols, "return")>>
    \o When(DevGen = "AIE", <<Part("clk", FALSE, "close")>>)
    \o <<CloseProtRegs("return")>>

(* A failed isolation closes the protected registers but does not return.  *)
InitPart(opts) ==
    <<Array("prot", TRUE, "return")>>
    \o When("column_rst" \in opts, ColumnReset)
    \o When("shim_rst" \in opts, ShimReset)
    \o When("block_nocaximmerr" \in opts, <<Step("nsu", TRUE, NocCols, "close")>>)
    \o ClockAfterReset
    \o When("isolate" \in opts, <<Step("isolate", TRUE, IsolatedCols, "close_go_on")>>)
    \o When("zeroizemem" \in opts, <<Part("zero", TRUE, "close")>>)
    \o <<Step("irq", TRUE, NocCols, "return")>>
    \o When(DevGen = "AIE", <<Part("clk", FALSE, "close")>>)
    \o <<CloseProtRegs("return")>>

TeardownPart_ZeroGated ==
    <<Array("prot", TRUE, "return")>>
    \o ColumnReset \o ShimReset \o ClockAfterReset
    \o <<Part("clk", FALSE, "close"), Part("zero", TRUE, "close"), CloseProtRegs("return")>>

TeardownPart ==
    <<Array("prot", TRUE, "return")>>
    \o ColumnReset \o ShimReset \o ClockAfterReset
    \o <<Part("zero", TRUE, "close"), Part("clk", FALSE, "close"), CloseProtRegs("return")>>

(* XAie_ResetPartition looks at the result of the clock steps only.        *)
ResetPartition ==
    << Part("clk", FALSE, "return"), Part("colrst", TRUE, "ignore"), Part("clk", TRUE, "return") >>
    \o << IF DevGen = "AIE" THEN Part("shimrst", TRUE, "ignore") ELSE Array("prot", TRUE, "ignore"),
          Array("npirst", TRUE, "ignore"), Array("npirst", FALSE, "ignore"),
          IF DevGen = "AIE" THEN Part("shimrst", FALSE, "ignore") ELSE CloseProtRegs("ignore") >>
    \o << Array("prot", TRUE, "ignore"), Step("nsu", TRUE, NocCols, "ignore"),
          CloseProtRegs("ignore"), Part("clk", FALSE, "return") >>

Steps(op, opts) ==
    CASE op = "init" -> InitPart(opts)
      [] op = "teardown" -> TeardownPart
      [] op = "reset" -> ResetPartition

-----------------------------------------------------------------------------
Init ==
    /\ DevGen \in DevGens
    /\ hw = [d \in Devs |-> [reg \in ColRegs |-> {}]]
    /\ array = [reg \in ArrayRegs |-> FALSE]
    /\ \E d \in Devs : call = [dev |-> d, op |-> "none", opts |-> {}, steps |-> <<>>,
                               rc |-> "XAIE_OK"]
    /\ wasRst = {}

Idle == call.steps = <<>>
d0 == call.dev
Now == Head(call.steps)

Start(d, op, opts) ==
    /\ Idle /\ op \in Ops
    /\ call' = [dev |-> d, op |-> op, opts |-> opts, steps |-> Steps(op, opts), rc |-> "XAIE_OK"]
    /\ wasRst' = {}
    /\ UNCHANGED <<hw, array>>

XAie_PartitionInitialize(d) == \E opts \in SUBSET InitOpts : Start(d, "init", opts)
XAie_PartitionTeardown(d) == Start(d, "teardown", {})
XAie_ResetPartition(d) == Start(d, "reset", {})

(* The register of the step is written in columns `cols`.  Resetting a     *)
(* column removes its isolation.                                           *)
WriteCols(cols) ==
    /\ hw' = LET new == [hw EXCEPT ![d0][Now.reg] = IF Now.set THEN @ \cup cols ELSE @ \ cols]
             IN  IF Now.reg = "colrst" /\ Now.set
                 THEN [new EXCEPT ![d0]["isolate"] = @ \ cols] ELSE new
    /\ wasRst' = IF Now.reg = "colrst" /\ Now.set
                 THEN wasRst \cup ({"col"} \X {d0} \X cols) ELSE wasRst
    /\ UNCHANGED array

(* The shims the NPI resets: on AIE those with their reset bit set, in any *)
(* partition; on AIE-ML those of the partition whose registers are open.   *)
ShimsOf(d) == IF DevGen = "AIE" THEN hw[d]["shimrst"] ELSE IF d = d0 THEN Cols ELSE {}

(* After a shim reset the clock buffer has its default: enabled on AIE,    *)
(* disabled on AIE-ML.                                                     *)
ResetShims ==
    /\ hw' = [d \in Devs |-> [reg \in ColRegs |->
                 IF reg = "clk" /\ DevGen = "AIE" THEN hw[d][reg] \cup ShimsOf(d)
                 ELSE IF reg \in {"clk", "nsu", "irq"} THEN hw[d][reg] \ ShimsOf(d)
                 ELSE hw[d][reg]]]
    /\ wasRst' = wasRst \cup UNION { {"shim"} \X {d} \X ShimsOf(d) : d \in Devs }

WriteArray ==
    /\ array' = [array EXCEPT ![Now.reg] = Now.set]
    /\ IF Now.reg = "npirst" /\ Now.set THEN ResetShims ELSE UNCHANGED <<hw, wasRst>>

GoOn == call' = [call EXCEPT !.steps = Tail(@)]

StepSucceeds ==
    /\ ~Idle
    /\ IF Now.reg \in ColRegs THEN WriteCols(Now.cols) ELSE WriteArray
    /\ GoOn

(* What the sequence does after a step that failed.                        *)
AfterFailure_NoClose ==
    CASE Now.fail = "ignore"      -> GoOn
      [] Now.fail = "close_go_on" -> GoOn
      [] Now.fail \in {"return", "close"} -> call' = [call EXCEPT !.rc = "XAIE_ERR", !.steps = <<>>]

AfterFailure ==
    CASE Now.fail = "ignore" -> GoOn
      [] Now.fail = "return" -> call' = [call EXCEPT !.rc = "XAIE_ERR", !.steps = <<>>]
      [] Now.fail = "close"  -> call' = [call EXCEPT !.rc = "XAIE_ERR",
                                                     !.steps = <<CloseProtRegs("ignore")>>]
      [] Now.fail = "close_go_on" -> call' = [call EXCEPT !.steps =
                                                 <<CloseProtRegs("ignore")>> \o Tail(@)]

(* A step that is checked stops at the first column that fails; one that   *)
(* is not checked tries them all.  A failing write may have taken effect   *)
(* in an NPI register: the poll after it is what fails.                    *)
StepFails ==
    /\ ~Idle /\ Now.reg \in CanFail
    /\ \/ /\ Now.reg \in ColRegs
          /\ \E cols \in SUBSET Now.cols \ {Now.cols} :
                 /\ Now.fail # "ignore" => \A c \in cols, b \in Now.cols : b <= c => b \in cols
                 /\ WriteCols(cols)
       \/ Now.reg \in ArrayRegs /\ UNCHANGED <<hw, array, wasRst>>
       \/ Now.reg \in ArrayRegs /\ WriteArray
    /\ AfterFailure

Next ==
    /\ UNCHANGED DevGen
    /\ \/ \E d \in Devs : \/ XAie_PartitionInitialize(d)
                          \/ XAie_PartitionTeardown(d)
                          \/ XAie_ResetPartition(d)
       \/ StepSucceeds
       \/ StepFails

Spec == Init /\ [][Next]_vars

-----------------------------------------------------------------------------
(* Properties *)

StepSet == [reg: ColRegs \cup ArrayRegs, set: BOOLEAN, cols: SUBSET Cols,
            fail: {"return", "close", "close_go_on", "ignore"}]

(* The registers are set in columns of their partition, and a sequence is  *)
(* made of steps.                                                          *)
TypeOK ==
    /\ DevGen \in DevGens
    /\ hw \in [Devs -> [ColRegs -> SUBSET Cols]]
    /\ array \in [ArrayRegs -> BOOLEAN]
    /\ call \in [dev: Devs, op: Ops \cup {"none"}, opts: SUBSET InitOpts,
                 steps: Seq(StepSet), rc: {"XAIE_OK", "XAIE_ERR"}]
    /\ wasRst \subseteq {"col", "shim"} \X Devs \X Cols

(* Whatever step of a sequence failed, the protected registers are closed  *)
(* again when it has returned.                                             *)
ProtectedRegsAreClosed == Idle => ~array["prot"]

Reset(kind, d) == {kind} \X {d} \X Cols \subseteq wasRst

(* "@return XAIE_OK on success": a partition initialization that returns   *)
(* XAIE_OK has done all the steps its options ask for, and they still hold *)
(* when it returns: nothing is left in reset, nothing that a later step    *)
(* of the sequence undid.                                                  *)
InitOkIsComplete ==
    Idle /\ call.op = "init" /\ call.rc = "XAIE_OK" =>
        /\ ~array["prot"]
        /\ "column_rst" \in call.opts => Reset("col", d0) /\ hw[d0]["colrst"] = {}
        /\ "shim_rst" \in call.opts => Reset("shim", d0) /\ ~array["npirst"]
        /\ "block_nocaximmerr" \in call.opts => NocCols \subseteq hw[d0]["nsu"]
        /\ "isolate" \in call.opts => IsolatedCols \subseteq hw[d0]["isolate"]
        /\ "zeroizemem" \in call.opts => hw[d0]["zero"] = Cols
        /\ NocCols \subseteq hw[d0]["irq"]
        /\ hw[d0]["clk"] = IF DevGen = "AIE" THEN {} ELSE Cols

(* "This API sets isolation boundry of an AI engine partition after        *)
(* reset": after an initialization that was to isolate the partition and   *)
(* returned XAIE_OK, it is isolated at its west and at its east edge.      *)
(* Not so for one column, whose east side is forgotten (MCPartOne.cfg).    *)
BoundaryIsIsolated ==
    Idle /\ call.op = "init" /\ call.rc = "XAIE_OK" /\ "isolate" \in call.opts =>
        /\ 0 \in hw[d0]["isolate"] /\ "west" \in IsolationDirs(0)
        /\ NumCols - 1 \in hw[d0]["isolate"] /\ "east" \in IsolationDirs(NumCols - 1)

(* "Gate all tiles before resetting columns to quiet traffic", "Enable     *)
(* clock buffer before removing column reset": whatever failed before, a   *)
(* column goes into reset gated and leaves it clocked.                     *)
ColumnResetsAreQuiet ==
    [][\A d \in Devs :
          /\ hw'[d]["colrst"] \ hw[d]["colrst"] \subseteq Cols \ hw[d]["clk"]
          /\ hw[d]["colrst"] \ hw'[d]["colrst"] \subseteq hw[d]["clk"]]_vars

(* AIE-ML: memories are zeroized while their column has a clock.  (On AIE  *)
(* a program zeroizes them before it gates the columns, and after a        *)
(* teardown they are still gated when the next initialization begins.)     *)
ZeroizedWhileClocked ==
    [][DevGen = "AIEML" => \A d \in Devs :
           hw'[d]["zero"] \ hw[d]["zero"] \subseteq hw[d]["clk"]]_vars
=============================================================================
