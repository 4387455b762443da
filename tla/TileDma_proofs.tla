---------------------------- MODULE TileDma_proofs ----------------------------
(***************************************************************************)
(* Proofs about TileDma: whose turn it is with a buffer is told by its     *)
(* lock, or by who holds it; what the buffers, the stream and the other    *)
(* host hold follows from whose turn it is.                                *)
(***************************************************************************)
EXTENDS TileDma, TLAPS

USE DmaAssumption

\* l says that a buffer is ready for t, or ("none") that it is taken.
Says(l, t) == IF Gen = "AIE" THEN IF t = "none" THEN l.acq ELSE ~l.acq /\ l.val = t
              ELSE \A u \in Uses : l[u] = IF u = t THEN 1 ELSE 0

LockSet == IF Gen = "AIE" THEN AieLock ELSE AieMlLock

HostsTurn(s) == HostHolds(s) \/ (~ChannelHolds(s) /\ Says(lock[s], HostUse(s)))
ChannelsTurn(s) == ChannelHolds(s) \/ (~HostHolds(s) /\ Says(lock[s], ChannelUse(s)))

InRound == {"acquire", "acquiring", "acquired", "use", "release", "releasing", "released"}

TypeInv ==
    /\ TypeOK
    /\ stream \in Seq(0..NumItems)
    /\ \A s \in Sides : /\ round[s] <= pushed[s] /\ pushed[s] <= NumItems
                        /\ pc[s] \in InRound \cup {"enable"} => round[s] < pushed[s]
                        /\ pc[s] = "push" => pushed[s] < NumItems

PendingInv ==
    /\ PendingIsExact
    /\ \A s \in Sides : pc[s] = "push" => PendingBd(s) < MaxQueueSize

LockOf(s) ==
    /\ pc[s] \notin {"acquired", "released"}
    /\ pc[s] = "start" => pushed[s] = 0 /\ Says(lock[s], IF Gen = "AIE" THEN "write" ELSE "none")
    /\ HostHolds(s) => ~ChannelHolds(s)
    /\ HostHolds(s) \/ ChannelHolds(s) => Says(lock[s], "none")
    /\ pc[s] # "start" => HostsTurn(s) \/ ChannelsTurn(s)

LockInv == \A s \in Sides : LockOf(s)

OutInv ==
    LET s == "out" IN
    pc[s] # "start" =>
        /\ HostsTurn(s) => /\ round[s] = completed[s]
                           /\ pc[s] \in {"release", "releasing"} => buffer[s] = round[s] + 1
        /\ ChannelsTurn(s) => round[s] = completed[s] + 1 /\ buffer[s] = round[s]

InInv ==
    LET s == "in" IN
    pc[s] # "start" =>
        /\ HostsTurn(s) => completed[s] = round[s] + 1 /\ buffer[s] = completed[s]
        /\ ChannelsTurn(s) => /\ completed[s] = round[s]
                              /\ phase[s] = "release" => buffer[s] = completed[s] + 1

\* Items that went into the stream and came out of it on a side, and that the host
\* received.
Passed(s) == completed[s] + (IF phase[s] = "release" THEN 1 ELSE 0)
Got == round["in"] + (IF pc["in"] \in {"release", "releasing"} THEN 1 ELSE 0)

StreamInv ==
    \/ Passed("out") = Passed("in") /\ stream = <<>>
    \/ Passed("out") = Passed("in") + 1 /\ stream = <<Passed("out")>>

ReceivedInv == received = [i \in 1..Got |-> i]

IInv == /\ TypeInv /\ PendingInv
        /\ backend # "linux" => LockInv /\ OutInv /\ InInv /\ StreamInv /\ ReceivedInv

----------------------------------------------------------------------------
(* Helpers. *)

LEMMA Channels ==
    /\ \A s \in Sides : ChIdx(s) \in Regs
    /\ \A s, r \in Sides : s # r => ChIdx(s) # ChIdx(r)
<1>1. \A s \in Sides : ChNum[s] \in 0..NumChannels-1
  OBVIOUS
<1> QED BY <1>1 DEF ChIdx, Regs, Sides

\* A poll ends.
LEMMA ReadsType ==
    ASSUME NEW t \in 0..DefWaitTime
    PROVE  Reads(t) \in 0..IF backend = "sim" THEN DefWaitTime ELSE DefWaitTime \div MinTimeOutUs + 2
<1>1. /\ (t + 199) \div 200 \in 0..DefWaitTime \div 200 + 1
      /\ DefWaitTime \div 200 \in Nat
  OBVIOUS
<1> QED BY <1>1 DEF Reads, MinTimeOutUs

\* A lock has its type after a request.
LEMMA RequestType ==
    ASSUME Gen \in Gens, NEW s \in Sides, NEW op \in {"acquire", "release"}, NEW use \in Uses,
           lock \in [Sides -> LockSet], Request(s, op, use)
    PROVE  lock' \in [Sides -> LockSet]
<1> DEFINE l == lock[s]
<1>1. CASE ~Requestable(l, op, use)
  BY <1>1 DEF Request
<1>2. CASE Requestable(l, op, use)
  <2>1. l \in LockSet
    OBVIOUS
  <2>2. After(l, op, use) \in LockSet
    <3>1. CASE Gen = "AIE"
      BY <2>1, <3>1 DEF After, LockSet, AieLock, Uses
    <3>2. CASE Gen # "AIE"
      <4>1. l \in [Uses -> 0..63] /\ l[use] \in 0..63
        BY <2>1, <3>2 DEF LockSet, AieMlLock, MaxLockVal
      <4>2. CASE op = "acquire"
        <5>1. l[use] - 1 \in 0..63
          BY <4>1, <4>2, <1>2, <3>2 DEF Requestable
        <5> QED BY <4>1, <4>2, <5>1, <3>2 DEF After, LockSet, AieMlLock, MaxLockVal
      <4>3. CASE op = "release"
        <5>1. l[use] + 1 \in 0..63
          BY <4>1, <4>3, <1>2, <3>2 DEF Requestable, MaxLockVal
        <5> QED BY <4>1, <4>3, <5>1, <3>2 DEF After, LockSet, AieMlLock, MaxLockVal
      <4> QED BY <4>2, <4>3
    <3> QED BY <3>1, <3>2
  <2> QED BY <2>1, <2>2, <1>2 DEF Request
<1> QED BY <1>1, <1>2

\* A request succeeds on the lock that says so, and what the lock says then.
LEMMA Effect ==
    ASSUME Gen \in Gens, NEW l \in LockSet, NEW use \in Uses
    PROVE  /\ \A t \in Uses : Says(l, t) => (Requestable(l, "acquire", use) <=> t = use)
           /\ Says(l, "none") => ~Requestable(l, "acquire", use)
           /\ Says(l, use) => Says(After(l, "acquire", use), "none")
           /\ Says(l, "none") => /\ Requestable(l, "release", use)
                                 /\ Says(After(l, "release", use), use)
           /\ \A t, u \in Uses \cup {"none"} : Says(l, t) /\ Says(l, u) => t = u
<1>1. CASE Gen = "AIE"
  BY <1>1 DEF Says, Requestable, After, Uses, LockSet, AieLock
<1>2. CASE Gen # "AIE"
  <2>1. l \in [Uses -> 0..63]
    BY <1>2 DEF LockSet, AieMlLock, MaxLockVal
  <2> QED BY <2>1, <1>2 DEF Says, Requestable, After, Uses, MaxLockVal
<1> QED BY <1>1, <1>2

----------------------------------------------------------------------------
(* Types. *)

\* The times that the host gives.
LEMMA Times == ASSUME NEW t \in Timeouts
               PROVE  t \in 0..DefWaitTime /\ DefWaitTime \in 0..DefWaitTime
OBVIOUS

\* Every step but one of a channel leaves the types of the channels alone, and the
\* other way round.
HostTypes ==
    /\ pc \in [Sides -> {"start", "count", "push", "enable", "acquire", "acquiring", "acquired",
                         "use", "release", "releasing", "released", "wait", "waiting", "end"}]
    /\ left \in [Sides -> 0..IF backend = "sim" THEN DefWaitTime
                                               ELSE DefWaitTime \div MinTimeOutUs + 2]
    /\ rc \in [Sides -> {"none", "ok", "failed"}]
    /\ round \in [Sides -> 0..NumItems] /\ pushed \in [Sides -> Nat]
    /\ \A s \in Sides : /\ round[s] <= pushed[s] /\ pushed[s] <= NumItems
                        /\ pc[s] \in InRound \cup {"enable"} => round[s] < pushed[s]
                        /\ pc[s] = "push" => pushed[s] < NumItems
ChannelTypes ==
    /\ queue \in [Regs -> 0..MaxQueueSize] /\ enabled \in [Regs -> BOOLEAN]
    /\ phase \in [Sides -> {"idle", "acquire", "move", "release"}]
    /\ completed \in [Sides -> Nat]
DataTypes ==
    /\ buffer \in [Sides -> 0..NumItems] /\ received \in Seq(0..NumItems)
    /\ stream \in Seq(0..NumItems)
LockTypes == lock \in [Sides -> LockSet]

LEMMA TypeParts ==
    TypeInv <=> Gen \in Gens /\ backend \in Backends /\ HostTypes /\ ChannelTypes /\ DataTypes /\ LockTypes
BY DEF TypeInv, TypeOK, HostTypes, ChannelTypes, DataTypes, LockTypes, LockSet

LEMMA TypePartsPrime ==
    TypeInv' <=> (Gen \in Gens /\ backend \in Backends /\ HostTypes /\ ChannelTypes /\ DataTypes /\ LockTypes)'
BY DEF TypeInv, TypeOK, HostTypes, ChannelTypes, DataTypes, LockTypes, LockSet

LEMMA TypeInit == Init => TypeInv
<1> SUFFICES ASSUME Init PROVE TypeInv
  OBVIOUS
<1>1. lock \in [Sides -> LockSet]
  <2>1. CASE Gen = "AIE"
    BY <2>1 DEF Init, LockSet, AieLock, Uses
  <2>2. CASE Gen # "AIE"
    <3>1. [use \in Uses |-> 0] \in [Uses -> 0..63]
      OBVIOUS
    <3> QED BY <3>1, <2>2 DEF Init, LockSet, AieMlLock, MaxLockVal
  <2> QED BY <2>1, <2>2
<1>2. [s \in Sides |-> 0] \in [Sides -> 0..NumItems]
  OBVIOUS
<1>3. 0 \in 0..IF backend = "sim" THEN DefWaitTime ELSE DefWaitTime \div MinTimeOutUs + 2
  <2>1. DefWaitTime \div 200 \in Nat
    OBVIOUS
  <2> QED BY <2>1 DEF MinTimeOutUs
<1>4. HostTypes
  BY <1>2, <1>3 DEF Init, HostTypes, InRound
<1>5. ChannelTypes
  BY DEF Init, ChannelTypes
<1>6. <<>> \in Seq(0..NumItems)
  OBVIOUS
<1>7. DataTypes
  BY <1>2, <1>6 DEF Init, DataTypes
<1> QED BY <1>1, <1>4, <1>5, <1>7, TypeParts DEF Init, LockTypes

LEMMA TypeHost ==
    ASSUME TypeInv, NEW s \in Sides, HostStep(s)
    PROVE  HostTypes'
<1>1. HostTypes /\ backend' = backend /\ Gen' = Gen
  BY TypeParts DEF HostStep, LockSetValue, Count, PushBdToQueue, ChannelEnable, CallLock, PollAcquire,
    PollRelease, ReadAcquireAgain, ReadReleaseAgain, UseBuffer, CallWait, PollWait, TimeOut, device
<1> DEFINE L == 0..IF backend = "sim" THEN DefWaitTime ELSE DefWaitTime \div MinTimeOutUs + 2
<1>2. /\ 0 \in L
      /\ \A x \in L : x > 0 => x - 1 \in L
  <2>1. DefWaitTime \div 200 \in Nat
    OBVIOUS
  <2> QED BY <2>1 DEF MinTimeOutUs
<1>3. \A t \in 0..DefWaitTime : Reads(t) \in L
  BY ReadsType
<1>4. HostTypes <=>
        /\ pc \in [Sides -> {"start", "count", "push", "enable", "acquire", "acquiring", "acquired",
                             "use", "release", "releasing", "released", "wait", "waiting", "end"}]
        /\ left \in [Sides -> L]
        /\ rc \in [Sides -> {"none", "ok", "failed"}]
        /\ round \in [Sides -> 0..NumItems] /\ pushed \in [Sides -> Nat]
        /\ \A r \in Sides : /\ round[r] <= pushed[r] /\ pushed[r] <= NumItems
                            /\ pc[r] \in InRound \cup {"enable"} => round[r] < pushed[r]
                            /\ pc[r] = "push" => pushed[r] < NumItems
  BY DEF HostTypes
<1>5. (/\ pc \in [Sides -> {"start", "count", "push", "enable", "acquire", "acquiring", "acquired",
                             "use", "release", "releasing", "released", "wait", "waiting", "end"}]
       /\ left \in [Sides -> L]
       /\ rc \in [Sides -> {"none", "ok", "failed"}]
       /\ round \in [Sides -> 0..NumItems] /\ pushed \in [Sides -> Nat]
       /\ \A r \in Sides : /\ round[r] <= pushed[r] /\ pushed[r] <= NumItems
                           /\ pc[r] \in InRound \cup {"enable"} => round[r] < pushed[r]
                           /\ pc[r] = "push" => pushed[r] < NumItems)'
      => HostTypes'
  BY <1>1 DEF HostTypes
<1> HIDE DEF L
<1>l. L' = L
  BY <1>1 DEF L
<1> USE <1>1, <1>2, <1>4, <1>5, <1>l
<1>a. CASE LockSetValue(s)
  BY <1>a DEF LockSetValue, InRound
<1>b. CASE Count(s)
  BY <1>b DEF Count, InRound
<1>c. CASE PushBdToQueue(s)
  BY <1>c DEF PushBdToQueue, InRound
<1>d. CASE ChannelEnable(s)
  BY <1>d DEF ChannelEnable, InRound
<1>e. CASE CallLock(s)
  <2>1. PICK t \in Timeouts : Call(s, "acquire", "acquiring", t) \/ Call(s, "release", "releasing", t)
    BY <1>e DEF CallLock
  <2>2. Reads(t) \in L
    BY <1>3, Times
  <2> QED BY <2>1, <2>2, <1>e DEF CallLock, Call, InRound
<1>f. CASE PollAcquire(s)
  BY <1>f DEF PollAcquire, PollLock, Return, InVain, InRound
<1>g. CASE PollRelease(s)
  BY <1>g DEF PollRelease, PollLock, Return, InVain, AfterRelease, InRound
<1>h. CASE ReadAcquireAgain(s)
  BY <1>h DEF ReadAcquireAgain, Return, InRound
<1>i. CASE ReadReleaseAgain(s)
  BY <1>i DEF ReadReleaseAgain, Return, AfterRelease, InRound
<1>j. CASE UseBuffer(s)
  BY <1>j DEF UseBuffer, InRound
<1>k. CASE CallWait(s)
  <2>1. PICK t \in Timeouts : Call(s, "wait", "waiting", IF t = 0 THEN DefWaitTime ELSE t)
    BY <1>k DEF CallWait
  <2>2. Reads(IF t = 0 THEN DefWaitTime ELSE t) \in L
    BY <1>3, Times
  <2> QED BY <2>1, <2>2, <1>k DEF CallWait, Call, InRound
<1>m. CASE PollWait(s)
  BY <1>m DEF PollWait, Return, InVain, InRound
<1>n. CASE TimeOut(s)
  BY <1>n DEF TimeOut, Return, InRound
<1> QED BY <1>a, <1>b, <1>c, <1>d, <1>e, <1>f, <1>g, <1>h, <1>i, <1>j, <1>k, <1>m, <1>n DEF HostStep

LEMMA TypeStep ==
    ASSUME TypeInv, [Next]_vars
    PROVE  TypeInv'
<1>1. Gen \in Gens /\ backend \in Backends /\ HostTypes /\ ChannelTypes /\ DataTypes /\ LockTypes
  BY TypeParts
<1>2. CASE UNCHANGED vars
  BY <1>1, <1>2, TypePartsPrime DEF HostTypes, ChannelTypes, DataTypes, LockTypes, LockSet,
    vars, device, host, channels, data
<1>3. ASSUME NEW s \in Sides, HostStep(s)
      PROVE  TypeInv'
  <2> USE <1>1, <1>3
  <2>1. Gen' = Gen /\ backend' = backend
    BY DEF HostStep, LockSetValue, Count, PushBdToQueue, ChannelEnable, CallLock, PollAcquire,
      PollRelease, ReadAcquireAgain, ReadReleaseAgain, UseBuffer, CallWait, PollWait, TimeOut, device
  <2>2. HostTypes'
    BY TypeHost
  <2>3. ChannelTypes'
    <3>1. ChIdx(s) \in Regs
      BY Channels
    <3>2. CASE PushBdToQueue(s)
      <4>1. queue' \in [Regs -> 0..MaxQueueSize]
        BY <3>1, <3>2 DEF ChannelTypes, PushBdToQueue
      <4> QED BY <4>1, <3>2 DEF ChannelTypes, PushBdToQueue
    <3>3. CASE ChannelEnable(s)
      BY <3>1, <3>3 DEF ChannelTypes, ChannelEnable
    <3>4. CASE UNCHANGED channels
      BY <3>4 DEF ChannelTypes, channels
    <3> QED BY <3>2, <3>3, <3>4 DEF HostStep, LockSetValue, Count, CallLock, PollAcquire, PollRelease,
        ReadAcquireAgain, ReadReleaseAgain, UseBuffer, CallWait, PollWait, TimeOut
  <2>4. DataTypes'
    <3>1. CASE UseBuffer(s)
      <4>1. round[s] + 1 \in 0..NumItems /\ buffer[s] \in 0..NumItems
        BY <3>1 DEF UseBuffer, HostTypes, DataTypes, InRound
      <4>2. CASE s = "out"
        BY <4>1, <4>2, <3>1 DEF UseBuffer, DataTypes
      <4>3. CASE s # "out"
        <5>1. Append(received, buffer[s]) \in Seq(0..NumItems)
          BY <4>1 DEF DataTypes
        <5> QED BY <5>1, <4>3, <3>1 DEF UseBuffer, DataTypes
      <4> QED BY <4>2, <4>3
    <3>2. CASE ~UseBuffer(s)
      BY <3>2 DEF DataTypes, HostStep, LockSetValue, Count, PushBdToQueue, ChannelEnable, CallLock,
        PollAcquire, PollRelease, ReadAcquireAgain, ReadReleaseAgain, CallWait, PollWait, TimeOut, data
    <3> QED BY <3>1, <3>2
  <2>5. lock' \in [Sides -> LockSet]
    <3> USE DEF LockTypes
    <3>u. HostUse(s) \in Uses /\ ChannelUse(s) \in Uses
      BY DEF HostUse, ChannelUse, Uses
    <3>1. CASE LockSetValue(s)
      <4>1. CASE Gen = "AIE"
        BY <3>1, <4>1 DEF LockSetValue
      <4>2. CASE Gen # "AIE"
        <5>1. lock \in [Sides -> [Uses -> 0..63]]
          BY <4>2 DEF LockSet, AieMlLock, MaxLockVal
        <5>2. lock' \in [Sides -> [Uses -> 0..63]]
          BY <3>1, <4>2, <5>1 DEF LockSetValue, Uses
        <5> QED BY <4>2, <5>2 DEF LockSet, AieMlLock, MaxLockVal
      <4> QED BY <4>1, <4>2
    <3>2. CASE Request(s, "acquire", HostUse(s)) \/ Request(s, "release", ChannelUse(s))
      BY <3>2, <3>u, RequestType
    <3>3. CASE lock' = lock
      BY <3>3
    <3> QED BY <3>1, <3>2, <3>3 DEF HostStep, Count, PushBdToQueue, ChannelEnable, CallLock,
        PollAcquire, PollRelease, PollLock, ReadAcquireAgain, ReadReleaseAgain, UseBuffer, CallWait,
        PollWait, TimeOut
  <2>6. LockTypes'
    BY <2>1, <2>5 DEF LockTypes, LockSet
  <2> QED BY <2>1, <2>2, <2>3, <2>4, <2>6, TypePartsPrime
<1>4. ASSUME NEW s \in Sides, ChannelStep(s)
      PROVE  TypeInv'
  <2> USE <1>1, <1>4
  <2>1. Gen' = Gen /\ backend' = backend
    BY DEF ChannelStep, TakeBd, ChannelAcquire, Move, ChannelRelease, device
  <2>2. HostTypes'
    BY <2>1 DEF HostTypes, ChannelStep, TakeBd, ChannelAcquire, Move, ChannelRelease, host
  <2>3. ChannelTypes'
    <3>1. ChIdx(s) \in Regs
      BY Channels
    <3>2. CASE TakeBd(s)
      <4>1. queue' \in [Regs -> 0..MaxQueueSize]
        BY <3>1, <3>2 DEF ChannelTypes, TakeBd
      <4> QED BY <4>1, <3>2 DEF ChannelTypes, TakeBd
    <3>3. CASE ChannelAcquire(s) \/ Move(s)
      BY <3>3 DEF ChannelTypes, ChannelAcquire, Move
    <3>4. CASE ChannelRelease(s)
      BY <3>4 DEF ChannelTypes, ChannelRelease
    <3> QED BY <3>2, <3>3, <3>4 DEF ChannelStep
  <2>4. DataTypes'
    <3>1. CASE Move(s)
      <4>1. <<buffer[s]>> \in Seq(0..NumItems) /\ <<>> \in Seq(0..NumItems)
        BY DEF DataTypes
      <4>2. stream # <<>> => Head(stream) \in 0..NumItems
        BY DEF DataTypes
      <4> QED BY <4>1, <4>2, <3>1 DEF DataTypes, Move
    <3>2. CASE ~Move(s)
      BY <3>2 DEF DataTypes, ChannelStep, TakeBd, ChannelAcquire, ChannelRelease, data
    <3> QED BY <3>1, <3>2
  <2>5. lock' \in [Sides -> LockSet]
    <3>1. HostUse(s) \in Uses /\ ChannelUse(s) \in Uses
      BY DEF HostUse, ChannelUse, Uses
    <3>2. CASE Request(s, "acquire", ChannelUse(s)) \/ Request(s, "release", HostUse(s))
      BY <3>1, <3>2, RequestType DEF LockTypes
    <3>3. CASE lock' = lock
      BY <3>3 DEF LockTypes
    <3> QED BY <3>2, <3>3 DEF ChannelStep, TakeBd, ChannelAcquire, Move, ChannelRelease
  <2>6. LockTypes'
    BY <2>1, <2>5 DEF LockTypes, LockSet
  <2> QED BY <2>1, <2>2, <2>3, <2>4, <2>6, TypePartsPrime
<1> QED BY <1>2, <1>3, <1>4 DEF Next, Terminated

\* A step of one side leaves the other alone.
LEMMA Others ==
    ASSUME TypeInv, NEW s \in Sides, NEW r \in Sides, r # s, HostStep(s) \/ ChannelStep(s)
    PROVE  /\ Gen' = Gen /\ pc'[r] = pc[r] /\ round'[r] = round[r] /\ pushed'[r] = pushed[r]
           /\ lock'[r] = lock[r] /\ phase'[r] = phase[r] /\ completed'[r] = completed[r]
           /\ buffer'[r] = buffer[r]
<1> USE TypeParts DEF HostTypes, ChannelTypes, DataTypes, LockTypes
<1>1. CASE ChannelStep(s)
  BY <1>1 DEF ChannelStep, TakeBd, ChannelAcquire, Move, ChannelRelease, Request, device, host, data
<1>2. CASE HostStep(s)
  <2>1. Gen' = Gen /\ UNCHANGED <<phase, completed>>
    BY <1>2 DEF HostStep, LockSetValue, Count, PushBdToQueue, ChannelEnable, CallLock, PollAcquire, PollRelease,
      ReadAcquireAgain, ReadReleaseAgain, UseBuffer, CallWait, PollWait, TimeOut, device, channels
  <2>2. lock'[r] = lock[r]
    BY <1>2 DEF HostStep, LockSetValue, Count, PushBdToQueue, ChannelEnable, CallLock, PollAcquire, PollRelease,
      ReadAcquireAgain, ReadReleaseAgain, UseBuffer, CallWait, PollWait, TimeOut, PollLock, Request
  <2>3. buffer'[r] = buffer[r]
    BY <1>2 DEF HostStep, LockSetValue, Count, PushBdToQueue, ChannelEnable, CallLock, PollAcquire, PollRelease,
      ReadAcquireAgain, ReadReleaseAgain, UseBuffer, CallWait, PollWait, TimeOut, data
  <2>4. round'[r] = round[r] /\ pushed'[r] = pushed[r]
    BY <1>2 DEF HostStep, LockSetValue, Count, PushBdToQueue, ChannelEnable, CallLock, PollAcquire, PollRelease,
      ReadAcquireAgain, ReadReleaseAgain, UseBuffer, CallWait, PollWait, TimeOut
  <2>5. pc'[r] = pc[r]
    <3>1. CASE PollAcquire(s) \/ PollRelease(s) \/ PollWait(s)
      BY <3>1 DEF PollAcquire, PollRelease, PollLock, PollWait, Return, InVain
    <3>2. CASE CallLock(s) \/ CallWait(s) \/ TimeOut(s)
      BY <3>2 DEF CallLock, CallWait, Call, TimeOut, Return
    <3>3. CASE ReadAcquireAgain(s) \/ ReadReleaseAgain(s)
      BY <3>3 DEF ReadAcquireAgain, ReadReleaseAgain, Return
    <3> QED BY <1>2, <3>1, <3>2, <3>3 DEF HostStep, LockSetValue, Count, PushBdToQueue, ChannelEnable, UseBuffer
  <2> QED BY <2>1, <2>2, <2>3, <2>4, <2>5
<1> QED BY <1>1, <1>2

----------------------------------------------------------------------------
(* What is pending. *)

LEMMA PendingInit == Init => PendingInv
<1> SUFFICES ASSUME Init PROVE PendingInv
  OBVIOUS
<1>1. \A s \in Sides : ChIdx(s) \in Regs
  BY Channels
<1> QED BY <1>1 DEF Init, PendingInv, PendingIsExact, PendingBd

LEMMA PendingStep ==
    ASSUME TypeInv, PendingInv, [Next]_vars
    PROVE  PendingInv'
<1>1. HostTypes /\ ChannelTypes
  BY TypeParts
<1> DEFINE P(s) == PendingBd(s) = pushed[s] - completed[s]
           R(s) == pc[s] = "push" => PendingBd(s) < MaxQueueSize
<1>2. PendingInv <=> \A s \in Sides : P(s) /\ R(s)
  BY DEF PendingInv, PendingIsExact
<1>3. (\A s \in Sides : P(s) /\ R(s))' => PendingInv'
  BY DEF PendingInv, PendingIsExact
<1>4. CASE UNCHANGED vars
  BY <1>2, <1>3, <1>4 DEF vars, host, channels, PendingBd
<1>5. ASSUME NEW s \in Sides, HostStep(s) \/ ChannelStep(s)
      PROVE  PendingInv'
  <2>1. ASSUME NEW r \in Sides
        PROVE  P(r)' /\ R(r)'
    <3> USE <1>1, <1>2 DEF HostTypes, ChannelTypes, PendingBd
    <3>1. ChIdx(s) \in Regs /\ ChIdx(r) \in Regs /\ (s # r => ChIdx(s) # ChIdx(r))
      BY <2>1, Channels
    <3>2. CASE Count(s)
      BY <2>1, <3>1, <3>2 DEF Count, channels
    <3>3. CASE PushBdToQueue(s)
      BY <2>1, <3>1, <3>3 DEF PushBdToQueue
    <3>4. CASE HostStep(s) /\ ~Count(s) /\ ~PushBdToQueue(s)
      <4>1. UNCHANGED <<queue, phase, completed, pushed>>
        BY <3>4 DEF HostStep, LockSetValue, ChannelEnable, CallLock, PollAcquire, PollRelease, ReadAcquireAgain,
          ReadReleaseAgain, UseBuffer, CallWait, PollWait, TimeOut, channels
      <4>2. pc'[r] = "push" => pc[r] = "push"
        <5>1. CASE r # s
          BY <2>1, <3>4, <5>1, Others
        <5>2. CASE r = s /\ (PollAcquire(s) \/ PollRelease(s) \/ PollWait(s))
          BY <5>2 DEF PollAcquire, PollRelease, PollLock, PollWait, Return, InVain, AfterRelease
        <5>3. CASE r = s /\ (CallLock(s) \/ CallWait(s) \/ TimeOut(s))
          BY <5>3 DEF CallLock, CallWait, Call, TimeOut, Return
        <5>4. CASE r = s /\ (ReadAcquireAgain(s) \/ ReadReleaseAgain(s))
          BY <5>4 DEF ReadAcquireAgain, ReadReleaseAgain, Return, AfterRelease
        <5> QED BY <3>4, <5>1, <5>2, <5>3, <5>4 DEF HostStep, LockSetValue, ChannelEnable, UseBuffer
      <4> QED BY <2>1, <4>1, <4>2
    <3>5. CASE ChannelStep(s)
      <4>1. UNCHANGED <<pc, pushed>>
        BY <3>5 DEF ChannelStep, TakeBd, ChannelAcquire, Move, ChannelRelease, host
      <4>2. CASE TakeBd(s)
        BY <2>1, <3>1, <4>1, <4>2 DEF TakeBd
      <4>3. CASE ChannelAcquire(s) \/ Move(s)
        BY <2>1, <3>1, <4>1, <4>3 DEF ChannelAcquire, Move
      <4>4. CASE ChannelRelease(s)
        BY <2>1, <3>1, <4>1, <4>4 DEF ChannelRelease
      <4> QED BY <3>5, <4>2, <4>3, <4>4 DEF ChannelStep
    <3> QED BY <1>5, <3>2, <3>3, <3>4, <3>5
  <2> QED BY <2>1, <1>3
<1> QED BY <1>4, <1>5 DEF Next, Terminated

----------------------------------------------------------------------------
(* Locks: the turn passes from one to the other with a release. *)

LEMMA UsesOf == \A s \in Sides : /\ HostUse(s) \in Uses /\ ChannelUse(s) \in Uses
                                 /\ HostUse(s) # ChannelUse(s)
                                 /\ "none" \notin Uses
BY DEF HostUse, ChannelUse, Uses, Sides

\* The turn of the host, or of the channel, ends.
HostPasses(s) == PollRelease(s) /\ pc'[s] \notin {"release", "releasing"}

LEMMA TurnsExclude ==
    ASSUME TypeInv, NEW s \in Sides, LockOf(s)
    PROVE  ~(HostsTurn(s) /\ ChannelsTurn(s))
<1>1. Gen \in Gens /\ lock[s] \in LockSet
  BY TypeParts DEF LockTypes
<1> QED BY <1>1, UsesOf, Effect DEF LockOf, HostsTurn, ChannelsTurn

LEMMA Turns ==
    ASSUME TypeInv, PendingInv, backend # "linux", NEW s \in Sides, LockOf(s),
           HostStep(s) \/ ChannelStep(s)
    PROVE  /\ LockOf(s)'
           /\ pc[s] # "start" =>
                /\ ~HostPasses(s) /\ ~ChannelRelease(s) => /\ HostsTurn(s)' <=> HostsTurn(s)
                                                           /\ ChannelsTurn(s)' <=> ChannelsTurn(s)
                /\ HostPasses(s) => HostsTurn(s) /\ ChannelsTurn(s)' /\ ~HostsTurn(s)'
                /\ ChannelRelease(s) => ChannelsTurn(s) /\ HostsTurn(s)' /\ ~ChannelsTurn(s)'
           /\ pc[s] = "start" => /\ pc'[s] # "start"
                                 /\ round[s] = 0 /\ completed[s] = 0 /\ phase[s] = "idle"
                                 /\ HostsTurn(s)' <=> s = "out"
                                 /\ ChannelsTurn(s)' <=> s = "in"
<1> DEFINE l == lock[s]
           U == HostUse(s)
           V == ChannelUse(s)
<1>1. /\ Gen \in Gens /\ l \in LockSet /\ HostTypes /\ ChannelTypes /\ lock \in [Sides -> LockSet]
      /\ Gen' = Gen
  BY TypeParts DEF LockTypes, HostStep, LockSetValue, Count, PushBdToQueue, ChannelEnable, CallLock, PollAcquire,
      PollRelease, ReadAcquireAgain, ReadReleaseAgain, UseBuffer, CallWait, PollWait, TimeOut, device,
      ChannelStep, TakeBd, ChannelAcquire, Move, ChannelRelease
<1>2. \A t \in Uses \cup {"none"} : Says(lock[s], t)' <=> Says(lock'[s], t)
  BY <1>1 DEF Says
<1>3. /\ U \in Uses /\ V \in Uses /\ U # V /\ "none" \notin Uses
  BY UsesOf
<1>4. \A use \in Uses :
        /\ \A t \in Uses : Says(l, t) => (Requestable(l, "acquire", use) <=> t = use)
        /\ Says(l, "none") => ~Requestable(l, "acquire", use)
        /\ Says(l, use) => Says(After(l, "acquire", use), "none")
        /\ Says(l, "none") => Requestable(l, "release", use) /\ Says(After(l, "release", use), use)
        /\ \A t, u \in Uses \cup {"none"} : Says(l, t) /\ Says(l, u) => t = u
  BY <1>1, Effect
<1>5. \A op \in {"acquire", "release"}, use \in Uses :
        Request(s, op, use) => lock'[s] = IF Requestable(l, op, use) THEN After(l, op, use) ELSE l
  BY <1>1 DEF Request
<1>6. ~ReadsAgain(s)
  BY DEF ReadsAgain
<1>7. /\ HostsTurn(s) <=> HostHolds(s) \/ (~ChannelHolds(s) /\ Says(l, U))
      /\ ChannelsTurn(s) <=> ChannelHolds(s) \/ (~HostHolds(s) /\ Says(l, V))
      /\ HostsTurn(s)' <=> HostHolds(s)' \/ (~ChannelHolds(s)' /\ Says(lock'[s], U))
      /\ ChannelsTurn(s)' <=> ChannelHolds(s)' \/ (~HostHolds(s)' /\ Says(lock'[s], V))
  BY <1>2, <1>3 DEF HostsTurn, ChannelsTurn, HostUse, ChannelUse
<1>8. /\ pc[s] \notin {"acquired", "released"}
      /\ HostHolds(s) => ~ChannelHolds(s)
      /\ HostHolds(s) \/ ChannelHolds(s) => Says(l, "none")
      /\ pc[s] # "start" => HostsTurn(s) \/ ChannelsTurn(s)
  BY DEF LockOf
<1>9. /\ pc'[s] \notin {"start", "acquired", "released"}
      /\ HostHolds(s)' => ~ChannelHolds(s)'
      /\ HostHolds(s)' \/ ChannelHolds(s)' => Says(lock'[s], "none")
      /\ HostsTurn(s)' \/ ChannelsTurn(s)'
      => LockOf(s)'
  BY <1>2, <1>3 DEF LockOf
<1>10. ~(HostsTurn(s) /\ ChannelsTurn(s))
  BY TurnsExclude
<1> HIDE DEF U, V, l
<1>a. CASE pc[s] = "start" /\ HostStep(s)
  <2>1. LockSetValue(s) /\ pc' = [pc EXCEPT ![s] = "count"] /\ UNCHANGED phase
    BY <1>a DEF HostStep, LockSetValue, Count, PushBdToQueue, ChannelEnable, CallLock, Call, PollAcquire, PollLock,
      PollRelease, ReadAcquireAgain, ReadReleaseAgain, UseBuffer, CallWait, PollWait, TimeOut, channels
  <2>2. pushed[s] = 0 /\ Says(l, IF Gen = "AIE" THEN "write" ELSE "none")
    BY <1>a DEF LockOf, l
  <2>3. round[s] = 0 /\ completed[s] = 0 /\ phase[s] = "idle"
    <3>1. ChIdx(s) \in Regs
      BY Channels
    <3>2. PendingBd(s) = pushed[s] - completed[s]
      BY DEF PendingInv, PendingIsExact
    <3> QED BY <2>2, <3>1, <3>2, <1>1 DEF HostTypes, ChannelTypes, PendingBd
  <2>4. Says(lock'[s], "write")
    <3>1. CASE Gen = "AIE"
      BY <2>1, <2>2, <3>1 DEF LockSetValue, l
    <3>2. CASE Gen # "AIE"
      <4>1. lock \in [Sides -> [Uses -> 0..63]] /\ "write" \in Uses
        BY <1>1, <3>2 DEF LockSet, AieMlLock, MaxLockVal, Uses
      <4>2. lock'[s] = [lock[s] EXCEPT !["write"] = 1]
        BY <4>1, <2>1, <3>2 DEF LockSetValue
      <4>3. \A u \in Uses : lock[s][u] = 0
        BY <1>3, <2>2, <3>2 DEF l, Says
      <4>4. \A u \in Uses : lock'[s][u] = IF u = "write" THEN 1 ELSE 0
        BY <4>1, <4>2, <4>3
      <4> QED BY <4>4, <3>2 DEF Says
    <3> QED BY <3>1, <3>2
  <2>5. pc'[s] = "count" /\ ~HostHolds(s)' /\ ~ChannelHolds(s)' /\ lock'[s] \in LockSet
    <3>1. LockTypes'
      BY TypePartsPrime, TypeStep DEF Next
    <3> QED BY <2>1, <2>3, <1>1, <3>1 DEF HostHolds, ChannelHolds, HostTypes, LockTypes, LockSet
  <2>6. \A t \in Uses : Says(lock'[s], t) <=> t = "write"
    BY <1>1, <2>4, <2>5, Effect DEF Uses
  <2>7. /\ HostsTurn(s)' <=> s = "out"
        /\ ChannelsTurn(s)' <=> s = "in"
    BY <1>3, <1>7, <2>5, <2>6 DEF U, V, HostUse, ChannelUse, Sides
  <2> QED BY <1>9, <1>a, <2>3, <2>5, <2>7 DEF Sides
<1>b. CASE pc[s] # "start" /\ HostStep(s)
  <2> USE <1>b, <1>1, <1>8 DEF HostTypes
  <2>1. UNCHANGED phase /\ (ChannelHolds(s)' <=> ChannelHolds(s)) /\ ~ChannelRelease(s)
    BY DEF HostStep, LockSetValue, Count, PushBdToQueue, ChannelEnable, CallLock, PollAcquire,
      PollRelease, ReadAcquireAgain, ReadReleaseAgain, UseBuffer, CallWait, PollWait, TimeOut, channels,
      ChannelRelease, ChannelHolds, ChannelTypes
  <2>2. CASE PollAcquire(s)
    <3>1. Request(s, "acquire", U) /\ ~HostHolds(s) /\ ~HostPasses(s)
      BY <2>2 DEF PollAcquire, PollRelease, PollLock, HostHolds, HostPasses, U
    <3>2. CASE Requestable(l, "acquire", U)
      <4>1. pc' = [pc EXCEPT ![s] = "use"]
        BY <2>2, <3>2, <1>6 DEF PollAcquire, PollLock, Return, U, l
      <4>2. HostHolds(s)' /\ pc'[s] = "use"
        BY <4>1 DEF HostHolds
      <4>3. Says(l, U) /\ ~ChannelHolds(s) /\ lock'[s] = After(l, "acquire", U)
        BY <1>3, <1>4, <1>5, <1>7, <3>1, <3>2
      <4>4. Says(lock'[s], "none")
        BY <4>3, <1>3, <1>4
      <4> QED BY <4>2, <4>3, <4>4, <3>1, <2>1, <1>7, <1>9, <1>10
    <3>3. CASE ~Requestable(l, "acquire", U)
      <4>1. pc' = pc /\ lock'[s] = l
        BY <1>3, <1>5, <2>2, <3>1, <3>3 DEF PollAcquire, PollLock, InVain, U, l
      <4>2. HostHolds(s)' <=> HostHolds(s)
        BY <4>1 DEF HostHolds
      <4> QED BY <4>1, <4>2, <3>1, <2>1, <1>7, <1>9
    <3> QED BY <3>2, <3>3
  <2>3. CASE PollRelease(s)
    <3>1. Request(s, "release", V) /\ HostHolds(s) /\ pc[s] = "releasing"
      BY <2>3 DEF PollRelease, PollLock, HostHolds, V
    <3>2. Says(l, "none") /\ Requestable(l, "release", V) /\ ~ChannelHolds(s)
      BY <3>1, <1>3, <1>4
    <3>3. pc' = [pc EXCEPT ![s] = AfterRelease(s)]
      BY <2>3, <3>2, <1>6 DEF PollRelease, PollLock, Return, V, l
    <3>4. ~HostHolds(s)' /\ pc'[s] \in {"wait", "count"}
      BY <3>3 DEF HostHolds, AfterRelease
    <3>5. Says(lock'[s], V)
      BY <3>1, <3>2, <1>3, <1>4, <1>5
    <3>6. lock'[s] \in LockSet
      <4>1. LockTypes'
        BY TypePartsPrime, TypeStep DEF Next
      <4> QED BY <4>1 DEF LockTypes, LockSet
    <3>7. ~Says(lock'[s], U)
      BY <1>3, <3>5, <3>6, Effect
    <3> QED BY <3>1, <3>2, <3>4, <3>5, <3>7, <2>1, <2>3, <1>7, <1>9, <1>10 DEF HostPasses
  <2>4. CASE ~PollAcquire(s) /\ ~PollRelease(s)
    <3>1. UNCHANGED lock /\ (HostHolds(s)' <=> HostHolds(s)) /\ pc'[s] \notin {"start", "acquired", "released"}
      BY <2>4 DEF HostStep, LockSetValue, Count, PushBdToQueue, ChannelEnable, CallLock, Call,
        ReadAcquireAgain, ReadReleaseAgain, UseBuffer, CallWait, PollWait, TimeOut, Return, InVain, HostHolds
    <3> QED BY <3>1, <2>1, <2>4, <1>7, <1>9 DEF HostPasses, l
  <2> QED BY <2>2, <2>3, <2>4
<1>c. CASE ChannelStep(s)
  <2> USE <1>c, <1>1, <1>8 DEF ChannelTypes
  <2>1. UNCHANGED <<pc, pushed>> /\ ~PollRelease(s) /\ (HostHolds(s)' <=> HostHolds(s))
    BY DEF ChannelStep, TakeBd, ChannelAcquire, Move, ChannelRelease, host, HostHolds, PollRelease, PollLock,
      channels, HostTypes
  <2>2. pc[s] # "start"
    <3>1. ChIdx(s) \in Regs /\ PendingBd(s) = pushed[s] - completed[s]
      BY Channels DEF PendingInv, PendingIsExact
    <3>2. queue[ChIdx(s)] > 0 \/ phase[s] # "idle"
      BY DEF ChannelStep, TakeBd, ChannelAcquire, Move, ChannelRelease
    <3> QED BY <3>1, <3>2 DEF PendingBd, LockOf, HostTypes
  <2>3. CASE ChannelAcquire(s)
    <3>1. /\ Request(s, "acquire", V) /\ Requestable(l, "acquire", V)
          /\ phase[s] = "acquire" /\ phase'[s] = "move"
      BY <2>3 DEF ChannelAcquire, V, l
    <3>2. ~ChannelHolds(s) /\ ChannelHolds(s)'
      BY <3>1 DEF ChannelHolds
    <3>3. Says(l, V) /\ ~HostHolds(s)
      BY <2>2, <3>1, <3>2, <1>3, <1>4, <1>7
    <3>4. Says(lock'[s], "none")
      BY <3>1, <3>3, <1>3, <1>4, <1>5
    <3>5. ~ChannelRelease(s)
      BY <3>1 DEF ChannelRelease
    <3> QED BY <2>1, <2>2, <3>2, <3>3, <3>4, <3>5, <1>7, <1>9, <1>10 DEF HostPasses
  <2>4. CASE ChannelRelease(s)
    <3>1. Request(s, "release", U) /\ phase[s] = "release" /\ phase'[s] = "idle"
      BY <2>4 DEF ChannelRelease, U
    <3>2. ChannelHolds(s) /\ ~ChannelHolds(s)' /\ ~HostHolds(s)
      BY <3>1 DEF ChannelHolds
    <3>3. Says(lock'[s], U)
      BY <3>1, <3>2, <1>3, <1>4, <1>5
    <3>4. lock'[s] \in LockSet
      <4>1. LockTypes'
        BY TypePartsPrime, TypeStep DEF Next
      <4> QED BY <4>1 DEF LockTypes, LockSet
    <3>5. ~Says(lock'[s], V)
      BY <1>3, <3>3, <3>4, Effect
    <3> QED BY <2>1, <2>2, <2>4, <3>2, <3>3, <3>5, <1>7, <1>9, <1>10 DEF HostPasses
  <2>5. CASE TakeBd(s) \/ Move(s)
    <3>1. UNCHANGED lock /\ (ChannelHolds(s)' <=> ChannelHolds(s)) /\ ~ChannelRelease(s)
      BY <2>5 DEF TakeBd, Move, ChannelRelease, ChannelHolds
    <3> QED BY <2>1, <2>2, <3>1, <1>7, <1>9 DEF HostPasses, l
  <2> QED BY <2>3, <2>4, <2>5 DEF ChannelStep
<1> QED BY <1>a, <1>b, <1>c

LEMMA OtherTurns ==
    ASSUME TypeInv, NEW s \in Sides, NEW r \in Sides, r # s, HostStep(s) \/ ChannelStep(s)
    PROVE  /\ LockOf(r) => LockOf(r)'
           /\ HostsTurn(r)' <=> HostsTurn(r)
           /\ ChannelsTurn(r)' <=> ChannelsTurn(r)
<1>1. \A t \in Uses \cup {"none"} : Says(lock[r], t)' <=> Says(lock[r], t)
  BY Others DEF Says
<1>2. (HostHolds(r)' <=> HostHolds(r)) /\ (ChannelHolds(r)' <=> ChannelHolds(r))
  BY Others DEF HostHolds, ChannelHolds
<1>3. /\ HostsTurn(r)' <=> HostsTurn(r)
      /\ ChannelsTurn(r)' <=> ChannelsTurn(r)
  BY <1>1, <1>2, UsesOf DEF HostsTurn, ChannelsTurn, HostUse, ChannelUse
<1>4. ASSUME LockOf(r) PROVE LockOf(r)'
  BY <1>1, <1>2, <1>3, <1>4, Others DEF LockOf, Uses
<1> QED BY <1>3, <1>4

LEMMA LockStep ==
    ASSUME TypeInv, PendingInv, backend # "linux", LockInv, [Next]_vars
    PROVE  LockInv'
<1>1. CASE UNCHANGED vars
  BY <1>1 DEF vars, device, host, channels, LockInv, LockOf, Says, HostsTurn, ChannelsTurn, HostHolds, ChannelHolds,
    HostUse, ChannelUse
<1>2. ASSUME NEW s \in Sides, HostStep(s) \/ ChannelStep(s)
      PROVE  LockInv'
  <2>1. ASSUME NEW r \in Sides PROVE LockOf(r)'
    <3>1. CASE r = s
      BY <1>2, <3>1, Turns DEF LockInv
    <3>2. CASE r # s
      BY <1>2, <2>1, <3>2, OtherTurns DEF LockInv
    <3> QED BY <3>1, <3>2
  <2> QED BY <2>1 DEF LockInv
<1> QED BY <1>1, <1>2 DEF Next, Terminated

----------------------------------------------------------------------------
(* Data. *)

\* What the steps of the hosts do to the variables that the data depend on.
LEMMA HostEffect ==
    ASSUME TypeInv, PendingInv, backend # "linux", NEW s \in Sides, LockOf(s), HostStep(s)
    PROVE  /\ UNCHANGED <<phase, completed, stream>>
           /\ \/ /\ HostPasses(s) /\ HostHolds(s) /\ pc[s] = "releasing"
                 /\ pc'[s] \notin {"release", "releasing"}
                 /\ round'[s] = round[s] + 1 /\ UNCHANGED <<buffer, received>>
              \/ /\ ~HostPasses(s) /\ UseBuffer(s) /\ HostHolds(s) /\ pc[s] = "use" /\ pc'[s] = "release"
                 /\ UNCHANGED round
                 /\ IF s = "out" THEN buffer'[s] = round[s] + 1 /\ UNCHANGED received
                                 ELSE received' = Append(received, buffer[s]) /\ UNCHANGED buffer
              \/ /\ ~HostPasses(s) /\ UNCHANGED <<round, buffer, received>>
                 /\ pc[s] \in {"release", "releasing"} <=> pc'[s] \in {"release", "releasing"}
<1> USE TypeParts DEF HostTypes, DataTypes
<1>1. UNCHANGED <<phase, completed, stream>>
  BY DEF HostStep, LockSetValue, Count, PushBdToQueue, ChannelEnable, CallLock, PollAcquire, PollRelease,
      ReadAcquireAgain, ReadReleaseAgain, UseBuffer, CallWait, PollWait, TimeOut, channels, data
<1>2. ~ReadsAgain(s) /\ pc[s] \notin {"acquired", "released"}
  BY DEF ReadsAgain, LockOf
<1>3. CASE PollRelease(s)
  <2>1. pc[s] = "releasing" /\ HostHolds(s) /\ UNCHANGED <<buffer, received>>
    BY <1>3 DEF PollRelease, PollLock, HostHolds, data
  <2>2. CASE Requestable(lock[s], "release", ChannelUse(s))
    <3>1. pc' = [pc EXCEPT ![s] = AfterRelease(s)] /\ round' = [round EXCEPT ![s] = @ + 1]
      BY <1>2, <1>3, <2>2 DEF PollRelease, PollLock, Return
    <3> QED BY <1>1, <1>3, <2>1, <3>1 DEF HostPasses, AfterRelease
  <2>3. CASE ~Requestable(lock[s], "release", ChannelUse(s))
    BY <1>1, <1>3, <2>1, <2>3 DEF PollRelease, PollLock, InVain, HostPasses
  <2> QED BY <2>2, <2>3
<1>4. CASE UseBuffer(s)
  <2>1. ~PollRelease(s) /\ pc[s] = "use" /\ pc'[s] = "release" /\ UNCHANGED round
    BY <1>4 DEF UseBuffer, PollRelease, PollLock
  <2> QED BY <1>1, <1>4, <2>1 DEF UseBuffer, HostPasses, HostHolds
<1>5. CASE ~PollRelease(s) /\ ~UseBuffer(s)
  <2>1. UNCHANGED <<round, buffer, received>>
    BY <1>2, <1>5 DEF HostStep, LockSetValue, Count, PushBdToQueue, ChannelEnable, CallLock, PollAcquire,
      ReadAcquireAgain, ReadReleaseAgain, CallWait, PollWait, TimeOut, data
  <2>2. pc[s] \in {"release", "releasing"} <=> pc'[s] \in {"release", "releasing"}
    BY <1>2, <1>5 DEF HostStep, LockSetValue, Count, PushBdToQueue, ChannelEnable, CallLock, Call, PollAcquire,
      PollLock, ReadAcquireAgain, ReadReleaseAgain, CallWait, PollWait, TimeOut, Return, InVain
  <2> QED BY <1>1, <1>5, <2>1, <2>2 DEF HostPasses
<1> QED BY <1>3, <1>4, <1>5

LEMMA OutStep ==
    ASSUME TypeInv, PendingInv, backend # "linux", LockInv, OutInv,
           NEW s \in Sides, HostStep(s) \/ ChannelStep(s)
    PROVE  OutInv'
<1> DEFINE o == "out"
<1> USE TypeParts DEF HostTypes, ChannelTypes, DataTypes, OutInv
<1>1. CASE s # o
  BY <1>1, Others, OtherTurns DEF Sides
<1>2. CASE s = o /\ HostStep(o)
  <2> USE <1>2
  <2>1. LockOf(o)
    BY DEF LockInv
  <2>2. CASE pc[o] = "start"
    <3>1. round' = round /\ completed' = completed /\ pc'[o] = "count"
      BY <2>2 DEF HostStep, LockSetValue, Count, PushBdToQueue, ChannelEnable, CallLock, Call, PollAcquire, PollRelease,
        PollLock, ReadAcquireAgain, ReadReleaseAgain, UseBuffer, CallWait, PollWait, TimeOut, channels
    <3> QED BY <2>1, <2>2, <3>1, Turns DEF Sides
  <2>3. CASE pc[o] # "start" /\ HostPasses(o)
    BY <2>1, <2>3, HostEffect, Turns
  <2>4. CASE pc[o] # "start" /\ ~HostPasses(o)
    <3>1. ~ChannelRelease(o)
      BY <2>1, <2>4, HostEffect DEF ChannelRelease
    <3>2. (HostsTurn(o)' <=> HostsTurn(o)) /\ (ChannelsTurn(o)' <=> ChannelsTurn(o))
      BY <2>1, <2>4, <3>1, Turns
    <3>3. HostHolds(o) => HostsTurn(o) /\ ~ChannelsTurn(o)
      BY <2>1, TurnsExclude DEF HostsTurn
    <3>4. CASE UseBuffer(o)
      BY <2>1, <2>4, <3>2, <3>3, <3>4, HostEffect
    <3>5. CASE ~UseBuffer(o)
      BY <2>1, <2>4, <3>2, <3>3, <3>5, HostEffect
    <3> QED BY <3>4, <3>5
  <2> QED BY <2>2, <2>3, <2>4
<1>3. CASE s = o /\ ChannelStep(o)
  <2> USE <1>3
  <2>1. LockOf(o) /\ UNCHANGED <<pc, round>>
    BY DEF LockInv, ChannelStep, TakeBd, ChannelAcquire, Move, ChannelRelease, host
  <2>2. buffer'[o] = buffer[o]
    BY DEF ChannelStep, TakeBd, ChannelAcquire, Move, ChannelRelease, data
  <2>3. pc[o] # "start" /\ ~HostPasses(o)
    <3>1. pc[o] # "start"
      BY <2>1, Turns
    <3>2. ~HostPasses(o)
      BY <2>1 DEF HostPasses, PollRelease, PollLock
    <3> QED BY <3>1, <3>2
  <2>4. CASE ChannelRelease(o)
    <3>1. ChannelsTurn(o) /\ ~ChannelsTurn(o)'
      BY <2>1, <2>3, <2>4, Turns
    <3>2. completed'[o] = completed[o] + 1
      BY <2>4 DEF ChannelRelease
    <3>3. pc[o] \notin {"release", "releasing"}
      BY <2>1, <2>4 DEF LockOf, ChannelRelease, ChannelHolds, HostHolds
    <3> QED BY <2>1, <2>2, <2>3, <3>1, <3>2, <3>3
  <2>5. CASE ~ChannelRelease(o)
    <3>1. (HostsTurn(o)' <=> HostsTurn(o)) /\ (ChannelsTurn(o)' <=> ChannelsTurn(o))
      BY <2>1, <2>3, <2>5, Turns
    <3>2. completed' = completed
      BY <2>5 DEF ChannelStep, TakeBd, ChannelAcquire, Move
    <3> QED BY <2>1, <2>2, <2>3, <3>1, <3>2
  <2> QED BY <2>4, <2>5
<1> QED BY <1>1, <1>2, <1>3

LEMMA InStep ==
    ASSUME TypeInv, PendingInv, backend # "linux", LockInv, InInv, StreamInv,
           NEW s \in Sides, HostStep(s) \/ ChannelStep(s)
    PROVE  InInv'
<1> DEFINE o == "in"
<1> USE TypeParts DEF HostTypes, ChannelTypes, DataTypes, InInv
<1>1. CASE s # o
  BY <1>1, Others, OtherTurns DEF Sides
<1>2. CASE s = o /\ HostStep(o)
  <2> USE <1>2
  <2>1. LockOf(o)
    BY DEF LockInv
  <2>2. CASE pc[o] = "start"
    <3>1. round' = round /\ completed' = completed /\ phase' = phase
      BY <2>2 DEF HostStep, LockSetValue, Count, PushBdToQueue, ChannelEnable, CallLock, Call, PollAcquire, PollRelease,
        PollLock, ReadAcquireAgain, ReadReleaseAgain, UseBuffer, CallWait, PollWait, TimeOut, channels
    <3> QED BY <2>1, <2>2, <3>1, Turns DEF Sides
  <2>3. CASE pc[o] # "start" /\ HostPasses(o)
    <3>1. phase[o] # "release"
      BY <2>1, <2>3, HostEffect DEF LockOf, ChannelHolds
    <3> QED BY <2>1, <2>3, <3>1, HostEffect, Turns
  <2>4. CASE pc[o] # "start" /\ ~HostPasses(o)
    <3>1. ~ChannelRelease(o)
      BY <2>1, <2>4, HostEffect DEF ChannelRelease
    <3>2. (HostsTurn(o)' <=> HostsTurn(o)) /\ (ChannelsTurn(o)' <=> ChannelsTurn(o))
      BY <2>1, <2>4, <3>1, Turns
    <3>3. UNCHANGED <<phase, completed, round, buffer>>
      BY <2>1, <2>4, HostEffect
    <3> QED BY <2>4, <3>2, <3>3
  <2> QED BY <2>2, <2>3, <2>4
<1>3. CASE s = o /\ ChannelStep(o)
  <2> USE <1>3
  <2>1. LockOf(o) /\ UNCHANGED <<pc, round>>
    BY DEF LockInv, ChannelStep, TakeBd, ChannelAcquire, Move, ChannelRelease, host
  <2>3. pc[o] # "start" /\ ~HostPasses(o)
    <3>1. pc[o] # "start"
      BY <2>1, Turns
    <3>2. ~HostPasses(o)
      BY <2>1 DEF HostPasses, PollRelease, PollLock
    <3> QED BY <3>1, <3>2
  <2>4. CASE ChannelRelease(o)
    <3>1. ChannelsTurn(o) /\ ~ChannelsTurn(o)'
      BY <2>1, <2>3, <2>4, Turns
    <3>2. completed'[o] = completed[o] + 1 /\ phase[o] = "release" /\ buffer' = buffer
      BY <2>4 DEF ChannelRelease, data
    <3> QED BY <2>1, <2>3, <3>1, <3>2
  <2>5. CASE ~ChannelRelease(o)
    <3>1. (HostsTurn(o)' <=> HostsTurn(o)) /\ (ChannelsTurn(o)' <=> ChannelsTurn(o))
      BY <2>1, <2>3, <2>5, Turns
    <3>2. completed' = completed
      BY <2>5 DEF ChannelStep, TakeBd, ChannelAcquire, Move
    <3>3. CASE Move(o)
      <4>1. phase[o] = "move" /\ stream # <<>> /\ buffer'[o] = Head(stream)
        BY <3>3 DEF Move
      <4>2. Head(stream) = completed[o] + 1
        BY <4>1 DEF StreamInv, Passed
      <4>3. ChannelsTurn(o) /\ ~HostsTurn(o)
        BY <2>1, <4>1, TurnsExclude DEF ChannelsTurn, ChannelHolds
      <4> QED BY <2>1, <2>3, <3>1, <3>2, <4>1, <4>2, <4>3
    <3>4. CASE TakeBd(o) \/ ChannelAcquire(o)
      BY <2>1, <2>3, <3>1, <3>2, <3>4 DEF TakeBd, ChannelAcquire, data
    <3> QED BY <2>5, <3>3, <3>4 DEF ChannelStep
  <2> QED BY <2>4, <2>5
<1> QED BY <1>1, <1>2, <1>3

LEMMA StreamStep ==
    ASSUME TypeInv, PendingInv, backend # "linux", LockInv, OutInv, StreamInv,
           NEW s \in Sides, HostStep(s) \/ ChannelStep(s)
    PROVE  StreamInv'
<1> USE TypeParts DEF ChannelTypes, StreamInv, Passed, Sides
<1>1. CASE HostStep(s)
  <2>1. UNCHANGED <<phase, completed, stream>>
    BY <1>1, HostEffect DEF LockInv
  <2> QED BY <2>1
<1>2. CASE TakeBd(s) \/ ChannelAcquire(s) \/ ChannelRelease(s)
  BY <1>2 DEF TakeBd, ChannelAcquire, ChannelRelease, data
<1>3. CASE Move(s) /\ s = "out"
  <2>1. /\ stream = <<>> /\ stream' = <<buffer["out"]>> /\ completed' = completed
        /\ phase["out"] = "move" /\ phase' = [phase EXCEPT !["out"] = "release"]
    BY <1>3 DEF Move
  <2>2. ChannelsTurn("out") /\ pc["out"] # "start"
    BY <1>3, <2>1, Turns DEF LockInv, ChannelsTurn, ChannelHolds, ChannelStep
  <2>3. buffer["out"] = completed["out"] + 1
    BY <2>2 DEF OutInv
  <2>4. Passed("in")' = Passed("in") /\ Passed("out")' = Passed("out") + 1 /\ Passed("out") = completed["out"]
    BY <2>1
  <2>5. Passed("out") = Passed("in") \/ stream = <<Passed("out")>>
    OBVIOUS
  <2> QED BY <2>1, <2>3, <2>4, <2>5
<1>4. CASE Move(s) /\ s = "in"
  BY <1>4 DEF Move
<1> QED BY <1>1, <1>2, <1>3, <1>4 DEF ChannelStep

LEMMA OneMore ==
    ASSUME NEW n \in Nat
    PROVE  Append([i \in 1..n |-> i], n + 1) = [i \in 1..n + 1 |-> i]
OBVIOUS

LEMMA ReceivedStep ==
    ASSUME TypeInv, PendingInv, backend # "linux", LockInv, InInv, ReceivedInv,
           NEW s \in Sides, HostStep(s) \/ ChannelStep(s)
    PROVE  ReceivedInv'
<1> USE TypeParts DEF HostTypes, ReceivedInv, Got
<1>1. CASE ChannelStep(s)
  BY <1>1 DEF ChannelStep, TakeBd, ChannelAcquire, Move, ChannelRelease, host, data
<1>2. CASE HostStep(s) /\ s # "in"
  BY <1>2, HostEffect, Others DEF LockInv, Sides
<1>3. CASE HostStep(s) /\ s = "in"
  <2> USE <1>3 DEF LockInv
  <2>1. CASE UseBuffer("in") /\ ~HostPasses("in")
    <3>1. pc["in"] = "use" /\ pc'["in"] = "release" /\ round' = round /\ received' = Append(received, buffer["in"])
      BY <2>1 DEF UseBuffer
    <3>2. buffer["in"] = round["in"] + 1
      BY <3>1 DEF InInv, HostsTurn, HostHolds
    <3>3. received = [i \in 1..round["in"] |-> i] /\ Got' = round["in"] + 1
      BY <3>1
    <3> QED BY <3>1, <3>2, <3>3, OneMore
  <2>2. CASE ~UseBuffer("in") \/ HostPasses("in")
    BY <2>2, HostEffect
  <2> QED BY <2>1, <2>2
<1> QED BY <1>1, <1>2, <1>3

----------------------------------------------------------------------------
(* Theorems. *)

LEMMA InitIInv == Init => IInv
<1> SUFFICES ASSUME Init PROVE IInv
  OBVIOUS
<1>1. TypeInv /\ PendingInv
  BY TypeInit, PendingInit
<1>2. LockInv
  <2>1. \A s \in Sides : Says(lock[s], IF Gen = "AIE" THEN "write" ELSE "none")
    BY DEF Init, Says, Uses
  <2> QED BY <2>1 DEF Init, LockInv, LockOf, HostHolds, ChannelHolds
<1>3. OutInv /\ InInv /\ StreamInv
  BY DEF Init, OutInv, InInv, StreamInv, Passed, Sides
<1>4. ReceivedInv
  BY DEF Init, ReceivedInv, Got, Sides
<1> QED BY <1>1, <1>2, <1>3, <1>4 DEF IInv

LEMMA NextIInv == IInv /\ [Next]_vars => IInv'
<1> SUFFICES ASSUME IInv, [Next]_vars PROVE IInv'
  OBVIOUS
<1>1. TypeInv' /\ PendingInv'
  BY TypeStep, PendingStep DEF IInv
<1>2. backend' = backend
  BY DEF vars, device, Next, Terminated, ChannelStep, TakeBd, ChannelAcquire, Move, ChannelRelease, HostStep,
    LockSetValue, Count, PushBdToQueue, ChannelEnable, CallLock, PollAcquire, PollRelease,
    ReadAcquireAgain, ReadReleaseAgain, UseBuffer, CallWait, PollWait, TimeOut
<1>3. ASSUME backend # "linux"
      PROVE  LockInv' /\ OutInv' /\ InInv' /\ StreamInv' /\ ReceivedInv'
  <2>1. TypeInv /\ PendingInv /\ LockInv /\ OutInv /\ InInv /\ StreamInv /\ ReceivedInv
    BY <1>3 DEF IInv
  <2>2. LockInv'
    BY <1>3, <2>1, LockStep
  <2>3. CASE UNCHANGED vars
    <3>1. OutInv' <=> OutInv
      BY <2>3 DEF vars, device, host, channels, data, OutInv, HostsTurn, ChannelsTurn, HostHolds, ChannelHolds, Says,
        HostUse, ChannelUse
    <3>2. InInv' <=> InInv
      BY <2>3 DEF vars, device, host, channels, data, InInv, HostsTurn, ChannelsTurn, HostHolds, ChannelHolds, Says,
        HostUse, ChannelUse
    <3>3. StreamInv' <=> StreamInv
      BY <2>3 DEF vars, channels, data, StreamInv, Passed
    <3>4. ReceivedInv' <=> ReceivedInv
      BY <2>3 DEF vars, host, data, ReceivedInv, Got
    <3> QED BY <2>1, <2>2, <3>1, <3>2, <3>3, <3>4
  <2>4. ASSUME NEW s \in Sides, HostStep(s) \/ ChannelStep(s)
        PROVE  OutInv' /\ InInv' /\ StreamInv' /\ ReceivedInv'
    BY <1>3, <2>1, <2>4, OutStep, InStep, StreamStep, ReceivedStep
  <2> QED BY <2>2, <2>3, <2>4 DEF Next, Terminated
<1> QED BY <1>1, <1>2, <1>3 DEF IInv

THEOREM Invariance == Spec => []IInv
<1> QED BY InitIInv, NextIInv, PTL DEF Spec

\* Every variable has its type, in particular no queue and no lock leaves its range
\* and polls end: for every number of items, every size of the queue and all times.
THEOREM TypeOKHolds == Spec => []TypeOK
<1>1. IInv => TypeOK
  BY DEF IInv, TypeInv
<1> QED BY <1>1, Invariance, PTL

\* What XAie_DmaGetPendingBdCount counts is what was pushed and is not done.
THEOREM PendingIsExactHolds == Spec => []PendingIsExact
<1>1. IInv => PendingIsExact
  BY DEF IInv, PendingInv
<1> QED BY <1>1, Invariance, PTL

\* XAIE_OK of XAie_DmaWaitForDone means that everything pushed is done.
THEOREM DoneMeansMovedHolds == Spec => DoneMeansMoved
<1>1. ASSUME IInv, [Next]_vars, NEW s \in Sides, pc[s] = "waiting", pc'[s] # "waiting", rc'[s] = "ok"
      PROVE  completed[s] = pushed[s]
  <2> USE <1>1
  <2>1. HostTypes /\ ChannelTypes /\ PendingBd(s) = pushed[s] - completed[s]
    BY TypeParts DEF IInv, PendingInv, PendingIsExact
  <2>2. HostStep(s)
    <3>1. ~UNCHANGED vars
      BY DEF vars, host
    <3>2. PICK r \in Sides : HostStep(r) \/ ChannelStep(r)
      BY <3>1 DEF Next, Terminated
    <3>3. CASE r # s
      BY <3>2, <3>3, Others DEF IInv
    <3>4. ~ChannelStep(s)
      BY DEF ChannelStep, TakeBd, ChannelAcquire, Move, ChannelRelease, host
    <3> QED BY <3>2, <3>3, <3>4
  <2>3. PollWait(s) \/ TimeOut(s)
    BY <2>2 DEF HostStep, LockSetValue, Count, PushBdToQueue, ChannelEnable, CallLock, Call, PollAcquire,
      PollRelease, PollLock, ReadAcquireAgain, ReadReleaseAgain, UseBuffer, CallWait
  <2>4. CASE TimeOut(s)
    BY <2>1, <2>4 DEF TimeOut, Return, HostTypes
  <2>5. CASE PollWait(s)
    <3>1. IsDone(s)
      BY <2>5 DEF PollWait, InVain
    <3>2. PendingBd(s) = 0
      BY <3>1 DEF IsDone, PendingBd
    <3> QED BY <2>1, <3>2 DEF HostTypes, ChannelTypes
  <2> QED BY <2>3, <2>4, <2>5
<1>2. IInv /\ [Next]_vars => [\A s \in Sides : pc[s] = "waiting" /\ pc'[s] # "waiting" /\ rc'[s] = "ok" =>
            completed[s] = pushed[s]]_vars
  BY <1>1
<1> QED BY <1>2, Invariance, PTL DEF Spec, DoneMeansMoved

\* With a backend that reads once for each request, locks are neither lost nor taken
\* twice, whatever calls time out.
THEOREM LocksAreConservedHolds == Spec => []LocksAreConserved
<1>1. ASSUME IInv, backend # "linux", NEW s \in Sides
      PROVE  ~(HostHolds(s) /\ ChannelHolds(s)) /\ LockIsConserved(s)
  <2>1. LockOf(s)
    BY <1>1 DEF IInv, LockInv
  <2>2. Gen \in Gens /\ lock[s] \in LockSet
    BY <1>1, TypeParts DEF IInv, LockTypes
  <2>3. ~HostHolds(s) /\ ~ChannelHolds(s) /\ pc[s] # "start" => \E t \in Uses : Says(lock[s], t)
    BY <2>1, UsesOf DEF LockOf, HostsTurn, ChannelsTurn
  <2>4. CASE Gen = "AIE"
    BY <2>1, <2>3, <2>4 DEF LockOf, LockIsConserved, Says, Uses, HostHolds
  <2>5. CASE Gen # "AIE"
    <3>1. lock[s] \in [Uses -> 0..63]
      BY <2>2, <2>5 DEF LockSet, AieMlLock, MaxLockVal
    <3>2. pc[s] = "start" => ~HostHolds(s) /\ ~ChannelHolds(s)
      <4>1. TypeInv /\ PendingBd(s) = pushed[s] - completed[s]
        BY <1>1 DEF IInv, PendingInv, PendingIsExact
      <4>2. pc[s] = "start" => PendingBd(s) <= 0
        BY <2>1, <4>1, TypeParts DEF LockOf, HostTypes, ChannelTypes
      <4> QED BY <4>1, <4>2, Channels, TypeParts DEF PendingBd, ChannelTypes, HostHolds, ChannelHolds
    <3>3. LockIsConserved(s) <=> lock[s]["write"] + lock[s]["read"] + (IF HostHolds(s) THEN 1 ELSE 0)
              + (IF ChannelHolds(s) THEN 1 ELSE 0) = (IF pc[s] = "start" THEN 0 ELSE 1)
      BY <2>5 DEF LockIsConserved
    <3>4. \A t \in Uses \cup {"none"} : Says(lock[s], t) =>
              lock[s]["write"] + lock[s]["read"] = IF t = "none" THEN 0 ELSE 1
      BY <2>5, <3>1 DEF Says, Uses
    <3> QED BY <2>1, <2>3, <2>5, <3>1, <3>2, <3>3, <3>4, UsesOf DEF LockOf, Uses
  <2> QED BY <2>1, <2>4, <2>5 DEF LockOf
<1>2. IInv => LocksAreConserved
  BY <1>1 DEF LocksAreConserved, BufferExclusive
<1> QED BY <1>2, Invariance, PTL

\* The items arrive in order, each once, for every number of items, every size of the
\* queue and all time outs.
THEOREM ItemsInOrderHolds == Spec => []ItemsInOrder
<1>1. ASSUME IInv, backend # "linux" PROVE received = [i \in 1..Len(received) |-> i]
  <2>1. Got \in Nat
    BY <1>1, TypeParts DEF IInv, HostTypes, Got, Sides
  <2>2. received = [i \in 1..Got |-> i]
    BY <1>1 DEF IInv, ReceivedInv
  <2> HIDE DEF Got
  <2>3. Len(received) = Got
    BY <2>1, <2>2
  <2> QED BY <2>2, <2>3
<1>2. IInv => ItemsInOrder
  BY <1>1 DEF ItemsInOrder
<1> QED BY <1>2, Invariance, PTL
=============================================================================
