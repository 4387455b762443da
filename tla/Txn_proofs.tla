----------------------------- MODULE Txn_proofs -----------------------------
(***************************************************************************)
(* For any number of threads, transactions and operations: the operations  *)
(* of a thread run in program order, none that was accepted is lost, none  *)
(* runs twice on a device that refuses nothing, and nobody disturbs a      *)
(* flush in progress.                                                      *)
(*                                                                         *)
(* The argument: a thread's commands wait in the first instance of the     *)
(* list that bears its id, in increasing order (ListInv, EmptyInv); what   *)
(* it issued has run, was thrown away or waits there (ThreadInv); and a    *)
(* flush of it is a flush of that instance, in which everything before     *)
(* the next command has run (FlushInv, ThreadInv).                         *)
(***************************************************************************)
EXTENDS Txn, Integers, SequenceTheorems, WellFoundedInduction, TLAPS

Listed == { TxnList[k] : k \in DOMAIN TxnList }

(* Thread t flushes an instance of its own, not an exported one.           *)
Own(t) == flush[t] # NoFlush /\ ~insts[flush[t].inst].exported

(* The commands of t that wait.                                            *)
Waiting(t) == IF HasTxn(t) THEN insts[GetTxnInst(t)].cmds ELSE <<>>

Types ==
    /\ TxnList \in Seq(TxnInsts)
    /\ insts \in [TxnInsts -> Insts \cup {NotAllocated}]
    /\ flush \in [Threads -> [inst : TxnInsts, k : Nat, op : AllOps \cup {"submit"}]
                             \cup {NoFlush}]
    /\ issued \in [Threads -> 0 .. MaxOps]
    /\ done \in [Threads -> [OpNums -> 0 .. 2]]
    /\ dropped \in [Threads -> SUBSET OpNums]

ListInv ==
    /\ \A k \in DOMAIN TxnList : Allocated(TxnList[k]) /\ ~insts[TxnList[k]].exported
    /\ \A j, k \in DOMAIN TxnList : TxnList[j] = TxnList[k] => j = k

FlushOf(t) ==
    flush[t] # NoFlush =>
        /\ Allocated(flush[t].inst)
        /\ flush[t].k \in 1 .. Len(insts[flush[t].inst].cmds) + 1
        /\ Own(t) => HasTxn(t) /\ flush[t].inst = GetTxnInst(t)
        /\ flush[t].op # "submit" => Own(t) /\ issued[t] < MaxOps

FlushInv == \A t \in Threads : FlushOf(t)

EmptyInv ==
    \A k \in DOMAIN TxnList :
        insts[TxnList[k]].cmds # <<>> => TxnList[k] = GetTxnInst(insts[TxnList[k]].tid)

SInv == Types /\ ListInv /\ FlushInv /\ EmptyInv

ThreadInv(t) ==
    /\ \A k \in DOMAIN Waiting(t) : Waiting(t)[k].n <= issued[t]
    /\ \A j, k \in DOMAIN Waiting(t) : j < k => Waiting(t)[j].n < Waiting(t)[k].n
    /\ \A n \in 1 .. issued[t] : HasRun(t, n) \/ n \in dropped[t] \/ n \in NumsOf(Waiting(t))
    /\ \A n \in OpNums : HasRun(t, n) =>
           \A m \in 1 .. n - 1 : HasRun(t, m) \/ m \in dropped[t]
    /\ Own(t) => \A j \in 1 .. flush[t].k - 1 : HasRun(t, Waiting(t)[j].n)

-----------------------------------------------------------------------------
(* The first node with an id.                                              *)

IsFirst(L, I, t, k) ==
    /\ k \in DOMAIN L /\ I[L[k]].tid = t
    /\ \A j \in 1 .. k - 1 : I[L[j]].tid # t

LEMMA FirstExists ==
    ASSUME NEW S, NEW L \in Seq(S), NEW I, NEW t, NEW m \in DOMAIN L, I[L[m]].tid = t
    PROVE  \E k \in DOMAIN L : IsFirst(L, I, t, k)
<1> DEFINE Ks == { k \in DOMAIN L : I[L[k]].tid = t }
<1>1. DOMAIN L = 1 .. Len(L) /\ Len(L) \in Nat
  BY LenProperties
<1>2. Ks \in SUBSET Nat /\ Ks # {}
  BY <1>1
<1>3. PICK k \in Ks : \A j \in Ks : ~(j < k)
  <2> HIDE DEF Ks
  <2>1. PICK k \in Ks : \A j \in Ks : ~(<<j, k>> \in OpToRel(<, Nat))
    BY <1>2, NatLessThanWellFounded, WFMin
  <2>2. \A j \in Ks : ~(j < k)
    BY <1>2, <2>1 DEF OpToRel
  <2> QED
    BY <2>2
<1>4. \A j \in 1 .. k - 1 : j \in DOMAIN L /\ j < k
  BY <1>1
<1> QED
  BY <1>3, <1>4 DEF IsFirst

LEMMA FirstIsUnique ==
    ASSUME NEW S, NEW L \in Seq(S), NEW I, NEW t, NEW j, NEW k,
           IsFirst(L, I, t, j), IsFirst(L, I, t, k)
    PROVE  j = k
<1>1. j \in Nat \ {0} /\ k \in Nat \ {0}
  BY LenProperties DEF IsFirst
<1> QED
  BY <1>1 DEF IsFirst

LEMMA NodeIsFirst ==
    ASSUME NEW S, TxnList \in Seq(S), NEW t, HasTxn(t)
    PROVE  IsFirst(TxnList, insts, t, NodeOf(t))
<1>1. PICK m \in DOMAIN TxnList : insts[TxnList[m]].tid = t
  BY DEF HasTxn
<1>2. \E k \in DOMAIN TxnList : IsFirst(TxnList, insts, t, k)
  BY <1>1, FirstExists
<1> QED
  BY <1>2 DEF NodeOf, IsFirst

LEMMA NodeIsFirstNext ==
    ASSUME NEW S, TxnList' \in Seq(S), NEW t, HasTxn(t)'
    PROVE  IsFirst(TxnList', insts', t, NodeOf(t)')
<1>1. PICK m \in DOMAIN TxnList' : insts'[TxnList'[m]].tid = t
  BY DEF HasTxn
<1>2. \E k \in DOMAIN TxnList' : IsFirst(TxnList', insts', t, k)
  BY <1>1, FirstExists
<1> QED
  BY <1>2 DEF NodeOf, IsFirst

LEMMA FirstIsNode ==
    ASSUME NEW S, TxnList \in Seq(S), NEW t, NEW k, IsFirst(TxnList, insts, t, k)
    PROVE  HasTxn(t) /\ NodeOf(t) = k
<1>1. HasTxn(t)
  BY DEF HasTxn, IsFirst
<1> QED
  BY <1>1, NodeIsFirst, FirstIsUnique

LEMMA FirstIsNodeNext ==
    ASSUME NEW S, TxnList' \in Seq(S), NEW t, NEW k, IsFirst(TxnList', insts', t, k)
    PROVE  HasTxn(t)' /\ NodeOf(t)' = k
<1>1. HasTxn(t)'
  BY DEF HasTxn, IsFirst
<1> QED
  BY <1>1, NodeIsFirstNext, FirstIsUnique

(* The instance a thread uses.                                             *)
LEMMA TxnInstOf ==
    ASSUME NEW t \in Threads, Types, ListInv, HasTxn(t)
    PROVE  /\ NodeOf(t) \in 1 .. Len(TxnList)
           /\ GetTxnInst(t) \in TxnInsts /\ insts[GetTxnInst(t)] \in Insts
           /\ insts[GetTxnInst(t)].tid = t /\ ~insts[GetTxnInst(t)].exported
           /\ GetTxnInst(t) = TxnList[NodeOf(t)]
<1>1. IsFirst(TxnList, insts, t, NodeOf(t))
  BY NodeIsFirst DEF Types
<1>2. NodeOf(t) \in 1 .. Len(TxnList) /\ TxnList[NodeOf(t)] \in TxnInsts
  BY <1>1 DEF IsFirst, Types
<1> QED
  BY <1>1, <1>2 DEF IsFirst, GetTxnInst, ListInv, Allocated, Types

-----------------------------------------------------------------------------
(* What the steps do to the list.                                          *)

LEMMA SameNode ==
    ASSUME Types, TxnList' = TxnList,
           \A k \in DOMAIN TxnList : insts'[TxnList[k]].tid = insts[TxnList[k]].tid
    PROVE  \A t \in Threads :
               /\ HasTxn(t)' <=> HasTxn(t)
               /\ HasTxn(t) => GetTxnInst(t)' = GetTxnInst(t)
<1> TAKE t \in Threads
<1>1. HasTxn(t)' <=> HasTxn(t)
  BY DEF HasTxn
<1>2. ASSUME HasTxn(t) PROVE NodeOf(t)' = NodeOf(t)
  <2>1. IsFirst(TxnList, insts, t, NodeOf(t))
    BY <1>2, NodeIsFirst DEF Types
  <2>2. \A j \in 1 .. NodeOf(t) - 1 : j \in DOMAIN TxnList
    BY <2>1 DEF IsFirst, Types
  <2>3. IsFirst(TxnList', insts', t, NodeOf(t))
    BY <2>1, <2>2 DEF IsFirst
  <2> QED
    BY <2>3, FirstIsNodeNext DEF Types
<1> QED
  BY <1>1, <1>2 DEF GetTxnInst

LEMMA Appended ==
    ASSUME Types, NEW i \in TxnInsts, TxnList' = Append(TxnList, i),
           \A k \in DOMAIN TxnList : insts'[TxnList[k]] = insts[TxnList[k]]
    PROVE  /\ TxnList' \in Seq(TxnInsts)
           /\ Len(TxnList') = Len(TxnList) + 1 /\ TxnList'[Len(TxnList) + 1] = i
           /\ \A k \in 1 .. Len(TxnList) : TxnList'[k] = TxnList[k]
           /\ \A t \in Threads :
                 /\ HasTxn(t) => HasTxn(t)' /\ GetTxnInst(t)' = GetTxnInst(t)
                 /\ ~HasTxn(t) => /\ HasTxn(t)' <=> insts'[i].tid = t
                                  /\ HasTxn(t)' => GetTxnInst(t)' = i
<1>1. /\ TxnList' \in Seq(TxnInsts) /\ DOMAIN TxnList = 1 .. Len(TxnList) /\ Len(TxnList) \in Nat
      /\ Len(TxnList') = Len(TxnList) + 1 /\ TxnList'[Len(TxnList) + 1] = i
      /\ \A k \in 1 .. Len(TxnList) : TxnList'[k] = TxnList[k]
      /\ DOMAIN TxnList' = 1 .. Len(TxnList) + 1
  BY AppendProperties DEF Types
<1>2. ASSUME NEW t \in Threads, HasTxn(t) PROVE HasTxn(t)' /\ GetTxnInst(t)' = GetTxnInst(t)
  <2>1. IsFirst(TxnList, insts, t, NodeOf(t))
    BY <1>2, NodeIsFirst DEF Types
  <2>2. \A j \in 1 .. NodeOf(t) - 1 : j \in 1 .. Len(TxnList)
    BY <1>1, <2>1 DEF IsFirst
  <2>3. IsFirst(TxnList', insts', t, NodeOf(t))
    BY <1>1, <2>1, <2>2 DEF IsFirst
  <2>4. HasTxn(t)' /\ NodeOf(t)' = NodeOf(t)
    BY <1>1, <2>3, FirstIsNodeNext
  <2> QED
    BY <1>1, <2>1, <2>4 DEF GetTxnInst, IsFirst
<1>3. ASSUME NEW t \in Threads, ~HasTxn(t)
      PROVE  /\ HasTxn(t)' <=> insts'[i].tid = t
             /\ HasTxn(t)' => GetTxnInst(t)' = i
  <2>1. \A k \in 1 .. Len(TxnList) : insts'[TxnList'[k]].tid # t
    BY <1>1, <1>3 DEF HasTxn
  <2>2. HasTxn(t)' => insts'[i].tid = t
    BY <1>1, <2>1 DEF HasTxn
  <2>3. ASSUME insts'[i].tid = t PROVE HasTxn(t)' /\ NodeOf(t)' = Len(TxnList) + 1
    <3>1. IsFirst(TxnList', insts', t, Len(TxnList) + 1)
      BY <1>1, <2>1, <2>3 DEF IsFirst
    <3> QED
      BY <3>1, <1>1, FirstIsNodeNext
  <2> QED
    BY <1>1, <2>2, <2>3 DEF GetTxnInst
<1> QED
  BY <1>1, <1>2, <1>3

LEMMA Removed ==
    ASSUME Types, ListInv, NEW u \in Threads, HasTxn(u), TxnList' = Remove(u),
           \A k \in DOMAIN TxnList : k # NodeOf(u) => insts'[TxnList[k]] = insts[TxnList[k]]
    PROVE  /\ TxnList' \in Seq(TxnInsts)
           /\ Len(TxnList') = Len(TxnList) - 1
           /\ \A k \in 1 .. Len(TxnList) - 1 :
                 TxnList'[k] = TxnList[IF k < NodeOf(u) THEN k ELSE k + 1]
           /\ \A t \in Threads \ {u} :
                 /\ HasTxn(t)' <=> HasTxn(t)
                 /\ HasTxn(t) => GetTxnInst(t)' = GetTxnInst(t)
<1> DEFINE p == NodeOf(u)
           n == Len(TxnList)
<1>1. n \in Nat /\ p \in 1 .. n /\ DOMAIN TxnList = 1 .. n
  <2>1. p \in 1 .. n
    BY TxnInstOf
  <2> QED
    BY <2>1, LenProperties DEF Types
<1>2. /\ TxnList' \in Seq(TxnInsts) /\ Len(TxnList') = n - 1
      /\ \A k \in 1 .. n - 1 : TxnList'[k] = TxnList[IF k < p THEN k ELSE k + 1]
  <2> DEFINE a == SubSeq(TxnList, 1, p - 1)
             b == SubSeq(TxnList, p + 1, n)
  <2>1. /\ a \in Seq(TxnInsts) /\ Len(a) = p - 1
        /\ \A k \in 1 .. p - 1 : a[k] = TxnList[k]
    <3>1. \A k \in 1 .. p - 1 : TxnList[k] \in TxnInsts
      BY <1>1 DEF Types
    <3>2. /\ a \in Seq(TxnInsts)
          /\ Len(a) = IF 1 <= p - 1 THEN (p - 1) - 1 + 1 ELSE 0
          /\ \A k \in 1 .. (p - 1) - 1 + 1 : a[k] = TxnList[1 + k - 1]
      BY <3>1, <1>1, SubSeqProperties
    <3> HIDE DEF a
    <3> QED
      BY <3>2, <1>1
  <2>2. /\ b \in Seq(TxnInsts) /\ Len(b) = n - p
        /\ \A k \in 1 .. n - p : b[k] = TxnList[p + k]
    <3>1. \A k \in p + 1 .. n : TxnList[k] \in TxnInsts
      BY <1>1 DEF Types
    <3>2. /\ b \in Seq(TxnInsts)
          /\ Len(b) = IF p + 1 <= n THEN n - (p + 1) + 1 ELSE 0
          /\ \A k \in 1 .. n - (p + 1) + 1 : b[k] = TxnList[(p + 1) + k - 1]
      BY <3>1, <1>1, SubSeqProperties
    <3> HIDE DEF b, p, n
    <3>3. n - (p + 1) + 1 = n - p /\ \A k \in 1 .. n - p : (p + 1) + k - 1 = p + k
      BY <1>1
    <3>4. \A k \in 1 .. n - p : b[k] = TxnList[p + k]
      BY <3>2, <3>3
    <3> QED
      BY <3>2, <3>3, <3>4, <1>1
  <2>3. TxnList' = a \o b
    BY DEF Remove
  <2> HIDE DEF a, b
  <2>4. /\ TxnList' \in Seq(TxnInsts) /\ Len(TxnList') = Len(a) + Len(b)
        /\ \A k \in 1 .. Len(a) + Len(b) :
              TxnList'[k] = IF k <= Len(a) THEN a[k] ELSE b[k - Len(a)]
    BY <2>1, <2>2, <2>3, ConcatProperties
  <2>5. ASSUME NEW k \in 1 .. n - 1
        PROVE  TxnList'[k] = TxnList[IF k < p THEN k ELSE k + 1]
    <3>1. CASE k < p
      BY <1>1, <2>1, <2>2, <2>4, <3>1
    <3>2. CASE ~(k < p)
      <4> HIDE DEF p, n
      <4>1. /\ k - (p - 1) \in 1 .. n - p /\ p + (k - (p - 1)) = k + 1
            /\ k \in 1 .. (p - 1) + (n - p) /\ ~(k <= p - 1)
        BY <1>1, <3>2
      <4>2. TxnList'[k] = b[k - (p - 1)]
        BY <2>1, <2>2, <2>4, <4>1
      <4>3. b[k - (p - 1)] = TxnList[k + 1]
        BY <2>2, <4>1
      <4> QED
        BY <3>2, <4>2, <4>3
    <3> QED
      BY <3>1, <3>2
  <2> QED
    BY <1>1, <2>1, <2>2, <2>4, <2>5
<1> HIDE DEF p, n
<1>3. DOMAIN TxnList' = 1 .. n - 1
  BY <1>1, <1>2
<1>4. insts[TxnList[p]].tid = u
  BY TxnInstOf DEF p
<1>5. ASSUME NEW t \in Threads \ {u}, HasTxn(t)
      PROVE  HasTxn(t)' /\ GetTxnInst(t)' = GetTxnInst(t)
  <2> DEFINE q == NodeOf(t)
             r == IF q < p THEN q ELSE q - 1
  <2>1. IsFirst(TxnList, insts, t, q)
    BY <1>5, NodeIsFirst DEF Types
  <2>2. q \in 1 .. n /\ q # p
    BY <1>1, <1>4, <2>1 DEF IsFirst
  <2> HIDE DEF q
  <2>3. r \in 1 .. n - 1 /\ TxnList'[r] = TxnList[q]
    BY <1>1, <1>2, <2>2
  <2>4. insts'[TxnList[q]].tid = t
    BY <1>1, <2>1, <2>2 DEF IsFirst, p
  <2>5. ASSUME NEW j \in 1 .. r - 1 PROVE insts'[TxnList'[j]].tid # t
    <3>1. CASE j < p
      <4>1. j \in 1 .. n - 1 /\ j \in 1 .. q - 1 /\ j # p /\ TxnList'[j] = TxnList[j]
        BY <1>1, <1>2, <2>2, <2>3, <3>1
      <4>2. insts'[TxnList[j]] = insts[TxnList[j]]
        BY <1>1, <4>1 DEF p
      <4> QED
        BY <2>1, <4>1, <4>2 DEF IsFirst
    <3>2. CASE ~(j < p)
      <4>1. j \in 1 .. n - 1 /\ j + 1 \in 1 .. n /\ j + 1 \in 1 .. q - 1 /\ j + 1 # p
            /\ TxnList'[j] = TxnList[j + 1]
        BY <1>1, <1>2, <2>2, <2>3, <3>2
      <4>2. insts'[TxnList[j + 1]] = insts[TxnList[j + 1]]
        BY <1>1, <4>1 DEF p
      <4> QED
        BY <2>1, <4>1, <4>2 DEF IsFirst
    <3> QED
      BY <3>1, <3>2
  <2>6. IsFirst(TxnList', insts', t, r)
    BY <1>3, <2>3, <2>4, <2>5 DEF IsFirst
  <2>7. HasTxn(t)' /\ NodeOf(t)' = r
    BY <1>2, <2>6, FirstIsNodeNext
  <2> QED
    BY <2>3, <2>7 DEF GetTxnInst, q
<1>6. ASSUME NEW t \in Threads \ {u}, HasTxn(t)' PROVE HasTxn(t)
  <2>1. PICK k \in 1 .. n - 1 : insts'[TxnList'[k]].tid = t
    BY <1>3, <1>6 DEF HasTxn
  <2>2. PICK j \in 1 .. n : j # p /\ TxnList'[k] = TxnList[j]
    <3>1. CASE k < p
      BY <1>1, <1>2, <3>1
    <3>2. CASE ~(k < p)
      BY <1>1, <1>2, <3>2
    <3> QED
      BY <3>1, <3>2
  <2>3. insts'[TxnList[j]] = insts[TxnList[j]]
    BY <1>1, <2>2 DEF p
  <2> QED
    BY <1>1, <2>1, <2>2, <2>3 DEF HasTxn
<1> QED
  BY <1>2, <1>5, <1>6 DEF p, n

-----------------------------------------------------------------------------
(* What a step means to a thread: nothing, or one of the effects below.    *)

Calm(t) ==
    /\ Waiting(t)' = Waiting(t)
    /\ issued'[t] = issued[t] /\ done'[t] = done[t] /\ dropped'[t] = dropped[t]

Undisturbed(t) ==
    /\ Calm(t) /\ flush'[t] = flush[t]
    /\ flush[t] # NoFlush => insts'[flush[t].inst] = insts[flush[t].inst]
    /\ HasTxn(t) => HasTxn(t)' /\ GetTxnInst(t)' = GetTxnInst(t)

(* All commands that wait were executed by the flush in progress.          *)
Drained(t) == \A k \in DOMAIN Waiting(t) : Own(t) /\ k < flush[t].k

RunOf(t, n) == [done[t] EXCEPT ![n] = IF @ = 2 THEN 2 ELSE @ + 1]

Quiet(t) == Calm(t) /\ ~Own(t) /\ (Own(t)' => flush'[t].k = 1)
Fails(t) == Calm(t) /\ ~Own(t)' /\ CanFail
Runs(t) ==
    /\ Drained(t) /\ Waiting(t)' = <<>> /\ ~Own(t)'
    /\ issued[t] + 1 \in OpNums /\ issued'[t] = issued[t] + 1
    /\ done'[t] = RunOf(t, issued[t] + 1) /\ dropped'[t] = dropped[t]
Drains(t) ==
    /\ Drained(t) /\ Waiting(t)' = <<>> /\ ~Own(t)'
    /\ issued'[t] = issued[t] /\ done'[t] = done[t] /\ dropped'[t] = dropped[t]
Appends(t) ==
    /\ ~Own(t) /\ ~Own(t)'
    /\ issued[t] + 1 \in OpNums /\ issued'[t] = issued[t] + 1
    /\ \E c \in Cmds : c.n = issued[t] + 1 /\ Waiting(t)' = Append(Waiting(t), c)
    /\ done'[t] = done[t] /\ dropped'[t] = dropped[t]
Executes(t) ==
    /\ Own(t) /\ Own(t)' /\ flush[t].k \in DOMAIN Waiting(t)
    /\ flush'[t].k = flush[t].k + 1 /\ Waiting(t)' = Waiting(t)
    /\ done'[t] = RunOf(t, Waiting(t)[flush[t].k].n)
    /\ issued'[t] = issued[t] /\ dropped'[t] = dropped[t]
Drops(t) ==
    /\ ~Own(t)' /\ Waiting(t)' = <<>>
    /\ dropped[t] \cup NumsOf(Waiting(t)) \subseteq dropped'[t]
    /\ issued'[t] = issued[t] /\ done'[t] = done[t]

Effect(t) ==
    \/ Undisturbed(t) \/ Quiet(t) \/ Fails(t) \/ Runs(t) \/ Drains(t)
    \/ Appends(t) \/ Executes(t) \/ Drops(t)

LEMMA WaitingType ==
    ASSUME Types, ListInv, NEW t \in Threads
    PROVE  /\ Waiting(t) \in Seq(Cmds)
           /\ Len(Waiting(t)) \in Nat /\ DOMAIN Waiting(t) = 1 .. Len(Waiting(t))
           /\ \A k \in DOMAIN Waiting(t) : Waiting(t)[k].n \in OpNums
<1>1. Waiting(t) \in Seq(Cmds)
  BY TxnInstOf DEF Waiting, Insts
<1>2. \A k \in 1 .. Len(Waiting(t)) : Waiting(t)[k] \in Cmds
  BY <1>1
<1> QED
  BY <1>1, <1>2 DEF Cmds

(* Running an operation counts it, and forgets nothing that ran.           *)
LEMMA RunCounts ==
    ASSUME Types, Types', NEW t \in Threads, NEW n \in OpNums, done'[t] = RunOf(t, n)
    PROVE  /\ done'[t][n] > 0
           /\ \A m \in OpNums : HasRun(t, m) => done'[t][m] > 0
           /\ \A m \in OpNums \ {n} : done'[t][m] = done[t][m]
           /\ done[t][n] = 0 => done'[t][n] = 1
<1>1. done[t] \in [OpNums -> 0 .. 2]
  BY DEF Types
<1> QED
  BY <1>1 DEF RunOf, HasRun

LEMMA OwnStays ==
    ASSUME NEW t, Undisturbed(t)
    PROVE  /\ Own(t)' <=> Own(t)
           /\ flush'[t] = flush[t]
BY DEF Undisturbed, Own

(* What was drained has run.                                               *)
LEMMA DrainedHasRun ==
    ASSUME SInv, NEW t \in Threads, ThreadInv(t), Drained(t)
    PROVE  \A m \in 1 .. issued[t] : HasRun(t, m) \/ m \in dropped[t]
<1>1. ASSUME NEW k \in DOMAIN Waiting(t) PROVE HasRun(t, Waiting(t)[k].n)
  <2>1. Own(t) /\ k < flush[t].k /\ k \in Nat \ {0}
    BY <1>1, WaitingType DEF Drained, SInv
  <2>2. flush[t].k \in Nat
    BY <2>1 DEF Own, SInv, Types
  <2>3. k \in 1 .. flush[t].k - 1
    BY <2>1, <2>2
  <2> QED
    BY <2>1, <2>3 DEF ThreadInv
<1>2. \A m \in NumsOf(Waiting(t)) : HasRun(t, m)
  BY <1>1 DEF NumsOf
<1> QED
  BY <1>2 DEF ThreadInv

LEMMA EffectKeepsThread ==
    ASSUME SInv, SInv', NEW t \in Threads, ThreadInv(t), Effect(t)
    PROVE  ThreadInv(t)'
<1> DEFINE W == Waiting(t)
<1>1. /\ W \in Seq(Cmds) /\ Len(W) \in Nat /\ DOMAIN W = 1 .. Len(W)
      /\ \A k \in DOMAIN W : W[k].n \in OpNums
  BY WaitingType DEF SInv
<1>2. issued[t] \in 0 .. MaxOps /\ issued'[t] \in 0 .. MaxOps /\ MaxOps \in Nat
  BY MaxOpsAssumption DEF SInv, Types
<1>3. CASE Undisturbed(t)
  <2>1. Calm(t) /\ (Own(t)' <=> Own(t)) /\ flush'[t] = flush[t]
    BY <1>3, OwnStays DEF Undisturbed
  <2> QED
    BY <2>1 DEF Calm, ThreadInv, HasRun, NumsOf
<1>4. CASE Quiet(t) \/ Fails(t)
  <2>1. Calm(t) /\ (Own(t)' => flush'[t].k = 1)
    BY <1>4 DEF Quiet, Fails
  <2> QED
    BY <2>1 DEF Calm, ThreadInv, HasRun, NumsOf
<1>5. CASE Runs(t)
  <2> DEFINE n == issued[t] + 1
  <2>1. n \in OpNums /\ issued'[t] = n /\ done'[t] = RunOf(t, n) /\ dropped'[t] = dropped[t]
        /\ Waiting(t)' = <<>> /\ ~Own(t)'
    BY <1>5 DEF Runs
  <2>2. /\ done'[t][n] > 0
        /\ \A m \in OpNums : HasRun(t, m) => done'[t][m] > 0
        /\ \A m \in OpNums \ {n} : done'[t][m] = done[t][m]
    BY <2>1, RunCounts DEF SInv
  <2>3. \A m \in 1 .. issued[t] : HasRun(t, m) \/ m \in dropped[t]
    BY <1>5, DrainedHasRun DEF Runs
  <2>4. ASSUME NEW m \in OpNums, done'[t][m] > 0, NEW j \in 1 .. m - 1
        PROVE  done'[t][j] > 0 \/ j \in dropped'[t]
    <3>1. CASE m = n
      BY <1>2, <2>1, <2>2, <2>3, <3>1 DEF OpNums
    <3>2. CASE m # n
      <4>1. HasRun(t, m) /\ j \in OpNums
        BY <1>2, <2>2, <2>4, <3>2 DEF HasRun, OpNums
      <4> QED
        BY <2>1, <2>2, <4>1 DEF ThreadInv
    <3> QED
      BY <3>1, <3>2
  <2>5. \A m \in 1 .. issued'[t] : done'[t][m] > 0 \/ m \in dropped'[t]
    BY <1>2, <2>1, <2>2, <2>3 DEF OpNums
  <2> QED
    BY <2>1, <2>4, <2>5 DEF ThreadInv, HasRun
<1>6. CASE Drains(t)
  <2>1. \A m \in 1 .. issued[t] : HasRun(t, m) \/ m \in dropped[t]
    BY <1>6, DrainedHasRun DEF Drains
  <2> QED
    BY <1>6, <2>1 DEF Drains, ThreadInv, HasRun
<1>7. CASE Appends(t)
  <2> DEFINE n == issued[t] + 1
  <2>1. n \in OpNums /\ issued'[t] = n /\ done'[t] = done[t] /\ dropped'[t] = dropped[t] /\ ~Own(t)'
    BY <1>7 DEF Appends
  <2>2. PICK c \in Cmds : c.n = n /\ Waiting(t)' = Append(W, c)
    BY <1>7 DEF Appends
  <2> HIDE DEF W
  <2>3. /\ Len(Waiting(t)') = Len(W) + 1 /\ DOMAIN Waiting(t)' = 1 .. Len(W) + 1
        /\ \A k \in 1 .. Len(W) : Waiting(t)'[k] = W[k]
        /\ Waiting(t)'[Len(W) + 1].n = n
    BY <1>1, <2>2, AppendProperties
  <2>4. /\ \A k \in 1 .. Len(W) : W[k].n <= issued[t] /\ W[k].n \in OpNums
        /\ \A j, k \in 1 .. Len(W) : j < k => W[j].n < W[k].n
        /\ \A m \in 1 .. issued[t] : HasRun(t, m) \/ m \in dropped[t] \/ m \in NumsOf(W)
    BY <1>1 DEF ThreadInv, W
  <2>5. \A k \in DOMAIN Waiting(t)' : Waiting(t)'[k].n <= issued'[t]
    BY <1>1, <1>2, <2>1, <2>3, <2>4 DEF OpNums
  <2>6. \A j, k \in DOMAIN Waiting(t)' : j < k => Waiting(t)'[j].n < Waiting(t)'[k].n
    BY <1>1, <1>2, <2>1, <2>3, <2>4 DEF OpNums
  <2>7. \A m \in 1 .. issued'[t] : done'[t][m] > 0 \/ m \in dropped'[t] \/ m \in NumsOf(Waiting(t))'
    <3>1. NumsOf(W) \subseteq NumsOf(Waiting(t))' /\ n \in NumsOf(Waiting(t))'
      BY <1>1, <2>3 DEF NumsOf
    <3> QED
      BY <3>1, <1>2, <2>1, <2>4 DEF HasRun
  <2> QED
    BY <2>1, <2>5, <2>6, <2>7 DEF ThreadInv, HasRun
<1>8. CASE Executes(t)
  <2> DEFINE k0 == flush[t].k
             n == W[k0].n
  <2>1. /\ Own(t) /\ k0 \in DOMAIN W /\ flush'[t].k = k0 + 1 /\ Waiting(t)' = W
        /\ done'[t] = RunOf(t, n) /\ issued'[t] = issued[t] /\ dropped'[t] = dropped[t]
    BY <1>8 DEF Executes
  <2>2. n \in OpNums
    BY <1>1, <2>1
  <2>3. /\ done'[t][n] > 0
        /\ \A m \in OpNums : HasRun(t, m) => done'[t][m] > 0
        /\ \A m \in OpNums \ {n} : done'[t][m] = done[t][m]
    BY <2>1, <2>2, RunCounts DEF SInv
  <2>4. \A j \in 1 .. k0 - 1 : HasRun(t, W[j].n)
    BY <2>1 DEF ThreadInv
  <2>5. \A m \in 1 .. n - 1 : HasRun(t, m) \/ m \in dropped[t]
    <3> SUFFICES ASSUME NEW m \in 1 .. n - 1, m \in NumsOf(W) PROVE HasRun(t, m)
      <4>1. n <= issued[t]
        BY <2>1 DEF ThreadInv
      <4>2. \A m \in 1 .. n - 1 : m \in 1 .. issued[t]
        BY <1>2, <2>2, <4>1 DEF OpNums
      <4> QED
        BY <4>2 DEF ThreadInv
    <3>1. PICK j \in DOMAIN W : W[j].n = m
      BY DEF NumsOf
    <3>2. \A i, k \in DOMAIN W : i < k => W[i].n < W[k].n
      BY DEF ThreadInv
    <3> HIDE DEF W, k0
    <3>3. j < k0
      <4>1. ~(k0 < j) /\ j # k0
        BY <1>1, <2>1, <2>2, <3>1, <3>2 DEF OpNums, n
      <4> QED
        BY <1>1, <2>1, <4>1
    <3> QED
      BY <1>1, <2>1, <2>4, <3>1, <3>3
  <2>6. ASSUME NEW m \in OpNums, done'[t][m] > 0, NEW j \in 1 .. m - 1
        PROVE  done'[t][j] > 0 \/ j \in dropped'[t]
    <3>1. j \in OpNums
      BY <2>6, MaxOpsAssumption DEF OpNums
    <3>2. HasRun(t, j) \/ j \in dropped[t]
      BY <2>3, <2>5, <2>6 DEF ThreadInv, HasRun
    <3> QED
      BY <2>1, <2>3, <3>1, <3>2
  <2>7. \A m \in 1 .. issued'[t] : done'[t][m] > 0 \/ m \in dropped'[t] \/ m \in NumsOf(Waiting(t))'
    <3>1. \A m \in 1 .. issued[t] : m \in OpNums
      BY <1>2 DEF OpNums
    <3> QED
      BY <2>1, <2>3, <3>1 DEF ThreadInv, NumsOf
  <2>8. \A j \in 1 .. flush'[t].k - 1 : done'[t][W[j].n] > 0
    <3>1. ASSUME NEW j \in 1 .. k0 PROVE done'[t][W[j].n] > 0
      <4>1. j \in DOMAIN W /\ W[j].n \in OpNums
        BY <1>1, <2>1
      <4>2. j = k0 \/ j \in 1 .. k0 - 1
        BY <1>1, <2>1
      <4> QED
        BY <2>3, <2>4, <4>1, <4>2
    <3> QED
      BY <1>1, <2>1, <3>1
  <2>9. /\ \A k \in DOMAIN W : W[k].n <= issued[t]
        /\ \A i, k \in DOMAIN W : i < k => W[i].n < W[k].n
    BY DEF ThreadInv
  <2> QED
    BY <2>1, <2>6, <2>7, <2>8, <2>9 DEF ThreadInv, HasRun
<1>9. CASE Drops(t)
  <2>1. \A m \in 1 .. issued[t] : HasRun(t, m) \/ m \in dropped'[t]
    BY <1>9 DEF Drops, ThreadInv
  <2>2. dropped[t] \subseteq dropped'[t]
    BY <1>9 DEF Drops
  <2> QED
    BY <1>9, <2>1, <2>2 DEF Drops, ThreadInv, HasRun
<1> QED
  BY <1>3, <1>4, <1>5, <1>6, <1>7, <1>8, <1>9 DEF Effect

(* On a device that refuses nothing, what waits and is not behind the next *)
(* command of a flush has not run.                                         *)
OnceOf(t) ==
    /\ \A n \in OpNums : done[t][n] <= 1 /\ (done[t][n] > 0 => n <= issued[t])
    /\ \A k \in DOMAIN Waiting(t) :
           (Own(t) => flush[t].k <= k) => done[t][Waiting(t)[k].n] = 0

LEMMA EffectKeepsOnce ==
    ASSUME ~CanFail, SInv, SInv', NEW t \in Threads, ThreadInv(t), OnceOf(t), Effect(t)
    PROVE  OnceOf(t)'
<1> DEFINE W == Waiting(t)
<1>1. /\ W \in Seq(Cmds) /\ Len(W) \in Nat /\ DOMAIN W = 1 .. Len(W)
      /\ \A k \in DOMAIN W : W[k].n \in OpNums
  BY WaitingType DEF SInv
<1>2. issued[t] \in 0 .. MaxOps /\ MaxOps \in Nat /\ done[t] \in [OpNums -> 0 .. 2]
  BY MaxOpsAssumption DEF SInv, Types
<1>3. CASE Undisturbed(t) \/ Quiet(t)
  <2>1. /\ Waiting(t)' = W /\ issued'[t] = issued[t] /\ done'[t] = done[t]
        /\ \/ (Own(t)' <=> Own(t)) /\ flush'[t] = flush[t]
           \/ ~Own(t)
    BY <1>3, OwnStays DEF Undisturbed, Quiet, Calm
  <2> QED
    BY <2>1 DEF OnceOf
<1>4. CASE Runs(t)
  <2>1. PICK n \in OpNums : n = issued[t] + 1
    BY <1>4 DEF Runs
  <2>2. /\ issued'[t] = n /\ done'[t] = RunOf(t, n) /\ Waiting(t)' = <<>>
    BY <1>4, <2>1 DEF Runs
  <2>3. done[t][n] = 0
    BY <1>2, <2>1 DEF OnceOf, OpNums
  <2>4. done'[t][n] = 1 /\ \A m \in OpNums \ {n} : done'[t][m] = done[t][m]
    BY <2>2, <2>3, RunCounts DEF SInv
  <2>5. ASSUME NEW m \in OpNums PROVE done'[t][m] <= 1 /\ (done'[t][m] > 0 => m <= issued'[t])
    BY <1>2, <2>1, <2>2, <2>4 DEF OnceOf, OpNums
  <2> QED
    BY <2>2, <2>5 DEF OnceOf
<1>5. CASE Drains(t) \/ Drops(t)
  <2>1. Waiting(t)' = <<>> /\ issued'[t] = issued[t] /\ done'[t] = done[t]
    BY <1>5 DEF Drains, Drops
  <2> QED
    BY <2>1 DEF OnceOf
<1>6. CASE Appends(t)
  <2>1. PICK n \in OpNums : n = issued[t] + 1
    BY <1>6 DEF Appends
  <2>2. PICK c \in Cmds : c.n = n /\ Waiting(t)' = Append(W, c)
    BY <1>6, <2>1 DEF Appends
  <2>3. issued'[t] = n /\ done'[t] = done[t] /\ ~Own(t) /\ ~Own(t)'
    BY <1>6, <2>1 DEF Appends
  <2>4. done[t][n] = 0
    BY <1>2, <2>1 DEF OnceOf, OpNums
  <2>5. \A k \in DOMAIN W : done[t][W[k].n] = 0
    BY <2>3 DEF OnceOf
  <2> HIDE DEF W
  <2>6. \A k \in DOMAIN Waiting(t)' : done'[t][Waiting(t)'[k].n] = 0
    <3>1. /\ DOMAIN Waiting(t)' = 1 .. Len(W) + 1
          /\ \A k \in 1 .. Len(W) : Waiting(t)'[k] = W[k]
          /\ Waiting(t)'[Len(W) + 1].n = n
      BY <1>1, <2>2, AppendProperties
    <3> QED
      BY <3>1, <1>1, <2>3, <2>4, <2>5
  <2>7. \A m \in OpNums : done'[t][m] <= 1 /\ (done'[t][m] > 0 => m <= issued'[t])
    BY <1>2, <2>1, <2>3 DEF OnceOf, OpNums
  <2> QED
    BY <2>6, <2>7 DEF OnceOf
<1>7. CASE Executes(t)
  <2>1. PICK k0 \in DOMAIN W : k0 = flush[t].k
    BY <1>7 DEF Executes
  <2>2. PICK n \in OpNums : n = W[k0].n
    BY <1>1
  <2>3. /\ Own(t) /\ flush'[t].k = k0 + 1 /\ Waiting(t)' = W
        /\ done'[t] = RunOf(t, n) /\ issued'[t] = issued[t]
    BY <1>7, <2>1, <2>2 DEF Executes
  <2>4. Own(t)'
    BY <1>7 DEF Executes
  <2>5. done[t][n] = 0
    BY <1>1, <2>1, <2>2 DEF OnceOf
  <2>6. done'[t][n] = 1 /\ \A m \in OpNums \ {n} : done'[t][m] = done[t][m]
    BY <2>3, <2>5, RunCounts DEF SInv
  <2>7. n <= issued[t]
    BY <2>2 DEF ThreadInv
  <2>8. \A m \in OpNums : done'[t][m] <= 1 /\ (done'[t][m] > 0 => m <= issued'[t])
    BY <2>3, <2>6, <2>7 DEF OnceOf
  <2>9. ASSUME NEW k \in DOMAIN W, flush'[t].k <= k PROVE done'[t][W[k].n] = 0
    <3>1. k0 < k /\ k0 <= k
      BY <1>1, <2>3, <2>9
    <3>2. W[k].n \in OpNums \ {n}
      BY <1>1, <2>2, <3>1 DEF ThreadInv, OpNums
    <3>3. done[t][W[k].n] = 0
      BY <2>1, <2>3, <3>1 DEF OnceOf
    <3> QED
      BY <2>6, <3>2, <3>3
  <2> QED
    BY <2>3, <2>4, <2>8, <2>9 DEF OnceOf
<1> QED
  BY <1>3, <1>4, <1>5, <1>6, <1>7 DEF Effect, Fails

-----------------------------------------------------------------------------
(* The steps. *)

(* A flush in progress finds its instance as it was.                       *)
Stable(t) ==
    flush[t] # NoFlush /\ flush'[t] # NoFlush =>
        insts'[flush[t].inst] = insts[flush[t].inst]

Served == SInv' /\ \A t \in Threads : Effect(t) /\ Stable(t)

LEMMA ListKept ==
    ASSUME SInv, TxnList' = TxnList,
           \A k \in DOMAIN TxnList : insts'[TxnList[k]] = insts[TxnList[k]]
    PROVE  /\ ListInv' /\ EmptyInv'
           /\ \A t \in Threads :
                 /\ HasTxn(t)' <=> HasTxn(t)
                 /\ HasTxn(t) => GetTxnInst(t)' = GetTxnInst(t)
                 /\ Waiting(t)' = Waiting(t)
<1>1. \A t \in Threads : /\ HasTxn(t)' <=> HasTxn(t)
                         /\ HasTxn(t) => GetTxnInst(t)' = GetTxnInst(t)
  BY SameNode DEF SInv
<1>2. ASSUME NEW t \in Threads PROVE Waiting(t)' = Waiting(t)
  <2>0. DOMAIN TxnList = 1 .. Len(TxnList)
    BY LenProperties DEF SInv, Types
  <2>1. HasTxn(t) => GetTxnInst(t) = TxnList[NodeOf(t)] /\ NodeOf(t) \in DOMAIN TxnList
    BY <2>0, TxnInstOf DEF SInv
  <2> QED
    BY <1>1, <2>1 DEF Waiting
<1>3. ListInv'
  BY DEF SInv, ListInv, Allocated
<1>4. EmptyInv'
  <2>1. ASSUME NEW k \in DOMAIN TxnList, insts[TxnList[k]].cmds # <<>>
        PROVE  TxnList[k] = GetTxnInst(insts[TxnList[k]].tid)'
    <3>1. insts[TxnList[k]] \in Insts
      BY DEF SInv, Types, ListInv, Allocated
    <3>2. PICK t \in Threads : insts[TxnList[k]].tid = t
      BY <3>1 DEF Insts
    <3>3. HasTxn(t) /\ TxnList[k] = GetTxnInst(t)
      BY <2>1, <3>2 DEF SInv, EmptyInv, HasTxn
    <3> QED
      BY <1>1, <3>2, <3>3
  <2> QED
    BY <2>1 DEF EmptyInv
<1> QED
  BY <1>1, <1>2, <1>3, <1>4

LEMMA UndisturbedKeepsFlush ==
    ASSUME SInv, NEW t \in Threads, Undisturbed(t)
    PROVE  FlushOf(t)' /\ Effect(t) /\ Stable(t)
<1>1. FlushOf(t)'
  BY DEF Undisturbed, Calm, SInv, FlushInv, FlushOf, Own, Allocated
<1> QED
  BY <1>1 DEF Effect, Stable, Undisturbed

(* Steps of u that leave the list and the instances alone.                 *)
LEMMA OthersKept ==
    ASSUME SInv, Types', NEW u \in Threads, UNCHANGED <<TxnList, insts>>,
           \A t \in Threads \ {u} : /\ flush'[t] = flush[t] /\ issued'[t] = issued[t]
                                    /\ done'[t] = done[t] /\ dropped'[t] = dropped[t],
           FlushOf(u)', Effect(u)
    PROVE  Served
<1>1. \A t \in Threads : /\ HasTxn(t)' <=> HasTxn(t)
                         /\ HasTxn(t) => GetTxnInst(t)' = GetTxnInst(t)
                         /\ Waiting(t)' = Waiting(t)
  BY ListKept
<1>2. \A t \in Threads \ {u} : Undisturbed(t)
  BY <1>1 DEF Undisturbed, Calm
<1>3. \A t \in Threads : FlushOf(t)' /\ Effect(t) /\ Stable(t)
  BY <1>2, UndisturbedKeepsFlush DEF Stable
<1> QED
  BY <1>3, ListKept DEF Served, SInv, FlushInv

LEMMA RunTypes ==
    ASSUME Types, NEW t \in Threads, NEW n \in OpNums
    PROVE  /\ Ran(t, n) \in [Threads -> [OpNums -> 0 .. 2]]
           /\ Ran(t, n)[t] = RunOf(t, n)
           /\ \A u \in Threads \ {t} : Ran(t, n)[u] = done[u]
BY DEF Types, Ran, RunOf

(* A thread that may issue an operation.                                   *)
LEMMA Issue ==
    ASSUME Types, NEW t \in Threads, MayIssue(t)
    PROVE  /\ issued[t] + 1 \in OpNums /\ flush[t] = NoFlush /\ ~Own(t)
           /\ [issued EXCEPT ![t] = @ + 1] \in [Threads -> 0 .. MaxOps]
           /\ issued[t] < MaxOps
BY MaxOpsAssumption DEF Types, MayIssue, Idle, Own, OpNums

LEMMA RunOnDeviceStep ==
    ASSUME SInv, NEW t \in Threads, RunOnDevice(t) PROVE Served
<1>0. Types
  BY DEF SInv
<1>1. PICK n \in OpNums : n = issued[t] + 1
  BY <1>0, Issue DEF RunOnDevice
<1>2. /\ issued' = [issued EXCEPT ![t] = @ + 1] /\ done' = Ran(t, n) /\ flush[t] = NoFlush
      /\ UNCHANGED <<TxnList, insts, flush, dropped>>
  BY <1>1, Issue, <1>0 DEF RunOnDevice
<1>3. Waiting(t) = <<>>
  BY DEF RunOnDevice, GoesToDevice, Waiting
<1>4. Types'
  BY <1>0, <1>2, RunTypes, Issue DEF RunOnDevice, Types
<1>5. Waiting(t)' = Waiting(t)
  BY <1>2, ListKept
<1>6. Runs(t)
  BY <1>0, <1>1, <1>2, <1>3, <1>5, RunTypes DEF Runs, Drained, Own, Types
<1>7. FlushOf(t)'
  BY <1>2 DEF FlushOf
<1>8. \A u \in Threads \ {t} : /\ flush'[u] = flush[u] /\ issued'[u] = issued[u]
                               /\ done'[u] = done[u] /\ dropped'[u] = dropped[u]
  BY <1>0, <1>2, RunTypes DEF Types
<1> QED
  BY <1>2, <1>4, <1>6, <1>7, <1>8, OthersKept DEF Effect

LEMMA StartFlushStep ==
    ASSUME SInv, NEW t \in Threads, AutoFlush(t) \/ XAie_SubmitTransaction(t) \/ SubmitExported(t)
    PROVE  Served
<1>0. Types /\ ListInv
  BY DEF SInv
<1>1. flush[t] = NoFlush /\ ~Own(t) /\ (AutoFlush(t) => issued[t] < MaxOps)
  BY <1>0, Issue DEF AutoFlush, XAie_SubmitTransaction, SubmitExported, Idle, Own
<1>2. PICK i \in TxnInsts, op \in AllOps \cup {"submit"} :
          /\ StartFlush(t, i, op) /\ Allocated(i)
          /\ \/ HasTxn(t) /\ i = GetTxnInst(t) /\ (op # "submit" => AutoFlush(t))
             \/ insts[i].exported /\ op = "submit"
  <2>1. CASE AutoFlush(t)
    <3>1. GetTxnInst(t) \in TxnInsts /\ Allocated(GetTxnInst(t))
      BY <1>0, <2>1, TxnInstOf, NoneAssumption DEF AutoFlush, Allocated, NotAllocated, Insts
    <3> QED
      BY <2>1, <3>1, OpsAssumption DEF AutoFlush
  <2>2. CASE XAie_SubmitTransaction(t)
    <3>1. GetTxnInst(t) \in TxnInsts /\ Allocated(GetTxnInst(t))
      BY <1>0, <2>2, TxnInstOf, NoneAssumption DEF XAie_SubmitTransaction, Allocated, NotAllocated, Insts
    <3> QED
      BY <2>2, <3>1 DEF XAie_SubmitTransaction
  <2>3. CASE SubmitExported(t)
    BY <2>3 DEF SubmitExported
  <2> QED
    BY <2>1, <2>2, <2>3
<1>3. /\ UNCHANGED <<TxnList, insts, issued, done, dropped>>
      /\ flush' = [flush EXCEPT ![t] = [inst |-> i, k |-> 1, op |-> op]]
  BY <1>2 DEF StartFlush
<1>4. /\ flush'[t] = [inst |-> i, k |-> 1, op |-> op]
      /\ \A u \in Threads \ {t} : flush'[u] = flush[u]
  BY <1>0, <1>3 DEF Types
<1>5. Types'
  BY <1>0, <1>3 DEF Types
<1>6. /\ HasTxn(t)' <=> HasTxn(t)
      /\ HasTxn(t) => GetTxnInst(t)' = GetTxnInst(t)
      /\ Waiting(t)' = Waiting(t)
  BY <1>3, ListKept
<1>7. Quiet(t)
  BY <1>1, <1>3, <1>4, <1>6 DEF Quiet, Calm
<1>8. FlushOf(t)'
  <2>1. insts[i] \in Insts /\ Len(insts[i].cmds) \in Nat
    BY <1>0, <1>2 DEF Types, Allocated, Insts
  <2>2. 1 \in 1 .. Len(insts[i].cmds) + 1
    BY <2>1
  <2>3. op # "submit" => Own(t)' /\ issued[t] < MaxOps
    <3> SUFFICES ASSUME op # "submit" PROVE Own(t)' /\ issued[t] < MaxOps
      OBVIOUS
    <3>1. ~insts[i].exported /\ issued[t] < MaxOps
      BY <1>0, <1>1, <1>2, TxnInstOf
    <3>2. flush'[t] # NoFlush
      BY <1>4 DEF NoFlush
    <3> QED
      BY <1>3, <1>4, <3>1, <3>2 DEF Own
  <2>4. Own(t)' => HasTxn(t)' /\ i = GetTxnInst(t)'
    BY <1>2, <1>3, <1>4, <1>6 DEF Own
  <2> QED
    BY <1>2, <1>3, <1>4, <2>2, <2>3, <2>4 DEF FlushOf, Allocated
<1> QED
  BY <1>3, <1>4, <1>5, <1>7, <1>8, OthersKept DEF Effect

(* A flush in progress: its instance, and what its commands belong to.     *)
LEMMA Flushed ==
    ASSUME SInv, NEW t \in Threads, Flushing(t)
    PROVE  /\ flush[t] \in [inst : TxnInsts, k : Nat, op : AllOps \cup {"submit"}]
           /\ flush[t].k \in Nat \ {0}
           /\ FlushedInst(t) \in Insts /\ Len(FlushedInst(t).cmds) \in Nat
           /\ DOMAIN FlushedInst(t).cmds = 1 .. Len(FlushedInst(t).cmds)
           /\ flush[t].k <= Len(FlushedInst(t).cmds) + 1
           /\ Own(t) <=> ~FlushedInst(t).exported
           /\ Own(t) => /\ Waiting(t) = FlushedInst(t).cmds
                        /\ FlushedInst(t).tid = t
                        /\ HasTxn(t) /\ GetTxnInst(t) = flush[t].inst
<1>1. flush[t] # NoFlush
  BY DEF Flushing, Idle
<1>2. flush[t] \in [inst : TxnInsts, k : Nat, op : AllOps \cup {"submit"}] /\ FlushOf(t)
  BY <1>1 DEF SInv, Types, FlushInv
<1>3. FlushedInst(t) \in Insts /\ FlushedInst(t).cmds \in Seq(Cmds)
  BY <1>1, <1>2 DEF FlushOf, FlushedInst, Allocated, SInv, Types, Insts
<1>4. flush[t].k \in 1 .. Len(FlushedInst(t).cmds) + 1
  BY <1>1, <1>2 DEF FlushOf, FlushedInst
<1>5. Own(t) <=> ~FlushedInst(t).exported
  BY <1>1 DEF Own, FlushedInst
<1>6. Own(t) => /\ Waiting(t) = FlushedInst(t).cmds /\ FlushedInst(t).tid = t
                /\ HasTxn(t) /\ GetTxnInst(t) = flush[t].inst
  BY <1>1, <1>2, TxnInstOf DEF FlushOf, FlushedInst, Waiting, SInv
<1> QED
  BY <1>2, <1>3, <1>4, <1>5, <1>6

LEMMA ExecuteCmdStep ==
    ASSUME SInv, NEW t \in Threads, ExecuteCmd(t) PROVE Served
<1>0. Types
  BY DEF SInv
<1>1. Flushing(t) /\ CmdsLeft(t)
  BY DEF ExecuteCmd
<1>2. PICK k \in Nat \ {0} : k = flush[t].k
  BY <1>1, Flushed
<1>3. k \in DOMAIN FlushedInst(t).cmds /\ k + 1 \in 1 .. Len(FlushedInst(t).cmds) + 1
  BY <1>1, <1>2, Flushed DEF CmdsLeft
<1>4. PICK c \in Cmds : c = NextCmd(t)
  BY <1>1, <1>2, <1>3, Flushed DEF NextCmd, Insts
<1>5. c.n \in OpNums
  BY DEF Cmds
<1>6. /\ UNCHANGED <<TxnList, insts, issued, dropped>>
      /\ flush' = [flush EXCEPT ![t].k = @ + 1]
      /\ done' = IF FlushedInst(t).exported THEN done ELSE Ran(FlushedInst(t).tid, c.n)
  BY <1>4 DEF ExecuteCmd
<1>7. /\ flush'[t] = [inst |-> flush[t].inst, k |-> k + 1, op |-> flush[t].op]
      /\ \A u \in Threads \ {t} : flush'[u] = flush[u]
      /\ flush' \in [Threads -> [inst : TxnInsts, k : Nat, op : AllOps \cup {"submit"}]
                                \cup {NoFlush}]
  <2>1. flush[t] \in [inst : TxnInsts, k : Nat, op : AllOps \cup {"submit"}]
    BY <1>1, Flushed
  <2> QED
    BY <1>0, <1>2, <1>6, <2>1 DEF Types
<1>8. flush'[t] # NoFlush
  BY <1>2, <1>7 DEF NoFlush
<1>9. /\ done' \in [Threads -> [OpNums -> 0 .. 2]]
      /\ \A u \in Threads \ {t} : done'[u] = done[u]
      /\ Own(t) => done'[t] = RunOf(t, c.n)
      /\ ~Own(t) => done'[t] = done[t]
  <2>1. CASE Own(t)
    BY <1>0, <1>1, <1>5, <1>6, <2>1, Flushed, RunTypes
  <2>2. CASE ~Own(t)
    BY <1>0, <1>1, <1>6, <2>2, Flushed DEF Types
  <2> QED
    BY <2>1, <2>2
<1>10. Types'
  BY <1>0, <1>6, <1>7, <1>9 DEF Types
<1>11. /\ HasTxn(t)' <=> HasTxn(t)
       /\ HasTxn(t) => GetTxnInst(t)' = GetTxnInst(t)
       /\ Waiting(t)' = Waiting(t)
  BY <1>6, ListKept
<1>12. Own(t)' <=> Own(t)
  BY <1>1, <1>6, <1>7, <1>8 DEF Own, Flushing, Idle
<1>13. FlushOf(t)'
  <2>1. FlushOf(t) /\ flush[t] # NoFlush
    BY <1>1 DEF SInv, FlushInv, Flushing, Idle
  <2> QED
    BY <1>3, <1>6, <1>7, <1>11, <1>12, <2>1 DEF FlushOf, FlushedInst, Allocated
<1>14. Effect(t)
  <2>1. CASE Own(t)
    <3>1. Waiting(t) = FlushedInst(t).cmds /\ Waiting(t)[k] = c
      BY <1>1, <1>2, <1>4, <2>1, Flushed DEF NextCmd
    <3> QED
      BY <1>2, <1>3, <1>6, <1>7, <1>9, <1>11, <1>12, <2>1, <3>1 DEF Executes, Effect
  <2>2. CASE ~Own(t)
    BY <1>6, <1>9, <1>11, <1>12, <2>2 DEF Quiet, Calm, Effect
  <2> QED
    BY <2>1, <2>2
<1> QED
  BY <1>6, <1>7, <1>9, <1>10, <1>13, <1>14, OthersKept

LEMMA ExecuteCmdFailsStep ==
    ASSUME SInv, NEW t \in Threads, ExecuteCmdFails(t) PROVE Served
<1>0. Types
  BY DEF SInv
<1>1. /\ CanFail /\ flush' = [flush EXCEPT ![t] = NoFlush]
      /\ UNCHANGED <<TxnList, insts, issued, done, dropped>>
  BY DEF ExecuteCmdFails
<1>2. flush'[t] = NoFlush /\ \A u \in Threads \ {t} : flush'[u] = flush[u]
  BY <1>0, <1>1 DEF Types
<1>3. Types'
  BY <1>0, <1>1 DEF Types
<1>4. Waiting(t)' = Waiting(t)
  BY <1>1, ListKept
<1>5. Fails(t)
  BY <1>1, <1>2, <1>4 DEF Fails, Calm, Own
<1>6. FlushOf(t)'
  BY <1>2 DEF FlushOf
<1> QED
  BY <1>1, <1>2, <1>3, <1>5, <1>6, OthersKept DEF Effect

(* No other thread works on the instance of a thread.                      *)
LEMMA Apart ==
    ASSUME SInv, NEW t \in Threads, HasTxn(t), NEW u \in Threads \ {t}
    PROVE  /\ HasTxn(u) => GetTxnInst(u) # GetTxnInst(t)
           /\ flush[u] # NoFlush => flush[u].inst # GetTxnInst(t)
<1>1. /\ insts[GetTxnInst(t)].tid = t /\ ~insts[GetTxnInst(t)].exported
      /\ HasTxn(u) => insts[GetTxnInst(u)].tid = u
  BY TxnInstOf DEF SInv
<1>2. ASSUME flush[u] # NoFlush, Own(u) PROVE HasTxn(u) /\ flush[u].inst = GetTxnInst(u)
  BY <1>2 DEF SInv, FlushInv, FlushOf
<1>3. ASSUME flush[u] # NoFlush, ~Own(u) PROVE insts[flush[u].inst].exported
  BY <1>3 DEF Own
<1> QED
  BY <1>1, <1>2, <1>3

LEMMA AllUndisturbed ==
    ASSUME SInv, Types', ListInv', EmptyInv', \A t \in Threads : Undisturbed(t)
    PROVE  Served
BY UndisturbedKeepsFlush DEF Served, SInv, FlushInv

(* A thread's instance gets other commands.                                *)
LEMMA CmdsChanged ==
    ASSUME SInv, NEW t \in Threads, HasTxn(t), NEW cs \in Seq(Cmds), TxnList' = TxnList,
           insts' = [insts EXCEPT ![GetTxnInst(t)].cmds = cs],
           \A u \in Threads \ {t} : /\ flush'[u] = flush[u] /\ issued'[u] = issued[u]
                                   /\ done'[u] = done[u] /\ dropped'[u] = dropped[u]
    PROVE  /\ insts' \in [TxnInsts -> Insts \cup {NotAllocated}]
           /\ ListInv' /\ EmptyInv' /\ Waiting(t)' = cs
           /\ \A u \in Threads \ {t} : Undisturbed(u)
<1>0. Types /\ ListInv
  BY DEF SInv
<1>1. PICK i \in TxnInsts : i = GetTxnInst(t)
  BY <1>0, TxnInstOf
<1>2. insts[i] \in Insts /\ insts[i].tid = t /\ ~insts[i].exported
  BY <1>0, <1>1, TxnInstOf
<1>3. insts'[i] = [insts[i] EXCEPT !.cmds = cs]
  BY <1>0, <1>1 DEF Types
<1>4. \A j \in TxnInsts : j # i => insts'[j] = insts[j]
  BY <1>0, <1>1 DEF Types
<1>5. /\ insts'[i] \in Insts /\ insts'[i].tid = t /\ ~insts'[i].exported /\ insts'[i].cmds = cs
  BY <1>2, <1>3 DEF Insts
<1>6. \A k \in DOMAIN TxnList : TxnList[k] \in TxnInsts
  BY <1>0 DEF Types
<1>7. \A u \in Threads : /\ HasTxn(u)' <=> HasTxn(u)
                         /\ HasTxn(u) => GetTxnInst(u)' = GetTxnInst(u)
  BY <1>0, <1>2, <1>4, <1>5, <1>6, SameNode
<1>8. insts' \in [TxnInsts -> Insts \cup {NotAllocated}]
  BY <1>0, <1>1, <1>4, <1>5 DEF Types
<1>9. ListInv'
  BY <1>0, <1>4, <1>5, <1>6, NoneAssumption DEF ListInv, Allocated, NotAllocated, Insts
<1>10. EmptyInv'
  <2>1. ASSUME NEW k \in DOMAIN TxnList, insts'[TxnList[k]].cmds # <<>>
        PROVE  TxnList[k] = GetTxnInst(insts[TxnList[k]].tid)'
    <3>1. CASE TxnList[k] = i
      BY <1>1, <1>5, <1>7, <3>1
    <3>2. CASE TxnList[k] # i
      <4>0. insts'[TxnList[k]] = insts[TxnList[k]] /\ TxnList[k] \in TxnInsts
        BY <1>4, <1>6, <3>2
      <4>1. insts'[TxnList[k]] = insts[TxnList[k]] /\ insts[TxnList[k]] \in Insts
        BY <1>0, <4>0 DEF Types, ListInv, Allocated
      <4>2. PICK u \in Threads : insts[TxnList[k]].tid = u
        BY <4>1 DEF Insts
      <4>3. HasTxn(u) /\ TxnList[k] = GetTxnInst(u)
        BY <2>1, <4>1, <4>2 DEF SInv, EmptyInv, HasTxn
      <4> QED
        BY <1>7, <4>1, <4>2, <4>3
    <3> QED
      BY <3>1, <3>2
  <2> QED
    BY <2>1 DEF EmptyInv
<1>11. Waiting(t)' = cs
  BY <1>1, <1>5, <1>7 DEF Waiting
<1>12. ASSUME NEW u \in Threads \ {t} PROVE Undisturbed(u)
  <2>1. /\ HasTxn(u) => GetTxnInst(u) \in TxnInsts /\ GetTxnInst(u) # i
        /\ flush[u] # NoFlush => flush[u].inst \in TxnInsts /\ flush[u].inst # i
    <3>1. flush[u] # NoFlush => flush[u].inst \in TxnInsts
      BY <1>0 DEF Types
    <3> QED
      BY <1>0, <1>1, <3>1, Apart, TxnInstOf
  <2>2. Waiting(u)' = Waiting(u)
    <3>1. HasTxn(u) => insts'[GetTxnInst(u)] = insts[GetTxnInst(u)]
      BY <1>4, <2>1
    <3>2. HasTxn(u)' <=> HasTxn(u)
      BY <1>7
    <3>3. HasTxn(u) => GetTxnInst(u)' = GetTxnInst(u)
      BY <1>7
    <3>4. CASE HasTxn(u)
      <4>1. Waiting(u) = insts[GetTxnInst(u)].cmds
        BY <3>4 DEF Waiting
      <4>2. Waiting(u)' = (insts[GetTxnInst(u)].cmds)'
        BY <3>2, <3>4, Zenon DEF Waiting
      <4>3. insts'[GetTxnInst(u)'] = insts[GetTxnInst(u)]
        BY <3>1, <3>3, <3>4
      <4> QED
        BY <4>1, <4>2, <4>3
    <3>5. CASE ~HasTxn(u)
      BY <3>2, <3>5, Zenon DEF Waiting
    <3> QED
      BY <3>4, <3>5
  <2> QED
    BY <1>4, <1>7, <2>1, <2>2 DEF Undisturbed, Calm
<1> QED
  BY <1>8, <1>9, <1>10, <1>11, <1>12

(* A thread's instance leaves the list and is freed: the next one with its *)
(* id, if there is one, is empty.                                          *)
LEMMA InstRemoved ==
    ASSUME SInv, NEW t \in Threads, HasTxn(t), TxnList' = Remove(t),
           insts' = [insts EXCEPT ![GetTxnInst(t)] = NotAllocated],
           \A u \in Threads \ {t} : /\ flush'[u] = flush[u] /\ issued'[u] = issued[u]
                                   /\ done'[u] = done[u] /\ dropped'[u] = dropped[u]
    PROVE  /\ TxnList' \in Seq(TxnInsts)
           /\ insts' \in [TxnInsts -> Insts \cup {NotAllocated}]
           /\ ListInv' /\ EmptyInv' /\ Waiting(t)' = <<>>
           /\ \A u \in Threads \ {t} : Undisturbed(u)
<1>0. Types /\ ListInv
  BY DEF SInv
<1>1. PICK i \in TxnInsts : i = GetTxnInst(t)
  BY <1>0, TxnInstOf
<1>2. PICK p \in 1 .. Len(TxnList) : p = NodeOf(t) /\ TxnList[p] = i
  BY <1>0, <1>1, TxnInstOf
<1>3. \A j \in TxnInsts : j # i => insts'[j] = insts[j]
  BY <1>0, <1>1 DEF Types
<1>4. /\ DOMAIN TxnList = 1 .. Len(TxnList) /\ Len(TxnList) \in Nat
      /\ \A k \in DOMAIN TxnList : TxnList[k] \in TxnInsts
  BY <1>0 DEF Types
<1>5. \A k \in DOMAIN TxnList : k # p => TxnList[k] # i
  BY <1>0, <1>2, <1>4 DEF ListInv
<1>6. /\ TxnList' \in Seq(TxnInsts) /\ Len(TxnList') = Len(TxnList) - 1
      /\ \A k \in 1 .. Len(TxnList) - 1 :
            TxnList'[k] = TxnList[IF k < p THEN k ELSE k + 1]
      /\ \A u \in Threads \ {t} : /\ HasTxn(u)' <=> HasTxn(u)
                                  /\ HasTxn(u) => GetTxnInst(u)' = GetTxnInst(u)
  <2>1. \A k \in DOMAIN TxnList : k # NodeOf(t) => insts'[TxnList[k]] = insts[TxnList[k]]
    BY <1>2, <1>3, <1>4, <1>5
  <2>2. /\ TxnList' \in Seq(TxnInsts) /\ Len(TxnList') = Len(TxnList) - 1
        /\ \A k \in 1 .. Len(TxnList) - 1 :
              TxnList'[k] = TxnList[IF k < NodeOf(t) THEN k ELSE k + 1]
        /\ \A u \in Threads \ {t} : /\ HasTxn(u)' <=> HasTxn(u)
                                    /\ HasTxn(u) => GetTxnInst(u)' = GetTxnInst(u)
    BY <1>0, <2>1, Removed
  <2> QED
    BY <1>2, <2>2
<1>7. DOMAIN TxnList' = 1 .. Len(TxnList) - 1
  BY <1>6
<1> DEFINE Old(k) == IF k < p THEN k ELSE k + 1
<1>8. \A k \in DOMAIN TxnList' :
          /\ Old(k) \in DOMAIN TxnList /\ Old(k) # p /\ TxnList'[k] = TxnList[Old(k)]
          /\ insts'[TxnList'[k]] = insts[TxnList[Old(k)]]
  <2> TAKE k \in DOMAIN TxnList'
  <2>1. Old(k) \in DOMAIN TxnList /\ Old(k) # p /\ TxnList'[k] = TxnList[Old(k)]
    BY <1>4, <1>6, <1>7
  <2> HIDE DEF Old
  <2> QED
    BY <1>3, <1>4, <1>5, <2>1
<1>9. \A j, k \in DOMAIN TxnList' : Old(j) = Old(k) => j = k
  BY <1>4, <1>7
<1> HIDE DEF Old
<1>10. insts' \in [TxnInsts -> Insts \cup {NotAllocated}]
  BY <1>0 DEF Types
<1>11. ListInv'
  BY <1>0, <1>8, <1>9 DEF ListInv, Allocated
<1>12. ASSUME NEW k \in DOMAIN TxnList', insts'[TxnList'[k]].cmds # <<>>
       PROVE  /\ TxnList'[k] = GetTxnInst(insts[TxnList[k]].tid)'
              /\ insts'[TxnList'[k]].tid # t
  <2>1. insts[TxnList[Old(k)]] \in Insts
    BY <1>0, <1>4, <1>8 DEF Types, ListInv, Allocated
  <2>2. PICK u \in Threads : insts[TxnList[Old(k)]].tid = u
    BY <2>1 DEF Insts
  <2>3. HasTxn(u) /\ TxnList[Old(k)] = GetTxnInst(u)
    BY <1>8, <1>12, <2>2 DEF SInv, EmptyInv, HasTxn
  <2>4. u # t
    BY <1>1, <1>5, <1>8, <2>3
  <2>5. TxnList'[k] = GetTxnInst(u)' /\ insts'[TxnList'[k]].tid = u
    <3>1. GetTxnInst(u)' = GetTxnInst(u)
      BY <1>6, <2>3, <2>4
    <3> QED
      BY <1>8, <2>2, <2>3, <3>1
  <2> QED
    BY <2>4, <2>5
<1>13. EmptyInv'
  BY <1>12 DEF EmptyInv
<1>14. Waiting(t)' = <<>>
  <2> SUFFICES ASSUME HasTxn(t)' PROVE insts'[GetTxnInst(t)'].cmds = <<>>
    BY DEF Waiting
  <2>1. IsFirst(TxnList', insts', t, NodeOf(t)')
    BY <1>6, NodeIsFirstNext
  <2> QED
    BY <1>12, <2>1 DEF IsFirst, GetTxnInst
<1>15. ASSUME NEW u \in Threads \ {t} PROVE Undisturbed(u)
  <2>1. /\ HasTxn(u) => GetTxnInst(u) \in TxnInsts /\ GetTxnInst(u) # i
        /\ flush[u] # NoFlush => flush[u].inst \in TxnInsts /\ flush[u].inst # i
    <3>1. flush[u] # NoFlush => flush[u].inst \in TxnInsts
      BY <1>0 DEF Types
    <3> QED
      BY <1>0, <1>1, <3>1, Apart, TxnInstOf
  <2>2. Waiting(u)' = Waiting(u)
    <3>1. HasTxn(u) => insts'[GetTxnInst(u)] = insts[GetTxnInst(u)]
      BY <1>3, <2>1
    <3>2. HasTxn(u)' <=> HasTxn(u)
      BY <1>6
    <3>3. HasTxn(u) => GetTxnInst(u)' = GetTxnInst(u)
      BY <1>6
    <3> QED
      BY <3>1, <3>2, <3>3 DEF Waiting
  <2> QED
    BY <1>3, <1>6, <2>1, <2>2 DEF Undisturbed, Calm
<1> QED
  BY <1>6, <1>10, <1>11, <1>13, <1>14, <1>15

LEMMA AppendCmdStep ==
    ASSUME SInv, NEW t \in Threads, AppendCmd(t) PROVE Served
<1>0. Types /\ ListInv
  BY DEF SInv
<1>1. HasTxn(t) /\ MayIssue(t)
  BY DEF AppendCmd
<1>2. PICK n \in OpNums : n = issued[t] + 1
  BY <1>0, <1>1, Issue
<1>3. PICK i \in TxnInsts : i = GetTxnInst(t)
  BY <1>0, <1>1, TxnInstOf
<1>4. PICK c \in Cmds : /\ c.n = n
                        /\ insts' = [insts EXCEPT ![i].cmds = Append(@, c)]
  <2>1. PICK op \in Ops, data \in SUBSET DataPtrs :
            insts' = [insts EXCEPT ![i].cmds = Append(@, [op |-> op, n |-> n, data |-> data])]
    <3>1. {<<i, t, n>>} \in SUBSET DataPtrs /\ {} \in SUBSET DataPtrs
      BY DEF DataPtrs
    <3>2. PICK op \in Ops : insts' = [insts EXCEPT ![i].cmds = Append(@,
              [op |-> op, n |-> n,
               data |-> IF op \in {"blockwrite", "custom"} THEN {<<i, t, n>>} ELSE {}])]
      BY <1>2, <1>3 DEF AppendCmd
    <3>3. (IF op \in {"blockwrite", "custom"} THEN {<<i, t, n>>} ELSE {}) \in SUBSET DataPtrs
      BY <3>1
    <3> QED
      BY <3>2, <3>3
  <2>2. [op |-> op, n |-> n, data |-> data] \in Cmds
    BY OpsAssumption DEF Cmds
  <2> QED
    BY <2>1, <2>2
<1>5. insts[i] \in Insts /\ Waiting(t) = insts[i].cmds /\ Waiting(t) \in Seq(Cmds)
  <2>1. insts[i] \in Insts /\ Waiting(t) = insts[i].cmds
    BY <1>0, <1>1, <1>3, TxnInstOf DEF Waiting
  <2> QED
    BY <1>0, <2>1, WaitingType
<1>6. PICK cs \in Seq(Cmds) : cs = Append(Waiting(t), c)
  BY <1>5, AppendProperties
<1>7. insts' = [insts EXCEPT ![i].cmds = cs]
  BY <1>4, <1>5, <1>6
<1>8. /\ TxnList' = TxnList /\ UNCHANGED <<flush, done, dropped>>
      /\ issued' = [issued EXCEPT ![t] = @ + 1] /\ flush[t] = NoFlush
  BY <1>0, <1>1, Issue DEF AppendCmd
<1>9. \A u \in Threads \ {t} : issued'[u] = issued[u]
  BY <1>0, <1>8 DEF Types
<1>10. /\ insts' \in [TxnInsts -> Insts \cup {NotAllocated}]
       /\ ListInv' /\ EmptyInv' /\ Waiting(t)' = cs
       /\ \A u \in Threads \ {t} : Undisturbed(u)
  BY <1>1, <1>3, <1>7, <1>8, <1>9, CmdsChanged
<1>11. Types'
  <2>1. issued' \in [Threads -> 0 .. MaxOps]
    BY <1>0, <1>1, <1>8, Issue
  <2> QED
    BY <1>0, <1>8, <1>10, <2>1 DEF Types
<1>12. Appends(t)
  BY <1>0, <1>2, <1>4, <1>6, <1>8, <1>10 DEF Appends, Own, Types
<1>13. FlushOf(t)' /\ Stable(t)
  BY <1>8 DEF FlushOf, Stable
<1> QED
  BY <1>10, <1>11, <1>12, <1>13, UndisturbedKeepsFlush DEF Served, SInv, FlushInv, Effect

LEMMA AutoFlushReturnsStep ==
    ASSUME SInv, NEW t \in Threads, AutoFlushReturns(t) PROVE Served
<1>0. Types
  BY DEF SInv
<1>1. /\ Flushing(t) /\ ~CmdsLeft(t) /\ flush[t].op # "submit"
      /\ insts' = [insts EXCEPT ![flush[t].inst].cmds = <<>>]
      /\ flush' = [flush EXCEPT ![t] = NoFlush] /\ UNCHANGED <<TxnList, heap, dropped>>
  BY DEF AutoFlushReturns
<1>2. Own(t) /\ issued[t] < MaxOps
  BY <1>1 DEF SInv, FlushInv, FlushOf, Flushing, Idle
<1>3. /\ HasTxn(t) /\ GetTxnInst(t) = flush[t].inst /\ Waiting(t) = FlushedInst(t).cmds
      /\ flush[t].k \in Nat \ {0} /\ Len(FlushedInst(t).cmds) \in Nat
      /\ DOMAIN FlushedInst(t).cmds = 1 .. Len(FlushedInst(t).cmds)
  BY <1>1, <1>2, Flushed
<1>4. Drained(t)
  BY <1>1, <1>2, <1>3 DEF Drained, CmdsLeft
<1>5. flush'[t] = NoFlush /\ \A u \in Threads \ {t} : flush'[u] = flush[u]
  BY <1>0, <1>1 DEF Types
<1>6. PICK n \in OpNums : n = issued[t] + 1
  BY <1>0, <1>2, MaxOpsAssumption DEF Types, OpNums
<1> DEFINE none == <<>>
<1>c. none \in Seq(Cmds) /\ insts' = [insts EXCEPT ![GetTxnInst(t)].cmds = none]
  BY <1>1, <1>3
<1> HIDE DEF none
<1>7. CASE issued' = [issued EXCEPT ![t] = @ + 1] /\ done' = Ran(t, n)
  <2>1. /\ issued' \in [Threads -> 0 .. MaxOps] /\ issued'[t] = issued[t] + 1
        /\ \A u \in Threads \ {t} : issued'[u] = issued[u]
    BY <1>0, <1>6, <1>7 DEF Types, OpNums
  <2>2. /\ done' \in [Threads -> [OpNums -> 0 .. 2]] /\ done'[t] = RunOf(t, n)
        /\ \A u \in Threads \ {t} : done'[u] = done[u]
    BY <1>0, <1>7, RunTypes
  <2>3. /\ insts' \in [TxnInsts -> Insts \cup {NotAllocated}]
        /\ ListInv' /\ EmptyInv' /\ Waiting(t)' = none
        /\ \A u \in Threads \ {t} : Undisturbed(u)
    BY <1>1, <1>3, <1>5, <1>c, <2>1, <2>2, CmdsChanged
  <2>4. Types'
    BY <1>0, <1>1, <2>1, <2>2, <2>3 DEF Types
  <2>5. Runs(t) /\ FlushOf(t)' /\ Stable(t)
    BY <1>1, <1>4, <1>5, <1>6, <2>1, <2>2, <2>3 DEF none, Runs, Own, FlushOf, Stable
  <2> QED
    BY <2>3, <2>4, <2>5, UndisturbedKeepsFlush DEF Served, SInv, FlushInv, Effect
<1>8. CASE UNCHANGED <<issued, done>>
  <2>1. /\ insts' \in [TxnInsts -> Insts \cup {NotAllocated}]
        /\ ListInv' /\ EmptyInv' /\ Waiting(t)' = none
        /\ \A u \in Threads \ {t} : Undisturbed(u)
    BY <1>1, <1>3, <1>5, <1>c, <1>8, CmdsChanged
  <2>2. Types'
    BY <1>0, <1>1, <1>8, <2>1 DEF Types
  <2>3. Drains(t) /\ FlushOf(t)' /\ Stable(t)
    BY <1>1, <1>4, <1>5, <1>8, <2>1 DEF none, Drains, Own, FlushOf, Stable
  <2> QED
    BY <2>1, <2>2, <2>3, UndisturbedKeepsFlush DEF Served, SInv, FlushInv, Effect
<1> QED
  BY <1>6, <1>7, <1>8 DEF AutoFlushReturns

LEMMA SubmitReturnsStep ==
    ASSUME SInv, NEW t \in Threads, SubmitReturns(t) PROVE Served
<1>0. Types
  BY DEF SInv
<1>1. /\ Flushing(t) /\ ~CmdsLeft(t) /\ flush' = [flush EXCEPT ![t] = NoFlush]
      /\ UNCHANGED <<issued, done, dropped>>
  BY DEF SubmitReturns
<1>2. flush'[t] = NoFlush /\ \A u \in Threads \ {t} : flush'[u] = flush[u]
  BY <1>0, <1>1 DEF Types
<1>3. FlushOf(t)' /\ Stable(t) /\ ~Own(t)'
  BY <1>2 DEF FlushOf, Stable, Own
<1>4. CASE Own(t)
  <2>1. /\ HasTxn(t) /\ GetTxnInst(t) = flush[t].inst /\ Waiting(t) = FlushedInst(t).cmds
        /\ flush[t].k \in Nat \ {0} /\ Len(FlushedInst(t).cmds) \in Nat
        /\ DOMAIN FlushedInst(t).cmds = 1 .. Len(FlushedInst(t).cmds)
        /\ ~FlushedInst(t).exported
    BY <1>1, <1>4, Flushed
  <2>2. Drained(t)
    BY <1>1, <1>4, <2>1 DEF Drained, CmdsLeft
  <2>3. TxnList' = Remove(t) /\ insts' = [insts EXCEPT ![GetTxnInst(t)] = NotAllocated]
    BY <2>1 DEF SubmitReturns
  <2>4. /\ TxnList' \in Seq(TxnInsts)
        /\ insts' \in [TxnInsts -> Insts \cup {NotAllocated}]
        /\ ListInv' /\ EmptyInv' /\ Waiting(t)' = <<>>
        /\ \A u \in Threads \ {t} : Undisturbed(u)
    BY <1>1, <1>2, <2>1, <2>3, InstRemoved
  <2>5. Types'
    BY <1>0, <1>1, <2>4 DEF Types
  <2>6. Drains(t)
    BY <1>1, <1>3, <2>2, <2>4 DEF Drains
  <2> QED
    BY <1>3, <2>4, <2>5, <2>6, UndisturbedKeepsFlush DEF Served, SInv, FlushInv, Effect
<1>5. CASE ~Own(t)
  <2>1. UNCHANGED <<TxnList, insts>>
    BY <1>1, <1>5, Flushed DEF SubmitReturns
  <2>2. Waiting(t)' = Waiting(t)
    BY <2>1, ListKept
  <2>3. Types'
    BY <1>0, <1>1, <2>1 DEF Types
  <2>4. Quiet(t)
    BY <1>1, <1>3, <1>5, <2>2 DEF Quiet, Calm
  <2> QED
    BY <1>1, <1>2, <1>3, <2>1, <2>3, <2>4, OthersKept DEF Effect
<1> QED
  BY <1>4, <1>5

LEMMA XAie_StartTransactionStep ==
    ASSUME SInv, NEW t \in Threads, NEW auto \in BOOLEAN, XAie_StartTransaction(t, auto)
    PROVE  Served
<1>0. Types /\ ListInv
  BY DEF SInv
<1> DEFINE x == [tid |-> t, autoFlush |-> auto, exported |-> FALSE, cmds |-> <<>>]
<1>1. PICK i \in TxnInsts : /\ ~Allocated(i) /\ insts' = [insts EXCEPT ![i] = x]
                            /\ TxnList' = Append(TxnList, i)
  BY DEF XAie_StartTransaction
<1>2. UNCHANGED <<flush, issued, done, dropped>>
  BY DEF XAie_StartTransaction
<1>3. /\ x \in Insts /\ x # NotAllocated /\ x.cmds = <<>> /\ ~x.exported /\ x.tid = t
      /\ insts'[i] = x /\ \A j \in TxnInsts : j # i => insts'[j] = insts[j]
  <2>1. x \in Insts /\ x.cmds = <<>> /\ ~x.exported /\ x.tid = t
    BY DEF Insts
  <2>2. x # NotAllocated
    BY NoneAssumption, <2>1 DEF NotAllocated
  <2> HIDE DEF x
  <2> QED
    BY <1>0, <1>1, <2>1, <2>2 DEF Types
<1> HIDE DEF x
<1>4. \A k \in DOMAIN TxnList : /\ TxnList[k] \in TxnInsts /\ TxnList[k] # i
                                /\ insts'[TxnList[k]] = insts[TxnList[k]]
  BY <1>0, <1>1, <1>3 DEF Types, ListInv
<1>5. /\ TxnList' \in Seq(TxnInsts)
      /\ Len(TxnList') = Len(TxnList) + 1 /\ TxnList'[Len(TxnList) + 1] = i
      /\ \A k \in 1 .. Len(TxnList) : TxnList'[k] = TxnList[k]
      /\ \A u \in Threads :
            /\ HasTxn(u) => HasTxn(u)' /\ GetTxnInst(u)' = GetTxnInst(u)
            /\ ~HasTxn(u) => /\ HasTxn(u)' <=> insts'[i].tid = u
                             /\ HasTxn(u)' => GetTxnInst(u)' = i
  BY <1>0, <1>1, <1>4, Appended
<1>6. /\ DOMAIN TxnList = 1 .. Len(TxnList) /\ Len(TxnList) \in Nat
      /\ DOMAIN TxnList' = 1 .. Len(TxnList) + 1
  BY <1>0, <1>5 DEF Types
<1>7. Types'
  <2>1. insts' \in [TxnInsts -> Insts \cup {NotAllocated}]
    BY <1>0, <1>1, <1>3 DEF Types
  <2> QED
    BY <1>0, <1>2, <1>5, <2>1 DEF Types
<1>8. ListInv'
  <2>1. ASSUME NEW k \in DOMAIN TxnList'
        PROVE  insts'[TxnList'[k]] # NotAllocated /\ ~insts'[TxnList'[k]].exported
    <3>1. CASE k \in DOMAIN TxnList
      BY <1>0, <1>4, <1>5, <1>6, <3>1 DEF ListInv, Allocated
    <3>2. CASE k = Len(TxnList) + 1
      BY <1>3, <1>5, <3>2
    <3> QED
      BY <1>6, <3>1, <3>2
  <2>2. \A j, k \in DOMAIN TxnList' : TxnList'[j] = TxnList'[k] => j = k
    BY <1>0, <1>4, <1>5, <1>6 DEF ListInv
  <2> QED
    BY <2>1, <2>2 DEF ListInv, Allocated
<1>9. EmptyInv'
  <2>1. ASSUME NEW k \in DOMAIN TxnList', insts'[TxnList'[k]].cmds # <<>>
        PROVE  TxnList'[k] = GetTxnInst(insts[TxnList[k]].tid)'
    <3>1. k \in DOMAIN TxnList /\ TxnList'[k] = TxnList[k] /\ insts'[TxnList'[k]] = insts[TxnList[k]]
      BY <1>3, <1>4, <1>5, <1>6, <2>1
    <3>2. insts[TxnList[k]] \in Insts
      BY <1>0, <1>4, <3>1 DEF Types, ListInv, Allocated
    <3>3. PICK u \in Threads : insts[TxnList[k]].tid = u
      BY <3>2 DEF Insts
    <3>4. HasTxn(u) /\ TxnList[k] = GetTxnInst(u)
      BY <2>1, <3>1, <3>3 DEF SInv, EmptyInv, HasTxn
    <3>5. GetTxnInst(u)' = GetTxnInst(u) /\ insts'[TxnList'[k]].tid = u
      BY <1>5, <3>1, <3>3, <3>4
    <3> QED
      BY <3>1, <3>4, <3>5
  <2> QED
    BY <2>1 DEF EmptyInv
<1>10. ASSUME NEW u \in Threads PROVE Undisturbed(u)
  <2>1. Waiting(u)' = Waiting(u)
    <3>1. CASE HasTxn(u)
      <4>1. HasTxn(u)' /\ GetTxnInst(u)' = GetTxnInst(u)
        BY <1>5, <3>1
      <4>2. insts'[GetTxnInst(u)] = insts[GetTxnInst(u)]
        BY <1>0, <1>4, <1>6, <3>1, TxnInstOf
      <4> QED
        BY <3>1, <4>1, <4>2 DEF Waiting
    <3>2. CASE ~HasTxn(u)
      <4>1. Waiting(u) = <<>>
        BY <3>2 DEF Waiting
      <4>2. HasTxn(u)' => (insts[GetTxnInst(u)].cmds)' = <<>>
        BY <1>3, <1>5, <3>2
      <4> QED
        BY <4>1, <4>2 DEF Waiting
    <3> QED
      BY <3>1, <3>2
  <2>2. flush[u] # NoFlush => insts'[flush[u].inst] = insts[flush[u].inst]
    <3>1. flush[u] # NoFlush => Allocated(flush[u].inst)
      BY DEF SInv, FlushInv, FlushOf
    <3>2. flush[u] # NoFlush => flush[u].inst \in TxnInsts
      BY <1>0 DEF Types
    <3> QED
      BY <1>1, <1>3, <3>1, <3>2
  <2> QED
    BY <1>2, <1>5, <2>1, <2>2 DEF Undisturbed, Calm
<1> QED
  BY <1>7, <1>8, <1>9, <1>10, AllUndisturbed

(* An instance that is neither listed nor in a flush comes or goes.        *)
LEMMA Aside ==
    ASSUME SInv, NEW i \in TxnInsts, NEW x \in Insts \cup {NotAllocated},
           \A k \in DOMAIN TxnList : TxnList[k] # i,
           \A t \in Threads : flush[t] # NoFlush => flush[t].inst # i,
           insts' = [insts EXCEPT ![i] = x],
           UNCHANGED <<TxnList, flush, issued, done, dropped>>
    PROVE  Served
<1>0. Types
  BY DEF SInv
<1>1. \A j \in TxnInsts : j # i => insts'[j] = insts[j]
  BY <1>0 DEF Types
<1>2. \A k \in DOMAIN TxnList : insts'[TxnList[k]] = insts[TxnList[k]]
  BY <1>0, <1>1 DEF Types
<1>3. /\ ListInv' /\ EmptyInv'
      /\ \A t \in Threads : /\ HasTxn(t)' <=> HasTxn(t)
                            /\ HasTxn(t) => GetTxnInst(t)' = GetTxnInst(t)
                            /\ Waiting(t)' = Waiting(t)
  BY <1>2, ListKept
<1>4. Types'
  BY <1>0 DEF Types
<1>5. ASSUME NEW t \in Threads PROVE Undisturbed(t)
  <2>1. flush[t] # NoFlush => insts'[flush[t].inst] = insts[flush[t].inst]
    BY <1>0, <1>1 DEF Types
  <2> QED
    BY <1>3, <2>1 DEF Undisturbed, Calm
<1> QED
  BY <1>3, <1>4, <1>5, AllUndisturbed

LEMMA XAie_ExportTransactionInstanceStep ==
    ASSUME SInv, NEW t \in Threads, XAie_ExportTransactionInstance(t) PROVE Served
<1>0. Types /\ ListInv /\ HasTxn(t)
  BY DEF SInv, XAie_ExportTransactionInstance
<1>1. PICK x \in Insts : x = insts[GetTxnInst(t)]
  BY <1>0, TxnInstOf
<1> DEFINE Copy(i, c) == IF c.op = "blockwrite" THEN [c EXCEPT !.data = {<<i, t, c.n>>}] ELSE c
           cmds(i) == [k \in DOMAIN x.cmds |-> Copy(i, x.cmds[k])]
<1>2. PICK i \in TxnInsts :
          /\ ~Allocated(i)
          /\ insts' = [insts EXCEPT ![i] = [x EXCEPT !.exported = TRUE, !.cmds = cmds(i)]]
  BY <1>1, Zenon DEF XAie_ExportTransactionInstance
<1>3. cmds(i) \in Seq(Cmds)
  <2>1. x.cmds \in Seq(Cmds)
    BY DEF Insts
  <2>2. ASSUME NEW k \in DOMAIN x.cmds PROVE Copy(i, x.cmds[k]) \in Cmds
    <3>1. x.cmds[k] \in Cmds
      BY <2>1
    <3>2. {<<i, t, x.cmds[k].n>>} \in SUBSET DataPtrs
      BY <3>1 DEF Cmds, DataPtrs
    <3> QED
      BY <3>1, <3>2 DEF Cmds
  <2> HIDE DEF Copy
  <2>3. DOMAIN x.cmds = 1 .. Len(x.cmds) /\ Len(x.cmds) \in Nat
    BY <2>1
  <2>4. cmds(i) \in [1 .. Len(x.cmds) -> Cmds]
    BY <2>2, <2>3
  <2> QED
    BY <2>3, <2>4, SeqDef
<1> HIDE DEF cmds
<1>4. [x EXCEPT !.exported = TRUE, !.cmds = cmds(i)] \in Insts
  BY <1>3 DEF Insts
<1>5. \A k \in DOMAIN TxnList : TxnList[k] # i
  BY <1>0, <1>2 DEF ListInv
<1>6. \A u \in Threads : flush[u] # NoFlush => flush[u].inst # i
  BY <1>2 DEF SInv, FlushInv, FlushOf
<1>7. UNCHANGED <<TxnList, flush, issued, done, dropped>>
  BY DEF XAie_ExportTransactionInstance
<1> QED
  BY <1>2, <1>4, <1>5, <1>6, <1>7, Aside

LEMMA XAie_FreeTransactionInstanceStep ==
    ASSUME SInv, XAie_FreeTransactionInstance PROVE Served
<1>1. PICK i \in TxnInsts : /\ insts[i].exported
                            /\ \A t \in Threads : flush[t].inst # i
                            /\ insts' = [insts EXCEPT ![i] = NotAllocated]
  BY DEF XAie_FreeTransactionInstance
<1>2. \A k \in DOMAIN TxnList : TxnList[k] # i
  BY <1>1 DEF SInv, ListInv
<1>3. UNCHANGED <<TxnList, flush, issued, done, dropped>>
  BY DEF XAie_FreeTransactionInstance
<1> QED
  BY <1>1, <1>2, <1>3, Aside

LEMMA XAie_ClearTransactionStep ==
    ASSUME SInv, NEW t \in Threads, XAie_ClearTransaction(t) PROVE Served
<1>0. Types /\ ListInv
  BY DEF SInv
<1>1. /\ flush[t] = NoFlush /\ HasTxn(t) /\ TxnList' = Remove(t)
      /\ insts' = [insts EXCEPT ![GetTxnInst(t)] = NotAllocated]
      /\ dropped' = [dropped EXCEPT ![t] = @ \cup NumsOf(insts[GetTxnInst(t)].cmds)]
      /\ UNCHANGED <<flush, issued, done>>
  BY DEF XAie_ClearTransaction, Idle
<1>2. Waiting(t) = insts[GetTxnInst(t)].cmds
  BY <1>1 DEF Waiting
<1>3. NumsOf(Waiting(t)) \subseteq OpNums
  BY <1>0, WaitingType DEF NumsOf
<1>4. /\ dropped' \in [Threads -> SUBSET OpNums]
      /\ dropped'[t] = dropped[t] \cup NumsOf(Waiting(t))
      /\ \A u \in Threads \ {t} : dropped'[u] = dropped[u]
  BY <1>0, <1>1, <1>2, <1>3 DEF Types
<1>5. /\ TxnList' \in Seq(TxnInsts)
      /\ insts' \in [TxnInsts -> Insts \cup {NotAllocated}]
      /\ ListInv' /\ EmptyInv' /\ Waiting(t)' = <<>>
      /\ \A u \in Threads \ {t} : Undisturbed(u)
  BY <1>1, <1>4, InstRemoved
<1>6. Types'
  BY <1>0, <1>1, <1>4, <1>5 DEF Types
<1>7. Drops(t) /\ FlushOf(t)' /\ Stable(t)
  BY <1>1, <1>4, <1>5 DEF Drops, Own, FlushOf, Stable
<1> QED
  BY <1>5, <1>6, <1>7, UndisturbedKeepsFlush DEF Served, SInv, FlushInv, Effect

LEMMA XAie_FinishStep ==
    ASSUME SInv, XAie_Finish PROVE Served
<1>0. Types /\ ListInv
  BY DEF SInv
<1> DEFINE mine(t) == UNION { NumsOf(insts[i].cmds) : i \in { j \in Listed : insts[j].tid = t } }
<1>1. /\ \A t \in Threads : flush[t] = NoFlush
      /\ insts' = [i \in TxnInsts |-> IF i \in Listed THEN NotAllocated ELSE insts[i]]
      /\ dropped' = [t \in Threads |-> dropped[t] \cup mine(t)]
      /\ TxnList' = <<>> /\ UNCHANGED <<flush, issued, done>>
  BY DEF XAie_Finish, Idle, Listed
<1>2. ASSUME NEW t \in Threads PROVE NumsOf(Waiting(t)) \subseteq mine(t) /\ mine(t) \subseteq OpNums
  <2>1. ASSUME NEW i \in Listed PROVE NumsOf(insts[i].cmds) \subseteq OpNums
    <3>1. insts[i] \in Insts
      BY <1>0 DEF Listed, Types, ListInv, Allocated
    <3>2. insts[i].cmds \in Seq(Cmds)
      BY <3>1 DEF Insts
    <3>3. \A k \in DOMAIN insts[i].cmds : insts[i].cmds[k] \in Cmds
      BY <3>2
    <3> QED
      BY <3>3 DEF NumsOf, Cmds
  <2>2. CASE HasTxn(t)
    <3>1. GetTxnInst(t) \in Listed /\ insts[GetTxnInst(t)].tid = t
      <4>1. /\ NodeOf(t) \in 1 .. Len(TxnList) /\ GetTxnInst(t) = TxnList[NodeOf(t)]
            /\ insts[GetTxnInst(t)].tid = t
        BY <1>0, <2>2, TxnInstOf
      <4>2. DOMAIN TxnList = 1 .. Len(TxnList)
        BY <1>0 DEF Types
      <4> QED
        BY <4>1, <4>2 DEF Listed
    <3>2. Waiting(t) = insts[GetTxnInst(t)].cmds
      BY <2>2 DEF Waiting
    <3> QED
      BY <2>1, <3>1, <3>2
  <2>3. CASE ~HasTxn(t)
    BY <2>1, <2>3 DEF Waiting, NumsOf
  <2> QED
    BY <2>2, <2>3
<1> HIDE DEF mine
<1>3. Types'
  <2>1. insts' \in [TxnInsts -> Insts \cup {NotAllocated}]
    BY <1>0, <1>1 DEF Types
  <2>2. dropped' \in [Threads -> SUBSET OpNums]
    BY <1>0, <1>1, <1>2 DEF Types
  <2> QED
    BY <1>0, <1>1, <2>1, <2>2 DEF Types
<1>4. ListInv' /\ EmptyInv' /\ \A t \in Threads : ~HasTxn(t)'
  BY <1>1 DEF ListInv, EmptyInv, HasTxn
<1>5. ASSUME NEW t \in Threads PROVE FlushOf(t)' /\ Stable(t) /\ Drops(t)
  <2>1. flush'[t] = NoFlush /\ flush[t] = NoFlush
    BY <1>1
  <2>2. Waiting(t)' = <<>>
    BY <1>4 DEF Waiting
  <2>3. dropped'[t] = dropped[t] \cup mine(t)
    BY <1>1
  <2> QED
    BY <1>1, <1>2, <2>1, <2>2, <2>3 DEF FlushOf, Stable, Drops, Own
<1> QED
  BY <1>3, <1>4, <1>5 DEF Served, SInv, FlushInv, Effect

LEMMA NextStep == ASSUME SInv, [Next]_vars PROVE Served
<1>1. ASSUME NEW t \in Threads, NEW auto \in BOOLEAN, XAie_StartTransaction(t, auto) PROVE Served
  BY <1>1, XAie_StartTransactionStep
<1>2. ASSUME NEW t \in Threads,
             \/ RunOnDevice(t) \/ AppendCmd(t) \/ AutoFlush(t)
             \/ XAie_SubmitTransaction(t) \/ SubmitExported(t)
      PROVE  Served
  BY <1>2, RunOnDeviceStep, AppendCmdStep, StartFlushStep
<1>3. ASSUME NEW t \in Threads,
             ExecuteCmd(t) \/ ExecuteCmdFails(t) \/ AutoFlushReturns(t) \/ SubmitReturns(t)
      PROVE  Served
  BY <1>3, ExecuteCmdStep, ExecuteCmdFailsStep, AutoFlushReturnsStep, SubmitReturnsStep
<1>4. ASSUME NEW t \in Threads, XAie_ExportTransactionInstance(t) \/ XAie_ClearTransaction(t)
      PROVE  Served
  BY <1>4, XAie_ExportTransactionInstanceStep, XAie_ClearTransactionStep
<1>5. CASE XAie_FreeTransactionInstance \/ XAie_Finish
  BY <1>5, XAie_FreeTransactionInstanceStep, XAie_FinishStep
<1>6. CASE UNCHANGED vars
  <2>1. UNCHANGED <<TxnList, insts, flush, issued, done, dropped>>
    BY <1>6 DEF vars
  <2>2. Types' /\ \A t \in Threads : Waiting(t)' = Waiting(t)
    BY <2>1, ListKept DEF SInv, Types
  <2>3. /\ ListInv' /\ EmptyInv'
        /\ \A t \in Threads : HasTxn(t) => HasTxn(t)' /\ GetTxnInst(t)' = GetTxnInst(t)
    BY <2>1, ListKept
  <2>4. \A t \in Threads : Undisturbed(t)
    BY <2>1, <2>2, <2>3 DEF Undisturbed, Calm
  <2> QED
    BY <2>2, <2>3, <2>4, AllUndisturbed
<1> QED
  BY <1>1, <1>2, <1>3, <1>4, <1>5, <1>6 DEF Next

LEMMA InitServed == ASSUME Init PROVE SInv /\ \A t \in Threads : ThreadInv(t) /\ OnceOf(t)
<1>1. Types
  BY MaxOpsAssumption DEF Init, Types
<1>2. ListInv /\ EmptyInv /\ FlushInv
  BY DEF Init, ListInv, EmptyInv, FlushInv, FlushOf
<1>3. \A t \in Threads : Waiting(t) = <<>> /\ ~Own(t)
  BY DEF Init, Waiting, HasTxn, Own
<1>4. \A t \in Threads : issued[t] = 0 /\ \A n \in OpNums : done[t][n] = 0
  BY DEF Init
<1> QED
  BY <1>1, <1>2, <1>3, <1>4 DEF SInv, ThreadInv, OnceOf, HasRun

-----------------------------------------------------------------------------
(* The theorems.                                                           *)

Inv == SInv /\ \A t \in Threads : ThreadInv(t)

LEMMA InvHolds == Spec => []Inv
<1>1. Init => Inv
  BY InitServed DEF Inv
<1>2. Inv /\ [Next]_vars => Inv'
  BY NextStep, EffectKeepsThread DEF Inv, Served
<1> QED
  BY <1>1, <1>2, PTL DEF Spec

LEMMA DataCopies ==
    ASSUME SInv, heap \subseteq DataPtrs, [Next]_vars
    PROVE  heap' \subseteq DataPtrs
<1>0. Types /\ ListInv
  BY DEF SInv
<1>1. ASSUME NEW t \in Threads, AppendCmd(t) PROVE heap' \subseteq DataPtrs
  <2>1. GetTxnInst(t) \in TxnInsts /\ issued[t] + 1 \in OpNums
    BY <1>0, <1>1, TxnInstOf, Issue DEF AppendCmd
  <2>2. {<<GetTxnInst(t), t, issued[t] + 1>>} \subseteq DataPtrs
    BY <2>1 DEF DataPtrs
  <2>3. heap' \subseteq heap \cup {<<GetTxnInst(t), t, issued[t] + 1>>}
    BY <1>1 DEF AppendCmd
  <2> QED
    BY <2>2, <2>3
<1>2. ASSUME NEW t \in Threads, XAie_ExportTransactionInstance(t) PROVE heap' \subseteq DataPtrs
  <2>1. PICK x \in Insts : x = insts[GetTxnInst(t)]
    BY <1>0, <1>2, TxnInstOf DEF XAie_ExportTransactionInstance
  <2> DEFINE Copy(i, c) == IF c.op = "blockwrite" THEN [c EXCEPT !.data = {<<i, t, c.n>>}] ELSE c
             cmds(i) == [k \in DOMAIN x.cmds |-> Copy(i, x.cmds[k])]
  <2>2. PICK i \in TxnInsts : heap' = heap \cup DataOf(cmds(i))
    BY <1>2, <2>1, Zenon DEF XAie_ExportTransactionInstance
  <2>3. ASSUME NEW k \in DOMAIN x.cmds PROVE Copy(i, x.cmds[k]).data \subseteq DataPtrs
    <3>1. x.cmds[k] \in Cmds
      BY DEF Insts
    <3>2. {<<i, t, x.cmds[k].n>>} \subseteq DataPtrs
      BY <3>1 DEF Cmds, DataPtrs
    <3> QED
      BY <3>1, <3>2 DEF Cmds
  <2> HIDE DEF Copy
  <2>4. DataOf(cmds(i)) \subseteq DataPtrs
    BY <2>3 DEF DataOf
  <2> QED
    BY <2>2, <2>4
<1>3. ASSUME NEW t \in Threads, NEW auto \in BOOLEAN,
             \/ XAie_StartTransaction(t, auto) \/ RunOnDevice(t) \/ AutoFlush(t)
             \/ XAie_SubmitTransaction(t) \/ SubmitExported(t) \/ ExecuteCmdFails(t)
             \/ AutoFlushReturns(t) \/ SubmitReturns(t)
      PROVE  heap' = heap
  BY <1>3 DEF XAie_StartTransaction, RunOnDevice, AutoFlush, StartFlush, XAie_SubmitTransaction,
              SubmitExported, ExecuteCmdFails, AutoFlushReturns, SubmitReturns
<1>4. ASSUME NEW t \in Threads, ExecuteCmd(t) \/ XAie_ClearTransaction(t)
      PROVE  heap' \subseteq heap
  BY <1>4 DEF ExecuteCmd, XAie_ClearTransaction
<1>5. ASSUME XAie_FreeTransactionInstance \/ XAie_Finish PROVE heap' \subseteq heap
  BY <1>5 DEF XAie_FreeTransactionInstance, XAie_Finish
<1>6. CASE UNCHANGED vars
  BY <1>6 DEF vars
<1>7. BOOLEAN # {}
  OBVIOUS
<1> QED
  BY <1>1, <1>2, <1>3, <1>4, <1>5, <1>6, <1>7 DEF Next

(* The state is what the driver keeps: the list holds allocated instances, *)
(* a flush is at a command of an instance, a copy belongs to a command.    *)
THEOREM TypeOKHolds == Spec => []TypeOK
<1> DEFINE HeapOK == heap \subseteq DataPtrs
<1>1. Init => HeapOK
  BY DEF Init
<1>2. Inv /\ HeapOK /\ [Next]_vars => HeapOK'
  BY DataCopies DEF Inv
<1>3. Inv /\ HeapOK => TypeOK
  <2> SUFFICES ASSUME Inv, HeapOK PROVE TypeOK
    OBVIOUS
  <2>1. Types /\ ListInv
    BY DEF Inv, SInv
  <2>2. TxnList \in [1 .. Len(TxnList) -> { i \in TxnInsts : Allocated(i) }] /\ Len(TxnList) \in Nat
    BY <2>1 DEF Types, ListInv
  <2>3. TxnList \in Seq({ i \in TxnInsts : Allocated(i) })
    BY <2>2, SeqDef
  <2> QED
    BY <2>1, <2>3 DEF TypeOK, Types
<1> HIDE DEF HeapOK
<1> QED
  BY <1>1, <1>2, <1>3, InvHolds, PTL DEF Spec

(* Whatever the mix of buffered, flushed and direct operations, other      *)
(* threads' calls and failed flushes: an operation that ran was preceded   *)
(* by every earlier one of its thread that was not thrown away.            *)
THEOREM ProgramOrderHolds == Spec => []ProgramOrder
<1>1. Inv => ProgramOrder
  BY DEF Inv, ThreadInv, ProgramOrder
<1> QED
  BY <1>1, InvHolds, PTL

(* An operation that returned XAIE_OK ran, was thrown away on request, or  *)
(* waits in the transaction of its thread.                                 *)
THEOREM NothingLostHolds == Spec => []NothingLost
<1>1. ASSUME Inv PROVE NothingLost
  <2>1. Types /\ ListInv
    BY <1>1 DEF Inv, SInv
  <2>2. ASSUME NEW t \in Threads, NEW n \in NumsOf(Waiting(t))
        PROVE  \E k \in DOMAIN TxnList : /\ insts[TxnList[k]].tid = t
                                         /\ n \in NumsOf(insts[TxnList[k]].cmds)
    <3>1. HasTxn(t)
      BY <2>2 DEF Waiting, NumsOf
    <3>2. /\ NodeOf(t) \in 1 .. Len(TxnList) /\ GetTxnInst(t) = TxnList[NodeOf(t)]
          /\ insts[GetTxnInst(t)].tid = t
      BY <2>1, <3>1, TxnInstOf
    <3>3. DOMAIN TxnList = 1 .. Len(TxnList)
      BY <2>1 DEF Types
    <3> QED
      BY <2>2, <3>1, <3>2, <3>3 DEF Waiting
  <2> QED
    BY <1>1, <2>2 DEF Inv, ThreadInv, NothingLost
<1> QED
  BY <1>1, InvHolds, PTL

(* On a device that refuses no operation, none of a transaction is run     *)
(* twice: not by a second flush, nor by another thread's.                  *)
THEOREM AtMostOnceHolds == ASSUME ~CanFail PROVE Spec => []AtMostOnce
<1> DEFINE Once == \A t \in Threads : OnceOf(t)
<1>1. Init => Once
  BY InitServed
<1>2. Inv /\ Inv' /\ Once /\ [Next]_vars => Once'
  BY NextStep, EffectKeepsOnce DEF Inv, Served
<1>3. Once => AtMostOnce
  BY DEF OnceOf, AtMostOnce
<1> HIDE DEF Once
<1> QED
  BY <1>1, <1>2, <1>3, InvHolds, PTL DEF Spec

-----------------------------------------------------------------------------
(* The data copies.  The copies of an instance are those of its commands   *)
(* that have to run, and bear its name, its thread and the operation.      *)

Of(i) == {i} \X Threads \X OpNums

Tagged(i) ==
    \A c \in DOMAIN insts[i].cmds :
        insts[i].cmds[c].data = IF insts[i].cmds[c].op = "blockwrite"
                                THEN {<<i, insts[i].tid, insts[i].cmds[c].n>>} ELSE {}

BufferOf(i) ==
    IF Allocated(i) THEN Tagged(i) /\ heap \cap Of(i) = PendingData(i) ELSE heap \cap Of(i) = {}

Buffers == heap \subseteq DataPtrs /\ \A i \in TxnInsts : BufferOf(i)

LEMMA BuffersOwned == ASSUME Buffers PROVE BuffersAreOwned
<1>1. \A i \in Live : PendingData(i) = heap \cap Of(i)
  BY DEF Buffers, BufferOf, Live
<1>2. ASSUME NEW d \in heap PROVE \E i \in Live : d \in PendingData(i)
  <2>1. PICK i \in TxnInsts : d \in Of(i)
    BY <1>2 DEF Buffers, DataPtrs, Of
  <2>2. i \in Live
    BY <1>2, <2>1 DEF Buffers, BufferOf, Live
  <2> QED
    BY <1>1, <1>2, <2>1, <2>2
<1>3. \A i, j \in Live : i # j => Of(i) \cap Of(j) = {}
  BY DEF Of
<1> QED
  BY <1>1, <1>2, <1>3 DEF BuffersAreOwned

(* What is neither flushed nor changed keeps its copies.                   *)
LEMMA Untouched ==
    ASSUME Types, Types', NEW i \in TxnInsts, BufferOf(i), insts'[i] = insts[i],
           heap' \cap Of(i) = heap \cap Of(i),
           Allocated(i) /\ ~insts[i].exported =>
               \A t \in Threads : \/ flush'[t] = flush[t]
                                  \/ /\ flush[t].inst = i => flush[t].k <= 1
                                     /\ flush'[t].inst = i => flush'[t].k <= 1
    PROVE  BufferOf(i)'
<1>1. Allocated(i)' <=> Allocated(i)
  BY DEF Allocated
<1>2. CASE ~Allocated(i)
  BY <1>1, <1>2 DEF BufferOf
<1>3. CASE Allocated(i)
  <2>1. insts[i] \in Insts
    BY <1>3 DEF Types, Allocated
  <2>2. DOMAIN insts[i].cmds = 1 .. Len(insts[i].cmds) /\ Len(insts[i].cmds) \in Nat
    BY <2>1 DEF Insts
  <2>3. \A t \in Threads : flush[t].k \in Nat /\ flush'[t].k \in Nat
    BY DEF Types, NoFlush
  <2>4. PendingCmds(i)' = PendingCmds(i)
    <3>1. CASE insts[i].exported
      BY <3>1 DEF PendingCmds
    <3>2. CASE ~insts[i].exported
      <4>1. ASSUME NEW c \in DOMAIN insts[i].cmds, NEW t \in Threads
            PROVE  (flush[t].inst = i => c >= flush[t].k) <=> (flush'[t].inst = i => c >= flush'[t].k)
        <5>1. c \in Nat /\ c >= 1
          BY <2>2
        <5>2. \/ flush'[t] = flush[t]
              \/ /\ flush[t].inst = i => flush[t].k <= 1
                 /\ flush'[t].inst = i => flush'[t].k <= 1
          BY <1>3, <3>2
        <5> QED
          BY <2>3, <5>1, <5>2
      <4> QED
        BY <3>2, <4>1 DEF PendingCmds
    <3> QED
      BY <3>1, <3>2
  <2>5. PendingData(i)' = PendingData(i)
    BY <2>4 DEF PendingData
  <2>6. Tagged(i)'
    BY <1>3 DEF BufferOf, Tagged
  <2> QED
    BY <1>1, <1>3, <2>5, <2>6 DEF BufferOf
<1> QED
  BY <1>2, <1>3

(* Nothing of an instance that no thread flushes has run.                  *)
LEMMA PendingAll ==
    ASSUME Types, NEW i \in TxnInsts, Allocated(i),
           insts[i].exported \/ \A t \in Threads : flush[t].inst = i => flush[t].k <= 1
    PROVE  PendingCmds(i) = DOMAIN insts[i].cmds /\ PendingData(i) = DataOf(insts[i].cmds)
<1>1. DOMAIN insts[i].cmds = 1 .. Len(insts[i].cmds) /\ Len(insts[i].cmds) \in Nat
  BY DEF Types, Allocated, Insts
<1>2. \A t \in Threads : flush[t].k \in Nat
  BY DEF Types, NoFlush
<1>3. PendingCmds(i) = DOMAIN insts[i].cmds
  <2>1. CASE insts[i].exported
    BY <2>1 DEF PendingCmds
  <2>2. CASE ~insts[i].exported
    <3>1. ASSUME NEW c \in DOMAIN insts[i].cmds, NEW t \in Threads, flush[t].inst = i
          PROVE  c >= flush[t].k
      BY <1>1, <1>2, <2>2, <3>1
    <3> QED
      BY <3>1 DEF PendingCmds
  <2> QED
    BY <2>1, <2>2
<1> QED
  BY <1>3 DEF PendingData, DataOf

LEMMA PendingAllNext ==
    ASSUME Types', NEW i \in TxnInsts, Allocated(i)',
           insts'[i].exported \/ \A t \in Threads : flush'[t].inst = i => flush'[t].k <= 1
    PROVE  PendingData(i)' = DataOf(insts'[i].cmds)
<1>1. DOMAIN insts'[i].cmds = 1 .. Len(insts'[i].cmds) /\ Len(insts'[i].cmds) \in Nat
  BY DEF Types, Allocated, Insts
<1>2. \A t \in Threads : flush'[t].k \in Nat
  BY DEF Types, NoFlush
<1>3. PendingCmds(i)' = DOMAIN insts'[i].cmds
  <2>1. CASE insts'[i].exported
    BY <2>1 DEF PendingCmds
  <2>2. CASE ~insts'[i].exported
    <3>1. ASSUME NEW c \in DOMAIN insts'[i].cmds, NEW t \in Threads, flush'[t].inst = i
          PROVE  c >= flush'[t].k
      BY <1>1, <1>2, <2>2, <3>1
    <3> QED
      BY <3>1 DEF PendingCmds
  <2> QED
    BY <2>1, <2>2
<1> QED
  BY <1>3 DEF PendingData, DataOf

(* A thread that is not in a flush: its instance waits as a whole.         *)
LEMMA WaitsAsAWhole ==
    ASSUME SInv, Buffers, NEW t \in Threads, HasTxn(t), flush[t] = NoFlush
    PROVE  LET i == GetTxnInst(t)
           IN  /\ Allocated(i) /\ Tagged(i) /\ heap \cap Of(i) = DataOf(insts[i].cmds)
               /\ \A u \in Threads : flush[u].inst = i => flush[u].k <= 1
<1>1. Types /\ ListInv
  BY DEF SInv
<1>2. PICK i \in TxnInsts : i = GetTxnInst(t) /\ insts[i] \in Insts
  BY <1>1, TxnInstOf
<1>3. Allocated(i)
  BY <1>2, NoneAssumption DEF Allocated, NotAllocated, Insts
<1>4. \A u \in Threads : flush[u].inst = i => flush[u].k <= 1
  <2> SUFFICES ASSUME NEW u \in Threads, flush[u].inst = i PROVE flush[u].k <= 1
    OBVIOUS
  <2>1. flush[u] = NoFlush
    <3>1. CASE u = t
      BY <3>1
    <3>2. CASE u # t
      BY <1>2, <3>2, Apart
    <3> QED
      BY <3>1, <3>2
  <2> QED
    BY <2>1 DEF NoFlush
<1>5. PendingData(i) = DataOf(insts[i].cmds)
  BY <1>1, <1>3, <1>4, PendingAll
<1>6. BufferOf(i)
  BY DEF Buffers
<1> QED
  BY <1>2, <1>3, <1>4, <1>5, <1>6 DEF BufferOf

(* Steps that leave the instances and their copies alone.                  *)
LEMMA CopiesKept ==
    ASSUME SInv, SInv', Buffers, NEW t \in Threads, insts' = insts, heap' = heap,
           \A u \in Threads \ {t} : flush'[u] = flush[u],
           \A i \in TxnInsts : Allocated(i) /\ ~insts[i].exported =>
               /\ flush[t].inst = i => flush[t].k <= 1
               /\ flush'[t].inst = i => flush'[t].k <= 1
    PROVE  Buffers'
<1>1. Types /\ Types'
  BY DEF SInv
<1>2. ASSUME NEW i \in TxnInsts PROVE BufferOf(i)'
  <2>1. BufferOf(i)
    BY DEF Buffers
  <2>2. Allocated(i) /\ ~insts[i].exported =>
            \A u \in Threads : \/ flush'[u] = flush[u]
                               \/ /\ flush[u].inst = i => flush[u].k <= 1
                                  /\ flush'[u].inst = i => flush'[u].k <= 1
    OBVIOUS
  <2> QED
    BY <1>1, <2>1, <2>2, Untouched
<1> QED
  BY <1>2 DEF Buffers

LEMMA QuietStepCopies ==
    ASSUME SInv, SInv', Buffers, NEW t \in Threads,
           \/ RunOnDevice(t) \/ AutoFlush(t) \/ XAie_SubmitTransaction(t) \/ SubmitExported(t)
    PROVE  Buffers'
<1>1. Types
  BY DEF SInv
<1>2. insts' = insts /\ heap' = heap /\ flush[t] = NoFlush
  BY DEF RunOnDevice, AutoFlush, XAie_SubmitTransaction, SubmitExported, StartFlush, MayIssue, Idle
<1>3. /\ flush'[t].k \in {0, 1}
      /\ \A u \in Threads \ {t} : flush'[u] = flush[u]
  <2>1. CASE RunOnDevice(t)
    BY <1>2, <2>1 DEF RunOnDevice, NoFlush
  <2>2. ASSUME NEW i, NEW op, StartFlush(t, i, op)
        PROVE  flush'[t].k = 1 /\ \A u \in Threads \ {t} : flush'[u] = flush[u]
    BY <1>1, <2>2 DEF StartFlush, Types
  <2> QED
    BY <2>1, <2>2 DEF AutoFlush, XAie_SubmitTransaction, SubmitExported
<1> QED
  BY <1>2, <1>3, CopiesKept DEF NoFlush

LEMMA StartCopies ==
    ASSUME SInv, SInv', Buffers, NEW t \in Threads, NEW auto \in BOOLEAN,
           XAie_StartTransaction(t, auto)
    PROVE  Buffers'
<1>1. Types /\ Types' /\ heap' = heap /\ flush' = flush
  BY DEF SInv, XAie_StartTransaction
<1>2. PICK i \in TxnInsts : /\ ~Allocated(i)
                            /\ insts' = [insts EXCEPT ![i] = [tid |-> t, autoFlush |-> auto,
                                                             exported |-> FALSE, cmds |-> <<>>]]
  BY DEF XAie_StartTransaction
<1>3. insts'[i].cmds = <<>> /\ \A j \in TxnInsts \ {i} : insts'[j] = insts[j]
  BY <1>1, <1>2 DEF Types
<1>4. Tagged(i)' /\ PendingData(i)' = {}
  BY <1>3 DEF Tagged, PendingData, PendingCmds
<1>5. heap \cap Of(i) = {}
  BY <1>2 DEF Buffers, BufferOf
<1>6. ASSUME NEW j \in TxnInsts PROVE BufferOf(j)'
  <2>1. CASE j = i
    BY <1>1, <1>4, <1>5, <2>1 DEF BufferOf
  <2>2. CASE j # i
    <3>1. BufferOf(j) /\ insts'[j] = insts[j]
      BY <1>3, <2>2 DEF Buffers
    <3> QED
      BY <1>1, <3>1, Untouched
  <2> QED
    BY <2>1, <2>2
<1> QED
  BY <1>1, <1>6 DEF Buffers

LEMMA AppendCopies ==
    ASSUME SInv, SInv', Buffers, "custom" \notin Ops, NEW t \in Threads, AppendCmd(t)
    PROVE  Buffers'
<1>1. Types /\ Types' /\ ListInv /\ flush[t] = NoFlush /\ HasTxn(t) /\ flush' = flush
  BY DEF SInv, AppendCmd, MayIssue, Idle
<1>2. PICK n \in OpNums : n = issued[t] + 1
  BY <1>1, Issue DEF AppendCmd
<1>3. PICK i \in TxnInsts : i = GetTxnInst(t) /\ insts[i] \in Insts /\ insts[i].tid = t
  BY <1>1, TxnInstOf
<1>4. PICK op \in Ops : LET data == IF op \in {"blockwrite", "custom"} THEN {<<i, t, n>>} ELSE {}
                       IN  /\ insts' = [insts EXCEPT ![i].cmds =
                                           Append(@, [op |-> op, n |-> n, data |-> data])]
                           /\ heap' = heap \cup data
  BY <1>2, <1>3, Zenon DEF AppendCmd
<1> DEFINE data == IF op = "blockwrite" THEN {<<i, t, n>>} ELSE {}
           cs == insts[i].cmds
           c == [op |-> op, n |-> n, data |-> data]
<1>5. insts' = [insts EXCEPT ![i].cmds = Append(cs, c)] /\ heap' = heap \cup data
  <2>1. op # "custom"
    OBVIOUS
  <2> QED
    BY <1>1, <1>3, <1>4, <2>1
<1>6. c.op = op /\ c.n = n /\ c.data = data
  OBVIOUS
<1>7. data \subseteq Of(i) /\ Of(i) \subseteq DataPtrs
  BY DEF Of, DataPtrs
<1>8. cs \in Seq(Cmds) /\ Len(cs) \in Nat /\ DOMAIN cs = 1 .. Len(cs)
  BY <1>3 DEF Insts
<1>9. /\ insts'[i].cmds = Append(cs, c) /\ insts'[i].tid = t /\ insts'[i].exported = insts[i].exported
      /\ \A j \in TxnInsts \ {i} : insts'[j] = insts[j]
  <2> HIDE DEF cs, c
  <2> QED
    BY <1>1, <1>3, <1>5 DEF Types, Insts
<1> HIDE DEF data, c
<1>10. /\ \A k \in 1 .. Len(cs) : Append(cs, c)[k] = cs[k]
       /\ Append(cs, c)[Len(cs) + 1] = c /\ DOMAIN Append(cs, c) = 1 .. Len(cs) + 1
  BY <1>8
<1> HIDE DEF cs
<1>11. /\ Tagged(i) /\ heap \cap Of(i) = DataOf(cs) /\ Allocated(i)
       /\ \A u \in Threads : flush[u].inst = i => flush[u].k <= 1
  BY <1>1, <1>3, WaitsAsAWhole DEF cs
<1>12. Allocated(i)'
  <2>1. HasTxn(t)' /\ GetTxnInst(t)' = i
    <3>1. TxnList' = TxnList
      BY DEF AppendCmd
    <3>2. \A k \in DOMAIN TxnList : insts'[TxnList[k]].tid = insts[TxnList[k]].tid
      <4>1. \A k \in DOMAIN TxnList : TxnList[k] \in TxnInsts
        BY <1>1 DEF Types
      <4>2. \A j \in TxnInsts : insts'[j].tid = insts[j].tid
        BY <1>3, <1>9
      <4> QED
        BY <4>1, <4>2
    <3> QED
      BY <1>1, <1>3, <3>1, <3>2, SameNode
  <2> QED
    BY <1>9, NoneAssumption DEF Allocated, NotAllocated
<1>13. Tagged(i)'
  <2> SUFFICES ASSUME NEW k \in 1 .. Len(cs) + 1
               PROVE  insts'[i].cmds[k].data = IF insts'[i].cmds[k].op = "blockwrite"
                                              THEN {<<i, t, insts'[i].cmds[k].n>>} ELSE {}
    BY <1>9, <1>10 DEF Tagged
  <2>1. CASE k \in 1 .. Len(cs)
    <3>1. insts'[i].cmds[k] = cs[k]
      BY <1>9, <1>10, <2>1
    <3>2. cs[k].data = IF cs[k].op = "blockwrite" THEN {<<i, t, cs[k].n>>} ELSE {}
      BY <1>3, <1>8, <1>11, <2>1 DEF Tagged, cs
    <3> QED
      BY <3>1, <3>2
  <2>2. CASE k = Len(cs) + 1
    BY <1>6, <1>9, <1>10, <2>2 DEF data
  <2> QED
    BY <1>8, <2>1, <2>2
<1>14. PendingData(i)' = DataOf(Append(cs, c))
  BY <1>1, <1>9, <1>11, <1>12, PendingAllNext
<1>15. DataOf(Append(cs, c)) = DataOf(cs) \cup data
  <2>1. ASSUME NEW d PROVE d \in DataOf(Append(cs, c)) <=> d \in DataOf(cs) \/ d \in data
    <3>1. d \in DataOf(Append(cs, c)) <=> \E k \in 1 .. Len(cs) + 1 : d \in Append(cs, c)[k].data
      BY <1>10 DEF DataOf
    <3>2. d \in DataOf(cs) <=> \E k \in 1 .. Len(cs) : d \in cs[k].data
      BY <1>8 DEF DataOf, cs
    <3> QED
      BY <1>6, <1>8, <1>10, <3>1, <3>2
  <2> QED
    BY <2>1
<1>16. heap' \cap Of(i) = PendingData(i)'
  BY <1>5, <1>7, <1>11, <1>14, <1>15 DEF data
<1>17. ASSUME NEW j \in TxnInsts PROVE BufferOf(j)'
  <2>1. CASE j = i
    BY <1>12, <1>13, <1>16, <2>1 DEF BufferOf
  <2>2. CASE j # i
    <3>1. BufferOf(j) /\ insts'[j] = insts[j]
      BY <1>9, <2>2 DEF Buffers
    <3>2. heap' \cap Of(j) = heap \cap Of(j)
      BY <1>5, <1>7, <2>2 DEF Of, data
    <3> QED
      BY <1>1, <3>1, <3>2, Untouched
  <2> QED
    BY <2>1, <2>2
<1>18. heap' \subseteq DataPtrs
  BY <1>5, <1>7 DEF Buffers, data
<1> QED
  BY <1>17, <1>18 DEF Buffers

LEMMA ExecuteCopies ==
    ASSUME SInv, SInv', Buffers, NEW t \in Threads, ThreadInv(t), ExecuteCmd(t)
    PROVE  Buffers'
<1>0. Types /\ Types' /\ Flushing(t) /\ CmdsLeft(t)
  BY DEF SInv, ExecuteCmd
<1>1. PICK i \in TxnInsts, k \in Nat \ {0} : i = flush[t].inst /\ k = flush[t].k
  BY <1>0, Flushed
<1>2. /\ insts[i] = FlushedInst(t) /\ insts[i] \in Insts /\ k \in DOMAIN insts[i].cmds
      /\ DOMAIN insts[i].cmds = 1 .. Len(insts[i].cmds) /\ Len(insts[i].cmds) \in Nat
      /\ NextCmd(t) = insts[i].cmds[k]
  BY <1>0, <1>1, Flushed DEF FlushedInst, CmdsLeft, NextCmd
<1>3. /\ insts' = insts /\ flush'[t] = [flush[t] EXCEPT !.k = k + 1]
      /\ \A u \in Threads \ {t} : flush'[u] = flush[u]
      /\ heap' = IF insts[i].cmds[k].op = "blockwrite" /\ ~insts[i].exported
                 THEN heap \ insts[i].cmds[k].data ELSE heap
  BY <1>0, <1>1, <1>2 DEF ExecuteCmd, Types
<1>4. flush'[t].inst = i /\ flush'[t].k = k + 1 /\ flush[t] # NoFlush
  BY <1>0, <1>1, <1>3, Flushed DEF Flushing, Idle
<1>5. Allocated(i) /\ BufferOf(i)
  BY <1>1, <1>4 DEF SInv, FlushInv, FlushOf, Buffers
<1>6. Tagged(i) /\ heap \cap Of(i) = PendingData(i)
  BY <1>5 DEF BufferOf
<1>7. insts[i].cmds[k].data = IF insts[i].cmds[k].op = "blockwrite"
                              THEN {<<i, insts[i].tid, insts[i].cmds[k].n>>} ELSE {}
  BY <1>2, <1>6 DEF Tagged
<1>8. ASSUME NEW j \in TxnInsts \ {i} PROVE BufferOf(j)'
  <2>1. BufferOf(j) /\ insts'[j] = insts[j]
    BY <1>3 DEF Buffers
  <2>2. heap' \cap Of(j) = heap \cap Of(j)
    BY <1>3, <1>7 DEF Of
  <2>3. \A u \in Threads : \/ flush'[u] = flush[u]
                          \/ /\ flush[u].inst = j => flush[u].k <= 1
                             /\ flush'[u].inst = j => flush'[u].k <= 1
    BY <1>1, <1>3, <1>4
  <2> QED
    BY <1>0, <2>1, <2>2, <2>3, Untouched
<1>9. CASE insts[i].exported
  <2>1. heap' = heap /\ insts'[i] = insts[i]
    BY <1>3, <1>9
  <2>2. BufferOf(i)'
    BY <1>0, <1>5, <1>9, <2>1, Untouched
  <2> QED
    BY <1>8, <2>1, <2>2 DEF Buffers
<1>10. CASE ~insts[i].exported
  <2>1. Own(t) /\ Waiting(t) = insts[i].cmds /\ HasTxn(t) /\ GetTxnInst(t) = i
    BY <1>0, <1>1, <1>2, <1>10, Flushed
  <2>2. \A c \in DOMAIN insts[i].cmds : k < c => insts[i].cmds[k].n # insts[i].cmds[c].n
    <3> SUFFICES ASSUME NEW c \in DOMAIN insts[i].cmds, k < c
                 PROVE  insts[i].cmds[k].n # insts[i].cmds[c].n
      OBVIOUS
    <3>1. insts[i].cmds[k].n < insts[i].cmds[c].n
      BY <1>2, <2>1 DEF ThreadInv
    <3>2. insts[i].cmds[k].n \in OpNums /\ insts[i].cmds[c].n \in OpNums
      BY <1>2, <2>1, WaitingType DEF SInv
    <3> QED
      BY <3>1, <3>2 DEF OpNums
  <2>3. \A u \in Threads \ {t} : flush[u].inst = i => flush[u].k = 0
    <3>1. \A u \in Threads \ {t} : flush[u] # NoFlush => flush[u].inst # i
      BY <2>1, Apart
    <3> QED
      BY <3>1 DEF NoFlush
  <2>4. /\ PendingCmds(i) = { c \in DOMAIN insts[i].cmds : c >= k }
        /\ PendingCmds(i)' = { c \in DOMAIN insts[i].cmds : c >= k + 1 }
    <3>1. ASSUME NEW c \in DOMAIN insts[i].cmds
          PROVE  /\ c >= k <=> \A u \in Threads : flush[u].inst = i => c >= flush[u].k
                 /\ c >= k + 1 <=> \A u \in Threads : flush'[u].inst = i => c >= flush'[u].k
      <4>1. c \in Nat /\ c >= 0
        BY <1>2
      <4>2. \A u \in Threads \ {t} : /\ flush[u].inst = i => c >= flush[u].k
                                     /\ flush'[u].inst = i => c >= flush'[u].k
        BY <1>3, <2>3, <4>1
      <4> QED
        BY <1>1, <1>4, <4>2
    <3> QED
      BY <1>3, <1>10, <3>1 DEF PendingCmds
  <2>5. ASSUME NEW d
        PROVE  d \in PendingData(i)' <=> d \in PendingData(i) /\ d \notin insts[i].cmds[k].data
    <3>1. d \in PendingData(i) <=> \E c \in DOMAIN insts[i].cmds : c >= k /\ d \in insts[i].cmds[c].data
      BY <2>4 DEF PendingData
    <3>2. d \in PendingData(i)' <=> \E c \in DOMAIN insts[i].cmds : c >= k + 1 /\ d \in insts[i].cmds[c].data
      BY <1>3, <2>4 DEF PendingData
    <3>3. \A c \in DOMAIN insts[i].cmds : c >= k <=> c = k \/ c >= k + 1
      BY <1>2
    <3>4. ASSUME NEW c \in DOMAIN insts[i].cmds, c >= k + 1, d \in insts[i].cmds[c].data
          PROVE  d \notin insts[i].cmds[k].data
      <4>1. d = <<i, insts[i].tid, insts[i].cmds[c].n>>
        BY <1>6, <3>4 DEF Tagged
      <4>2. k < c
        BY <1>2, <3>4
      <4> QED
        BY <1>7, <2>2, <4>1, <4>2
    <3> QED
      BY <1>2, <3>1, <3>2, <3>3, <3>4
  <2>6. PendingData(i)' = PendingData(i) \ insts[i].cmds[k].data
    BY <2>5
  <2>7. heap' \cap Of(i) = PendingData(i)'
    BY <1>3, <1>6, <1>7, <1>10, <2>6
  <2>8. Tagged(i)' /\ Allocated(i)'
    BY <1>3, <1>5, <1>6 DEF Tagged, Allocated
  <2>9. BufferOf(i)'
    BY <2>7, <2>8 DEF BufferOf
  <2>10. heap' \subseteq DataPtrs
    BY <1>3 DEF Buffers
  <2> QED
    BY <1>8, <2>9, <2>10 DEF Buffers
<1> QED
  BY <1>9, <1>10

(* A flush that is over: its instance has no copies any more.              *)
LEMMA FlushOverCopies ==
    ASSUME SInv, SInv', Buffers, NEW t \in Threads, AutoFlushReturns(t) \/ SubmitReturns(t)
    PROVE  Buffers'
<1>0. Types /\ Types' /\ Flushing(t) /\ ~CmdsLeft(t) /\ heap' = heap
  BY DEF SInv, AutoFlushReturns, SubmitReturns
<1>1. PICK i \in TxnInsts, k \in Nat \ {0} : i = flush[t].inst /\ k = flush[t].k
  BY <1>0, Flushed
<1>2. /\ flush'[t] = NoFlush /\ \A u \in Threads \ {t} : flush'[u] = flush[u]
      /\ flush[t] # NoFlush
  BY <1>0 DEF AutoFlushReturns, SubmitReturns, Types, Flushing, Idle
<1>3. /\ insts[i] = FlushedInst(t) /\ insts[i] \in Insts /\ Allocated(i)
      /\ DOMAIN insts[i].cmds = 1 .. Len(insts[i].cmds) /\ Len(insts[i].cmds) \in Nat
      /\ k > Len(insts[i].cmds)
  BY <1>0, <1>1, <1>2, Flushed DEF FlushedInst, CmdsLeft, SInv, FlushInv, FlushOf
<1>4. flush'[t].k = 0
  BY <1>2 DEF NoFlush
<1>5. CASE insts' = insts /\ insts[i].exported
  <2>1. \A j \in TxnInsts : Allocated(j) /\ ~insts[j].exported =>
            /\ flush[t].inst = j => flush[t].k <= 1
            /\ flush'[t].inst = j => flush'[t].k <= 1
    BY <1>1, <1>4, <1>5
  <2> QED
    BY <1>0, <1>2, <1>5, <2>1, CopiesKept
<1>6. CASE /\ ~insts[i].exported
           /\ \A j \in TxnInsts \ {i} : insts'[j] = insts[j]
           /\ insts'[i] = NotAllocated \/ insts'[i].cmds = <<>>
  <2>1. PendingCmds(i) = {}
    <3>1. \A c \in DOMAIN insts[i].cmds : ~(c >= flush[t].k)
      BY <1>1, <1>3
    <3> QED
      BY <1>1, <1>6, <3>1 DEF PendingCmds
  <2>2. heap \cap Of(i) = {}
    <3>1. PendingData(i) = {}
      BY <2>1 DEF PendingData
    <3> QED
      BY <1>3, <3>1 DEF Buffers, BufferOf
  <2>3. BufferOf(i)'
    <3>1. CASE insts'[i] = NotAllocated
      BY <1>0, <2>2, <3>1 DEF BufferOf, Allocated
    <3>2. CASE insts'[i].cmds = <<>>
      <4>1. Tagged(i)' /\ PendingData(i)' = {}
        BY <3>2 DEF Tagged, PendingData, PendingCmds
      <4> QED
        BY <1>0, <2>2, <4>1 DEF BufferOf
    <3> QED
      BY <1>6, <3>1, <3>2
  <2>4. ASSUME NEW j \in TxnInsts \ {i} PROVE BufferOf(j)'
    <3>1. BufferOf(j) /\ insts'[j] = insts[j]
      BY <1>6 DEF Buffers
    <3>2. \A u \in Threads : \/ flush'[u] = flush[u]
                            \/ /\ flush[u].inst = j => flush[u].k <= 1
                               /\ flush'[u].inst = j => flush'[u].k <= 1
      BY <1>1, <1>2, <1>4
    <3> QED
      BY <1>0, <3>1, <3>2, Untouched
  <2> QED
    BY <1>0, <2>3, <2>4 DEF Buffers
<1>7. CASE AutoFlushReturns(t)
  <2>1. insts' = [insts EXCEPT ![i].cmds = <<>>] /\ flush[t].op # "submit"
    BY <1>1, <1>7 DEF AutoFlushReturns
  <2>2. ~insts[i].exported
    BY <1>1, <1>2, <2>1 DEF SInv, FlushInv, FlushOf, Own
  <2>3. insts'[i].cmds = <<>> /\ \A j \in TxnInsts \ {i} : insts'[j] = insts[j]
    BY <1>0, <1>3, <2>1 DEF Types, Insts
  <2> QED
    BY <1>6, <2>2, <2>3
<1>8. CASE SubmitReturns(t)
  <2>1. CASE insts[i].exported
    BY <1>3, <1>5, <1>8, <2>1 DEF SubmitReturns
  <2>2. CASE ~insts[i].exported
    <3>1. insts' = [insts EXCEPT ![i] = NotAllocated]
      BY <1>1, <1>3, <1>8, <2>2 DEF SubmitReturns
    <3>2. insts'[i] = NotAllocated /\ \A j \in TxnInsts \ {i} : insts'[j] = insts[j]
      BY <1>0, <3>1 DEF Types
    <3> QED
      BY <1>6, <2>2, <3>2
  <2> QED
    BY <2>1, <2>2
<1> QED
  BY <1>7, <1>8

(* An instance that waits as a whole and is freed with its copies.         *)
LEMMA FreedCopies ==
    ASSUME SInv, SInv', Buffers, NEW i \in TxnInsts, flush' = flush,
           insts' = [insts EXCEPT ![i] = NotAllocated],
           heap \cap Of(i) = DataOf(insts[i].cmds), heap' = heap \ DataOf(insts[i].cmds)
    PROVE  Buffers'
<1>1. Types /\ Types'
  BY DEF SInv
<1>2. insts'[i] = NotAllocated /\ \A j \in TxnInsts \ {i} : insts'[j] = insts[j]
  BY <1>1 DEF Types
<1>3. heap' \cap Of(i) = {}
  OBVIOUS
<1>4. BufferOf(i)'
  BY <1>2, <1>3 DEF BufferOf, Allocated
<1>5. ASSUME NEW j \in TxnInsts \ {i} PROVE BufferOf(j)'
  <2>1. BufferOf(j) /\ insts'[j] = insts[j]
    BY <1>2 DEF Buffers
  <2>2. heap' \cap Of(j) = heap \cap Of(j)
    BY DEF Of
  <2> QED
    BY <1>1, <2>1, <2>2, Untouched
<1> QED
  BY <1>4, <1>5 DEF Buffers

LEMMA FreeCopies ==
    ASSUME SInv, SInv', Buffers, XAie_FreeTransactionInstance PROVE Buffers'
<1>1. PICK i \in TxnInsts : /\ Allocated(i) /\ insts[i].exported
                            /\ heap' = heap \ DataOf(insts[i].cmds)
                            /\ insts' = [insts EXCEPT ![i] = NotAllocated]
  BY DEF XAie_FreeTransactionInstance
<1>2. PendingData(i) = DataOf(insts[i].cmds)
  BY <1>1, PendingAll DEF SInv
<1>3. heap \cap Of(i) = PendingData(i)
  BY <1>1 DEF Buffers, BufferOf
<1>4. flush' = flush
  BY DEF XAie_FreeTransactionInstance
<1> QED
  BY <1>1, <1>2, <1>3, <1>4, FreedCopies

LEMMA ClearCopies ==
    ASSUME SInv, SInv', Buffers, NEW t \in Threads, XAie_ClearTransaction(t) PROVE Buffers'
<1>1. flush[t] = NoFlush /\ HasTxn(t) /\ flush' = flush
  BY DEF XAie_ClearTransaction, Idle
<1>2. PICK i \in TxnInsts : i = GetTxnInst(t)
  BY <1>1, TxnInstOf DEF SInv
<1>3. heap \cap Of(i) = DataOf(insts[i].cmds)
  BY <1>1, <1>2, WaitsAsAWhole
<1>4. /\ heap' = heap \ DataOf(insts[i].cmds)
      /\ insts' = [insts EXCEPT ![i] = NotAllocated]
  BY <1>2 DEF XAie_ClearTransaction
<1> QED
  BY <1>1, <1>3, <1>4, FreedCopies

LEMMA FinishCopies ==
    ASSUME SInv, SInv', Buffers, XAie_Finish PROVE Buffers'
<1>0. Types /\ Types' /\ ListInv
  BY DEF SInv
<1> DEFINE freed == UNION { DataOf(insts[i].cmds) : i \in Listed }
<1>1. /\ \A t \in Threads : flush[t] = NoFlush
      /\ flush' = flush /\ heap' = heap \ freed
      /\ insts' = [i \in TxnInsts |-> IF i \in Listed THEN NotAllocated ELSE insts[i]]
  BY DEF XAie_Finish, Idle, Listed
<1>2. \A t \in Threads : flush[t].k <= 1
  BY <1>1 DEF NoFlush
<1>3. ASSUME NEW i \in Listed
      PROVE  i \in TxnInsts /\ heap \cap Of(i) = DataOf(insts[i].cmds)
  <2>1. i \in TxnInsts /\ Allocated(i)
    BY <1>0 DEF Listed, Types, ListInv
  <2>2. PendingData(i) = DataOf(insts[i].cmds)
    BY <1>0, <1>2, <2>1, PendingAll
  <2> QED
    BY <2>1, <2>2 DEF Buffers, BufferOf
<1>4. ASSUME NEW i \in TxnInsts, i \notin Listed PROVE freed \cap Of(i) = {}
  <2> SUFFICES ASSUME NEW d \in freed, d \in Of(i) PROVE FALSE
    OBVIOUS
  <2>1. PICK j \in Listed : d \in DataOf(insts[j].cmds)
    OBVIOUS
  <2>2. d \in Of(j)
    BY <1>3, <2>1
  <2> QED
    BY <1>4, <2>1, <2>2 DEF Of
<1>5. ASSUME NEW i \in Listed PROVE (heap \ freed) \cap Of(i) = {}
  BY <1>3
<1> HIDE DEF freed
<1>6. ASSUME NEW i \in TxnInsts PROVE BufferOf(i)'
  <2>1. CASE i \in Listed
    <3>1. heap' \cap Of(i) = {} /\ insts'[i] = NotAllocated
      BY <1>1, <1>5, <2>1
    <3> QED
      BY <3>1 DEF BufferOf, Allocated
  <2>2. CASE i \notin Listed
    <3>1. BufferOf(i) /\ insts'[i] = insts[i]
      BY <1>1, <2>2 DEF Buffers
    <3>2. heap' \cap Of(i) = heap \cap Of(i)
      BY <1>1, <1>4, <2>2
    <3> QED
      BY <1>0, <1>1, <3>1, <3>2, Untouched
  <2> QED
    BY <2>1, <2>2
<1> QED
  BY <1>1, <1>6 DEF Buffers

LEMMA ExportCopies ==
    ASSUME SInv, SInv', Buffers, NEW t \in Threads, XAie_ExportTransactionInstance(t)
    PROVE  Buffers'
<1>0. Types /\ Types' /\ ListInv /\ HasTxn(t) /\ flush[t] = NoFlush /\ flush' = flush
  BY DEF SInv, XAie_ExportTransactionInstance, Idle
<1>1. PICK g \in TxnInsts, x \in Insts : g = GetTxnInst(t) /\ x = insts[g] /\ x.tid = t
  BY <1>0, TxnInstOf
<1>2. Tagged(g)
  BY <1>0, <1>1, WaitsAsAWhole
<1> DEFINE Copy(i, c) == IF c.op = "blockwrite" THEN [c EXCEPT !.data = {<<i, t, c.n>>}] ELSE c
           cmds(i) == [k \in DOMAIN x.cmds |-> Copy(i, x.cmds[k])]
<1>3. PICK i \in TxnInsts :
          /\ ~Allocated(i)
          /\ insts' = [insts EXCEPT ![i] = [x EXCEPT !.exported = TRUE, !.cmds = cmds(i)]]
          /\ heap' = heap \cup DataOf(cmds(i))
  BY <1>1, Zenon DEF XAie_ExportTransactionInstance
<1>4. ASSUME NEW k \in DOMAIN x.cmds
      PROVE  /\ cmds(i)[k].op = x.cmds[k].op /\ cmds(i)[k].n = x.cmds[k].n
             /\ cmds(i)[k].data = IF x.cmds[k].op = "blockwrite"
                                  THEN {<<i, t, x.cmds[k].n>>} ELSE {}
             /\ x.cmds[k].n \in OpNums
  <2>1. x.cmds[k] \in Cmds
    BY DEF Insts
  <2>2. x.cmds[k].op # "blockwrite" => x.cmds[k].data = {}
    BY <1>1, <1>2 DEF Tagged
  <2>3. cmds(i)[k] = Copy(i, x.cmds[k])
    OBVIOUS
  <2> QED
    BY <2>1, <2>2, <2>3 DEF Cmds
<1>5. DOMAIN cmds(i) = DOMAIN x.cmds
  OBVIOUS
<1> HIDE DEF cmds
<1>6. DataOf(cmds(i)) \subseteq Of(i) /\ Of(i) \subseteq DataPtrs
  <2>1. ASSUME NEW k \in DOMAIN cmds(i) PROVE cmds(i)[k].data \subseteq Of(i)
    <3>1. k \in DOMAIN x.cmds
      BY <1>5
    <3>2. <<i, t, x.cmds[k].n>> \in Of(i)
      BY <1>4, <3>1 DEF Of
    <3>3. cmds(i)[k].data \subseteq {<<i, t, x.cmds[k].n>>}
      BY <1>4, <3>1
    <3> QED
      BY <3>2, <3>3
  <2> QED
    BY <2>1 DEF DataOf, Of, DataPtrs
<1>7. /\ insts'[i].tid = t /\ insts'[i].exported /\ insts'[i].cmds = cmds(i)
      /\ insts'[i] # NotAllocated /\ \A j \in TxnInsts \ {i} : insts'[j] = insts[j]
  <2>1. insts'[i] = [x EXCEPT !.exported = TRUE, !.cmds = cmds(i)]
    BY <1>0, <1>3 DEF Types
  <2>2. insts'[i].tid = t /\ insts'[i].exported /\ insts'[i].cmds = cmds(i)
    BY <1>1, <2>1 DEF Insts
  <2>3. insts'[i] # NotAllocated
    BY <2>2, NoneAssumption DEF NotAllocated
  <2> QED
    BY <1>0, <1>3, <2>2, <2>3 DEF Types
<1>8. Allocated(i)'
  BY <1>7 DEF Allocated
<1>9. PendingData(i)' = DataOf(cmds(i))
  BY <1>0, <1>7, <1>8, PendingAllNext
<1>10. Tagged(i)'
  <2>1. \A k \in DOMAIN cmds(i) :
            cmds(i)[k].data = IF cmds(i)[k].op = "blockwrite" THEN {<<i, t, cmds(i)[k].n>>} ELSE {}
    BY <1>4, <1>5
  <2>2. insts'[i].cmds = cmds(i) /\ insts'[i].tid = t
    BY <1>7
  <2> HIDE DEF cmds
  <2> QED
    BY <2>1, <2>2 DEF Tagged
<1>11. heap \cap Of(i) = {}
  BY <1>3 DEF Buffers, BufferOf
<1>12. heap' \cap Of(i) = PendingData(i)'
  BY <1>3, <1>6, <1>9, <1>11
<1>13. ASSUME NEW j \in TxnInsts \ {i} PROVE BufferOf(j)'
  <2>1. BufferOf(j) /\ insts'[j] = insts[j]
    BY <1>7 DEF Buffers
  <2>2. heap' \cap Of(j) = heap \cap Of(j)
    BY <1>3, <1>6 DEF Of
  <2> QED
    BY <1>0, <2>1, <2>2, Untouched
<1>14. BufferOf(i)'
  BY <1>8, <1>10, <1>12 DEF BufferOf
<1> QED
  BY <1>3, <1>6, <1>13, <1>14 DEF Buffers

LEMMA CopiesStep ==
    ASSUME SInv, SInv', \A t \in Threads : ThreadInv(t), Buffers,
           ~CanFail, "custom" \notin Ops, [Next]_vars
    PROVE  Buffers'
<1>1. ASSUME NEW t \in Threads, NEW auto \in BOOLEAN, XAie_StartTransaction(t, auto) PROVE Buffers'
  BY <1>1, StartCopies
<1>2. ASSUME NEW t \in Threads,
             RunOnDevice(t) \/ AutoFlush(t) \/ XAie_SubmitTransaction(t) \/ SubmitExported(t)
      PROVE  Buffers'
  BY <1>2, QuietStepCopies
<1>3. ASSUME NEW t \in Threads, AppendCmd(t) PROVE Buffers'
  BY <1>3, AppendCopies
<1>4. ASSUME NEW t \in Threads, ExecuteCmd(t) PROVE Buffers'
  BY <1>4, ExecuteCopies
<1>5. ASSUME NEW t \in Threads, AutoFlushReturns(t) \/ SubmitReturns(t) PROVE Buffers'
  BY <1>5, FlushOverCopies
<1>6. ASSUME NEW t \in Threads, XAie_ExportTransactionInstance(t) \/ XAie_ClearTransaction(t)
      PROVE  Buffers'
  BY <1>6, ExportCopies, ClearCopies
<1>7. ASSUME NEW t \in Threads PROVE ~ExecuteCmdFails(t)
  BY DEF ExecuteCmdFails
<1>8. CASE XAie_FreeTransactionInstance \/ XAie_Finish
  BY <1>8, FreeCopies, FinishCopies
<1>9. CASE UNCHANGED vars
  <2>1. insts' = insts /\ heap' = heap /\ flush' = flush
    BY <1>9 DEF vars
  <2>2. \A i \in TxnInsts : BufferOf(i)'
    BY <2>1, Untouched DEF SInv, Buffers
  <2> QED
    BY <2>1, <2>2 DEF Buffers
<1> QED
  BY <1>1, <1>2, <1>3, <1>4, <1>5, <1>6, <1>7, <1>8, <1>9 DEF Next

(* Every data copy that is allocated belongs to one command that waits in  *)
(* a live instance, and every such command has its copy, as long as the    *)
(* device refuses nothing (a refused flush starts over with copies it has  *)
(* freed) and no custom operation is recorded (its data is shared with the *)
(* exported instances).                                                    *)
THEOREM BuffersAreOwnedHolds ==
    ASSUME ~CanFail, "custom" \notin Ops PROVE Spec => []BuffersAreOwned
<1>1. Init => Buffers
  <2> SUFFICES ASSUME Init PROVE Buffers
    OBVIOUS
  <2>1. heap = {} /\ \A i \in TxnInsts : ~Allocated(i)
    BY DEF Init, Allocated
  <2> QED
    BY <2>1 DEF Buffers, BufferOf
<1>2. Inv /\ Inv' /\ Buffers /\ [Next]_vars => Buffers'
  BY CopiesStep DEF Inv
<1>3. Buffers => BuffersAreOwned
  BY BuffersOwned
<1> QED
  BY <1>1, <1>2, <1>3, InvHolds, PTL DEF Spec

(* No step of any thread frees or changes the instance a flush works on.   *)
THEOREM FlushedInstIsStableHolds == Spec => FlushedInstIsStable
<1>1. Inv /\ [Next]_vars =>
        [\A t \in Threads :
            flush[t] # NoFlush /\ flush'[t] # NoFlush =>
                insts'[flush[t].inst] = insts[flush[t].inst]]_vars
  BY NextStep DEF Inv, Served, Stable
<1> QED
  BY <1>1, InvHolds, PTL DEF Spec, FlushedInstIsStable
=============================================================================
