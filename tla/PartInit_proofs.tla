-------------------------- MODULE PartInit_proofs --------------------------
(***************************************************************************)
(* Proofs about the privileged sequences, for arrays of any number of      *)
(* partitions of every size and for every set of registers whose writes    *)
(* may fail.                                                               *)
(*                                                                         *)
(* They follow the way one convinces oneself of a straight-line program:   *)
(* a step needs some facts about the hardware, secures some and spoils     *)
(* some.  A sequence of steps leads from the facts P to the facts Q when   *)
(* every step finds what it needs, and Q holds at its end.  The rules for  *)
(* single steps and for concatenation give that for the three sequences;   *)
(* the rule for the rest of a sequence makes it an invariant of a call.    *)
(***************************************************************************)
EXTENDS PartInit, Integers, TLAPS

Goals == { "closed",     \* the protected registers are closed
           "gated",      \* no column of the partition has a clock
           "clocked",    \* all columns have
           "colreset",   \* all columns were reset by this call
           "running",    \* no column is in reset
           "shimset",    \* the shims are to be reset (AIE)
           "shimreset",  \* the shims were reset by this call
           "npidone",    \* the shim reset of the NPI is over
           "edges",      \* the first and the last column are isolated
           "nsu", "isolate", "zero", "irq" }   \* the register is set in all it is for

(* The columns that a step has to write to secure r.                       *)
Covers(cols, r) ==
    IF r \in {"closed", "shimreset", "npidone"} THEN TRUE
    ELSE IF r = "edges" THEN {0, NumCols - 1} \subseteq cols
    ELSE IF r \in {"nsu", "irq"} THEN NocCols \subseteq cols
    ELSE Cols \subseteq cols

(* The sequences close the registers whatever fails, as long as the        *)
(* opening and closing itself and the interrupt set up do not fail.        *)
Guarded == "prot" \notin CanFail /\ "irq" \notin CanFail

Needs(gen, a) ==
    (IF a.reg = "colrst" THEN IF a.set THEN {"gated"} ELSE {"clocked"} ELSE {})
    \cup (IF a.reg = "zero" /\ a.set /\ gen = "AIEML" THEN {"clocked"} ELSE {})
    \cup (IF a.reg = "npirst" /\ a.set /\ a.fail \in {"close", "return"} /\ gen = "AIE" THEN {"shimset"} ELSE {})
    \cup (IF a.fail = "return" /\ a.reg \in CanFail /\ Guarded THEN {"closed"} ELSE {})

(* What a step secures: nothing if the call goes on when it has failed,    *)
(* nor if it resets shims that need not have been selected.                *)
Secures(a) ==
    IF a.fail \in {"ignore", "close_go_on"} /\ a.reg \in CanFail \cup {"npirst"} THEN {}
    ELSE {r \in Goals :
             /\ Covers(a.cols, r)
             /\ \/ r = "closed" /\ a.reg = "prot" /\ ~a.set
                \/ r = "gated" /\ a.reg = "clk" /\ ~a.set
                \/ r = "clocked" /\ a.reg = "clk" /\ a.set
                \/ r = "colreset" /\ a.reg = "colrst" /\ a.set
                \/ r = "running" /\ a.reg = "colrst" /\ ~a.set
                \/ r = "shimset" /\ a.reg = "shimrst" /\ a.set
                \/ r = "shimreset" /\ a.reg = "npirst" /\ a.set
                \/ r = "npidone" /\ a.reg = "npirst" /\ ~a.set
                \/ r = "edges" /\ a.reg = "isolate" /\ a.set
                \/ r \in {"nsu", "isolate", "zero", "irq"} /\ a.reg = r /\ a.set}

Spoils(a) ==
    {r \in Goals : \/ r = "closed" /\ a.reg = "prot" /\ a.set
                   \/ r = "gated" /\ a.reg = "clk" /\ a.set
                   \/ r = "clocked" /\ a.reg = "clk" /\ ~a.set
                   \/ r \in {"running", "isolate", "edges"} /\ a.reg = "colrst" /\ a.set
                   \/ r = "shimset" /\ a.reg = "shimrst" /\ ~a.set
                   \/ r \in {"npidone", "gated", "clocked", "nsu", "irq"} /\ a.reg = "npirst" /\ a.set
                   \/ r = "edges" /\ a.reg = "isolate" /\ ~a.set
                   \/ r \in {"nsu", "isolate", "zero", "irq"} /\ a.reg = r /\ ~a.set}

Then(P, a) == (P \ Spoils(a)) \cup Secures(a)

(* The facts that hold after the first n steps of s, begun with P.         *)
After(P, s, n) ==
    {r \in Goals : \/ r \in P /\ \A j \in 1 .. n : r \notin Spoils(s[j])
                   \/ \E k \in 1 .. n : /\ r \in Secures(s[k])
                                        /\ \A j \in k + 1 .. n : r \notin Spoils(s[j])}

LeadsTo(gen, P, s, Q) ==
    /\ \A i \in 1 .. Len(s) : Needs(gen, s[i]) \subseteq After(P, s, i - 1)
    /\ Q \subseteq After(P, s, Len(s))

-----------------------------------------------------------------------------
(* The rules *)

LEMMA LeadsEmpty ==
    ASSUME NEW gen, NEW P \in SUBSET Goals, NEW Q \in SUBSET P
    PROVE  LeadsTo(gen, P, <<>>, Q)
BY DEF LeadsTo, After

LEMMA LeadsStep ==
    ASSUME NEW gen, NEW P \in SUBSET Goals, NEW Q \in SUBSET Goals, NEW a \in StepSet,
           Needs(gen, a) \subseteq P, Q \subseteq Then(P, a)
    PROVE  LeadsTo(gen, P, <<a>>, Q)
<1>1. After(P, <<a>>, 0) = P
  BY DEF After
<1>2. Q \subseteq After(P, <<a>>, 1)
  BY DEF After, Then
<1> QED BY <1>1, <1>2 DEF LeadsTo

LEMMA LeadsConcat ==
    ASSUME NEW gen, NEW P \in SUBSET Goals, NEW R \in SUBSET Goals, NEW Q \in SUBSET Goals,
           NEW s \in Seq(StepSet), NEW t \in Seq(StepSet),
           LeadsTo(gen, P, s, R), LeadsTo(gen, R, t, Q)
    PROVE  s \o t \in Seq(StepSet) /\ LeadsTo(gen, P, s \o t, Q)
<1> DEFINE u == s \o t
<1>1. /\ u \in Seq(StepSet) /\ Len(u) = Len(s) + Len(t) /\ Len(s) \in Nat /\ Len(t) \in Nat
      /\ \A i \in 1 .. Len(s) : u[i] = s[i]
      /\ \A i \in 1 .. Len(t) : u[Len(s) + i] = t[i]
  OBVIOUS
<1> HIDE DEF u
<1>2. ASSUME NEW n \in 0 .. Len(s)
      PROVE  After(P, u, n) = After(P, s, n)
  <2>1. \A j \in 1 .. n : u[j] = s[j]
    BY <1>1
  <2>2. \A k \in 1 .. n : \A j \in k + 1 .. n : u[j] = s[j]
    BY <2>1
  <2> QED BY <2>1, <2>2 DEF After
<1>3. ASSUME NEW n \in 0 .. Len(t), NEW r \in After(R, t, n)
      PROVE  r \in After(P, u, Len(s) + n)
  <2>1. r \in Goals
    BY DEF After
  <2>2. CASE r \in R /\ \A j \in 1 .. n : r \notin Spoils(t[j])
    <3>1. r \in After(P, s, Len(s))
      BY <2>2 DEF LeadsTo
    <3>2. \A j \in Len(s) + 1 .. Len(s) + n : r \notin Spoils(u[j])
      <4> SUFFICES ASSUME NEW j \in Len(s) + 1 .. Len(s) + n
                   PROVE  r \notin Spoils(u[j])
        OBVIOUS
      <4>1. j - Len(s) \in 1 .. n /\ j = Len(s) + (j - Len(s)) /\ j - Len(s) \in 1 .. Len(t)
        BY <1>1
      <4>2. u[j] = t[j - Len(s)]
        BY <1>1, <4>1
      <4> QED BY <2>2, <4>1, <4>2
    <3>3. CASE r \in P /\ \A j \in 1 .. Len(s) : r \notin Spoils(s[j])
      <4>1. \A j \in 1 .. Len(s) + n : r \notin Spoils(u[j])
        <5> SUFFICES ASSUME NEW j \in 1 .. Len(s) + n
                     PROVE  r \notin Spoils(u[j])
          OBVIOUS
        <5>1. CASE j \in 1 .. Len(s)
          BY <1>1, <3>3, <5>1
        <5>2. CASE j \in Len(s) + 1 .. Len(s) + n
          BY <3>2, <5>2
        <5> QED BY <1>1, <5>1, <5>2
      <4> QED BY <2>1, <3>3, <4>1 DEF After
    <3>4. CASE \E k \in 1 .. Len(s) : /\ r \in Secures(s[k])
                                      /\ \A j \in k + 1 .. Len(s) : r \notin Spoils(s[j])
      <4>1. PICK k \in 1 .. Len(s) : /\ r \in Secures(s[k])
                                     /\ \A j \in k + 1 .. Len(s) : r \notin Spoils(s[j])
        BY <3>4
      <4>2. \A j \in k + 1 .. Len(s) + n : r \notin Spoils(u[j])
        <5> SUFFICES ASSUME NEW j \in k + 1 .. Len(s) + n
                     PROVE  r \notin Spoils(u[j])
          OBVIOUS
        <5>1. CASE j \in k + 1 .. Len(s)
          <6>1. j \in 1 .. Len(s) /\ r \notin Spoils(s[j])
            BY <1>1, <4>1, <5>1
          <6> QED BY <1>1, <6>1
        <5>2. CASE j \in Len(s) + 1 .. Len(s) + n
          BY <3>2, <5>2
        <5> QED BY <1>1, <4>1, <5>1, <5>2
      <4>3. r \in Secures(u[k]) /\ k \in 1 .. Len(s) + n
        BY <1>1, <4>1
      <4> QED BY <2>1, <4>2, <4>3 DEF After
    <3> QED BY <3>1, <3>3, <3>4 DEF After
  <2>3. CASE \E k \in 1 .. n : /\ r \in Secures(t[k])
                               /\ \A j \in k + 1 .. n : r \notin Spoils(t[j])
    <3>1. PICK k \in 1 .. n : /\ r \in Secures(t[k])
                              /\ \A j \in k + 1 .. n : r \notin Spoils(t[j])
      BY <2>3
    <3>2. Len(s) + k \in 1 .. Len(s) + n /\ r \in Secures(u[Len(s) + k])
      BY <1>1, <3>1
    <3>3. \A j \in Len(s) + k + 1 .. Len(s) + n : r \notin Spoils(u[j])
      <4> SUFFICES ASSUME NEW j \in Len(s) + k + 1 .. Len(s) + n
                   PROVE  r \notin Spoils(u[j])
        OBVIOUS
      <4>1. j - Len(s) \in k + 1 .. n /\ j = Len(s) + (j - Len(s)) /\ j - Len(s) \in 1 .. Len(t)
        BY <1>1
      <4> QED BY <1>1, <3>1, <4>1
    <3> QED BY <2>1, <3>2, <3>3 DEF After
  <2> QED BY <2>2, <2>3 DEF After
<1>4. ASSUME NEW i \in 1 .. Len(u)
      PROVE  Needs(gen, u[i]) \subseteq After(P, u, i - 1)
  <2>1. CASE i <= Len(s)
    <3>1. i \in 1 .. Len(s) /\ i - 1 \in 0 .. Len(s) /\ u[i] = s[i]
      BY <1>1, <2>1
    <3> QED BY <1>2, <3>1 DEF LeadsTo
  <2>2. CASE i > Len(s)
    <3>1. PICK m \in 1 .. Len(t) : i = Len(s) + m
      <4>1. i - Len(s) \in 1 .. Len(t) /\ i = Len(s) + (i - Len(s))
        BY <1>1, <2>2
      <4> QED BY <4>1
    <3>2. /\ Needs(gen, t[m]) \subseteq After(R, t, m - 1)
          /\ u[i] = t[m] /\ m - 1 \in 0 .. Len(t) /\ i - 1 = Len(s) + (m - 1)
      BY <1>1, <3>1 DEF LeadsTo
    <3> QED BY <1>3, <3>2
  <2> QED BY <1>1, <2>1, <2>2
<1>5. Q \subseteq After(P, u, Len(u))
  BY <1>1, <1>3 DEF LeadsTo
<1> QED BY <1>1, <1>4, <1>5 DEF LeadsTo, u

(* The rest of a sequence leads to the same facts.                         *)
LEMMA LeadsTail ==
    ASSUME NEW gen, NEW P \in SUBSET Goals, NEW R \in SUBSET Goals, NEW Q \in SUBSET Goals,
           NEW s \in Seq(StepSet), s # <<>>,
           LeadsTo(gen, P, s, Q), Then(P, Head(s)) \subseteq R
    PROVE  LeadsTo(gen, R, Tail(s), Q) /\ Needs(gen, Head(s)) \subseteq P
<1> DEFINE t == Tail(s)
<1>1. /\ t \in Seq(StepSet) /\ Len(s) = Len(t) + 1 /\ Len(t) \in Nat /\ s[1] = Head(s)
      /\ \A i \in 1 .. Len(t) : t[i] = s[i + 1]
  OBVIOUS
<1> HIDE DEF t
<1>2. ASSUME NEW n \in 0 .. Len(t), NEW r \in After(P, s, n + 1)
      PROVE  r \in After(R, t, n)
  <2>1. r \in Goals
    BY DEF After
  <2>2. CASE r \in P /\ \A j \in 1 .. n + 1 : r \notin Spoils(s[j])
    <3>1. r \in R
      BY <1>1, <2>2 DEF Then
    <3>2. \A j \in 1 .. n : r \notin Spoils(t[j])
      BY <1>1, <2>2
    <3> QED BY <2>1, <3>1, <3>2 DEF After
  <2>3. CASE \E k \in 1 .. n + 1 : /\ r \in Secures(s[k])
                                   /\ \A j \in k + 1 .. n + 1 : r \notin Spoils(s[j])
    <3>1. PICK k \in 1 .. n + 1 : /\ r \in Secures(s[k])
                                  /\ \A j \in k + 1 .. n + 1 : r \notin Spoils(s[j])
      BY <2>3
    <3>2. CASE k = 1
      <4>1. r \in R
        BY <1>1, <3>1, <3>2 DEF Then
      <4>2. \A j \in 1 .. n : r \notin Spoils(t[j])
        BY <1>1, <3>1, <3>2
      <4> QED BY <2>1, <4>1, <4>2 DEF After
    <3>3. CASE k # 1
      <4>1. k - 1 \in 1 .. n /\ r \in Secures(t[k - 1])
        BY <1>1, <3>1, <3>3
      <4>2. \A j \in (k - 1) + 1 .. n : r \notin Spoils(t[j])
        BY <1>1, <3>1, <3>3
      <4> QED BY <2>1, <4>1, <4>2 DEF After
    <3> QED BY <3>2, <3>3
  <2> QED BY <2>2, <2>3 DEF After
<1>3. \A i \in 1 .. Len(t) : Needs(gen, t[i]) \subseteq After(R, t, i - 1)
  <2> SUFFICES ASSUME NEW i \in 1 .. Len(t)
               PROVE  Needs(gen, t[i]) \subseteq After(R, t, i - 1)
    OBVIOUS
  <2>1. Needs(gen, s[i + 1]) \subseteq After(P, s, (i + 1) - 1)
    BY <1>1 DEF LeadsTo
  <2>2. t[i] = s[i + 1] /\ i - 1 \in 0 .. Len(t) /\ (i + 1) - 1 = (i - 1) + 1
    BY <1>1
  <2> QED BY <1>2, <2>1, <2>2
<1>4. Q \subseteq After(R, t, Len(t))
  BY <1>1, <1>2 DEF LeadsTo
<1>5. Needs(gen, Head(s)) \subseteq P
  <2>1. Needs(gen, s[1]) \subseteq After(P, s, 0)
    BY <1>1 DEF LeadsTo
  <2>2. After(P, s, 0) \subseteq P
    BY DEF After
  <2> QED BY <1>1, <2>1, <2>2
<1> QED BY <1>3, <1>4, <1>5 DEF LeadsTo, t

LEMMA LeadsWhen ==
    ASSUME NEW gen, NEW P \in SUBSET Goals, NEW Q \in SUBSET Goals, NEW cond \in BOOLEAN,
           NEW s \in Seq(StepSet), cond => LeadsTo(gen, P, s, Q), ~cond => Q \subseteq P
    PROVE  When(cond, s) \in Seq(StepSet) /\ LeadsTo(gen, P, When(cond, s), Q)
<1>1. CASE cond
  BY <1>1 DEF When
<1>2. CASE ~cond
  <2>1. LeadsTo(gen, P, <<>>, Q)
    BY <1>2, LeadsEmpty
  <2> QED BY <1>2, <2>1 DEF When
<1> QED BY <1>1, <1>2

LEMMA SeqExtensional ==
    ASSUME NEW S, NEW u \in Seq(S), NEW v \in Seq(S), Len(u) = Len(v),
           \A i \in 1 .. Len(u) : u[i] = v[i]
    PROVE  u = v
OBVIOUS

LEMMA LeadsWhenStep ==
    ASSUME NEW gen, NEW P \in SUBSET Goals, NEW Q \in SUBSET Goals, NEW cond \in BOOLEAN,
           NEW a \in StepSet, ~cond => Q \subseteq P,
           cond => Needs(gen, a) \subseteq P /\ Q \subseteq Then(P, a)
    PROVE  When(cond, <<a>>) \in Seq(StepSet) /\ LeadsTo(gen, P, When(cond, <<a>>), Q)
<1>1. cond => LeadsTo(gen, P, <<a>>, Q)
  BY LeadsStep
<1>2. <<a>> \in Seq(StepSet)
  OBVIOUS
<1> QED BY <1>1, <1>2, LeadsWhen

LEMMA LeadsWeaken ==
    ASSUME NEW gen, NEW P, NEW s, NEW R, NEW Q \in SUBSET R, LeadsTo(gen, P, s, R)
    PROVE  LeadsTo(gen, P, s, Q)
BY DEF LeadsTo

LEMMA LeadsTwo ==
    ASSUME NEW gen, NEW P \in SUBSET Goals, NEW R \in SUBSET Goals, NEW Q \in SUBSET Goals,
           NEW a \in StepSet, NEW b \in StepSet,
           Needs(gen, a) \subseteq P, R \subseteq Then(P, a),
           Needs(gen, b) \subseteq R, Q \subseteq Then(R, b)
    PROVE  <<a, b>> \in Seq(StepSet) /\ LeadsTo(gen, P, <<a, b>>, Q)
<1>1. LeadsTo(gen, P, <<a>>, R) /\ LeadsTo(gen, R, <<b>>, Q)
  BY LeadsStep
<1>2. <<a>> \in Seq(StepSet) /\ <<b>> \in Seq(StepSet) /\ <<a, b>> \in Seq(StepSet)
  OBVIOUS
<1>3. <<a, b>> = <<a>> \o <<b>>
  <2> DEFINE u == <<a>> \o <<b>>
             v == <<a, b>>
  <2>1. u \in Seq(StepSet) /\ Len(u) = 2 /\ u[1] = a /\ u[2] = b
    OBVIOUS
  <2>2. v \in Seq(StepSet) /\ Len(v) = 2 /\ v[1] = a /\ v[2] = b
    OBVIOUS
  <2> HIDE DEF u, v
  <2>3. \A i \in 1 .. 2 : u[i] = v[i]
    BY <2>1, <2>2
  <2>4. u = v
    BY <2>1, <2>2, <2>3, SeqExtensional
  <2> QED BY <2>4 DEF u, v
<1>4. LeadsTo(gen, P, <<a>> \o <<b>>, Q)
  BY <1>1, <1>2, LeadsConcat
<1> QED BY <1>2, <1>3, <1>4

LEMMA LeadsThree ==
    ASSUME NEW gen, NEW P \in SUBSET Goals, NEW R \in SUBSET Goals, NEW Q \in SUBSET Goals,
           NEW a \in StepSet, NEW b \in StepSet, NEW c \in StepSet,
           LeadsTo(gen, P, <<a, b>>, R), Needs(gen, c) \subseteq R, Q \subseteq Then(R, c)
    PROVE  <<a, b, c>> \in Seq(StepSet) /\ LeadsTo(gen, P, <<a, b, c>>, Q)
<1>1. <<a, b>> \in Seq(StepSet) /\ <<c>> \in Seq(StepSet) /\ <<a, b, c>> \in Seq(StepSet)
  OBVIOUS
<1>2. <<a, b, c>> = <<a, b>> \o <<c>>
  OBVIOUS
<1>3. LeadsTo(gen, R, <<c>>, Q)
  BY LeadsStep
<1>4. LeadsTo(gen, P, <<a, b>> \o <<c>>, Q)
  BY <1>1, <1>3, LeadsConcat
<1> QED BY <1>1, <1>2, <1>4

LEMMA LeadsFour ==
    ASSUME NEW gen, NEW P \in SUBSET Goals, NEW R \in SUBSET Goals, NEW Q \in SUBSET Goals,
           NEW a \in StepSet, NEW b \in StepSet, NEW c \in StepSet, NEW d \in StepSet,
           LeadsTo(gen, P, <<a, b>>, R), LeadsTo(gen, R, <<c, d>>, Q)
    PROVE  <<a, b, c, d>> \in Seq(StepSet) /\ LeadsTo(gen, P, <<a, b, c, d>>, Q)
<1>1. <<a, b>> \in Seq(StepSet) /\ <<c, d>> \in Seq(StepSet) /\ <<a, b, c, d>> \in Seq(StepSet)
  OBVIOUS
<1>2. <<a, b, c, d>> = <<a, b>> \o <<c, d>>
  OBVIOUS
<1>3. LeadsTo(gen, P, <<a, b>> \o <<c, d>>, Q)
  BY <1>1, LeadsConcat
<1> QED BY <1>1, <1>2, <1>3

-----------------------------------------------------------------------------
(* The sequences *)

LEMMA ShapeOfSteps ==
    ASSUME ColsAssumption,
           NEW reg \in ColRegs \cup ArrayRegs, NEW set \in BOOLEAN, NEW cols \in SUBSET Cols,
           NEW fail \in {"return", "close", "close_go_on", "ignore"}
    PROVE  /\ Step(reg, set, cols, fail) \in StepSet
           /\ Part(reg, set, fail) \in StepSet
           /\ Array(reg, set, fail) \in StepSet
           /\ CloseProtRegs(fail) \in StepSet
BY DEF Step, Part, Array, CloseProtRegs, StepSet, ArrayRegs

LEMMA ColumnResetLeads ==
    ASSUME ColsAssumption, NEW P \in SUBSET Goals, NEW gen
    PROVE  /\ ColumnReset \in Seq(StepSet)
           /\ LeadsTo(gen, P, ColumnReset,
                      (P \ {"gated", "isolate", "edges"}) \cup {"clocked", "colreset", "running"})
<1> DEFINE a == Part("clk", FALSE, "close")
           b == Part("colrst", TRUE, "close")
           c == Part("clk", TRUE, "close")
           d == Part("colrst", FALSE, "close")
           P1 == (P \ {"clocked"}) \cup {"gated"}
           P2 == (P1 \ {"running", "isolate", "edges"}) \cup {"colreset"}
           P3 == (P2 \ {"gated"}) \cup {"clocked"}
           P4 == P3 \cup {"running"}
<1>1. a \in StepSet /\ b \in StepSet /\ c \in StepSet /\ d \in StepSet
  BY ShapeOfSteps DEF ColRegs
<1>2. P1 \in SUBSET Goals /\ P2 \in SUBSET Goals /\ P3 \in SUBSET Goals /\ P4 \in SUBSET Goals
  BY DEF Goals
<1>3. Needs(gen, a) \subseteq P /\ P1 \subseteq Then(P, a)
  BY DEF Needs, Then, Secures, Covers, Spoils, Goals, Part, Step
<1>4. Needs(gen, b) \subseteq P1 /\ P2 \subseteq Then(P1, b)
  BY DEF Needs, Then, Secures, Covers, Spoils, Goals, Part, Step
<1>5. Needs(gen, c) \subseteq P2 /\ P3 \subseteq Then(P2, c)
  BY DEF Needs, Then, Secures, Covers, Spoils, Goals, Part, Step
<1>6. Needs(gen, d) \subseteq P3 /\ P4 \subseteq Then(P3, d)
  BY DEF Needs, Then, Secures, Covers, Spoils, Goals, Part, Step
<1>7. P4 = (P \ {"gated", "isolate", "edges"}) \cup {"clocked", "colreset", "running"}
  OBVIOUS
<1>8. ColumnReset = <<a, b, c, d>>
  BY DEF ColumnReset
<1> HIDE DEF a, b, c, d, P1, P2, P3, P4
<1>9. LeadsTo(gen, P, <<a, b>>, P2) /\ LeadsTo(gen, P2, <<c, d>>, P4)
  BY <1>1, <1>2, <1>3, <1>4, <1>5, <1>6, LeadsTwo
<1>10. <<a, b, c, d>> \in Seq(StepSet) /\ LeadsTo(gen, P, <<a, b, c, d>>, P4)
  BY <1>1, <1>2, <1>9, LeadsFour
<1> QED BY <1>7, <1>8, <1>10

LEMMA ShimResetLeads ==
    ASSUME ColsAssumption, NEW P \in SUBSET Goals
    PROVE  /\ ShimReset \in Seq(StepSet)
           /\ LeadsTo(DevGen, P, ShimReset,
                      (P \ {"gated", "clocked", "nsu", "irq"}) \cup {"shimreset", "npidone"})
<1> DEFINE a == Part("shimrst", TRUE, "close")
           b == Array("npirst", TRUE, "close")
           c == Array("npirst", FALSE, "close")
           P1 == IF DevGen = "AIE" THEN P \cup {"shimset"} ELSE P
           P2 == (P1 \ {"npidone", "gated", "clocked", "nsu", "irq"}) \cup {"shimreset"}
           P3 == (P \ {"gated", "clocked", "nsu", "irq"}) \cup {"shimreset", "npidone"}
           s == When(DevGen = "AIE", <<a>>)
<1>1. a \in StepSet /\ b \in StepSet /\ c \in StepSet
  BY ShapeOfSteps DEF ColRegs, ArrayRegs
<1>2. P1 \in SUBSET Goals /\ P2 \in SUBSET Goals /\ P3 \in SUBSET Goals
  BY DEF Goals
<1>3. Needs(DevGen, a) \subseteq P /\ (DevGen = "AIE" => P1 \subseteq Then(P, a))
  BY DEF Needs, Then, Secures, Covers, Spoils, Goals, Part, Step
<1>4. Needs(DevGen, b) \subseteq P1 /\ P2 \subseteq Then(P1, b)
  BY DEF Needs, Then, Secures, Covers, Spoils, Goals, Array, Step
<1>5. Needs(DevGen, c) \subseteq P2 /\ P3 \subseteq Then(P2, c)
  BY DEF Needs, Then, Secures, Covers, Spoils, Goals, Array, Step
<1>6. ShimReset = s \o <<b, c>>
  BY DEF ShimReset
<1>7. ~(DevGen = "AIE") => P1 \subseteq P
  OBVIOUS
<1> HIDE DEF a, b, c, P1, P2, P3
<1>8. <<a>> \in Seq(StepSet) /\ (DevGen = "AIE" => LeadsTo(DevGen, P, <<a>>, P1))
  <2>1. <<a>> \in Seq(StepSet)
    BY <1>1
  <2>2. ASSUME DevGen = "AIE" PROVE LeadsTo(DevGen, P, <<a>>, P1)
    BY <1>1, <1>2, <1>3, <2>2, LeadsStep
  <2> QED BY <2>1, <2>2
<1>9. s \in Seq(StepSet) /\ LeadsTo(DevGen, P, s, P1)
  BY <1>2, <1>7, <1>8, LeadsWhen
<1>10. <<b, c>> \in Seq(StepSet) /\ LeadsTo(DevGen, P1, <<b, c>>, P3)
  BY <1>1, <1>2, <1>4, <1>5, LeadsTwo
<1> HIDE DEF s
<1>11. s \o <<b, c>> \in Seq(StepSet) /\ LeadsTo(DevGen, P, s \o <<b, c>>, P3)
  BY <1>2, <1>9, <1>10, LeadsConcat
<1> QED BY <1>6, <1>11 DEF P3

LEMMA ClockAfterResetLeads ==
    ASSUME ColsAssumption, NEW P \in SUBSET Goals
    PROVE  /\ ClockAfterReset \in Seq(StepSet)
           /\ LeadsTo(DevGen, P, ClockAfterReset,
                      IF DevGen = "AIEML" THEN (P \ {"gated"}) \cup {"clocked"} ELSE P)
<1> DEFINE a == Part("clk", TRUE, "close")
           Q == IF DevGen = "AIEML" THEN (P \ {"gated"}) \cup {"clocked"} ELSE P
<1>1. a \in StepSet
  BY ShapeOfSteps DEF ColRegs
<1>2. Q \in SUBSET Goals
  BY DEF Goals
<1>3. Needs(DevGen, a) \subseteq P /\ (DevGen = "AIEML" => Q \subseteq Then(P, a))
  BY DEF Needs, Then, Secures, Covers, Spoils, Goals, Part, Step
<1>4. ~(DevGen = "AIEML") => Q \subseteq P
  OBVIOUS
<1>5. ClockAfterReset = When(DevGen = "AIEML", <<a>>)
  BY DEF ClockAfterReset
<1> HIDE DEF a, Q
<1>6. <<a>> \in Seq(StepSet) /\ (DevGen = "AIEML" => LeadsTo(DevGen, P, <<a>>, Q))
  <2>1. <<a>> \in Seq(StepSet)
    BY <1>1
  <2>2. ASSUME DevGen = "AIEML" PROVE LeadsTo(DevGen, P, <<a>>, Q)
    BY <1>1, <1>2, <1>3, <2>2, LeadsStep
  <2> QED BY <2>1, <2>2
<1>7. When(DevGen = "AIEML", <<a>>) \in Seq(StepSet) /\ LeadsTo(DevGen, P, When(DevGen = "AIEML", <<a>>), Q)
  BY <1>2, <1>4, <1>6, LeadsWhen
<1> QED BY <1>5, <1>7 DEF Q

(* The facts that a successful initialization is to end with, and those    *)
(* that hold whenever no sequence runs.                                    *)
InitFacts(gen, opts) ==
    {"closed", "irq", IF gen = "AIE" THEN "gated" ELSE "clocked"}
    \cup (IF "column_rst" \in opts THEN {"colreset", "running"} ELSE {})
    \cup (IF "shim_rst" \in opts THEN {"shimreset", "npidone"} ELSE {})
    \cup (IF "block_nocaximmerr" \in opts THEN {"nsu"} ELSE {})
    \cup (IF "isolate" \in opts /\ "isolate" \notin CanFail THEN {IF gen = "AIE" THEN "edges" ELSE "isolate"} ELSE {})
    \cup (IF "zeroizemem" \in opts THEN {"zero"} ELSE {})

Closed == IF Guarded THEN {"closed"} ELSE {}

Final(gen, c) ==
    IF c.op = "init" /\ c.rc = "XAIE_OK" THEN InitFacts(gen, c.opts) ELSE Closed

LEMMA InitPartLeads ==
    ASSUME ColsAssumption, GenAssumption, DevGen \in DevGens,
           NEW P \in SUBSET Goals, NEW opts \in SUBSET InitOpts
    PROVE  /\ InitPart(opts) \in Seq(StepSet)
           /\ LeadsTo(DevGen, P, InitPart(opts), InitFacts(DevGen, opts))
<1> DEFINE c2 == "column_rst" \in opts
           c3 == "shim_rst" \in opts
           c4 == "block_nocaximmerr" \in opts
           c6 == "isolate" \in opts
           c7 == "zeroizemem" \in opts
           nsu == Step("nsu", TRUE, NocCols, "close")
           isolate == Step("isolate", TRUE, IsolatedCols, "close_go_on")
           zero == Part("zero", TRUE, "close")
           irq == Step("irq", TRUE, NocCols, "return")
           clk == Part("clk", FALSE, "close")
           open == Array("prot", TRUE, "return")
           close == CloseProtRegs("return")
           p1 == <<open>>
           p2 == When(c2, ColumnReset)
           p3 == When(c3, ShimReset)
           p4 == When(c4, <<nsu>>)
           p5 == ClockAfterReset
           p6 == When(c6, <<isolate>>)
           p7 == When(c7, <<zero>>)
           p8 == <<irq>>
           p9 == When(DevGen = "AIE", <<clk>>)
           p10 == <<close>>
           P1 == {}
           P2 == P1 \cup (IF c2 THEN {"colreset", "running"} ELSE {})
           P3 == P2 \cup (IF c3 THEN {"shimreset", "npidone"} ELSE {})
           P4 == P3 \cup (IF c4 THEN {"nsu"} ELSE {})
           P5 == P4 \cup (IF DevGen = "AIEML" THEN {"clocked"} ELSE {})
           P6 == P5 \cup (IF c6 /\ "isolate" \notin CanFail THEN {IF DevGen = "AIE" THEN "edges" ELSE "isolate"} ELSE {})
           P7 == P6 \cup (IF c7 THEN {"zero"} ELSE {})
           P8 == P7 \cup {"irq"}
           P9 == P8 \cup (IF DevGen = "AIE" THEN {"gated"} ELSE {})
           P10 == P9 \cup {"closed"}
<1>0. c2 \in BOOLEAN /\ c3 \in BOOLEAN /\ c4 \in BOOLEAN /\ c6 \in BOOLEAN /\ c7 \in BOOLEAN
  OBVIOUS
<1>16. InitPart(opts) = p1 \o p2 \o p3 \o p4 \o p5 \o p6 \o p7 \o p8 \o p9 \o p10
  BY DEF InitPart
<1>14. P10 = InitFacts(DevGen, opts)
  <2>1. DevGen = "AIE" \/ DevGen = "AIEML"
    BY DEF GenAssumption
  <2>2. ASSUME NEW r PROVE r \in P10 <=> r \in InitFacts(DevGen, opts)
    BY <2>1 DEF InitFacts
  <2> QED BY <2>2
<1> HIDE DEF c2, c3, c4, c6, c7
<1>1. /\ nsu \in StepSet /\ isolate \in StepSet /\ zero \in StepSet /\ irq \in StepSet
      /\ clk \in StepSet /\ open \in StepSet /\ close \in StepSet
  <2>1. IsolatedCols \in SUBSET Cols /\ NocCols \in SUBSET Cols
    BY DEF IsolatedCols, Cols, ColsAssumption
  <2> QED BY <2>1, ShapeOfSteps DEF ColRegs, ArrayRegs
<1>2. /\ P1 \in SUBSET Goals /\ P2 \in SUBSET Goals /\ P3 \in SUBSET Goals
      /\ P4 \in SUBSET Goals /\ P5 \in SUBSET Goals /\ P6 \in SUBSET Goals
      /\ P7 \in SUBSET Goals /\ P8 \in SUBSET Goals /\ P9 \in SUBSET Goals
      /\ P10 \in SUBSET Goals
  BY DEF Goals
<1>3. DevGen = "AIE" \/ DevGen = "AIEML"
  BY DEF GenAssumption
<1>4. LeadsTo(DevGen, P, p1, P1)
  <2>1. Needs(DevGen, open) \subseteq P
    BY DEF Needs, Array, Step, Guarded
  <2>2. P1 \subseteq Then(P, open)
    OBVIOUS
  <2> QED BY <1>1, <1>2, <2>1, <2>2, LeadsStep
<1>5. p2 \in Seq(StepSet) /\ LeadsTo(DevGen, P1, p2, P2)
  <2>1. /\ ColumnReset \in Seq(StepSet)
        /\ LeadsTo(DevGen, P1, ColumnReset,
                   (P1 \ {"gated", "isolate", "edges"}) \cup {"clocked", "colreset", "running"})
    BY <1>2, ColumnResetLeads
  <2>2. c2 => LeadsTo(DevGen, P1, ColumnReset, P2)
    BY <2>1, LeadsWeaken
  <2>3. ~c2 => P2 \subseteq P1
    OBVIOUS
  <2> HIDE DEF P1, P2
  <2> QED BY <1>0, <1>2, <2>1, <2>2, <2>3, LeadsWhen
<1>6. p3 \in Seq(StepSet) /\ LeadsTo(DevGen, P2, p3, P3)
  <2>1. /\ ShimReset \in Seq(StepSet)
        /\ LeadsTo(DevGen, P2, ShimReset,
                   (P2 \ {"gated", "clocked", "nsu", "irq"}) \cup {"shimreset", "npidone"})
    BY <1>2, ShimResetLeads
  <2>2. c3 => P3 \subseteq (P2 \ {"gated", "clocked", "nsu", "irq"}) \cup {"shimreset", "npidone"}
    OBVIOUS
  <2>3. ~c3 => P3 \subseteq P2
    OBVIOUS
  <2> HIDE DEF P2, P3
  <2>4. ASSUME c3 PROVE LeadsTo(DevGen, P2, ShimReset, P3)
    BY <2>1, <2>2, <2>4, LeadsWeaken
  <2> QED BY <1>0, <1>2, <2>1, <2>3, <2>4, LeadsWhen
<1>7. p4 \in Seq(StepSet) /\ LeadsTo(DevGen, P3, p4, P4)
  <2>1. Needs(DevGen, nsu) \subseteq P3 /\ (c4 => P4 \subseteq Then(P3, nsu))
    BY DEF Needs, Then, Secures, Covers, Spoils, Goals, Step
  <2>2. ~c4 => P4 \subseteq P3
    OBVIOUS
  <2> HIDE DEF P3, P4, nsu
  <2> QED BY <1>0, <1>1, <1>2, <2>1, <2>2, LeadsWhenStep
<1>8. p5 \in Seq(StepSet) /\ LeadsTo(DevGen, P4, p5, P5)
  <2>1. P5 = IF DevGen = "AIEML" THEN (P4 \ {"gated"}) \cup {"clocked"} ELSE P4
    OBVIOUS
  <2> HIDE DEF P4, P5
  <2> QED BY <1>2, <2>1, ClockAfterResetLeads
<1>9. p6 \in Seq(StepSet) /\ LeadsTo(DevGen, P5, p6, P6)
  <2>1. Needs(DevGen, isolate) \subseteq P5 /\ (c6 => P6 \subseteq Then(P5, isolate))
    BY DEF Needs, Then, Secures, Covers, Spoils, Goals, Step, IsolatedCols
  <2>2. ~c6 => P6 \subseteq P5
    OBVIOUS
  <2> HIDE DEF P5, P6, isolate
  <2> QED BY <1>0, <1>1, <1>2, <2>1, <2>2, LeadsWhenStep
<1>10. p7 \in Seq(StepSet) /\ LeadsTo(DevGen, P6, p7, P7)
  <2>1. Needs(DevGen, zero) \subseteq P6 /\ (c7 => P7 \subseteq Then(P6, zero))
    BY DEF Needs, Then, Secures, Covers, Spoils, Goals, Part, Step
  <2>2. ~c7 => P7 \subseteq P6
    OBVIOUS
  <2> HIDE DEF P6, P7, zero
  <2> QED BY <1>0, <1>1, <1>2, <2>1, <2>2, LeadsWhenStep
<1>11. LeadsTo(DevGen, P7, p8, P8)
  <2>1. Needs(DevGen, irq) \subseteq P7 /\ P8 \subseteq Then(P7, irq)
    BY DEF Needs, Then, Secures, Covers, Spoils, Goals, Step, Guarded
  <2> HIDE DEF P7, P8, irq
  <2> QED BY <1>1, <1>2, <2>1, LeadsStep
<1>12. p9 \in Seq(StepSet) /\ LeadsTo(DevGen, P8, p9, P9)
  <2>1. Needs(DevGen, clk) \subseteq P8 /\ (DevGen = "AIE" => P9 \subseteq Then(P8, clk))
    BY DEF Needs, Then, Secures, Covers, Spoils, Goals, Part, Step
  <2>2. ~(DevGen = "AIE") => P9 \subseteq P8
    OBVIOUS
  <2> HIDE DEF P8, P9, clk
  <2> QED BY <1>0, <1>1, <1>2, <2>1, <2>2, LeadsWhenStep
<1>13. LeadsTo(DevGen, P9, p10, P10)
  <2>1. Needs(DevGen, close) \subseteq P9 /\ P10 \subseteq Then(P9, close)
    BY DEF Needs, Then, Secures, Covers, Spoils, Goals, CloseProtRegs, Array, Step, Guarded
  <2> HIDE DEF P9, P10, close
  <2> QED BY <1>1, <1>2, <2>1, LeadsStep
<1>15. p1 \in Seq(StepSet) /\ p8 \in Seq(StepSet) /\ p10 \in Seq(StepSet)
  <2> HIDE DEF open, irq, close
  <2> QED BY <1>1
<1> HIDE DEF p1, p2, p3, p4, p5, p6, p7, p8, p9, p10, P1, P2, P3, P4, P5, P6, P7, P8, P9, P10
<1> DEFINE q2 == p1 \o p2
           q3 == q2 \o p3
           q4 == q3 \o p4
           q5 == q4 \o p5
           q6 == q5 \o p6
           q7 == q6 \o p7
           q8 == q7 \o p8
           q9 == q8 \o p9
           q10 == q9 \o p10
<1>22. q2 \in Seq(StepSet) /\ LeadsTo(DevGen, P, q2, P2)
  BY <1>2, <1>4, <1>5, <1>15, LeadsConcat
<1> HIDE DEF q2
<1>23. q3 \in Seq(StepSet) /\ LeadsTo(DevGen, P, q3, P3)
  BY <1>2, <1>6, <1>15, <1>22, LeadsConcat
<1> HIDE DEF q3
<1>24. q4 \in Seq(StepSet) /\ LeadsTo(DevGen, P, q4, P4)
  BY <1>2, <1>7, <1>15, <1>23, LeadsConcat
<1> HIDE DEF q4
<1>25. q5 \in Seq(StepSet) /\ LeadsTo(DevGen, P, q5, P5)
  BY <1>2, <1>8, <1>15, <1>24, LeadsConcat
<1> HIDE DEF q5
<1>26. q6 \in Seq(StepSet) /\ LeadsTo(DevGen, P, q6, P6)
  BY <1>2, <1>9, <1>15, <1>25, LeadsConcat
<1> HIDE DEF q6
<1>27. q7 \in Seq(StepSet) /\ LeadsTo(DevGen, P, q7, P7)
  BY <1>2, <1>10, <1>15, <1>26, LeadsConcat
<1> HIDE DEF q7
<1>28. q8 \in Seq(StepSet) /\ LeadsTo(DevGen, P, q8, P8)
  BY <1>2, <1>11, <1>15, <1>27, LeadsConcat
<1> HIDE DEF q8
<1>29. q9 \in Seq(StepSet) /\ LeadsTo(DevGen, P, q9, P9)
  BY <1>2, <1>12, <1>15, <1>28, LeadsConcat
<1> HIDE DEF q9
<1>30. q10 \in Seq(StepSet) /\ LeadsTo(DevGen, P, q10, P10)
  BY <1>2, <1>13, <1>15, <1>29, LeadsConcat
<1> QED BY <1>14, <1>16, <1>30 DEF q2, q3, q4, q5, q6, q7, q8, q9

LEMMA TeardownPartLeads ==
    ASSUME ColsAssumption, GenAssumption, DevGen \in DevGens, NEW P \in SUBSET Goals
    PROVE  /\ TeardownPart \in Seq(StepSet)
           /\ LeadsTo(DevGen, P, TeardownPart, Closed)
<1> DEFINE open == Array("prot", TRUE, "return")
           zero == Part("zero", TRUE, "close")
           clk == Part("clk", FALSE, "close")
           close == CloseProtRegs("return")
           P1 == {}
           P2 == (P1 \ {"gated", "isolate", "edges"}) \cup {"clocked", "colreset", "running"}
           P3 == (P2 \ {"gated", "clocked", "nsu", "irq"}) \cup {"shimreset", "npidone"}
           P4 == IF DevGen = "AIEML" THEN (P3 \ {"gated"}) \cup {"clocked"} ELSE P3
           P5 == P4 \cup {"zero"}
           P6 == {"gated"}
           P7 == Closed
           p1 == <<open>>
           p5 == <<zero, clk, close>>
<1>1. open \in StepSet /\ zero \in StepSet /\ clk \in StepSet /\ close \in StepSet
  BY ShapeOfSteps DEF ColRegs, ArrayRegs
<1>2. /\ P1 \in SUBSET Goals /\ P2 \in SUBSET Goals /\ P3 \in SUBSET Goals
      /\ P4 \in SUBSET Goals /\ P5 \in SUBSET Goals /\ P6 \in SUBSET Goals
      /\ P7 \in SUBSET Goals
  BY DEF Goals, Closed
<1>3. TeardownPart = p1 \o ColumnReset \o ShimReset \o ClockAfterReset \o p5
  BY DEF TeardownPart
<1>4. Needs(DevGen, open) \subseteq P /\ P1 \subseteq Then(P, open)
  BY DEF Needs, Array, Step, Guarded
<1>5. Needs(DevGen, zero) \subseteq P4 /\ P5 \subseteq Then(P4, zero)
  BY DEF Needs, Then, Secures, Covers, Spoils, Goals, Part, Step
<1>6. Needs(DevGen, clk) \subseteq P5 /\ P6 \subseteq Then(P5, clk)
  BY DEF Needs, Then, Secures, Covers, Spoils, Goals, Part, Step
<1>7. Needs(DevGen, close) \subseteq P6 /\ P7 \subseteq Then(P6, close)
  BY DEF Needs, Then, Secures, Covers, Spoils, Goals, CloseProtRegs, Array, Step, Guarded, Closed
<1> HIDE DEF open, zero, clk, close
<1>8. p1 \in Seq(StepSet)
  BY <1>1
<1>9. LeadsTo(DevGen, P, p1, P1)
  BY <1>1, <1>2, <1>4, LeadsStep
<1>10. ColumnReset \in Seq(StepSet) /\ LeadsTo(DevGen, P1, ColumnReset, P2)
  BY <1>2, ColumnResetLeads
<1>11. ShimReset \in Seq(StepSet) /\ LeadsTo(DevGen, P2, ShimReset, P3)
  <2> HIDE DEF P2
  <2> QED BY <1>2, ShimResetLeads
<1>12. ClockAfterReset \in Seq(StepSet) /\ LeadsTo(DevGen, P3, ClockAfterReset, P4)
  <2> HIDE DEF P3
  <2> QED BY <1>2, ClockAfterResetLeads
<1> HIDE DEF P1, P2, P3, P4, P5, P6, P7
<1>13. p5 \in Seq(StepSet) /\ LeadsTo(DevGen, P4, p5, P7)
  <2>1. LeadsTo(DevGen, P4, <<zero, clk>>, P6)
    BY <1>1, <1>2, <1>5, <1>6, LeadsTwo
  <2> QED BY <1>1, <1>2, <1>7, <2>1, LeadsThree
<1> HIDE DEF p1, p5
<1> DEFINE q2 == p1 \o ColumnReset
           q3 == q2 \o ShimReset
           q4 == q3 \o ClockAfterReset
           q5 == q4 \o p5
<1>14. q2 \in Seq(StepSet) /\ LeadsTo(DevGen, P, q2, P2)
  BY <1>2, <1>8, <1>9, <1>10, LeadsConcat
<1> HIDE DEF q2
<1>15. q3 \in Seq(StepSet) /\ LeadsTo(DevGen, P, q3, P3)
  BY <1>2, <1>11, <1>14, LeadsConcat
<1> HIDE DEF q3
<1>16. q4 \in Seq(StepSet) /\ LeadsTo(DevGen, P, q4, P4)
  BY <1>2, <1>12, <1>15, LeadsConcat
<1> HIDE DEF q4
<1>17. q5 \in Seq(StepSet) /\ LeadsTo(DevGen, P, q5, P7)
  BY <1>2, <1>13, <1>16, LeadsConcat
<1> QED BY <1>3, <1>17 DEF q2, q3, q4, P7

LEMMA ResetPartitionLeads ==
    ASSUME ColsAssumption, GenAssumption, DevGen \in DevGens
    PROVE  /\ ResetPartition \in Seq(StepSet)
           /\ LeadsTo(DevGen, Closed, ResetPartition, Closed)
<1> DEFINE gate == Part("clk", FALSE, "return")
           reset == Part("colrst", TRUE, "ignore")
           clock == Part("clk", TRUE, "return")
           first == IF DevGen = "AIE" THEN Part("shimrst", TRUE, "ignore") ELSE Array("prot", TRUE, "ignore")
           npi == Array("npirst", TRUE, "ignore")
           noNpi == Array("npirst", FALSE, "ignore")
           last == IF DevGen = "AIE" THEN Part("shimrst", FALSE, "ignore") ELSE CloseProtRegs("ignore")
           open == Array("prot", TRUE, "ignore")
           nsu == Step("nsu", TRUE, NocCols, "ignore")
           close == CloseProtRegs("ignore")
           G == Closed \cup {"gated"}
           O == IF DevGen = "AIE" THEN Closed ELSE {}
           p1 == <<gate, reset, clock>>
           p2 == <<first, npi, noNpi, last>>
           p3 == <<open, nsu, close, gate>>
<1>1. /\ gate \in StepSet /\ reset \in StepSet /\ clock \in StepSet /\ first \in StepSet
      /\ npi \in StepSet /\ noNpi \in StepSet /\ last \in StepSet /\ open \in StepSet
      /\ nsu \in StepSet /\ close \in StepSet
  <2>1. NocCols \in SUBSET Cols
    BY DEF ColsAssumption
  <2> QED BY <2>1, ShapeOfSteps DEF ColRegs, ArrayRegs
<1>2. Closed \in SUBSET Goals /\ G \in SUBSET Goals /\ O \in SUBSET Goals
  BY DEF Goals, Closed
<1>3. ResetPartition = p1 \o p2 \o p3
  BY DEF ResetPartition
<1>4. Needs(DevGen, gate) \subseteq Closed /\ G \subseteq Then(Closed, gate) /\ Closed \subseteq Then(Closed, gate)
  BY DEF Needs, Then, Secures, Covers, Spoils, Goals, Part, Step, Closed
<1>5. Needs(DevGen, reset) \subseteq G /\ Closed \subseteq Then(G, reset)
  BY DEF Needs, Then, Secures, Covers, Spoils, Goals, Part, Step, Closed
<1>6. Needs(DevGen, clock) \subseteq Closed /\ Closed \subseteq Then(Closed, clock)
  BY DEF Needs, Then, Secures, Covers, Spoils, Goals, Part, Step, Closed
<1>7. Needs(DevGen, first) \subseteq Closed /\ O \subseteq Then(Closed, first)
  BY DEF Needs, Then, Secures, Covers, Spoils, Goals, Part, Array, Step, Closed
<1>8. Needs(DevGen, npi) \subseteq O /\ O \subseteq Then(O, npi)
  BY DEF Needs, Then, Secures, Covers, Spoils, Goals, Array, Step, Closed
<1>9. Needs(DevGen, noNpi) \subseteq O /\ O \subseteq Then(O, noNpi)
  BY DEF Needs, Then, Secures, Covers, Spoils, Goals, Array, Step, Closed
<1>10. Needs(DevGen, last) \subseteq O /\ Closed \subseteq Then(O, last)
  BY DEF Needs, Then, Secures, Covers, Spoils, Goals, Part, CloseProtRegs, Array, Step, Closed, Guarded
<1>11. Needs(DevGen, open) \subseteq Closed /\ {} \subseteq Then(Closed, open)
  BY DEF Needs, Array, Step
<1>12. Needs(DevGen, nsu) \subseteq {} /\ {} \subseteq Then({}, nsu)
  BY DEF Needs, Step
<1>13. Needs(DevGen, close) \subseteq {} /\ Closed \subseteq Then({}, close)
  BY DEF Needs, Then, Secures, Covers, Spoils, Goals, CloseProtRegs, Array, Step, Closed, Guarded
<1> HIDE DEF gate, reset, clock, first, npi, noNpi, last, open, nsu, close, G, O
<1>14. p1 \in Seq(StepSet) /\ LeadsTo(DevGen, Closed, p1, Closed)
  <2>1. LeadsTo(DevGen, Closed, <<gate, reset>>, Closed)
    BY <1>1, <1>2, <1>4, <1>5, LeadsTwo
  <2> QED BY <1>1, <1>2, <1>6, <2>1, LeadsThree
<1>15. p2 \in Seq(StepSet) /\ LeadsTo(DevGen, Closed, p2, Closed)
  <2>1. LeadsTo(DevGen, Closed, <<first, npi>>, O)
    BY <1>1, <1>2, <1>7, <1>8, LeadsTwo
  <2>2. LeadsTo(DevGen, O, <<noNpi, last>>, Closed)
    BY <1>1, <1>2, <1>9, <1>10, LeadsTwo
  <2> QED BY <1>1, <1>2, <2>1, <2>2, LeadsFour
<1>16. p3 \in Seq(StepSet) /\ LeadsTo(DevGen, Closed, p3, Closed)
  <2>0. {} \in SUBSET Goals
    OBVIOUS
  <2>1. LeadsTo(DevGen, Closed, <<open, nsu>>, {})
    BY <1>1, <1>2, <1>11, <1>12, <2>0, LeadsTwo
  <2>2. LeadsTo(DevGen, {}, <<close, gate>>, Closed)
    BY <1>1, <1>2, <1>13, <1>4, <2>0, LeadsTwo
  <2> QED BY <1>1, <1>2, <2>0, <2>1, <2>2, LeadsFour
<1> HIDE DEF p1, p2, p3
<1> DEFINE q2 == p1 \o p2
<1>17. q2 \in Seq(StepSet) /\ LeadsTo(DevGen, Closed, q2, Closed)
  BY <1>2, <1>14, <1>15, LeadsConcat
<1> HIDE DEF q2
<1>18. q2 \o p3 \in Seq(StepSet) /\ LeadsTo(DevGen, Closed, q2 \o p3, Closed)
  BY <1>2, <1>16, <1>17, LeadsConcat
<1> QED BY <1>3, <1>18 DEF q2

LEMMA LeadsFrom ==
    ASSUME NEW gen, NEW P \in SUBSET Goals, NEW R \in SUBSET P, NEW s, NEW Q,
           LeadsTo(gen, R, s, Q)
    PROVE  LeadsTo(gen, P, s, Q)
<1>1. \A n : After(R, s, n) \subseteq After(P, s, n)
  BY DEF After
<1> QED BY <1>1 DEF LeadsTo

-----------------------------------------------------------------------------
(* The steps on the hardware *)

(* The facts that hold.                                                    *)
Held ==
    {r \in Goals :
        /\ r = "closed" => ~array["prot"]
        /\ r = "gated" => hw[d0]["clk"] = {}
        /\ r = "clocked" => Cols \subseteq hw[d0]["clk"]
        /\ r = "colreset" => Reset("col", d0)
        /\ r = "running" => hw[d0]["colrst"] = {}
        /\ r = "shimset" => Cols \subseteq hw[d0]["shimrst"]
        /\ r = "shimreset" => Reset("shim", d0)
        /\ r = "npidone" => ~array["npirst"]
        /\ r = "edges" => {0, NumCols - 1} \subseteq hw[d0]["isolate"]
        /\ r \in {"nsu", "irq"} => NocCols \subseteq hw[d0][r]
        /\ r \in {"isolate", "zero"} => Cols \subseteq hw[d0][r]}

LEMMA NowInSteps ==
    ASSUME TypeOK, ~Idle
    PROVE  Now \in StepSet /\ call.steps \in Seq(StepSet) /\ call.steps # <<>> /\ d0 \in Devs
<1>1. call.steps \in Seq(StepSet) /\ call.steps # <<>> /\ d0 \in Devs
  BY DEF TypeOK, Idle, d0
<1> QED BY <1>1 DEF Now

LEMMA WriteColsEffect ==
    ASSUME TypeOK, ~Idle, Now.reg \in ColRegs, NEW cols \in SUBSET Now.cols, WriteCols(cols)
    PROVE  /\ hw' \in [Devs -> [ColRegs -> SUBSET Cols]] /\ array' = array
           /\ wasRst \subseteq wasRst' /\ wasRst' \subseteq {"col", "shim"} \X Devs \X Cols
           /\ Now.reg = "colrst" /\ Now.set => {"col"} \X {d0} \X cols \subseteq wasRst'
           /\ hw'[d0][Now.reg] = IF Now.set THEN hw[d0][Now.reg] \cup cols ELSE hw[d0][Now.reg] \ cols
           /\ \A g \in ColRegs \ {Now.reg} :
                 ~(g = "isolate" /\ Now.reg = "colrst" /\ Now.set) => hw'[d0][g] = hw[d0][g]
           /\ \A d \in Devs \ {d0} : hw'[d] = hw[d]
<1>1. Now \in StepSet /\ d0 \in Devs
  BY NowInSteps
<1>2. PICK reg, set, d : reg = Now.reg /\ set = Now.set /\ d = d0
  OBVIOUS
<1>3. reg \in ColRegs /\ set \in BOOLEAN /\ d \in Devs /\ cols \in SUBSET Cols
  BY <1>1, <1>2 DEF StepSet
<1>4. hw \in [Devs -> [ColRegs -> SUBSET Cols]] /\ wasRst \subseteq {"col", "shim"} \X Devs \X Cols
  BY DEF TypeOK
<1>5. /\ hw' = LET new == [hw EXCEPT ![d][reg] = IF set THEN @ \cup cols ELSE @ \ cols]
               IN  IF reg = "colrst" /\ set
                   THEN [new EXCEPT ![d]["isolate"] = @ \ cols] ELSE new
      /\ wasRst' = IF reg = "colrst" /\ set THEN wasRst \cup ({"col"} \X {d} \X cols) ELSE wasRst
      /\ array' = array
  BY <1>2 DEF WriteCols
<1> DEFINE v == IF set THEN hw[d][reg] \cup cols ELSE hw[d][reg] \ cols
           o == [hw[d] EXCEPT ![reg] = v]
           p == [o EXCEPT !["isolate"] = hw[d]["isolate"] \ cols]
<1>6. v \in SUBSET Cols
  BY <1>3, <1>4
<1>7. CASE reg = "colrst" /\ set
  <2>1. hw' = [hw EXCEPT ![d] = p]
    BY <1>3, <1>4, <1>5, <1>7 DEF ColRegs
  <2>2. /\ p \in [ColRegs -> SUBSET Cols] /\ p[reg] = v
        /\ \A g \in ColRegs \ {reg, "isolate"} : p[g] = hw[d][g]
    <3> HIDE DEF v
    <3> QED BY <1>3, <1>4, <1>6, <1>7 DEF ColRegs
  <2> HIDE DEF p
  <2>3. hw'[d] = p /\ hw' \in [Devs -> [ColRegs -> SUBSET Cols]] /\ \A e \in Devs \ {d} : hw'[e] = hw[e]
    BY <1>3, <1>4, <2>1, <2>2
  <2>4. /\ wasRst \subseteq wasRst' /\ wasRst' \subseteq {"col", "shim"} \X Devs \X Cols
        /\ {"col"} \X {d} \X cols \subseteq wasRst'
    BY <1>3, <1>4, <1>5, <1>7
  <2> QED BY <1>2, <1>5, <1>7, <2>2, <2>3, <2>4
<1>8. CASE ~(reg = "colrst" /\ set)
  <2>1. hw' = [hw EXCEPT ![d] = o]
    BY <1>3, <1>4, <1>5, <1>8
  <2>2. /\ o \in [ColRegs -> SUBSET Cols] /\ o[reg] = v
        /\ \A g \in ColRegs \ {reg} : o[g] = hw[d][g]
    <3> HIDE DEF v
    <3> QED BY <1>3, <1>4, <1>6, <1>8
  <2> HIDE DEF o
  <2>3. hw'[d] = o /\ hw' \in [Devs -> [ColRegs -> SUBSET Cols]] /\ \A e \in Devs \ {d} : hw'[e] = hw[e]
    BY <1>3, <1>4, <2>1, <2>2
  <2>4. wasRst' = wasRst
    BY <1>5, <1>8
  <2> QED BY <1>2, <1>4, <1>5, <1>8, <2>2, <2>3, <2>4
<1> QED BY <1>7, <1>8

LEMMA ShimsAreCols ==
    ASSUME TypeOK, NEW d \in Devs
    PROVE  ShimsOf(d) \subseteq Cols
BY DEF TypeOK, ShimsOf, ColRegs

LEMMA ResetShimsEffect ==
    ASSUME TypeOK, ResetShims
    PROVE  /\ hw' \in [Devs -> [ColRegs -> SUBSET Cols]]
           /\ wasRst \subseteq wasRst' /\ wasRst' \subseteq {"col", "shim"} \X Devs \X Cols
           /\ \A d \in Devs : {"shim"} \X {d} \X ShimsOf(d) \subseteq wasRst'
           /\ \A d \in Devs : \A g \in ColRegs \ {"clk", "nsu", "irq"} : hw'[d][g] = hw[d][g]
<1>1. hw \in [Devs -> [ColRegs -> SUBSET Cols]] /\ wasRst \subseteq {"col", "shim"} \X Devs \X Cols
  BY DEF TypeOK
<1>2. \A d \in Devs : ShimsOf(d) \subseteq Cols
  BY ShimsAreCols
<1>3. hw' = [d \in Devs |-> [reg \in ColRegs |->
                 IF reg = "clk" /\ DevGen = "AIE" THEN hw[d][reg] \cup ShimsOf(d)
                 ELSE IF reg \in {"clk", "nsu", "irq"} THEN hw[d][reg] \ ShimsOf(d)
                 ELSE hw[d][reg]]]
  BY DEF ResetShims
<1>4. wasRst' = wasRst \cup UNION { {"shim"} \X {d} \X ShimsOf(d) : d \in Devs }
  BY DEF ResetShims
<1>5. \A d \in Devs : {"shim"} \X {d} \X ShimsOf(d) \subseteq {"col", "shim"} \X Devs \X Cols
  BY <1>2
<1>6. hw' \in [Devs -> [ColRegs -> SUBSET Cols]]
  BY <1>1, <1>2, <1>3
<1>7. \A d \in Devs : \A g \in ColRegs \ {"clk", "nsu", "irq"} : hw'[d][g] = hw[d][g]
  BY <1>3
<1>8. wasRst \subseteq wasRst' /\ wasRst' \subseteq {"col", "shim"} \X Devs \X Cols
  BY <1>1, <1>4, <1>5
<1>9. \A d \in Devs : {"shim"} \X {d} \X ShimsOf(d) \subseteq wasRst'
  BY <1>4
<1> QED BY <1>6, <1>7, <1>8, <1>9

LEMMA HeldAfterWriteCols ==
    ASSUME TypeOK, ~Idle, Now.reg \in ColRegs, NEW cols \in SUBSET Now.cols, WriteCols(cols),
           call'.dev = call.dev
    PROVE  /\ Held \ Spoils(Now) \subseteq Held'
           /\ cols = Now.cols => Secures(Now) \subseteq Held'
<1>1. /\ hw' \in [Devs -> [ColRegs -> SUBSET Cols]] /\ array' = array
      /\ wasRst \subseteq wasRst' /\ wasRst' \subseteq {"col", "shim"} \X Devs \X Cols
      /\ Now.reg = "colrst" /\ Now.set => {"col"} \X {d0} \X cols \subseteq wasRst'
      /\ hw'[d0][Now.reg] = IF Now.set THEN hw[d0][Now.reg] \cup cols ELSE hw[d0][Now.reg] \ cols
      /\ \A g \in ColRegs \ {Now.reg} :
            ~(g = "isolate" /\ Now.reg = "colrst" /\ Now.set) => hw'[d0][g] = hw[d0][g]
  BY WriteColsEffect
<1>2. d0' = d0
  BY DEF d0
<1>3. hw[d0] \in [ColRegs -> SUBSET Cols] /\ cols \in SUBSET Cols /\ Now.set \in BOOLEAN
  BY NowInSteps DEF TypeOK, StepSet
<1>4. ASSUME NEW r \in Held, r \notin Spoils(Now)
      PROVE  r \in Held'
  BY <1>1, <1>2, <1>3, <1>4 DEF Held, Spoils, Goals, Reset, ColRegs
<1>5. ASSUME cols = Now.cols, NEW r \in Secures(Now)
      PROVE  r \in Held'
  <2>1. Covers(cols, r)
    BY <1>5 DEF Secures
  <2> QED BY <1>1, <1>2, <1>3, <1>5, <2>1 DEF Held, Secures, Covers, Goals, Reset, ColRegs
<1> QED BY <1>4, <1>5

LEMMA HeldAfterWriteArray ==
    ASSUME TypeOK, ~Idle, Now.reg \in ArrayRegs, WriteArray, call'.dev = call.dev,
           GenAssumption, Needs(DevGen, Now) \subseteq Held
    PROVE  /\ hw' \in [Devs -> [ColRegs -> SUBSET Cols]] /\ array' \in [ArrayRegs -> BOOLEAN]
           /\ wasRst' \subseteq {"col", "shim"} \X Devs \X Cols
           /\ \A d \in Devs : \A g \in {"colrst", "zero"} : hw'[d][g] = hw[d][g]
           /\ Then(Held, Now) \subseteq Held'
<1>1. d0' = d0
  BY DEF d0
<1>2. /\ hw \in [Devs -> [ColRegs -> SUBSET Cols]] /\ array \in [ArrayRegs -> BOOLEAN]
      /\ wasRst \subseteq {"col", "shim"} \X Devs \X Cols /\ Now.set \in BOOLEAN /\ d0 \in Devs
      /\ DevGen \in {"AIE", "AIEML"} /\ Now.fail \in {"return", "close", "close_go_on", "ignore"}
  BY NowInSteps DEF TypeOK, StepSet, GenAssumption
<1>3. array' \in [ArrayRegs -> BOOLEAN] /\ array'[Now.reg] = Now.set
      /\ \A g \in ArrayRegs \ {Now.reg} : array'[g] = array[g]
  BY <1>2 DEF WriteArray
<1>4. CASE Now.reg = "npirst" /\ Now.set
  <2>1. ResetShims
    BY <1>4 DEF WriteArray
  <2>2. /\ hw' \in [Devs -> [ColRegs -> SUBSET Cols]]
        /\ wasRst \subseteq wasRst' /\ wasRst' \subseteq {"col", "shim"} \X Devs \X Cols
        /\ \A d \in Devs : {"shim"} \X {d} \X ShimsOf(d) \subseteq wasRst'
        /\ \A d \in Devs : \A g \in ColRegs \ {"clk", "nsu", "irq"} : hw'[d][g] = hw[d][g]
    BY <2>1, ResetShimsEffect
  <2>3. ASSUME NEW r \in Held, r \notin Spoils(Now)
        PROVE  r \in Held'
    BY <1>1, <1>2, <1>3, <1>4, <2>2, <2>3 DEF Held, Spoils, Goals, Reset, ColRegs, ArrayRegs
  <2>4. ASSUME NEW r \in Secures(Now)
        PROVE  r \in Held'
    <3>1. r = "shimreset" /\ Now.fail \in {"close", "return"}
      BY <1>2, <1>4, <2>4 DEF Secures
    <3>2. DevGen = "AIE" => Cols \subseteq hw[d0]["shimrst"]
      BY <1>4, <3>1 DEF Needs, Held
    <3>3. Cols \subseteq ShimsOf(d0)
      BY <1>2, <3>2 DEF ShimsOf
    <3>4. Reset("shim", d0)'
      BY <1>1, <1>2, <2>2, <3>3 DEF Reset
    <3> QED BY <1>1, <3>1, <3>4 DEF Held, Goals
  <2> QED BY <1>3, <2>2, <2>3, <2>4 DEF Then, ColRegs
<1>5. CASE ~(Now.reg = "npirst" /\ Now.set)
  <2>1. hw' = hw /\ wasRst' = wasRst
    BY <1>5 DEF WriteArray
  <2>2. ASSUME NEW r \in Held, r \notin Spoils(Now)
        PROVE  r \in Held'
    BY <1>1, <1>2, <1>3, <1>5, <2>1, <2>2 DEF Held, Spoils, Goals, Reset, ArrayRegs
  <2>3. ASSUME NEW r \in Secures(Now)
        PROVE  r \in Held'
    BY <1>1, <1>2, <1>3, <1>5, <2>1, <2>3 DEF Held, Secures, Goals, ColRegs, ArrayRegs
  <2> QED BY <1>2, <1>3, <2>1, <2>2, <2>3 DEF Then
<1> QED BY <1>4, <1>5

-----------------------------------------------------------------------------
(* The invariant: the rest of the running sequence leads from what holds   *)
(* now to what its call promises.                                          *)
IInv ==
    /\ TypeOK
    /\ LeadsTo(DevGen, Held, call.steps, Final(DevGen, call))

Assumptions == ColsAssumption /\ GenAssumption /\ FailAssumption /\ OpsAssumption

LEMMA AssumptionsHold == Assumptions
BY ColsAssumption, GenAssumption, FailAssumption, OpsAssumption DEF Assumptions

LEMMA GoalSets ==
    /\ Held \in SUBSET Goals /\ Closed \in SUBSET Goals
    /\ \A gen, c : Final(gen, c) \in SUBSET Goals /\ Closed \subseteq Final(gen, c)
BY DEF Held, Closed, Final, InitFacts, Goals

(* When no sequence runs its facts hold.                                   *)
LEMMA IdleFacts ==
    ASSUME IInv, Idle
    PROVE  Final(DevGen, call) \subseteq Held
<1>1. LeadsTo(DevGen, Held, <<>>, Final(DevGen, call))
  BY DEF IInv, Idle
<1>2. Len(<<>>) = 0 /\ After(Held, <<>>, 0) \subseteq Held
  BY DEF After
<1> QED BY <1>1, <1>2 DEF LeadsTo

LEMMA InitIInv == Init => IInv
<1> SUFFICES ASSUME Init PROVE IInv
  OBVIOUS
<1>1. PICK d \in Devs : call = [dev |-> d, op |-> "none", opts |-> {}, steps |-> <<>>,
                                rc |-> "XAIE_OK"]
  BY DEF Init
<1>2. TypeOK
  <2>1. <<>> \in Seq(StepSet)
    OBVIOUS
  <2> QED BY <1>1, <2>1 DEF Init, TypeOK
<1>3. Closed \subseteq Held
  BY DEF Init, Closed, Held, Goals, ArrayRegs
<1>4. Final(DevGen, call) = Closed /\ call.steps = <<>>
  BY <1>1 DEF Final
<1>5. LeadsTo(DevGen, Held, <<>>, Closed)
  BY <1>3, GoalSets, LeadsEmpty
<1> QED BY <1>2, <1>4, <1>5 DEF IInv

LEMMA StartIInv ==
    ASSUME IInv, UNCHANGED DevGen, NEW d \in Devs, NEW op, NEW opts \in SUBSET InitOpts,
           Start(d, op, opts)
    PROVE  IInv'
<1>1. Assumptions
  BY AssumptionsHold
<1>2. /\ TypeOK /\ DevGen \in DevGens /\ op \in {"init", "teardown", "reset"} /\ Idle /\ op \in Ops
  BY <1>1 DEF IInv, TypeOK, Start, Assumptions, OpsAssumption
<1>3. /\ call' = [dev |-> d, op |-> op, opts |-> opts, steps |-> Steps(op, opts), rc |-> "XAIE_OK"]
      /\ hw' = hw /\ array' = array /\ wasRst' = {}
  BY DEF Start
<1>4. Closed \subseteq Held
  BY <1>2, IdleFacts, GoalSets
<1>5. Closed \subseteq Held'
  BY <1>3, <1>4 DEF Closed, Held, Goals
<1>6. /\ Steps(op, opts) \in Seq(StepSet)
      /\ LeadsTo(DevGen, Closed, Steps(op, opts), Final(DevGen, call'))
  <2>1. CASE op = "init"
    <3>1. Steps(op, opts) = InitPart(opts) /\ Final(DevGen, call') = InitFacts(DevGen, opts)
      BY <1>3, <2>1 DEF Steps, Final
    <3> QED BY <1>1, <1>2, <3>1, GoalSets, InitPartLeads DEF Assumptions
  <2>2. CASE op = "teardown"
    <3>1. Steps(op, opts) = TeardownPart /\ Final(DevGen, call') = Closed
      BY <1>3, <2>2 DEF Steps, Final
    <3> QED BY <1>1, <1>2, <3>1, GoalSets, TeardownPartLeads DEF Assumptions
  <2>3. CASE op = "reset"
    <3>1. Steps(op, opts) = ResetPartition /\ Final(DevGen, call') = Closed
      BY <1>3, <2>3 DEF Steps, Final
    <3> QED BY <1>1, <1>2, <3>1, GoalSets, ResetPartitionLeads DEF Assumptions
  <2> QED BY <1>2, <2>1, <2>2, <2>3
<1>7. TypeOK'
  BY <1>2, <1>3, <1>6 DEF TypeOK
<1>8. Held' \in SUBSET Goals
  BY DEF Held
<1>9. LeadsTo(DevGen, Held', call'.steps, Final(DevGen, call'))
  <2>1. call'.steps = Steps(op, opts)
    BY <1>3
  <2> QED BY <1>5, <1>6, <1>8, <2>1, LeadsFrom
<1> QED BY <1>7, <1>9 DEF IInv

LEMMA StepSucceedsIInv ==
    ASSUME IInv, UNCHANGED DevGen, StepSucceeds
    PROVE  IInv'
<1>1. Assumptions
  BY AssumptionsHold
<1>2. TypeOK /\ ~Idle /\ GoOn
  BY DEF IInv, StepSucceeds
<1>3. Now \in StepSet /\ call.steps \in Seq(StepSet) /\ call.steps # <<>>
  BY <1>2, NowInSteps
<1>4. call' = [call EXCEPT !.steps = Tail(call.steps)]
  BY <1>2 DEF GoOn
<1>5. /\ call'.dev = call.dev /\ call'.steps = Tail(call.steps)
      /\ call'.op = call.op /\ call'.opts = call.opts /\ call'.rc = call.rc
  BY <1>2, <1>4 DEF TypeOK
<1>6. Tail(call.steps) \in Seq(StepSet)
  BY <1>3
<1>7. Needs(DevGen, Now) \subseteq Held
  <2>1. Then(Held, Now) \in SUBSET Goals
    BY DEF Then, Held, Secures
  <2> QED BY <1>3, <2>1, GoalSets, LeadsTail DEF IInv, Now
<1>8. /\ Then(Held, Now) \subseteq Held'
      /\ hw' \in [Devs -> [ColRegs -> SUBSET Cols]] /\ array' \in [ArrayRegs -> BOOLEAN]
      /\ wasRst' \subseteq {"col", "shim"} \X Devs \X Cols
  <2>1. CASE Now.reg \in ColRegs
    <3>1. WriteCols(Now.cols)
      BY <2>1 DEF StepSucceeds
    <3>2. /\ hw' \in [Devs -> [ColRegs -> SUBSET Cols]] /\ array' = array
          /\ wasRst' \subseteq {"col", "shim"} \X Devs \X Cols
      BY <1>2, <2>1, <3>1, WriteColsEffect
    <3>3. Held \ Spoils(Now) \subseteq Held' /\ Secures(Now) \subseteq Held'
      BY <1>2, <1>5, <2>1, <3>1, HeldAfterWriteCols
    <3> QED BY <1>2, <3>2, <3>3 DEF Then, TypeOK
  <2>2. CASE Now.reg \in ArrayRegs
    <3>1. WriteArray
      BY <2>2 DEF StepSucceeds, ArrayRegs, ColRegs
    <3> QED BY <1>1, <1>2, <1>5, <1>7, <2>2, <3>1, HeldAfterWriteArray DEF Assumptions
  <2> QED BY <1>3, <2>1, <2>2 DEF StepSet
<1>9. TypeOK'
  BY <1>2, <1>4, <1>6, <1>8 DEF TypeOK
<1>10. Held' \in SUBSET Goals
  BY DEF Held
<1>11. LeadsTo(DevGen, Held', Tail(call.steps), Final(DevGen, call))
  BY <1>3, <1>8, <1>10, GoalSets, LeadsTail DEF IInv, Now
<1>12. Final(DevGen, call') = Final(DevGen, call)
  BY <1>5 DEF Final
<1> QED BY <1>5, <1>9, <1>11, <1>12 DEF IInv

LEMMA StepFailsIInv ==
    ASSUME IInv, UNCHANGED DevGen, StepFails
    PROVE  IInv'
<1>1. Assumptions
  BY AssumptionsHold
<1>2. TypeOK /\ ~Idle /\ AfterFailure /\ Now.reg \in CanFail
  BY DEF IInv, StepFails
<1>3. Now \in StepSet /\ call.steps \in Seq(StepSet) /\ call.steps # <<>>
  BY <1>2, NowInSteps
<1>4. Now.fail \in {"return", "close", "close_go_on", "ignore"} /\ Tail(call.steps) \in Seq(StepSet)
  BY <1>3 DEF StepSet
<1> DEFINE shut == CloseProtRegs("ignore")
           rest == CASE Now.fail = "ignore" -> Tail(call.steps)
                     [] Now.fail = "return" -> <<>>
                     [] Now.fail = "close" -> <<shut>>
                     [] Now.fail = "close_go_on" -> <<shut>> \o Tail(call.steps)
           rc == IF Now.fail \in {"return", "close"} THEN "XAIE_ERR" ELSE call.rc
<1>5. call' = [call EXCEPT !.rc = rc, !.steps = rest]
  <2>1. call = [call EXCEPT !.rc = call.rc]
    BY <1>2 DEF TypeOK
  <2> QED BY <1>2, <1>4, <2>1 DEF AfterFailure, GoOn, TypeOK
<1>6. /\ call'.dev = call.dev /\ call'.steps = rest
      /\ call'.op = call.op /\ call'.opts = call.opts /\ call'.rc = rc
  <2> HIDE DEF rest, rc
  <2> QED BY <1>2, <1>5 DEF TypeOK
<1>7. shut \in StepSet
  BY <1>1, ShapeOfSteps DEF Assumptions, ArrayRegs, CloseProtRegs
<1>8. rest \in Seq(StepSet) /\ rc \in {"XAIE_OK", "XAIE_ERR"}
  <2>1. rc \in {"XAIE_OK", "XAIE_ERR"}
    BY <1>2 DEF TypeOK
  <2> HIDE DEF shut
  <2> QED BY <1>4, <1>7, <2>1
<1>9. Needs(DevGen, Now) \subseteq Held
  <2>1. Then(Held, Now) \in SUBSET Goals
    BY DEF Then, Held, Secures
  <2> QED BY <1>3, <2>1, GoalSets, LeadsTail DEF IInv, Now
<1>10. /\ Held \ Spoils(Now) \subseteq Held'
       /\ hw' \in [Devs -> [ColRegs -> SUBSET Cols]] /\ array' \in [ArrayRegs -> BOOLEAN]
       /\ wasRst' \subseteq {"col", "shim"} \X Devs \X Cols
  <2>1. CASE Now.reg \in ColRegs /\ \E cols \in SUBSET Now.cols \ {Now.cols} : WriteCols(cols)
    <3>1. PICK cols \in SUBSET Now.cols : WriteCols(cols)
      BY <2>1
    <3>2. /\ hw' \in [Devs -> [ColRegs -> SUBSET Cols]] /\ array' = array
          /\ wasRst' \subseteq {"col", "shim"} \X Devs \X Cols
      BY <1>2, <2>1, <3>1, WriteColsEffect
    <3>3. Held \ Spoils(Now) \subseteq Held'
      BY <1>2, <1>6, <2>1, <3>1, HeldAfterWriteCols
    <3> QED BY <1>2, <3>2, <3>3 DEF TypeOK
  <2>2. CASE Now.reg \in ArrayRegs /\ UNCHANGED <<hw, array, wasRst>>
    <3>1. d0' = d0
      BY <1>6 DEF d0
    <3>2. Held' = Held
      BY <2>2, <3>1 DEF Held, Reset
    <3> QED BY <1>2, <2>2, <3>2 DEF TypeOK
  <2>3. CASE Now.reg \in ArrayRegs /\ WriteArray
    <3>1. /\ Then(Held, Now) \subseteq Held'
          /\ hw' \in [Devs -> [ColRegs -> SUBSET Cols]] /\ array' \in [ArrayRegs -> BOOLEAN]
          /\ wasRst' \subseteq {"col", "shim"} \X Devs \X Cols
      BY <1>1, <1>2, <1>6, <1>9, <2>3, HeldAfterWriteArray DEF Assumptions
    <3> QED BY <3>1 DEF Then
  <2> QED BY <2>1, <2>2, <2>3 DEF StepFails
<1>11. TypeOK'
  <2> HIDE DEF rest, rc
  <2> QED BY <1>2, <1>5, <1>8, <1>10 DEF TypeOK
<1>12. Held' \in SUBSET Goals
  BY DEF Held
<1>13. LeadsTo(DevGen, Held', rest, Final(DevGen, call'))
  <2>1. Needs(DevGen, shut) = {} /\ Spoils(shut) = {}
    BY DEF Needs, Spoils, CloseProtRegs, Array, Step
  <2>2. CASE Now.fail \in {"ignore", "close_go_on"}
    <3>1. Then(Held, Now) \subseteq Held'
      BY <1>2, <1>10, <2>2 DEF Then, Secures
    <3>2. LeadsTo(DevGen, Held', Tail(call.steps), Final(DevGen, call))
      BY <1>3, <1>12, <3>1, GoalSets, LeadsTail DEF IInv, Now
    <3>3. Final(DevGen, call') = Final(DevGen, call)
      BY <1>6, <2>2 DEF Final
    <3>4. CASE Now.fail = "ignore"
      BY <3>2, <3>3, <3>4
    <3>5. CASE Now.fail = "close_go_on"
      <4>1. rest = <<shut>> \o Tail(call.steps)
        BY <3>5
      <4> HIDE DEF shut, rest
      <4>2. LeadsTo(DevGen, Held', <<shut>>, Held')
        BY <1>7, <1>12, <2>1, LeadsStep DEF Then
      <4>3. <<shut>> \in Seq(StepSet)
        BY <1>7
      <4> QED BY <1>4, <1>12, <3>2, <3>3, <4>1, <4>2, <4>3, GoalSets, LeadsConcat
    <3> QED BY <2>2, <3>4, <3>5
  <2>3. CASE Now.fail \in {"return", "close"}
    <3>1. Final(DevGen, call') = Closed
      BY <1>6, <2>3 DEF Final
    <3>2. CASE Now.fail = "return"
      <4>1. Guarded => "closed" \in Held /\ "closed" \notin Spoils(Now)
        BY <1>2, <1>9, <3>2 DEF Needs, Spoils, Guarded
      <4>2. Closed \subseteq Held'
        BY <1>10, <4>1 DEF Closed
      <4>3. rest = <<>>
        BY <3>2
      <4> QED BY <1>12, <3>1, <4>2, <4>3, LeadsEmpty
    <3>3. CASE Now.fail = "close"
      <4>1. Closed \subseteq Then(Held', shut)
        BY DEF Closed, Guarded, Then, Secures, Covers, Goals, CloseProtRegs, Array, Step
      <4>2. rest = <<shut>>
        BY <3>3
      <4> HIDE DEF shut, rest
      <4> QED BY <1>7, <1>12, <2>1, <3>1, <4>1, <4>2, GoalSets, LeadsStep
    <3> QED BY <2>3, <3>2, <3>3
  <2> QED BY <1>4, <2>2, <2>3
<1> QED BY <1>6, <1>11, <1>13 DEF IInv

LEMMA NextIInv == IInv /\ [Next]_vars => IInv'
<1> SUFFICES ASSUME IInv, [Next]_vars PROVE IInv'
  OBVIOUS
<1>1. CASE UNCHANGED vars
  <2>1. Held' = Held
    BY <1>1 DEF vars, Held, Reset, d0
  <2>2. TypeOK'
    BY <1>1 DEF vars, IInv, TypeOK
  <2> QED BY <1>1, <2>1, <2>2 DEF vars, IInv, Final
<1>2. CASE UNCHANGED DevGen /\ StepSucceeds
  BY <1>2, StepSucceedsIInv
<1>3. CASE UNCHANGED DevGen /\ StepFails
  BY <1>3, StepFailsIInv
<1>4. ASSUME UNCHANGED DevGen, NEW d \in Devs, XAie_PartitionInitialize(d)
      PROVE  IInv'
  BY <1>4, StartIInv DEF XAie_PartitionInitialize
<1>5. ASSUME UNCHANGED DevGen, NEW d \in Devs, XAie_PartitionTeardown(d)
      PROVE  IInv'
  BY <1>5, StartIInv DEF XAie_PartitionTeardown
<1>6. ASSUME UNCHANGED DevGen, NEW d \in Devs, XAie_ResetPartition(d)
      PROVE  IInv'
  BY <1>6, StartIInv DEF XAie_ResetPartition
<1> QED BY <1>1, <1>2, <1>3, <1>4, <1>5, <1>6 DEF Next

-----------------------------------------------------------------------------
(* The theorems *)

LEMMA SpecIInv == Spec => []IInv
<1>1. Init => IInv
  BY InitIInv
<1>2. IInv /\ [Next]_vars => IInv'
  BY NextIInv
<1> QED BY <1>1, <1>2, PTL DEF Spec

(* The registers, the rest of the running sequence and the record of       *)
(* resets keep their shape.                                                *)
THEOREM TypeOKHolds == Spec => []TypeOK
<1>1. IInv => TypeOK
  BY DEF IInv
<1> QED BY <1>1, SpecIInv, PTL

(* As long as opening and closing the protected registers itself and the   *)
(* set up of the interrupts do not fail, they are closed when a sequence   *)
(* returns, whichever of the other steps failed.                           *)
THEOREM ProtectedRegsAreClosedHolds ==
    ASSUME "prot" \notin CanFail, "irq" \notin CanFail
    PROVE  Spec => []ProtectedRegsAreClosed
<1>1. IInv => ProtectedRegsAreClosed
  <2> SUFFICES ASSUME IInv, Idle PROVE ~array["prot"]
    BY DEF ProtectedRegsAreClosed
  <2>1. "closed" \in Held
    BY IdleFacts, GoalSets DEF Closed, Guarded
  <2> QED BY <2>1 DEF Held
<1> QED BY <1>1, SpecIInv, PTL

(* An initialization that returns XAIE_OK is complete: whichever writes    *)
(* may fail, but for isolation, whose failure the code reports no more.    *)
THEOREM InitOkIsCompleteHolds ==
    ASSUME "isolate" \notin CanFail
    PROVE  Spec => []InitOkIsComplete
<1>1. IInv => InitOkIsComplete
  <2> SUFFICES ASSUME IInv, Idle, call.op = "init", call.rc = "XAIE_OK"
               PROVE  /\ ~array["prot"]
                      /\ "column_rst" \in call.opts => Reset("col", d0) /\ hw[d0]["colrst"] = {}
                      /\ "shim_rst" \in call.opts => Reset("shim", d0) /\ ~array["npirst"]
                      /\ "block_nocaximmerr" \in call.opts => NocCols \subseteq hw[d0]["nsu"]
                      /\ "isolate" \in call.opts => IsolatedCols \subseteq hw[d0]["isolate"]
                      /\ "zeroizemem" \in call.opts => hw[d0]["zero"] = Cols
                      /\ NocCols \subseteq hw[d0]["irq"]
                      /\ hw[d0]["clk"] = IF DevGen = "AIE" THEN {} ELSE Cols
    BY DEF InitOkIsComplete
  <2>1. InitFacts(DevGen, call.opts) \subseteq Held
    BY IdleFacts DEF Final
  <2>2. /\ hw[d0] \in [ColRegs -> SUBSET Cols]
        /\ DevGen \in {"AIE", "AIEML"}
    BY GenAssumption DEF IInv, TypeOK, d0
  <2>3. "closed" \in Held /\ "irq" \in Held
    BY <2>1 DEF InitFacts
  <2>4. "column_rst" \in call.opts => "colreset" \in Held /\ "running" \in Held
    BY <2>1 DEF InitFacts
  <2>5. "shim_rst" \in call.opts => "shimreset" \in Held /\ "npidone" \in Held
    BY <2>1 DEF InitFacts
  <2>6. "block_nocaximmerr" \in call.opts => "nsu" \in Held
    BY <2>1 DEF InitFacts
  <2>7. "zeroizemem" \in call.opts => "zero" \in Held
    BY <2>1 DEF InitFacts
  <2>8. "isolate" \in call.opts => IF DevGen = "AIE" THEN "edges" \in Held ELSE "isolate" \in Held
    BY <2>1 DEF InitFacts
  <2>9. IF DevGen = "AIE" THEN "gated" \in Held ELSE "clocked" \in Held
    BY <2>1 DEF InitFacts
  <2>10. "isolate" \in call.opts => IsolatedCols \subseteq hw[d0]["isolate"]
    BY <2>8 DEF Held, IsolatedCols
  <2>11. hw[d0]["clk"] = IF DevGen = "AIE" THEN {} ELSE Cols
    BY <2>2, <2>9 DEF Held, ColRegs
  <2>12. "zeroizemem" \in call.opts => hw[d0]["zero"] = Cols
    BY <2>2, <2>7 DEF Held, ColRegs
  <2> QED BY <2>3, <2>4, <2>5, <2>6, <2>10, <2>11, <2>12 DEF Held
<1> QED BY <1>1, SpecIInv, PTL

(* What a step of a sequence does to the resets and memories.              *)
LEMMA StepIsQuiet ==
    ASSUME IInv, [Next]_vars, NEW d \in Devs
    PROVE  /\ hw'[d]["colrst"] \ hw[d]["colrst"] \subseteq Cols \ hw[d]["clk"]
           /\ hw[d]["colrst"] \ hw'[d]["colrst"] \subseteq hw[d]["clk"]
           /\ DevGen = "AIEML" => hw'[d]["zero"] \ hw[d]["zero"] \subseteq hw[d]["clk"]
<1>1. TypeOK
  BY DEF IInv
<1>2. CASE hw' = hw
  BY <1>2
<1>3. CASE ~Idle /\ Now.reg \in ColRegs /\ \E cols \in SUBSET Now.cols : WriteCols(cols)
  <2>1. PICK cols \in SUBSET Now.cols : WriteCols(cols)
    BY <1>3
  <2>2. Now \in StepSet /\ call.steps \in Seq(StepSet) /\ call.steps # <<>> /\ d0 \in Devs
    BY <1>1, <1>3, NowInSteps
  <2>3. Needs(DevGen, Now) \subseteq Held
    <3>1. Then(Held, Now) \in SUBSET Goals
      BY DEF Then, Held, Secures
    <3> QED BY <2>2, <3>1, GoalSets, LeadsTail DEF IInv, Now
  <2>4. /\ hw'[d0][Now.reg] = IF Now.set THEN hw[d0][Now.reg] \cup cols ELSE hw[d0][Now.reg] \ cols
        /\ \A g \in ColRegs \ {Now.reg} :
              ~(g = "isolate" /\ Now.reg = "colrst" /\ Now.set) => hw'[d0][g] = hw[d0][g]
        /\ \A e \in Devs \ {d0} : hw'[e] = hw[e]
    BY <1>1, <1>3, <2>1, WriteColsEffect
  <2>5. hw[d0] \in [ColRegs -> SUBSET Cols] /\ cols \subseteq Cols /\ Now.set \in BOOLEAN
    BY <1>1, <2>2 DEF TypeOK, StepSet
  <2>6. CASE d # d0
    BY <2>4, <2>6
  <2>7. CASE d = d0 /\ Now.reg = "colrst" /\ Now.set
    <3>1. hw[d0]["clk"] = {}
      BY <2>3, <2>7 DEF Needs, Held
    <3> QED BY <2>4, <2>5, <2>7, <3>1 DEF ColRegs
  <2>8. CASE d = d0 /\ Now.reg = "colrst" /\ ~Now.set
    <3>1. Cols \subseteq hw[d0]["clk"]
      BY <2>3, <2>8 DEF Needs, Held
    <3> QED BY <2>4, <2>5, <2>8, <3>1 DEF ColRegs
  <2>9. CASE d = d0 /\ Now.reg = "zero"
    <3>1. Now.set /\ DevGen = "AIEML" => Cols \subseteq hw[d0]["clk"]
      BY <2>3, <2>9 DEF Needs, Held
    <3> QED BY <2>4, <2>5, <2>9, <3>1 DEF ColRegs
  <2>10. CASE d = d0 /\ Now.reg \notin {"colrst", "zero"}
    BY <2>4, <2>5, <2>10 DEF ColRegs
  <2> QED BY <2>6, <2>7, <2>8, <2>9, <2>10
<1>4. CASE WriteArray
  <2>1. CASE ResetShims
    <3>1. hw'[d]["colrst"] = hw[d]["colrst"] /\ hw'[d]["zero"] = hw[d]["zero"]
      BY <1>1, <2>1, ResetShimsEffect DEF ColRegs
    <3> QED BY <3>1
  <2> QED BY <1>2, <1>4, <2>1 DEF WriteArray
<1>5. ASSUME NEW e \in Devs, NEW op, NEW opts, Start(e, op, opts)
      PROVE  hw' = hw
  BY <1>5 DEF Start
<1>6. CASE StepSucceeds
  BY <1>3, <1>4, <1>6 DEF StepSucceeds
<1>7. CASE StepFails
  BY <1>2, <1>3, <1>4, <1>7 DEF StepFails
<1>8. CASE UNCHANGED vars
  BY <1>2, <1>8 DEF vars
<1>9. CASE Next
  <2>1. CASE \E e \in Devs : \/ XAie_PartitionInitialize(e)
                            \/ XAie_PartitionTeardown(e)
                            \/ XAie_ResetPartition(e)
    <3>1. hw' = hw
      BY <1>5, <2>1 DEF XAie_PartitionInitialize, XAie_PartitionTeardown, XAie_ResetPartition
    <3> QED BY <1>2, <3>1
  <2> QED BY <1>6, <1>7, <1>9, <2>1 DEF Next
<1> QED BY <1>8, <1>9

(* Whatever fails, on either generation and in all partitions, a column    *)
(* goes into reset gated and leaves it clocked.                            *)
THEOREM ColumnResetsAreQuietHolds == Spec => ColumnResetsAreQuiet
<1>1. IInv /\ [Next]_vars =>
          [\A d \in Devs :
              /\ hw'[d]["colrst"] \ hw[d]["colrst"] \subseteq Cols \ hw[d]["clk"]
              /\ hw[d]["colrst"] \ hw'[d]["colrst"] \subseteq hw[d]["clk"]]_vars
  BY StepIsQuiet
<1> QED BY <1>1, SpecIInv, PTL DEF Spec, ColumnResetsAreQuiet

(* Whatever fails, the memories of AIE-ML are zeroized while their column  *)
(* has a clock.                                                            *)
THEOREM ZeroizedWhileClockedHolds == Spec => ZeroizedWhileClocked
<1>1. IInv /\ [Next]_vars =>
          [DevGen = "AIEML" => \A d \in Devs :
              hw'[d]["zero"] \ hw[d]["zero"] \subseteq hw[d]["clk"]]_vars
  BY StepIsQuiet
<1> QED BY <1>1, SpecIInv, PTL DEF Spec, ZeroizedWhileClocked
=============================================================================
