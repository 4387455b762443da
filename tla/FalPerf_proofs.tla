--------------------------- MODULE FalPerf_proofs ---------------------------
(***************************************************************************)
(* Proofs about FalPerf, for any number of objects, counters and channels. *)
(***************************************************************************)
EXTENDS FalPerf, TLAPS

-----------------------------------------------------------------------------
(* The inductive invariant.                                                *)

(* A channel is only there, and only open, while the object is reserved.   *)
Valid(o) ==
    /\ o.running => o.reserved /\ o.configured
    /\ \A r \in Roles : /\ o.bc[r].id = NoChannel => ~o.bc[r].running
                        /\ ~o.reserved => o.bc[r] = NoBC
                        /\ \A s \in Roles : r # s /\ o.bc[r] # NoBC => o.bc[r].id # o.bc[s].id

OwnedBy(o) ==
    IF o.reserved
    THEN {o.rsc} \cup { BC(o.bc[r].id) : r \in { s \in Roles : o.bc[s] # NoBC } }
    ELSE {}

ObjsOK == /\ obj \in [Objs -> ObjSet]
          /\ \A c \in Objs : Valid(obj[c])

RegsOK ==
    /\ used \subseteq Rscs /\ static \subseteq Counters /\ lost \subseteq Rscs
    /\ ctrl \in [Counters -> [Roles -> Events]]
    /\ bcast \in [Mods -> [Channels -> Events]]

Accounted ==
    /\ used = lost \cup UNION { OwnedBy(obj[c]) : c \in Objs }
    /\ \A c \in Objs : OwnedBy(obj[c]) \cap lost = {}
    /\ \A c, d \in Objs : c # d => OwnedBy(obj[c]) \cap OwnedBy(obj[d]) = {}

IInv == ObjsOK /\ RegsOK /\ Accounted

(* Object c becomes o, the others stay.                                    *)
Becomes(c, o) == obj' = [obj EXCEPT ![c] = o]

LEMMA OthersStay ==
  ASSUME ObjsOK, NEW c \in Objs, NEW o \in ObjSet, Valid(o), Becomes(c, o)
  PROVE  /\ ObjsOK'
         /\ obj'[c] = o
         /\ \A d \in Objs : d # c => obj'[d] = obj[d]
  BY DEF ObjsOK, Becomes

(* A step that changes what one object owns, and the bits accordingly.     *)
LEMMA AccountStep ==
  ASSUME Accounted, ObjsOK, NEW c \in Objs, NEW o, obj'[c] = o,
         \A d \in Objs : d # c => obj'[d] = obj[d],
         OwnedBy(o) \cap lost' = {},
         lost \subseteq lost', lost' \subseteq lost \cup OwnedBy(obj[c]),
         OwnedBy(o) \cap used \subseteq OwnedBy(obj[c]),
         used' = (used \ OwnedBy(obj[c])) \cup OwnedBy(o) \cup lost'
  PROVE  Accounted'
  <1> DEFINE O(d) == OwnedBy(obj[d])
  <1> DEFINE P(d) == OwnedBy(obj'[d])
  <1>1. P(c) = OwnedBy(o) /\ \A d \in Objs : d # c => P(d) = O(d)
    OBVIOUS
  <1>2. /\ used = lost \cup UNION { O(d) : d \in Objs }
        /\ \A d \in Objs : O(d) \cap lost = {}
        /\ \A d, e \in Objs : d # e => O(d) \cap O(e) = {}
    BY DEF Accounted
  <1>3. Accounted' = (/\ used' = lost' \cup UNION { P(d) : d \in Objs }
                      /\ \A d \in Objs : P(d) \cap lost' = {}
                      /\ \A d, e \in Objs : d # e => P(d) \cap P(e) = {})
    BY DEF Accounted, OwnedBy
  <1>4. /\ P(c) \cap lost' = {} /\ lost \subseteq lost' /\ lost' \subseteq lost \cup O(c)
        /\ P(c) \cap used \subseteq O(c)
        /\ used' = (used \ O(c)) \cup P(c) \cup lost'
    BY <1>1
  <1> HIDE DEF O, P
  <1>5. \A d \in Objs : P(d) \cap lost' = {}
    BY <1>1, <1>2, <1>4
  <1>6. \A d, e \in Objs : d # e => P(d) \cap P(e) = {}
    <2>1. \A d \in Objs : d # c => P(d) \cap P(c) = {}
      BY <1>1, <1>2, <1>4
    <2> QED
      BY <1>1, <1>2, <2>1
  <1>7. used' = lost' \cup UNION { P(d) : d \in Objs }
    <2>1. \A x \in used' : x \in lost' \cup UNION { P(d) : d \in Objs }
      BY <1>1, <1>2, <1>4
    <2>2. \A x : x \in lost' => x \in used'
      BY <1>4
    <2>3. \A d \in Objs : P(d) \subseteq used'
      <3>1. \A d \in Objs : d # c => O(d) \subseteq used \ O(c)
        BY <1>2
      <3> QED
        BY <1>1, <1>4, <3>1
    <2> QED
      BY <2>1, <2>2, <2>3
  <1> QED
    BY <1>3, <1>5, <1>6, <1>7

LEMMA SameOwned ==
  ASSUME Accounted, ObjsOK, NEW c \in Objs, NEW o, obj'[c] = o,
         \A d \in Objs : d # c => obj'[d] = obj[d],
         OwnedBy(o) = OwnedBy(obj[c]), UNCHANGED <<used, lost>>
  PROVE  Accounted'
  <1> DEFINE O == OwnedBy(obj[c])
  <1>1. O \subseteq used /\ lost \subseteq used /\ O \cap lost = {}
    BY DEF Accounted
  <1>2. OwnedBy(o) = O
    OBVIOUS
  <1> HIDE DEF O
  <1>3. used' = (used \ O) \cup O \cup lost'
    BY <1>1
  <1> QED
    BY <1>1, <1>2, <1>3, AccountStep DEF O

-----------------------------------------------------------------------------
(* Configuration and the life cycle.                                       *)

LEMMA OwnedDepends ==
  ASSUME NEW o, NEW p, p.reserved = o.reserved, p.rsc = o.rsc,
         \A r \in Roles : p.bc[r].id = o.bc[r].id /\ (p.bc[r] = NoBC <=> o.bc[r] = NoBC)
  PROVE  OwnedBy(p) = OwnedBy(o)
  BY DEF OwnedBy

(* A step that leaves the registers and what is owned alone.               *)
LEMMA QuietStep ==
  ASSUME IInv, NEW c \in Objs, NEW o \in ObjSet, Valid(o), Becomes(c, o),
         OwnedBy(o) = OwnedBy(obj[c]), UNCHANGED <<used, lost>>, RegsOK'
  PROVE  IInv'
  <1>1. ObjsOK' /\ obj'[c] = o /\ \A d \in Objs : d # c => obj'[d] = obj[d]
    BY OthersStay DEF IInv
  <1>2. Accounted'
    BY <1>1, SameOwned DEF IInv
  <1> QED
    BY <1>1, <1>2 DEF IInv

LEMMA ChoicesAreEvents ==
  ASSUME NEW c \in Objs, NEW r \in Roles PROVE Choices(c, r) \subseteq Events
  BY ObjsAssumption DEF Choices, UserEvents, NoEvent, Event, Events, Mods, User, None

LEMMA ConfigurationStep ==
  ASSUME IInv, NEW c \in Objs,
         setPreferredId(c) \/ initialize(c) \/ \E r \in Roles : ChangeEvent(c, r)
  PROVE  IInv'
  <1> DEFINE p == obj[c]
  <1>0. p \in ObjSet /\ Valid(p)
    BY DEF IInv, ObjsOK
  <1>1. RegsOK' /\ UNCHANGED <<used, lost>>
    BY DEF IInv, RegsOK, setPreferredId, initialize, ChangeEvent
  <1>2. ASSUME setPreferredId(c) PROVE IInv'
    <2>1. PICK id \in Ids \cup {AnyId}, b \in BOOLEAN :
              obj' = [obj EXCEPT ![c].pref = id, ![c].prereserved = @ \/ (b /\ id # AnyId)]
      BY <1>2 DEF setPreferredId
    <2> DEFINE o == [p EXCEPT !.pref = id, !.prereserved = @ \/ (b /\ id # AnyId)]
    <2>2. Becomes(c, o)
      BY <2>1 DEF Becomes, IInv, ObjsOK
    <2>3. o \in ObjSet
      BY <1>0 DEF ObjSet
    <2>4. Valid(o) /\ OwnedBy(o) = OwnedBy(p)
      BY <1>0 DEF ObjSet, Valid, OwnedBy
    <2> QED
      BY <1>1, <2>2, <2>3, <2>4, QuietStep
  <1>3. ASSUME initialize(c) PROVE IInv'
    <2>1. PICK ev \in [Roles -> UNION { Choices(c, r) : r \in Roles }] :
              /\ \A r \in Roles : ev[r] \in Choices(c, r)
              /\ obj' = [obj EXCEPT ![c].ev = ev, ![c].configured = TRUE,
                          ![c].mod = [r \in Roles |->
                              IF ev[r] = NoEvent THEN @[r] ELSE ev[r].mod]]
      BY <1>3 DEF initialize
    <2> DEFINE mod == [r \in Roles |-> IF ev[r] = NoEvent THEN p.mod[r] ELSE ev[r].mod]
    <2> DEFINE o == [p EXCEPT !.ev = ev, !.configured = TRUE, !.mod = mod]
    <2>2. Becomes(c, o)
      BY <2>1 DEF Becomes, IInv, ObjsOK
    <2>3. ev \in [Roles -> Events]
      BY <2>1, ChoicesAreEvents
    <2>4. mod \in [Roles -> Mods]
      BY <1>0, <2>3 DEF ObjSet, Events
    <2>5. o \in ObjSet
      BY <1>0, <2>3, <2>4 DEF ObjSet
    <2>6. Valid(o) /\ OwnedBy(o) = OwnedBy(p)
      BY <1>0 DEF ObjSet, Valid, OwnedBy
    <2> QED
      BY <1>1, <2>2, <2>5, <2>6, QuietStep
  <1>4. ASSUME NEW r \in Roles, ChangeEvent(c, r) PROVE IInv'
    <2>1. PICK e \in Choices(c, r) :
              obj' = [obj EXCEPT ![c].ev[r] = e, ![c].mod[r] = e.mod]
      BY <1>4 DEF ChangeEvent
    <2> DEFINE o == [p EXCEPT !.ev[r] = e, !.mod[r] = e.mod]
    <2>2. Becomes(c, o)
      BY <2>1 DEF Becomes, IInv, ObjsOK
    <2>3. e \in Events /\ e.mod \in Mods
      BY <2>1, ChoicesAreEvents DEF Events
    <2>4. o \in ObjSet
      BY <1>0, <2>3 DEF ObjSet
    <2>5. Valid(o) /\ OwnedBy(o) = OwnedBy(p)
      BY <1>0 DEF ObjSet, Valid, OwnedBy
    <2> QED
      BY <1>1, <2>2, <2>4, <2>5, QuietStep
  <1> QED
    BY <1>2, <1>3, <1>4

(* A counter is only granted when nobody has it.                           *)
LEMMA GrantedIsFree ==
  ASSUME NEW c \in Objs, obj[c] \in ObjSet, NEW k \in GrantedCounter(c)
  PROVE  k \in Counters /\ k \notin used
  BY ObjsAssumption DEF GrantedCounter, FirstFree, ObjSet, Counters, Mods, Other, Ids, AnyId

LEMMA ChannelsAreDistinct ==
  ASSUME NEW o, NEW g \in ChannelsFor(o)
  PROVE  /\ \A r \in Needing(o) : g[r] \in FreeChannels
         /\ \A r, s \in Needing(o) : r # s => g[r] # g[s]
  <1>1. \A r \in Needing(o) : g[r] \in FreeChannels
    BY DEF ChannelsFor
  <1>2. Needing(o) \subseteq Roles
    BY DEF Needing
  <1>3. \A r, s \in Needing(o) : r # s => Before(r, s) \/ Before(s, r)
    BY <1>2 DEF Before, Roles
  <1>4. \A ch \in FreeChannels : ch \in Int
    BY SizesAssumption DEF FreeChannels, Channels
  <1>5. \A r, s \in Needing(o) : Before(r, s) => g[r] < g[s]
    BY DEF ChannelsFor
  <1> QED
    BY <1>1, <1>3, <1>4, <1>5

LEMMA ReserveStep ==
  ASSUME IInv, NEW c \in Objs, reserve(c) PROVE IInv'
  <1> DEFINE p == obj[c]
  <1>0. p \in ObjSet /\ Valid(p) /\ ~p.reserved
    BY DEF IInv, ObjsOK, reserve
  <1>1. PICK k \in GrantedCounter(c) :
          \E g \in ChannelsFor([p EXCEPT !.rsc = k]) :
            /\ obj' = [obj EXCEPT ![c] = [[p EXCEPT !.rsc = k] EXCEPT !.reserved = TRUE,
                   !.bc = [r \in Roles |-> IF r \in Needing([p EXCEPT !.rsc = k])
                                           THEN [id |-> g[r], running |-> FALSE] ELSE NoBC]]]
            /\ used' = used \cup {k} \cup { BC(g[r]) : r \in Needing([p EXCEPT !.rsc = k]) }
    BY DEF reserve
  <1> DEFINE q == [p EXCEPT !.rsc = k]
  <1> DEFINE N == Needing(q)
  <1>2. PICK g \in ChannelsFor(q) :
            /\ obj' = [obj EXCEPT ![c] = [q EXCEPT !.reserved = TRUE,
                   !.bc = [r \in Roles |-> IF r \in N
                                           THEN [id |-> g[r], running |-> FALSE] ELSE NoBC]]]
            /\ used' = used \cup {k} \cup { BC(g[r]) : r \in N }
    BY <1>1
  <1> DEFINE bc == [r \in Roles |-> IF r \in N THEN [id |-> g[r], running |-> FALSE] ELSE NoBC]
  <1> DEFINE o == [q EXCEPT !.reserved = TRUE, !.bc = bc]
  <1>3. k \in Counters /\ k \notin used
    BY <1>0, GrantedIsFree
  <1>4. N \subseteq Roles
    BY DEF Needing
  <1>5. /\ \A r \in N : g[r] \in FreeChannels
        /\ \A r, s \in N : r # s => g[r] # g[s]
    BY <1>2, ChannelsAreDistinct
  <1>6. FreeChannels \subseteq Channels /\ NoChannel \notin Channels
        /\ \A ch \in FreeChannels : BC(ch) \notin used
    BY SizesAssumption DEF FreeChannels, Channels, NoChannel
  <1>7. UNCHANGED <<static, lost, ctrl, bcast>>
    BY DEF reserve
  <1> HIDE DEF N
  <1>8. bc \in [Roles -> [id : Channels \cup {NoChannel}, running : BOOLEAN]]
    BY <1>5, <1>6 DEF NoBC
  <1>9. \A r \in Roles : /\ (r \in N => bc[r].id = g[r] /\ bc[r] # NoBC)
                         /\ (r \notin N => bc[r] = NoBC)
                         /\ bc[r].running = FALSE
    BY <1>5, <1>6 DEF NoBC
  <1>10. o = [p EXCEPT !.rsc = k, !.reserved = TRUE, !.bc = bc]
    BY <1>0 DEF ObjSet
  <1>11. Becomes(c, o)
    BY <1>2 DEF Becomes
  <1> HIDE DEF bc
  <1>12. o \in ObjSet
    BY <1>0, <1>3, <1>8, <1>10 DEF ObjSet
  <1>13. o.reserved /\ o.rsc = k /\ o.bc = bc /\ o.running = p.running
    BY <1>0, <1>10 DEF ObjSet
  <1> HIDE DEF o
  <1>14. Valid(o)
    <2>1. ~o.running
      BY <1>0, <1>13 DEF Valid
    <2>2. \A r, s \in Roles : r # s /\ bc[r] # NoBC => bc[r].id # bc[s].id
      BY <1>5, <1>6, <1>9 DEF NoBC
    <2> QED
      BY <1>9, <1>13, <2>1, <2>2 DEF Valid
  <1>15. OwnedBy(o) = {k} \cup { BC(g[r]) : r \in N }
    BY <1>4, <1>9, <1>13 DEF OwnedBy
  <1>16. OwnedBy(p) = {}
    BY <1>0 DEF OwnedBy
  <1>17. OwnedBy(o) \cap used = {}
    BY <1>3, <1>5, <1>6, <1>15
  <1>18. lost \subseteq used
    BY DEF IInv, Accounted
  <1>19. used' = used \cup OwnedBy(o)
    BY <1>2, <1>15
  <1>20. ObjsOK' /\ obj'[c] = o /\ \A d \in Objs : d # c => obj'[d] = obj[d]
    BY <1>11, <1>12, <1>14, OthersStay DEF IInv
  <1>21. Accounted'
    <2>1. used' = (used \ OwnedBy(p)) \cup OwnedBy(o) \cup lost'
      BY <1>7, <1>16, <1>18, <1>19
    <2>2. OwnedBy(o) \cap lost' = {} /\ OwnedBy(o) \cap used \subseteq OwnedBy(p)
      BY <1>7, <1>16, <1>17, <1>18
    <2>3. lost \subseteq lost' /\ lost' \subseteq lost \cup OwnedBy(p)
      BY <1>7
    <2> QED
      BY <1>20, <2>1, <2>2, <2>3, AccountStep DEF IInv
  <1>22. RegsOK'
    <2>1. OwnedBy(o) \subseteq Rscs
      BY <1>3, <1>5, <1>6, <1>15 DEF Rscs, BC
    <2> QED
      BY <1>7, <1>19, <2>1 DEF IInv, RegsOK
  <1> QED
    BY <1>20, <1>21, <1>22 DEF IInv

LEMMA ReleaseStep ==
  ASSUME IInv, NEW c \in Objs, release(c) PROVE IInv'
  <1> DEFINE p == obj[c]
  <1> DEFINE none == [r \in Roles |-> NoBC]
  <1> DEFINE o == [p EXCEPT !.reserved = FALSE, !.prereserved = FALSE, !.bc = none]
  <1> DEFINE idle == { r \in Needing(p) : ~p.bc[r].running }
  <1> DEFINE back == {p.rsc} \cup { BC(p.bc[r].id) : r \in idle }
  <1> DEFINE stuck == OwnedBy(p) \ back
  <1>0. p \in ObjSet /\ Valid(p) /\ p.reserved /\ ~p.running
    BY DEF IInv, ObjsOK, release
  <1>1. Owned(c) = OwnedBy(p)
    BY DEF Owned, OwnedBy
  <1>2. /\ used' = used \ (OwnedBy(p) \ stuck) /\ lost' = lost \cup stuck
        /\ static' = static \ {p.rsc}
        /\ UNCHANGED <<ctrl, bcast>>
    <2>1. /\ used' = used \ back /\ lost' = lost \cup stuck
          /\ static' = static \ {p.rsc}
          /\ UNCHANGED <<ctrl, bcast>>
      BY <1>1 DEF release
    <2>2. back \subseteq OwnedBy(p)
      BY <1>0 DEF OwnedBy, release, HasChannels, Needing
    <2> HIDE DEF back
    <2> QED
      BY <2>1, <2>2
  <1>3. stuck \subseteq OwnedBy(p)
    OBVIOUS
  <1>4. none \in [Roles -> [id : Channels \cup {NoChannel}, running : BOOLEAN]]
    BY DEF NoBC
  <1>5. Becomes(c, o)
    BY DEF release, Becomes, IInv, ObjsOK
  <1>6. o \in ObjSet
    BY <1>0, <1>4 DEF ObjSet
  <1>7. ~o.reserved /\ o.bc = none /\ ~o.running
    BY <1>0 DEF ObjSet
  <1>8. Valid(o)
    BY <1>7 DEF Valid, NoBC
  <1>9. OwnedBy(o) = {}
    BY <1>7 DEF OwnedBy
  <1>10. ObjsOK' /\ obj'[c] = o /\ \A d \in Objs : d # c => obj'[d] = obj[d]
    BY <1>5, <1>6, <1>8, OthersStay DEF IInv
  <1>11. lost \subseteq used /\ OwnedBy(p) \cap lost = {} /\ OwnedBy(p) \subseteq used
    BY DEF IInv, Accounted
  <1> HIDE DEF o, stuck, p
  <1>12. Accounted'
    <2>1. used' = (used \ OwnedBy(p)) \cup OwnedBy(o) \cup lost'
      BY <1>2, <1>3, <1>9, <1>11
    <2>2. lost \subseteq lost' /\ lost' \subseteq lost \cup OwnedBy(p)
      BY <1>2, <1>3
    <2> QED
      BY <1>9, <1>10, <2>1, <2>2, AccountStep DEF IInv, p
  <1>13. RegsOK'
    BY <1>2, <1>3, <1>11 DEF IInv, RegsOK
  <1> QED
    BY <1>10, <1>12, <1>13 DEF IInv

LEMMA FreeStep ==
  ASSUME IInv, NEW c \in Objs, free(c) PROVE IInv'
  <1> DEFINE p == obj[c]
  <1> DEFINE none == [r \in Roles |-> NoBC]
  <1> DEFINE o == [p EXCEPT !.reserved = FALSE, !.bc = none]
  <1>0. p \in ObjSet /\ Valid(p) /\ ~p.running
    BY DEF IInv, ObjsOK, free
  <1>1. Owned(c) = OwnedBy(p)
    BY DEF Owned, OwnedBy
  <1>2. lost' = lost \cup OwnedBy(p) /\ UNCHANGED <<used, static, ctrl, bcast>>
    BY <1>1 DEF free
  <1>3. none \in [Roles -> [id : Channels \cup {NoChannel}, running : BOOLEAN]]
    BY DEF NoBC
  <1>4. Becomes(c, o)
    BY DEF free, Becomes, IInv, ObjsOK
  <1>5. o \in ObjSet
    BY <1>0, <1>3 DEF ObjSet
  <1>6. ~o.reserved /\ o.bc = none /\ ~o.running
    BY <1>0 DEF ObjSet
  <1>7. Valid(o)
    BY <1>6 DEF Valid, NoBC
  <1>8. OwnedBy(o) = {}
    BY <1>6 DEF OwnedBy
  <1>9. ObjsOK' /\ obj'[c] = o /\ \A d \in Objs : d # c => obj'[d] = obj[d]
    BY <1>4, <1>5, <1>7, OthersStay DEF IInv
  <1>10. lost \subseteq used /\ OwnedBy(p) \subseteq used
    BY DEF IInv, Accounted
  <1> HIDE DEF o, p
  <1>11. Accounted'
    <2>1. used' = (used \ OwnedBy(p)) \cup OwnedBy(o) \cup lost'
      BY <1>2, <1>8, <1>10
    <2> QED
      BY <1>2, <1>8, <1>9, <2>1, AccountStep DEF IInv, p
  <1>12. RegsOK'
    BY <1>2, <1>10 DEF IInv, RegsOK
  <1> QED
    BY <1>9, <1>11, <1>12 DEF IInv

-----------------------------------------------------------------------------
(* Starting and stopping.                                                  *)

IsIn(x, s) == \E j \in 1 .. Len(s) : x = s[j]

(* An entry of a concatenation is an entry of one of its parts.            *)
LEMMA EntryOfConcat ==
  ASSUME NEW S, NEW s \in Seq(S), NEW t \in Seq(S), NEW x, IsIn(x, s \o t)
  PROVE  IsIn(x, s) \/ IsIn(x, t)
  <1>1. PICK i \in 1 .. Len(s \o t) : x = (s \o t)[i]
    BY DEF IsIn
  <1>2. CASE i \in 1 .. Len(s)
    BY <1>1, <1>2 DEF IsIn
  <1>3. CASE i \in Len(s) + 1 .. Len(s) + Len(t)
    <2>1. i - Len(s) \in 1 .. Len(t) /\ (s \o t)[i] = t[i - Len(s)]
      BY <1>3
    <2> QED
      BY <1>1, <2>1 DEF IsIn
  <1> QED
    BY <1>2, <1>3

LEMMA OpenEntries ==
  ASSUME NEW o, NEW r \in Roles
  PROVE  /\ Open(o, r) \in Seq(Writes)
         /\ \A s : IsIn(<<s, "open">>, Open(o, r)) => s = r /\ Crosses(o, r)
  <1>1. CASE Crosses(o, r)
    <2>1. Open(o, r) = << <<r, "route">>, <<r, "open">> >>
      BY <1>1 DEF Open
    <2>2. Open(o, r) \in Seq(Writes)
      BY <2>1 DEF Writes
    <2>3. \A s : IsIn(<<s, "open">>, Open(o, r)) => s = r
      BY <2>1 DEF IsIn
    <2> QED
      BY <1>1, <2>2, <2>3
  <1>2. CASE ~Crosses(o, r)
    <2>1. Open(o, r) = <<>>
      BY <1>2 DEF Open
    <2> QED
      BY <2>1 DEF IsIn
  <1> QED
    BY <1>1, <1>2

(* A start opens a channel only for an event that has to cross.            *)
LEMMA OpenWrites ==
  ASSUME NEW o, NEW r \in Roles, IsIn(<<r, "open">>, StartWrites(o))
  PROVE  Crosses(o, r)
  <1> DEFINE a == Open(o, "start")
  <1> DEFINE b == Open(o, "stop")
  <1> DEFINE d == Open(o, "rst")
  <1> DEFINE e == << <<"start", "control">> >>
  <1> DEFINE f == IF o.ev["rst"] = NoEvent THEN <<>> ELSE << <<"rst", "control">> >>
  <1> DEFINE w == <<r, "open">>
  <1>1. /\ a \in Seq(Writes) /\ b \in Seq(Writes) /\ d \in Seq(Writes)
        /\ e \in Seq(Writes) /\ f \in Seq(Writes)
    BY OpenEntries DEF Writes, Roles
  <1>2. StartWrites(o) = a \o b \o d \o e \o f
    BY DEF StartWrites
  <1>3. IsIn(w, a) \/ IsIn(w, b) \/ IsIn(w, d) => Crosses(o, r)
    BY OpenEntries DEF Roles
  <1>4. ~IsIn(w, e) /\ ~IsIn(w, f)
    BY DEF IsIn
  <1>0. IsIn(w, StartWrites(o))
    OBVIOUS
  <1> HIDE DEF a, b, d, e, f, w
  <1> DEFINE ab == a \o b
  <1> DEFINE abd == ab \o d
  <1> DEFINE abde == abd \o e
  <1>5. ab \in Seq(Writes) /\ abd \in Seq(Writes) /\ abde \in Seq(Writes)
    BY <1>1
  <1>6. IsIn(w, abde \o f)
    BY <1>0, <1>2, Zenon
  <1> HIDE DEF abde
  <1>7. IsIn(w, abde)
    BY <1>1, <1>4, <1>5, <1>6, EntryOfConcat, Zenon
  <1> HIDE DEF abd
  <1>8. IsIn(w, abd)
    BY <1>1, <1>4, <1>5, <1>7, EntryOfConcat, Zenon DEF abde
  <1> HIDE DEF ab
  <1>9. IsIn(w, ab) \/ IsIn(w, d)
    BY <1>1, <1>5, <1>8, EntryOfConcat, Zenon DEF abd
  <1>10. IsIn(w, a) \/ IsIn(w, b) \/ IsIn(w, d)
    BY <1>1, <1>9, EntryOfConcat, Zenon DEF ab
  <1> QED
    BY <1>3, <1>10

(* Where an event arrives there is a counter's event.                      *)
LEMMA ArrivingIsEvent ==
  ASSUME NEW o \in ObjSet, Valid(o), HasChannels(o), NEW r \in Roles
  PROVE  Arriving(o, r) \in Events
  <1>1. CASE Crosses(o, r)
    <2>1. o.bc[r] # NoBC
      BY <1>1 DEF HasChannels, Needing
    <2>2. o.bc[r].id \in Channels
      BY <2>1 DEF ObjSet, Valid, NoBC
    <2>3. o.rsc[1] \in Mods
      BY DEF ObjSet, Counters
    <2> QED
      BY <1>1, <2>2, <2>3 DEF Arriving, Event, Events
  <1>2. CASE ~Crosses(o, r)
    BY <1>2 DEF Arriving, ObjSet
  <1> QED
    BY <1>1, <1>2

LEMMA NoObject ==
  ASSUME NEW id, NEW running \in BOOLEAN, NEW x, x = [id |-> id, running |-> running],
         x.id = NoChannel => ~x.running
  PROVE  x = NoBC <=> x.id = NoChannel
  <1>1. x.id = id /\ x.running = running
    OBVIOUS
  <1>2. CASE x.id = NoChannel
    <2>1. running = FALSE
      BY <1>1, <1>2, Zenon
    <2> QED
      BY <1>1, <1>2, <2>1 DEF NoBC
  <1>3. CASE x.id # NoChannel
    BY <1>3 DEF NoBC
  <1> QED
    BY <1>2, <1>3

(* The flags of the channels and of the object change, what is owned stays.*)
LEMMA RunStep ==
  ASSUME IInv, NEW c \in Objs, NEW o \in ObjSet, Becomes(c, o),
         o.reserved = obj[c].reserved, o.rsc = obj[c].rsc,
         o.running => o.reserved /\ o.configured,
         \A r \in Roles : /\ o.bc[r].id = obj[c].bc[r].id
                          /\ o.bc[r].running => obj[c].bc[r] # NoBC,
         UNCHANGED <<used, lost, static>>,
         ctrl' \in [Counters -> [Roles -> Events]],
         bcast' \in [Mods -> [Channels -> Events]]
  PROVE  IInv' /\ \A r \in Roles : o.bc[r] = NoBC <=> obj[c].bc[r] = NoBC
  <1> DEFINE p == obj[c]
  <1>0. p \in ObjSet /\ Valid(p)
    BY DEF IInv, ObjsOK
  <1>1. \A r \in Roles : /\ o.bc[r] = [id |-> o.bc[r].id, running |-> o.bc[r].running]
                         /\ p.bc[r] = [id |-> p.bc[r].id, running |-> p.bc[r].running]
    BY <1>0 DEF ObjSet
  <1>2. \A r \in Roles : /\ o.bc[r].running \in BOOLEAN /\ p.bc[r].running \in BOOLEAN
                         /\ p.bc[r].id = NoChannel => ~p.bc[r].running
    BY <1>0 DEF ObjSet, Valid
  <1>3. \A r \in Roles : p.bc[r] = NoBC <=> p.bc[r].id = NoChannel
    BY <1>1, <1>2, NoObject
  <1>4. \A r \in Roles : o.bc[r] = NoBC <=> o.bc[r].id = NoChannel
    <2>1. \A r \in Roles : o.bc[r].id = NoChannel => ~o.bc[r].running
      BY <1>3
    <2> QED
      BY <1>1, <1>2, <2>1, NoObject
  <1>5. \A r \in Roles : o.bc[r] = NoBC <=> p.bc[r] = NoBC
    BY <1>3, <1>4
  <1>6. Valid(o)
    BY <1>0, <1>3, <1>4, <1>5 DEF Valid
  <1>7. OwnedBy(o) = OwnedBy(p)
    BY <1>5, OwnedDepends
  <1>8. RegsOK'
    BY DEF RegsOK, IInv
  <1> QED
    BY <1>5, <1>6, <1>7, <1>8, QuietStep

(* What a start does to the object: it opens channels of crossing events.  *)
LEMMA StartEffect ==
  ASSUME IInv, NEW c \in Objs, start(c)
  PROVE  LET p == obj[c]
         IN  /\ p.reserved /\ p.configured /\ HasChannels(p)
             /\ \E W : \E b \in BOOLEAN :
                   /\ \A r \in Roles : <<r, "open">> \in W => Crosses(p, r)
                   /\ bcast' = Routed(p, W)
                   /\ ctrl' = Controlled(p, W)
                   /\ obj' = [obj EXCEPT ![c].running = b,
                          ![c].bc = [r \in Roles |-> IF <<r, "open">> \in W
                                     THEN [@[r] EXCEPT !.running = TRUE] ELSE @[r]]]
             /\ UNCHANGED <<used, static, lost>>
  <1> DEFINE p == obj[c]
  <1> DEFINE writes == StartWrites(p)
  <1>1. PICK k \in 0 .. Len(writes), lostWrites \in SUBSET { w \in CanFail : Ignored(w) } :
          LET W == { writes[j] : j \in { i \in 1 .. k : ~Refused(p, writes[i]) } } \ lostWrites
          IN  /\ bcast' = Routed(p, W)
              /\ ctrl' = Controlled(p, W)
              /\ obj' = [obj EXCEPT ![c].running = (k = Len(writes)),
                     ![c].bc = [r \in Roles |-> IF <<r, "open">> \in W
                                THEN [@[r] EXCEPT !.running = TRUE] ELSE @[r]]]
    BY DEF start
  <1> DEFINE W == { writes[j] : j \in { i \in 1 .. k : ~Refused(p, writes[i]) } } \ lostWrites
  <1> DEFINE b == (k = Len(writes))
  <1>2. Len(writes) \in Nat
    <2>1. Open(p, "start") \in Seq(Writes) /\ Open(p, "stop") \in Seq(Writes)
          /\ Open(p, "rst") \in Seq(Writes)
      BY OpenEntries DEF Roles
    <2> QED
      BY <2>1 DEF StartWrites, Writes, Roles
  <1>3. \A r \in Roles : <<r, "open">> \in W => IsIn(<<r, "open">>, writes)
    BY <1>2 DEF IsIn
  <1>4. \A r \in Roles : <<r, "open">> \in W => Crosses(p, r)
    BY <1>3, OpenWrites
  <1>5. /\ bcast' = Routed(p, W) /\ ctrl' = Controlled(p, W)
        /\ obj' = [obj EXCEPT ![c].running = b,
                     ![c].bc = [r \in Roles |-> IF <<r, "open">> \in W
                                THEN [@[r] EXCEPT !.running = TRUE] ELSE @[r]]]
    BY <1>1
  <1>6. b \in BOOLEAN
    OBVIOUS
  <1>7. p.reserved /\ p.configured /\ HasChannels(p) /\ UNCHANGED <<used, static, lost>>
    BY DEF start
  <1> HIDE DEF W, b
  <1> QED
    BY <1>4, <1>5, <1>6, <1>7

LEMMA StartStep ==
  ASSUME IInv, NEW c \in Objs, start(c) PROVE IInv'
  <1> DEFINE p == obj[c]
  <1>0. p \in ObjSet /\ Valid(p)
    BY DEF IInv, ObjsOK
  <1>1. p.reserved /\ p.configured /\ HasChannels(p) /\ UNCHANGED <<used, static, lost>>
    BY StartEffect
  <1>2. PICK W : \E b \in BOOLEAN :
          /\ \A r \in Roles : <<r, "open">> \in W => Crosses(p, r)
          /\ bcast' = Routed(p, W)
          /\ ctrl' = Controlled(p, W)
          /\ obj' = [obj EXCEPT ![c].running = b,
                 ![c].bc = [r \in Roles |-> IF <<r, "open">> \in W
                            THEN [@[r] EXCEPT !.running = TRUE] ELSE @[r]]]
    BY StartEffect
  <1>22. PICK b \in BOOLEAN :
          /\ \A r \in Roles : <<r, "open">> \in W => Crosses(p, r)
          /\ bcast' = Routed(p, W)
          /\ ctrl' = Controlled(p, W)
          /\ obj' = [obj EXCEPT ![c].running = b,
                 ![c].bc = [r \in Roles |-> IF <<r, "open">> \in W
                            THEN [@[r] EXCEPT !.running = TRUE] ELSE @[r]]]
    BY <1>2
  <1> DEFINE bc == [r \in Roles |-> IF <<r, "open">> \in W
                                    THEN [p.bc[r] EXCEPT !.running = TRUE] ELSE p.bc[r]]
  <1> DEFINE o == [p EXCEPT !.running = b, !.bc = bc]
  <1>3. Becomes(c, o)
    BY <1>22 DEF Becomes, IInv, ObjsOK
  <1>4. bc \in [Roles -> [id : Channels \cup {NoChannel}, running : BOOLEAN]]
    BY <1>0 DEF ObjSet
  <1>5. \A r \in Roles : bc[r].id = p.bc[r].id
    BY <1>0 DEF ObjSet
  <1>6. \A r \in Roles : bc[r].running => p.bc[r] # NoBC
    <2> SUFFICES ASSUME NEW r \in Roles, bc[r].running PROVE p.bc[r] # NoBC
      OBVIOUS
    <2>1. CASE <<r, "open">> \in W
      BY <1>1, <1>22, <2>1 DEF HasChannels, Needing
    <2>2. CASE <<r, "open">> \notin W
      BY <2>2 DEF NoBC
    <2> QED
      BY <2>1, <2>2
  <1>7. bcast' \in [Mods -> [Channels -> Events]]
    BY <1>22 DEF Routed, IInv, RegsOK, Event, Events
  <1>8. ctrl' \in [Counters -> [Roles -> Events]]
    <2>1. \A r \in Roles : Arriving(p, r) \in Events
      BY <1>0, <1>1, ArrivingIsEvent
    <2> QED
      BY <1>22, <2>1 DEF Controlled, IInv, RegsOK
  <1> HIDE DEF bc
  <1>9. o \in ObjSet /\ o.bc = bc /\ o.reserved = p.reserved /\ o.rsc = p.rsc
        /\ o.configured = p.configured
    BY <1>0, <1>4 DEF ObjSet
  <1> HIDE DEF o
  <1> QED
    BY <1>1, <1>3, <1>5, <1>6, <1>7, <1>8, <1>9, RunStep

LEMMA StopEffect ==
  ASSUME IInv, NEW c \in Objs, stop(c)
  PROVE  LET p == obj[c]
         IN  /\ p.running /\ HasChannels(p) /\ UNCHANGED <<used, static, lost>>
             /\ bcast' \in [Mods -> [Channels -> Events]]
             /\ ctrl' \in [Counters -> [Roles -> Events]]
             /\ \E F : \E b \in BOOLEAN :
                   obj' = [obj EXCEPT ![c].running = b,
                      ![c].ev = [r \in Roles |-> Arriving(p, r)],
                      ![c].bc = [r \in Roles |-> IF <<r, "open">> \in F THEN @[r]
                                                 ELSE [@[r] EXCEPT !.running = FALSE]]]
  <1> DEFINE p == obj[c]
  <1>1. PICK F :
          /\ bcast' = [m \in Mods |-> [ch \in Channels |->
                 IF \E r \in Needing(p) : /\ <<r, "route">> \notin F
                                          /\ p.mod[r] = m /\ p.bc[r].id = ch
                 THEN NoEvent ELSE bcast[m][ch]]]
          /\ ctrl' = [ctrl EXCEPT ![p.rsc] = [r \in Roles |->
                 IF <<SetWith(r), "control">> \in F THEN @[r] ELSE NoEvent]]
          /\ obj' = [obj EXCEPT ![c].running = (F # {}),
                 ![c].ev = [r \in Roles |-> Arriving(p, r)],
                 ![c].bc = [r \in Roles |-> IF <<r, "open">> \in F THEN @[r]
                                            ELSE [@[r] EXCEPT !.running = FALSE]]]
    BY DEF stop
  <1>2. NoEvent \in Events
    BY DEF NoEvent, Event, Events, Mods
  <1>3. bcast' \in [Mods -> [Channels -> Events]]
    BY <1>1, <1>2 DEF IInv, RegsOK
  <1>4. ctrl' \in [Counters -> [Roles -> Events]]
    BY <1>1, <1>2 DEF IInv, RegsOK
  <1>5. p.running /\ HasChannels(p) /\ UNCHANGED <<used, static, lost>>
    BY DEF stop
  <1> QED
    BY <1>1, <1>3, <1>4, <1>5

LEMMA StopStep ==
  ASSUME IInv, NEW c \in Objs, stop(c) PROVE IInv'
  <1> DEFINE p == obj[c]
  <1>0. p \in ObjSet /\ Valid(p)
    BY DEF IInv, ObjsOK
  <1>1. /\ p.running /\ HasChannels(p) /\ UNCHANGED <<used, static, lost>>
        /\ bcast' \in [Mods -> [Channels -> Events]]
        /\ ctrl' \in [Counters -> [Roles -> Events]]
    BY StopEffect
  <1>2. PICK F : \E b \in BOOLEAN :
          obj' = [obj EXCEPT ![c].running = b,
                      ![c].ev = [r \in Roles |-> Arriving(p, r)],
                      ![c].bc = [r \in Roles |-> IF <<r, "open">> \in F THEN @[r]
                                                 ELSE [@[r] EXCEPT !.running = FALSE]]]
    BY StopEffect
  <1>22. PICK b \in BOOLEAN :
          obj' = [obj EXCEPT ![c].running = b,
                      ![c].ev = [r \in Roles |-> Arriving(p, r)],
                      ![c].bc = [r \in Roles |-> IF <<r, "open">> \in F THEN @[r]
                                                 ELSE [@[r] EXCEPT !.running = FALSE]]]
    BY <1>2
  <1> DEFINE ev == [r \in Roles |-> Arriving(p, r)]
  <1> DEFINE bc == [r \in Roles |-> IF <<r, "open">> \in F THEN p.bc[r]
                                    ELSE [p.bc[r] EXCEPT !.running = FALSE]]
  <1> DEFINE o == [p EXCEPT !.running = b, !.ev = ev, !.bc = bc]
  <1>3. Becomes(c, o)
    BY <1>22 DEF Becomes, IInv, ObjsOK
  <1>4. bc \in [Roles -> [id : Channels \cup {NoChannel}, running : BOOLEAN]]
    BY <1>0 DEF ObjSet
  <1>5. \A r \in Roles : bc[r].id = p.bc[r].id
    BY <1>0 DEF ObjSet
  <1>6. \A r \in Roles : bc[r].running => p.bc[r] # NoBC
    BY <1>0 DEF ObjSet, NoBC
  <1>7. ev \in [Roles -> Events]
    BY <1>0, <1>1, ArrivingIsEvent
  <1>8. p.reserved /\ p.configured
    BY <1>0, <1>1 DEF Valid
  <1> HIDE DEF bc, ev
  <1>9. o \in ObjSet /\ o.bc = bc /\ o.reserved = p.reserved /\ o.rsc = p.rsc
        /\ o.configured = p.configured
    BY <1>0, <1>4, <1>7 DEF ObjSet
  <1> HIDE DEF o
  <1> QED
    BY <1>1, <1>3, <1>5, <1>6, <1>8, <1>9, RunStep

-----------------------------------------------------------------------------
(* The theorems.                                                           *)

LEMMA ReserveFailsStep ==
  ASSUME IInv, NEW c \in Objs, ReserveFails(c) PROVE IInv'
  <1>1. UNCHANGED <<obj, used, lost, ctrl, bcast>> /\ static' \subseteq static
    BY DEF ReserveFails
  <1> QED
    BY <1>1 DEF IInv, ObjsOK, RegsOK, Accounted

LEMMA InitHasIt == Init => IInv
  <1> SUFFICES ASSUME Init PROVE IInv
    OBVIOUS
  <1>1. NoEvent \in Events
    BY DEF NoEvent, Event, Events, Mods
  <1>2. \A c \in Objs : obj[c] \in ObjSet /\ Valid(obj[c]) /\ ~obj[c].reserved
    <2> SUFFICES ASSUME NEW c \in Objs
                 PROVE  obj[c] \in ObjSet /\ Valid(obj[c]) /\ ~obj[c].reserved
      OBVIOUS
    <2>1. obj[c] = [pref |-> AnyId, configured |-> FALSE, reserved |-> FALSE,
                    prereserved |-> FALSE, running |-> FALSE, rsc |-> <<Home[c], 0>>,
                    mod |-> [r \in Roles |-> Home[c]], ev |-> [r \in Roles |-> NoEvent],
                    bc |-> [r \in Roles |-> NoBC]]
      BY DEF Init
    <2>2. Home[c] \in Mods /\ 0 \in Ids
      BY ObjsAssumption, SizesAssumption DEF Ids
    <2>3. obj[c] \in ObjSet
      BY <1>1, <2>1, <2>2 DEF ObjSet, NoBC, Counters
    <2>4. ~obj[c].running /\ ~obj[c].reserved /\ \A r \in Roles : obj[c].bc[r] = NoBC
      BY <2>1
    <2>5. \A r \in Roles : ~obj[c].bc[r].running
      BY <2>4 DEF NoBC
    <2>6. Valid(obj[c])
      BY <2>4, <2>5 DEF Valid
    <2> QED
      BY <2>3, <2>4, <2>6
  <1>3. ObjsOK
    BY <1>2 DEF Init, ObjsOK
  <1>4. RegsOK
    BY <1>1, SetAsideAssumption DEF Init, RegsOK, Counters
  <1>5. Accounted
    BY <1>2 DEF Init, Accounted, OwnedBy
  <1> QED
    BY <1>3, <1>4, <1>5 DEF IInv

LEMMA NextKeepsIt == IInv /\ [Next]_vars => IInv'
  <1> SUFFICES ASSUME IInv, [Next]_vars PROVE IInv'
    OBVIOUS
  <1>1. CASE UNCHANGED vars
    BY <1>1 DEF vars, IInv, ObjsOK, RegsOK, Accounted
  <1>2. ASSUME NEW c \in Objs,
               \/ setPreferredId(c) \/ initialize(c) \/ \E r \in Roles : ChangeEvent(c, r)
               \/ reserve(c) \/ ReserveFails(c) \/ release(c) \/ free(c)
               \/ start(c) \/ stop(c)
        PROVE  IInv'
    BY <1>2, ConfigurationStep, ReserveStep, ReserveFailsStep, ReleaseStep, FreeStep,
       StartStep, StopStep
  <1> QED
    BY <1>1, <1>2 DEF Next

LEMMA Invariant == Spec => []IInv
  BY InitHasIt, NextKeepsIt, PTL DEF Spec

(* The objects, the driver's bits and the registers keep their shape, and  *)
(* only reserved and configured counters run.                              *)
THEOREM TypeOKHolds == Spec => []TypeOK
  <1>1. IInv => TypeOK
    BY DEF IInv, ObjsOK, RegsOK, Valid, TypeOK
  <1> QED
    BY <1>1, Invariant, PTL

(* However many objects compete, in whatever order they are reserved,      *)
(* started, stopped, released and freed, and whatever runs out or fails:   *)
(* no counter and no channel is shared, and none is lost except on the two *)
(* ways that lost records.                                                 *)
THEOREM PoolIsAccountedHolds == Spec => []PoolIsAccounted
  <1>1. \A c \in Objs : Owned(c) = OwnedBy(obj[c])
    BY DEF Owned, OwnedBy
  <1>2. IInv => PoolIsAccounted
    <2> SUFFICES ASSUME IInv PROVE PoolIsAccounted
      OBVIOUS
    <2>1. \A c \in Objs, r, s \in Roles :
             r # s /\ obj[c].bc[r] # NoBC => obj[c].bc[r].id # obj[c].bc[s].id
      BY DEF IInv, ObjsOK, Valid
    <2> QED
      BY <1>1, <2>1 DEF IInv, Accounted, PoolIsAccounted
  <1> QED
    BY <1>2, Invariant, PTL

-----------------------------------------------------------------------------
(* The channels of a reserved counter.                                     *)

Strict == ~LateRst

(* An object is reserved with the channels its events need.                *)
Equipped(o) == o.reserved => \A r \in Needing(o) : o.bc[r].id # NoChannel

LEMMA IdTells ==
  ASSUME NEW o \in ObjSet, Valid(o), NEW r \in Roles
  PROVE  o.bc[r] = NoBC <=> o.bc[r].id = NoChannel
  <1>1. o.bc[r] = [id |-> o.bc[r].id, running |-> o.bc[r].running] /\ o.bc[r].running \in BOOLEAN
    BY DEF ObjSet
  <1>2. o.bc[r].id = NoChannel => ~o.bc[r].running
    BY DEF Valid
  <1> QED
    BY <1>1, <1>2, NoObject

LEMMA EquippedTells ==
  ASSUME IInv PROVE ChannelsAreReserved <=> \A c \in Objs : Equipped(obj[c])
  <1>1. \A c \in Objs, r \in Roles : obj[c].bc[r] = NoBC <=> obj[c].bc[r].id = NoChannel
    BY IdTells DEF IInv, ObjsOK
  <1> QED
    BY <1>1 DEF ChannelsAreReserved, Equipped, HasChannels, Needing

(* The step of one object that keeps what it has to cross and its channels.*)
LEMMA EquippedStays ==
  ASSUME NEW o, NEW p, Equipped(p), o.reserved = p.reserved,
         \A r \in Roles : o.bc[r].id = p.bc[r].id /\ (Crosses(o, r) => Crosses(p, r))
  PROVE  Equipped(o)
  BY DEF Equipped, Needing

(* The modules of a reserved counter's events stay, and with ~LateRst so   *)
(* does whether the reset event has to cross.                              *)
LEMMA ChangeEventKeeps ==
  ASSUME Strict, IInv, NEW c \in Objs, NEW r \in Roles, ChangeEvent(c, r), Equipped(obj[c])
  PROVE  Equipped(obj'[c])
  <1> DEFINE p == obj[c]
  <1>0. p \in ObjSet
    BY DEF IInv, ObjsOK
  <1>1. PICK e \in Choices(c, r) :
            /\ p.reserved => e.mod = p.mod[r]
            /\ MayChange(p, r, e)
            /\ obj' = [obj EXCEPT ![c].ev[r] = e, ![c].mod[r] = e.mod]
    BY DEF ChangeEvent
  <1> DEFINE o == [p EXCEPT !.ev[r] = e, !.mod[r] = e.mod]
  <1>2. obj'[c] = o
    BY <1>1 DEF IInv, ObjsOK
  <1>3. o.reserved = p.reserved /\ o.bc = p.bc /\ o.rsc = p.rsc
        /\ o.ev = [p.ev EXCEPT ![r] = e] /\ o.mod = [p.mod EXCEPT ![r] = e.mod]
    BY <1>0 DEF ObjSet
  <1> HIDE DEF o
  <1>4. CASE ~p.reserved
    BY <1>2, <1>3, <1>4 DEF Equipped
  <1>5. CASE p.reserved
    <2>1. o.mod = p.mod
      BY <1>0, <1>1, <1>3, <1>5 DEF ObjSet
    <2>2. \A s \in Roles : Crosses(o, s) => Crosses(p, s)
      <3> SUFFICES ASSUME NEW s \in Roles, Crosses(o, s) PROVE Crosses(p, s)
        OBVIOUS
      <3>1. CASE s # "rst"
        BY <1>3, <2>1, <3>1 DEF Crosses
      <3>2. CASE s = "rst" /\ r # "rst"
        BY <1>0, <1>3, <2>1, <3>2 DEF Crosses, ObjSet
      <3>3. CASE s = "rst" /\ r = "rst"
        <4>1. o.ev["rst"] = e /\ e # NoEvent /\ e.mod # p.rsc[1]
          BY <1>0, <1>1, <1>3, <1>5, <2>1, <3>3 DEF Crosses, ObjSet
        <4> QED
          BY <1>1, <1>3, <1>5, <2>1, <3>3, <4>1 DEF Crosses, MayChange, Strict
      <3> QED
        BY <3>1, <3>2, <3>3
    <2> QED
      BY <1>2, <1>3, <2>2, EquippedStays
  <1> QED
    BY <1>4, <1>5

LEMMA ReserveEquips ==
  ASSUME IInv, NEW c \in Objs, reserve(c) PROVE Equipped(obj'[c])
  <1> DEFINE p == obj[c]
  <1>0. p \in ObjSet
    BY DEF IInv, ObjsOK
  <1>1. PICK k \in GrantedCounter(c) : \E g \in ChannelsFor([p EXCEPT !.rsc = k]) :
            obj' = [obj EXCEPT ![c] = [[p EXCEPT !.rsc = k] EXCEPT !.reserved = TRUE,
                   !.bc = [r \in Roles |-> IF r \in Needing([p EXCEPT !.rsc = k])
                                           THEN [id |-> g[r], running |-> FALSE] ELSE NoBC]]]
    BY DEF reserve
  <1> DEFINE q == [p EXCEPT !.rsc = k]
  <1>2. PICK g \in ChannelsFor(q) :
            obj' = [obj EXCEPT ![c] = [q EXCEPT !.reserved = TRUE,
                   !.bc = [r \in Roles |-> IF r \in Needing(q)
                                           THEN [id |-> g[r], running |-> FALSE] ELSE NoBC]]]
    BY <1>1
  <1>3. obj'[c] = [q EXCEPT !.reserved = TRUE,
                   !.bc = [r \in Roles |-> IF r \in Needing(q)
                                           THEN [id |-> g[r], running |-> FALSE] ELSE NoBC]]
    BY <1>2 DEF IInv, ObjsOK
  <1>4. /\ obj'[c].mod = q.mod /\ obj'[c].rsc = q.rsc /\ obj'[c].ev = q.ev
        /\ obj'[c].bc = [r \in Roles |-> IF r \in Needing(q)
                                         THEN [id |-> g[r], running |-> FALSE] ELSE NoBC]
    BY <1>0, <1>3 DEF ObjSet
  <1>5. Needing(obj'[c]) = Needing(q)
    BY <1>4 DEF Needing, Crosses
  <1>6. \A r \in Needing(q) : r \in Roles /\ g[r] # NoChannel
    BY <1>2, ChannelsAreDistinct, SizesAssumption DEF FreeChannels, Channels, NoChannel, Needing
  <1> QED
    BY <1>4, <1>5, <1>6 DEF Equipped

LEMMA StartKeeps ==
  ASSUME IInv, NEW c \in Objs, start(c), Equipped(obj[c]) PROVE Equipped(obj'[c])
  <1> DEFINE p == obj[c]
  <1>0. p \in ObjSet
    BY DEF IInv, ObjsOK
  <1>1. PICK W : \E b \in BOOLEAN :
          /\ \A r \in Roles : <<r, "open">> \in W => Crosses(p, r)
          /\ bcast' = Routed(p, W)
          /\ ctrl' = Controlled(p, W)
          /\ obj' = [obj EXCEPT ![c].running = b,
                 ![c].bc = [r \in Roles |-> IF <<r, "open">> \in W
                            THEN [@[r] EXCEPT !.running = TRUE] ELSE @[r]]]
    BY StartEffect
  <1>2. PICK b \in BOOLEAN :
          obj' = [obj EXCEPT ![c].running = b,
                 ![c].bc = [r \in Roles |-> IF <<r, "open">> \in W
                            THEN [@[r] EXCEPT !.running = TRUE] ELSE @[r]]]
    BY <1>1
  <1>3. obj'[c] = [p EXCEPT !.running = b,
                 !.bc = [r \in Roles |-> IF <<r, "open">> \in W
                            THEN [p.bc[r] EXCEPT !.running = TRUE] ELSE p.bc[r]]]
    BY <1>2 DEF IInv, ObjsOK
  <1>4. /\ obj'[c].mod = p.mod /\ obj'[c].rsc = p.rsc /\ obj'[c].ev = p.ev
        /\ obj'[c].reserved = p.reserved
        /\ \A r \in Roles : obj'[c].bc[r].id = p.bc[r].id
    BY <1>0, <1>3 DEF ObjSet
  <1>5. \A r \in Roles : Crosses(obj'[c], r) => Crosses(p, r)
    BY <1>4 DEF Crosses
  <1> QED
    BY <1>4, <1>5, EquippedStays

LEMMA StopKeeps ==
  ASSUME IInv, NEW c \in Objs, stop(c), Equipped(obj[c]) PROVE Equipped(obj'[c])
  <1> DEFINE p == obj[c]
  <1>0. p \in ObjSet
    BY DEF IInv, ObjsOK
  <1>1. PICK F : \E b \in BOOLEAN :
          obj' = [obj EXCEPT ![c].running = b,
                      ![c].ev = [r \in Roles |-> Arriving(p, r)],
                      ![c].bc = [r \in Roles |-> IF <<r, "open">> \in F THEN @[r]
                                                 ELSE [@[r] EXCEPT !.running = FALSE]]]
    BY StopEffect
  <1>2. PICK b \in BOOLEAN :
          obj' = [obj EXCEPT ![c].running = b,
                      ![c].ev = [r \in Roles |-> Arriving(p, r)],
                      ![c].bc = [r \in Roles |-> IF <<r, "open">> \in F THEN @[r]
                                                 ELSE [@[r] EXCEPT !.running = FALSE]]]
    BY <1>1
  <1>3. obj'[c] = [p EXCEPT !.running = b, !.ev = [r \in Roles |-> Arriving(p, r)],
                      !.bc = [r \in Roles |-> IF <<r, "open">> \in F THEN p.bc[r]
                                              ELSE [p.bc[r] EXCEPT !.running = FALSE]]]
    BY <1>2 DEF IInv, ObjsOK
  <1>4. /\ obj'[c].mod = p.mod /\ obj'[c].rsc = p.rsc /\ obj'[c].reserved = p.reserved
        /\ \A r \in Roles : obj'[c].bc[r].id = p.bc[r].id /\ obj'[c].ev[r] = Arriving(p, r)
    BY <1>0, <1>3 DEF ObjSet
  <1>5. \A r \in Roles : Crosses(obj'[c], r) => Crosses(p, r)
    BY <1>4 DEF Crosses, Arriving, Roles
  <1> QED
    BY <1>4, <1>5, EquippedStays

LEMMA EquippedStep ==
  ASSUME Strict, IInv, \A c \in Objs : Equipped(obj[c]), [Next]_vars
  PROVE  \A c \in Objs : Equipped(obj'[c])
  <1>1. CASE UNCHANGED vars
    BY <1>1 DEF vars
  <1>2. ASSUME NEW c \in Objs,
               setPreferredId(c) \/ initialize(c) \/ release(c) \/ free(c)
        PROVE  \A d \in Objs : Equipped(obj'[d])
    <2>1. ~obj'[c].reserved
      <3>0. (~obj[c].reserved /\ (setPreferredId(c) \/ initialize(c))) \/ release(c) \/ free(c)
        BY <1>2 DEF setPreferredId, initialize
      <3>1. CASE release(c) \/ free(c)
        BY <3>1 DEF IInv, ObjsOK, ObjSet, release, free
      <3>2. CASE setPreferredId(c) /\ ~obj[c].reserved
        BY <3>2 DEF IInv, ObjsOK, ObjSet, setPreferredId
      <3>3. CASE initialize(c) /\ ~obj[c].reserved
        BY <3>3 DEF IInv, ObjsOK, ObjSet, initialize
      <3> QED
        BY <3>0, <3>1, <3>2, <3>3
    <2>2. \A d \in Objs : d # c => obj'[d] = obj[d]
      BY <1>2 DEF IInv, ObjsOK, setPreferredId, initialize, release, free
    <2> QED
      BY <2>1, <2>2 DEF Equipped
  <1>3. ASSUME NEW c \in Objs,
               (\E r \in Roles : ChangeEvent(c, r)) \/ reserve(c) \/ start(c) \/ stop(c)
        PROVE  \A d \in Objs : Equipped(obj'[d])
    <2>1. Equipped(obj'[c])
      BY <1>3, ChangeEventKeeps, ReserveEquips, StartKeeps, StopKeeps
    <2>2. \A d \in Objs : d # c => obj'[d] = obj[d]
      BY <1>3 DEF IInv, ObjsOK, ChangeEvent, reserve, start, stop
    <2> QED
      BY <2>1, <2>2
  <1>4. ASSUME NEW c \in Objs, ReserveFails(c) PROVE \A d \in Objs : Equipped(obj'[d])
    BY <1>4 DEF ReserveFails
  <1> QED
    BY <1>1, <1>2, <1>3, <1>4 DEF Next

(* "broadcast channels within the tile of the start/stop/reset events will *)
(* be reserved" and stay so, whatever is changed after the reservation: no *)
(* call follows a pointer to no channel.  The hypothesis excludes a reset  *)
(* event that appears after the reservation; for that one it is false.     *)
THEOREM ChannelsAreReservedHolds == ASSUME Strict PROVE Spec => []ChannelsAreReserved
  <1> DEFINE J == \A c \in Objs : Equipped(obj[c])
  <1>1. Init => J
    BY DEF Init, Equipped
  <1>2. IInv /\ J /\ [Next]_vars => J'
    BY EquippedStep DEF Equipped
  <1>3. IInv /\ J => ChannelsAreReserved
    BY EquippedTells
  <1> HIDE DEF J
  <1> QED
    BY <1>1, <1>2, <1>3, Invariant, PTL DEF Spec

-----------------------------------------------------------------------------
(* What the events of a running counter go through.                        *)

(* The writes whose failure the code tells nobody about: a route of the    *)
(* stop event that is not there, and a route whose channel is not open.    *)
Told == <<"stop", "route">> \notin CanFail /\ \A r \in Roles : <<r, "open">> \notin CanFail

(* An event of a configured counter is the user's, absent, or what stop()  *)
(* left in its place.                                                      *)
Chosen(o) ==
    o.configured => \A r \in Roles : \/ o.ev[r] = Event(o.mod[r], User)
                                     \/ r = "rst" /\ o.ev[r] = NoEvent
                                     \/ o.ev[r].what \in Channels

(* Channels are held for events that cross.                                *)
Fitted(o) == \A r \in Roles : o.bc[r].id # NoChannel => Crosses(o, r)

(* Only the module of the event sends on a channel, and only while the     *)
(* channel is open or the counter runs.                                    *)
Directed(o, B) ==
    \A r \in Roles : o.bc[r].id # NoChannel =>
        \A m \in Mods : \/ B[m][o.bc[r].id] = NoEvent
                        \/ m = o.mod[r] /\ (o.bc[r].running \/ o.running)

OfUser(o) == \A r \in Roles : o.ev[r].what \in {User, None}

Connected(o, B, C) ==
    o.running /\ Needing(o) # {} /\ OfUser(o) =>
        \A r \in Roles :
            IF Crosses(o, r)
            THEN /\ o.bc[r].running
                 /\ C[o.rsc][r] = Event(o.rsc[1], o.bc[r].id)
                 /\ B[o.mod[r]][o.bc[r].id] = o.ev[r]
            ELSE o.ev[r] # NoEvent => C[o.rsc][r] = o.ev[r]

Wired(o, B, C) == Chosen(o) /\ Fitted(o) /\ Directed(o, B) /\ Connected(o, B, C)

(* Nobody sends on a channel that is free.                                 *)
Silent == \A ch \in Channels : BC(ch) \notin used => \A m \in Mods : bcast[m][ch] = NoEvent

Routing == Silent /\ \A c \in Objs : Equipped(obj[c]) /\ Wired(obj[c], bcast, ctrl)

(* Different objects use different counters and channels.                  *)
LEMMA ObjectsApart ==
  ASSUME IInv, NEW c \in Objs, NEW d \in Objs \ {c}, obj[c].reserved, obj[d].reserved
  PROVE  /\ obj[c].rsc # obj[d].rsc
         /\ \A r, s \in Roles : obj[d].bc[r].id # NoChannel => obj[c].bc[s].id # obj[d].bc[r].id
  <1>1. OwnedBy(obj[c]) \cap OwnedBy(obj[d]) = {}
    BY DEF IInv, Accounted
  <1>2. obj[c].rsc \in OwnedBy(obj[c]) /\ obj[d].rsc \in OwnedBy(obj[d])
    BY DEF OwnedBy
  <1>3. ASSUME NEW e \in Objs, NEW r \in Roles, obj[e].reserved, obj[e].bc[r].id # NoChannel
        PROVE  BC(obj[e].bc[r].id) \in OwnedBy(obj[e])
    <2>1. obj[e].bc[r] # NoBC
      BY <1>3 DEF NoBC
    <2> QED
      BY <1>3, <2>1 DEF OwnedBy
  <1>4. ASSUME NEW r \in Roles, NEW s \in Roles, obj[d].bc[r].id # NoChannel,
               obj[c].bc[s].id = obj[d].bc[r].id
        PROVE  FALSE
    <2>1. BC(obj[d].bc[r].id) \in OwnedBy(obj[d]) /\ BC(obj[c].bc[s].id) \in OwnedBy(obj[c])
      BY <1>3, <1>4
    <2> QED
      BY <1>1, <1>4, <2>1
  <1> QED
    BY <1>1, <1>2, <1>4

LEMMA IdleWired ==
  ASSUME NEW o \in ObjSet, Valid(o), ~o.reserved, Chosen(o), NEW B, NEW C
  PROVE  Wired(o, B, C)
  <1>1. ~o.running /\ \A r \in Roles : o.bc[r].id = NoChannel
    BY DEF Valid, NoBC
  <1> QED
    BY <1>1 DEF Wired, Fitted, Directed, Connected

(* A step of one object that leaves what the others use alone.             *)
LEMMA OthersWired ==
  ASSUME IInv, NEW c \in Objs, NEW d \in Objs \ {c}, Wired(obj[d], bcast, ctrl),
         UNCHANGED <<bcast, ctrl>> \/
             /\ obj[c].reserved
             /\ \A k \in Counters : k # obj[c].rsc => ctrl'[k] = ctrl[k]
             /\ \A m \in Mods, ch \in Channels :
                    (\A r \in Roles : obj[c].bc[r].id # ch) => bcast'[m][ch] = bcast[m][ch]
  PROVE  Wired(obj[d], bcast', ctrl')
  <1> DEFINE p == obj[d]
  <1>0. p \in ObjSet /\ Valid(p)
    BY DEF IInv, ObjsOK
  <1>1. CASE UNCHANGED <<bcast, ctrl>>
    BY <1>1
  <1>2. CASE ~p.reserved
    BY <1>0, <1>2, IdleWired DEF Wired
  <1>3. CASE /\ p.reserved /\ obj[c].reserved
             /\ \A k \in Counters : k # obj[c].rsc => ctrl'[k] = ctrl[k]
             /\ \A m \in Mods, ch \in Channels :
                    (\A r \in Roles : obj[c].bc[r].id # ch) => bcast'[m][ch] = bcast[m][ch]
    <2>1. ctrl'[p.rsc] = ctrl[p.rsc]
      <3>1. p.rsc \in Counters /\ p.rsc # obj[c].rsc
        BY <1>0, <1>3, ObjectsApart DEF ObjSet
      <3> QED
        BY <1>3, <3>1
    <2>2. \A r \in Roles : p.bc[r].id # NoChannel =>
              \A m \in Mods : bcast'[m][p.bc[r].id] = bcast[m][p.bc[r].id]
      <3> SUFFICES ASSUME NEW r \in Roles, p.bc[r].id # NoChannel, NEW m \in Mods
                   PROVE  bcast'[m][p.bc[r].id] = bcast[m][p.bc[r].id]
        OBVIOUS
      <3>1. p.bc[r].id \in Channels
        BY <1>0 DEF ObjSet
      <3>2. \A s \in Roles : obj[c].bc[s].id # p.bc[r].id
        BY <1>3, ObjectsApart
      <3> QED
        BY <1>3, <3>1, <3>2
    <2>3. \A r \in Roles : p.mod[r] \in Mods
      BY <1>0 DEF ObjSet
    <2>4. Chosen(p) /\ Fitted(p) /\ Directed(p, bcast) /\ Connected(p, bcast, ctrl)
      BY DEF Wired
    <2> HIDE DEF p
    <2>5. Directed(p, bcast')
      BY <2>2, <2>4 DEF Directed
    <2>6. Connected(p, bcast', ctrl')
      <3> SUFFICES ASSUME p.running, Needing(p) # {}, OfUser(p), NEW r \in Roles
                   PROVE  IF Crosses(p, r)
                          THEN /\ p.bc[r].running
                               /\ ctrl'[p.rsc][r] = Event(p.rsc[1], p.bc[r].id)
                               /\ bcast'[p.mod[r]][p.bc[r].id] = p.ev[r]
                          ELSE p.ev[r] # NoEvent => ctrl'[p.rsc][r] = p.ev[r]
        BY DEF Connected
      <3>1. CASE ~Crosses(p, r)
        BY <2>1, <2>4, <3>1 DEF Connected
      <3>2. CASE Crosses(p, r)
        <4>1. /\ p.bc[r].running
              /\ ctrl[p.rsc][r] = Event(p.rsc[1], p.bc[r].id)
              /\ bcast[p.mod[r]][p.bc[r].id] = p.ev[r]
          BY <2>4, <3>2 DEF Connected
        <4>2. p.bc[r].id # NoChannel
          BY <1>0, <4>1 DEF Valid
        <4> QED
          BY <2>1, <2>2, <2>3, <3>2, <4>1, <4>2
      <3> QED
        BY <3>1, <3>2
    <2> QED
      BY <2>4, <2>5, <2>6 DEF Wired, p
  <1> QED
    BY <1>1, <1>2, <1>3

LEMMA ChosenEvents ==
  ASSUME NEW c \in Objs, NEW r \in Roles, NEW e \in Choices(c, r)
  PROVE  \/ e = Event(e.mod, User) /\ e.mod \in Mods
         \/ r = "rst" /\ e = NoEvent
  BY ObjsAssumption DEF Choices, UserEvents, Event

LEMMA InitializeWires ==
  ASSUME IInv, NEW c \in Objs, Wired(obj[c], bcast, ctrl), setPreferredId(c) \/ initialize(c)
  PROVE  Wired(obj'[c], bcast', ctrl')
  <1> DEFINE p == obj[c]
  <1>0. p \in ObjSet /\ Valid(p)
    BY DEF IInv, ObjsOK
  <1>1. obj'[c] \in ObjSet /\ Valid(obj'[c])
    BY ConfigurationStep DEF IInv, ObjsOK
  <1>2. CASE setPreferredId(c)
    <2>1. PICK id \in Ids \cup {AnyId}, b \in BOOLEAN :
              obj' = [obj EXCEPT ![c].pref = id, ![c].prereserved = @ \/ (b /\ id # AnyId)]
      BY <1>2 DEF setPreferredId
    <2>2. obj'[c] = [p EXCEPT !.pref = id, !.prereserved = @ \/ (b /\ id # AnyId)]
      BY <2>1 DEF IInv, ObjsOK
    <2>3. /\ obj'[c].reserved = p.reserved /\ obj'[c].configured = p.configured
          /\ obj'[c].ev = p.ev /\ obj'[c].mod = p.mod
      BY <1>0, <2>2 DEF ObjSet
    <2>4. Chosen(obj'[c])
      BY <2>3 DEF Wired, Chosen
    <2>5. ~obj'[c].reserved
      BY <1>2, <2>3 DEF setPreferredId
    <2> QED
      BY <1>1, <2>4, <2>5, IdleWired
  <1>3. CASE initialize(c)
    <2>1. PICK ev \in [Roles -> UNION { Choices(c, r) : r \in Roles }] :
              /\ \A r \in Roles : ev[r] \in Choices(c, r)
              /\ obj' = [obj EXCEPT ![c].ev = ev, ![c].configured = TRUE,
                          ![c].mod = [r \in Roles |->
                              IF ev[r] = NoEvent THEN @[r] ELSE ev[r].mod]]
      BY <1>3 DEF initialize
    <2>2. obj'[c] = [p EXCEPT !.ev = ev, !.configured = TRUE,
                          !.mod = [r \in Roles |-> IF ev[r] = NoEvent THEN p.mod[r] ELSE ev[r].mod]]
      BY <2>1 DEF IInv, ObjsOK
    <2>3. /\ obj'[c].reserved = p.reserved /\ obj'[c].ev = ev
          /\ \A r \in Roles : obj'[c].mod[r] = IF ev[r] = NoEvent THEN p.mod[r] ELSE ev[r].mod
      BY <1>0, <2>2 DEF ObjSet
    <2>4. Chosen(obj'[c])
      <3> SUFFICES ASSUME NEW r \in Roles
                   PROVE  ev[r] = Event(obj'[c].mod[r], User) \/ (r = "rst" /\ ev[r] = NoEvent)
        BY <2>3 DEF Chosen
      <3>1. CASE r = "rst" /\ ev[r] = NoEvent
        BY <3>1
      <3>2. CASE ev[r] = Event(ev[r].mod, User)
        <4>1. ev[r].what = User /\ NoEvent.what = None
          BY <3>2 DEF Event, NoEvent
        <4>2. ev[r] # NoEvent
          BY <4>1 DEF User, None
        <4> QED
          BY <2>3, <3>2, <4>2
      <3> QED
        BY <2>1, <3>1, <3>2, ChosenEvents
    <2>5. ~obj'[c].reserved
      BY <1>3, <2>3 DEF initialize
    <2> QED
      BY <1>1, <2>4, <2>5, IdleWired
  <1> QED
    BY <1>2, <1>3

(* Until the counter runs its events may change, not what crosses.         *)
LEMMA ChangeEventWires ==
  ASSUME Strict, IInv, NEW c \in Objs, NEW r \in Roles, ChangeEvent(c, r),
         Wired(obj[c], bcast, ctrl)
  PROVE  Wired(obj'[c], bcast', ctrl')
  <1> DEFINE p == obj[c]
  <1>0. p \in ObjSet /\ Valid(p) /\ ~p.running /\ UNCHANGED <<bcast, ctrl>>
    BY DEF IInv, ObjsOK, ChangeEvent
  <1>1. PICK e \in Choices(c, r) :
            /\ p.reserved => e.mod = p.mod[r]
            /\ MayChange(p, r, e)
            /\ obj' = [obj EXCEPT ![c].ev[r] = e, ![c].mod[r] = e.mod]
    BY DEF ChangeEvent
  <1>2. obj'[c] = [p EXCEPT !.ev[r] = e, !.mod[r] = e.mod]
    BY <1>1 DEF IInv, ObjsOK
  <1>3. PICK o : o = obj'[c]
    OBVIOUS
  <1>4. /\ o.reserved = p.reserved /\ o.bc = p.bc /\ o.rsc = p.rsc
        /\ o.configured = p.configured /\ o.running = p.running
        /\ o.ev[r] = e /\ o.mod[r] = e.mod
        /\ \A s \in Roles \ {r} : o.ev[s] = p.ev[s] /\ o.mod[s] = p.mod[s]
    BY <1>0, <1>2, <1>3 DEF ObjSet
  <1>5. Chosen(p) /\ Fitted(p) /\ Directed(p, bcast)
    BY DEF Wired
  <1>6. Chosen(o)
    BY <1>1, <1>4, <1>5, ChosenEvents DEF Chosen
  <1>7. ~o.running
    BY <1>0, <1>4
  <1>8. CASE ~p.reserved
    <2>1. \A s \in Roles : o.bc[s].id = NoChannel
      BY <1>0, <1>4, <1>8 DEF Valid, NoBC
    <2> QED
      BY <1>3, <1>6, <1>7, <2>1 DEF Wired, Fitted, Directed, Connected
  <1>9. CASE p.reserved
    <2>1. \A s \in Roles : o.mod[s] = p.mod[s]
      BY <1>1, <1>4, <1>9
    <2>2. \A s \in Roles : Crosses(p, s) => Crosses(o, s)
      <3> SUFFICES ASSUME NEW s \in Roles, Crosses(p, s) PROVE Crosses(o, s)
        OBVIOUS
      <3>1. CASE s # r \/ s # "rst"
        BY <1>4, <2>1, <3>1 DEF Crosses
      <3>2. CASE s = r /\ s = "rst"
        <4>1. e.mod # p.rsc[1] /\ p.ev["rst"] # NoEvent
          BY <1>1, <1>9, <3>2 DEF Crosses
        <4>2. e # NoEvent
          BY <1>1, <1>9, <3>2, <4>1 DEF MayChange, Strict
        <4> QED
          BY <1>4, <2>1, <3>2, <4>2 DEF Crosses
      <3> QED
        BY <3>1, <3>2
    <2>3. Fitted(o)
      BY <1>4, <1>5, <2>2 DEF Fitted
    <2>4. Directed(o, bcast)
      BY <1>4, <1>5, <2>1 DEF Directed
    <2> QED
      BY <1>0, <1>3, <1>6, <1>7, <2>3, <2>4 DEF Wired, Connected
  <1> QED
    BY <1>8, <1>9

(* The channels that are reserved are free ones: nobody sends on them.     *)
LEMMA ReserveWires ==
  ASSUME IInv, Silent, NEW c \in Objs, reserve(c), Wired(obj[c], bcast, ctrl)
  PROVE  Wired(obj'[c], bcast', ctrl')
  <1> DEFINE p == obj[c]
  <1>0. p \in ObjSet /\ Valid(p) /\ ~p.reserved /\ UNCHANGED <<bcast, ctrl>>
    BY DEF IInv, ObjsOK, reserve
  <1>1. PICK k \in GrantedCounter(c) : \E g \in ChannelsFor([p EXCEPT !.rsc = k]) :
            obj' = [obj EXCEPT ![c] = [[p EXCEPT !.rsc = k] EXCEPT !.reserved = TRUE,
                   !.bc = [r \in Roles |-> IF r \in Needing([p EXCEPT !.rsc = k])
                                           THEN [id |-> g[r], running |-> FALSE] ELSE NoBC]]]
    BY DEF reserve
  <1> DEFINE q == [p EXCEPT !.rsc = k]
  <1>2. PICK g \in ChannelsFor(q) :
            obj' = [obj EXCEPT ![c] = [q EXCEPT !.reserved = TRUE,
                   !.bc = [r \in Roles |-> IF r \in Needing(q)
                                           THEN [id |-> g[r], running |-> FALSE] ELSE NoBC]]]
    BY <1>1
  <1>3. obj'[c] = [q EXCEPT !.reserved = TRUE,
                   !.bc = [r \in Roles |-> IF r \in Needing(q)
                                           THEN [id |-> g[r], running |-> FALSE] ELSE NoBC]]
    BY <1>2 DEF IInv, ObjsOK
  <1>4. PICK o : o = obj'[c]
    OBVIOUS
  <1>5. /\ o.mod = p.mod /\ o.rsc = q.rsc /\ o.ev = p.ev /\ q.mod = p.mod /\ q.ev = p.ev
        /\ o.configured = p.configured /\ o.running = p.running
        /\ o.bc = [r \in Roles |-> IF r \in Needing(q)
                                   THEN [id |-> g[r], running |-> FALSE] ELSE NoBC]
    BY <1>0, <1>3, <1>4 DEF ObjSet
  <1>6. Needing(o) = Needing(q)
    BY <1>5 DEF Needing, Crosses
  <1>7. \A r \in Needing(q) : g[r] \in FreeChannels
    BY <1>2, ChannelsAreDistinct
  <1> HIDE DEF q
  <1>8. ~o.running
    BY <1>0, <1>5 DEF Valid
  <1>9. \A r \in Roles : o.bc[r].id # NoChannel => r \in Needing(q) /\ o.bc[r].id = g[r]
    BY <1>5 DEF NoBC
  <1>10. Chosen(o)
    BY <1>5 DEF Wired, Chosen
  <1>11. Fitted(o)
    BY <1>6, <1>9 DEF Fitted, Needing
  <1>12. Directed(o, bcast)
    BY <1>7, <1>9 DEF Directed, Silent, FreeChannels
  <1> QED
    BY <1>0, <1>4, <1>8, <1>10, <1>11, <1>12 DEF Wired, Connected

LEMMA ReleaseWires ==
  ASSUME IInv, NEW c \in Objs, release(c) \/ free(c), Wired(obj[c], bcast, ctrl)
  PROVE  Wired(obj'[c], bcast', ctrl')
  <1> DEFINE p == obj[c]
  <1>0. p \in ObjSet
    BY DEF IInv, ObjsOK
  <1>1. obj'[c] \in ObjSet /\ Valid(obj'[c])
    BY ReleaseStep, FreeStep DEF IInv, ObjsOK
  <1>2. /\ ~obj'[c].reserved /\ obj'[c].configured = p.configured
        /\ obj'[c].ev = p.ev /\ obj'[c].mod = p.mod
    BY <1>0 DEF release, free, IInv, ObjsOK, ObjSet
  <1>3. Chosen(obj'[c])
    BY <1>2 DEF Wired, Chosen
  <1> QED
    BY <1>1, <1>2, <1>3, IdleWired

(* A start opens each channel right after it routed the event to it.       *)
Paired(s) ==
    \A j \in 1 .. Len(s), r \in Roles :
        s[j] = <<r, "route">> => j + 1 <= Len(s) /\ s[j + 1] = <<r, "open">>

LEMMA PairedConcat ==
  ASSUME NEW S, NEW s \in Seq(S), NEW t \in Seq(S), Paired(s), Paired(t)
  PROVE  Paired(s \o t)
  <1> SUFFICES ASSUME NEW j \in 1 .. Len(s \o t), NEW r \in Roles, (s \o t)[j] = <<r, "route">>
               PROVE  j + 1 <= Len(s \o t) /\ (s \o t)[j + 1] = <<r, "open">>
    BY DEF Paired
  <1>0. Len(s \o t) = Len(s) + Len(t) /\ Len(s) \in Nat /\ Len(t) \in Nat
    OBVIOUS
  <1>1. CASE j \in 1 .. Len(s)
    <2>1. s[j] = <<r, "route">>
      BY <1>1
    <2>2. j + 1 <= Len(s) /\ s[j + 1] = <<r, "open">>
      BY <1>1, <2>1 DEF Paired
    <2> QED
      BY <1>0, <1>1, <2>2
  <1>2. CASE j \in Len(s) + 1 .. Len(s) + Len(t)
    <2>1. PICK i \in 1 .. Len(t) : i = j - Len(s)
      BY <1>0, <1>2
    <2>2. t[i] = <<r, "route">>
      BY <1>0, <1>2, <2>1
    <2>3. i + 1 <= Len(t) /\ t[i + 1] = <<r, "open">>
      BY <2>2 DEF Paired
    <2>4. (s \o t)[j + 1] = t[i + 1] /\ j + 1 <= Len(s) + Len(t)
      BY <1>0, <1>2, <2>1, <2>3
    <2> QED
      BY <1>0, <2>3, <2>4
  <1> QED
    BY <1>0, <1>1, <1>2

LEMMA PartOfConcat ==
  ASSUME NEW S, NEW s \in Seq(S), NEW t \in Seq(S), NEW x, IsIn(x, s) \/ IsIn(x, t)
  PROVE  IsIn(x, s \o t)
  <1>0. Len(s \o t) = Len(s) + Len(t) /\ Len(s) \in Nat /\ Len(t) \in Nat
    OBVIOUS
  <1>1. CASE IsIn(x, s)
    <2>1. PICK i \in 1 .. Len(s) : x = s[i]
      BY <1>1 DEF IsIn
    <2>2. i \in 1 .. Len(s \o t) /\ (s \o t)[i] = x
      BY <1>0, <2>1
    <2> QED
      BY <2>2 DEF IsIn
  <1>2. CASE IsIn(x, t)
    <2>1. PICK i \in 1 .. Len(t) : x = t[i]
      BY <1>2 DEF IsIn
    <2>2. i + Len(s) \in 1 .. Len(s \o t) /\ (s \o t)[i + Len(s)] = x
      BY <1>0, <2>1
    <2> QED
      BY <2>2 DEF IsIn
  <1> QED
    BY <1>1, <1>2

LEMMA OpenIsPaired ==
  ASSUME NEW o, NEW r \in Roles
  PROVE  /\ Paired(Open(o, r))
         /\ Crosses(o, r) => IsIn(<<r, "route">>, Open(o, r)) /\ IsIn(<<r, "open">>, Open(o, r))
  <1>1. CASE Crosses(o, r)
    <2>1. Open(o, r) = << <<r, "route">>, <<r, "open">> >>
      BY <1>1 DEF Open
    <2> DEFINE s == << <<r, "route">>, <<r, "open">> >>
    <2>2. Len(s) = 2 /\ s[1] = <<r, "route">> /\ s[2] = <<r, "open">>
      OBVIOUS
    <2> HIDE DEF s
    <2>3. 1 \in 1 .. Len(s) /\ 2 \in 1 .. Len(s)
      BY <2>2
    <2>4. Paired(s)
      BY <2>2 DEF Paired
    <2>5. IsIn(<<r, "route">>, s) /\ IsIn(<<r, "open">>, s)
      BY <2>2, <2>3 DEF IsIn
    <2> QED
      BY <2>1, <2>4, <2>5 DEF s
  <1>2. CASE ~Crosses(o, r)
    <2>1. Open(o, r) = <<>>
      BY <1>2 DEF Open
    <2> QED
      BY <1>2, <2>1 DEF Paired
  <1> QED
    BY <1>1, <1>2

LEMMA WritesOfStart ==
  ASSUME NEW o
  PROVE  /\ StartWrites(o) \in Seq(Writes) /\ Paired(StartWrites(o))
         /\ \A r \in Roles : Crosses(o, r) => /\ IsIn(<<r, "route">>, StartWrites(o))
                                              /\ IsIn(<<r, "open">>, StartWrites(o))
         /\ IsIn(<<"start", "control">>, StartWrites(o))
         /\ o.ev["rst"] # NoEvent => IsIn(<<"rst", "control">>, StartWrites(o))
  <1> DEFINE a == Open(o, "start")
  <1> DEFINE b == Open(o, "stop")
  <1> DEFINE d == Open(o, "rst")
  <1> DEFINE e == << <<"start", "control">> >>
  <1> DEFINE f == IF o.ev["rst"] = NoEvent THEN <<>> ELSE << <<"rst", "control">> >>
  <1>1. /\ a \in Seq(Writes) /\ b \in Seq(Writes) /\ d \in Seq(Writes)
        /\ e \in Seq(Writes) /\ f \in Seq(Writes)
    BY OpenEntries DEF Writes, Roles
  <1>2. StartWrites(o) = a \o b \o d \o e \o f
    BY DEF StartWrites
  <1>3. Paired(a) /\ Paired(b) /\ Paired(d)
    BY OpenIsPaired DEF Roles
  <1>4. Paired(e) /\ Paired(f)
    BY DEF Paired
  <1>5. \A r \in Roles : Crosses(o, r) =>
            \/ IsIn(<<r, "route">>, a) /\ IsIn(<<r, "open">>, a)
            \/ IsIn(<<r, "route">>, b) /\ IsIn(<<r, "open">>, b)
            \/ IsIn(<<r, "route">>, d) /\ IsIn(<<r, "open">>, d)
    BY OpenIsPaired DEF Roles
  <1>6. IsIn(<<"start", "control">>, e)
    <2>1. 1 \in 1 .. Len(e) /\ e[1] = <<"start", "control">>
      OBVIOUS
    <2> QED
      BY <2>1 DEF IsIn
  <1>7. o.ev["rst"] # NoEvent => IsIn(<<"rst", "control">>, f)
    <2> SUFFICES ASSUME o.ev["rst"] # NoEvent PROVE IsIn(<<"rst", "control">>, f)
      OBVIOUS
    <2>1. 1 \in 1 .. Len(f) /\ f[1] = <<"rst", "control">>
      OBVIOUS
    <2> QED
      BY <2>1 DEF IsIn
  <1> HIDE DEF a, b, d, e, f
  <1> DEFINE ab == a \o b
  <1> DEFINE abd == ab \o d
  <1> DEFINE abde == abd \o e
  <1>8. ab \in Seq(Writes) /\ abd \in Seq(Writes) /\ abde \in Seq(Writes)
        /\ StartWrites(o) \in Seq(Writes)
    BY <1>1, <1>2
  <1>9. StartWrites(o) = abde \o f
    BY <1>2, Zenon
  <1>10. Paired(ab)
    BY <1>1, <1>3, PairedConcat
  <1>11. \A x : IsIn(x, a) \/ IsIn(x, b) => IsIn(x, ab)
    BY <1>1, PartOfConcat
  <1> HIDE DEF ab
  <1>12. Paired(abd)
    BY <1>1, <1>3, <1>8, <1>10, PairedConcat
  <1>13. \A x : IsIn(x, ab) \/ IsIn(x, d) => IsIn(x, abd)
    BY <1>1, <1>8, PartOfConcat
  <1> HIDE DEF abd
  <1>14. Paired(abde)
    BY <1>1, <1>4, <1>8, <1>12, PairedConcat
  <1>15. \A x : IsIn(x, abd) \/ IsIn(x, e) => IsIn(x, abde)
    BY <1>1, <1>8, PartOfConcat
  <1> HIDE DEF abde
  <1>16. Paired(StartWrites(o))
    BY <1>1, <1>4, <1>8, <1>9, <1>14, PairedConcat
  <1>17. \A x : IsIn(x, abde) \/ IsIn(x, f) => IsIn(x, StartWrites(o))
    BY <1>1, <1>8, <1>9, PartOfConcat
  <1> QED
    BY <1>5, <1>6, <1>7, <1>8, <1>11, <1>13, <1>15, <1>16, <1>17

(* A start that says it worked has done every write that is not refused,   *)
(* and one that did not leaves no channel routed that it has not opened.   *)
LEMMA StartRoutes ==
  ASSUME Told, IInv, NEW c \in Objs, start(c)
  PROVE  LET p == obj[c]
         IN  \E W : \E b \in BOOLEAN :
                /\ \A r \in Roles : <<r, "route">> \in W => <<r, "open">> \in W
                /\ \A r \in Roles : <<r, "open">> \in W => Crosses(p, r)
                /\ b => /\ \A r \in Roles : Crosses(p, r) =>
                               /\ <<r, "open">> \in W
                               /\ p.ev[r].mod = p.mod[r] => <<r, "route">> \in W
                        /\ <<"start", "control">> \in W
                        /\ p.ev["rst"] # NoEvent => <<"rst", "control">> \in W
                /\ bcast' = Routed(p, W)
                /\ ctrl' = Controlled(p, W)
                /\ obj' = [obj EXCEPT ![c].running = b,
                       ![c].bc = [r \in Roles |-> IF <<r, "open">> \in W
                                  THEN [@[r] EXCEPT !.running = TRUE] ELSE @[r]]]
  <1> DEFINE p == obj[c]
  <1> DEFINE writes == StartWrites(p)
  <1>1. PICK k \in 0 .. Len(writes), lostWrites \in SUBSET { w \in CanFail : Ignored(w) } :
          /\ k < Len(writes) => Refused(p, writes[k + 1]) \/ writes[k + 1] \in CanFail
          /\ LET W == { writes[j] : j \in { i \in 1 .. k : ~Refused(p, writes[i]) } } \ lostWrites
             IN  /\ bcast' = Routed(p, W)
                 /\ ctrl' = Controlled(p, W)
                 /\ obj' = [obj EXCEPT ![c].running = (k = Len(writes)),
                        ![c].bc = [r \in Roles |-> IF <<r, "open">> \in W
                                   THEN [@[r] EXCEPT !.running = TRUE] ELSE @[r]]]
    BY DEF start
  <1>2. lostWrites = {}
    BY DEF Ignored, Told
  <1> DEFINE W == { writes[j] : j \in { i \in 1 .. k : ~Refused(p, writes[i]) } }
  <1> DEFINE b == (k = Len(writes))
  <1>3. /\ bcast' = Routed(p, W) /\ ctrl' = Controlled(p, W)
        /\ obj' = [obj EXCEPT ![c].running = b,
                     ![c].bc = [r \in Roles |-> IF <<r, "open">> \in W
                                THEN [@[r] EXCEPT !.running = TRUE] ELSE @[r]]]
    <2>1. W = W \ lostWrites
      BY <1>2
    <2> HIDE DEF writes
    <2> QED
      BY <1>1, <2>1
  <1>4. /\ writes \in Seq(Writes) /\ Paired(writes)
        /\ \A r \in Roles : Crosses(p, r) => /\ IsIn(<<r, "route">>, writes)
                                             /\ IsIn(<<r, "open">>, writes)
        /\ IsIn(<<"start", "control">>, writes)
        /\ p.ev["rst"] # NoEvent => IsIn(<<"rst", "control">>, writes)
        /\ \A r \in Roles : IsIn(<<r, "open">>, writes) => Crosses(p, r)
    BY WritesOfStart, OpenWrites
  <1>5. b \in BOOLEAN
    OBVIOUS
  <1>6. k < Len(writes) => Refused(p, writes[k + 1]) \/ writes[k + 1] \in CanFail
    BY <1>1
  <1> HIDE DEF writes
  <1>7. Len(writes) \in Nat /\ k \in Nat /\ k <= Len(writes)
    BY <1>1, <1>4
  <1>8. \A r \in Roles, x \in {"open", "control"} : ~Refused(p, <<r, x>>)
    BY DEF Refused
  <1>9. ASSUME NEW r \in Roles, <<r, "route">> \in W PROVE <<r, "open">> \in W
    <2>1. PICK j \in 1 .. k : writes[j] = <<r, "route">>
      BY <1>9
    <2>2. j + 1 <= Len(writes) /\ writes[j + 1] = <<r, "open">>
      BY <1>4, <1>7, <2>1 DEF Paired
    <2>3. ~Refused(p, writes[j + 1]) /\ writes[j + 1] \notin CanFail
      BY <1>8, <2>2 DEF Told
    <2>4. j + 1 \in 1 .. k
      BY <1>6, <1>7, <2>2, <2>3
    <2> QED
      BY <2>2, <2>3, <2>4
  <1>10. ASSUME NEW r \in Roles, <<r, "open">> \in W PROVE Crosses(p, r)
    <2>1. PICK j \in 1 .. k : writes[j] = <<r, "open">>
      BY <1>10
    <2>2. IsIn(<<r, "open">>, writes)
      BY <1>7, <2>1 DEF IsIn
    <2> QED
      BY <1>4, <2>2
  <1>11. ASSUME b, NEW x, IsIn(x, writes), ~Refused(p, x) PROVE x \in W
    BY <1>11 DEF IsIn
  <1>12. ASSUME b
         PROVE  /\ \A r \in Roles : Crosses(p, r) =>
                       /\ <<r, "open">> \in W
                       /\ p.ev[r].mod = p.mod[r] => <<r, "route">> \in W
                /\ <<"start", "control">> \in W
                /\ p.ev["rst"] # NoEvent => <<"rst", "control">> \in W
    <2>1. ASSUME NEW r \in Roles, Crosses(p, r) PROVE <<r, "open">> \in W
      BY <1>4, <1>8, <1>11, <1>12, <2>1
    <2>2. ASSUME NEW r \in Roles, Crosses(p, r), p.ev[r].mod = p.mod[r] PROVE <<r, "route">> \in W
      <3>1. ~Refused(p, <<r, "route">>)
        BY <2>2 DEF Refused
      <3> QED
        BY <1>4, <1>11, <1>12, <2>2, <3>1
    <2>3. "start" \in Roles /\ "rst" \in Roles
      BY DEF Roles
    <2>4. <<"start", "control">> \in W
      BY <1>4, <1>8, <1>11, <1>12, <2>3
    <2>5. p.ev["rst"] # NoEvent => <<"rst", "control">> \in W
      BY <1>4, <1>8, <1>11, <1>12, <2>3
    <2> QED
      BY <2>1, <2>2, <2>4, <2>5
  <1> HIDE DEF W, b, p
  <1>13. /\ \A r \in Roles : <<r, "route">> \in W => <<r, "open">> \in W
         /\ \A r \in Roles : <<r, "open">> \in W => Crosses(p, r)
    BY <1>9, <1>10
  <1> QED
    BY <1>3, <1>5, <1>12, <1>13 DEF p

LEMMA StartWires ==
  ASSUME Told, IInv, NEW c \in Objs, start(c), Wired(obj[c], bcast, ctrl)
  PROVE  /\ Wired(obj'[c], bcast', ctrl')
         /\ obj[c].reserved
         /\ \A k \in Counters : k # obj[c].rsc => ctrl'[k] = ctrl[k]
         /\ \A m \in Mods, ch \in Channels :
                (\A r \in Roles : obj[c].bc[r].id # ch \/ obj[c].bc[r] = NoBC)
                    => bcast'[m][ch] = bcast[m][ch]
  <1> DEFINE p == obj[c]
  <1>0. /\ p \in ObjSet /\ Valid(p) /\ p.reserved /\ p.configured /\ ~p.running /\ HasChannels(p)
        /\ ctrl \in [Counters -> [Roles -> Events]]
    BY DEF IInv, ObjsOK, RegsOK, start
  <1>1. PICK W : \E b \in BOOLEAN :
                /\ \A r \in Roles : <<r, "route">> \in W => <<r, "open">> \in W
                /\ \A r \in Roles : <<r, "open">> \in W => Crosses(p, r)
                /\ b => /\ \A r \in Roles : Crosses(p, r) =>
                               /\ <<r, "open">> \in W
                               /\ p.ev[r].mod = p.mod[r] => <<r, "route">> \in W
                        /\ <<"start", "control">> \in W
                        /\ p.ev["rst"] # NoEvent => <<"rst", "control">> \in W
                /\ bcast' = Routed(p, W)
                /\ ctrl' = Controlled(p, W)
                /\ obj' = [obj EXCEPT ![c].running = b,
                       ![c].bc = [r \in Roles |-> IF <<r, "open">> \in W
                                  THEN [@[r] EXCEPT !.running = TRUE] ELSE @[r]]]
    BY StartRoutes
  <1>2. PICK b \in BOOLEAN :
                /\ \A r \in Roles : <<r, "route">> \in W => <<r, "open">> \in W
                /\ \A r \in Roles : <<r, "open">> \in W => Crosses(p, r)
                /\ b => /\ \A r \in Roles : Crosses(p, r) =>
                               /\ <<r, "open">> \in W
                               /\ p.ev[r].mod = p.mod[r] => <<r, "route">> \in W
                        /\ <<"start", "control">> \in W
                        /\ p.ev["rst"] # NoEvent => <<"rst", "control">> \in W
                /\ bcast' = Routed(p, W)
                /\ ctrl' = Controlled(p, W)
                /\ obj' = [obj EXCEPT ![c].running = b,
                       ![c].bc = [r \in Roles |-> IF <<r, "open">> \in W
                                  THEN [@[r] EXCEPT !.running = TRUE] ELSE @[r]]]
    BY <1>1
  <1>3. obj'[c] = [p EXCEPT !.running = b,
                 !.bc = [r \in Roles |-> IF <<r, "open">> \in W
                            THEN [p.bc[r] EXCEPT !.running = TRUE] ELSE p.bc[r]]]
    BY <1>2 DEF IInv, ObjsOK
  <1>4. PICK o : o = obj'[c]
    OBVIOUS
  <1>5. /\ o.mod = p.mod /\ o.rsc = p.rsc /\ o.ev = p.ev /\ o.running = b
        /\ o.configured = p.configured
        /\ \A r \in Roles : /\ o.bc[r].id = p.bc[r].id
                            /\ <<r, "open">> \in W => o.bc[r].running
                            /\ p.bc[r].running => o.bc[r].running
    <2>1. \A r \in Roles : o.bc[r] = IF <<r, "open">> \in W
                                     THEN [p.bc[r] EXCEPT !.running = TRUE] ELSE p.bc[r]
      BY <1>0, <1>3, <1>4 DEF ObjSet
    <2>2. \A r \in Roles : p.bc[r] \in [id : Channels \cup {NoChannel}, running : BOOLEAN]
      BY <1>0 DEF ObjSet
    <2>3. \A r \in Roles : /\ o.bc[r].id = p.bc[r].id
                           /\ <<r, "open">> \in W => o.bc[r].running
                           /\ p.bc[r].running => o.bc[r].running
      BY <2>1, <2>2
    <2> QED
      BY <1>0, <1>3, <1>4, <2>3 DEF ObjSet
  <1>6. \A r \in Roles : Crosses(o, r) <=> Crosses(p, r)
    BY <1>5 DEF Crosses
  <1>7. \A r \in Roles : p.bc[r] = NoBC <=> p.bc[r].id = NoChannel
    BY <1>0, IdTells
  <1>8. \A r \in Roles : Crosses(p, r) => p.bc[r].id # NoChannel
    BY <1>0, <1>7 DEF HasChannels, Needing
  <1>9. Chosen(p) /\ Fitted(p) /\ Directed(p, bcast)
    BY DEF Wired
  <1>10. \A m \in Mods, ch \in Channels :
             bcast'[m][ch] = IF \E r \in Roles : <<r, "route">> \in W /\ p.mod[r] = m /\ p.bc[r].id = ch
                             THEN Event(m, User) ELSE bcast[m][ch]
    BY <1>2 DEF Routed
  <1>11. \A r \in Roles : ctrl'[p.rsc][r] = IF <<SetWith(r), "control">> \in W THEN Arriving(p, r)
                                            ELSE ctrl[p.rsc][r]
    <2>1. p.rsc \in Counters
      BY <1>0 DEF ObjSet
    <2> QED
      BY <1>0, <1>2, <2>1 DEF Controlled
  <1>12. \A k \in Counters : k # p.rsc => ctrl'[k] = ctrl[k]
    BY <1>0, <1>2 DEF Controlled
  <1>13. \A r \in Roles : <<r, "route">> \in W => Crosses(p, r) /\ p.bc[r] # NoBC
    BY <1>2, <1>7, <1>8
  <1>14. ASSUME NEW m \in Mods, NEW ch \in Channels,
                \A r \in Roles : p.bc[r].id # ch \/ p.bc[r] = NoBC
         PROVE  bcast'[m][ch] = bcast[m][ch]
    <2>1. ~\E r \in Roles : <<r, "route">> \in W /\ p.mod[r] = m /\ p.bc[r].id = ch
      BY <1>13, <1>14
    <2> QED
      BY <1>10, <2>1
  <1>15. Chosen(o)
    BY <1>5, <1>9 DEF Chosen
  <1>16. Fitted(o)
    BY <1>5, <1>6, <1>9 DEF Fitted
  <1>17. \A r \in Roles : p.bc[r].id # NoChannel => p.bc[r].id \in Channels
    BY <1>0 DEF ObjSet
  <1>18. \A r, s \in Roles : p.bc[r].id # NoChannel /\ p.bc[r].id = p.bc[s].id => r = s
    BY <1>0, <1>7 DEF Valid
  <1> HIDE DEF p
  <1>19. Directed(o, bcast')
    <2> SUFFICES ASSUME NEW r \in Roles, o.bc[r].id # NoChannel, NEW m \in Mods
                 PROVE  \/ bcast'[m][o.bc[r].id] = NoEvent
                        \/ m = o.mod[r] /\ (o.bc[r].running \/ o.running)
      BY DEF Directed
    <2>0. p.bc[r].id # NoChannel /\ o.bc[r].id = p.bc[r].id /\ o.mod[r] = p.mod[r]
      BY <1>5
    <2>1. CASE <<r, "route">> \in W /\ p.mod[r] = m
      BY <1>2, <1>5, <2>0, <2>1
    <2>2. CASE ~(<<r, "route">> \in W /\ p.mod[r] = m)
      <3>1. bcast'[m][p.bc[r].id] = bcast[m][p.bc[r].id]
        <4>1. ~\E s \in Roles : <<s, "route">> \in W /\ p.mod[s] = m /\ p.bc[s].id = p.bc[r].id
          BY <1>18, <2>0, <2>2
        <4> QED
          BY <1>10, <1>17, <2>0, <4>1
      <3>2. \/ bcast[m][p.bc[r].id] = NoEvent
            \/ m = p.mod[r] /\ (p.bc[r].running \/ p.running)
        BY <1>9, <2>0 DEF Directed, p
      <3> QED
        BY <1>0, <1>5, <2>0, <3>1, <3>2 DEF p
    <2> QED
      BY <2>1, <2>2
  <1>20. Connected(o, bcast', ctrl')
    <2> SUFFICES ASSUME o.running, OfUser(o), NEW r \in Roles
                 PROVE  IF Crosses(o, r)
                        THEN /\ o.bc[r].running
                             /\ ctrl'[o.rsc][r] = Event(o.rsc[1], o.bc[r].id)
                             /\ bcast'[o.mod[r]][o.bc[r].id] = o.ev[r]
                        ELSE o.ev[r] # NoEvent => ctrl'[o.rsc][r] = o.ev[r]
      BY DEF Connected
    <2>1. p.ev[r] = Event(p.mod[r], User) \/ (r = "rst" /\ p.ev[r] = NoEvent)
      <3>1. p.ev[r].what \notin Channels
        BY <1>5, SizesAssumption DEF OfUser, User, None, Channels
      <3> QED
        BY <1>0, <1>9, <3>1 DEF Chosen, p
    <2>2. p.ev[r] # NoEvent => <<SetWith(r), "control">> \in W
      BY <1>2, <1>5 DEF SetWith, Roles
    <2>3. CASE ~Crosses(p, r)
      BY <1>5, <1>6, <1>11, <2>2, <2>3 DEF Arriving
    <2>4. CASE Crosses(p, r)
      <3>1. p.ev[r] = Event(p.mod[r], User)
        BY <2>1, <2>4 DEF Crosses
      <3>2. p.ev[r].mod = p.mod[r] /\ p.ev[r].what = User
        BY <3>1 DEF Event
      <3>3. p.ev[r] # NoEvent
        BY <3>2 DEF NoEvent, Event, User, None
      <3>4. <<r, "open">> \in W /\ <<r, "route">> \in W
        BY <1>2, <1>5, <2>4, <3>2
      <3>5. p.mod[r] \in Mods
        BY <1>0 DEF ObjSet, p
      <3>6. bcast'[p.mod[r]][p.bc[r].id] = Event(p.mod[r], User)
        BY <1>8, <1>10, <1>17, <2>4, <3>4, <3>5
      <3>7. ctrl'[p.rsc][r] = Event(p.rsc[1], p.bc[r].id)
        BY <1>11, <2>2, <2>4, <3>3 DEF Arriving
      <3> QED
        BY <1>5, <1>6, <2>4, <3>1, <3>4, <3>6, <3>7
    <2> QED
      BY <2>3, <2>4
  <1> QED
    BY <1>0, <1>4, <1>12, <1>14, <1>15, <1>16, <1>19, <1>20 DEF Wired, p

(* A stop that could not take back a route leaves the counter running.     *)
LEMMA StopWires ==
  ASSUME IInv, NEW c \in Objs, stop(c), Wired(obj[c], bcast, ctrl)
  PROVE  /\ Wired(obj'[c], bcast', ctrl')
         /\ obj[c].reserved
         /\ \A k \in Counters : k # obj[c].rsc => ctrl'[k] = ctrl[k]
         /\ \A m \in Mods, ch \in Channels :
                (\A r \in Roles : obj[c].bc[r].id # ch \/ obj[c].bc[r] = NoBC)
                    => bcast'[m][ch] = bcast[m][ch]
  <1> DEFINE p == obj[c]
  <1>0. /\ p \in ObjSet /\ Valid(p) /\ p.reserved /\ p.configured /\ p.running /\ HasChannels(p)
        /\ ctrl \in [Counters -> [Roles -> Events]]
    BY DEF IInv, ObjsOK, RegsOK, Valid, stop
  <1>1. PICK F :
          /\ bcast' = [m \in Mods |-> [ch \in Channels |->
                 IF \E r \in Needing(p) : /\ <<r, "route">> \notin F
                                          /\ p.mod[r] = m /\ p.bc[r].id = ch
                 THEN NoEvent ELSE bcast[m][ch]]]
          /\ ctrl' = [ctrl EXCEPT ![p.rsc] = [r \in Roles |->
                 IF <<SetWith(r), "control">> \in F THEN @[r] ELSE NoEvent]]
          /\ obj' = [obj EXCEPT ![c].running = (F # {}),
                 ![c].ev = [r \in Roles |-> Arriving(p, r)],
                 ![c].bc = [r \in Roles |-> IF <<r, "open">> \in F THEN @[r]
                                            ELSE [@[r] EXCEPT !.running = FALSE]]]
    BY DEF stop
  <1> DEFINE b == F # {}
  <1>2. obj'[c] = [p EXCEPT !.running = b, !.ev = [r \in Roles |-> Arriving(p, r)],
                      !.bc = [r \in Roles |-> IF <<r, "open">> \in F THEN p.bc[r]
                                              ELSE [p.bc[r] EXCEPT !.running = FALSE]]]
    BY <1>1 DEF IInv, ObjsOK
  <1>3. b \in BOOLEAN /\ \A r \in Roles : <<r, "route">> \in F => b
    OBVIOUS
  <1> HIDE DEF b
  <1>4. PICK o : o = obj'[c]
    OBVIOUS
  <1>5. /\ o.mod = p.mod /\ o.rsc = p.rsc /\ o.running = b /\ o.configured = p.configured
        /\ \A r \in Roles : o.bc[r].id = p.bc[r].id
        /\ \A r \in Roles : o.ev[r] = Arriving(p, r)
    <2>1. \A r \in Roles : o.bc[r] = IF <<r, "open">> \in F THEN p.bc[r]
                                     ELSE [p.bc[r] EXCEPT !.running = FALSE]
      BY <1>0, <1>2, <1>4 DEF ObjSet
    <2>2. \A r \in Roles : p.bc[r] \in [id : Channels \cup {NoChannel}, running : BOOLEAN]
      BY <1>0 DEF ObjSet
    <2>3. \A r \in Roles : o.bc[r].id = p.bc[r].id
      BY <2>1, <2>2
    <2> HIDE DEF p
    <2>4. \A r \in Roles : o.ev[r] = Arriving(p, r)
      BY <1>0, <1>2, <1>4 DEF ObjSet, p
    <2> QED
      BY <1>0, <1>2, <1>4, <2>3, <2>4 DEF ObjSet, p
  <1>6. \A r \in Roles : p.bc[r] = NoBC <=> p.bc[r].id = NoChannel
    BY <1>0, IdTells
  <1>7. \A r \in Roles : Crosses(p, r) => p.bc[r].id # NoChannel /\ p.bc[r].id \in Channels
    BY <1>0, <1>6 DEF HasChannels, Needing, ObjSet
  <1>8. Chosen(p) /\ Fitted(p) /\ Directed(p, bcast)
    BY DEF Wired
  <1>9. \A m \in Mods, ch \in Channels :
             bcast'[m][ch] = IF \E r \in Needing(p) : /\ <<r, "route">> \notin F
                                                      /\ p.mod[r] = m /\ p.bc[r].id = ch
                             THEN NoEvent ELSE bcast[m][ch]
    BY <1>1
  <1>10. \A k \in Counters : k # p.rsc => ctrl'[k] = ctrl[k]
    BY <1>0, <1>1
  <1>11. ASSUME NEW m \in Mods, NEW ch \in Channels,
                \A r \in Roles : p.bc[r].id # ch \/ p.bc[r] = NoBC
         PROVE  bcast'[m][ch] = bcast[m][ch]
    <2>1. ~\E r \in Needing(p) : <<r, "route">> \notin F /\ p.mod[r] = m /\ p.bc[r].id = ch
      BY <1>0, <1>11 DEF HasChannels, Needing
    <2> QED
      BY <1>9, <2>1
  <1>12. \A r \in Roles : p.bc[r].id # NoChannel => p.bc[r].id \in Channels
    BY <1>0 DEF ObjSet
  <1> HIDE DEF p
  <1>13. ASSUME NEW r \in Roles, Crosses(p, r)
         PROVE  o.ev[r].what \in Channels /\ o.ev[r] # NoEvent
    <2>1. o.ev[r] = Event(p.rsc[1], p.bc[r].id)
      BY <1>5, <1>13 DEF Arriving
    <2>2. o.ev[r].what = p.bc[r].id
      BY <2>1 DEF Event
    <2> QED
      BY <1>7, <1>13, <2>2, SizesAssumption DEF Channels, NoEvent, Event, None
  <1>14. \A r \in Roles : Crosses(p, r) => Crosses(o, r)
    BY <1>5, <1>13 DEF Crosses, Roles
  <1>15. \A r \in Roles : ~Crosses(p, r) => o.ev[r] = p.ev[r]
    BY <1>5 DEF Arriving
  <1>16. Chosen(o)
    BY <1>0, <1>5, <1>8, <1>13, <1>15 DEF Chosen, p
  <1>17. Fitted(o)
    BY <1>5, <1>8, <1>14 DEF Fitted
  <1>18. Directed(o, bcast')
    <2> SUFFICES ASSUME NEW r \in Roles, o.bc[r].id # NoChannel, NEW m \in Mods
                 PROVE  \/ bcast'[m][o.bc[r].id] = NoEvent
                        \/ m = o.mod[r] /\ (o.bc[r].running \/ o.running)
      BY DEF Directed
    <2>0. /\ p.bc[r].id # NoChannel /\ o.bc[r].id = p.bc[r].id /\ o.mod[r] = p.mod[r]
          /\ p.bc[r].id \in Channels /\ r \in Needing(p)
      BY <1>5, <1>8, <1>12 DEF Fitted, Needing
    <2>1. CASE m = p.mod[r] /\ <<r, "route">> \in F
      BY <1>3, <1>5, <2>0, <2>1
    <2>2. CASE m = p.mod[r] /\ <<r, "route">> \notin F
      BY <1>9, <2>0, <2>2
    <2>3. CASE m # p.mod[r]
      <3>1. bcast[m][p.bc[r].id] = NoEvent
        BY <1>8, <2>0, <2>3 DEF Directed
      <3> QED
        BY <1>9, <2>0, <3>1
    <2> QED
      BY <2>1, <2>2, <2>3
  <1>19. Connected(o, bcast', ctrl')
    <2>1. \A s \in Roles : Crosses(o, s) => Crosses(p, s)
      BY <1>5, <1>15 DEF Crosses, Roles
    <2>2. Needing(o) # {} => ~OfUser(o)
      <3>1. User \notin Channels /\ None \notin Channels
        BY SizesAssumption DEF Channels, User, None
      <3> QED
        BY <1>13, <2>1, <3>1 DEF Needing, OfUser
    <2> QED
      BY <2>2 DEF Connected
  <1> QED
    BY <1>0, <1>4, <1>10, <1>11, <1>16, <1>17, <1>18, <1>19 DEF Wired, p

(* What becomes free is silent.                                            *)
LEMMA ReleaseSilences ==
  ASSUME IInv, Silent, NEW c \in Objs, release(c), Wired(obj[c], bcast, ctrl)
  PROVE  Silent'
  <1> DEFINE p == obj[c]
  <1> DEFINE idle == { r \in Needing(p) : ~p.bc[r].running }
  <1> DEFINE back == {p.rsc} \cup { BC(p.bc[r].id) : r \in idle }
  <1> DEFINE stuck == OwnedBy(p) \ back
  <1>0. p \in ObjSet /\ Valid(p) /\ p.reserved /\ ~p.running
    BY DEF IInv, ObjsOK, release
  <1>1. used' = used \ (OwnedBy(p) \ stuck) /\ bcast' = bcast
    <2>1. used' = used \ back /\ bcast' = bcast
      BY DEF release
    <2>2. back \subseteq OwnedBy(p)
      BY <1>0 DEF OwnedBy, release, HasChannels, Needing
    <2> HIDE DEF back
    <2> QED
      BY <2>1, <2>2
  <1> SUFFICES ASSUME NEW ch \in Channels, BC(ch) \notin used', NEW m \in Mods
               PROVE  bcast[m][ch] = NoEvent
    BY <1>1 DEF Silent
  <1>2. CASE BC(ch) \notin used
    BY <1>2 DEF Silent
  <1>3. CASE BC(ch) \in OwnedBy(p) /\ BC(ch) \notin stuck
    <2>1. BC(ch) # p.rsc
      <3>1. p.rsc[1] \in Mods
        BY <1>0 DEF ObjSet, Counters
      <3> QED
        BY <3>1 DEF BC, Mods
    <2>2. PICK r \in idle : BC(ch) = BC(p.bc[r].id)
      BY <1>3, <2>1
    <2>3. ch = p.bc[r].id
      BY <2>2 DEF BC
    <2>4. r \in Roles /\ ~p.bc[r].running /\ p.bc[r] # NoBC
      BY <2>2 DEF release, HasChannels, Needing
    <2>5. p.bc[r].id # NoChannel
      BY <1>0, <2>4, IdTells
    <2> QED
      BY <1>0, <2>3, <2>4, <2>5 DEF Wired, Directed
  <1> QED
    BY <1>1, <1>2, <1>3

LEMMA RoutingStep ==
  ASSUME Strict, Told, IInv, Routing, [Next]_vars PROVE Routing'
  <1>0. /\ \A c \in Objs : Equipped(obj'[c])
        /\ \A c \in Objs : Wired(obj[c], bcast, ctrl)
        /\ Silent
    BY EquippedStep DEF Routing
  <1> DEFINE Goal == Silent' /\ \A d \in Objs : Wired(obj'[d], bcast', ctrl')
  <1>1. ASSUME UNCHANGED vars PROVE Goal
    BY <1>0, <1>1 DEF vars, Silent
  <1>2. ASSUME NEW c \in Objs,
               \/ setPreferredId(c) \/ initialize(c) \/ \E r \in Roles : ChangeEvent(c, r)
               \/ reserve(c) \/ release(c) \/ free(c)
        PROVE  Goal
    <2>1. UNCHANGED <<bcast, ctrl>> /\ \A d \in Objs : d # c => obj'[d] = obj[d]
      BY <1>2 DEF IInv, ObjsOK, setPreferredId, initialize, ChangeEvent, reserve, release, free
    <2>2. Wired(obj'[c], bcast', ctrl')
      BY <1>0, <1>2, InitializeWires, ChangeEventWires, ReserveWires, ReleaseWires
    <2>3. ASSUME NEW d \in Objs \ {c} PROVE Wired(obj'[d], bcast', ctrl')
      BY <1>0, <2>1
    <2>4. Silent'
      <3>1. CASE release(c)
        BY <1>0, <3>1, ReleaseSilences
      <3>2. CASE ~release(c)
        <4>1. used \subseteq used'
          BY <1>2, <3>2 DEF setPreferredId, initialize, ChangeEvent, reserve, free
        <4> QED
          BY <1>0, <2>1, <4>1 DEF Silent
      <3> QED
        BY <3>1, <3>2
    <2> QED
      BY <2>2, <2>3, <2>4
  <1>3. ASSUME NEW c \in Objs, start(c) \/ stop(c) PROVE Goal
    <2>1. used' = used /\ \A d \in Objs : d # c => obj'[d] = obj[d]
      BY <1>3 DEF IInv, ObjsOK, start, stop
    <2>2. /\ Wired(obj'[c], bcast', ctrl')
          /\ obj[c].reserved
          /\ \A k \in Counters : k # obj[c].rsc => ctrl'[k] = ctrl[k]
          /\ \A m \in Mods, ch \in Channels :
                (\A r \in Roles : obj[c].bc[r].id # ch \/ obj[c].bc[r] = NoBC)
                    => bcast'[m][ch] = bcast[m][ch]
      BY <1>0, <1>3, StartWires, StopWires
    <2>3. ASSUME NEW d \in Objs \ {c} PROVE Wired(obj'[d], bcast', ctrl')
      <3>1. \A m \in Mods, ch \in Channels :
                (\A r \in Roles : obj[c].bc[r].id # ch) => bcast'[m][ch] = bcast[m][ch]
        BY <2>2
      <3>2. Wired(obj[d], bcast', ctrl')
        BY <1>0, <2>2, <3>1, OthersWired
      <3> QED
        BY <2>1, <3>2
    <2>4. Silent'
      <3> SUFFICES ASSUME NEW ch \in Channels, BC(ch) \notin used, NEW m \in Mods
                   PROVE  bcast'[m][ch] = NoEvent
        BY <2>1 DEF Silent
      <3>1. \A r \in Roles : obj[c].bc[r].id # ch \/ obj[c].bc[r] = NoBC
        <4> SUFFICES ASSUME NEW r \in Roles, obj[c].bc[r].id = ch, obj[c].bc[r] # NoBC PROVE FALSE
          OBVIOUS
        <4>1. BC(ch) \in OwnedBy(obj[c])
          BY <2>2 DEF OwnedBy
        <4>2. OwnedBy(obj[c]) \subseteq used
          BY DEF IInv, Accounted
        <4> QED
          BY <4>1, <4>2
      <3> QED
        BY <1>0, <2>2, <3>1 DEF Silent
    <2> QED
      BY <2>2, <2>3, <2>4, <2>1
  <1>4. ASSUME NEW c \in Objs, ReserveFails(c) PROVE Goal
    BY <1>0, <1>4 DEF ReserveFails, Silent
  <1>5. Goal
    BY <1>1, <1>2, <1>3, <1>4, <1>0 DEF Next
  <1> QED
    BY <1>0, <1>5 DEF Routing

(* Whatever was started, stopped and released before, and whatever failed, *)
(* the events of a running counter reach it, and the module it counts in   *)
(* sends nothing on its channels, if a route of the stop event and the     *)
(* opening of a channel do not fail: the result of the one is not looked   *)
(* at, and after the other the route stays when the channel is released.   *)
THEOREM RunningCountersAreRoutedHolds ==
  ASSUME Strict, Told PROVE Spec => []RunningCountersAreRouted
  <1>1. Init => Routing
    <2> SUFFICES ASSUME Init PROVE Routing
      OBVIOUS
    <2>1. Silent
      BY DEF Init, Silent
    <2>2. \A c \in Objs : ~obj[c].reserved /\ ~obj[c].configured
      BY DEF Init
    <2>3. \A c \in Objs : obj[c] \in ObjSet /\ Valid(obj[c])
      BY InitHasIt DEF IInv, ObjsOK
    <2>4. \A c \in Objs : Wired(obj[c], bcast, ctrl) /\ Equipped(obj[c])
      BY <2>2, <2>3, IdleWired DEF Chosen, Equipped
    <2> QED
      BY <2>1, <2>4 DEF Routing
  <1>2. IInv /\ Routing /\ [Next]_vars => Routing'
    BY RoutingStep
  <1>3. IInv /\ Routing => RunningCountersAreRouted
    <2> SUFFICES ASSUME IInv, Routing, NEW c \in Objs, obj[c].running, Needing(obj[c]) # {},
                        \A r \in Roles : obj[c].ev[r].what \in {User, None}, NEW r \in Roles
                 PROVE  Reaches(obj[c], r)
      BY DEF RunningCountersAreRouted
    <2>1. Connected(obj[c], bcast, ctrl) /\ Directed(obj[c], bcast) /\ OfUser(obj[c])
      BY DEF Routing, Wired, OfUser
    <2>2. CASE ~Crosses(obj[c], r)
      BY <2>1, <2>2 DEF Reaches, Connected
    <2>3. CASE Crosses(obj[c], r)
      <3>1. /\ obj[c].bc[r].running
            /\ ctrl[obj[c].rsc][r] = Event(obj[c].rsc[1], obj[c].bc[r].id)
            /\ bcast[obj[c].mod[r]][obj[c].bc[r].id] = obj[c].ev[r]
        BY <2>1, <2>3 DEF Connected
      <3>2. obj[c].bc[r].id # NoChannel /\ obj[c].rsc[1] \in Mods
        BY <3>1 DEF IInv, ObjsOK, Valid, ObjSet, Counters
      <3>3. obj[c].rsc[1] # obj[c].mod[r]
        BY <2>3 DEF Crosses
      <3>4. bcast[obj[c].rsc[1]][obj[c].bc[r].id] = NoEvent
        BY <2>1, <3>2, <3>3 DEF Directed
      <3> QED
        BY <2>3, <3>1, <3>4 DEF Reaches
    <2> QED
      BY <2>2, <2>3
  <1> QED
    BY <1>1, <1>2, <1>3, Invariant, PTL DEF Spec
=============================================================================
