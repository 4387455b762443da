------------------------- MODULE ErrBacktrack_proofs -------------------------
(***************************************************************************)
(* What the backtracking of error interrupts guarantees for every array,   *)
(* every set of errors and every sequence of buffer sizes: no error is     *)
(* reported twice, reported errors are disabled when a call returns, and,  *)
(* as long as no error occurs in a module while it is examined, the status *)
(* of a group event is cleared only after its errors were reported.  And   *)
(* the routes of the broadcasts are what the backtracking takes them for.  *)
(***************************************************************************)
EXTENDS ErrBacktrack, TLAPS

\* The points of _XAie_LBacktrackTile at which the local map is ahead of the
\* register of enabled errors.
Scanning == pc \in {"ReadEvents", "BufferFull"}

Types ==
    /\ active \subseteq Errors /\ enables \subseteq Errors
    /\ Value \subseteq Errors /\ ErrorsMap \subseteq Errors
    /\ reports \in [Errors -> Nat]

\* The local map holds enabled errors of the module that is examined, and
\* what it lacks was reported.
MapIsExamined ==
    Scanning => /\ Value \subseteq ErrorsMap /\ ErrorsMap \subseteq enables
                /\ \A e \in ErrorsMap : ModuleOf(e) = Examined
                /\ \A e \in enables : ModuleOf(e) = Examined => e \in ErrorsMap \/ reports[e] = 1

\* A reported error is disabled, or about to be.
ReportedLeaves ==
    \A e \in Errors : reports[e] # 0 =>
        /\ reports[e] = 1
        /\ e \notin enables \/ (Scanning /\ ModuleOf(e) = Examined /\ e \notin ErrorsMap)

\* Only reported errors are disabled.
DisabledAreReported == \A e \in Errors : e \notin enables => reports[e] = 1

IInv == Types /\ MapIsExamined /\ ReportedLeaves /\ DisabledAreReported

\* The active errors of the module that is examined were reported or have
\* still to be looked at.
ExaminedAreReported ==
    /\ pc = "ReadEvents" => \A e \in active :
            ModuleOf(e) = Examined => reports[e] = 1 \/ e \in Value
    /\ pc = "ClearGroup" => \A e \in active : ModuleOf(e) = Examined => reports[e] = 1

\* What the examined module depends on.
place == <<todo, l2, Row, Module>>

LEMMA SamePlace == place' = place => Examined' = Examined
  BY DEF place, Examined, L1Col

\* Steps outside of the examination of a module keep the invariant if they
\* leave the errors alone.
LEMMA OutsideScan ==
  ASSUME IInv, UNCHANGED <<enables, reports>>, active' \subseteq Errors,
         ~Scanning, pc' \notin {"ReadEvents", "BufferFull"},
         Value' \subseteq Errors, ErrorsMap' \subseteq Errors
  PROVE  IInv'
  BY DEF IInv, Types, MapIsExamined, ReportedLeaves, DisabledAreReported, Scanning

\* So do steps that happen elsewhere while a module is examined.
LEMMA Elsewhere ==
  ASSUME IInv, UNCHANGED <<enables, reports, pc, Value, ErrorsMap>>, active' \subseteq Errors,
         place' = place
  PROVE  IInv'
  <1>1. Examined' = Examined
    BY SamePlace
  <1> QED
    BY <1>1 DEF IInv, Types, MapIsExamined, ReportedLeaves, DisabledAreReported, Scanning

\* An error that is reported leaves the local map.
LEMMA ReadEventStep == IInv /\ ReadEvent => IInv'
  <1> SUFFICES ASSUME IInv, ReadEvent PROVE IInv'
    OBVIOUS
  <1>1. Examined' = Examined
    BY SamePlace DEF ReadEvent, place, channel, walk
  <1>2. UNCHANGED <<enables, active>> /\ Scanning
    BY DEF ReadEvent, array, Scanning
  <1>3. PICK e \in Value : /\ Value' = Value \ {e}
                           /\ IF e \in active
                              THEN /\ ErrorsMap' = ErrorsMap \ {e}
                                   /\ reports' = [reports EXCEPT ![e] = @ + 1]
                                   /\ pc' \in {"ReadEvents", "BufferFull"}
                              ELSE UNCHANGED <<ErrorsMap, reports, pc>>
    BY DEF ReadEvent
  <1>4. e \in Errors /\ e \in ErrorsMap /\ e \in enables /\ ModuleOf(e) = Examined
    BY <1>2, <1>3 DEF IInv, Types, MapIsExamined
  <1>5. reports[e] = 0
    BY <1>4 DEF IInv, Types, ReportedLeaves
  <1>6. CASE e \in active
    <2>1. reports' = [reports EXCEPT ![e] = 1] /\ ErrorsMap' = ErrorsMap \ {e} /\ Scanning'
      BY <1>3, <1>5, <1>6 DEF Scanning
    <2>2. \A f \in Errors : reports'[f] = IF f = e THEN 1 ELSE reports[f]
      BY <2>1 DEF IInv, Types
    <2>3. Types'
      BY <1>2, <1>3, <2>1 DEF IInv, Types
    <2>4. MapIsExamined'
      BY <1>1, <1>2, <1>3, <2>1, <2>2 DEF IInv, Types, MapIsExamined
    <2>5. ReportedLeaves'
      BY <1>1, <1>2, <1>4, <2>1, <2>2 DEF IInv, ReportedLeaves
    <2>6. DisabledAreReported'
      BY <1>2, <2>2 DEF IInv, DisabledAreReported
    <2> QED
      BY <2>3, <2>4, <2>5, <2>6 DEF IInv
  <1>7. CASE e \notin active
    <2>1. UNCHANGED <<ErrorsMap, reports, pc>> /\ Value' = Value \ {e}
      BY <1>3, <1>7
    <2> QED
      BY <1>1, <1>2, <2>1 DEF IInv, Types, MapIsExamined, ReportedLeaves, DisabledAreReported,
                              Scanning
  <1> QED
    BY <1>6, <1>7

\* Writing the local map back to the group disables exactly what was reported.
LEMMA WriteBack ==
  ASSUME IInv, Scanning, GroupErrorControl, UNCHANGED <<active, reports>>,
         pc' \notin {"ReadEvents", "BufferFull"},
         Value' \subseteq Errors, ErrorsMap' \subseteq Errors
  PROVE  IInv'
  <1>1. \A e \in Errors : e \in enables' <=>
            e \in enables /\ (ModuleOf(e) = Examined => e \in ErrorsMap)
    BY DEF GroupErrorControl, IInv, MapIsExamined
  <1>2. enables' \subseteq Errors
    BY DEF GroupErrorControl, IInv, Types
  <1>3. Types' /\ MapIsExamined'
    BY <1>2 DEF IInv, Types, MapIsExamined, Scanning
  <1>4. ReportedLeaves'
    BY <1>1 DEF IInv, ReportedLeaves
  <1>5. DisabledAreReported'
    BY <1>1 DEF IInv, Types, MapIsExamined, DisabledAreReported
  <1> QED
    BY <1>3, <1>4, <1>5 DEF IInv

\* The other steps of the backtracking.
LEMMA BacktrackStepKeepsIt == IInv /\ BacktrackStep => IInv'
  <1> SUFFICES ASSUME IInv, BacktrackStep PROVE IInv'
    OBVIOUS
  <1>0. Types
    BY DEF IInv
  <1>1. CASE Backtrack \/ ReadL2Mask \/ ReadL1Status \/ AckShim \/ AckBroadcast
    <2>1. UNCHANGED <<enables, reports, active, Value, ErrorsMap>> /\ ~Scanning
      BY <1>1 DEF Backtrack, ReadL2Mask, ReadL1Status, AckShim, AckBroadcast, array, scan, Scanning
    <2>2. pc' \notin {"ReadEvents", "BufferFull"}
      BY <1>1 DEF Backtrack, ReadL2Mask, NextL2, ReadL1Status, AfterShim, AckShim, AckBroadcast, GoUp
    <2> QED
      BY <1>0, <2>1, <2>2, OutsideScan DEF Types
  <1>2. CASE ReadGroup \/ ReadBroadcast \/ ClearBroadcast \/ ClearGroup
    <2>1. UNCHANGED <<enables, reports, active>> /\ ~Scanning
      BY <1>2 DEF ReadGroup, ReadBroadcast, ClearBroadcast, ClearGroup, array, Scanning
    <2>2. pc' \notin {"ReadEvents", "BufferFull"}
      BY <1>2 DEF ReadGroup, ReadBroadcast, ClearBroadcast, ClearGroup, Examination, AfterShim, GoUp
    <2>3. Value' \subseteq Errors /\ ErrorsMap' \subseteq Errors
      BY <1>0, <1>2 DEF ReadGroup, ReadBroadcast, ClearBroadcast, ClearGroup, scan, Types
    <2> QED
      BY <1>0, <2>1, <2>2, <2>3, OutsideScan DEF Types
  <1>3. CASE ChannelDone \/ EnableDone \/ EnableL2 \/ Return
    <2>1. UNCHANGED <<enables, reports, active>> /\ ~Scanning
      BY <1>3 DEF ChannelDone, EnableDone, EnableL2, Return, array, Scanning
    <2>2. pc' \notin {"ReadEvents", "BufferFull"}
      BY <1>3 DEF ChannelDone, EnableDone, EnableL2, NextL2, Return
    <2>3. Value' \subseteq Errors /\ ErrorsMap' \subseteq Errors
      BY <1>0, <1>3 DEF ChannelDone, EnableDone, EnableL2, Return, OutOfScope, scan, Types
    <2> QED
      BY <1>0, <2>1, <2>2, <2>3, OutsideScan DEF Types
  <1>4. CASE ReadGroupErrors
    <2>1. Examined' = Examined
      BY <1>4, SamePlace DEF ReadGroupErrors, place, channel, walk
    <2>2. UNCHANGED <<enables, reports, active>> /\ pc = "ReadGroupErrors" /\ pc' = "ReadEvents"
      BY <1>4 DEF ReadGroupErrors, array
    <2>3. Value' = {e \in enables : ModuleOf(e) = Examined} /\ ErrorsMap' = Value'
      BY <1>4 DEF ReadGroupErrors
    <2>4. Types' /\ MapIsExamined' /\ DisabledAreReported'
      BY <2>1, <2>2, <2>3 DEF IInv, Types, MapIsExamined, DisabledAreReported
    <2>5. ReportedLeaves'
      BY <2>2 DEF IInv, ReportedLeaves, Scanning
    <2> QED
      BY <2>4, <2>5 DEF IInv
  <1>5. CASE ReadEvent
    BY <1>5, ReadEventStep
  <1>6. CASE BufferFull
    <2>1. Scanning /\ GroupErrorControl /\ UNCHANGED <<active, reports>> /\ pc' = "EnableDone"
      BY <1>6 DEF BufferFull, Scanning
    <2>2. Value' \subseteq Errors /\ ErrorsMap' \subseteq Errors
      BY <1>6 DEF BufferFull, OutOfScope
    <2> QED
      BY <2>1, <2>2, WriteBack
  <1>7. CASE DisableReported
    <2>1. Scanning /\ GroupErrorControl /\ UNCHANGED <<active, reports>> /\ pc' = "ClearGroup"
      BY <1>7 DEF DisableReported, Scanning
    <2>2. Value' \subseteq Errors /\ ErrorsMap' \subseteq Errors
      BY <1>0, <1>7 DEF DisableReported, scan, Types
    <2> QED
      BY <2>1, <2>2, WriteBack
  <1> QED
    BY <1>1, <1>2, <1>3, <1>4, <1>5, <1>6, <1>7 DEF BacktrackStep

LEMMA NextKeepsIt == IInv /\ [Next]_vars => IInv'
  <1> SUFFICES ASSUME IInv, [Next]_vars PROVE IInv'
    OBVIOUS
  <1>0. Types
    BY DEF IInv
  <1>1. CASE BacktrackStep
    BY <1>1, BacktrackStepKeepsIt
  <1>2. CASE \E e \in Errors : Raise(e)
    <2>1. active' \subseteq Errors
      BY <1>0, <1>2 DEF Raise, Types
    <2>2. UNCHANGED <<enables, reports, pc, Value, ErrorsMap>> /\ place' = place
      BY <1>2 DEF Raise, channel, walk, scan, place
    <2> QED
      BY <2>1, <2>2, Elsewhere
  <1>3. CASE \E s \in signals : Arrive(s)
    <2>1. UNCHANGED <<active, enables, reports, pc, Value, ErrorsMap>> /\ place' = place
      BY <1>3 DEF Arrive, PassModule, ReachL1, channel, walk, scan, place
    <2> QED
      BY <1>0, <2>1, Elsewhere DEF Types
  <1>4. CASE Isr
    <2>1. UNCHANGED <<active, enables, reports, pc, Value, ErrorsMap>> /\ place' = place
      BY <1>4 DEF Isr, TakeInterrupt, ReadL2Status, DisableL2, AckL2, array, channel, walk, scan, place
    <2> QED
      BY <1>0, <2>1, Elsewhere DEF Types
  <1>5. CASE UNCHANGED vars
    <2>1. UNCHANGED <<active, enables, reports, pc, Value, ErrorsMap>> /\ place' = place
      BY <1>5 DEF vars, array, channel, walk, scan, place
    <2> QED
      BY <1>0, <2>1, Elsewhere DEF Types
  <1> QED
    BY <1>1, <1>2, <1>3, <1>4, <1>5 DEF Next

LEMMA InitHasIt == Init => IInv
  BY DEF Init, IInv, Types, MapIsExamined, ReportedLeaves, DisabledAreReported, Scanning

LEMMA Invariant == Spec => []IInv
  BY InitHasIt, NextKeepsIt, PTL DEF Spec

\* "Any active error can be backtracked only once", for every array, set of
\* errors, buffer size and interleaving with the handler and with new errors.
THEOREM BacktrackedOnceHolds == Spec => []BacktrackedOnce
  <1>1. IInv => BacktrackedOnce
    BY DEF IInv, Types, ReportedLeaves, BacktrackedOnce
  <1> QED
    BY <1>1, Invariant, PTL

\* Whenever a call of XAie_BacktrackErrorInterrupts has returned, complete or
\* for lack of space, the errors it reported are disabled in their groups.
THEOREM ReportedErrorsAreDisabledHolds == Spec => []ReportedErrorsAreDisabled
  <1>1. IInv => ReportedErrorsAreDisabled
    BY DEF IInv, Types, ReportedLeaves, ReportedErrorsAreDisabled, Scanning
  <1> QED
    BY <1>1, Invariant, PTL

----------------------------------------------------------------------------
(* The status of the group event. *)

Exclusive == "scan" \notin Racing

LEMMA ExaminedStep ==
  ASSUME Exclusive, IInv, ExaminedAreReported, [Next]_vars PROVE ExaminedAreReported'
  <1>0. Types
    BY DEF IInv
  <1>1. CASE ReadGroupErrors
    <2>1. Examined' = Examined
      BY <1>1, SamePlace DEF ReadGroupErrors, place, channel, walk
    <2>2. UNCHANGED <<reports, active>> /\ pc' = "ReadEvents"
      BY <1>1 DEF ReadGroupErrors, array
    <2>3. Value' = {e \in enables : ModuleOf(e) = Examined}
      BY <1>1 DEF ReadGroupErrors
    <2> QED
      BY <1>0, <2>1, <2>2, <2>3 DEF IInv, Types, DisabledAreReported, ExaminedAreReported
  <1>2. CASE ReadEvent
    <2>1. Examined' = Examined
      BY <1>2, SamePlace DEF ReadEvent, place, channel, walk
    <2>2. UNCHANGED active /\ pc = "ReadEvents"
      BY <1>2 DEF ReadEvent, array
    <2>3. PICK e \in Value : /\ Value' = Value \ {e}
                             /\ IF e \in active
                                THEN reports' = [reports EXCEPT ![e] = @ + 1]
                                ELSE UNCHANGED reports
      BY <1>2 DEF ReadEvent
    <2>4. e \in Errors
      BY <1>0, <2>3 DEF Types
    <2>5. e \in active => reports[e] = 0 /\ reports'[e] = 1
      BY <1>0, <2>2, <2>3, <2>4 DEF IInv, Types, MapIsExamined, ReportedLeaves, Scanning
    <2>6. \A f \in Errors \ {e} : reports'[f] = reports[f]
      BY <1>0, <2>3 DEF Types
    <2>7. pc' \in {"ReadEvents", "BufferFull"}
      BY <1>2 DEF ReadEvent
    <2> QED
      BY <1>0, <2>1, <2>2, <2>3, <2>5, <2>6, <2>7 DEF Types, ExaminedAreReported
  <1>3. CASE DisableReported
    <2>1. Examined' = Examined
      BY <1>3, SamePlace DEF DisableReported, place, channel, walk
    <2>2. UNCHANGED <<reports, active>> /\ pc = "ReadEvents" /\ Value = {} /\ pc' = "ClearGroup"
      BY <1>3 DEF DisableReported
    <2> QED
      BY <2>1, <2>2 DEF ExaminedAreReported
  <1>4. CASE BacktrackStep /\ ~ReadGroupErrors /\ ~ReadEvent /\ ~DisableReported
    <2>1. pc' \notin {"ReadEvents", "ClearGroup"}
      BY <1>4 DEF BacktrackStep, Backtrack, ReadL2Mask, NextL2, ReadL1Status, AfterShim, AckShim,
                  AckBroadcast, GoUp, ReadGroup, BufferFull, ClearGroup, Examination,
                  ReadBroadcast, ClearBroadcast, ChannelDone, EnableDone, EnableL2, Return
    <2> QED
      BY <2>1 DEF ExaminedAreReported
  <1>5. CASE \E e \in Errors : Raise(e)
    <2>1. PICK e \in Errors : Raise(e)
      BY <1>5
    <2>2. UNCHANGED <<pc, Value, reports>> /\ place' = place /\ active' = active \cup {e}
      BY <2>1 DEF Raise, channel, walk, scan, place
    <2>3. pc \in {"ReadEvents", "ClearGroup"} => Examined # ModuleOf(e)
      BY <2>1 DEF Raise, Examining, Exclusive
    <2> QED
      BY <2>2, <2>3, SamePlace DEF ExaminedAreReported
  <1>6. CASE (\E s \in signals : Arrive(s)) \/ Isr \/ UNCHANGED vars
    <2>1. UNCHANGED <<active, reports, pc, Value>> /\ place' = place
      BY <1>6 DEF Arrive, PassModule, ReachL1, Isr, TakeInterrupt, ReadL2Status, DisableL2, AckL2,
                  vars, array, channel, walk, scan, place
    <2> QED
      BY <2>1, SamePlace DEF ExaminedAreReported
  <1> QED
    BY <1>1, <1>2, <1>3, <1>4, <1>5, <1>6 DEF Next

\* Only ClearGroup takes a module out of the group events, and only the one
\* that is examined.
LEMMA OnlyClearGroup ==
  ASSUME [Next]_vars, NEW n \in group, n \notin group'
  PROVE  pc = "ClearGroup" /\ n = Examined
  <1>1. CASE ClearGroup
    BY <1>1 DEF ClearGroup
  <1>2. CASE BacktrackStep /\ ~ClearGroup
    BY <1>2 DEF BacktrackStep, Backtrack, ReadL2Mask, ReadL1Status, AckShim,
                AckBroadcast, ReadGroup, ReadGroupErrors, ReadEvent, BufferFull, DisableReported,
                ReadBroadcast, ClearBroadcast, ChannelDone, EnableDone, EnableL2, Return, array
  <1>3. CASE \E e \in Errors : Raise(e)
    BY <1>3 DEF Raise
  <1>4. CASE (\E s \in signals : Arrive(s)) \/ Isr \/ UNCHANGED vars
    BY <1>4 DEF Arrive, PassModule, ReachL1, Isr, TakeInterrupt, ReadL2Status, DisableL2, AckL2,
                vars, array
  <1> QED
    BY <1>1, <1>2, <1>3, <1>4 DEF Next

\* The comment in _XAie_LBacktrackTile, "Clear group error event status only if
\* all active errors were backtracked and disabled", for every array and every
\* sequence of calls, as long as no error occurs in the module between the
\* reading of its statuses and the clearing.
THEOREM GroupClearedWhenBacktrackedHolds ==
  ASSUME Exclusive PROVE Spec => GroupClearedWhenBacktracked
  <1>1. Init => ExaminedAreReported
    BY DEF Init, ExaminedAreReported
  <1>2. IInv /\ ExaminedAreReported /\ [Next]_vars => ExaminedAreReported'
    BY ExaminedStep
  <1>3. IInv /\ ExaminedAreReported /\ [Next]_vars =>
          [\A m \in group \ group' : \A e \in active : ModuleOf(e) = m => reports[e] > 0]_vars
    BY OnlyClearGroup DEF ExaminedAreReported
  <1> QED
    BY <1>1, <1>2, <1>3, Invariant, PTL DEF Spec, GroupClearedWhenBacktracked
----------------------------------------------------------------------------
(* The types. *)

\* While modules are examined there is space left in the buffer.
RoomLeft ==
    pc \notin {"Idle", "BufferFull", "EnableDone", "Insufficient"} => room > 0

Others ==
    /\ group \subseteq Modules /\ todo \subseteq Channels
    /\ room \in Nat /\ RoomLeft
    /\ wake \in BOOLEAN /\ IsNextInfoValid \in BOOLEAN

LEMMA OthersStep ==
  ASSUME ErrorsAssumption, Others, [Next]_vars PROVE Others'
  <1> USE DEF Others, RoomLeft, array, handler, channel, walk, scan, meta, next
  <1>1. CASE Backtrack
    <2>1. UNCHANGED <<group, todo, IsNextInfoValid>> /\ room' \in Sizes
      BY <1>1 DEF Backtrack
    <2>2. room' \in Nat /\ room' > 0
      BY <2>1 DEF ErrorsAssumption
    <2>3. wake' \in BOOLEAN
      BY <1>1, Zenon DEF Backtrack
    <2> QED
      BY <2>1, <2>2, <2>3, Zenon
  <1>12. CASE ReadL2Mask
    <2>1. UNCHANGED <<group, room, wake, IsNextInfoValid>> /\ todo' = Disabled(l2) /\ pc = "ReadL2Mask"
      BY <1>12 DEF ReadL2Mask
    <2> QED
      BY <2>1 DEF Disabled
  <1>2. CASE ReadL1Status \/ AckShim \/ AckBroadcast \/ ReadGroup
    BY <1>2 DEF ReadL1Status, AfterShim, AckShim, AckBroadcast, GoUp, ReadGroup, Examination
  <1>3. CASE ReadEvent
    <2>1. UNCHANGED <<group, todo, wake, IsNextInfoValid>> /\ pc = "ReadEvents"
      BY <1>3 DEF ReadEvent
    <2>2. \/ room' = room - 1 /\ pc' = IF IsFull(room') THEN "BufferFull" ELSE pc
          \/ UNCHANGED <<room, pc>>
      BY <1>3 DEF ReadEvent
    <2> QED
      BY <2>1, <2>2 DEF IsFull
  <1>4. CASE ReadGroupErrors \/ DisableReported \/ ReadBroadcast
    BY <1>4 DEF ReadGroupErrors, DisableReported, ReadBroadcast
  <1>11. CASE BufferFull
    <2>1. UNCHANGED <<group, room, wake>> /\ todo' = {} /\ pc' = "EnableDone" /\ IsNextInfoValid' = TRUE
      BY <1>11 DEF BufferFull
    <2> QED
      BY <2>1
  <1>5. CASE ClearGroup \/ ClearBroadcast \/ ChannelDone
    BY <1>5 DEF ClearGroup, Examination, AfterShim, ClearBroadcast, GoUp, ChannelDone, OutOfScope
  <1>6. CASE EnableDone \/ EnableL2
    BY <1>6 DEF EnableDone, EnableL2, NextL2
  <1>10. CASE Return
    <2>1. UNCHANGED <<group, todo, wake>> /\ room' = 0 /\ pc' = "Idle" /\ IsNextInfoValid' = FALSE
      BY <1>10 DEF Return
    <2> QED
      BY <2>1
  <1>7. CASE \E e \in Errors : Raise(e)
    BY <1>7 DEF Raise, ErrorsAssumption
  <1>8. CASE (\E s \in signals : Arrive(s)) \/ UNCHANGED vars
    BY <1>8 DEF Arrive, PassModule, ReachL1, vars
  <1>9. CASE Isr
    BY <1>9 DEF Isr, TakeInterrupt, ReadL2Status, DisableL2, AckL2, NextDisable
  <1> QED
    BY <1>1, <1>2, <1>3, <1>4, <1>5, <1>6, <1>7, <1>8, <1>9, <1>10, <1>11, <1>12
    DEF Next, BacktrackStep

\* The variables stay in the sets the code gives them: the payload buffer is
\* never filled beyond its end.
THEOREM TypeOKHolds == Spec => []TypeOK
  <1> USE ErrorsAssumption
  <1>1. Init => Others
    <2> SUFFICES ASSUME Init PROVE Others
      OBVIOUS
    <2>1. group = {} /\ todo = {} /\ room = 0 /\ pc = "Idle"
          /\ wake = FALSE /\ IsNextInfoValid = FALSE
      BY DEF Init
    <2> QED
      BY <2>1 DEF Others, RoomLeft
  <1>2. Others /\ [Next]_vars => Others'
    BY OthersStep
  <1>3. IInv /\ Others => TypeOK
    BY DEF TypeOK, IInv, Types, Others
  <1> QED
    BY <1>1, <1>2, <1>3, Invariant, PTL DEF Spec

----------------------------------------------------------------------------
\* Broadcasts run in columns of the device, on one of the two switches.
Broadcast == [col : 0..NumCols-1, sw : Switches, row : Int, kind : {"shim", "broadcast"}]

LEMMA BroadcastsOfErrors ==
  ASSUME NEW e \in Errors PROVE Broadcasts(ModuleOf(e)) \subseteq Broadcast
  <1> DEFINE n == ModuleOf(e)
  <1>1. n \in Modules
    BY ErrorsAssumption
  <1> HIDE DEF n
  <1>2. n.col \in 0..NumCols-1 /\ n.row - 1 \in Int
    <2>1. n.row \in Int
      <3>1. n.row \in {ShimRow} \cup MemRows \cup AieRows
        BY <1>1 DEF Modules
      <3>2. \A r \in MemRows \cup AieRows : r \in Nat
        BY ErrorsAssumption
      <3>3. CASE n.row = ShimRow
        BY <3>3 DEF ShimRow
      <3>4. CASE n.row \in MemRows \cup AieRows
        BY <3>2, <3>4
      <3> QED
        BY <3>1, <3>3, <3>4
    <2> QED
      BY <1>1, <2>1 DEF Modules
  <1>3. SwitchesOf(n) \subseteq Switches
    BY DEF SwitchesOf, Switches
  <1>4. Broadcasts(n) \subseteq Broadcast
    <2>1. CASE n.mod = "PL"
      BY <1>2, <2>1 DEF Broadcasts, Broadcast, Switches, ShimRow
    <2>2. CASE n.mod # "PL"
      BY <1>2, <1>3, <2>2 DEF Broadcasts, Broadcast
    <2> QED
      BY <2>1, <2>2
  <1> QED
    BY <1>4 DEF n

LEMMA SignalsStep ==
  ASSUME signals \subseteq Broadcast, [Next]_vars PROVE signals' \subseteq Broadcast
  <1>1. ASSUME NEW e \in Errors, Raise(e) PROVE signals' \subseteq Broadcast
    BY <1>1, BroadcastsOfErrors DEF Raise
  <1>2. ASSUME NEW s \in signals, Arrive(s) PROVE signals' \subseteq Broadcast
    <2>1. s \in Broadcast
      OBVIOUS
    <2>2. [s EXCEPT !.row = @ - 1] \in Broadcast
      BY <2>1 DEF Broadcast
    <2> QED
      BY <1>2, <2>2 DEF Arrive, PassModule, ReachL1
  <1>3. CASE Isr
    BY <1>3 DEF Isr, TakeInterrupt, ReadL2Status, DisableL2, AckL2, array
  <1>4. CASE BacktrackStep
    BY <1>4 DEF BacktrackStep, Backtrack, ReadL2Mask, ReadL1Status, AckShim, AckBroadcast,
                ReadGroup, ReadGroupErrors, ReadEvent, BufferFull, DisableReported, ClearGroup,
                ReadBroadcast, ClearBroadcast, ChannelDone, EnableDone, EnableL2, Return, array
  <1>5. CASE UNCHANGED vars
    BY <1>5 DEF vars, array
  <1> QED
    BY <1>1, <1>2, <1>3, <1>4, <1>5 DEF Next

\* The controller of a column: its own, that of the next two columns on the
\* right, or, for the two columns at the right edge, the one on their left.
LEMMA L2OfColumn ==
  ASSUME NumCols \in Nat, NumCols % 4 = 2, NumCols > 2, NEW col \in 0..NumCols-1
  PROVE  L2Of(col) = IF IsNoc(col) THEN col
                     ELSE IF col + 2 < NumCols THEN (col \div 4) * 4 + 2 ELSE NumCols - 3
  <1> DEFINE noc == {c \in 0..NumCols-1 : IsNoc(c)}
             right == {c \in noc : c >= col}
  <1>1. CASE IsNoc(col)
    <2>1. col \in right /\ \A c \in right : col <= c /\ c \in Int
      BY <1>1
    <2>2. Min(right) = col
      BY <2>1 DEF Min
    <2> QED
      BY <1>1, <2>1, <2>2 DEF L2Of
  <1>2. CASE ~IsNoc(col) /\ col + 2 < NumCols
    <2> DEFINE d == (col \div 4) * 4 + 2
    <2>1. d \in 0..NumCols-1 /\ d % 4 = 2 /\ col <= d
      BY <1>2 DEF IsNoc
    <2>2. \A c \in 0..NumCols-1 : c >= col /\ c < d => c % 4 \notin {2, 3}
      BY <1>2 DEF IsNoc
    <2>3. d \in right /\ \A c \in right : d <= c /\ c \in Int
      BY <2>1, <2>2 DEF IsNoc
    <2> HIDE DEF d
    <2>4. Min(right) = d
      BY <2>1, <2>3 DEF Min
    <2> QED
      BY <1>2, <2>3, <2>4 DEF L2Of, d
  <1>3. CASE ~IsNoc(col) /\ ~(col + 2 < NumCols)
    <2>1. NumCols - 3 \in 0..NumCols-1 /\ (NumCols - 3) % 4 = 3 /\ NumCols - 3 < col
      BY <1>3 DEF IsNoc
    <2>2. \A c \in 0..NumCols-1 : c > NumCols - 3 => c % 4 \notin {2, 3}
      OBVIOUS
    <2>3. right = {} /\ NumCols - 3 \in noc
      BY <2>1, <2>2 DEF IsNoc
    <2>4. \A c \in noc : NumCols - 3 >= c /\ c \in Int
      BY <2>2 DEF IsNoc
    <2>5. Max(noc) = NumCols - 3
      BY <2>3, <2>4 DEF Max
    <2> QED
      BY <1>3, <2>3, <2>5 DEF L2Of
  <1> QED
    BY <1>1, <1>2, <1>3

LEMMA RouteAndBack ==
  ASSUME NumCols \in Nat, NumCols % 4 = 2, NumCols > 2, Gen \in {"AIE", "AIEML"},
         NEW col \in 0..NumCols-1, NEW sw \in {0, 1}
  PROVE  MapL2MaskToL1(L1IrqId(Gen, col, sw), L2Of(col)) = <<col, sw>>
  <1>1. CASE col % 4 = 2
    <2>1. L2Of(col) = col /\ col % 2 = 0
      BY <1>1, L2OfColumn DEF IsNoc
    <2>2. L1IrqId(Gen, col, sw) = 4 + sw
      BY <1>1 DEF L1IrqId, IsNoc
    <2>3. ~(col + 3 >= NumCols) /\ ((4 + sw) % 6) \div 2 = 2 /\ ((4 + sw) % 6) % 2 = sw
      BY <1>1
    <2> QED
      BY <2>1, <2>2, <2>3 DEF MapL2MaskToL1
  <1>2. CASE col % 4 = 3
    <2>1. L2Of(col) = col /\ col % 2 = 1
      BY <1>2, L2OfColumn DEF IsNoc
    <2>2. L1IrqId(Gen, col, sw) = sw
      BY <1>2 DEF L1IrqId, IsNoc
    <2>3. (sw % 6) \div 2 = 0 /\ (sw % 6) % 2 = sw
      OBVIOUS
    <2> QED
      BY <2>1, <2>2, <2>3 DEF MapL2MaskToL1
  <1>3. CASE col % 4 \in {0, 1} /\ col + 2 < NumCols
    <2> DEFINE r == col % 4
               d == col - r + 2
    <2>1. L2Of(col) = d /\ d % 2 = 0 /\ d + 3 < NumCols
      <3>1. ~IsNoc(col) /\ (col \div 4) * 4 = col - r
        BY <1>3 DEF IsNoc
      <3>2. d % 2 = 0 /\ d + 3 < NumCols
        BY <1>3
      <3> QED
        BY <1>3, <3>1, <3>2, L2OfColumn
    <2>2. L1IrqId(Gen, col, sw) = r * 2 + sw
      <3>1. (r % 3) = r /\ ~(col + 3 > NumCols) /\ ~IsNoc(col) /\ (col \div 4) * 4 + 2 < NumCols
        BY <1>3 DEF IsNoc
      <3> QED
        BY <1>3, <3>1 DEF L1IrqId
    <2>3. ((r * 2 + sw) % 6) \div 2 = r /\ ((r * 2 + sw) % 6) % 2 = sw
      BY <1>3
    <2> QED
      BY <1>3, <2>1, <2>2, <2>3 DEF MapL2MaskToL1
  <1>4. CASE col % 4 \in {0, 1} /\ ~(col + 2 < NumCols)
    <2> DEFINE r == col % 4
    <2>1. L2Of(col) = NumCols - 3 /\ col = NumCols - 2 + r
      BY <1>4, L2OfColumn DEF IsNoc
    <2>2. L1IrqId(Gen, col, sw) = r * 2 + sw + 2
      <3>1. (r % 3) = r /\ col + 3 > NumCols /\ ~IsNoc(col) /\ ~((col \div 4) * 4 + 2 < NumCols)
        BY <1>4 DEF IsNoc
      <3> QED
        BY <1>4, <3>1 DEF L1IrqId
    <2>3. ((r * 2 + sw + 2) % 6) \div 2 = r + 1 /\ ((r * 2 + sw + 2) % 6) % 2 = sw
      BY <1>4
    <2> QED
      BY <1>4, <2>1, <2>2, <2>3 DEF MapL2MaskToL1
  <1> QED
    BY <1>1, <1>2, <1>3, <1>4

\* The two tables agree for every broadcast there can be, as long as the
\* device ends with the two columns that have no controller on their right,
\* as the two devices of xaie_lite_hwcfg.h do with 50 and 38 columns.
THEOREM RoutesAreInverseHolds ==
  ASSUME NumCols % 4 = 2, NumCols > 2 PROVE Spec => []RoutesAreInverse
  <1> DEFINE SignalsOK == signals \subseteq Broadcast
  <1>1. Init => SignalsOK
    BY DEF Init
  <1>2. SignalsOK /\ [Next]_vars => SignalsOK'
    BY SignalsStep
  <1>3. SignalsOK => RoutesAreInverse
    <2> SUFFICES ASSUME SignalsOK, NEW s \in signals
                 PROVE  MapL2MaskToL1(L1IrqId(Gen, s.col, s.sw), L2Of(s.col)) = <<s.col, s.sw>>
      BY DEF RoutesAreInverse
    <2>1. s.col \in 0..NumCols-1 /\ s.sw \in {0, 1}
      BY DEF Broadcast, Switches
    <2> QED
      BY <2>1, RouteAndBack, ErrorsAssumption
  <1> HIDE DEF SignalsOK
  <1> QED
    BY <1>1, <1>2, <1>3, PTL DEF Spec
=============================================================================
