------------------------------ MODULE FalPerf ------------------------------
(***************************************************************************)
(* Performance counters of the functional abstraction layer: the life      *)
(* cycle all its resources have (XAieRsc, fal/src/rsc/xaiefal-rsc-base.hpp)*)
(* and the counter with the broadcast channels it needs when an event is   *)
(* of the other module of the tile (XAiePerfCounter, XAieBroadcast).       *)
(*                                                                         *)
(* The objects of one AIE tile compete for its counters and channels.  The *)
(* layer is not thread safe: a call is one step, and what can go wrong is  *)
(* the order of calls, a pool that runs out and a register write that      *)
(* fails in the middle of a start or a stop.                               *)
(***************************************************************************)
EXTENDS Integers, Sequences

CONSTANTS
    Objs,        \* the XAiePerfCounter objects
    Home,        \* Home[c]: the module c was made for
    EventMods,   \* EventMods[c][r]: the modules c is given events of for r
    Crossing,    \* the objects made by XAieTile::perfCounter(), see Init
    Named,       \* the objects that setPreferredId is called on
    NumIds,      \* performance counters of a module
    NumChannels, \* broadcast channels of the tile nobody else uses
    SetAside,    \* counters allocated at compile time
    CanFail,     \* the register writes of a start or stop that may fail
    LateRst      \* may a reserved counter get or lose its reset event?

Mods == {"CORE", "MEM"}
Roles == {"start", "stop", "rst"}
Ids == 0 .. NumIds - 1
Channels == 0 .. NumChannels - 1
Writes == Roles \X {"route", "open", "control"}

ASSUME SizesAssumption == NumIds \in Nat \ {0} /\ NumChannels \in Nat
ASSUME ObjsAssumption ==
    /\ Home \in [Objs -> Mods] /\ EventMods \in [Objs -> [Roles -> SUBSET Mods]]
    /\ Crossing \subseteq Objs /\ Named \subseteq Objs
ASSUME SetAsideAssumption == SetAside \subseteq Mods \X Ids
ASSUME CanFailAssumption == CanFail \subseteq Writes
ASSUME LateRstAssumption == LateRst \in BOOLEAN

AnyId == -1     \* XAIE_RSC_ID_ANY
NoChannel == -1 \* there is no XAieBroadcast object
User == -1      \* an event the user chose
None == -2      \* XAIE_EVENT_NONE_CORE

(* An event belongs to a module: one of the user's, or what arrives there  *)
(* on a broadcast channel.                                                 *)
Event(m, what) == [mod |-> m, what |-> what]
NoEvent == Event("CORE", None)
Events == [mod : Mods, what : {User, None} \cup Channels]
UserEvents(c, r) == [mod : EventMods[c][r], what : {User}]
Choices(c, r) == UserEvents(c, r) \cup IF r = "rst" THEN {NoEvent} ELSE {}

Counters == Mods \X Ids
Rscs == Counters \cup ({"BC"} \X Channels)
BC(ch) == <<"BC", ch>>

VARIABLES
    obj,     \* the objects
    used,    \* resources whose runtime bit is set in the driver
    static,  \* counters set aside at compile time
    lost,    \* used resources that no object will ever give back
    ctrl,    \* ctrl[r][role]: the event the counter r reacts to
    bcast    \* bcast[m][ch]: the event module m sends on channel ch

vars == <<obj, used, static, lost, ctrl, bcast>>

ObjSet == [pref : Ids \cup {AnyId},
           configured : BOOLEAN, reserved : BOOLEAN, prereserved : BOOLEAN, running : BOOLEAN,
           rsc : Counters, mod : [Roles -> Mods], ev : [Roles -> Events],
           bc : [Roles -> [id : Channels \cup {NoChannel}, running : BOOLEAN]]]

(* Only reserved and configured resources run.                             *)
TypeOK ==
    /\ obj \in [Objs -> ObjSet]
    /\ used \subseteq Rscs /\ static \subseteq Counters /\ lost \subseteq Rscs
    /\ ctrl \in [Counters -> [Roles -> Events]]
    /\ bcast \in [Mods -> [Channels -> Events]]
    /\ \A c \in Objs : obj[c].running => obj[c].reserved /\ obj[c].configured

NoBC == [id |-> NoChannel, running |-> FALSE]

(* XAieTile::perfCounter() makes objects that may cross modules,           *)
(* XAieMod::perfCounter() objects that stay in theirs.                     *)
Init ==
    /\ obj = [c \in Objs |->
           [pref |-> AnyId, configured |-> FALSE, reserved |-> FALSE, prereserved |-> FALSE,
            running |-> FALSE, rsc |-> <<Home[c], 0>>,
            mod |-> [r \in Roles |-> Home[c]], ev |-> [r \in Roles |-> NoEvent],
            bc |-> [r \in Roles |-> NoBC]]]
    /\ used = {}
    /\ static = SetAside
    /\ lost = {}
    /\ ctrl = [k \in Counters |-> [r \in Roles |-> NoEvent]]
    /\ bcast = [m \in Mods |-> [ch \in Channels |-> NoEvent]]

-----------------------------------------------------------------------------
(* Configuration *)

setPreferredId(c) ==
    /\ c \in Named /\ ~obj[c].reserved
    /\ \E id \in Ids \cup {AnyId}, isStaticAllocated \in BOOLEAN :
           obj' = [obj EXCEPT ![c].pref = id,
                       ![c].prereserved = @ \/ (isStaticAllocated /\ id # AnyId)]
    /\ UNCHANGED <<used, static, lost, ctrl, bcast>>

(* The module of the reset event is only stored with an event.             *)
initialize(c) ==
    /\ ~obj[c].reserved
    /\ \E ev \in { e \in [Roles -> UNION { Choices(c, r) : r \in Roles }] :
                        \A r \in Roles : e[r] \in Choices(c, r) } :
           /\ obj' = [obj EXCEPT ![c].ev = ev, ![c].configured = TRUE,
                          ![c].mod = [r \in Roles |->
                              IF ev[r] = NoEvent THEN @[r] ELSE ev[r].mod]]
    /\ UNCHANGED <<used, static, lost, ctrl, bcast>>

(* The role's event comes from the other module than the counter's.        *)
Crosses(o, r) == o.mod[r] # o.rsc[1] /\ (r = "rst" => o.ev[r] # NoEvent)

(* Instances without LateRst leave out a reset event that appears or       *)
(* vanishes after the reservation, when it has to cross.                   *)
MayChange(o, r, e) ==
    r = "rst" /\ ~LateRst /\ o.reserved /\ e.mod # o.rsc[1]
        => (e = NoEvent <=> o.ev[r] = NoEvent)

ChangeEvent_AnyModule(c, r) ==
    /\ ~obj[c].running
    /\ \E e \in UserEvents(c, r) :
           /\ MayChange(obj[c], r, e)
           /\ obj' = [obj EXCEPT ![c].ev[r] = e, ![c].mod[r] = e.mod]
    /\ UNCHANGED <<used, static, lost, ctrl, bcast>>

(* changeStartEvent, changeStopEvent and changeRstEvent: once the counter  *)
(* is reserved the module of the event has to stay the same.               *)
ChangeEvent(c, r) ==
    /\ ~obj[c].running
    /\ \E e \in Choices(c, r) :
           /\ obj[c].reserved => e.mod = obj[c].mod[r]
           /\ MayChange(obj[c], r, e)
           /\ obj' = [obj EXCEPT ![c].ev[r] = e, ![c].mod[r] = e.mod]
    /\ UNCHANGED <<used, static, lost, ctrl, bcast>>

-----------------------------------------------------------------------------
(* Reserving *)

Other(m) == IF m = "CORE" THEN "MEM" ELSE "CORE"

FirstFree(m) ==
    { k \in {m} \X Ids : /\ k \notin used \cup static
                         /\ \A i \in 0 .. k[2] - 1 : <<m, i>> \in used \cup static }

(* The counter the driver grants, if any: the one asked for, or the first  *)
(* free one of the module, or of the other module.                         *)
GrantedCounter(c) ==
    IF obj[c].pref # AnyId THEN {<<Home[c], obj[c].pref>>} \ used
    ELSE IF FirstFree(Home[c]) # {} \/ c \notin Crossing THEN FirstFree(Home[c])
    ELSE FirstFree(Other(Home[c]))

FreeChannels == { ch \in Channels : BC(ch) \notin used }
Needing(o) == { r \in Roles : Crosses(o, r) }

(* Each channel is the first free one at its turn: start, stop, reset.     *)
Before(r, s) == r # s /\ (r = "start" \/ s = "rst")
ChannelsFor(o) ==
    { g \in [Needing(o) -> FreeChannels] :
          \A r \in Needing(o) :
              /\ \A s \in Needing(o) : Before(r, s) => g[r] < g[s]
              /\ \A ch \in FreeChannels : ch < g[r] => \E s \in Needing(o) : g[s] = ch }

reserve(c) ==
    /\ ~obj[c].reserved
    /\ \E k \in GrantedCounter(c) :
         LET o == [obj[c] EXCEPT !.rsc = k]
         IN  \E g \in ChannelsFor(o) :
                /\ obj' = [obj EXCEPT ![c] = [o EXCEPT !.reserved = TRUE,
                       !.bc = [r \in Roles |-> IF r \in Needing(o)
                                               THEN [id |-> g[r], running |-> FALSE] ELSE NoBC]]]
                /\ used' = used \cup {k} \cup { BC(g[r]) : r \in Needing(o) }
    /\ UNCHANGED <<static, lost, ctrl, bcast>>

ReserveFails_KeepsCounter(c) ==
    /\ ~obj[c].reserved
    /\ \E k \in GrantedCounter(c) :
           /\ ChannelsFor([obj[c] EXCEPT !.rsc = k]) = {}
           /\ used' = used \cup {k}
    /\ UNCHANGED <<obj, static, lost, ctrl, bcast>>

(* The channels run out: those already reserved are released, and so is    *)
(* the counter, with its reservation if it had been asked for by id.       *)
ReserveFails(c) ==
    /\ ~obj[c].reserved
    /\ \E k \in GrantedCounter(c) :
           /\ ChannelsFor([obj[c] EXCEPT !.rsc = k]) = {}
           /\ static' = static \ {k}
    /\ UNCHANGED <<obj, used, lost, ctrl, bcast>>

(* What an object owns in the driver.                                      *)
Owned(c) ==
    IF obj[c].reserved
    THEN {obj[c].rsc} \cup { BC(obj[c].bc[r].id) : r \in { s \in Roles : obj[c].bc[s] # NoBC } }
    ELSE {}

(* A call that would follow a pointer to no XAieBroadcast, or one that the *)
(* reservation before this one left behind, is not modelled:               *)
(* ChannelsAreReserved says that there is none.                            *)
HasChannels(o) == \A r \in Needing(o) : o.bc[r] # NoBC

(* Only the channels of events that cross now are released: that of a      *)
(* reset event that is gone stays reserved.  A channel that a failed start *)
(* left running refuses to be released, and is deleted nevertheless.       *)
release(c) ==
    /\ obj[c].reserved /\ ~obj[c].running /\ HasChannels(obj[c])
    /\ LET idle == { r \in Needing(obj[c]) : ~obj[c].bc[r].running }
           back == {obj[c].rsc} \cup { BC(obj[c].bc[r].id) : r \in idle }
       IN  used' = used \ back /\ lost' = lost \cup (Owned(c) \ back)
    /\ static' = static \ {obj[c].rsc}
    /\ obj' = [obj EXCEPT ![c].reserved = FALSE, ![c].prereserved = FALSE,
                          ![c].bc = [r \in Roles |-> NoBC]]
    /\ UNCHANGED <<ctrl, bcast>>

(* No resource overrides _free: nothing is given back to the driver.       *)
free(c) ==
    /\ obj[c].prereserved /\ obj[c].reserved /\ ~obj[c].running
    /\ lost' = lost \cup Owned(c)
    /\ obj' = [obj EXCEPT ![c].reserved = FALSE, ![c].bc = [r \in Roles |-> NoBC]]
    /\ UNCHANGED <<used, static, ctrl, bcast>>

-----------------------------------------------------------------------------
(* Starting and stopping *)

Open(o, r) == IF Crosses(o, r) THEN << <<r, "route">>, <<r, "open">> >> ELSE <<>>

(* One register holds the start and the stop event of a counter.           *)
SetWith(r) == IF r = "stop" THEN "start" ELSE r

(* The register writes of a start, in order.                               *)
StartWrites(o) ==
    Open(o, "start") \o Open(o, "stop") \o Open(o, "rst") \o << <<"start", "control">> >>
    \o IF o.ev["rst"] = NoEvent THEN <<>> ELSE << <<"rst", "control">> >>

(* XAie_EventBroadcast refuses an event of another module.                 *)
Refused(o, w) == w[2] = "route" /\ o.ev[w[1]].mod # o.mod[w[1]]

(* The result of routing the stop event is not looked at.                  *)
Ignored(w) == w = <<"stop", "route">>

Arriving(o, r) == IF Crosses(o, r) THEN Event(o.rsc[1], o.bc[r].id) ELSE o.ev[r]

(* The registers when the writes W of a start of o are done.               *)
Routed(o, W) == [m \in Mods |-> [ch \in Channels |->
    IF \E r \in Roles : <<r, "route">> \in W /\ o.mod[r] = m /\ o.bc[r].id = ch
    THEN Event(m, User) ELSE bcast[m][ch]]]

Controlled(o, W) == [ctrl EXCEPT ![o.rsc] = [r \in Roles |->
    IF <<SetWith(r), "control">> \in W THEN Arriving(o, r) ELSE @[r]]]

start(c) ==
    /\ obj[c].reserved /\ obj[c].configured /\ ~obj[c].running /\ HasChannels(obj[c])
    /\ LET o == obj[c]
           writes == StartWrites(o)
       IN  \E k \in 0 .. Len(writes), lostWrites \in SUBSET { w \in CanFail : Ignored(w) } :
               /\ \A j \in 1 .. k : Refused(o, writes[j]) => Ignored(writes[j])
               /\ k < Len(writes) => /\ ~Ignored(writes[k + 1])
                                     /\ Refused(o, writes[k + 1]) \/ writes[k + 1] \in CanFail
               /\ LET W == { writes[j] : j \in { i \in 1 .. k : ~Refused(o, writes[i]) } }
                           \ lostWrites
                  IN  /\ bcast' = Routed(o, W)
                      /\ ctrl' = Controlled(o, W)
                      /\ obj' = [obj EXCEPT ![c].running = (k = Len(writes)),
                             ![c].bc = [r \in Roles |-> IF <<r, "open">> \in W
                                        THEN [@[r] EXCEPT !.running = TRUE] ELSE @[r]]]
    /\ UNCHANGED <<used, static, lost>>

Stop_KeepsRoutes(c) ==
    /\ obj[c].running /\ HasChannels(obj[c])
    /\ LET o == obj[c]
       IN  /\ ctrl' = [ctrl EXCEPT ![o.rsc] = [r \in Roles |-> NoEvent]]
           /\ obj' = [obj EXCEPT ![c].running = FALSE,
                  ![c].ev = [r \in Roles |-> Arriving(o, r)],
                  ![c].bc = [r \in Roles |-> [@[r] EXCEPT !.running = FALSE]]]
    /\ UNCHANGED <<used, static, lost, bcast>>

(* Every register is tried, and the writes F fail.  The event that arrives *)
(* on a channel is stored in place of the user's.                          *)
stop(c) ==
    /\ obj[c].running /\ HasChannels(obj[c])
    /\ LET o == obj[c]
           writes == { w \in Writes \ {<<"stop", "control">>} : w[2] # "control" => Crosses(o, w[1]) }
       IN  \E F \in SUBSET (writes \cap CanFail) :
               /\ bcast' = [m \in Mods |-> [ch \in Channels |->
                      IF \E r \in Needing(o) : /\ <<r, "route">> \notin F
                                               /\ o.mod[r] = m /\ o.bc[r].id = ch
                      THEN NoEvent ELSE bcast[m][ch]]]
               /\ ctrl' = [ctrl EXCEPT ![o.rsc] = [r \in Roles |->
                      IF <<SetWith(r), "control">> \in F THEN @[r] ELSE NoEvent]]
               /\ obj' = [obj EXCEPT ![c].running = (F # {}),
                      ![c].ev = [r \in Roles |-> Arriving(o, r)],
                      ![c].bc = [r \in Roles |-> IF <<r, "open">> \in F THEN @[r]
                                                 ELSE [@[r] EXCEPT !.running = FALSE]]]
    /\ UNCHANGED <<used, static, lost>>

Next ==
    \E c \in Objs : \/ setPreferredId(c)
                    \/ initialize(c)
                    \/ \E r \in Roles : ChangeEvent(c, r)
                    \/ reserve(c)
                    \/ ReserveFails(c)
                    \/ release(c)
                    \/ free(c)
                    \/ start(c)
                    \/ stop(c)

Spec == Init /\ [][Next]_vars

-----------------------------------------------------------------------------
(* Properties *)

(* The driver's runtime bits are those of the resources that the reserved  *)
(* objects own, each of one object, and of those lost on the three ways    *)
(* the module describes (free, releasing after a failed start, and         *)
(* releasing when the reset event is gone): whatever runs out or fails, no *)
(* call leaks or shares anything else.                                     *)
PoolIsAccounted ==
    /\ used = lost \cup UNION { Owned(c) : c \in Objs }
    /\ \A c \in Objs : Owned(c) \cap lost = {}
    /\ \A c, d \in Objs : c # d => Owned(c) \cap Owned(d) = {}
    /\ \A c \in Objs, r, s \in Roles :
           r # s /\ obj[c].bc[r] # NoBC => obj[c].bc[r].id # obj[c].bc[s].id

(* "broadcast channels within the tile of the start/stop/reset events will *)
(* be reserved": while a counter is reserved there is a channel for every  *)
(* event that has to cross, whatever was changed after the reservation.    *)
(* The calls that use the channels rely on it without a check.             *)
ChannelsAreReserved == \A c \in Objs : obj[c].reserved => HasChannels(obj[c])

(* A running counter whose events are still the user's counts them: each   *)
(* is set directly or arrives on an open channel that carries it, and no   *)
(* other module sends on that channel, whoever used it before.             *)
Reaches(o, r) ==
    IF Crosses(o, r)
    THEN /\ o.bc[r].running
         /\ ctrl[o.rsc][r] = Event(o.rsc[1], o.bc[r].id)
         /\ bcast[o.mod[r]][o.bc[r].id] = o.ev[r]
         /\ bcast[o.rsc[1]][o.bc[r].id] = NoEvent
    ELSE o.ev[r] # NoEvent => ctrl[o.rsc][r] = o.ev[r]

RunningCountersAreRouted ==
    \A c \in Objs :
        obj[c].running /\ Needing(obj[c]) # {} /\ (\A r \in Roles : obj[c].ev[r].what \in {User, None}) =>
            \A r \in Roles : Reaches(obj[c], r)
=============================================================================
