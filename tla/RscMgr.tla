------------------------------- MODULE RscMgr -------------------------------
(***************************************************************************)
(* The resource manager (driver/src/rsc/xaie_rsc.c and the common backend  *)
(* driver/src/io_backend/ext/xaie_io_common.c) for one resource type.      *)
(*                                                                         *)
(* A request is a loop over the caller's list: every iteration computes    *)
(* the offsets of one module and runs the backend operation that searches  *)
(* and marks the bitmap; the first failure frees what the call has marked. *)
(* The driver holds no lock: calls do not overlap, and `call` is the call  *)
(* in progress, one step per iteration.  Freeing and releasing cannot fail *)
(* and are one step.  Calls the argument checks reject change nothing and  *)
(* are guards here.                                                        *)
(***************************************************************************)
EXTENDS RscLayout, Sequences, SequencesExt

CONSTANTS
    Clients,       \* the users of one device instance
    RscType,       \* the resource type (XAie_RscType)
    MaxReqs,       \* bound: length of a request list
    MaxPerTile,    \* bound: resources asked of one module in one request
    MaxPayload     \* bound: bits of one static bitmap that is loaded

ASSUME ClientsAssumption == "none" \notin Clients

ASSUME RscTypeAssumption ==
    RscType \in {"PERFCNT", "USER_EVENTS", "TRACE_CTRL", "PC_EVENTS",
                 "SS_EVENT_PORTS", "GROUP_EVENTS", "COMBO_EVENTS"}

ASSUME BoundsAssumption ==
    MaxReqs \in Nat /\ MaxPerTile \in Nat /\ MaxPayload \in Nat

VARIABLES
    Bitmaps,   \* Bitmaps[tt]: the set bits of the tile type's array
    held,      \* held[c]: resources client c was granted and has not given back
    call       \* the request in progress

vars == <<Bitmaps, held, call>>

Idle == [op |-> "idle", client |-> "none", reqs |-> <<>>, rscs |-> <<>>]

Requests == [loc : Locs, mod : Modules, n : 1 .. MaxPerTile]
PoolRequests == { q \in Requests : CheckModule(GetTTypefromLoc(q.loc), q.mod) }
Entries == Requests \cup Rscs

Ops == {"idle", "request", "contig", "allocated"}

TypeOK ==
    /\ Bitmaps \in [TileTypes -> SUBSET Nat]
    /\ \A tt \in TileTypes : Bitmaps[tt] \subseteq 0 .. BitmapSize(tt) - 1
    /\ held \in [Clients -> SUBSET Rscs]
    /\ call \in [op : Ops, client : Clients \cup {"none"},
                 reqs : Seq(Entries), rscs : Seq(Rscs)]
    /\ call.op = "idle" => call = Idle
    /\ call.op # "idle" => call.client \in Clients
    /\ call.op \in {"request", "contig"} => ToSet(call.reqs) \subseteq PoolRequests
    /\ call.op = "allocated" => ToSet(call.reqs) \subseteq Rscs

Init ==
    /\ Bitmaps = [tt \in TileTypes |-> {}]
    /\ held = [c \in Clients |-> {}]
    /\ call = Idle

-----------------------------------------------------------------------------
(* Bitmap operations *)

InUse(r) == RuntimeBit(r) \in Bitmaps[TypeOf(r)]
Reserved(r) == StaticBit(r) \in Bitmaps[TypeOf(r)]

RuntimeBitsOf(S, tt) == { RuntimeBit(r) : r \in { q \in S : TypeOf(q) = tt } }
StaticBitsOf(S, tt) == { StaticBit(r) : r \in { q \in S : TypeOf(q) = tt } }

MarkRuntime(S) == [tt \in TileTypes |-> Bitmaps[tt] \cup RuntimeBitsOf(S, tt)]
FreeRscs_StaticToo(S) == [tt \in TileTypes |->
    Bitmaps[tt] \ (RuntimeBitsOf(S, tt) \cup StaticBitsOf(S, tt))]

FreeRscs(S) == [tt \in TileTypes |-> Bitmaps[tt] \ RuntimeBitsOf(S, tt)]
ReleaseRscs(S) == [tt \in TileTypes |->
    Bitmaps[tt] \ (RuntimeBitsOf(S, tt) \cup StaticBitsOf(S, tt))]

Available(r) == ~InUse(r) /\ ~Reserved(r)

(* _XAie_FindAvailableRsc: id is the first id of the module that is in     *)
(* neither bitmap.                                                         *)
FindAvailableRsc(loc, mod, id) ==
    /\ id \in IdsOf(loc, mod)
    /\ Available(Rsc(loc, mod, id))
    /\ \A k \in 0 .. id - 1 : ~Available(Rsc(loc, mod, k))

(* _XAie_FindAvailableRscContig: windows of n bits starting at multiples   *)
(* of n; the first one that is free, of even id, and of a type allocated   *)
(* in blocks.  Nothing stops a window at the module's last resource.       *)
ContigWindow(loc, mod, id, n) ==
    /\ id \in IdsOf(loc, mod) /\ id % n = 0 /\ id % 2 = 0
    /\ RscType \in {"PC_EVENTS", "COMBO_EVENTS"}
    /\ \A k \in id .. id + n - 1 : Available(Rsc(loc, mod, k))

FindAvailableRscContig(loc, mod, id, n) ==
    /\ ContigWindow(loc, mod, id, n)
    /\ \A k \in 0 .. id - 1 : ~ContigWindow(loc, mod, k, n)

(* Blocks of contiguous resources that start in a module end in it: so it  *)
(* is for PC and combo events on all devices, with 4 per module, as long   *)
(* as no more than 4 are asked for.                                        *)
WindowsFit ==
    \A tt \in TileTypes, mod \in Modules, n \in 1 .. MaxPerTile :
        CheckModule(tt, mod) /\ RscType \in {"PC_EVENTS", "COMBO_EVENTS"} =>
            \A id \in 0 .. GetMaxRscVal(tt, mod) - 1 :
                id % n = 0 /\ id % 2 = 0 => id + n <= GetMaxRscVal(tt, mod)

(* Callers name resources that exist.  Nothing checks it.                  *)
NamesExist == NamedRscs \subseteq Rscs

-----------------------------------------------------------------------------
(* Entering a request *)

Begin(op, c, reqs) ==
    /\ call = Idle
    /\ call' = [op |-> op, client |-> c, reqs |-> reqs, rscs |-> <<>>]
    /\ UNCHANGED <<Bitmaps, held>>

(* XAie_Request<Perfcnt, UserEvents, ...>: combo events are only handed    *)
(* out in blocks and group events only by name.                            *)
RequestRsc(c) ==
    /\ RscType \notin {"COMBO_EVENTS", "GROUP_EVENTS"}
    /\ \E reqs \in BoundedSeq(PoolRequests, MaxReqs) : Begin("request", c, reqs)

(* XAie_RequestComboEvents and XAie_RequestPCRangeEvents.                  *)
RequestRscContiguous(c) ==
    /\ RscType \in {"PC_EVENTS", "COMBO_EVENTS"}
    /\ \E reqs \in BoundedSeq(PoolRequests, MaxReqs) : Begin("contig", c, reqs)

(* XAie_RequestAllocated<Perfcnt, ...>: the caller names the resources.    *)
RequestAllocatedRsc(c) ==
    \E reqs \in BoundedSeq(NamedRscs, MaxReqs) : Begin("allocated", c, reqs)

-----------------------------------------------------------------------------
(* One iteration of a request's loop *)

Granting(S, rscs) ==
    /\ Bitmaps' = MarkRuntime(S)
    /\ call' = [call EXCEPT !.reqs = Tail(@), !.rscs = @ \o rscs]
    /\ UNCHANGED held

(* _XAie_RequestRsc searches NumRscPerTile times before it marks anything: *)
(* every search finds the same first free id.                              *)
GrantRsc ==
    /\ call.op = "request" /\ call.reqs # <<>>
    /\ LET q == Head(call.reqs)
       IN  \E id \in IdsOf(q.loc, q.mod) :
               /\ FindAvailableRsc(q.loc, q.mod, id)
               /\ Granting({Rsc(q.loc, q.mod, id)},
                           [j \in 1 .. q.n |-> Rsc(q.loc, q.mod, id)])

GrantRscContig_FirstOnly ==
    /\ call.op = "contig" /\ call.reqs # <<>>
    /\ LET q == Head(call.reqs)
       IN  \E id \in IdsOf(q.loc, q.mod) :
               /\ FindAvailableRscContig(q.loc, q.mod, id, q.n)
               /\ Granting({ Rsc(q.loc, q.mod, id) },
                           [j \in 1 .. q.n |-> Rsc(q.loc, q.mod, id + j - 1)])

GrantRscContig ==
    /\ call.op = "contig" /\ call.reqs # <<>>
    /\ LET q == Head(call.reqs)
       IN  \E id \in IdsOf(q.loc, q.mod) :
               /\ FindAvailableRscContig(q.loc, q.mod, id, q.n)
               /\ Granting({ Rsc(q.loc, q.mod, k) : k \in id .. id + q.n - 1 },
                           [j \in 1 .. q.n |-> Rsc(q.loc, q.mod, id + j - 1)])

GrantAllocatedRsc_Unchecked ==
    /\ call.op = "allocated" /\ call.reqs # <<>>
    /\ Granting({Head(call.reqs)}, <<Head(call.reqs)>>)

(* _XAie_RequestAllocatedRscCommon looks at the runtime bit alone.         *)
GrantAllocatedRsc ==
    /\ call.op = "allocated" /\ call.reqs # <<>>
    /\ ~InUse(Head(call.reqs))
    /\ Granting({Head(call.reqs)}, <<Head(call.reqs)>>)

CanGrant(q) ==
    CASE call.op = "request" ->
           \E id \in IdsOf(q.loc, q.mod) : FindAvailableRsc(q.loc, q.mod, id)
      [] call.op = "contig" ->
           \E id \in IdsOf(q.loc, q.mod) : FindAvailableRscContig(q.loc, q.mod, id, q.n)
      [] call.op = "allocated" -> ~InUse(q)
      [] OTHER -> FALSE

RequestFails_NoRollback ==
    /\ call.op # "idle" /\ call.reqs # <<>>
    /\ ~CanGrant(Head(call.reqs))
    /\ call' = Idle
    /\ UNCHANGED <<Bitmaps, held>>

(* The backend refused: what this call has marked is freed, the caller     *)
(* gets an error.                                                          *)
RequestFails ==
    /\ call.op # "idle" /\ call.reqs # <<>>
    /\ ~CanGrant(Head(call.reqs))
    /\ Bitmaps' = FreeRscs(ToSet(call.rscs))
    /\ call' = Idle
    /\ UNCHANGED held

(* The list is exhausted: the caller owns the resources it is returned.    *)
RequestReturns ==
    /\ call.op # "idle" /\ call.reqs = <<>>
    /\ held' = [held EXCEPT ![call.client] = @ \cup ToSet(call.rscs)]
    /\ call' = Idle
    /\ UNCHANGED Bitmaps

-----------------------------------------------------------------------------
(* Giving resources back.  Clients free what they hold; they release what  *)
(* they hold or what nobody holds (a reservation that is not needed).      *)
(* Group events can be freed but there is no call to release them.         *)

Free(c) ==
    /\ call = Idle
    /\ \E S \in SUBSET held[c] :
           /\ Bitmaps' = FreeRscs(S)
           /\ held' = [held EXCEPT ![c] = @ \ S]
    /\ UNCHANGED call

HeldByOthers(c) == UNION { held[d] : d \in Clients \ {c} }

Release(c) ==
    /\ call = Idle /\ RscType # "GROUP_EVENTS"
    /\ \E S \in SUBSET (NamedRscs \ HeldByOthers(c)) :
           /\ Bitmaps' = ReleaseRscs(S)
           /\ held' = [held EXCEPT ![c] = @ \ S]
    /\ UNCHANGED call

(* One bitmap of the metadata XAie_LoadStaticRscfromMem applies: payload   *)
(* bit Pos sets bit Pos of the module's static region.  A header that is   *)
(* rejected ends the load, with the bitmaps before it applied.             *)
LoadStaticRscfromMem ==
    /\ call = Idle
    /\ \E tt \in TileTypes, mod \in Modules :
           /\ CheckModule(tt, mod)
           /\ \E payload \in SUBSET (0 .. StaticBitmapOffset(tt, mod) - 1) :
                  /\ Cardinality(payload) <= MaxPayload
                  /\ Bitmaps' = [Bitmaps EXCEPT ![tt] = @ \cup
                         { pos + BitmapOffset(mod) + StaticBitmapOffset(tt, mod) :
                               pos \in payload }]
    /\ UNCHANGED <<held, call>>

Next ==
    \/ \E c \in Clients : \/ RequestRsc(c)
                          \/ RequestRscContiguous(c)
                          \/ RequestAllocatedRsc(c)
                          \/ Free(c)
                          \/ Release(c)
    \/ GrantRsc
    \/ GrantRscContig
    \/ GrantAllocatedRsc
    \/ RequestFails
    \/ RequestReturns
    \/ LoadStaticRscfromMem

Spec == Init /\ [][Next]_vars

-----------------------------------------------------------------------------
(* Properties *)

Marked == (UNION { held[c] : c \in Clients }) \cup ToSet(call.rscs)

(* The runtime bit of a resource is set exactly when a client holds it or  *)
(* the request in progress has been granted it.  So no call leaks a bit, a *)
(* failed request leaves nothing behind however many of its tiles had been *)
(* granted (_XAie_RscMgr_RequestRsc, _XAie_RscMgr_RequestAllocatedRsc), and *)
(* no two resources share a bit.  This holds if callers name resources     *)
(* that exist (NamesExist) and ask for blocks that fit (WindowsFit); see   *)
(* RequestsStayInTheirModules for the others.                              *)
RuntimeBitsAreHeld == \A r \in Rscs : InUse(r) <=> r \in Marked

(* Two clients never hold one resource, and what the request in progress   *)
(* has been granted nobody holds: grants are exclusive although a request  *)
(* by name ignores the static bits and a release clears both.              *)
ExclusiveGrants ==
    /\ \A c, d \in Clients : c # d => held[c] \cap held[d] = {}
    /\ \A c \in Clients : held[c] \cap ToSet(call.rscs) = {}

(* XAie_GetAvailRscStat tells the truth: the bits it counts as clear are   *)
(* the resources neither held, nor being granted, nor reserved.            *)
GetAvailRscs(loc, mod) ==
    Cardinality({ i \in StartBit(loc, mod) ..
                        StartBit(loc, mod) + GetMaxRscVal(GetTTypefromLoc(loc), mod) - 1 :
        /\ i \notin Bitmaps[GetTTypefromLoc(loc)]
        /\ i + StaticBitmapOffset(GetTTypefromLoc(loc), mod)
                \notin Bitmaps[GetTTypefromLoc(loc)] })

AvailRscStatIsTrue ==
    \A m \in ModLocs : GetAvailRscs(m.loc, m.mod) =
        Cardinality({ id \in IdsOf(m.loc, m.mod) :
            /\ Rsc(m.loc, m.mod, id) \notin Marked
            /\ ~Reserved(Rsc(m.loc, m.mod, id)) })

(* Serving or refusing a request never changes what was set aside at       *)
(* compile time: in particular the rollback of a failed request by name    *)
(* leaves the reservations of the resources it gives back.                 *)
RequestsKeepReservations ==
    [][call # Idle => \A r \in Rscs : Reserved(r) <=> Reserved(r)']_vars

(* A request changes the bits of the modules on its list and of no other:  *)
(* the resource manager checks its arguments (xaie_rsc.c:426) and grants   *)
(* resources for the given location (xaie_io_common.c:159).  The code does *)
(* so only under NamesExist and WindowsFit: it checks neither the id of a  *)
(* request by name nor the length of a block.                              *)
RequestsStayInTheirModules ==
    [][call # Idle => \A r \in Rscs :
           (InUse(r)' # InUse(r)) \/ (Reserved(r)' # Reserved(r)) =>
               \E q \in ToSet(call.reqs) \cup ToSet(call.rscs) :
                   q.loc = r.loc /\ q.mod = r.mod]_vars

(* The bitmaps implement the pool of resources of RscPool: a request is    *)
(* atomic to its callers, whatever the number of tiles in its list.        *)
Pool == INSTANCE RscPool WITH reserved <- { r \in Rscs : Reserved(r) }

ImplementsPool == Pool!Spec
=============================================================================
