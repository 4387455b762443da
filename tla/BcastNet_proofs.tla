--------------------------- MODULE BcastNet_proofs ---------------------------
(***************************************************************************)
(* For every device, partition and set of users: a reserved channel has    *)
(* one owner, and the reservations implement the pool of ChannelPool; free *)
(* channels are clean; the broadcasts of columns are separate; the timers  *)
(* are synchronized; and the errors reach their L2 controllers.            *)
(*                                                                         *)
(* The calls of the driver own what they have reserved in five places: the *)
(* two lists of XAie_SyncTimer, what the error network holds, and what     *)
(* calls that failed have left behind.  RuntimeBitsAreOwned is inductive   *)
(* only together with the fact that these are disjoint, as a release of    *)
(* one would take from another, and with what the roll back of the error   *)
(* channels releases: no more than they hold (Held).                       *)
(*                                                                         *)
(* The other invariants are about the registers.  What is set is of a call *)
(* that lost its channel, or of the error network, or is cleared by a      *)
(* write that is still to come (Tidy); above the shims only the sides of   *)
(* the columns are blocked (Known); what is before the place of the last   *)
(* write is set (Written); so that the event, once generated, gets along   *)
(* the shims and up every column (Synced).  The routes of errors are set   *)
(* as their writes set them (Wired) and nothing else stands in their way   *)
(* (Shaped): a channel gets from a shim to its L2 controller, as each link *)
(* is open, and no further, as no link leads out (ReachWithin).            *)
(***************************************************************************)
EXTENDS BcastNet, FiniteSetTheorems, WellFoundedInduction, TLAPS

Taken == UNION {held[u] : u \in Users}

Types ==
    /\ held \in [Users -> SUBSET Rscs]
    /\ errors \subseteq Rscs /\ lost \subseteq Rscs
    /\ RscsBC \subseteq Slots /\ RscsBCShim \subseteq Slots
    /\ BcastChannelId \in Channels /\ BcastChannelIdShim \in Channels
    /\ bcId \in Nat \ {0}

\* What the driver holds, and what a call holds where it is.
Held ==
    /\ errors \cap lost = {} /\ errors \cap Own = {} /\ lost \cap Own = {}
    /\ pc \in {"Idle", "Reserve", "Errors"} => RscsBC = {} /\ RscsBCShim = {}
    /\ pc = "RequestShim" => RscsBCShim = {}
    /\ pc # "Reserve" => bcId = 1
    /\ errors # {} => ShimSlots \X {0} \subseteq errors
    /\ bcId <= MaxErrorBcIdsRvd
    /\ pc = "Reserve" => ShimSlots \X (0..bcId-1) \subseteq errors

IInv == Types /\ Held /\ RuntimeBitsAreOwned

----------------------------------------------------------------------------
(* A nonempty set of channels has a least element. *)

LEMMA MinExists ==
    ASSUME NEW S \in SUBSET Nat, S # {}
    PROVE  \E x \in S : \A y \in S : x <= y
<1>1. PICK x \in S : \A y \in S : ~(<<y, x>> \in OpToRel(<, Nat))
  BY NatLessThanWellFounded, WFMin
<1>2. \A y \in S : ~(y < x)
  BY <1>1 DEF OpToRel
<1> QED
  BY <1>2

LEMMA FreeIsFree ==
    ASSUME NetAssumption, NEW S, HasFree(S)
    PROVE  FirstFree(S) \in Free(S, runtime \cup static)
<1> DEFINE F == Free(S, runtime \cup static)
<1>1. F \in SUBSET Nat /\ F # {}
  BY DEF Free, Channels, HasFree, NetAssumption
<1>2. \E x \in F : \A y \in F : x <= y
  BY <1>1, MinExists
<1> QED
  BY <1>2 DEF FirstFree, Min

LEMMA GrantIsFree ==
    ASSUME NEW S \in SUBSET Slots, NEW taken, NEW c \in Free(S, taken)
    PROVE  /\ S \X {c} \subseteq Rscs
           /\ (S \X {c}) \cap taken = {}
<1>1. c \in Channels /\ \A s \in S : <<s, c>> \notin taken
  BY DEF Free
<1>2. S \X {c} \subseteq Rscs
  BY <1>1 DEF Rscs
<1>3. ASSUME NEW x \in S \X {c} PROVE x \notin taken
  <2>1. x = <<x[1], x[2]>> /\ x[1] \in S /\ x[2] = c
    BY <1>3
  <2> QED
    BY <2>1, <1>1
<1> QED
  BY <1>2, <1>3

\* What is free at run time and at compile time is free at run time.
LEMMA FirstFreeIsFree ==
    ASSUME NetAssumption, NEW S, HasFree(S)
    PROVE  FirstFree(S) \in Free(S, runtime) /\ FirstFree(S) \in Channels
BY FreeIsFree DEF Free

LEMMA ModulesAreSlots ==
    ASSUME NetAssumption
    PROVE  /\ ShimSlots \in SUBSET Slots /\ ShimSlots # {}
           /\ \A gen, T : SlotsOf(gen, T) \in SUBSET Slots /\ Ungated(gen, T) \in SUBSET Slots
           /\ \A gen, T : ShimSlots \subseteq Ungated(gen, T)
<1>1. 0 \in ColRange /\ ShimRow \in Rows
  BY DEF NetAssumption, ColRange, Rows, ShimRow
<1>2. ShimSlots \in SUBSET Slots
  BY <1>1 DEF ShimSlots, Slots
<1>3. <<0, ShimRow, "PL">> \in ShimSlots
  BY <1>1 DEF ShimSlots
<1>4. \A gen, T : SlotsOf(gen, T) \in SUBSET Slots
  BY DEF SlotsOf
<1> QED
  BY <1>2, <1>3, <1>4 DEF Ungated

LEMMA NoListNoOwn ==
    RscsBC = {} /\ RscsBCShim = {} => Own = {}
BY DEF Own

LEMMA NoListNoOwnNext ==
    RscsBC' = {} /\ RscsBCShim' = {} => Own' = {}
BY DEF Own

LEMMA OwnIsRscs == Types => Own \subseteq Rscs
BY DEF Types, Own, Rscs

----------------------------------------------------------------------------
(* The driver reserves, keeps or releases channels while the users keep theirs. *)

LEMMA DriverReserves ==
    ASSUME RuntimeBitsAreOwned, held' = held, NEW G, G \cap runtime = {},
           runtime' = runtime \cup G, Driver' = Driver \cup G
    PROVE  RuntimeBitsAreOwned'
<1>1. /\ runtime' = Driver' \cup UNION {held'[u] : u \in Users}
      /\ \A u \in Users : held'[u] \subseteq runtime /\ held'[u] \cap Driver' = {}
  BY DEF RuntimeBitsAreOwned
<1> QED
  BY <1>1 DEF RuntimeBitsAreOwned

LEMMA DriverReleases ==
    ASSUME RuntimeBitsAreOwned, held' = held, NEW G, G \subseteq Driver,
           runtime' = runtime \ G, Driver' = Driver \ G
    PROVE  RuntimeBitsAreOwned'
<1>1. \A u \in Users : held[u] \cap G = {}
  BY DEF RuntimeBitsAreOwned
<1>2. runtime' = Driver' \cup UNION {held'[u] : u \in Users}
  BY <1>1 DEF RuntimeBitsAreOwned
<1> QED
  BY <1>2 DEF RuntimeBitsAreOwned

LEMMA DriverKeeps ==
    ASSUME RuntimeBitsAreOwned, held' = held, runtime' = runtime, Driver' = Driver
    PROVE  RuntimeBitsAreOwned'
BY DEF RuntimeBitsAreOwned

----------------------------------------------------------------------------
(* The steps of the users. *)

LEMMA UserRequestStep ==
    ASSUME NetAssumption, IInv, NEW u \in Users, NEW r \in Requests, UserRequest(u, r)
    PROVE  IInv' /\ Driver' = Driver
<1> DEFINE S == IF r.kind = "all" THEN Ungated(Gen, tiles) ELSE SlotsOf(Gen, r.at)
           c == IF r.kind = "id" THEN r.id ELSE FirstFree(S)
<1>1. S \in SUBSET Slots
  BY ModulesAreSlots
<1>2. c \in Free(S, runtime)
  BY FirstFreeIsFree DEF UserRequest
<1>3. /\ held[u] = {} /\ runtime' = runtime \cup (S \X {c})
      /\ held' = [held EXCEPT ![u] = S \X {c}]
      /\ UNCHANGED <<errors, lost, pc, bcId, RscsBC, RscsBCShim, BcastChannelId, BcastChannelIdShim>>
  BY DEF UserRequest, Mark, errnet, lists
<1> HIDE DEF S, c
<1>4. S \X {c} \subseteq Rscs /\ (S \X {c}) \cap runtime = {}
  BY <1>1, <1>2, GrantIsFree
<1>5. Own' = Own /\ Driver' = Driver
  BY <1>3 DEF Own, Driver
<1>6. Types'
  BY <1>4, <1>3 DEF IInv, Types
<1>7. Held'
  BY <1>3, <1>5 DEF IInv, Held
<1>8. RuntimeBitsAreOwned'
  <2>1. /\ held'[u] = S \X {c}
        /\ \A v \in Users : v # u => held'[v] = held[v]
    BY <1>3 DEF IInv, Types
  <2>2. \A v \in Users : held[v] \subseteq runtime
    BY DEF IInv, RuntimeBitsAreOwned
  <2>3. runtime' = Driver' \cup UNION {held'[v] : v \in Users}
    <3>1. UNION {held'[v] : v \in Users} = (UNION {held[v] : v \in Users}) \cup (S \X {c})
      BY <2>1, <1>3
    <3> QED
      BY <3>1, <1>3, <1>5 DEF IInv, RuntimeBitsAreOwned
  <2>4. \A v \in Users : held'[v] \cap Driver' = {}
    BY <2>1, <1>4, <1>5 DEF IInv, RuntimeBitsAreOwned
  <2>5. \A v, w \in Users : v # w => held'[v] \cap held'[w] = {}
    BY <2>1, <2>2, <1>4 DEF IInv, RuntimeBitsAreOwned
  <2> QED
    BY <2>3, <2>4, <2>5 DEF RuntimeBitsAreOwned
<1> QED
  BY <1>5, <1>6, <1>7, <1>8 DEF IInv

LEMMA UserReleaseStep ==
    ASSUME NetAssumption, IInv, NEW u \in Users, UserRelease(u)
    PROVE  IInv' /\ Driver' = Driver
<1>1. /\ runtime' = runtime \ held[u]
      /\ held' = [held EXCEPT ![u] = {}]
      /\ UNCHANGED <<errors, lost, pc, bcId, RscsBC, RscsBCShim, BcastChannelId, BcastChannelIdShim>>
  BY DEF UserRelease, ReleaseBroadcastChannel, errnet, lists
<1>2. Own' = Own /\ Driver' = Driver
  BY <1>1 DEF Own, Driver
<1>3. Types'
  BY <1>1 DEF IInv, Types
<1>4. Held'
  BY <1>1, <1>2 DEF IInv, Held
<1>5. RuntimeBitsAreOwned'
  <2>1. /\ held'[u] = {}
        /\ \A v \in Users : v # u => held'[v] = held[v] /\ held[v] \cap held[u] = {}
    BY <1>1 DEF IInv, Types, RuntimeBitsAreOwned
  <2>2. runtime' = Driver' \cup UNION {held'[v] : v \in Users}
    <3>1. UNION {held'[v] : v \in Users} = (UNION {held[v] : v \in Users}) \ held[u]
      BY <2>1
    <3> QED
      BY <3>1, <1>1, <1>2 DEF IInv, RuntimeBitsAreOwned
  <2> QED
    BY <2>1, <2>2, <1>2 DEF IInv, RuntimeBitsAreOwned
<1> QED
  BY <1>2, <1>3, <1>4, <1>5 DEF IInv

----------------------------------------------------------------------------
(* The steps of XAie_SyncTimer. *)

LEMMA SyncTimerStep ==
    ASSUME NetAssumption, IInv, SyncTimer
    PROVE  IInv'
<1> DEFINE S == Ungated(Gen, tiles)
<1>1. S \in SUBSET Slots /\ FirstFree(S) \in Free(S, runtime) /\ FirstFree(S) \in Channels
  BY ModulesAreSlots, FirstFreeIsFree DEF SyncTimer
<1> DEFINE G == S \X {FirstFree(S)}
<1>2. G \subseteq Rscs /\ G \cap runtime = {}
  BY <1>1, GrantIsFree
<1>3. /\ RscsBC = {} /\ RscsBCShim = {} /\ RscsBC' = S /\ RscsBCShim' = {}
      /\ BcastChannelId' = FirstFree(S)
      /\ runtime' = runtime \cup G /\ pc = "Idle" /\ pc' = "RequestShim"
      /\ UNCHANGED <<held, errors, lost, bcId, BcastChannelIdShim>>
  BY DEF SyncTimer, Mark, errnet, IInv, Held
<1> HIDE DEF S
<1>4. Own = {} /\ Own' = G
  BY <1>3, NoListNoOwn DEF Own
<1> HIDE DEF G
<1>5. Driver' = Driver \cup G
  BY <1>3, <1>4 DEF Driver
<1>6. Types'
  BY <1>1, <1>3 DEF IInv, Types
<1>7. Driver \subseteq runtime
  BY DEF IInv, RuntimeBitsAreOwned
<1>8. Held'
  BY <1>2, <1>3, <1>4, <1>7 DEF IInv, Held, Driver
<1>9. RuntimeBitsAreOwned'
  BY <1>2, <1>3, <1>5, DriverReserves DEF IInv
<1> QED
  BY <1>6, <1>8, <1>9 DEF IInv

\* A call that ends keeps what it has reserved from everyone.
LEMMA AbandonStep ==
    ASSUME NetAssumption, IInv, NEW rc, pc # "Reserve", AbandonSync(rc), UNCHANGED <<runtime, held, errors, bcId>>
    PROVE  IInv'
<1>1. /\ RscsBC' = {} /\ RscsBCShim' = {} /\ BcastChannelId' = 0 /\ BcastChannelIdShim' = 0
      /\ pc' = "Idle" /\ lost' = lost \cup Own
  BY DEF AbandonSync, EndSync
<1>2. Own' = {} /\ Driver' = Driver
  BY <1>1, NoListNoOwnNext DEF Driver
<1>3. Types'
  BY <1>1, OwnIsRscs DEF IInv, Types, Channels, NetAssumption
<1>4. Held'
  BY <1>1, <1>2 DEF IInv, Held
<1> QED
  BY <1>2, <1>3, <1>4, DriverKeeps DEF IInv

LEMMA RequestShimStep ==
    ASSUME NetAssumption, IInv, RequestShim
    PROVE  IInv'
<1>1. CASE HasFree(ShimSlots)
  <2>1. FirstFree(ShimSlots) \in Free(ShimSlots, runtime) /\ FirstFree(ShimSlots) \in Channels
    BY <1>1, FirstFreeIsFree
  <2> DEFINE G == ShimSlots \X {FirstFree(ShimSlots)}
  <2>2. G \subseteq Rscs /\ G \cap runtime = {}
    BY <2>1, ModulesAreSlots, GrantIsFree
  <2>3. /\ RscsBCShim = {} /\ RscsBCShim' = ShimSlots
        /\ BcastChannelIdShim' = FirstFree(ShimSlots)
        /\ runtime' = runtime \cup G /\ pc = "RequestShim" /\ pc' = "Block"
        /\ UNCHANGED <<held, errors, lost, bcId, RscsBC, BcastChannelId>>
    BY <1>1 DEF RequestShim, Mark, errnet, IInv, Held
  <2>4. Own' = Own \cup G
    BY <2>3 DEF Own
  <2> HIDE DEF G
  <2>5. Driver' = Driver \cup G
    BY <2>3, <2>4 DEF Driver
  <2>6. Types'
    BY <2>1, <2>3, ModulesAreSlots DEF IInv, Types
  <2>7. Driver \subseteq runtime
    BY DEF IInv, RuntimeBitsAreOwned
  <2>8. Held'
    BY <2>2, <2>3, <2>4, <2>7 DEF IInv, Held, Driver
  <2>9. RuntimeBitsAreOwned'
    BY <2>2, <2>3, <2>5, DriverReserves DEF IInv
  <2> QED
    BY <2>6, <2>8, <2>9 DEF IInv
<1>2. CASE ~HasFree(ShimSlots)
  BY <1>2, AbandonStep DEF RequestShim, errnet
<1> QED
  BY <1>1, <1>2

LEMMA SyncLoopsStep ==
    ASSUME NetAssumption, IInv, SyncLoops
    PROVE  IInv'
<1>1. PICK loop \in DOMAIN NextLoop : SyncLoop(loop)
  BY DEF SyncLoops
<1>2. /\ loop \notin {"Idle", "Reserve", "Errors", "RequestShim"}
      /\ NextLoop[loop] \notin {"Idle", "Reserve", "Errors", "RequestShim"}
  BY DEF NextLoop
<1>3. pc = loop /\ UNCHANGED <<runtime, held, errors, bcId>>
  BY <1>1 DEF SyncLoop, bits, errnet
<1>4. CASE /\ pc' = loop \/ pc' = NextLoop[loop]
           /\ UNCHANGED <<lists, lost>>
  <2>1. Own' = Own /\ Driver' = Driver
    BY <1>3, <1>4 DEF lists, Own, Driver
  <2>2. Types'
    BY <1>3, <1>4 DEF IInv, Types, lists
  <2>3. Held'
    BY <1>2, <1>3, <1>4, <2>1 DEF IInv, Held, lists
  <2> QED
    BY <1>3, <2>1, <2>2, <2>3, DriverKeeps DEF IInv
<1>5. CASE AbandonSync(Returned(loop))
  BY <1>2, <1>3, <1>5, AbandonStep
<1> QED
  BY <1>1, <1>4, <1>5 DEF SyncLoop, Goes

LEMMA GenerateStep ==
    ASSUME NetAssumption, IInv, Generate
    PROVE  IInv'
<1>1. pc = "Generate" /\ UNCHANGED <<runtime, held, errors, bcId>>
  BY DEF Generate, bits, errnet
<1>2. CASE pc' = "ClearReset" /\ UNCHANGED <<lists, lost>>
  <2>1. Own' = Own /\ Driver' = Driver
    BY <1>1, <1>2 DEF lists, Own, Driver
  <2>2. Types' /\ Held'
    BY <1>1, <1>2, <2>1 DEF IInv, Types, Held, lists
  <2> QED
    BY <1>1, <2>1, <2>2, DriverKeeps DEF IInv
<1>3. CASE AbandonSync("error")
  BY <1>1, <1>3, AbandonStep
<1> QED
  BY <1>2, <1>3 DEF Generate

LEMMA ReleaseStep ==
    ASSUME NetAssumption, IInv, Release
    PROVE  IInv'
<1>1. /\ RscsBC' = {} /\ RscsBCShim' = {} /\ BcastChannelId' = 0 /\ BcastChannelIdShim' = 0
      /\ pc = "Release" /\ pc' = "Idle" /\ runtime' = runtime \ Own
      /\ UNCHANGED <<held, errors, lost, bcId>>
  BY DEF Release, EndSync, ReleaseBroadcastChannel, errnet
<1>2. Own' = {} /\ Driver' = Driver \ Own
  BY <1>1, NoListNoOwnNext DEF Driver, IInv, Held
<1>3. Types'
  BY <1>1 DEF IInv, Types, Channels, NetAssumption
<1>4. Held'
  BY <1>1, <1>2 DEF IInv, Held
<1>5. RuntimeBitsAreOwned'
  BY <1>1, <1>2, DriverReleases DEF IInv, Driver
<1> QED
  BY <1>3, <1>4, <1>5 DEF IInv

----------------------------------------------------------------------------
(* The steps of XAie_ErrorHandlingInit. *)

\* Whoever holds errors holds the error channel of the shims, which has to be free.
LEMMA ErrorsFree ==
    ASSUME NetAssumption, IInv, ErrorHandlingInit
    PROVE  errors = {}
<1>1. 0 \in Free(Ungated(Gen, tiles), runtime)
  BY DEF ErrorHandlingInit
<1>2. PICK s \in ShimSlots : <<s, 0>> \notin runtime
  BY <1>1, ModulesAreSlots DEF Free
<1>3. Driver \subseteq runtime
  BY DEF IInv, RuntimeBitsAreOwned
<1> QED
  BY <1>2, <1>3 DEF IInv, Held, Driver

LEMMA ErrorHandlingInitStep ==
    ASSUME NetAssumption, IInv, ErrorHandlingInit
    PROVE  IInv'
<1> DEFINE S == Ungated(Gen, tiles)
           G == S \X {0}
<1>1. 0 \in Free(S, runtime) /\ S \in SUBSET Slots /\ ShimSlots \subseteq S /\ ShimSlots # {}
  BY ModulesAreSlots DEF ErrorHandlingInit
<1> HIDE DEF S
<1>2. G \subseteq Rscs /\ G \cap runtime = {} /\ ShimSlots \X {0} \subseteq G
  BY <1>1, GrantIsFree
<1>3. /\ pc = "Idle" /\ pc' = "Reserve" /\ runtime' = runtime \cup G /\ errors' = G
      /\ UNCHANGED <<held, lost, bcId, RscsBC, RscsBCShim, BcastChannelId, BcastChannelIdShim>>
  BY DEF ErrorHandlingInit, Mark, lists, S
<1>4. Driver \subseteq runtime
  BY DEF IInv, RuntimeBitsAreOwned
<1>5. errors = {}
  BY ErrorsFree
<1>6. Own' = Own /\ Driver' = Driver \cup G
  BY <1>3, <1>5 DEF Own, Driver
<1>7. Types'
  BY <1>2, <1>3 DEF IInv, Types
<1>8. Held'
  <2>1. bcId = 1 /\ Own = {}
    BY <1>3, NoListNoOwn DEF IInv, Held
  <2>2. ShimSlots \X (0..bcId'-1) \subseteq errors'
    BY <2>1, <1>2, <1>3
  <2>3. bcId' <= MaxErrorBcIdsRvd
    BY <2>1, <1>3 DEF NetAssumption
  <2>4. errors' \cap lost' = {} /\ Own' = {}
    BY <2>1, <1>2, <1>3, <1>4, <1>6 DEF Driver
  <2> QED
    BY <2>2, <2>3, <2>4, <1>2, <1>3 DEF IInv, Held
<1>9. RuntimeBitsAreOwned'
  BY <1>2, <1>3, <1>6, DriverReserves DEF IInv
<1> QED
  BY <1>7, <1>8, <1>9 DEF IInv

\* The roll back releases no more than the call has reserved.
LEMMA RollBackIsHeld ==
    ASSUME NetAssumption, IInv, pc = "Reserve"
    PROVE  RollBack(bcId) \subseteq errors
<1>1. bcId \in Nat \ {0} /\ ShimSlots \X (0..bcId-1) \subseteq errors
  BY DEF IInv, Types, Held
<1>2. ASSUME bcId # 1, NEW s \in ShimSlots, NEW j \in 1..bcId-1
      PROVE  <<s, IF s[1] = bcId THEN j ELSE bcId - 1>> \in errors
  BY <1>1, <1>2
<1> QED
  BY <1>1, <1>2 DEF RollBack

LEMMA ReserveShimStep ==
    ASSUME NetAssumption, IInv, ReserveShim
    PROVE  IInv'
<1> USE DEF lists
<1>1. /\ pc = "Reserve" /\ bcId < MaxErrorBcIdsRvd /\ bcId \in Channels
      /\ ShimSlots \X (0..bcId-1) \subseteq errors
      /\ Own = {}
      /\ UNCHANGED <<held, RscsBC, RscsBCShim, BcastChannelId, BcastChannelIdShim>>
  BY NoListNoOwn DEF ReserveShim, IInv, Types, Held, NetAssumption, Channels
<1>2. Own' = {}
  BY <1>1, NoListNoOwnNext DEF IInv, Held
<1>3. CASE bcId \in Free(ShimSlots, runtime)
  <2> DEFINE G == ShimSlots \X {bcId}
  <2>1. G \subseteq Rscs /\ G \cap runtime = {}
    BY <1>3, ModulesAreSlots, GrantIsFree
  <2>2. /\ runtime' = runtime \cup G /\ errors' = errors \cup G
        /\ bcId' = bcId + 1 /\ UNCHANGED <<lost, pc>>
    BY <1>3 DEF ReserveShim, Mark
  <2>3. ShimSlots \X (0..bcId'-1) \subseteq errors'
    <3>1. 0..bcId'-1 = (0..bcId-1) \cup {bcId}
      BY <2>2, <1>1 DEF Channels
    <3>2. ShimSlots \X (0..bcId'-1) = (ShimSlots \X (0..bcId-1)) \cup G
      BY <3>1
    <3> QED
      BY <3>2, <1>1, <2>2
  <2>4. ShimSlots \X {0} \subseteq errors'
    BY <1>1, <2>2 DEF IInv, Types
  <2> HIDE DEF G
  <2>5. Driver' = Driver \cup G
    BY <1>1, <1>2, <2>2 DEF Driver
  <2>6. Types'
    BY <1>1, <2>1, <2>2 DEF IInv, Types
  <2>7. Driver \subseteq runtime
    BY DEF IInv, RuntimeBitsAreOwned
  <2>8. Held'
    <3>1. errors' \cap lost' = {}
      BY <2>1, <2>2, <2>7 DEF IInv, Held, Driver
    <3>2. bcId' <= MaxErrorBcIdsRvd
      BY <1>1, <2>2 DEF IInv, Types, NetAssumption
    <3> QED
      BY <3>1, <3>2, <1>1, <1>2, <2>2, <2>3, <2>4 DEF IInv, Held
  <2>9. RuntimeBitsAreOwned'
    BY <1>1, <2>1, <2>2, <2>5, DriverReserves DEF IInv
  <2> QED
    BY <2>6, <2>8, <2>9 DEF IInv
<1>4. CASE bcId \notin Free(ShimSlots, runtime)
  <2> DEFINE G == RollBack(bcId)
  <2>1. G \subseteq errors
    BY <1>1, RollBackIsHeld
  <2>2. /\ runtime' = runtime \ G /\ errors' = {} /\ lost' = lost \cup (errors \ G)
        /\ pc' = "Idle" /\ bcId' = 1
    BY <1>4 DEF ReserveShim, ReleaseBroadcastChannel
  <2> HIDE DEF G
  <2>3. Driver' = Driver \ G
    BY <1>1, <1>2, <2>1, <2>2 DEF Driver, IInv, Held
  <2>4. Types'
    BY <1>1, <2>2 DEF IInv, Types
  <2>5. Held'
    BY <1>1, <1>2, <2>2 DEF IInv, Held
  <2>6. RuntimeBitsAreOwned'
    BY <1>1, <2>1, <2>2, <2>3, DriverReleases DEF IInv, Driver
  <2> QED
    BY <2>4, <2>5, <2>6 DEF IInv
<1> QED
  BY <1>3, <1>4

----------------------------------------------------------------------------
\* The other steps neither reserve nor release a channel.
LEMMA KeepStep ==
    ASSUME NetAssumption, IInv, UNCHANGED <<runtime, held, errors, lost, lists>>,
           \/ UNCHANGED <<pc, bcId>>
           \/ pc = "Reserve" /\ pc' = "Errors" /\ bcId' = 1
           \/ pc = "Errors" /\ pc' = "Idle" /\ bcId' = bcId
    PROVE  IInv'
<1>1. Own' = Own /\ Driver' = Driver
  BY DEF lists, Own, Driver
<1>2. Types'
  BY DEF IInv, Types, lists
<1>3. Held'
  BY <1>1 DEF IInv, Held, lists
<1> QED
  BY <1>1, <1>2, <1>3, DriverKeeps DEF IInv

LEMMA ErrorStepStep ==
    ASSUME NetAssumption, IInv, ErrorStep
    PROVE  IInv'
<1>1. CASE ErrorHandlingInit
  BY <1>1, ErrorHandlingInitStep
<1>2. CASE ReserveShim
  BY <1>2, ReserveShimStep
<1>3. CASE Reserved
  BY <1>3, KeepStep DEF Reserved, bits, errnet
<1>4. CASE ErrorsWritten
  <2>1. /\ pc = "Errors" /\ UNCHANGED <<runtime, held, errors, lost, lists>>
        /\ bcId' = bcId /\ pc' \in {pc, "Idle"}
    BY <1>4 DEF ErrorsWritten, Goes, bits
  <2> QED
    BY <2>1, KeepStep
<1> QED
  BY <1>1, <1>2, <1>3, <1>4 DEF ErrorStep

LEMMA SyncStepStep ==
    ASSUME NetAssumption, IInv, SyncStep
    PROVE  IInv'
BY SyncTimerStep, RequestShimStep, SyncLoopsStep, GenerateStep, ReleaseStep DEF SyncStep

\* A step keeps the invariant, and serves the driver or one of the users.
LEMMA NextStep ==
    ASSUME NetAssumption, IInv, [Next]_vars
    PROVE  /\ IInv'
           /\ \/ held' = held
              \/ \E u \in Users : Driver' = Driver /\ \A v \in Users \ {u} : held'[v] = held[v]
<1>1. CASE \E u \in Users : UserRelease(u) \/ \E r \in Requests : UserRequest(u, r)
  <2>1. PICK u \in Users : UserRelease(u) \/ \E r \in Requests : UserRequest(u, r)
    BY <1>1
  <2>2. IInv' /\ Driver' = Driver
    BY <2>1, UserRequestStep, UserReleaseStep
  <2>3. \A v \in Users \ {u} : held'[v] = held[v]
    BY <2>1 DEF UserRequest, UserRelease, IInv, Types
  <2> QED
    BY <2>2, <2>3
<1>2. CASE LoadStatic
  BY <1>2, KeepStep DEF LoadStatic, errnet
<1>3. CASE \E T \in TileSets : RequestTiles(T)
  BY <1>3, KeepStep DEF RequestTiles, bits, errnet
<1>4. CASE SyncStep
  <2>1. held' = held
    BY <1>4 DEF SyncStep, SyncTimer, RequestShim, SyncLoops, SyncLoop, Generate, Release
  <2> QED
    BY <1>4, <2>1, SyncStepStep
<1>5. CASE ErrorStep
  <2>1. held' = held
    BY <1>5 DEF ErrorStep, ErrorHandlingInit, ReserveShim, Reserved, ErrorsWritten
  <2> QED
    BY <1>5, <2>1, ErrorStepStep
<1>6. CASE UNCHANGED vars
  BY <1>6, KeepStep DEF vars, bits, errnet
<1> QED
  BY <1>1, <1>2, <1>3, <1>4, <1>5, <1>6 DEF Next

LEMMA InitStep ==
    ASSUME NetAssumption, Init
    PROVE  IInv /\ Driver = {}
<1>1. /\ RscsBC = {} /\ RscsBCShim = {} /\ BcastChannelId = 0 /\ BcastChannelIdShim = 0
      /\ errors = {} /\ lost = {} /\ runtime = {} /\ held = [u \in Users |-> {}]
      /\ pc = "Idle" /\ bcId = 1
  BY DEF Init
<1>2. Own = {} /\ Driver = {}
  BY <1>1, NoListNoOwn DEF Driver
<1>3. Types
  BY <1>1 DEF Types, Channels, NetAssumption
<1>4. Held
  BY <1>1, <1>2 DEF Held
<1>5. RuntimeBitsAreOwned
  BY <1>1, <1>2 DEF RuntimeBitsAreOwned
<1> QED
  BY <1>2, <1>3, <1>4, <1>5 DEF IInv

----------------------------------------------------------------------------
\* IInv is invariant.
THEOREM Invariance == Spec => []IInv
<1> USE NetAssumption
<1>1. Init => IInv
  BY InitStep
<1>2. IInv /\ [Next]_vars => IInv'
  BY NextStep
<1> QED
  BY <1>1, <1>2, PTL DEF Spec

\* Every reserved channel of every module has one owner, whatever calls fail and
\* whatever the roll back of XAie_ErrorHandlingReserveRsc leaves behind.
THEOREM RuntimeBitsAreOwnedHolds == Spec => []RuntimeBitsAreOwned
<1>1. IInv => RuntimeBitsAreOwned
  BY DEF IInv
<1> QED
  BY <1>1, Invariance, PTL

\* What Types leaves out of TypeOK: no step disturbs it.
Others ==
    /\ Gen \in Gens /\ tiles \in TileSets /\ static \subseteq Rscs
    /\ errs \in {"off", "on", "failed"} /\ result \in {"none", "ok", "error"}
    /\ faults \in 0..MaxFaults

LEMMA OthersStep ==
    ASSUME NetAssumption, Others, [Next]_vars
    PROVE  Others'
<1> USE DEF device, errnet, bits, lists
<1>1. faults \in Nat /\ MaxFaults \in Nat
  BY DEF Others, NetAssumption
<1>2. ASSUME NEW loop, NEW at, Refuses(loop, at) PROVE faults' \in 0..MaxFaults
  BY <1>1, <1>2 DEF Refuses
<1>3. CASE \E u \in Users : UserRelease(u) \/ \E r \in Requests : UserRequest(u, r)
  BY <1>3 DEF UserRelease, UserRequest, ReleaseBroadcastChannel, Forget, Others
<1>4. CASE LoadStatic
  <2>1. SlotsOf(Gen, StaticTiles) \X {0} \subseteq Rscs
    BY ModulesAreSlots DEF Rscs, Channels, NetAssumption
  <2> QED
    BY <1>4, <2>1 DEF LoadStatic, Forget, Others
<1>5. CASE \E T \in TileSets : RequestTiles(T)
  BY <1>5 DEF RequestTiles, Forget, Others
<1>6. CASE SyncTimer \/ RequestShim \/ Release
  BY <1>6 DEF SyncTimer, RequestShim, Release, AbandonSync, EndSync, ReleaseBroadcastChannel, Forget, Others
<1>7. CASE SyncLoops
  <2>1. PICK loop \in DOMAIN NextLoop : SyncLoop(loop)
    BY <1>7 DEF SyncLoops
  <2>2. UNCHANGED <<Gen, tiles, static, errs>>
    BY <2>1 DEF SyncLoop
  <2>3. result' = result \/ result' = Returned(loop)
    BY <2>1 DEF SyncLoop, AbandonSync, EndSync
  <2>4. faults' = faults \/ \E at : Refuses(loop, at)
    BY <2>1 DEF SyncLoop, Goes, Done
  <2> QED
    BY <2>2, <2>3, <2>4, <1>2 DEF Returned, Others
<1>8. CASE Generate
  BY <1>2, <1>8 DEF Generate, AbandonSync, EndSync, Others
<1>9. CASE ErrorHandlingInit \/ ReserveShim \/ Reserved
  BY <1>9 DEF ErrorHandlingInit, ReserveShim, Reserved, ReleaseBroadcastChannel, Forget, Others
<1>10. CASE ErrorsWritten
  <2>1. UNCHANGED <<Gen, tiles, static, result>> /\ errs' \in {errs, "failed", "on"}
    BY <1>10 DEF ErrorsWritten
  <2>2. faults' = faults \/ \E at : Refuses(pc, at)
    BY <1>10 DEF ErrorsWritten, Goes, Done
  <2> QED
    BY <2>1, <2>2, <1>2 DEF Others
<1>11. CASE UNCHANGED vars
  BY <1>11 DEF vars, Others
<1> QED
  BY <1>3, <1>4, <1>5, <1>6, <1>7, <1>8, <1>9, <1>10, <1>11 DEF Next, SyncStep, ErrorStep

\* The variables stay in the sets the code gives them: what is reserved are
\* channels of modules, and a call has one channel of each kind.
THEOREM TypeOKHolds == Spec => []TypeOK
<1> USE NetAssumption
<1>1. Init => Others
  BY DEF Init, Others, NetAssumption
<1>2. Others /\ [Next]_vars => Others'
  BY OthersStep
<1>3. IInv /\ Others => TypeOK
  <2> SUFFICES ASSUME IInv, Others PROVE TypeOK
    OBVIOUS
  <2>1. runtime \subseteq Rscs
    BY OwnIsRscs DEF Driver, IInv, Types, RuntimeBitsAreOwned
  <2>2. bcId \in 1..MaxErrorBcIdsRvd
    BY DEF IInv, Types, Held, NetAssumption
  <2> QED
    BY <2>1, <2>2 DEF TypeOK, IInv, Types, Others
<1> QED
  BY <1>1, <1>2, <1>3, Invariance, PTL DEF Spec

\* What each owner has, seen as the pool.
LEMMA OwnedAre ==
    ASSUME NetAssumption, IInv
    PROVE  /\ owned \in [Owners -> SUBSET Rscs]
           /\ owned["driver"] = Driver /\ \A u \in Users : owned[u] = held[u]
           /\ \A o, p \in Owners : o # p => owned[o] \cap owned[p] = {}
<1>1. Driver \subseteq Rscs /\ \A u \in Users : held[u] \subseteq Rscs
  BY OwnIsRscs DEF Driver, IInv, Types
<1>2. "driver" \notin Users
  BY DEF NetAssumption
<1> QED
  BY <1>1, <1>2 DEF owned, Owners, IInv, RuntimeBitsAreOwned

\* The same after a step.
LEMMA OwnedAreNext ==
    ASSUME NetAssumption, IInv'
    PROVE  /\ owned' \in [Owners -> SUBSET Rscs]
           /\ owned'["driver"] = Driver' /\ \A u \in Users : owned'[u] = held'[u]
           /\ \A o, p \in Owners : o # p => owned'[o] \cap owned'[p] = {}
<1>1. Own' \subseteq Rscs
  BY DEF Own, Rscs, IInv, Types
<1>2. Driver' \subseteq Rscs /\ \A u \in Users : held'[u] \subseteq Rscs
  BY <1>1 DEF Driver, IInv, Types
<1>3. "driver" \notin Users
  BY DEF NetAssumption
<1> QED
  BY <1>2, <1>3 DEF owned, Owners, IInv, RuntimeBitsAreOwned

\* A step that changes what one owner has serves him.
LEMMA ServeStep ==
    ASSUME NetAssumption, IInv, IInv',
           NEW o \in Owners, \A p \in Owners \ {o} : owned'[p] = owned[p]
    PROVE  Pool!Serve(o)
<1>1. owned' \in [Owners -> SUBSET Rscs] /\ \A p \in Owners : o # p => owned'[o] \cap owned'[p] = {}
  BY OwnedAreNext
<1> QED
  BY <1>1 DEF Pool!Serve

\* Requests, releases, synchronizations of the timers and set ups of the error
\* network implement a pool in which every call serves one owner, and takes nothing
\* from another.
THEOREM ImplementsPoolHolds == Spec => ImplementsPool
<1> USE NetAssumption
<1>1. Init => Pool!Init
  <2> SUFFICES ASSUME Init PROVE Pool!Init
    OBVIOUS
  <2>1. Driver = {} /\ held = [u \in Users |-> {}]
    BY InitStep DEF Init
  <2> QED
    BY <2>1 DEF Pool!Init, owned, Owners
<1>2. IInv /\ IInv' /\ [Next]_vars => [Pool!Next]_owned
  <2> SUFFICES ASSUME IInv, IInv', [Next]_vars PROVE Pool!Next
    OBVIOUS
  <2>1. /\ owned["driver"] = Driver /\ \A u \in Users : owned[u] = held[u]
        /\ owned'["driver"] = Driver' /\ \A u \in Users : owned'[u] = held'[u]
    BY OwnedAre, OwnedAreNext
  <2>2. \E o \in Owners : \A p \in Owners \ {o} : owned'[p] = owned[p]
    BY <2>1, NextStep DEF Owners
  <2> QED
    BY <2>2, ServeStep DEF Pool!Next
<1> QED
  BY <1>1, <1>2, Invariance, PTL DEF Spec, ImplementsPool, Pool!Spec

----------------------------------------------------------------------------
(* Where a call is, and what it works on. *)

Cleaning == {"ClearReset", "Unblock", "ClearShim", "ClearFirst"}
Setting == {"Block", "Arm", "SetReset"}
Syncing == {"RequestShim", "Generate", "Release"} \cup Setting \cup Cleaning

\* XAie_SyncTimer works on all modules in use and on two channels, and the error
\* network holds the channels it writes to as long as it is set up.
Phase ==
    /\ Gen \in Gens /\ tiles \in TileSets
    /\ pc \in {"Idle", "Reserve", "Errors"} \cup Syncing
    /\ pc \in {"Idle", "RequestShim", "Generate", "Release", "Reserve"} => pos = Start
    /\ pc \in Syncing => RscsBC = Ungated(Gen, tiles)
    /\ pc \in Syncing \ {"RequestShim"} => RscsBCShim = ShimSlots /\ BcastChannelId # BcastChannelIdShim
    /\ pc \in {"Reserve", "Errors"} => /\ wired = tiles /\ errs = "off"
                                      /\ Ungated(Gen, tiles) \X {0} \subseteq errors
    /\ pc = "Errors" \/ errs # "off" => ShimSlots \X (0..MaxErrorBcIdsRvd-1) \subseteq errors
    /\ errs # "off" => wired \in TileSets /\ wired \subseteq tiles /\ SlotsOf(Gen, wired) \X {0} \subseteq errors

LEMMA PhaseInit ==
    ASSUME NetAssumption, Init
    PROVE  Phase
BY DEF Init, Phase, Syncing, Setting, Cleaning

\* The error network is set up once.
LEMMA ErrorsOff ==
    ASSUME NetAssumption, Phase, errors = {}
    PROVE  errs = "off"
<1>1. 0 \in 0..MaxErrorBcIdsRvd-1
  BY DEF NetAssumption
<1>2. PICK s : s \in ShimSlots
  BY ModulesAreSlots
<1>3. <<s, 0>> \in ShimSlots \X (0..MaxErrorBcIdsRvd-1)
  BY <1>1, <1>2
<1> QED
  BY <1>3 DEF Phase

\* A call that synchronizes the timers ends.
LEMMA PhaseEnd ==
    ASSUME NetAssumption, Phase, pc \in Syncing, NEW rc, EndSync(rc), UNCHANGED <<Gen, tiles, errors, errs, wired>>
    PROVE  Phase'
BY DEF EndSync, Phase, Syncing, Setting, Cleaning

LEMMA PhaseSync ==
    ASSUME NetAssumption, IInv, Phase, SyncStep
    PROVE  Phase'
<1> USE DEF device, errnet, bits, lists
<1>1. CASE SyncTimer
  BY <1>1 DEF SyncTimer, Phase, Syncing, Setting, Cleaning
<1>2. CASE RequestShim /\ HasFree(ShimSlots)
  <2> DEFINE c == FirstFree(ShimSlots)
  <2>1. c \in Free(ShimSlots, runtime)
    BY <1>2, FirstFreeIsFree
  <2>2. PICK s : s \in ShimSlots /\ s \in RscsBC
    BY <1>2, ModulesAreSlots DEF RequestShim, Phase, Syncing
  <2>3. <<s, BcastChannelId>> \in runtime /\ <<s, c>> \notin runtime
    <3>1. <<s, BcastChannelId>> \in Own
      BY <2>2 DEF Own
    <3> QED
      BY <3>1, <2>1, <2>2 DEF Free, IInv, RuntimeBitsAreOwned, Driver
  <2>4. c # BcastChannelId
    BY <2>3
  <2>5. /\ RscsBCShim' = ShimSlots /\ BcastChannelIdShim' = c /\ pc = "RequestShim" /\ pc' = "Block"
        /\ UNCHANGED <<Gen, tiles, errors, errs, wired, RscsBC, BcastChannelId>>
    BY <1>2 DEF RequestShim
  <2> HIDE DEF c
  <2> QED
    BY <2>4, <2>5 DEF Phase, Syncing, Setting, Cleaning
<1>3. CASE RequestShim /\ ~HasFree(ShimSlots)
  BY <1>3, PhaseEnd DEF RequestShim, AbandonSync, Syncing
<1>4. CASE SyncLoops
  <2>1. PICK loop \in DOMAIN NextLoop : SyncLoop(loop)
    BY <1>4 DEF SyncLoops
  <2>2. pc = loop /\ UNCHANGED <<Gen, tiles, errors, errs, wired>>
    BY <2>1 DEF SyncLoop
  <2>3. loop \in Setting \cup Cleaning /\ NextLoop[loop] \in Syncing \ {"RequestShim"}
    BY DEF NextLoop, Syncing, Setting, Cleaning
  <2>4. CASE AbandonSync(Returned(loop))
    BY <2>2, <2>3, <2>4, PhaseEnd DEF AbandonSync, Syncing
  <2>5. CASE pc' = pc /\ UNCHANGED lists
    BY <2>2, <2>3, <2>5 DEF Phase, Syncing, Setting, Cleaning
  <2>6. CASE pc' = NextLoop[loop] /\ pos' = Start /\ UNCHANGED lists
    BY <2>2, <2>3, <2>6 DEF Phase, Syncing, Setting, Cleaning
  <2> QED
    BY <2>1, <2>4, <2>5, <2>6 DEF SyncLoop, Goes
<1>5. CASE Generate
  <2>1. CASE AbandonSync("error")
    BY <1>5, <2>1, PhaseEnd DEF Generate, AbandonSync, Syncing
  <2>2. CASE pc' = "ClearReset" /\ UNCHANGED lists
    BY <1>5, <2>2 DEF Generate, Phase, Syncing, Setting, Cleaning
  <2> QED
    BY <1>5, <2>1, <2>2 DEF Generate
<1>6. CASE Release
  BY <1>6, PhaseEnd DEF Release, Syncing
<1> QED
  BY <1>1, <1>2, <1>3, <1>4, <1>5, <1>6 DEF SyncStep

LEMMA PhaseErrors ==
    ASSUME NetAssumption, IInv, Phase, ErrorStep
    PROVE  Phase'
<1> USE DEF device, errnet, bits, lists
<1>1. CASE ErrorHandlingInit
  <2>1. errs = "off"
    <3>1. errors = {}
      BY <1>1, ErrorsFree
    <3> QED
      BY <3>1, ErrorsOff
  <2> QED
    BY <1>1, <2>1 DEF ErrorHandlingInit, Phase, Syncing, Setting, Cleaning
<1>2. CASE ReserveShim
  BY <1>2 DEF ReserveShim, Phase, Syncing, Setting, Cleaning
<1>3. CASE Reserved
  <2>1. ShimSlots \X (0..MaxErrorBcIdsRvd-1) \subseteq errors
    BY <1>3 DEF Reserved, IInv, Held
  <2> QED
    BY <1>3, <2>1 DEF Reserved, Phase, Syncing, Setting, Cleaning
<1>4. CASE ErrorsWritten
  <2>1. wired = tiles /\ SlotsOf(Gen, wired) \X {0} \subseteq errors
    <3>1. SlotsOf(Gen, tiles) \subseteq Ungated(Gen, tiles)
      BY DEF Ungated
    <3>2. wired = tiles /\ Ungated(Gen, tiles) \X {0} \subseteq errors
      BY <1>4 DEF ErrorsWritten, Phase
    <3> QED
      BY <3>1, <3>2
  <2>2. /\ pc = "Errors" /\ pc' \in {"Errors", "Idle"}
        /\ pc' = "Idle" => pos' = Start
        /\ pc' = "Errors" => errs' = errs
        /\ UNCHANGED <<Gen, tiles, errors, wired, RscsBC, RscsBCShim, BcastChannelId, BcastChannelIdShim>>
    BY <1>4 DEF ErrorsWritten, Goes
  <2>3. CASE pc' = "Errors"
    BY <2>2, <2>3 DEF Phase, Syncing, Setting, Cleaning
  <2>4. CASE pc' = "Idle"
    <3>1. SlotsOf(Gen', wired') \X {0} \subseteq errors' /\ wired' \in TileSets /\ wired' \subseteq tiles'
      BY <2>1, <2>2 DEF Phase
    <3>2. ShimSlots \X (0..MaxErrorBcIdsRvd-1) \subseteq errors'
      BY <2>2 DEF Phase
    <3> QED
      BY <2>2, <2>4, <3>1, <3>2 DEF Phase, Syncing, Setting, Cleaning
  <2> QED
    BY <2>2, <2>3, <2>4
<1> QED
  BY <1>1, <1>2, <1>3, <1>4 DEF ErrorStep

LEMMA PhaseStep ==
    ASSUME NetAssumption, IInv, Phase, [Next]_vars
    PROVE  Phase'
<1> USE DEF device, errnet, bits, lists
<1>1. CASE \E u \in Users : UserRelease(u) \/ \E r \in Requests : UserRequest(u, r)
  BY <1>1 DEF UserRelease, UserRequest, Phase, Syncing, Setting, Cleaning
<1>2. CASE LoadStatic
  BY <1>2 DEF LoadStatic, Phase, Syncing, Setting, Cleaning
<1>3. CASE \E T \in TileSets : RequestTiles(T)
  <2>1. PICK T \in TileSets : RequestTiles(T)
    BY <1>3
  <2> QED
    BY <2>1 DEF RequestTiles, Phase, Syncing, Setting, Cleaning
<1>4. CASE UNCHANGED vars
  BY <1>4 DEF vars, Phase
<1> QED
  BY <1>1, <1>2, <1>3, <1>4, PhaseSync, PhaseErrors DEF Next

----------------------------------------------------------------------------
(* The writes of the loops. *)

zero == <<0, ShimRow, "PL">>

LEMMA BlockWrites ==
    \A l : l \in SyncWrites("Block") <=>
        \E s \in Above(RscsBC), d \in Dirs : /\ d \in BlockDirs(s)
                                            /\ l = [at |-> At(s, DirNo[d]), w |-> Block(s, 0, {BcastChannelId}, d)]
<1>1. SyncWrites("Block") =
          {[at |-> At(x[1], DirNo[x[2]]), w |-> Block(x[1], 0, {BcastChannelId}, x[2])] :
              x \in {y \in Above(RscsBC) \X Dirs : y[2] \in BlockDirs(y[1])}}
  BY DEF SyncWrites
<1>2. ASSUME NEW s \in Above(RscsBC), NEW d \in Dirs, d \in BlockDirs(s)
      PROVE  [at |-> At(s, DirNo[d]), w |-> Block(s, 0, {BcastChannelId}, d)] \in SyncWrites("Block")
  <2>1. <<s, d>> \in {y \in Above(RscsBC) \X Dirs : y[2] \in BlockDirs(y[1])}
    BY <1>2
  <2>2. <<s, d>>[1] = s /\ <<s, d>>[2] = d
    OBVIOUS
  <2> QED
    BY <1>1, <2>1, <2>2
<1>3. ASSUME NEW l \in SyncWrites("Block")
      PROVE  \E s \in Above(RscsBC), d \in Dirs :
                 /\ d \in BlockDirs(s)
                 /\ l = [at |-> At(s, DirNo[d]), w |-> Block(s, 0, {BcastChannelId}, d)]
  <2>1. PICK x \in Above(RscsBC) \X Dirs :
            /\ x[2] \in BlockDirs(x[1])
            /\ l = [at |-> At(x[1], DirNo[x[2]]), w |-> Block(x[1], 0, {BcastChannelId}, x[2])]
    BY <1>1
  <2>2. x[1] \in Above(RscsBC) /\ x[2] \in Dirs
    OBVIOUS
  <2> QED
    BY <2>1, <2>2
<1> QED
  BY <1>2, <1>3

LEMMA BlockIs ==
    ASSUME NEW s, NEW sw, NEW c, NEW d
    PROVE  /\ Block(s, sw, {c}, d).clr = {} /\ Block(s, sw, {c}, d).set = {<<"block", s, c, sw, d>>}
           /\ Block(s, sw, {c}, d).must
BY DEF Block, Write

LEMMA ArmWrites ==
    \A l : l \in SyncWrites("Arm") <=>
        \/ \E s \in ShimSlots :
              l = [at |-> At(s, 1), w |-> IF s = zero THEN Ignored(EventBroadcast(s, BcastChannelId, BcastChannelIdShim))
                                                     ELSE EventBroadcast(s, BcastChannelId, BcastChannelIdShim)]
        \/ l = [at |-> <<0, ShimRow, 2, 1>>, w |-> EventBroadcast(zero, BcastChannelIdShim, BcastChannelIdShim)]
BY DEF SyncWrites, zero

LEMMA ResetWrites ==
    \A l : l \in SyncWrites("SetReset") <=>
        \E s \in RscsBC : l = [at |-> At(s, 1), w |-> SetTimerResetEvent(s, {<<"reset", s, BcastChannelId>>})]
BY DEF SyncWrites

LEMMA ClearResetWrites ==
    \A l : l \in SyncWrites("ClearReset") <=>
        \E s \in RscsBC : l = [at |-> At(s, 1), w |-> SetTimerResetEvent(s, {})]
BY DEF SyncWrites

LEMMA UnblockWrites ==
    \A l : l \in SyncWrites("Unblock") <=>
        \E s \in Above(RscsBC), d \in {"W", "E"} :
            l = [at |-> At(s, DirNo[d]), w |-> Unblock(s, 0, BcastChannelId, d)]
<1>1. SyncWrites("Unblock") =
          {[at |-> At(x[1], DirNo[x[2]]), w |-> Unblock(x[1], 0, BcastChannelId, x[2])] :
              x \in Above(RscsBC) \X {"W", "E"}}
  BY DEF SyncWrites
<1>2. ASSUME NEW s \in Above(RscsBC), NEW d \in {"W", "E"}
      PROVE  [at |-> At(s, DirNo[d]), w |-> Unblock(s, 0, BcastChannelId, d)] \in SyncWrites("Unblock")
  <2>1. <<s, d>> \in Above(RscsBC) \X {"W", "E"} /\ <<s, d>>[1] = s /\ <<s, d>>[2] = d
    OBVIOUS
  <2> QED
    BY <1>1, <2>1
<1>3. ASSUME NEW l \in SyncWrites("Unblock")
      PROVE  \E s \in Above(RscsBC), d \in {"W", "E"} :
                 l = [at |-> At(s, DirNo[d]), w |-> Unblock(s, 0, BcastChannelId, d)]
  <2>1. PICK x \in Above(RscsBC) \X {"W", "E"} :
            l = [at |-> At(x[1], DirNo[x[2]]), w |-> Unblock(x[1], 0, BcastChannelId, x[2])]
    BY <1>1
  <2>2. x[1] \in Above(RscsBC) /\ x[2] \in {"W", "E"}
    OBVIOUS
  <2> QED
    BY <2>1, <2>2
<1> QED
  BY <1>2, <1>3

LEMMA ClearShimWrites ==
    /\ \A l : l \in SyncWrites("ClearShim") <=>
            \E s \in ShimSlots : l = [at |-> At(s, 1), w |-> EventNone(s, BcastChannelId)]
    /\ \A l : l \in SyncWrites("ClearFirst") <=>
            l = [at |-> At(zero, 1), w |-> EventNone(zero, BcastChannelIdShim)]
BY DEF SyncWrites, zero

\* A loop begins with all of its writes left.
LEMMA StartBefore ==
    ASSUME NEW p, p[1] \in Nat
    PROVE  Before(Start, p)
<1>1. Start[1] < p[1] /\ 1 \in DOMAIN Start
  BY DEF Start
<1>2. \A j \in 1..1-1 : Start[j] = p[j]
  OBVIOUS
<1> QED
  BY <1>1, <1>2 DEF Before

LEMMA PlacesAre ==
    ASSUME NetAssumption, RscsBC \subseteq Slots, NEW loop \in Setting \cup Cleaning
    PROVE  \A l \in SyncWrites(loop) : l.at[1] \in Nat
<1>1. \A s \in Slots : s[1] \in Nat
  BY DEF Slots, ColRange
<1>2. \A s \in Slots : \A k : At(s, k)[1] \in Nat
  BY <1>1 DEF At
<1>3. Above(RscsBC) \subseteq Slots /\ ShimSlots \subseteq Slots
  BY ModulesAreSlots DEF Above
<1>4. zero \in Slots
  BY DEF zero, Slots, ColRange, Rows, ShimRow, NetAssumption
<1>5. ASSUME NEW l \in SyncWrites(loop) PROVE l.at[1] \in Nat
  <2>1. CASE loop = "Block"
    BY <1>2, <1>3, <1>5, <2>1, BlockWrites
  <2>2. CASE loop = "Arm"
    <3>1. l \in SyncWrites("Arm")
      BY <1>5, <2>2
    <3>2. (\E s \in ShimSlots : l.at = At(s, 1)) \/ l.at = <<0, ShimRow, 2, 1>>
      BY <3>1, ArmWrites
    <3>3. CASE \E s \in ShimSlots : l.at = At(s, 1)
      BY <1>2, <1>3, <3>3
    <3>4. CASE l.at = <<0, ShimRow, 2, 1>>
      BY <3>4
    <3> QED
      BY <3>2, <3>3, <3>4
  <2>3. CASE loop = "SetReset"
    <3>1. l \in SyncWrites("SetReset")
      BY <1>5, <2>3
    <3>2. PICK s \in RscsBC : l = [at |-> At(s, 1), w |-> SetTimerResetEvent(s, {<<"reset", s, BcastChannelId>>})]
      BY <3>1, ResetWrites, Zenon
    <3>3. l.at = At(s, 1)
      BY <3>2
    <3> QED
      BY <1>2, <3>3
  <2>4. CASE loop = "ClearReset"
    <3>1. l \in SyncWrites("ClearReset")
      BY <1>5, <2>4
    <3>2. PICK s \in RscsBC : l = [at |-> At(s, 1), w |-> SetTimerResetEvent(s, {})]
      BY <3>1, ClearResetWrites, Zenon
    <3>3. l.at = At(s, 1)
      BY <3>2
    <3> QED
      BY <1>2, <3>3
  <2>5. CASE loop = "Unblock"
    BY <1>2, <1>3, <1>5, <2>5, UnblockWrites
  <2>6. CASE loop = "ClearShim" \/ loop = "ClearFirst"
    BY <1>2, <1>3, <1>4, <1>5, <2>6, ClearShimWrites
  <2> QED
    BY <2>1, <2>2, <2>3, <2>4, <2>5, <2>6 DEF Setting, Cleaning
<1> QED
  BY <1>5

----------------------------------------------------------------------------
(* Free channels are clean: what the synchronization writes it clears, and  *)
(* the error network writes to its own channels only.                       *)

\* The points of XAie_SyncTimer at which a loop that cleans up is still to come.
Ahead(loop) ==
    Setting \cup {"Generate"}
    \cup (IF loop = "ClearReset" THEN {} ELSE {"ClearReset"})
    \cup (IF loop \in {"ClearReset", "Unblock"} THEN {} ELSE {"Unblock"})
    \cup (IF loop = "ClearFirst" THEN {"ClearShim"} ELSE {})

\* A write that is still to come clears a register.
Pending(f) == \E loop \in Cleaning : \E l \in SyncWrites(loop) :
    f \in l.w.clr /\ (pc \in Ahead(loop) \/ (pc = loop /\ Before(pos, l.at)))

Dirty == {"block", "broadcast", "reset"}
ErrorsOn == pc = "Errors" \/ errs # "off"

Tidy == \A f \in regs : f[1] \in Dirty =>
    \/ <<f[2], f[3]>> \in lost
    \/ ErrorsOn /\ <<f[2], f[3]>> \in errors
    \/ <<f[2], f[3]>> \in Own /\ Pending(f)

LEMMA WritesKept ==
    ASSUME UNCHANGED <<Gen, RscsBC, BcastChannelId, BcastChannelIdShim>>, NEW loop
    PROVE  SyncWrites(loop)' = SyncWrites(loop)
BY DEF SyncWrites, Above, BlockDirs

LEMMA NotPending ==
    ASSUME NEW f, pc \notin Setting \cup Cleaning \cup {"Generate"}
    PROVE  ~Pending(f)
BY DEF Pending, Ahead, Cleaning

\* What a loop that sets up writes is of the call's channels and is cleared later.
LEMMA SetIsCleared ==
    ASSUME NetAssumption, Types, Phase, NEW loop \in Setting, pc = loop,
           NEW l \in SyncWrites(loop), NEW f \in l.w.set
    PROVE  <<f[2], f[3]>> \in Own /\ Pending(f)
<1>1. /\ RscsBC = Ungated(Gen, tiles) /\ RscsBCShim = ShimSlots
      /\ BcastChannelId \in Channels /\ BcastChannelIdShim \in Channels
      /\ \A x \in Cleaning : pc \in Ahead(x)
  BY DEF Phase, Syncing, Setting, Types, Ahead
<1>2. ShimSlots \subseteq RscsBC /\ zero \in ShimSlots
  BY <1>1, ModulesAreSlots DEF zero, ShimSlots, ColRange, NetAssumption
<1>3. SUFFICES /\ <<f[2], f[3]>> \in Own
               /\ \E x \in Cleaning : \E m \in SyncWrites(x) : f \in m.w.clr
  BY <1>1 DEF Pending
<1>4. /\ \A s \in RscsBC : <<s, BcastChannelId>> \in Own
      /\ \A s \in ShimSlots : <<s, BcastChannelIdShim>> \in Own
  BY <1>1 DEF Own
<1>5. CASE loop = "Block"
  <2>1. PICK s \in Above(RscsBC), d \in Dirs :
            d \in BlockDirs(s) /\ l = [at |-> At(s, DirNo[d]), w |-> Block(s, 0, {BcastChannelId}, d)]
    BY <1>5, BlockWrites
  <2>2. f = <<"block", s, BcastChannelId, 0, d>>
    <3>1. f \in Block(s, 0, {BcastChannelId}, d).set
      BY <2>1
    <3> QED
      BY <3>1 DEF Block, Write
  <2>3. d \in {"W", "E"}
    BY <2>1 DEF BlockDirs
  <2> DEFINE m == [at |-> At(s, DirNo[d]), w |-> Unblock(s, 0, BcastChannelId, d)]
  <2>4. m \in SyncWrites("Unblock")
    BY <2>1, <2>3, UnblockWrites
  <2>5. f \in m.w.clr
    BY <2>2 DEF Unblock
  <2>6. "Unblock" \in Cleaning
    BY DEF Cleaning
  <2>7. s \in RscsBC
    BY <2>1 DEF Above
  <2> HIDE DEF m
  <2> QED
    BY <2>2, <2>4, <2>5, <2>6, <2>7, <1>4
<1>6. CASE loop = "Arm"
  <2>1. \/ \E s \in ShimSlots : f = <<"broadcast", s, BcastChannelId, BcastChannelIdShim>>
        \/ f = <<"broadcast", zero, BcastChannelIdShim, BcastChannelIdShim>>
    <3>1. l \in SyncWrites("Arm")
      BY <1>6
    <3>2. \/ \E s \in ShimSlots :
                l.w = IF s = zero THEN Ignored(EventBroadcast(s, BcastChannelId, BcastChannelIdShim))
                                  ELSE EventBroadcast(s, BcastChannelId, BcastChannelIdShim)
          \/ l.w = EventBroadcast(zero, BcastChannelIdShim, BcastChannelIdShim)
      BY <3>1, ArmWrites
    <3>3. \A s, c, e : /\ EventBroadcast(s, c, e).set = {<<"broadcast", s, c, e>>}
                       /\ Ignored(EventBroadcast(s, c, e)).set = {<<"broadcast", s, c, e>>}
      BY DEF EventBroadcast, Ignored
    <3> QED
      BY <3>2, <3>3
  <2>2. BcastChannelIdShim \in Events
    BY <1>1 DEF Events
  <2>3. CASE \E s \in ShimSlots : f = <<"broadcast", s, BcastChannelId, BcastChannelIdShim>>
    <3>1. PICK s \in ShimSlots : f = <<"broadcast", s, BcastChannelId, BcastChannelIdShim>>
      BY <2>3
    <3> DEFINE m == [at |-> At(s, 1), w |-> EventNone(s, BcastChannelId)]
    <3>2. m \in SyncWrites("ClearShim")
      BY ClearShimWrites
    <3>3. f \in m.w.clr
      BY <2>2, <3>1 DEF EventNone
    <3>4. "ClearShim" \in Cleaning
      BY DEF Cleaning
    <3> HIDE DEF m
    <3> QED
      BY <3>1, <3>2, <3>3, <3>4, <1>2, <1>4
  <2>4. CASE f = <<"broadcast", zero, BcastChannelIdShim, BcastChannelIdShim>>
    <3> DEFINE m == [at |-> At(zero, 1), w |-> EventNone(zero, BcastChannelIdShim)]
    <3>2. m \in SyncWrites("ClearFirst")
      BY ClearShimWrites
    <3>3. f \in m.w.clr
      BY <2>2, <2>4 DEF EventNone
    <3>4. "ClearFirst" \in Cleaning
      BY DEF Cleaning
    <3> HIDE DEF m
    <3> QED
      BY <2>4, <3>2, <3>3, <3>4, <1>2, <1>4
  <2> QED
    BY <2>1, <2>3, <2>4
<1>7. CASE loop = "SetReset"
  <2>1. l \in SyncWrites("SetReset")
    BY <1>7
  <2>2. PICK s \in RscsBC : l = [at |-> At(s, 1), w |-> SetTimerResetEvent(s, {<<"reset", s, BcastChannelId>>})]
    BY <2>1, ResetWrites, Zenon
  <2>3. f = <<"reset", s, BcastChannelId>>
    BY <2>2 DEF SetTimerResetEvent
  <2> DEFINE m == [at |-> At(s, 1), w |-> SetTimerResetEvent(s, {})]
  <2>4. m \in SyncWrites("ClearReset")
    BY ClearResetWrites, Zenon
  <2>5. f \in m.w.clr
    BY <1>1, <2>3 DEF SetTimerResetEvent
  <2>6. "ClearReset" \in Cleaning
    BY DEF Cleaning
  <2> HIDE DEF m
  <2> QED
    BY <2>3, <2>4, <2>5, <2>6, <1>4
<1> QED
  BY <1>5, <1>6, <1>7 DEF Setting

\* A loop that cleans up sets nothing.
LEMMA CleaningSetsNothing ==
    ASSUME NEW loop \in Cleaning, NEW l \in SyncWrites(loop)
    PROVE  l.w.set = {}
<1>1. \A s, c : EventNone(s, c).set = {} /\ SetTimerResetEvent(s, {}).set = {}
  BY DEF EventNone, SetTimerResetEvent
<1>2. \A s, c, d : Unblock(s, 0, c, d).set = {}
  BY DEF Unblock
<1>3. CASE loop = "ClearReset"
  <2>1. l \in SyncWrites("ClearReset")
    BY <1>3
  <2>2. PICK s \in RscsBC : l = [at |-> At(s, 1), w |-> SetTimerResetEvent(s, {})]
    BY <2>1, ClearResetWrites, Zenon
  <2> QED
    BY <1>1, <2>2
<1>4. CASE loop = "Unblock"
  <2>1. \E s, d : l.w = Unblock(s, 0, BcastChannelId, d)
    BY <1>4, UnblockWrites
  <2> QED
    BY <1>2, <2>1
<1>5. CASE loop = "ClearShim" \/ loop = "ClearFirst"
  <2>1. \E s, c : l.w = EventNone(s, c)
    BY <1>5, ClearShimWrites
  <2> QED
    BY <1>1, <2>1
<1> QED
  BY <1>3, <1>4, <1>5 DEF Cleaning

\* The channels for errors are those that XAie_ErrorHandlingReserveRsc asks for: six
\* on both generations, as the register tables say.  On AIE the last columns of a
\* partition are given more, unless it ends as the device does.  The code counts the
\* columns of the partition for the channels and those of the device for the
\* controllers.
ErrorChannelsSuffice ==
    /\ MaxErrorBcIdsRvd >= 6
    /\ StartCol % 4 = 0
    /\ "AIE" \in Gens => NumCols % 4 \in {1, 2}

\* No device refuses a write of the loops that clean up.
CleanUpSucceeds == \A loop \in Cleaning, r \in Refused : r[1] # loop

LEMMA NocPattern ==
    ASSUME NetAssumption, ErrorChannelsSuffice
    PROVE  \A col \in Nat : IsNoc(col) <=> col % 4 \in {2, 3}
<1>1. StartCol \in Nat /\ StartCol % 4 = 0
  BY DEF NetAssumption, ErrorChannelsSuffice
<1>2. ASSUME NEW col \in Nat PROVE (StartCol + col) % 4 = col % 4
  BY <1>1
<1> QED
  BY <1>2 DEF IsNoc

LEMMA IrqIdSuffices ==
    ASSUME NetAssumption, ErrorChannelsSuffice, NEW gen \in Gens, NEW col \in ColRange, NEW sw \in {0, 1}
    PROVE  L1IrqId(gen, col, sw) \in 0..5
<1>1. NumCols \in Nat /\ col \in 0..NumCols-1 /\ gen \in {"AIE", "AIEML"}
  BY DEF NetAssumption, ColRange
<1>2. CASE gen = "AIE"
  <2>1. NumCols % 4 \in {1, 2}
    BY <1>2 DEF ErrorChannelsSuffice
  <2>2. CASE col + 3 > NumCols
    <3>1. col = NumCols - 1 \/ col = NumCols - 2
      BY <1>1, <2>2
    <3>2. col % 4 \in {0, 1, 3}
      BY <1>1, <2>1, <3>1
    <3>3. (col % 4) % 3 \in {0, 1}
      BY <3>2
    <3> QED
      BY <1>2, <2>2, <3>3 DEF L1IrqId
  <2>3. CASE ~(col + 3 > NumCols)
    <3>1. (col % 4) % 3 \in {0, 1, 2}
      BY <1>1
    <3> QED
      BY <1>2, <2>3, <3>1 DEF L1IrqId
  <2> QED
    BY <2>2, <2>3
<1>3. CASE gen = "AIEML"
  <2>1. col % 4 \in {0, 1, 2, 3}
    BY <1>1
  <2> QED
    BY <1>1, <1>3, <2>1, NocPattern DEF L1IrqId
<1> QED
  BY <1>1, <1>2, <1>3

\* What the error network sets in the event broadcast network and for its routes.
ErrorSet(gen, T, f) ==
    \/ \E x \in SlotsOf(gen, T), sw \in {0, 1}, d \in {"N", "E", "W"} :
          f = <<"block", x, 0, sw, d>> /\ (IsAie(gen, x[2]) => sw = 0)
    \/ \E x \in SlotsOf(gen, T) : f = <<"broadcast", x, 0, GroupErrors>>
    \/ \E col \in ColRange : \E d \in DirsB(col), c \in BlockedB(gen, col) :
          f = <<"block", <<col, ShimRow, "PL">>, c, 1, d>>
    \/ \E col \in ColRange : \E d \in ShimDirs(col) :
          f = <<"block", <<col, ShimRow, "PL">>, L1IrqId(gen, col, 0), 0, d>>
    \/ \E col \in ColRange, sw \in {0, 1} : f = <<"irq", <<col, ShimRow, "PL">>, sw, L1IrqId(gen, col, sw)>>
    \/ \E col \in ColRange : IsNoc(col) /\ f = <<"l2enable", <<col, ShimRow, "PL">>, 0>>
Routing == Dirty \cup {"irq", "l2enable"}

LEMMA WriteOf == \A l, p, w : l = [at |-> p, w |-> w] => l.w = w
OBVIOUS

LEMMA ErrorSets ==
    ASSUME NetAssumption, NEW gen \in Gens, NEW T \in TileSets,
           NEW l \in ErrorWrites[gen][T], NEW f \in l.w.set, f[1] \in Routing
    PROVE  ErrorSet(gen, T, f)
<1>1. \/ l \in ArrayWrites(gen, T) \/ (\E col \in ColRange : l \in ShimWrites(gen, col))
      \/ l \in GroupWrites(gen, T) \/ l \in HaltWrites(gen, T)
  <2>1. l \in ArrayWrites(gen, T) \cup AllShimWrites(gen) \cup GroupWrites(gen, T) \cup HaltWrites(gen, T)
    BY DEF ErrorWrites
  <2>2. l \in AllShimWrites(gen) => \E col \in ColRange : l \in ShimWrites(gen, col)
    BY DEF AllShimWrites
  <2> QED
    BY <2>1, <2>2
<1>2. CASE l \in ArrayWrites(gen, T)
  <2>1. PICK x \in SlotsOf(gen, T) \X {0, 1} \X {"N", "E", "W"} :
            l.w = Block(x[1], x[2], {0}, x[3]) /\ (IsAie(gen, x[1][2]) => x[2] = 0)
    BY <1>2 DEF ArrayWrites
  <2>2. /\ x[1] \in SlotsOf(gen, T) /\ x[2] \in {0, 1} /\ x[3] \in {"N", "E", "W"}
        /\ IsAie(gen, x[1][2]) => x[2] = 0
    BY <2>1
  <2>3. f = <<"block", x[1], 0, x[2], x[3]>>
    <3>1. f \in Block(x[1], x[2], {0}, x[3]).set
      BY <2>1
    <3> QED
      BY <3>1 DEF Block, Write
  <2> QED
    BY <2>2, <2>3 DEF ErrorSet
<1>3. CASE \E col \in ColRange : l \in ShimWrites(gen, col)
  <2>1. PICK col \in ColRange : l \in ShimWrites(gen, col)
    BY <1>3
  <2> DEFINE s == <<col, ShimRow, "PL">>
  <2>2. \/ \E x : l.w = Write({x}) /\ x[1] \notin Routing
        \/ \E sw \in {0, 1} : l.w = Write({<<"irq", s, sw, L1IrqId(gen, col, sw)>>})
        \/ IsNoc(col) /\ l.w = Write({<<"l2enable", s, 0>>})
        \/ \E d \in DirsB(col) : l.w = Block(s, 1, BlockedB(gen, col), d)
        \/ \E d \in ShimDirs(col) : l.w = Block(s, 0, {L1IrqId(gen, col, 0)}, d)
    <3> DEFINE set(x) == l.w = Write({x})
    <3>1. \/ set(<<"l1block", s, 0>>) \/ set(<<"l1block", s, 1>>)
          \/ set(<<"l1enable", s, 0>>) \/ set(<<"l1enable", s, 1>>) \/ set(<<"l1enable shim", s, 0>>)
          \/ set(<<"irq", s, 0, L1IrqId(gen, col, 0)>>) \/ set(<<"irq", s, 1, L1IrqId(gen, col, 1)>>)
          \/ \E d \in DirsB(col) : l.w = Block(s, 1, BlockedB(gen, col), d)
          \/ IsNoc(col) /\ set(<<"l2enable", s, 0>>)
          \/ \E d \in ShimDirs(col) : l.w = Block(s, 0, {L1IrqId(gen, col, 0)}, d)
      <4> DEFINE at(k, d) == <<1, col, Part(gen, ShimRow), ShimRow, k, d>>
                 one(k, x) == l = [at |-> at(k, 0), w |-> Write({x})]
      <4>1. \/ one(1, <<"l1block", s, 0>>) \/ one(2, <<"l1block", s, 1>>)
            \/ one(3, <<"l1enable", s, 0>>) \/ one(4, <<"l1enable", s, 1>>) \/ one(5, <<"l1enable shim", s, 0>>)
            \/ one(6, <<"irq", s, 0, L1IrqId(gen, col, 0)>>) \/ one(7, <<"irq", s, 1, L1IrqId(gen, col, 1)>>)
            \/ \E d \in DirsB(col) : l = [at |-> at(8, DirNo[d]), w |-> Block(s, 1, BlockedB(gen, col), d)]
            \/ IsNoc(col) /\ one(9, <<"l2enable", s, 0>>)
            \/ \E d \in ShimDirs(col) : l = [at |-> at(10, DirNo[d]), w |-> Block(s, 0, {L1IrqId(gen, col, 0)}, d)]
        BY <2>1, Zenon DEF ShimWrites
      <4> HIDE DEF at
      <4>2. \A k, x : one(k, x) => set(x)
        BY WriteOf, Zenon
      <4>3. \A d \in DirsB(col) : l = [at |-> at(8, DirNo[d]), w |-> Block(s, 1, BlockedB(gen, col), d)]
                => l.w = Block(s, 1, BlockedB(gen, col), d)
        BY WriteOf
      <4>4. \A d \in ShimDirs(col) : l = [at |-> at(10, DirNo[d]), w |-> Block(s, 0, {L1IrqId(gen, col, 0)}, d)]
                => l.w = Block(s, 0, {L1IrqId(gen, col, 0)}, d)
        BY WriteOf
      <4> HIDE DEF one, set
      <4> QED
        BY <4>1, <4>2, <4>3, <4>4, Zenon
    <3>2. \A x : set(x) /\ x[1] \notin Routing => \E y : l.w = Write({y}) /\ y[1] \notin Routing
      OBVIOUS
    <3>3. /\ \A n \in {0, 1} : set(<<"irq", s, n, L1IrqId(gen, col, n)>>) =>
                \E sw \in {0, 1} : l.w = Write({<<"irq", s, sw, L1IrqId(gen, col, sw)>>})
          /\ set(<<"l2enable", s, 0>>) => l.w = Write({<<"l2enable", s, 0>>})
      OBVIOUS
    <3> HIDE DEF set
    <3>4. /\ \A n \in {0, 1} : <<"l1block", s, n>>[1] \notin Routing /\ <<"l1enable", s, n>>[1] \notin Routing
          /\ <<"l1enable shim", s, 0>>[1] \notin Routing
      BY DEF Routing, Dirty
    <3> QED
      BY <3>1, <3>2, <3>3, <3>4
  <2>3. CASE \E x : l.w = Write({x}) /\ x[1] \notin Routing
    BY <2>3 DEF Write
  <2>6. CASE \E sw \in {0, 1} : l.w = Write({<<"irq", s, sw, L1IrqId(gen, col, sw)>>})
    <3>1. PICK sw \in {0, 1} : l.w = Write({<<"irq", s, sw, L1IrqId(gen, col, sw)>>})
      BY <2>6
    <3>2. f = <<"irq", s, sw, L1IrqId(gen, col, sw)>>
      BY <3>1 DEF Write
    <3> QED
      BY <3>2 DEF ErrorSet
  <2>7. CASE IsNoc(col) /\ l.w = Write({<<"l2enable", s, 0>>})
    <3>1. f = <<"l2enable", s, 0>>
      BY <2>7 DEF Write
    <3> QED
      BY <2>7, <3>1 DEF ErrorSet
  <2>4. CASE \E d \in DirsB(col) : l.w = Block(s, 1, BlockedB(gen, col), d)
    <3>1. PICK d \in DirsB(col) : l.w = Block(s, 1, BlockedB(gen, col), d)
      BY <2>4
    <3>2. PICK c \in BlockedB(gen, col) : f = <<"block", s, c, 1, d>>
      BY <3>1 DEF Block, Write
    <3> QED
      BY <3>2 DEF ErrorSet
  <2>5. CASE \E d \in ShimDirs(col) : l.w = Block(s, 0, {L1IrqId(gen, col, 0)}, d)
    <3>1. PICK d \in ShimDirs(col) : l.w = Block(s, 0, {L1IrqId(gen, col, 0)}, d)
      BY <2>5
    <3>2. f = <<"block", s, L1IrqId(gen, col, 0), 0, d>>
      BY <3>1 DEF Block, Write
    <3> QED
      BY <3>2 DEF ErrorSet
  <2> QED
    BY <2>2, <2>3, <2>4, <2>5, <2>6, <2>7
<1>4. CASE l \in GroupWrites(gen, T)
  <2>1. \/ \E x : l.w = Write({x}) /\ x[1] \notin Routing
        \/ \E x \in SlotsOf(gen, T) : l.w = EventBroadcast(x, 0, GroupErrors)
    <3>1. \/ \E x \in SlotsOf(gen, T) \cup ShimSlots : l.w = Write({<<"group", x, 0>>})
          \/ \E x \in ShimSlots : l.w = Write({<<"l1event", x, 0>>})
          \/ \E x \in SlotsOf(gen, T) : l.w = EventBroadcast(x, 0, GroupErrors)
      <4> DEFINE at(x, k) == <<2, x[1], Part(gen, x[2]), x[2], IF x[3] = "CORE" THEN 2 ELSE 1, k>>
      <4>1. \/ \E x \in SlotsOf(gen, T) \cup ShimSlots : l = [at |-> at(x, 1), w |-> Write({<<"group", x, 0>>})]
            \/ \E x \in SlotsOf(gen, T) : l = [at |-> at(x, 2), w |-> EventBroadcast(x, 0, GroupErrors)]
            \/ \E x \in ShimSlots : l = [at |-> at(x, 2), w |-> Write({<<"l1event", x, 0>>})]
        BY <1>4, Zenon DEF GroupWrites
      <4> HIDE DEF at
      <4> QED
        BY <4>1, WriteOf, SMTT(30)
    <3>2. \A x : <<"group", x, 0>>[1] \notin Routing /\ <<"l1event", x, 0>>[1] \notin Routing
      BY DEF Routing, Dirty
    <3> QED
      BY <3>1, <3>2
  <2>2. CASE \E x : l.w = Write({x}) /\ x[1] \notin Routing
    BY <2>2 DEF Write
  <2>3. CASE \E x \in SlotsOf(gen, T) : l.w = EventBroadcast(x, 0, GroupErrors)
    <3>1. PICK x \in SlotsOf(gen, T) : l.w = EventBroadcast(x, 0, GroupErrors)
      BY <2>3
    <3>2. f = <<"broadcast", x, 0, GroupErrors>>
      BY <3>1 DEF EventBroadcast
    <3> QED
      BY <3>2 DEF ErrorSet
  <2> QED
    BY <2>1, <2>2, <2>3
<1>5. CASE l \in HaltWrites(gen, T)
  <2>1. PICK x : l.w = Write({<<"halt", x, 0>>})
    BY <1>5 DEF HaltWrites
  <2>2. f = <<"halt", x, 0>>
    BY <2>1 DEF Write
  <2> QED
    BY <2>2 DEF Routing, Dirty
<1> QED
  BY <1>1, <1>2, <1>3, <1>4, <1>5

\* They are channels that the error network holds.
LEMMA ErrorSetIsHeld ==
    ASSUME NetAssumption, ErrorChannelsSuffice, Phase, ErrorsOn,
           NEW f, f[1] \in Dirty, ErrorSet(Gen, wired, f)
    PROVE  <<f[2], f[3]>> \in errors
<1>1. Gen \in Gens /\ ShimSlots \X (0..MaxErrorBcIdsRvd-1) \subseteq errors
  BY DEF Phase, ErrorsOn
<1>2. \A x \in SlotsOf(Gen, wired) : <<x, 0>> \in errors
  <2>1. CASE pc = "Errors"
    BY <2>1 DEF Phase, Ungated
  <2>2. CASE errs # "off"
    BY <2>2 DEF Phase
  <2> QED
    BY <2>1, <2>2 DEF ErrorsOn
<1>3. \A col \in ColRange, c \in 0..5 : <<<<col, ShimRow, "PL">>, c>> \in errors
  <2>1. MaxErrorBcIdsRvd \in Nat
    BY DEF NetAssumption
  <2>2. 0..5 \subseteq 0..MaxErrorBcIdsRvd-1
    BY <2>1 DEF ErrorChannelsSuffice
  <2> QED
    BY <1>1, <2>2 DEF ShimSlots
<1>4. \A col \in ColRange : BlockedB(Gen, col) \subseteq 0..5 /\ L1IrqId(Gen, col, 0) \in 0..5
  <2> TAKE col \in ColRange
  <2>1. L1IrqId(Gen, col, 0) \in 0..5 /\ L1IrqId(Gen, col, 1) \in 0..5
    BY <1>1, IrqIdSuffices
  <2>2. CASE IsNoc(col)
    BY <2>1, <2>2 DEF BlockedB
  <2>3. CASE ~IsNoc(col)
    BY <2>1, <2>3 DEF BlockedB
  <2> QED
    BY <2>1, <2>2, <2>3
<1>6. CASE \E x \in SlotsOf(Gen, wired) : f[2] = x /\ f[3] = 0
  BY <1>2, <1>6
<1>7. CASE \E col \in ColRange : f[2] = <<col, ShimRow, "PL">> /\ f[3] \in 0..5
  BY <1>3, <1>7
<1>8. \A col \in ColRange : \A c \in BlockedB(Gen, col) : c \in 0..5
  BY <1>4
<1>9. f[1] # "irq" /\ f[1] # "l2enable"
  BY DEF Dirty
<1> QED
  BY <1>4, <1>6, <1>7, <1>8, <1>9 DEF ErrorSet

LEMMA ErrorSetsAreHeld ==
    ASSUME NetAssumption, ErrorChannelsSuffice, Phase, pc = "Errors",
           NEW l \in ErrorWrites[Gen][tiles], NEW f \in l.w.set, f[1] \in Dirty
    PROVE  <<f[2], f[3]>> \in errors
<1>1. Gen \in Gens /\ tiles \in TileSets /\ wired = tiles /\ ErrorsOn
  BY DEF Phase, ErrorsOn
<1>2. ErrorSet(Gen, wired, f)
  BY <1>1, ErrorSets DEF Routing
<1> QED
  BY <1>1, <1>2, ErrorSetIsHeld

\* A step that sets no register, and keeps what each is owned or lost for.
LEMMA TidyKept ==
    ASSUME Tidy, regs' \subseteq regs, lost \subseteq lost',
           ErrorsOn => ErrorsOn' /\ errors \subseteq errors',
           \A f \in regs' : <<f[2], f[3]>> \in Own /\ Pending(f) =>
               <<f[2], f[3]>> \in lost' \/ (<<f[2], f[3]>> \in Own' /\ Pending(f)')
    PROVE  Tidy'
<1>1. ASSUME NEW f \in regs', f[1] \in Dirty
      PROVE  \/ <<f[2], f[3]>> \in lost'
             \/ ErrorsOn' /\ <<f[2], f[3]>> \in errors'
             \/ <<f[2], f[3]>> \in Own' /\ Pending(f)'
  <2>1. f \in regs
    OBVIOUS
  <2>2. CASE <<f[2], f[3]>> \in lost
    BY <2>2
  <2>3. CASE ErrorsOn /\ <<f[2], f[3]>> \in errors
    BY <2>3
  <2>4. CASE <<f[2], f[3]>> \in Own /\ Pending(f)
    BY <2>4
  <2> QED
    BY <1>1, <2>1, <2>2, <2>3, <2>4 DEF Tidy
<1> QED
  BY <1>1 DEF Tidy

\* The same where no call is in progress that would clear anything.
LEMMA TidyIdle ==
    ASSUME Tidy, regs' = regs, lost \subseteq lost',
           pc \notin Setting \cup Cleaning \cup {"Generate"},
           ErrorsOn => ErrorsOn' /\ errors \subseteq errors'
    PROVE  Tidy'
BY NotPending, TidyKept

\* A call that ends without releasing its channels loses them.
LEMMA TidyAbandon ==
    ASSUME Tidy, regs' = regs, NEW rc, AbandonSync(rc), pc # "Errors", UNCHANGED <<errors, errs>>
    PROVE  Tidy'
<1>1. ErrorsOn => ErrorsOn' /\ errors \subseteq errors'
  BY DEF ErrorsOn
<1>2. lost' = lost \cup Own
  BY DEF AbandonSync
<1> QED
  BY <1>1, <1>2, TidyKept

LEMMA OwnKept ==
    ASSUME UNCHANGED lists PROVE Own' = Own
BY DEF Own, lists

\* What is cleared later than now is still to be cleared when the next loop begins.
LEMMA PendingNext ==
    ASSUME NetAssumption, Types, UNCHANGED lists, Gen' = Gen, pos' = Start,
           NEW f, Pending(f),
           \/ pc = "Generate" /\ pc' = "ClearReset"
           \/ \E loop \in DOMAIN NextLoop : pc = loop /\ Left(SyncWrites(loop)) = {} /\ pc' = NextLoop[loop]
    PROVE  Pending(f)'
<1>1. PICK loop \in Cleaning : \E l \in SyncWrites(loop) :
          f \in l.w.clr /\ (pc \in Ahead(loop) \/ (pc = loop /\ Before(pos, l.at)))
  BY DEF Pending
<1>2. PICK l \in SyncWrites(loop) : f \in l.w.clr /\ (pc \in Ahead(loop) \/ (pc = loop /\ Before(pos, l.at)))
  BY <1>1
<1>3. pc \in Ahead(loop)
  BY <1>2 DEF Left, Cleaning, Ahead, Setting
<1>4. pc' \in Ahead(loop) \/ pc' = loop
  BY <1>3 DEF Ahead, Cleaning, Setting, NextLoop
<1>5. SyncWrites(loop)' = SyncWrites(loop)
  BY WritesKept DEF lists
<1>6. Before(pos', l.at)
  <2>1. RscsBC' \subseteq Slots
    BY DEF Types, lists
  <2>2. l.at[1] \in Nat
    BY <1>2, PlacesAre DEF Types
  <2> QED
    BY <2>2, StartBefore
<1> QED
  BY <1>2, <1>4, <1>5, <1>6 DEF Pending, Ahead

\* The first write of what is left of a loop that cleans up is done.
LEMMA PendingDone ==
    ASSUME UNCHANGED lists, Gen' = Gen, pc' = pc, pc \in Cleaning, NEW l \in Left(SyncWrites(pc)),
           IsFirst(l, Left(SyncWrites(pc))), pos' = l.at, NEW f, f \notin l.w.clr, Pending(f)
    PROVE  Pending(f)'
<1>1. PICK loop \in Cleaning : \E m \in SyncWrites(loop) :
          f \in m.w.clr /\ (pc \in Ahead(loop) \/ (pc = loop /\ Before(pos, m.at)))
  BY DEF Pending
<1>2. PICK m \in SyncWrites(loop) : f \in m.w.clr /\ (pc \in Ahead(loop) \/ (pc = loop /\ Before(pos, m.at)))
  BY <1>1
<1>3. SyncWrites(loop)' = SyncWrites(loop)
  BY WritesKept DEF lists
<1>4. CASE pc \in Ahead(loop)
  BY <1>2, <1>3, <1>4 DEF Pending, Ahead
<1>5. CASE pc = loop /\ Before(pos, m.at)
  <2>1. m \in Left(SyncWrites(pc)) \ {l}
    BY <1>2, <1>5 DEF Left
  <2>2. Before(pos', m.at)
    BY <2>1 DEF IsFirst
  <2> QED
    BY <1>2, <1>3, <1>5, <2>2 DEF Pending
<1> QED
  BY <1>2, <1>4, <1>5

LEMMA TidyLoop ==
    ASSUME NetAssumption, CleanUpSucceeds, Types, Phase, Tidy, NEW loop \in DOMAIN NextLoop, SyncLoop(loop)
    PROVE  Tidy'
<1>1. /\ pc = loop /\ loop \in Setting \cup Cleaning /\ Gen' = Gen
      /\ UNCHANGED <<errors, errs>> /\ pc # "Errors"
  BY DEF SyncLoop, NextLoop, Setting, Cleaning, device, errnet
<1>2. \/ AbandonSync(Returned(loop)) /\ regs' = regs
      \/ UNCHANGED lists /\ lost' = lost
  BY DEF SyncLoop, Refuses
<1>3. CASE AbandonSync(Returned(loop)) /\ regs' = regs
  BY <1>1, <1>3, TidyAbandon
<1>4. ASSUME UNCHANGED lists, lost' = lost PROVE Tidy'
  <2>1. ErrorsOn => ErrorsOn' /\ errors \subseteq errors'
    BY <1>1 DEF ErrorsOn
  <2>2. Own' = Own
    BY <1>4, OwnKept
  <2>3. CASE Left(SyncWrites(loop)) = {} /\ pc' = NextLoop[loop] /\ pos' = Start /\ regs' = regs
    <3>1. \A f : Pending(f) => Pending(f)'
      BY <1>1, <1>4, <2>3, PendingNext
    <3> QED
      BY <1>4, <2>1, <2>2, <2>3, <3>1, TidyKept
  <2>4. ASSUME NEW l \in Left(SyncWrites(loop)), IsFirst(l, Left(SyncWrites(loop))), Goes(loop, l)
        PROVE  Tidy'
    <3>1. l \in SyncWrites(loop) /\ pc' = pc
      BY <2>4 DEF Left, Goes
    <3>2. CASE loop \in Setting
      <4>1. \A f : Pending(f) => Pending(f)'
        <5>1. SUFFICES ASSUME NEW f, Pending(f) PROVE Pending(f)'
          OBVIOUS
        <5>2. PICK x \in Cleaning : \E m \in SyncWrites(x) : f \in m.w.clr
          BY <5>1 DEF Pending
        <5>3. SyncWrites(x)' = SyncWrites(x)
          BY <1>1, <1>4, WritesKept DEF lists
        <5>4. pc' \in Ahead(x)
          BY <1>1, <3>1, <3>2 DEF Ahead
        <5> QED
          BY <5>2, <5>3, <5>4 DEF Pending, Ahead
      <4>2. CASE regs' = regs
        BY <1>4, <2>1, <2>2, <4>1, <4>2, TidyKept
      <4>3. CASE Done(l.w)
        <5>1. SUFFICES ASSUME NEW f \in regs', f[1] \in Dirty
                       PROVE  \/ <<f[2], f[3]>> \in lost'
                              \/ ErrorsOn' /\ <<f[2], f[3]>> \in errors'
                              \/ <<f[2], f[3]>> \in Own' /\ Pending(f)'
          BY DEF Tidy
        <5>2. CASE f \in l.w.set
          <6>1. <<f[2], f[3]>> \in Own /\ Pending(f)
            BY <1>1, <3>1, <3>2, <5>2, SetIsCleared
          <6> QED
            BY <2>2, <4>1, <6>1
        <5>3. CASE f \in regs
          BY <1>1, <1>4, <2>1, <2>2, <4>1, <5>1, <5>3 DEF Tidy
        <5> QED
          BY <4>3, <5>2, <5>3 DEF Done
      <4> QED
        BY <2>4, <4>2, <4>3 DEF Goes, Refuses
    <3>3. CASE loop \in Cleaning
      <4>1. ~Refuses(loop, l.at)
        <5>1. <<loop, l.at>>[1] = loop
          OBVIOUS
        <5> QED
          BY <3>3, <5>1 DEF Refuses, CleanUpSucceeds
      <4>2. Done(l.w) /\ pos' = l.at
        BY <2>4, <4>1 DEF Goes
      <4>3. regs' = regs \ l.w.clr
        BY <3>1, <3>3, <4>2, CleaningSetsNothing DEF Done
      <4>4. \A f \in regs' : Pending(f) => Pending(f)'
        BY <1>1, <1>4, <2>4, <3>1, <3>3, <4>2, <4>3, PendingDone
      <4> QED
        BY <1>4, <2>1, <2>2, <4>3, <4>4, TidyKept
    <3> QED
      BY <1>1, <3>2, <3>3
  <2> QED
    BY <2>3, <2>4, <1>1, <1>4, TidyAbandon DEF SyncLoop, Refuses
<1> QED
  BY <1>2, <1>3, <1>4

LEMMA TidySync ==
    ASSUME NetAssumption, CleanUpSucceeds, Types, Phase, Tidy, SyncStep
    PROVE  Tidy'
<1> USE DEF device, errnet, bits
<1>1. CASE SyncTimer
  BY <1>1, TidyIdle DEF SyncTimer, ErrorsOn, Setting, Cleaning
<1>2. CASE RequestShim
  <2>1. /\ pc = "RequestShim" /\ regs' = regs /\ lost \subseteq lost' /\ UNCHANGED <<errors, errs>>
    BY <1>2 DEF RequestShim, AbandonSync
  <2> QED
    BY <2>1, TidyIdle DEF ErrorsOn, Setting, Cleaning
<1>3. CASE SyncLoops
  BY <1>3, TidyLoop DEF SyncLoops
<1>4. CASE Generate
  <2>1. CASE AbandonSync("error")
    BY <1>4, <2>1, TidyAbandon DEF Generate, Refuses
  <2>2. CASE pc' = "ClearReset" /\ UNCHANGED <<lists, pos, lost, regs>>
    <3>1. /\ pc = "Generate" /\ pos' = Start /\ Gen' = Gen /\ lost' = lost /\ regs' = regs
          /\ UNCHANGED <<errors, errs>>
      BY <1>4, <2>2 DEF Generate, Phase
    <3>2. \A f : Pending(f) => Pending(f)'
      BY <2>2, <3>1, PendingNext
    <3>3. Own' = Own
      BY <2>2, OwnKept
    <3> QED
      BY <3>1, <3>2, <3>3, TidyKept DEF ErrorsOn
  <2> QED
    BY <1>4, <2>1, <2>2 DEF Generate
<1>5. CASE Release
  BY <1>5, TidyIdle DEF Release, EndSync, ErrorsOn, Setting, Cleaning
<1> QED
  BY <1>1, <1>2, <1>3, <1>4, <1>5 DEF SyncStep

LEMMA TidyErrors ==
    ASSUME NetAssumption, ErrorChannelsSuffice, IInv, Phase, Tidy, ErrorStep
    PROVE  Tidy'
<1> USE DEF device, errnet, bits
<1>1. CASE ErrorHandlingInit
  <2>1. errs = "off"
    <3>1. errors = {}
      BY <1>1, ErrorsFree
    <3> QED
      BY <3>1, ErrorsOff
  <2> QED
    BY <1>1, <2>1, TidyIdle DEF ErrorHandlingInit, ErrorsOn, Setting, Cleaning
<1>2. CASE ReserveShim
  <2>1. /\ pc = "Reserve" /\ errs = "off" /\ regs' = regs /\ lost \subseteq lost'
    BY <1>2 DEF ReserveShim, Phase
  <2> QED
    BY <2>1, TidyIdle DEF ErrorsOn, Setting, Cleaning
<1>3. CASE Reserved
  BY <1>3, TidyIdle DEF Reserved, ErrorsOn, Setting, Cleaning, Phase
<1>4. CASE ErrorsWritten
  <2>1. /\ pc = "Errors" /\ UNCHANGED <<errors, lost>> /\ ErrorsOn'
    BY <1>4 DEF ErrorsWritten, Goes, ErrorsOn
  <2>2. CASE regs' = regs
    BY <2>1, <2>2, TidyIdle DEF Setting, Cleaning
  <2>3. CASE \E l \in Left(ErrorWrites[Gen][tiles]) : Done(l.w)
    <3>1. PICK l \in ErrorWrites[Gen][tiles] : Done(l.w)
      BY <2>3 DEF Left
    <3>2. SUFFICES ASSUME NEW f \in regs', f[1] \in Dirty
                   PROVE  <<f[2], f[3]>> \in lost' \/ <<f[2], f[3]>> \in errors'
      BY <2>1 DEF Tidy
    <3>3. CASE f \in l.w.set
      BY <2>1, <3>2, <3>3, ErrorSetsAreHeld
    <3>4. CASE f \in regs
      <4>1. ~Pending(f)
        BY <2>1, NotPending DEF Setting, Cleaning
      <4> QED
        BY <2>1, <3>2, <3>4, <4>1 DEF Tidy
    <3> QED
      BY <3>1, <3>3, <3>4 DEF Done
  <2> QED
    BY <1>4, <2>2, <2>3 DEF ErrorsWritten, Goes, Refuses
<1> QED
  BY <1>1, <1>2, <1>3, <1>4 DEF ErrorStep

LEMMA TidyStep ==
    ASSUME NetAssumption, ErrorChannelsSuffice, CleanUpSucceeds, IInv, Phase, Tidy, [Next]_vars
    PROVE  Tidy'
<1> USE DEF device, errnet, bits
<1>1. CASE \E u \in Users : UserRelease(u) \/ \E r \in Requests : UserRequest(u, r)
  BY <1>1, TidyIdle DEF UserRelease, UserRequest, ErrorsOn, Setting, Cleaning
<1>2. CASE LoadStatic
  BY <1>2, TidyIdle DEF LoadStatic, ErrorsOn, Setting, Cleaning
<1>3. CASE \E T \in TileSets : RequestTiles(T)
  BY <1>3, TidyIdle DEF RequestTiles, ErrorsOn, Setting, Cleaning
<1>4. CASE SyncStep
  BY <1>4, TidySync DEF IInv
<1>5. CASE ErrorStep
  BY <1>5, TidyErrors
<1>6. CASE UNCHANGED vars
  <2>1. /\ UNCHANGED <<regs, lost, errors, errs, pc, pos, Gen, RscsBC, RscsBCShim, BcastChannelId, BcastChannelIdShim>>
    BY <1>6 DEF vars, lists
  <2>2. \A loop : SyncWrites(loop)' = SyncWrites(loop)
    BY <2>1, WritesKept
  <2>3. \A f : Pending(f) => Pending(f)'
    BY <2>1, <2>2 DEF Pending, Ahead
  <2>4. Own' = Own
    BY <2>1 DEF Own
  <2> QED
    BY <2>1, <2>3, <2>4, TidyKept DEF ErrorsOn
<1> QED
  BY <1>1, <1>2, <1>3, <1>4, <1>5, <1>6 DEF Next

\* A channel that nobody has reserved in a module is neither blocked nor armed
\* there and resets no timer, whatever users, synchronizations and the set up of the
\* error network did before and wherever a call failed: if the channels reserved for
\* errors are those it writes to, and no write of the clean up is refused (the code
\* ignores it, and releases the channel all the same).
THEOREM FreeChannelsAreCleanHolds ==
    ASSUME ErrorChannelsSuffice, CleanUpSucceeds PROVE Spec => []FreeChannelsAreClean
<1> USE NetAssumption
<1>1. Init => Phase /\ Tidy
  BY PhaseInit DEF Init, Tidy
<1>2. IInv /\ Phase /\ Tidy /\ [Next]_vars => Phase' /\ Tidy'
  BY PhaseStep, TidyStep
<1>3. IInv /\ Tidy => FreeChannelsAreClean
  <2> SUFFICES ASSUME IInv, Tidy, pc = "Idle", NEW f \in regs, f[1] \in Dirty
               PROVE  <<f[2], f[3]>> \in runtime
    BY DEF FreeChannelsAreClean, Dirty
  <2>1. ~Pending(f)
    BY NotPending DEF Setting, Cleaning
  <2>2. <<f[2], f[3]>> \in Driver
    BY <2>1 DEF Tidy, Driver
  <2> QED
    BY <2>2 DEF IInv, RuntimeBitsAreOwned
<1> QED
  BY <1>1, <1>2, <1>3, Invariance, PTL DEF Spec

----------------------------------------------------------------------------
(* When the event is generated, all that was to be blocked, armed and set   *)
(* up for it is.                                                            *)

\* The points after a loop up to the event.
Then(loop) == {"Generate"} \cup (IF loop = "SetReset" THEN {} ELSE {"SetReset"})
                           \cup (IF loop = "Block" THEN {"Arm"} ELSE {})

\* The writes that the call is past, but those that may be refused without ending it.
Past(loop, l) == pc \in Then(loop) \/ (pc = loop /\ ~Before(pos, l.at))
Sure(loop, l) == l.w.must \/ <<loop, l.at>> \notin Refused
Written == \A loop \in Setting : \A l \in SyncWrites(loop) :
    Past(loop, l) /\ Sure(loop, l) => l.w.set \subseteq regs

\* What the writes clear and set.
LEMMA BlockSets ==
    ASSUME NEW l \in SyncWrites("Block")
    PROVE  \E s \in Above(RscsBC), d \in Dirs :
               /\ d \in BlockDirs(s) /\ l.at = At(s, DirNo[d])
               /\ l.w.clr = {} /\ l.w.set = {<<"block", s, BcastChannelId, 0, d>>} /\ l.w.must
<1>1. PICK s \in Above(RscsBC), d \in Dirs :
          d \in BlockDirs(s) /\ l = [at |-> At(s, DirNo[d]), w |-> Block(s, 0, {BcastChannelId}, d)]
  BY BlockWrites
<1>2. l.w = Block(s, 0, {BcastChannelId}, d) /\ l.at = At(s, DirNo[d])
  BY <1>1
<1>3. l.w.clr = {} /\ l.w.set = {<<"block", s, BcastChannelId, 0, d>>} /\ l.w.must
  BY <1>2 DEF Block, Write
<1> QED
  BY <1>1, <1>2, <1>3

LEMMA ArmSets ==
    ASSUME NEW l \in SyncWrites("Arm")
    PROVE  \E s \in ShimSlots \cup {zero}, c \in {BcastChannelId, BcastChannelIdShim} :
               /\ l.w.clr = {<<"broadcast", s, c, e>> : e \in Events}
               /\ l.w.set = {<<"broadcast", s, c, BcastChannelIdShim>>}
               /\ \/ c = BcastChannelId /\ l.at = At(s, 1) /\ (s # zero => l.w.must)
                  \/ c = BcastChannelIdShim /\ s = zero /\ l.at = <<0, ShimRow, 2, 1>> /\ l.w.must
<1>1. \A s, c, e : /\ EventBroadcast(s, c, e).clr = {<<"broadcast", s, c, x>> : x \in Events}
                   /\ EventBroadcast(s, c, e).set = {<<"broadcast", s, c, e>>}
                   /\ EventBroadcast(s, c, e).must
  BY DEF EventBroadcast
<1>2. \A s, c, e : /\ Ignored(EventBroadcast(s, c, e)).clr = {<<"broadcast", s, c, x>> : x \in Events}
                   /\ Ignored(EventBroadcast(s, c, e)).set = {<<"broadcast", s, c, e>>}
  BY DEF EventBroadcast, Ignored
<1>3. \/ \E s \in ShimSlots :
            /\ l.at = At(s, 1)
            /\ l.w = IF s = zero THEN Ignored(EventBroadcast(s, BcastChannelId, BcastChannelIdShim))
                                 ELSE EventBroadcast(s, BcastChannelId, BcastChannelIdShim)
      \/ /\ l.at = <<0, ShimRow, 2, 1>>
         /\ l.w = EventBroadcast(zero, BcastChannelIdShim, BcastChannelIdShim)
  BY ArmWrites
<1>4. CASE \E s \in ShimSlots :
               /\ l.at = At(s, 1)
               /\ l.w = IF s = zero THEN Ignored(EventBroadcast(s, BcastChannelId, BcastChannelIdShim))
                                    ELSE EventBroadcast(s, BcastChannelId, BcastChannelIdShim)
  <2>1. PICK s \in ShimSlots :
            /\ l.at = At(s, 1)
            /\ l.w = IF s = zero THEN Ignored(EventBroadcast(s, BcastChannelId, BcastChannelIdShim))
                                 ELSE EventBroadcast(s, BcastChannelId, BcastChannelIdShim)
    BY <1>4
  <2>2. /\ l.w.clr = {<<"broadcast", s, BcastChannelId, x>> : x \in Events}
        /\ l.w.set = {<<"broadcast", s, BcastChannelId, BcastChannelIdShim>>}
        /\ s # zero => l.w.must
    BY <2>1, <1>1, <1>2
  <2> QED
    BY <2>1, <2>2
<1>5. CASE /\ l.at = <<0, ShimRow, 2, 1>>
           /\ l.w = EventBroadcast(zero, BcastChannelIdShim, BcastChannelIdShim)
  <2>1. /\ l.w.clr = {<<"broadcast", zero, BcastChannelIdShim, x>> : x \in Events}
        /\ l.w.set = {<<"broadcast", zero, BcastChannelIdShim, BcastChannelIdShim>>}
        /\ l.w.must
    BY <1>5, <1>1
  <2> QED
    BY <2>1, <1>5
<1> QED
  BY <1>3, <1>4, <1>5

LEMMA ResetSets ==
    ASSUME NEW l \in SyncWrites("SetReset")
    PROVE  \E s \in RscsBC :
               /\ l.at = At(s, 1) /\ l.w.clr = {<<"reset", s, c>> : c \in Channels}
               /\ l.w.set = {<<"reset", s, BcastChannelId>>} /\ l.w.must
<1>1. PICK s \in RscsBC : l = [at |-> At(s, 1), w |-> SetTimerResetEvent(s, {<<"reset", s, BcastChannelId>>})]
  BY ResetWrites, Zenon
<1> DEFINE S == {<<"reset", s, BcastChannelId>>}
<1>2. S # {}
  OBVIOUS
<1>3. \A set : /\ SetTimerResetEvent(s, set).clr = {<<"reset", s, c>> : c \in Channels}
               /\ SetTimerResetEvent(s, set).set = set
               /\ set # {} => SetTimerResetEvent(s, set).must
  BY DEF SetTimerResetEvent
<1>4. l = [at |-> At(s, 1), w |-> SetTimerResetEvent(s, S)]
  BY <1>1
<1>5. S = {<<"reset", s, BcastChannelId>>}
  OBVIOUS
<1> HIDE DEF S
<1>6. l.w = SetTimerResetEvent(s, S) /\ l.at = At(s, 1)
  BY <1>4
<1>7. l.w.clr = {<<"reset", s, c>> : c \in Channels} /\ l.w.set = S /\ l.w.must
  BY <1>2, <1>3, <1>6
<1> QED
  BY <1>5, <1>6, <1>7

\* The writes do not disturb each other.
LEMMA SetsStay ==
    ASSUME BcastChannelId # BcastChannelIdShim,
           NEW loop \in Setting, NEW l \in SyncWrites(loop), NEW first \in Setting, NEW m \in SyncWrites(first)
    PROVE  (loop = first /\ m.w.set \subseteq l.w.set) \/ m.w.set \cap l.w.clr = {}
<1>1. CASE loop = "Block"
  <2>1. l.w.clr = {}
    BY <1>1, BlockSets
  <2> QED
    BY <2>1
<1>2. CASE loop = "Arm"
  <2>1. PICK s \in ShimSlots \cup {zero}, c \in {BcastChannelId, BcastChannelIdShim} :
            /\ l.w.clr = {<<"broadcast", s, c, e>> : e \in Events}
            /\ l.w.set = {<<"broadcast", s, c, BcastChannelIdShim>>}
    BY <1>2, ArmSets
  <2>2. CASE first = "Arm"
    <3>1. PICK t \in ShimSlots \cup {zero}, b \in {BcastChannelId, BcastChannelIdShim} :
            /\ m.w.set = {<<"broadcast", t, b, BcastChannelIdShim>>}
      BY <2>2, ArmSets
    <3>2. CASE s = t /\ c = b
      BY <1>2, <2>1, <2>2, <3>1, <3>2
    <3>3. CASE s # t \/ c # b
      BY <2>1, <3>1, <3>3
    <3> QED
      BY <3>2, <3>3
  <2>3. CASE first = "Block"
    <3>1. \E t, d : m.w.set = {<<"block", t, BcastChannelId, 0, d>>}
      BY <2>3, BlockSets
    <3> QED
      BY <2>1, <3>1
  <2>4. CASE first = "SetReset"
    <3>1. \E t : m.w.set = {<<"reset", t, BcastChannelId>>}
      BY <2>4, ResetSets
    <3> QED
      BY <2>1, <3>1
  <2> QED
    BY <2>2, <2>3, <2>4 DEF Setting
<1>3. CASE loop = "SetReset"
  <2>1. PICK s \in RscsBC : /\ l.w.clr = {<<"reset", s, c>> : c \in Channels}
                            /\ l.w.set = {<<"reset", s, BcastChannelId>>}
    BY <1>3, ResetSets
  <2>2. CASE first = "Arm"
    <3>1. \E t, b : m.w.set = {<<"broadcast", t, b, BcastChannelIdShim>>}
      BY <2>2, ArmSets
    <3> QED
      BY <2>1, <3>1
  <2>3. CASE first = "Block"
    <3>1. \E t, d : m.w.set = {<<"block", t, BcastChannelId, 0, d>>}
      BY <2>3, BlockSets
    <3> QED
      BY <2>1, <3>1
  <2>4. CASE first = "SetReset"
    <3>1. PICK t \in RscsBC : m.w.set = {<<"reset", t, BcastChannelId>>}
      BY <2>4, ResetSets
    <3>2. CASE s = t
      BY <1>3, <2>1, <2>4, <3>1, <3>2
    <3>3. CASE s # t
      BY <2>1, <3>1, <3>3
    <3> QED
      BY <3>2, <3>3
  <2> QED
    BY <2>2, <2>3, <2>4 DEF Setting
<1> QED
  BY <1>1, <1>2, <1>3 DEF Setting

\* Only the first write that arms a broadcast may be refused without ending the call.
LEMMA MustSet ==
    ASSUME NEW loop \in Setting, NEW l \in SyncWrites(loop), ~l.w.must
    PROVE  loop = "Arm" /\ l.at = <<0, ShimRow, 1, 1>>
<1>1. loop # "Block"
  BY BlockSets
<1>2. loop # "SetReset"
  BY ResetSets
<1>3. loop = "Arm"
  BY <1>1, <1>2 DEF Setting
<1>4. l.at = At(zero, 1)
  BY <1>3, ArmSets
<1> QED
  BY <1>3, <1>4 DEF At, zero

\* When it is refused, the writes that were to follow still follow.
LEMMA RefusedIsPassed ==
    ASSUME NetAssumption, NEW l \in SyncWrites("Arm"), l.at = <<0, ShimRow, 1, 1>>,
           NEW m \in SyncWrites("Arm"), Before(l.at, m.at)
    PROVE  Before(AfterRefused(l.at), m.at)
<1>1. AfterRefused(l.at) = <<0, ShimRow, 1, 4>>
  BY DEF AfterRefused
<1> DEFINE p == <<0, ShimRow, 1, 4>>
<1>2. (\E s \in ShimSlots \cup {zero} : m.at = At(s, 1)) \/ m.at = <<0, ShimRow, 2, 1>>
  BY ArmSets
<1>3. CASE m.at = <<0, ShimRow, 2, 1>>
  <2>1. p[3] < m.at[3] /\ 3 \in DOMAIN p /\ \A j \in 1..3-1 : p[j] = m.at[j]
    <3>1. \A j \in 1..3-1 : j = 1 \/ j = 2
      OBVIOUS
    <3> QED
      BY <1>3, <3>1
  <2> HIDE DEF p
  <2>2. Before(p, m.at)
    BY <2>1 DEF Before
  <2> QED
    BY <1>1, <2>2 DEF p
<1>4. CASE \E s \in ShimSlots \cup {zero} : m.at = At(s, 1)
  <2>1. PICK c \in Nat : m.at = <<c, ShimRow, 1, 1>>
    BY <1>4 DEF ShimSlots, At, zero, ColRange
  <2>2. c # 0
    <3>1. SUFFICES ASSUME c = 0 PROVE FALSE
      OBVIOUS
    <3>2. m.at = l.at
      BY <2>1, <3>1
    <3>3. \A j \in DOMAIN l.at : l.at[j] \in Int
      BY DEF ShimRow
    <3>4. PICK j \in DOMAIN l.at : l.at[j] < l.at[j]
      BY <3>2 DEF Before
    <3> QED
      BY <3>3, <3>4
  <2>3. p[1] < m.at[1] /\ 1 \in DOMAIN p /\ \A j \in 1..1-1 : p[j] = m.at[j]
    BY <2>1, <2>2
  <2> HIDE DEF p
  <2>4. Before(p, m.at)
    BY <2>3 DEF Before
  <2> QED
    BY <1>1, <2>4 DEF p
<1> QED
  BY <1>2, <1>3, <1>4

LEMMA WrittenEmpty ==
    ASSUME pc' \notin Setting \cup {"Generate"}
    PROVE  Written'
BY DEF Written, Past, Then, Setting

\* The next write of a loop.
LEMMA WrittenGoes ==
    ASSUME NetAssumption, Phase, Written, NEW loop \in Setting, Gen' = Gen, UNCHANGED lists,
           NEW l \in Left(SyncWrites(loop)), IsFirst(l, Left(SyncWrites(loop))), Goes(loop, l)
    PROVE  Written'
<1>1. /\ pc = loop /\ pc' = loop /\ l \in SyncWrites(loop) /\ Before(pos, l.at)
      /\ BcastChannelId # BcastChannelIdShim
  BY DEF Goes, Left, Phase, Syncing, Setting
<1>2. \A x : SyncWrites(x)' = SyncWrites(x)
  BY WritesKept DEF lists
<1>3. SUFFICES ASSUME NEW first \in Setting, NEW m \in SyncWrites(first), Past(first, m)', Sure(first, m)
               PROVE  m.w.set \subseteq regs'
  BY <1>2 DEF Written, Sure
<1>4. first = loop \/ Past(first, m)
  BY <1>1, <1>3 DEF Past, Then
<1>5. CASE Past(first, m)
  <2>1. m.w.set \subseteq regs
    BY <1>3, <1>5 DEF Written
  <2>2. CASE regs' = regs
    BY <2>1, <2>2
  <2>3. CASE Done(l.w)
    <3>1. (loop = first /\ m.w.set \subseteq l.w.set) \/ m.w.set \cap l.w.clr = {}
      BY <1>1, SetsStay
    <3> QED
      BY <2>1, <2>3, <3>1 DEF Done
  <2> QED
    BY <2>2, <2>3 DEF Goes, Refuses
<1>6. CASE first = loop /\ ~Past(first, m)
  <2>1. m \in Left(SyncWrites(loop))
    BY <1>1, <1>6 DEF Past, Left
  <2>2. ~Before(pos', m.at)
    BY <1>1, <1>3, <1>6 DEF Past, Then, Setting
  <2>3. CASE Done(l.w) /\ pos' = l.at
    <3>1. m = l
      BY <2>1, <2>2, <2>3 DEF IsFirst
    <3> QED
      BY <2>3, <3>1 DEF Done
  <2>4. CASE Refuses(loop, l.at) /\ ~l.w.must /\ pos' = AfterRefused(l.at)
    <3>1. loop = "Arm" /\ l.at = <<0, ShimRow, 1, 1>>
      BY <1>1, <2>4, MustSet
    <3>2. m = l
      <4>1. SUFFICES ASSUME m # l PROVE FALSE
        OBVIOUS
      <4>2. Before(l.at, m.at)
        BY <2>1, <4>1 DEF IsFirst
      <4> QED
        BY <1>1, <1>6, <2>2, <2>4, <3>1, <4>2, RefusedIsPassed
    <3> QED
      BY <1>3, <1>6, <2>4, <3>2 DEF Sure, Refuses
  <2> QED
    BY <2>3, <2>4 DEF Goes
<1> QED
  BY <1>4, <1>5, <1>6

LEMMA WrittenLoop ==
    ASSUME NetAssumption, Types, Phase, Written, NEW loop \in DOMAIN NextLoop, SyncLoop(loop)
    PROVE  Written'
<1>1. pc = loop /\ Gen' = Gen /\ loop \in Setting \cup Cleaning
  BY DEF SyncLoop, device, NextLoop, Setting, Cleaning
<1>2. CASE AbandonSync(Returned(loop))
  BY <1>2, WrittenEmpty DEF AbandonSync, EndSync, Setting
<1>3. CASE loop \in Cleaning
  <2>1. CASE pc' = pc
    BY <1>1, <1>3, <2>1, WrittenEmpty DEF Cleaning, Setting
  <2>2. CASE pc' = NextLoop[loop]
    BY <1>1, <1>3, <2>2, WrittenEmpty DEF Cleaning, Setting, NextLoop
  <2> QED
    BY <1>2, <2>1, <2>2 DEF SyncLoop, Goes
<1>4. ASSUME loop \in Setting, Left(SyncWrites(loop)) = {}, pc' = NextLoop[loop], pos' = Start, UNCHANGED <<lists, regs>>
      PROVE  Written'
  <2>1. \A x : SyncWrites(x)' = SyncWrites(x)
    BY <1>1, <1>4, WritesKept DEF lists
  <2>2. SUFFICES ASSUME NEW x \in Setting, NEW m \in SyncWrites(x), Past(x, m)', Sure(x, m)
                 PROVE  m.w.set \subseteq regs
    BY <1>4, <2>1 DEF Written, Sure
  <2>3. Before(Start, m.at)
    <3>1. m.at[1] \in Nat
      BY PlacesAre DEF Types
    <3> QED
      BY <3>1, StartBefore
  <2>4. pc' \in Then(x)
    BY <1>4, <2>2, <2>3 DEF Past, Then
  <2>5. Past(x, m)
    <3>1. pc \in Then(x) \/ x = loop
      BY <1>1, <1>4, <2>4 DEF Then, NextLoop, Setting
    <3>2. CASE x = loop
      BY <1>1, <1>4, <3>2 DEF Past, Left
    <3> QED
      BY <3>1, <3>2 DEF Past, Then
  <2> QED
    BY <2>2, <2>5 DEF Written
<1> QED
  BY <1>1, <1>2, <1>3, <1>4, WrittenGoes DEF SyncLoop

LEMMA WrittenStep ==
    ASSUME NetAssumption, IInv, Phase, Written, [Next]_vars
    PROVE  Written'
<1> USE DEF device, bits
<1>1. CASE \E u \in Users : UserRelease(u) \/ \E r \in Requests : UserRequest(u, r)
  BY <1>1, WrittenEmpty DEF UserRelease, UserRequest, Setting
<1>2. CASE LoadStatic
  BY <1>2, WrittenEmpty DEF LoadStatic, Setting
<1>3. CASE \E T \in TileSets : RequestTiles(T)
  BY <1>3, WrittenEmpty DEF RequestTiles, Setting
<1>4. CASE SyncTimer
  BY <1>4, WrittenEmpty DEF SyncTimer, Setting
<1>5. CASE RequestShim
  <2>1. CASE pc' = "Idle"
    BY <2>1, WrittenEmpty DEF Setting
  <2>2. CASE pc' = "Block" /\ UNCHANGED <<pos, RscsBC>>
    <3>1. pos' = Start /\ RscsBC' \subseteq Slots
      BY <1>5, <2>2 DEF RequestShim, Phase, IInv, Types
    <3>2. SUFFICES ASSUME NEW l, l \in SyncWrites("Block")' PROVE Before(pos', l.at)
      BY <2>2 DEF Written, Past, Then, Setting
    <3>3. SyncWrites("Block")' = SyncWrites("Block")
      <4>1. RscsBC' = RscsBC /\ BcastChannelId' = BcastChannelId /\ Gen' = Gen
        BY <1>5, <2>2 DEF RequestShim, AbandonSync, EndSync, device
      <4>2. \A s : BlockDirs(s)' = BlockDirs(s)
        BY <4>1 DEF BlockDirs
      <4>3. Above(RscsBC)' = Above(RscsBC)
        BY <4>1 DEF Above
      <4> DEFINE S == {[at |-> At(x[1], DirNo[x[2]]), w |-> Block(x[1], 0, {BcastChannelId}, x[2])] :
                          x \in {y \in Above(RscsBC) \X Dirs : y[2] \in BlockDirs(y[1])}}
      <4>4. SyncWrites("Block") = S
        BY DEF SyncWrites
      <4>5. SyncWrites("Block")' = S'
        BY DEF SyncWrites
      <4>6. S' = S
        BY <4>1, <4>2, <4>3
      <4> QED
        BY <4>4, <4>5, <4>6
    <3>4. l.at[1] \in Nat
      BY <3>2, <3>3, PlacesAre DEF Setting, IInv, Types
    <3> QED
      BY <3>1, <3>4, StartBefore
  <2> QED
    BY <1>5, <2>1, <2>2 DEF RequestShim, AbandonSync, EndSync
<1>6. CASE SyncLoops
  BY <1>6, WrittenLoop DEF SyncLoops, IInv
<1>7. CASE Generate
  BY <1>7, WrittenEmpty DEF Generate, AbandonSync, EndSync, Setting
<1>8. CASE Release
  BY <1>8, WrittenEmpty DEF Release, EndSync, Setting
<1>9. CASE ErrorStep
  <2>1. pc' \in {"Idle", "Reserve", "Errors"}
    BY <1>9 DEF ErrorStep, ErrorHandlingInit, ReserveShim, Reserved, ErrorsWritten, Goes
  <2> QED
    BY <2>1, WrittenEmpty DEF Setting
<1>10. CASE UNCHANGED vars
  <2>1. UNCHANGED <<Gen, regs, pc, pos, lists>>
    BY <1>10 DEF vars
  <2>2. \A x : SyncWrites(x)' = SyncWrites(x)
    BY <2>1, WritesKept DEF lists
  <2> QED
    BY <2>1, <2>2 DEF Written, Past, Sure, Then
<1> QED
  BY <1>1, <1>2, <1>3, <1>4, <1>5, <1>6, <1>7, <1>8, <1>9, <1>10 DEF Next, SyncStep

----------------------------------------------------------------------------
(* Columns are separate: above the shims nothing is blocked but the sides   *)
(* of a column, and what the error network blocks.                          *)

\* In some rows all that is blocked is known.  If the shims are among them, the error
\* network must hold the channels it blocks there.
Known(rows) == \A f \in regs : f[1] = "block" /\ f[2][2] \in rows =>
    \/ f[2][2] # ShimRow /\ f[5] \in BlockDirs(f[2])
    \/ ErrorsOn /\ <<f[2], f[3]>> \in errors

LEMMA KnownKept ==
    ASSUME NEW rows, Known(rows), regs' \subseteq regs, Gen' = Gen, ErrorsOn => ErrorsOn' /\ errors \subseteq errors'
    PROVE  Known(rows)'
<1>1. \A s : BlockDirs(s)' = BlockDirs(s)
  BY DEF BlockDirs
<1> QED
  BY <1>1 DEF Known

\* What the loops of the synchronization block.
LEMMA SyncSets ==
    ASSUME NEW loop \in Setting \cup Cleaning, NEW l \in SyncWrites(loop), NEW f \in l.w.set, f[1] = "block"
    PROVE  f[2][2] # ShimRow /\ f[5] \in BlockDirs(f[2])
<1>1. CASE loop = "Block"
  <2>1. PICK s, d : s[2] # ShimRow /\ d \in BlockDirs(s) /\ l.w.set = {<<"block", s, BcastChannelId, 0, d>>}
    BY <1>1, BlockSets DEF Above
  <2>2. f = <<"block", s, BcastChannelId, 0, d>>
    BY <2>1
  <2> QED
    BY <2>1, <2>2
<1>2. CASE loop = "Arm"
  <2>1. \E s, c : l.w.set = {<<"broadcast", s, c, BcastChannelIdShim>>}
    BY <1>2, ArmSets
  <2>2. f[1] = "broadcast"
    BY <2>1
  <2> QED
    BY <2>2
<1>3. CASE loop = "SetReset"
  <2>1. \E s : l.w.set = {<<"reset", s, BcastChannelId>>}
    BY <1>3, ResetSets
  <2>2. f[1] = "reset"
    BY <2>1
  <2> QED
    BY <2>2
<1>4. CASE loop \in Cleaning
  BY <1>4, CleaningSetsNothing
<1> QED
  BY <1>1, <1>2, <1>3, <1>4 DEF Setting

LEMMA KnownLoops ==
    ASSUME NEW rows, Known(rows), SyncLoops
    PROVE  Known(rows)'
<1>1. PICK loop \in DOMAIN NextLoop : SyncLoop(loop)
  BY DEF SyncLoops
<1>2. loop \in Setting \cup Cleaning /\ Gen' = Gen /\ UNCHANGED <<errors, errs>> /\ pc # "Errors"
  BY <1>1 DEF SyncLoop, NextLoop, Setting, Cleaning, device, errnet
<1>3. ErrorsOn => ErrorsOn' /\ errors \subseteq errors'
  BY <1>2 DEF ErrorsOn
<1>4. CASE regs' = regs
  BY <1>2, <1>3, <1>4, KnownKept
<1>5. CASE \E l \in Left(SyncWrites(loop)) : Done(l.w)
  <2>1. PICK l \in SyncWrites(loop) : Done(l.w)
    BY <1>5 DEF Left
  <2>2. SUFFICES ASSUME NEW f \in regs', f[1] = "block", f[2][2] \in rows
                 PROVE  \/ f[2][2] # ShimRow /\ f[5] \in BlockDirs(f[2])'
                        \/ ErrorsOn' /\ <<f[2], f[3]>> \in errors'
    BY DEF Known
  <2>3. BlockDirs(f[2])' = BlockDirs(f[2])
    BY <1>2 DEF BlockDirs
  <2>4. CASE f \in l.w.set
    BY <1>2, <2>2, <2>3, <2>4, SyncSets
  <2>5. CASE f \in regs
    BY <1>3, <2>2, <2>3, <2>5 DEF Known
  <2> QED
    BY <2>1, <2>4, <2>5 DEF Done
<1> QED
  BY <1>1, <1>4, <1>5 DEF SyncLoop, Goes, Refuses

LEMMA KnownStep ==
    ASSUME NetAssumption, IInv, Phase, NEW rows, ShimRow \in rows => ErrorChannelsSuffice, Known(rows), [Next]_vars
    PROVE  Known(rows)'
<1> USE DEF device, errnet, bits
<1>1. CASE \E u \in Users : UserRelease(u) \/ \E r \in Requests : UserRequest(u, r)
  BY <1>1, KnownKept DEF UserRelease, UserRequest, ErrorsOn
<1>2. CASE LoadStatic
  BY <1>2, KnownKept DEF LoadStatic, ErrorsOn
<1>3. CASE \E T \in TileSets : RequestTiles(T)
  BY <1>3, KnownKept DEF RequestTiles, ErrorsOn
<1>4. CASE SyncTimer
  BY <1>4, KnownKept DEF SyncTimer, ErrorsOn
<1>5. CASE RequestShim
  BY <1>5, KnownKept DEF RequestShim, ErrorsOn
<1>6. CASE SyncLoops
  BY <1>6, KnownLoops
<1>7. CASE Generate
  <2>1. pc # "Errors" /\ regs' = regs /\ UNCHANGED <<Gen, errors, errs>>
    BY <1>7 DEF Generate, Refuses
  <2> QED
    BY <2>1, KnownKept DEF ErrorsOn
<1>8. CASE Release
  BY <1>8, KnownKept DEF Release, ErrorsOn
<1>9. CASE ErrorHandlingInit
  <2>1. errs = "off"
    <3>1. errors = {}
      BY <1>9, ErrorsFree
    <3> QED
      BY <3>1, ErrorsOff
  <2> QED
    BY <1>9, <2>1, KnownKept DEF ErrorHandlingInit, ErrorsOn
<1>10. CASE ReserveShim
  <2>1. pc = "Reserve" /\ errs = "off" /\ regs' = regs /\ Gen' = Gen
    BY <1>10 DEF ReserveShim, Phase
  <2> QED
    BY <2>1, KnownKept DEF ErrorsOn
<1>11. CASE Reserved
  BY <1>11, KnownKept DEF Reserved, ErrorsOn
<1>12. CASE ErrorsWritten
  <2>1. /\ pc = "Errors" /\ UNCHANGED <<Gen, errors>> /\ ErrorsOn'
        /\ Gen \in Gens /\ tiles \in TileSets /\ Ungated(Gen, tiles) \X {0} \subseteq errors
    BY <1>12 DEF ErrorsWritten, Goes, ErrorsOn, Phase
  <2>2. CASE regs' = regs
    BY <2>1, <2>2, KnownKept
  <2>3. CASE \E l \in Left(ErrorWrites[Gen][tiles]) : Done(l.w)
    <3>1. PICK l \in ErrorWrites[Gen][tiles] : Done(l.w)
      BY <2>3 DEF Left
    <3>2. SUFFICES ASSUME NEW f \in regs', f[1] = "block", f[2][2] \in rows
                   PROVE  \/ f[2][2] # ShimRow /\ f[5] \in BlockDirs(f[2])'
                          \/ ErrorsOn' /\ <<f[2], f[3]>> \in errors'
      BY DEF Known
    <3>3. BlockDirs(f[2])' = BlockDirs(f[2])
      BY <2>1 DEF BlockDirs
    <3>4. CASE f \in l.w.set /\ f[2][2] # ShimRow
      <4>1. ErrorSet(Gen, tiles, f)
        BY <2>1, <3>1, <3>2, <3>4, ErrorSets DEF Dirty, Routing
      <4>2. \E x \in SlotsOf(Gen, tiles) : \E sw, d : f = <<"block", x, 0, sw, d>>
        BY <3>2, <3>4, <4>1 DEF ErrorSet
      <4>3. f[2] \in Ungated(Gen, tiles) /\ f[3] = 0
        BY <4>2 DEF Ungated
      <4> QED
        BY <2>1, <4>3
    <3>5. CASE f \in l.w.set /\ f[2][2] = ShimRow
      BY <2>1, <3>1, <3>2, <3>5, ErrorSetsAreHeld DEF Dirty
    <3>6. CASE f \in regs
      BY <2>1, <3>2, <3>3, <3>6 DEF Known
    <3> QED
      BY <3>1, <3>4, <3>5, <3>6 DEF Done
  <2> QED
    BY <1>12, <2>2, <2>3 DEF ErrorsWritten, Goes, Refuses
<1>13. CASE UNCHANGED vars
  BY <1>13, KnownKept DEF vars, ErrorsOn
<1> QED
  BY <1>1, <1>2, <1>3, <1>4, <1>5, <1>6, <1>7, <1>8, <1>9, <1>10, <1>11, <1>12, <1>13
  DEF Next, SyncStep, ErrorStep

\* A module of an AIE tile blocks the side on which a link leaves its column.
LEMMA Sides ==
    ASSUME NetAssumption, Gen \in Gens, NEW l \in Links[Gen], IsAie(Gen, l[1][1][2]), l[2] \in {"E", "W"}
    PROVE  l[2] \in BlockDirs(l[1][1]) <=> l[1][1][1] # l[3][1][1]
<1>1. \E p \in Horizontal(Gen) : l = <<p[1], "E", p[2]>> \/ l = <<p[2], "W", p[1]>>
  BY DEF Links
<1>2. PICK p \in Horizontal(Gen) : l = <<p[1], "E", p[2]>> \/ l = <<p[2], "W", p[1]>>
  BY <1>1
<1>3. PICK c \in ColRange, r \in Rows : \/ p = <<West(Gen, c, r), East(Gen, c, r)>>
                                        \/ p = <<East(Gen, c, r), West(Gen, c + 1, r)>>
  <2>1. 0..NumCols-2 \subseteq ColRange
    BY DEF ColRange, NetAssumption
  <2> QED
    BY <1>2, <2>1 DEF Horizontal
<1>4. c \in Int /\ r \in Int /\ Gen \in {"AIE", "AIEML"}
  BY DEF ColRange, Rows, NetAssumption
<1>5. \A x \in Int : /\ West(Gen, x, r)[1][1] = x /\ West(Gen, x, r)[1][2] = r
                     /\ East(Gen, x, r)[1][1] = x /\ East(Gen, x, r)[1][2] = r
  BY DEF West, East, LineA, LineB, Single
<1>6. IsAie(Gen, r)
  BY <1>2, <1>3, <1>4, <1>5
<1>7. \A x \in Int : /\ BlockDirs(West(Gen, x, r)[1]) = {"W"}
                     /\ BlockDirs(East(Gen, x, r)[1]) = {"E"}
  <2> TAKE x \in Int
  <2>1. CASE MemIsWest(Gen, r)
    BY <1>6, <2>1 DEF MemIsWest, West, East, LineA, LineB, Single, BlockDirs
  <2>2. CASE ~MemIsWest(Gen, r)
    BY <1>6, <2>2 DEF MemIsWest, West, East, LineA, LineB, Single, BlockDirs
  <2> QED
    BY <2>1, <2>2
<1> DEFINE w(x) == West(Gen, x, r)
           e(x) == East(Gen, x, r)
<1>8. \/ l = <<w(c), "E", e(c)>> \/ l = <<e(c), "W", w(c)>>
      \/ l = <<e(c), "E", w(c + 1)>> \/ l = <<w(c + 1), "W", e(c)>>
  BY <1>2, <1>3
<1>9. \A x \in Int : /\ w(x)[1][1] = x /\ e(x)[1][1] = x
                     /\ BlockDirs(w(x)[1]) = {"W"} /\ BlockDirs(e(x)[1]) = {"E"}
  BY <1>5, <1>7
<1> HIDE DEF w, e
<1>10. c + 1 \in Int /\ c + 1 # c
  BY <1>4
<1>11. CASE l = <<w(c), "E", e(c)>>
  <2>1. l[1] = w(c) /\ l[2] = "E" /\ l[3] = e(c)
    BY <1>11
  <2>2. l[1][1][1] = c /\ l[3][1][1] = c /\ BlockDirs(l[1][1]) = {"W"}
    BY <1>4, <1>9, <1>10, <2>1
  <2> QED
    BY <1>10, <2>1, <2>2
<1>12. CASE l = <<e(c), "W", w(c)>>
  <2>1. l[1] = e(c) /\ l[2] = "W" /\ l[3] = w(c)
    BY <1>12
  <2>2. l[1][1][1] = c /\ l[3][1][1] = c /\ BlockDirs(l[1][1]) = {"E"}
    BY <1>4, <1>9, <1>10, <2>1
  <2> QED
    BY <1>10, <2>1, <2>2
<1>13. CASE l = <<e(c), "E", w(c + 1)>>
  <2>1. l[1] = e(c) /\ l[2] = "E" /\ l[3] = w(c + 1)
    BY <1>13
  <2>2. l[1][1][1] = c /\ l[3][1][1] = c + 1 /\ BlockDirs(l[1][1]) = {"E"}
    BY <1>4, <1>9, <1>10, <2>1
  <2> QED
    BY <1>10, <2>1, <2>2
<1>14. CASE l = <<w(c + 1), "W", e(c)>>
  <2>1. l[1] = w(c + 1) /\ l[2] = "W" /\ l[3] = e(c)
    BY <1>14
  <2>2. l[1][1][1] = c + 1 /\ l[3][1][1] = c /\ BlockDirs(l[1][1]) = {"W"}
    BY <1>4, <1>9, <1>10, <2>1
  <2> QED
    BY <1>10, <2>1, <2>2
<1> QED
  BY <1>8, <1>11, <1>12, <1>13, <1>14

LEMMA SeparateAtGenerate ==
    ASSUME NetAssumption, IInv, Phase, Written, Known(Rows \ {ShimRow})
    PROVE  ColumnsAreSeparate
<1> SUFFICES ASSUME pc = "Generate", NEW l \in Links[Gen],
                    {l[1][1], l[3][1]} \subseteq Above(Ungated(Gen, tiles)),
                    IsAie(Gen, l[1][1][2]), l[2] \in {"E", "W"}
             PROVE  <<"block", l[1][1], BcastChannelId, 0, l[2]>> \in regs <=> l[1][1][1] # l[3][1][1]
  BY DEF ColumnsAreSeparate
<1> DEFINE s == l[1][1]
           d == l[2]
           f == <<"block", s, BcastChannelId, 0, d>>
<1>1. /\ RscsBC = Ungated(Gen, tiles) /\ Gen \in Gens
      /\ s \in Above(RscsBC) /\ s \in RscsBC /\ d \in Dirs
  BY DEF Phase, Syncing, Above, Dirs, DirNo
<1>2. d \in BlockDirs(s) <=> l[1][1][1] # l[3][1][1]
  BY <1>1, Sides
<1>3. ASSUME d \in BlockDirs(s) PROVE f \in regs
  <2> DEFINE w == [at |-> At(s, DirNo[d]), w |-> Block(s, 0, {BcastChannelId}, d)]
  <2>1. w \in SyncWrites("Block")
    BY <1>1, <1>3, BlockWrites
  <2>2. w.w.must /\ f \in w.w.set
    <3>1. w.w = Block(s, 0, {BcastChannelId}, d)
      OBVIOUS
    <3>2. \A c : Block(s, 0, {c}, d).must /\ Block(s, 0, {c}, d).set = {<<"block", s, c, 0, d>>}
      BY DEF Block, Write
    <3> HIDE DEF w, s, d
    <3> DEFINE b == Block(s, 0, {BcastChannelId}, d)
    <3>3. b.must /\ b.set = {<<"block", s, BcastChannelId, 0, d>>}
      BY <3>2, Zenon
    <3>4. w.w = b
      BY <3>1
    <3> HIDE DEF b
    <3>5. w.w.must /\ w.w.set = {<<"block", s, BcastChannelId, 0, d>>}
      BY <3>3, <3>4
    <3> QED
      BY <3>5
  <2>3. Past("Block", w) /\ "Block" \in Setting
    BY DEF Past, Then, Setting
  <2> HIDE DEF w, f
  <2> QED
    BY <2>1, <2>2, <2>3 DEF Written, Sure
<1>4. ASSUME f \in regs PROVE d \in BlockDirs(s)
  <2>1. <<s, BcastChannelId>> \in Own
    BY <1>1 DEF Own
  <2>2. <<s, BcastChannelId>> \notin errors
    BY <2>1 DEF IInv, Held
  <2>3. s[2] \in Rows \ {ShimRow}
    BY <1>1 DEF Above, IInv, Types, Slots
  <2>4. f[1] = "block" /\ f[2] = s /\ f[3] = BcastChannelId /\ f[5] = d
    OBVIOUS
  <2> HIDE DEF f, s, d
  <2> QED
    BY <1>4, <2>2, <2>3, <2>4 DEF Known
<1> QED
  BY <1>2, <1>3, <1>4

\* When XAie_SyncTimer generates its event, the broadcast of a column is blocked at
\* the sides of the column and nowhere inside of a tile: on both generations and
\* in even and odd rows, whatever earlier calls left blocked, and whichever writes
\* the device refused.
THEOREM ColumnsAreSeparateHolds == Spec => []ColumnsAreSeparate
<1> USE NetAssumption
<1>1. Init => Phase /\ Written /\ Known(Rows \ {ShimRow})
  BY PhaseInit DEF Init, Written, Past, Then, Setting, Known
<1>2. IInv /\ Phase /\ Written /\ Known(Rows \ {ShimRow}) /\ [Next]_vars => Phase' /\ Written' /\ Known(Rows \ {ShimRow})'
  BY PhaseStep, WrittenStep, KnownStep
<1>3. IInv /\ Phase /\ Written /\ Known(Rows \ {ShimRow}) => ColumnsAreSeparate
  BY SeparateAtGenerate
<1> QED
  BY <1>1, <1>2, <1>3, Invariance, PTL DEF Spec

----------------------------------------------------------------------------
(* Where a channel gets: the recursive function of Reach exists, and its    *)
(* values grow.                                                             *)

LEMMA EveryNumber ==
    ASSUME NEW S \in SUBSET Nat, 0 \in S, \A n \in S : n + 1 \in S
    PROVE  S = Nat
<1>1. SUFFICES ASSUME Nat \ S # {} PROVE FALSE
  OBVIOUS
<1>2. PICK n \in Nat \ S : \A m \in Nat \ S : n <= m
  BY <1>1, MinExists
<1>3. n # 0 /\ n - 1 \in Nat
  BY <1>2
<1>4. n - 1 \in S
  BY <1>2, <1>3
<1>5. (n - 1) + 1 = n
  BY <1>2
<1> QED
  BY <1>2, <1>4, <1>5

IsStep(f, from, open) == f = [n \in Nat |-> IF n = 0 THEN from ELSE Onwards(f[n - 1], open)]

LEMMA StepExists ==
    ASSUME NEW from, NEW open
    PROVE  \E f : IsStep(f, from, open)
<1> DEFINE upTo(g, n) == g = [k \in 0..n |-> IF k = 0 THEN from ELSE Onwards(g[k - 1], open)]
           S == {n \in Nat : \E g : upTo(g, n)}
<1>1. S = Nat
  <2>1. 0 \in S
    <3> DEFINE g == [k \in 0..0 |-> from]
    <3>1. upTo(g, 0)
      OBVIOUS
    <3> QED
      BY <3>1
  <2>2. ASSUME NEW n \in S PROVE n + 1 \in S
    <3>1. PICK g : upTo(g, n)
      OBVIOUS
    <3> DEFINE h == [k \in 0..(n + 1) |-> IF k = 0 THEN from ELSE Onwards(g[k - 1], open)]
    <3>2. n \in Nat
      OBVIOUS
    <3>3. \A k \in 0..n : h[k] = g[k]
      BY <3>1, <3>2
    <3>4. \A k \in 0..(n + 1) : k # 0 => k - 1 \in 0..n
      BY <3>2
    <3>5. \A k \in 0..(n + 1) : (IF k = 0 THEN from ELSE Onwards(g[k - 1], open))
                              = (IF k = 0 THEN from ELSE Onwards(h[k - 1], open))
      BY <3>3, <3>4
    <3>6. upTo(h, n + 1)
      BY <3>5
    <3> HIDE DEF upTo, h
    <3> QED
      BY <3>2, <3>6
  <2> HIDE DEF S
  <2> QED
    BY <2>1, <2>2, EveryNumber DEF S
<1> DEFINE G == [n \in Nat |-> CHOOSE g : upTo(g, n)]
<1>2. \A n \in Nat : upTo(G[n], n)
  <2> TAKE n \in Nat
  <2>1. \E g : upTo(g, n)
    BY <1>1
  <2>2. G[n] = CHOOSE g : upTo(g, n)
    OBVIOUS
  <2> HIDE DEF G, upTo
  <2> QED
    BY <2>1, <2>2
<1> HIDE DEF G
<1>3. \A n \in Nat : /\ G[n][0] = from
                     /\ \A k \in 0..n : k # 0 => G[n][k] = Onwards(G[n][k - 1], open)
  <2> TAKE n \in Nat
  <2>1. upTo(G[n], n)
    BY <1>2
  <2> QED
    BY <2>1
<1> DEFINE T == {k \in Nat : \A n, m \in Nat : k <= n /\ k <= m => G[n][k] = G[m][k]}
<1>4. T = Nat
  <2>1. 0 \in T
    BY <1>3
  <2>2. ASSUME NEW k \in T PROVE k + 1 \in T
    <3>1. SUFFICES ASSUME NEW n \in Nat, NEW m \in Nat, k + 1 <= n, k + 1 <= m
                   PROVE  G[n][k + 1] = G[m][k + 1]
      OBVIOUS
    <3>2. k \in Nat /\ k <= n /\ k <= m /\ k + 1 \in 0..n /\ k + 1 \in 0..m /\ k + 1 # 0 /\ (k + 1) - 1 = k
      BY <3>1
    <3>3. G[n][k] = G[m][k]
      BY <3>2
    <3>4. G[n][k + 1] = Onwards(G[n][k], open) /\ G[m][k + 1] = Onwards(G[m][k], open)
      <4>1. G[n][k + 1] = Onwards(G[n][(k + 1) - 1], open) /\ G[m][k + 1] = Onwards(G[m][(k + 1) - 1], open)
        BY <1>3, <3>2
      <4> QED
        BY <3>2, <4>1
    <3> QED
      BY <3>3, <3>4
  <2> HIDE DEF T
  <2> QED
    BY <2>1, <2>2, EveryNumber DEF T
<1> DEFINE f == [n \in Nat |-> G[n][n]]
<1>5. \A n \in Nat : f[n] = IF n = 0 THEN from ELSE Onwards(f[n - 1], open)
  <2> TAKE n \in Nat
  <2>1. CASE n = 0
    BY <1>3, <2>1
  <2>2. CASE n # 0
    <3>1. n - 1 \in Nat /\ n \in 0..n /\ n - 1 <= n
      BY <2>2
    <3>2. f[n] = G[n][n] /\ f[n - 1] = G[n - 1][n - 1]
      BY <3>1
    <3>3. G[n - 1][n - 1] = G[n][n - 1]
      BY <1>4, <3>1
    <3> QED
      BY <1>3, <2>2, <3>1, <3>2, <3>3
  <2> QED
    BY <2>1, <2>2
<1>6. f = [n \in Nat |-> f[n]]
  OBVIOUS
<1> HIDE DEF f
<1>7. IsStep(f, from, open)
  BY <1>5, <1>6 DEF IsStep
<1> QED
  BY <1>7

\* What Reach is worked with by.
LEMMA ReachSteps ==
    ASSUME NetAssumption, NEW c, NEW from, NEW within
    PROVE  \E step : /\ step[0] = from
                     /\ \A n \in Nat : step[n + 1] = Onwards(step[n], Open(c, within))
                     /\ \A n \in 0..2 * (NumCols + NumRows) : step[n] \subseteq Reach(c, from, within)
<1> DEFINE open == Open(c, within)
           step == CHOOSE f : IsStep(f, from, open)
<1>1. IsStep(step, from, open)
  BY StepExists
<1>2. Reach(c, from, within) = step[2 * (NumCols + NumRows)]
  BY DEF Reach, IsStep
<1> HIDE DEF step, open
<1>3. step[0] = from
  BY <1>1 DEF IsStep
<1>4. \A n \in Nat : step[n + 1] = Onwards(step[n], open)
  <2> TAKE n \in Nat
  <2>1. n + 1 \in Nat /\ n + 1 # 0 /\ (n + 1) - 1 = n
    OBVIOUS
  <2> QED
    BY <1>1, <2>1 DEF IsStep
<1>5. ASSUME NEW m \in Nat PROVE \A n \in Nat : m <= n => step[m] \subseteq step[n]
  <2> DEFINE S == {n \in Nat : m <= n => step[m] \subseteq step[n]}
  <2>1. 0 \in S
    OBVIOUS
  <2>2. ASSUME NEW n \in S PROVE n + 1 \in S
    <3>1. step[n] \subseteq step[n + 1]
      BY <1>4 DEF Onwards
    <3> QED
      BY <3>1
  <2> HIDE DEF S
  <2>3. S = Nat
    BY <2>1, <2>2, EveryNumber DEF S
  <2> QED
    BY <2>3 DEF S
<1>6. \A n \in 0..2 * (NumCols + NumRows) : step[n] \subseteq step[2 * (NumCols + NumRows)]
  <2>1. 2 * (NumCols + NumRows) \in Nat
    BY DEF NetAssumption
  <2> QED
    BY <1>5, <2>1
<1> QED
  BY <1>2, <1>3, <1>4, <1>6 DEF open

----------------------------------------------------------------------------
(* XAie_SyncTimer synchronizes: its event gets along the shims, and from    *)
(* each shim up its column.                                                 *)

\* The call notices a write that is refused: the one that it ignores is not, and
\* none of the loop in which it returns what the request of its channels returned.
RefusalsAreReported == \A r \in Refused : r[1] # "Block" /\ r # <<"Arm", <<0, ShimRow, 1, 1>>>>

\* What is in front of the event when it is generated.
Ready == /\ pc = "Generate" /\ Gen \in Gens /\ tiles \in TileSets
         /\ \A s \in Ungated(Gen, tiles), sw \in {0, 1}, d \in Dirs :
               s[2] = ShimRow \/ d \notin BlockDirs(s) => <<"block", s, BcastChannelId, sw, d>> \notin regs
         /\ \A s \in ShimSlots, sw \in {0, 1}, d \in Dirs : <<"block", s, BcastChannelIdShim, sw, d>> \notin regs
         /\ \A s \in ShimSlots : <<"broadcast", s, BcastChannelId, BcastChannelIdShim>> \in regs
         /\ <<"broadcast", zero, BcastChannelIdShim, BcastChannelIdShim>> \in regs
         /\ \A s \in Ungated(Gen, tiles) : <<"reset", s, BcastChannelId>> \in regs

LEMMA IsReady ==
    ASSUME NetAssumption, RefusalsAreReported, IInv, Phase, Written, Known(Rows), pc = "Generate"
    PROVE  Ready
<1>1. /\ RscsBC = Ungated(Gen, tiles) /\ RscsBCShim = ShimSlots /\ Gen \in Gens /\ tiles \in TileSets
      /\ RscsBC \subseteq Slots
  BY DEF Phase, Syncing, IInv, Types
<1>2. \A s \in Slots : s[2] \in Rows
  BY DEF Slots
<1>3. ASSUME NEW s \in RscsBC, NEW c, <<s, c>> \in Own, NEW sw, NEW d, s[2] = ShimRow \/ d \notin BlockDirs(s)
      PROVE  <<"block", s, c, sw, d>> \notin regs
  <2>1. <<s, c>> \notin errors
    BY <1>3 DEF IInv, Held
  <2>2. s[2] \in Rows
    BY <1>1, <1>2
  <2> DEFINE f == <<"block", s, c, sw, d>>
  <2>3. f[1] = "block" /\ f[2] = s /\ f[3] = c /\ f[5] = d
    OBVIOUS
  <2> HIDE DEF f
  <2>4. f \notin regs
    BY <1>3, <2>1, <2>2, <2>3 DEF Known
  <2> QED
    BY <2>4 DEF f
<1>4. /\ \A s \in RscsBC : <<s, BcastChannelId>> \in Own
      /\ \A s \in ShimSlots : s \in RscsBC /\ <<s, BcastChannelIdShim>> \in Own /\ s[2] = ShimRow
  <2>1. ShimSlots \subseteq RscsBC /\ \A s \in ShimSlots : s[2] = ShimRow
    BY <1>1 DEF Ungated, ShimSlots
  <2> QED
    BY <1>1, <2>1 DEF Own
<1>5. ASSUME NEW s \in ShimSlots
      PROVE  <<"broadcast", s, BcastChannelId, BcastChannelIdShim>> \in regs
  <2> DEFINE e == EventBroadcast(s, BcastChannelId, BcastChannelIdShim)
             w == IF s = zero THEN Ignored(e) ELSE e
             l == [at |-> At(s, 1), w |-> w]
  <2>1. l \in SyncWrites("Arm")
    BY ArmWrites
  <2>2. <<"broadcast", s, BcastChannelId, BcastChannelIdShim>> \in w.set
    BY DEF EventBroadcast, Ignored
  <2>3. w.must \/ s = zero
    BY DEF EventBroadcast
  <2>4. l.w = w /\ l.at = At(s, 1)
    OBVIOUS
  <2>5. At(zero, 1) = <<0, ShimRow, 1, 1>>
    BY DEF At, zero
  <2> HIDE DEF l, w, e
  <2>6. Sure("Arm", l)
    BY <2>3, <2>4, <2>5 DEF Sure, RefusalsAreReported
  <2>7. Past("Arm", l) /\ "Arm" \in Setting
    BY DEF Past, Then, Setting
  <2> QED
    BY <2>1, <2>2, <2>4, <2>6, <2>7 DEF Written
<1>6. ASSUME NEW s \in RscsBC
      PROVE  <<"reset", s, BcastChannelId>> \in regs
  <2> DEFINE l == [at |-> At(s, 1), w |-> SetTimerResetEvent(s, {<<"reset", s, BcastChannelId>>})]
  <2>1. l \in SyncWrites("SetReset")
    BY ResetWrites, Zenon
  <2>2. l.at = At(s, 1)
    OBVIOUS
  <2> HIDE DEF l
  <2>3. Past("SetReset", l) /\ "SetReset" \in Setting
    BY DEF Past, Then, Setting
  <2>4. PICK t \in RscsBC : l.at = At(t, 1) /\ l.w.set = {<<"reset", t, BcastChannelId>>} /\ l.w.must
    BY <2>1, ResetSets
  <2>5. l.w.set \subseteq regs
    BY <2>1, <2>3, <2>4 DEF Written, Sure
  <2>6. l.w.set = {<<"reset", s, BcastChannelId>>}
    BY DEF l, SetTimerResetEvent
  <2> QED
    BY <2>5, <2>6
<1>7. <<"broadcast", zero, BcastChannelIdShim, BcastChannelIdShim>> \in regs
  <2> DEFINE e == EventBroadcast(zero, BcastChannelIdShim, BcastChannelIdShim)
             l == [at |-> <<0, ShimRow, 2, 1>>, w |-> e]
  <2>1. l \in SyncWrites("Arm")
    BY ArmWrites
  <2>2. <<"broadcast", zero, BcastChannelIdShim, BcastChannelIdShim>> \in e.set /\ e.must
    BY DEF EventBroadcast
  <2>3. l.w = e
    OBVIOUS
  <2> HIDE DEF l, e
  <2>4. Sure("Arm", l)
    BY <2>2, <2>3 DEF Sure
  <2>5. Past("Arm", l) /\ "Arm" \in Setting
    BY DEF Past, Then, Setting
  <2> QED
    BY <2>1, <2>2, <2>3, <2>4, <2>5 DEF Written
<1> QED
  BY <1>1, <1>3, <1>4, <1>5, <1>6, <1>7 DEF Ready

\* The links that the broadcasts take.
LEMMA ShimLinks ==
    ASSUME NetAssumption, NEW gen \in Gens, NEW c \in ColRange
    PROVE  /\ <<<<<<c, ShimRow, "PL">>, 0>>, "E", <<<<c, ShimRow, "PL">>, 1>>>> \in Links[gen]
           /\ c + 1 \in ColRange =>
                 <<<<<<c, ShimRow, "PL">>, 1>>, "E", <<<<c + 1, ShimRow, "PL">>, 0>>>> \in Links[gen]
<1>1. ShimRow \in Rows /\ ~IsAie(gen, ShimRow) /\ (c + 1 \in ColRange => c \in 0..NumCols-2)
  BY DEF Rows, ShimRow, IsAie, ColRange, NetAssumption
<1>2. \A x : /\ West(gen, x, ShimRow) = <<<<x, ShimRow, "PL">>, 0>>
             /\ East(gen, x, ShimRow) = <<<<x, ShimRow, "PL">>, 1>>
  BY <1>1 DEF West, East, MemIsWest, LineA, LineB, Mod
<1> DEFINE p == <<West(gen, c, ShimRow), East(gen, c, ShimRow)>>
           q == <<East(gen, c, ShimRow), West(gen, c + 1, ShimRow)>>
<1>3. p \in Horizontal(gen) /\ (c + 1 \in ColRange => q \in Horizontal(gen))
  BY <1>1 DEF Horizontal
<1>4. \A x \in Horizontal(gen) : <<x[1], "E", x[2]>> \in Links[gen]
  BY DEF Links
<1>5. /\ p[1] = <<<<c, ShimRow, "PL">>, 0>> /\ p[2] = <<<<c, ShimRow, "PL">>, 1>>
      /\ q[1] = <<<<c, ShimRow, "PL">>, 1>> /\ q[2] = <<<<c + 1, ShimRow, "PL">>, 0>>
  BY <1>2
<1> HIDE DEF p, q
<1> QED
  BY <1>3, <1>4, <1>5

LEMMA ColumnLinks ==
    ASSUME NetAssumption, NEW gen \in Gens, NEW c \in ColRange, NEW r \in Rows, r + 1 \in Rows
    PROVE  <<LineA(gen, c, r), "N", LineA(gen, c, r + 1)>> \in Links[gen]
<1> DEFINE p == <<LineA(gen, c, r), LineA(gen, c, r + 1)>>
<1>1. r \in 0..NumRows-2
  BY DEF Rows, NetAssumption
<1>2. p \in Vertical(gen)
  BY <1>1 DEF Vertical
<1>3. \A x \in Vertical(gen) : <<x[1], "N", x[2]>> \in Links[gen]
  BY DEF Links
<1>4. p[1] = LineA(gen, c, r) /\ p[2] = LineA(gen, c, r + 1)
  OBVIOUS
<1> HIDE DEF p
<1> QED
  BY <1>2, <1>3, <1>4

\* From the core of a tile to its memory.
LEMMA InnerLinks ==
    ASSUME NetAssumption, Gen \in Gens, NEW c \in ColRange, NEW r \in Rows, IsAie(Gen, r)
    PROVE  \E d \in Dirs : /\ <<Single(c, r, "CORE"), d, Single(c, r, "MEM")>> \in Links[Gen]
                           /\ d \notin BlockDirs(<<c, r, "CORE">>)
<1> DEFINE p == <<West(Gen, c, r), East(Gen, c, r)>>
<1>1. p \in Horizontal(Gen)
  BY DEF Horizontal
<1>2. \A x \in Horizontal(Gen) : <<x[1], "E", x[2]>> \in Links[Gen] /\ <<x[2], "W", x[1]>> \in Links[Gen]
  BY DEF Links
<1>3. p[1] = West(Gen, c, r) /\ p[2] = East(Gen, c, r)
  OBVIOUS
<1> HIDE DEF p
<1>4. /\ <<West(Gen, c, r), "E", East(Gen, c, r)>> \in Links[Gen]
      /\ <<East(Gen, c, r), "W", West(Gen, c, r)>> \in Links[Gen]
  BY <1>1, <1>2, <1>3
<1>5. CASE MemIsWest(Gen, r)
  <2>1. West(Gen, c, r) = Single(c, r, "MEM") /\ East(Gen, c, r) = Single(c, r, "CORE")
    BY <1>5 DEF West, East, LineA, LineB
  <2>2. "W" \notin BlockDirs(<<c, r, "CORE">>) /\ "W" \in Dirs
    BY <1>5 DEF BlockDirs, MemIsWest, Dirs, DirNo
  <2> QED
    BY <1>4, <2>1, <2>2
<1>6. CASE ~MemIsWest(Gen, r)
  <2>1. West(Gen, c, r) = Single(c, r, "CORE") /\ East(Gen, c, r) = Single(c, r, "MEM")
    BY <1>6 DEF West, East, LineA, LineB
  <2>2. "E" \notin BlockDirs(<<c, r, "CORE">>) /\ "E" \in Dirs
    BY <1>6 DEF BlockDirs, MemIsWest, Dirs, DirNo
  <2> QED
    BY <1>4, <2>1, <2>2
<1> QED
  BY <1>5, <1>6

\* A channel is forwarded over a link at which it is not blocked.
LEMMA Forwarded ==
    ASSUME NEW R, NEW c, NEW within, NEW l \in Links[Gen], l[1] \in R, l[3][1] \in within,
           <<"block", l[1][1], c, l[1][2], l[2]>> \notin regs
    PROVE  l[3] \in Onwards(R, Open(c, within))
<1>1. l \in Open(c, within)
  BY DEF Open
<1> QED
  BY <1>1 DEF Onwards

LEMMA ShimsReached ==
    ASSUME NetAssumption, Ready
    PROVE  Started = ShimSlots
<1> DEFINE along == Reach(BcastChannelIdShim, {<<zero, 0>>}, ShimSlots)
           A(c) == <<<<c, ShimRow, "PL">>, 0>>
           B(c) == <<<<c, ShimRow, "PL">>, 1>>
<1>1. PICK step :
          /\ step[0] = {<<zero, 0>>}
          /\ \A n \in Nat : step[n + 1] = Onwards(step[n], Open(BcastChannelIdShim, ShimSlots))
          /\ \A n \in 0..2 * (NumCols + NumRows) : step[n] \subseteq along
  BY ReachSteps
<1>2. Gen \in Gens /\ NumCols \in Nat \ {0} /\ NumRows \in Nat \ {0}
  BY DEF Ready, NetAssumption
<1>3. \A c \in ColRange, sw \in {0, 1} :
          /\ <<c, ShimRow, "PL">> \in ShimSlots
          /\ <<"block", <<c, ShimRow, "PL">>, BcastChannelIdShim, sw, "E">> \notin regs
  <2>1. "E" \in Dirs
    BY DEF Dirs, DirNo
  <2>2. \A c \in ColRange : <<c, ShimRow, "PL">> \in ShimSlots
    BY DEF ShimSlots
  <2> QED
    BY <2>1, <2>2 DEF Ready
<1> DEFINE S == {c \in Nat : c \in ColRange => A(c) \in step[2 * c]}
<1>4. 0 \in S
  BY <1>1 DEF zero
<1>5. ASSUME NEW c \in S PROVE c + 1 \in S
  <2>1. SUFFICES ASSUME c + 1 \in ColRange PROVE A(c + 1) \in step[2 * (c + 1)]
    OBVIOUS
  <2>2. c \in ColRange /\ c \in Nat /\ 2 * c \in Nat /\ 2 * c + 1 \in Nat /\ 2 * (c + 1) = (2 * c + 1) + 1
    BY <1>2, <2>1 DEF ColRange
  <2>3. A(c) \in step[2 * c]
    BY <2>2
  <2> DEFINE l == <<A(c), "E", B(c)>>
             m == <<B(c), "E", A(c + 1)>>
  <2>4. l \in Links[Gen] /\ m \in Links[Gen]
    BY <1>2, <2>1, <2>2, ShimLinks
  <2>5. B(c) \in step[2 * c + 1]
    <3>1. /\ l[1] \in step[2 * c] /\ l[3][1] \in ShimSlots /\ l[3] = B(c)
          /\ <<"block", l[1][1], BcastChannelIdShim, l[1][2], l[2]>> \notin regs
      BY <1>3, <2>2, <2>3
    <3> HIDE DEF l
    <3> QED
      BY <1>1, <2>2, <2>4, <3>1, Forwarded
  <2>6. A(c + 1) \in step[(2 * c + 1) + 1]
    <3>1. /\ m[1] \in step[2 * c + 1] /\ m[3][1] \in ShimSlots /\ m[3] = A(c + 1)
          /\ <<"block", m[1][1], BcastChannelIdShim, m[1][2], m[2]>> \notin regs
      BY <1>3, <2>1, <2>2, <2>5
    <3> HIDE DEF m
    <3> QED
      BY <1>1, <2>2, <2>4, <3>1, Forwarded
  <2> QED
    BY <2>2, <2>6
<1> HIDE DEF S
<1>6. S = Nat
  BY <1>4, <1>5, EveryNumber DEF S
<1>7. ASSUME NEW c \in ColRange PROVE A(c) \in along
  <2>1. c \in Nat /\ 2 * c \in 0..2 * (NumCols + NumRows)
    BY <1>2 DEF ColRange
  <2>2. A(c) \in step[2 * c]
    BY <1>6, <2>1 DEF S
  <2> HIDE DEF along, A
  <2> QED
    BY <1>1, <2>1, <2>2
<1>8. \A s \in ShimSlots : <<s, 0>> \in along
  BY <1>7 DEF ShimSlots
<1>9. Started = {s \in ShimSlots : /\ <<s, 0>> \in along
                                   /\ <<"broadcast", s, BcastChannelId, BcastChannelIdShim>> \in regs}
  <2>1. <<"broadcast", zero, BcastChannelIdShim, BcastChannelIdShim>> \in regs
    BY DEF Ready
  <2> QED
    BY <2>1 DEF Started, zero
<1> HIDE DEF along
<1> QED
  BY <1>8, <1>9 DEF Ready

LEMMA ColumnsReached ==
    ASSUME NetAssumption, Ready
    PROVE  Ungated(Gen, tiles) \subseteq Broadcasted(ShimSlots)
<1> DEFINE within == Ungated(Gen, tiles)
           all == Reach(BcastChannelId, ShimSlots \X {0}, within)
<1>1. PICK step :
          /\ step[0] = ShimSlots \X {0}
          /\ \A n \in Nat : step[n + 1] = Onwards(step[n], Open(BcastChannelId, within))
          /\ \A n \in 0..2 * (NumCols + NumRows) : step[n] \subseteq all
  BY ReachSteps
<1>2. /\ Gen \in Gens /\ NumCols \in Nat \ {0} /\ NumRows \in Nat \ {0} /\ tiles \in TileSets
      /\ tiles \subseteq ColRange \X (Rows \ {ShimRow})
      /\ \A t \in tiles : t[2] > 1 => <<t[1], t[2] - 1>> \in tiles
  BY DEF Ready, NetAssumption
<1>3. Broadcasted(ShimSlots) = {x[1] : x \in all}
  BY DEF Broadcasted
\* The modules through which the broadcast gets up a column.
<1>4. ASSUME NEW c \in ColRange, NEW r \in Rows, r = ShimRow \/ <<c, r>> \in tiles
      PROVE  /\ LineA(Gen, c, r)[1] \in within /\ LineA(Gen, c, r)[2] = 0
             /\ LineA(Gen, c, r)[1][2] = r
             /\ r = ShimRow \/ "N" \notin BlockDirs(LineA(Gen, c, r)[1])
  <2>1. CASE r = ShimRow
    BY <2>1 DEF LineA, IsAie, Mod, Ungated, ShimSlots, ShimRow
  <2>2. CASE r # ShimRow /\ IsAie(Gen, r)
    <3>1. LineA(Gen, c, r) = <<<<c, r, "CORE">>, 0>>
      BY <2>2 DEF LineA, Single
    <3>2. <<c, r, "CORE">> \in SlotsOf(Gen, tiles)
      BY <1>4, <2>2 DEF SlotsOf, Slots, ModsOf
    <3>3. "N" \notin BlockDirs(<<c, r, "CORE">>)
      BY DEF BlockDirs
    <3> QED
      BY <3>1, <3>2, <3>3 DEF Ungated
  <2>3. CASE r # ShimRow /\ ~IsAie(Gen, r)
    <3>1. LineA(Gen, c, r) = <<<<c, r, "MEM">>, 0>>
      BY <2>3 DEF LineA, Mod
    <3>2. <<c, r, "MEM">> \in SlotsOf(Gen, tiles)
      BY <1>4, <2>3 DEF SlotsOf, Slots, ModsOf
    <3>3. "N" \notin BlockDirs(<<c, r, "MEM">>)
      BY DEF BlockDirs
    <3> QED
      BY <3>1, <3>2, <3>3 DEF Ungated
  <2> QED
    BY <2>1, <2>2, <2>3
<1>5. ASSUME NEW s \in within, NEW sw \in {0, 1}, NEW d \in Dirs, s[2] = ShimRow \/ d \notin BlockDirs(s)
      PROVE  <<"block", s, BcastChannelId, sw, d>> \notin regs
  BY <1>5 DEF Ready
<1>6. ASSUME NEW c \in ColRange
      PROVE  \A r \in Nat : r \in Rows /\ (r = ShimRow \/ <<c, r>> \in tiles) => LineA(Gen, c, r) \in step[r]
  <2> DEFINE S == {r \in Nat : r \in Rows /\ (r = ShimRow \/ <<c, r>> \in tiles) => LineA(Gen, c, r) \in step[r]}
  <2>1. 0 \in S
    <3>1. LineA(Gen, c, 0) = <<<<c, ShimRow, "PL">>, 0>>
      BY DEF LineA, IsAie, Mod, ShimRow
    <3>2. <<c, ShimRow, "PL">> \in ShimSlots
      BY DEF ShimSlots
    <3> QED
      BY <1>1, <3>1, <3>2
  <2>2. ASSUME NEW r \in S PROVE r + 1 \in S
    <3>1. SUFFICES ASSUME r + 1 \in Rows, r + 1 = ShimRow \/ <<c, r + 1>> \in tiles
                   PROVE  LineA(Gen, c, r + 1) \in step[r + 1]
      OBVIOUS
    <3>2. r \in Nat /\ r \in Rows /\ r + 1 # ShimRow /\ <<c, r + 1>> \in tiles
      BY <1>2, <3>1 DEF Rows, ShimRow
    <3>3. r = ShimRow \/ <<c, r>> \in tiles
      <4>1. SUFFICES ASSUME r # ShimRow PROVE <<c, r>> \in tiles
        OBVIOUS
      <4>2. r + 1 > 1 /\ (r + 1) - 1 = r
        BY <3>2, <4>1 DEF ShimRow
      <4> DEFINE t == <<c, r + 1>>
      <4>3. t \in tiles /\ t[1] = c /\ t[2] = r + 1
        BY <3>2
      <4> HIDE DEF t
      <4>4. <<t[1], t[2] - 1>> \in tiles
        BY <1>2, <4>2, <4>3
      <4> QED
        BY <4>2, <4>3, <4>4
    <3>4. LineA(Gen, c, r) \in step[r]
      BY <3>2, <3>3
    <3> DEFINE l == <<LineA(Gen, c, r), "N", LineA(Gen, c, r + 1)>>
    <3>5. l \in Links[Gen]
      BY <1>2, <3>1, <3>2, ColumnLinks
    <3>6. l[1] = LineA(Gen, c, r) /\ l[2] = "N" /\ l[3] = LineA(Gen, c, r + 1)
      OBVIOUS
    <3> HIDE DEF l
    <3>7. l[3][1] \in within
      BY <1>4, <3>1, <3>6
    <3>8. <<"block", l[1][1], BcastChannelId, l[1][2], l[2]>> \notin regs
      <4>1. "N" \in Dirs
        BY DEF Dirs, DirNo
      <4>2. /\ l[1][1] \in within /\ l[1][2] = 0
            /\ l[1][1][2] = ShimRow \/ "N" \notin BlockDirs(l[1][1])
        BY <1>4, <3>2, <3>3, <3>6
      <4> HIDE DEF within
      <4> QED
        BY <1>5, <3>6, <4>1, <4>2
    <3> HIDE DEF within
    <3>9. l[3] \in Onwards(step[r], Open(BcastChannelId, within))
      BY <3>4, <3>5, <3>6, <3>7, <3>8, Forwarded
    <3> QED
      BY <1>1, <3>2, <3>6, <3>9
  <2> HIDE DEF S
  <2>3. S = Nat
    BY <2>1, <2>2, EveryNumber DEF S
  <2> QED
    BY <2>3 DEF S
<1>7. \A n \in Nat : n <= NumRows => n \in 0..2 * (NumCols + NumRows)
  BY <1>2
<1>8. ASSUME NEW s \in within PROVE \E x \in all : x[1] = s
  <2>1. CASE s \in ShimSlots
    <3>1. <<s, 0>> \in step[0]
      BY <1>1, <2>1
    <3> HIDE DEF all
    <3>2. 0 \in 0..2 * (NumCols + NumRows)
      BY <1>2, <1>7
    <3>3. <<s, 0>> \in all
      BY <1>1, <3>1, <3>2
    <3> QED
      BY <3>3
  <2>2. CASE s \in SlotsOf(Gen, tiles)
    <3>1. PICK c \in ColRange, r \in Rows, mod \in {"PL", "MEM", "CORE"} :
              s = <<c, r, mod>> /\ <<c, r>> \in tiles /\ mod \in ModsOf(Gen, r)
      <4>1. /\ s \in ColRange \X Rows \X {"PL", "MEM", "CORE"}
            /\ <<s[1], s[2]>> \in tiles /\ s[3] \in ModsOf(Gen, s[2])
        BY <2>2 DEF SlotsOf, Slots
      <4>2. s = <<s[1], s[2], s[3]>>
        BY <4>1
      <4> QED
        BY <4>1, <4>2
    <3>2. r \in Nat /\ r # ShimRow /\ r + 1 \in Nat /\ r <= NumRows /\ r + 1 <= NumRows
      BY <1>2, <3>1 DEF Rows
    <3>3. LineA(Gen, c, r) \in step[r]
      BY <1>6, <3>1, <3>2
    <3> HIDE DEF all
    <3>4. LineA(Gen, c, r) \in all
      BY <1>1, <1>7, <3>2, <3>3
    <3>5. CASE LineA(Gen, c, r)[1] = s
      BY <3>4, <3>5
    <3>6. CASE LineA(Gen, c, r)[1] # s
      <4>1. IsAie(Gen, r) /\ s = <<c, r, "MEM">> /\ LineA(Gen, c, r) = Single(c, r, "CORE")
        <5>1. CASE IsAie(Gen, r)
          <6>1. LineA(Gen, c, r) = Single(c, r, "CORE") /\ mod \in {"CORE", "MEM"}
            BY <3>1, <3>2, <5>1 DEF LineA, ModsOf
          <6> QED
            BY <3>1, <3>6, <5>1, <6>1 DEF Single
        <5>2. CASE ~IsAie(Gen, r)
          <6>1. LineA(Gen, c, r) = <<<<c, r, "MEM">>, 0>> /\ mod = "MEM"
            BY <3>1, <3>2, <5>2 DEF LineA, ModsOf, Mod
          <6> QED
            BY <3>1, <3>6, <6>1
        <5> QED
          BY <5>1, <5>2
      <4>2. PICK d \in Dirs : /\ <<Single(c, r, "CORE"), d, Single(c, r, "MEM")>> \in Links[Gen]
                              /\ d \notin BlockDirs(<<c, r, "CORE">>)
        BY <1>2, <4>1, InnerLinks
      <4> DEFINE l == <<Single(c, r, "CORE"), d, Single(c, r, "MEM")>>
      <4>3. /\ l[1] = LineA(Gen, c, r) /\ l[1][1] = <<c, r, "CORE">> /\ l[1][2] = 0 /\ l[2] = d
            /\ l[3] = <<s, 0>>
        BY <4>1 DEF Single
      <4>4. l \in Links[Gen]
        BY <4>2
      <4> HIDE DEF l
      <4>5. l[1][1] \in within
        BY <1>4, <3>1, <4>3
      <4> HIDE DEF within
      <4>6. <<"block", l[1][1], BcastChannelId, l[1][2], l[2]>> \notin regs
        BY <1>5, <4>2, <4>3, <4>5
      <4>7. l[3] \in Onwards(step[r], Open(BcastChannelId, within))
        BY <3>3, <4>3, <4>4, <4>6, Forwarded
      <4>8. <<s, 0>> \in step[r + 1]
        BY <1>1, <3>2, <4>3, <4>7
      <4>9. <<s, 0>> \in all
        BY <1>1, <1>7, <3>2, <4>8
      <4> QED
        BY <4>9
    <3> QED
      BY <3>5, <3>6
  <2> QED
    BY <2>1, <2>2 DEF Ungated
<1> QED
  BY <1>3, <1>8

LEMMA EventSynchronizes ==
    ASSUME NetAssumption, Ready
    PROVE  Ungated(Gen, tiles) \subseteq {s \in Broadcasted(Started) : <<"reset", s, BcastChannelId>> \in regs}
BY ShimsReached, ColumnsReached DEF Ready

\* From the event on all timers in use are synchronized, until the next call.
Synced ==
    pc \in Cleaning \cup {"Release"} \/ result = "ok" => Ungated(Gen, tiles) \subseteq synced

LEMMA SyncedKept ==
    ASSUME Synced, UNCHANGED <<Gen, tiles, synced>>,
           pc' \in Cleaning \cup {"Release"} => pc \in Cleaning \cup {"Release"},
           result' = "ok" => result = "ok" \/ pc \in Cleaning \cup {"Release"}
    PROVE  Synced'
BY DEF Synced

LEMMA SyncedForgotten ==
    ASSUME result' = "none", pc' \notin Cleaning \cup {"Release"}
    PROVE  Synced'
BY DEF Synced

LEMMA SyncedLoops ==
    ASSUME RefusalsAreReported, Synced, SyncLoops
    PROVE  Synced'
<1>1. PICK loop \in DOMAIN NextLoop : SyncLoop(loop)
  BY DEF SyncLoops
<1>2. pc = loop /\ UNCHANGED <<Gen, tiles, synced>>
  BY <1>1 DEF SyncLoop, device
<1>3. CASE pc' = pc /\ result' = result
  BY <1>2, <1>3, SyncedKept
<1>4. CASE pc' = NextLoop[loop] /\ result' = result
  BY <1>2, <1>4, SyncedKept DEF NextLoop, Cleaning
<1>5. CASE AbandonSync(Returned(loop)) /\ \E l \in Left(SyncWrites(loop)) : Refuses(loop, l.at)
  <2>1. PICK l : Refuses(loop, l.at)
    BY <1>5
  <2>2. loop # "Block"
    <3>1. <<loop, l.at>>[1] = loop /\ <<loop, l.at>> \in Refused
      BY <2>1 DEF Refuses
    <3> QED
      BY <3>1 DEF RefusalsAreReported
  <2>3. result' = "error" /\ pc' = "Idle"
    BY <1>5, <2>2 DEF AbandonSync, EndSync, Returned
  <2> QED
    BY <2>3 DEF Synced, Cleaning
<1> QED
  BY <1>1, <1>3, <1>4, <1>5 DEF SyncLoop, Goes

LEMMA SyncedStep ==
    ASSUME NetAssumption, RefusalsAreReported, IInv, Phase, Written, Known(Rows), Synced, [Next]_vars
    PROVE  Synced'
<1> USE DEF device, bits
<1>1. CASE \E u \in Users : UserRelease(u) \/ \E r \in Requests : UserRequest(u, r)
  BY <1>1, SyncedForgotten DEF UserRelease, UserRequest, Forget, Cleaning
<1>2. CASE LoadStatic
  BY <1>2, SyncedForgotten DEF LoadStatic, Forget, Cleaning
<1>3. CASE \E T \in TileSets : RequestTiles(T)
  BY <1>3, SyncedForgotten DEF RequestTiles, Forget, Cleaning
<1>4. CASE SyncTimer
  BY <1>4, SyncedForgotten DEF SyncTimer, Forget, Cleaning
<1>5. CASE RequestShim
  <2>1. /\ UNCHANGED <<Gen, tiles, synced>> /\ pc' \in {"Block", "Idle"}
        /\ result' = result \/ result' = "error"
    BY <1>5 DEF RequestShim, AbandonSync, EndSync
  <2> QED
    BY <2>1, SyncedKept DEF Cleaning
<1>6. CASE SyncLoops
  BY <1>6, SyncedLoops
<1>7. CASE Generate
  <2>1. CASE AbandonSync("error")
    BY <2>1 DEF AbandonSync, EndSync, Synced, Cleaning
  <2>2. CASE synced' = {s \in Broadcasted(Started) : <<"reset", s, BcastChannelId>> \in regs}
    <3>1. Ungated(Gen, tiles) \subseteq synced'
      <4>1. Ready
        BY <1>7, IsReady DEF Generate
      <4> QED
        BY <2>2, <4>1, EventSynchronizes
    <3>2. UNCHANGED <<Gen, tiles>>
      BY <1>7 DEF Generate
    <3> QED
      BY <3>1, <3>2 DEF Synced
  <2> QED
    BY <1>7, <2>1, <2>2 DEF Generate
<1>8. CASE Release
  <2>1. /\ UNCHANGED <<Gen, tiles, synced>> /\ pc = "Release" /\ pc' = "Idle"
    BY <1>8 DEF Release, EndSync
  <2> QED
    BY <2>1, SyncedKept DEF Cleaning
<1>9. CASE ErrorHandlingInit
  BY <1>9, SyncedForgotten DEF ErrorHandlingInit, Forget, Cleaning
<1>10. CASE ReserveShim \/ Reserved \/ ErrorsWritten
  <2>1. /\ UNCHANGED <<Gen, tiles, synced, result>> /\ pc' \in {"Idle", "Reserve", "Errors"}
    BY <1>10 DEF ReserveShim, Reserved, ErrorsWritten, Goes
  <2> QED
    BY <2>1, SyncedKept DEF Cleaning
<1>11. CASE UNCHANGED vars
  BY <1>11, SyncedKept DEF vars
<1> QED
  BY <1>1, <1>2, <1>3, <1>4, <1>5, <1>6, <1>7, <1>8, <1>9, <1>10, <1>11 DEF Next, SyncStep, ErrorStep

\* When XAie_SyncTimer returns XAIE_OK, one event has reset the timers of all modules
\* in use: in every partition and for every set of tiles in use, whatever calls came
\* before and wherever they failed.  It takes that the channels reserved for errors
\* are those the error network blocks, and that no write is refused whose failure
\* the call does not report.
THEOREM TimersAreSynchronizedHolds ==
    ASSUME ErrorChannelsSuffice, RefusalsAreReported PROVE Spec => []TimersAreSynchronized
<1> USE NetAssumption
<1>1. Init => Phase /\ Written /\ Known(Rows) /\ Synced
  <2> SUFFICES ASSUME Init PROVE Phase /\ Written /\ Known(Rows) /\ Synced
    OBVIOUS
  <2>1. pc = "Idle" /\ regs = {} /\ result = "none"
    BY DEF Init
  <2>2. Written
    BY <2>1 DEF Written, Past, Then, Setting
  <2>3. Known(Rows)
    BY <2>1 DEF Known
  <2>4. Synced
    BY <2>1 DEF Synced, Cleaning
  <2> QED
    BY <2>2, <2>3, <2>4, PhaseInit
<1>2. IInv /\ Phase /\ Written /\ Known(Rows) /\ Synced /\ [Next]_vars => Phase' /\ Written' /\ Known(Rows)' /\ Synced'
  BY PhaseStep, WrittenStep, KnownStep, SyncedStep
<1>3. Synced => TimersAreSynchronized
  BY DEF Synced, TimersAreSynchronized
<1> QED
  BY <1>1, <1>2, <1>3, Invariance, PTL DEF Spec

----------------------------------------------------------------------------
(* The registers of the routes of errors: when the error network is on,     *)
(* they are set as its writes set them, and not otherwise.                  *)

\* Every write of the set up ends the call when it is refused, and clears nothing but
\* what starts a broadcast.
LEMMA ErrorWritesAre ==
    ASSUME NetAssumption, NEW gen \in Gens, NEW T \in TileSets, NEW l \in ErrorWrites[gen][T]
    PROVE  l.w.must /\ l.at[1] \in Nat /\ \A f \in l.w.clr : f[1] = "broadcast"
<1> DEFINE good(w) == w.must /\ \A f \in w.clr : f[1] = "broadcast"
<1>1. \A x : good(Write(x))
  BY DEF Write
<1>2. \A s, sw, c, d : good(Block(s, sw, c, d))
  BY DEF Block, Write
<1>3. \A s, c, e : good(EventBroadcast(s, c, e))
  BY DEF EventBroadcast
<1> HIDE DEF good
<1>4. \/ l \in ArrayWrites(gen, T) \/ (\E col \in ColRange : l \in ShimWrites(gen, col))
      \/ l \in GroupWrites(gen, T) \/ l \in HaltWrites(gen, T)
  <2>1. l \in ArrayWrites(gen, T) \cup AllShimWrites(gen) \cup GroupWrites(gen, T) \cup HaltWrites(gen, T)
    BY DEF ErrorWrites
  <2>2. l \in AllShimWrites(gen) => \E col \in ColRange : l \in ShimWrites(gen, col)
    BY DEF AllShimWrites
  <2> QED
    BY <2>1, <2>2
<1> DEFINE placed == l.at[1] \in {1, 2, 3}
<1>5. CASE l \in ArrayWrites(gen, T)
  <2>1. PICK x : /\ l.at = <<1, x[1][1], Part(gen, x[1][2]), x[1][2],
                             IF x[1][3] = "MEM" /\ IsAie(gen, x[1][2]) THEN 2 ELSE 1 + x[2], DirNo[x[3]]>>
                 /\ l.w = Block(x[1], x[2], {0}, x[3])
    BY <1>5 DEF ArrayWrites
  <2> QED
    BY <1>2, <2>1 DEF good
<1>6. CASE \E col \in ColRange : l \in ShimWrites(gen, col)
  <2>1. PICK col \in ColRange : l \in ShimWrites(gen, col)
    BY <1>6
  <2> DEFINE s == <<col, ShimRow, "PL">>
             at(k, d) == <<1, col, Part(gen, ShimRow), ShimRow, k, d>>
             one(k, x) == l = [at |-> at(k, 0), w |-> Write({x})]
  <2>2. \/ \E k, x : one(k, x)
        \/ \E d \in DirsB(col) : l = [at |-> at(8, DirNo[d]), w |-> Block(s, 1, BlockedB(gen, col), d)]
        \/ \E d \in ShimDirs(col) : l = [at |-> at(10, DirNo[d]), w |-> Block(s, 0, {L1IrqId(gen, col, 0)}, d)]
    <3>1. \/ one(1, <<"l1block", s, 0>>) \/ one(2, <<"l1block", s, 1>>)
          \/ one(3, <<"l1enable", s, 0>>) \/ one(4, <<"l1enable", s, 1>>) \/ one(5, <<"l1enable shim", s, 0>>)
          \/ one(6, <<"irq", s, 0, L1IrqId(gen, col, 0)>>) \/ one(7, <<"irq", s, 1, L1IrqId(gen, col, 1)>>)
          \/ \E d \in DirsB(col) : l = [at |-> at(8, DirNo[d]), w |-> Block(s, 1, BlockedB(gen, col), d)]
          \/ one(9, <<"l2enable", s, 0>>)
          \/ \E d \in ShimDirs(col) : l = [at |-> at(10, DirNo[d]), w |-> Block(s, 0, {L1IrqId(gen, col, 0)}, d)]
      BY <2>1, Zenon DEF ShimWrites
    <3> HIDE DEF one
    <3> QED
      BY <3>1, Zenon
  <2>3. \A k, d : at(k, d)[1] = 1
    OBVIOUS
  <2> HIDE DEF at
  <2>4. CASE \E k, x : one(k, x)
    <3>1. PICK k, x : one(k, x)
      BY <2>4
    <3>2. l.at = at(k, 0) /\ l.w = Write({x})
      BY <3>1
    <3> HIDE DEF one
    <3> QED
      BY <1>1, <2>3, <3>2 DEF good
  <2>5. CASE \E d \in DirsB(col) : l = [at |-> at(8, DirNo[d]), w |-> Block(s, 1, BlockedB(gen, col), d)]
    BY <1>2, <2>3, <2>5 DEF good
  <2>6. CASE \E d \in ShimDirs(col) : l = [at |-> at(10, DirNo[d]), w |-> Block(s, 0, {L1IrqId(gen, col, 0)}, d)]
    BY <1>2, <2>3, <2>6 DEF good
  <2> HIDE DEF one
  <2> QED
    BY <2>2, <2>4, <2>5, <2>6
<1>7. CASE l \in GroupWrites(gen, T)
  <2> DEFINE at(x, k) == <<2, x[1], Part(gen, x[2]), x[2], IF x[3] = "CORE" THEN 2 ELSE 1, k>>
  <2>1. \/ \E x \in SlotsOf(gen, T) \cup ShimSlots : l = [at |-> at(x, 1), w |-> Write({<<"group", x, 0>>})]
        \/ \E x \in SlotsOf(gen, T) : l = [at |-> at(x, 2), w |-> EventBroadcast(x, 0, GroupErrors)]
        \/ \E x \in ShimSlots : l = [at |-> at(x, 2), w |-> Write({<<"l1event", x, 0>>})]
    BY <1>7, Zenon DEF GroupWrites
  <2>2. \A x, k : at(x, k)[1] = 2
    OBVIOUS
  <2> HIDE DEF at
  <2>3. CASE \E x \in SlotsOf(gen, T) \cup ShimSlots : l = [at |-> at(x, 1), w |-> Write({<<"group", x, 0>>})]
    BY <1>1, <2>2, <2>3 DEF good
  <2>4. CASE \E x \in SlotsOf(gen, T) : l = [at |-> at(x, 2), w |-> EventBroadcast(x, 0, GroupErrors)]
    BY <1>3, <2>2, <2>4 DEF good
  <2>5. CASE \E x \in ShimSlots : l = [at |-> at(x, 2), w |-> Write({<<"l1event", x, 0>>})]
    BY <1>1, <2>2, <2>5 DEF good
  <2> QED
    BY <2>1, <2>3, <2>4, <2>5
<1>8. CASE l \in HaltWrites(gen, T)
  <2>1. PICK s : l = [at |-> <<3, s[1], 1, s[2], 1, 1>>, w |-> Write({<<"halt", s, 0>>})]
    BY <1>8, Zenon DEF HaltWrites
  <2>2. l.at[1] = 3 /\ l.w = Write({<<"halt", s, 0>>})
    BY <2>1
  <2> QED
    BY <1>1, <2>2 DEF good
<1> QED
  BY <1>4, <1>5, <1>6, <1>7, <1>8

\* What is to be set for the routes, some write sets.
LEMMA ErrorSetIsWritten ==
    ASSUME NetAssumption, NEW gen \in Gens, NEW T \in TileSets, NEW f, ErrorSet(gen, T, f), f[1] # "broadcast"
    PROVE  \E l \in ErrorWrites[gen][T] : f \in l.w.set
<1>1. /\ \A l \in ArrayWrites(gen, T) : l \in ErrorWrites[gen][T]
      /\ \A col \in ColRange : \A l \in ShimWrites(gen, col) : l \in ErrorWrites[gen][T]
  BY DEF ErrorWrites, AllShimWrites
<1>2. /\ \A x : Write({x}).set = {x}
      /\ \A s, sw, chans, d : Block(s, sw, chans, d).set = {<<"block", s, c, sw, d>> : c \in chans}
  BY DEF Write, Block
<1>3. CASE \E x \in SlotsOf(gen, T), sw \in {0, 1}, d \in {"N", "E", "W"} :
               f = <<"block", x, 0, sw, d>> /\ (IsAie(gen, x[2]) => sw = 0)
  <2>1. PICK x \in SlotsOf(gen, T), sw \in {0, 1}, d \in {"N", "E", "W"} :
               f = <<"block", x, 0, sw, d>> /\ (IsAie(gen, x[2]) => sw = 0)
    BY <1>3
  <2> DEFINE y == <<x, sw, d>>
             l == [at |-> <<1, y[1][1], Part(gen, y[1][2]), y[1][2],
                            IF y[1][3] = "MEM" /\ IsAie(gen, y[1][2]) THEN 2 ELSE 1 + y[2], DirNo[y[3]]>>,
                   w |-> Block(y[1], y[2], {0}, y[3])]
  <2>2. y \in {z \in SlotsOf(gen, T) \X {0, 1} \X {"N", "E", "W"} : IsAie(gen, z[1][2]) => z[2] = 0}
    BY <2>1
  <2>3. l \in ArrayWrites(gen, T)
    BY <2>2 DEF ArrayWrites
  <2>4. l.w = Block(x, sw, {0}, d)
    OBVIOUS
  <2> HIDE DEF l
  <2>5. f \in l.w.set
    BY <1>2, <2>1, <2>4
  <2> QED
    BY <1>1, <2>3, <2>5
<1>4. CASE \E col \in ColRange : \E d \in DirsB(col), c \in BlockedB(gen, col) :
               f = <<"block", <<col, ShimRow, "PL">>, c, 1, d>>
  <2>1. PICK col \in ColRange : \E d \in DirsB(col), c \in BlockedB(gen, col) :
               f = <<"block", <<col, ShimRow, "PL">>, c, 1, d>>
    BY <1>4
  <2>2. PICK d \in DirsB(col), c \in BlockedB(gen, col) : f = <<"block", <<col, ShimRow, "PL">>, c, 1, d>>
    BY <2>1
  <2> DEFINE l == [at |-> <<1, col, Part(gen, ShimRow), ShimRow, 8, DirNo[d]>>,
                   w |-> Block(<<col, ShimRow, "PL">>, 1, BlockedB(gen, col), d)]
  <2>3. l \in ShimWrites(gen, col)
    BY Zenon DEF ShimWrites
  <2>4. l.w = Block(<<col, ShimRow, "PL">>, 1, BlockedB(gen, col), d)
    OBVIOUS
  <2> HIDE DEF l
  <2>5. f \in l.w.set
    BY <1>2, <2>2, <2>4
  <2> QED
    BY <1>1, <2>3, <2>5
<1>5. CASE \E col \in ColRange : \E d \in ShimDirs(col) :
               f = <<"block", <<col, ShimRow, "PL">>, L1IrqId(gen, col, 0), 0, d>>
  <2>1. PICK col \in ColRange : \E d \in ShimDirs(col) :
               f = <<"block", <<col, ShimRow, "PL">>, L1IrqId(gen, col, 0), 0, d>>
    BY <1>5
  <2>2. PICK d \in ShimDirs(col) : f = <<"block", <<col, ShimRow, "PL">>, L1IrqId(gen, col, 0), 0, d>>
    BY <2>1
  <2> DEFINE l == [at |-> <<1, col, Part(gen, ShimRow), ShimRow, 10, DirNo[d]>>,
                   w |-> Block(<<col, ShimRow, "PL">>, 0, {L1IrqId(gen, col, 0)}, d)]
  <2>3. l \in ShimWrites(gen, col)
    BY Zenon DEF ShimWrites
  <2>4. l.w = Block(<<col, ShimRow, "PL">>, 0, {L1IrqId(gen, col, 0)}, d)
    OBVIOUS
  <2> HIDE DEF l
  <2>5. f \in l.w.set
    BY <1>2, <2>2, <2>4
  <2> QED
    BY <1>1, <2>3, <2>5
<1>6. CASE \E col \in ColRange, sw \in {0, 1} : f = <<"irq", <<col, ShimRow, "PL">>, sw, L1IrqId(gen, col, sw)>>
  <2>1. PICK col \in ColRange, sw \in {0, 1} : f = <<"irq", <<col, ShimRow, "PL">>, sw, L1IrqId(gen, col, sw)>>
    BY <1>6
  <2> DEFINE l(k, n) == [at |-> <<1, col, Part(gen, ShimRow), ShimRow, k, 0>>,
                         w |-> Write({<<"irq", <<col, ShimRow, "PL">>, n, L1IrqId(gen, col, n)>>})]
  <2>2. l(6, 0) \in ShimWrites(gen, col) /\ l(7, 1) \in ShimWrites(gen, col)
    BY Zenon DEF ShimWrites
  <2>3. \A k : l(k, sw).w = Write({f})
    BY <2>1
  <2> HIDE DEF l
  <2>4. \A k : f \in l(k, sw).w.set
    BY <2>3 DEF Write
  <2> QED
    BY <1>1, <2>2, <2>4
<1>7. CASE \E col \in ColRange : IsNoc(col) /\ f = <<"l2enable", <<col, ShimRow, "PL">>, 0>>
  <2>1. PICK col \in ColRange : IsNoc(col) /\ f = <<"l2enable", <<col, ShimRow, "PL">>, 0>>
    BY <1>7
  <2> DEFINE l == [at |-> <<1, col, Part(gen, ShimRow), ShimRow, 9, 0>>,
                   w |-> Write({<<"l2enable", <<col, ShimRow, "PL">>, 0>>})]
  <2>2. l \in ShimWrites(gen, col)
    BY <2>1, Zenon DEF ShimWrites
  <2>3. l.w = Write({f})
    BY <2>1
  <2> HIDE DEF l
  <2>4. f \in l.w.set
    BY <2>3 DEF Write
  <2> QED
    BY <1>1, <2>2, <2>4
<1> QED
  BY <1>3, <1>4, <1>5, <1>6, <1>7 DEF ErrorSet

Routes == {"block", "irq", "l2enable"}

\* What is set for the routes: by the writes that are done, and by all of them when
\* the error network is on.
Wired ==
    /\ pc = "Errors" => \A l \in ErrorWrites[Gen][tiles] : ~Before(pos, l.at) =>
           \A f \in l.w.set : f[1] \in Routes => f \in regs
    /\ errs = "on" => \A f : ErrorSet(Gen, wired, f) /\ f[1] \in Routes => f \in regs

\* Nothing else is set in the shims, and above them no way to the south is blocked.
Shaped == \A f \in regs :
    /\ f[1] \in {"irq", "l2enable"} \/ (f[1] = "block" /\ f[2][2] = ShimRow) => ErrorSet(Gen, {}, f)
    /\ f[1] = "block" /\ f[2][2] # ShimRow => f[5] # "S"

\* What the loops of the synchronization clear.
LEMMA SyncClears ==
    ASSUME NEW loop \in Setting \cup Cleaning, NEW l \in SyncWrites(loop), NEW f \in l.w.clr
    PROVE  f[1] \in {"broadcast", "reset"} \/ (f[1] = "block" /\ <<f[2], f[3]>> \in Own)
<1>1. CASE loop = "Block"
  BY <1>1, BlockSets
<1>2. CASE loop = "Arm"
  <2>1. \E s, c : l.w.clr = {<<"broadcast", s, c, e>> : e \in Events}
    BY <1>2, ArmSets
  <2> QED
    BY <2>1
<1>3. CASE loop = "SetReset"
  <2>1. \E s : l.w.clr = {<<"reset", s, c>> : c \in Channels}
    BY <1>3, ResetSets
  <2> QED
    BY <2>1
<1>4. CASE loop = "ClearReset"
  <2>1. l \in SyncWrites("ClearReset")
    BY <1>4
  <2>2. PICK s \in RscsBC : l = [at |-> At(s, 1), w |-> SetTimerResetEvent(s, {})]
    BY <2>1, ClearResetWrites, Zenon
  <2>3. l.w.clr = {<<"reset", s, c>> : c \in Channels}
    BY <2>2 DEF SetTimerResetEvent
  <2> QED
    BY <2>3
<1>5. CASE loop = "Unblock"
  <2>1. PICK s \in Above(RscsBC), d \in {"W", "E"} :
            l = [at |-> At(s, DirNo[d]), w |-> Unblock(s, 0, BcastChannelId, d)]
    BY <1>5, UnblockWrites
  <2>2. f = <<"block", s, BcastChannelId, 0, d>>
    BY <2>1 DEF Unblock
  <2> QED
    BY <2>1, <2>2 DEF Own, Above
<1>6. CASE loop = "ClearShim" \/ loop = "ClearFirst"
  <2>1. PICK s, c : l.w = EventNone(s, c)
    BY <1>6, ClearShimWrites
  <2>2. l.w.clr = {<<"broadcast", s, c, e>> : e \in Events}
    BY <2>1 DEF EventNone
  <2> QED
    BY <2>2
<1> QED
  BY <1>1, <1>2, <1>3, <1>4, <1>5, <1>6 DEF Setting, Cleaning

LEMMA SyncSetsNoRoutes ==
    ASSUME NEW loop \in Setting \cup Cleaning, NEW l \in SyncWrites(loop), NEW f \in l.w.set
    PROVE  f[1] \notin {"irq", "l2enable"}
<1>1. CASE loop = "Block"
  <2>1. \E s, d : l.w.set = {<<"block", s, BcastChannelId, 0, d>>}
    BY <1>1, BlockSets
  <2> QED
    BY <2>1
<1>2. CASE loop = "Arm"
  <2>1. \E s, c : l.w.set = {<<"broadcast", s, c, BcastChannelIdShim>>}
    BY <1>2, ArmSets
  <2> QED
    BY <2>1
<1>3. CASE loop = "SetReset"
  <2>1. \E s : l.w.set = {<<"reset", s, BcastChannelId>>}
    BY <1>3, ResetSets
  <2> QED
    BY <2>1
<1>4. CASE loop \in Cleaning
  BY <1>4, CleaningSetsNothing
<1> QED
  BY <1>1, <1>2, <1>3, <1>4 DEF Setting

\* A step that leaves the registers alone.
LEMMA RoutesKept ==
    ASSUME Wired, Shaped, regs' = regs, Gen' = Gen, pc' # "Errors",
           errs' = "on" => errs = "on" /\ wired' = wired
    PROVE  Wired' /\ Shaped'
<1>1. \A T, f : ErrorSet(Gen', T, f) = ErrorSet(Gen, T, f)
  OBVIOUS
<1>2. Wired'
  BY <1>1 DEF Wired
<1>3. Shaped'
  BY <1>1 DEF Shaped
<1> QED
  BY <1>2, <1>3

LEMMA RoutesLoops ==
    ASSUME NetAssumption, ErrorChannelsSuffice, IInv, Phase, Wired, Shaped, SyncLoops
    PROVE  Wired' /\ Shaped'
<1>1. PICK loop \in DOMAIN NextLoop : SyncLoop(loop)
  BY DEF SyncLoops
<1>2. /\ loop \in Setting \cup Cleaning /\ pc = loop /\ pc' # "Errors"
      /\ UNCHANGED <<Gen, errors, errs, wired>>
  <2>1. /\ loop \in Setting \cup Cleaning /\ NextLoop[loop] # "Errors" /\ loop # "Errors"
    BY DEF NextLoop, Setting, Cleaning
  <2> QED
    BY <1>1, <2>1 DEF SyncLoop, Goes, AbandonSync, EndSync, device, errnet
<1>3. CASE regs' = regs
  BY <1>2, <1>3, RoutesKept
<1>4. CASE \E l \in Left(SyncWrites(loop)) : Done(l.w)
  <2>1. PICK l \in SyncWrites(loop) : Done(l.w)
    BY <1>4 DEF Left
  <2>2. Wired'
    <3>1. SUFFICES ASSUME errs = "on", NEW f, ErrorSet(Gen, wired, f), f[1] \in Routes PROVE f \in regs'
      BY <1>2 DEF Wired
    <3>2. f \in regs
      BY <3>1 DEF Wired
    <3>3. f \notin l.w.clr
      <4>1. SUFFICES ASSUME f \in l.w.clr PROVE FALSE
        OBVIOUS
      <4>2. f[1] = "block" /\ <<f[2], f[3]>> \in Own
        BY <1>2, <3>1, <4>1, SyncClears DEF Routes
      <4>3. <<f[2], f[3]>> \in errors
        BY <3>1, <4>2, ErrorSetIsHeld DEF ErrorsOn, Dirty
      <4> QED
        BY <4>2, <4>3 DEF IInv, Held
    <3> QED
      BY <2>1, <3>2, <3>3 DEF Done
  <2>3. Shaped'
    <3>1. SUFFICES ASSUME NEW f \in regs'
                   PROVE  /\ f[1] \in {"irq", "l2enable"} \/ (f[1] = "block" /\ f[2][2] = ShimRow) => ErrorSet(Gen, {}, f)
                          /\ f[1] = "block" /\ f[2][2] # ShimRow => f[5] # "S"
      BY <1>2 DEF Shaped
    <3>2. CASE f \in regs
      BY <3>2 DEF Shaped
    <3>3. CASE f \in l.w.set
      <4>1. f[1] \notin {"irq", "l2enable"}
        BY <1>2, <3>3, SyncSetsNoRoutes
      <4>2. f[1] = "block" => f[2][2] # ShimRow /\ f[5] \in BlockDirs(f[2])
        BY <1>2, <3>3, SyncSets
      <4>3. "S" \notin BlockDirs(f[2])
        BY DEF BlockDirs
      <4> QED
        BY <4>1, <4>2, <4>3
    <3> QED
      BY <2>1, <3>1, <3>2, <3>3 DEF Done
  <2> QED
    BY <2>2, <2>3
<1> QED
  BY <1>1, <1>3, <1>4 DEF SyncLoop, Goes, Refuses

LEMMA RoutesErrors ==
    ASSUME NetAssumption, Phase, Wired, Shaped, ErrorsWritten
    PROVE  Wired' /\ Shaped'
<1>1. /\ pc = "Errors" /\ Gen' = Gen /\ tiles' = tiles /\ wired' = wired /\ wired = tiles
      /\ Gen \in Gens /\ tiles \in TileSets /\ errs = "off"
  BY DEF ErrorsWritten, Phase, device
<1> DEFINE writes == ErrorWrites[Gen][tiles]
<1>2. \A l \in writes : l.w.must /\ \A f \in l.w.clr : f[1] = "broadcast"
  BY <1>1, ErrorWritesAre
<1>3. ASSUME NEW l \in Left(writes), IsFirst(l, Left(writes)), Goes("Errors", l), errs' = errs
      PROVE  Wired' /\ Shaped'
  <2>1. l \in writes /\ pc' = "Errors" /\ errs' # "on"
    BY <1>1, <1>3 DEF Left, Goes
  <2>2. Done(l.w) /\ pos' = l.at
    BY <1>2, <1>3, <2>1 DEF Goes
  <2>3. Wired'
    <3>1. SUFFICES ASSUME NEW m \in writes, ~Before(l.at, m.at), NEW f \in m.w.set, f[1] \in Routes
                   PROVE  f \in regs'
      BY <1>1, <2>1, <2>2 DEF Wired
    <3>2. CASE m = l
      BY <2>2, <3>1, <3>2 DEF Done
    <3>3. CASE m # l
      <4>1. m \notin Left(writes)
        BY <1>3, <3>1, <3>3 DEF IsFirst
      <4>2. f \in regs
        BY <1>1, <3>1, <4>1 DEF Left, Wired
      <4>3. f \notin l.w.clr
        BY <1>2, <2>1, <3>1 DEF Routes
      <4> QED
        BY <2>2, <4>2, <4>3 DEF Done
    <3> QED
      BY <3>2, <3>3
  <2>4. Shaped'
    <3>1. SUFFICES ASSUME NEW f \in regs'
                   PROVE  /\ f[1] \in {"irq", "l2enable"} \/ (f[1] = "block" /\ f[2][2] = ShimRow) => ErrorSet(Gen, {}, f)
                          /\ f[1] = "block" /\ f[2][2] # ShimRow => f[5] # "S"
      BY <1>1 DEF Shaped
    <3>2. CASE f \in regs
      BY <3>2 DEF Shaped
    <3>3. CASE f \in l.w.set /\ f[1] \in Routes
      <4>1. ErrorSet(Gen, tiles, f)
        BY <1>1, <2>1, <3>3, ErrorSets DEF Routes, Routing, Dirty
      <4>2. \A x \in SlotsOf(Gen, tiles) : x[2] # ShimRow
        <5>1. tiles \subseteq ColRange \X (Rows \ {ShimRow})
          BY <1>1 DEF NetAssumption
        <5>2. \A x \in SlotsOf(Gen, tiles) : <<x[1], x[2]>> \in ColRange \X (Rows \ {ShimRow})
          BY <5>1 DEF SlotsOf
        <5> QED
          BY <5>2
      <4>3. CASE \E x \in SlotsOf(Gen, tiles), sw \in {0, 1}, d \in {"N", "E", "W"} : f = <<"block", x, 0, sw, d>>
        BY <4>2, <4>3
      <4>4. CASE ErrorSet(Gen, {}, f) /\ f[1] # "block"
        BY <4>4
      <4>5. CASE ErrorSet(Gen, {}, f) /\ f[1] = "block"
        <5>1. \A x : x \notin SlotsOf(Gen, {})
          BY DEF SlotsOf
        <5>2. f[2][2] = ShimRow
          BY <4>5, <5>1 DEF ErrorSet
        <5> QED
          BY <4>5, <5>2
      <4> QED
        BY <3>3, <4>1, <4>3, <4>4, <4>5 DEF ErrorSet, Routes
    <3> QED
      BY <2>2, <3>1, <3>2, <3>3 DEF Done, Routes
  <2> QED
    BY <2>3, <2>4
<1>4. CASE regs' = regs /\ pc' = "Idle" /\ errs' = "failed"
  BY <1>1, <1>4, RoutesKept
<1>5. CASE Left(writes) = {} /\ regs' = regs /\ pc' = "Idle" /\ errs' = "on"
  <2>1. Wired'
    <3>1. SUFFICES ASSUME NEW f, ErrorSet(Gen, wired, f), f[1] \in Routes PROVE f \in regs
      BY <1>1, <1>5 DEF Wired
    <3>2. PICK l \in writes : f \in l.w.set
      BY <1>1, <3>1, ErrorSetIsWritten DEF Routes
    <3>3. ~Before(pos, l.at)
      BY <1>5 DEF Left
    <3> QED
      BY <1>1, <3>1, <3>2, <3>3 DEF Wired
  <2>2. Shaped'
    BY <1>1, <1>5 DEF Shaped
  <2> QED
    BY <2>1, <2>2
<1>6. \/ \E l \in Left(writes) : IsFirst(l, Left(writes)) /\ Goes("Errors", l) /\ errs' = errs
      \/ regs' = regs /\ pc' = "Idle" /\ errs' = "failed"
      \/ Left(writes) = {} /\ regs' = regs /\ pc' = "Idle" /\ errs' = "on"
  <2>1. \/ \E l \in Left(writes) :
              /\ IsFirst(l, Left(writes))
              /\ \/ Goes(pc, l) /\ UNCHANGED errs
                 \/ /\ Refuses(pc, l.at) /\ l.w.must
                    /\ pc' = "Idle" /\ pos' = Start /\ errs' = "failed"
        \/ /\ Left(writes) = {}
           /\ pc' = "Idle" /\ pos' = Start /\ errs' = "on"
           /\ UNCHANGED <<regs, faults>>
    BY DEF ErrorsWritten
  <2>2. \A l : Refuses(pc, l.at) => regs' = regs
    BY DEF Refuses
  <2>3. pc = "Errors"
    BY <1>1
  <2> HIDE DEF writes
  <2> QED
    BY <2>1, <2>2, <2>3
<1> HIDE DEF writes
<1> QED
  BY <1>3, <1>4, <1>5, <1>6

LEMMA RoutesStep ==
    ASSUME NetAssumption, ErrorChannelsSuffice, IInv, Phase, Wired, Shaped, [Next]_vars
    PROVE  Wired' /\ Shaped'
<1> USE DEF device, errnet, bits
<1>1. CASE \E u \in Users : UserRelease(u) \/ \E r \in Requests : UserRequest(u, r)
  BY <1>1, RoutesKept DEF UserRelease, UserRequest
<1>2. CASE LoadStatic
  BY <1>2, RoutesKept DEF LoadStatic
<1>3. CASE \E T \in TileSets : RequestTiles(T)
  BY <1>3, RoutesKept DEF RequestTiles
<1>4. CASE SyncTimer
  BY <1>4, RoutesKept DEF SyncTimer
<1>5. CASE RequestShim
  BY <1>5, RoutesKept DEF RequestShim, AbandonSync, EndSync
<1>6. CASE SyncLoops
  BY <1>6, RoutesLoops
<1>7. CASE Generate
  <2>1. pc' # "Errors" /\ regs' = regs /\ UNCHANGED <<Gen, errs, wired>>
    BY <1>7 DEF Generate, Refuses, AbandonSync, EndSync
  <2> QED
    BY <2>1, RoutesKept
<1>8. CASE Release
  BY <1>8, RoutesKept DEF Release, EndSync
<1>9. CASE ErrorHandlingInit
  <2>1. errs = "off"
    <3>1. errors = {}
      BY <1>9, ErrorsFree
    <3> QED
      BY <3>1, ErrorsOff
  <2> QED
    BY <1>9, <2>1, RoutesKept DEF ErrorHandlingInit
<1>10. CASE ReserveShim
  <2>1. pc' # "Errors" /\ errs' = "off" /\ regs' = regs /\ Gen' = Gen
    BY <1>10 DEF ReserveShim, Phase
  <2> QED
    BY <2>1, RoutesKept
<1>11. CASE Reserved
  <2>1. /\ pc' = "Errors" /\ errs' = "off" /\ pos' = Start /\ UNCHANGED <<Gen, tiles, regs>>
        /\ Gen \in Gens /\ tiles \in TileSets
    BY <1>11 DEF Reserved, Phase
  <2>2. \A l \in ErrorWrites[Gen][tiles] : Before(Start, l.at)
    BY <2>1, ErrorWritesAre, StartBefore
  <2>3. Wired'
    BY <2>1, <2>2 DEF Wired
  <2>4. Shaped'
    BY <2>1 DEF Shaped
  <2> QED
    BY <2>3, <2>4
<1>12. CASE ErrorsWritten
  BY <1>12, RoutesErrors
<1>13. CASE UNCHANGED vars
  <2>1. UNCHANGED <<pc, pos, Gen, tiles, errs, wired, regs>>
    BY <1>13 DEF vars
  <2> QED
    BY <2>1 DEF Wired, Shaped
<1> QED
  BY <1>1, <1>2, <1>3, <1>4, <1>5, <1>6, <1>7, <1>8, <1>9, <1>10, <1>11, <1>12, <1>13
  DEF Next, SyncStep, ErrorStep

----------------------------------------------------------------------------
(* Which L2 controller a shim reports to, and on which channel.             *)

\* On AIE the last columns are given channels that the column before them does not
\* use, when two columns follow the last one with an L2 controller.
LastColumnsReport == "AIE" \in Gens => NumCols % 4 = 2

\* The column of the L2 controller to which the shim of a column reports.
NocOf(col) == IF IsNoc(col) THEN col ELSE IF HasNextNoc(col) THEN col + 2 - (col % 4) ELSE col - 1 - (col % 4)

LEMMA NextNoc ==
    ASSUME NetAssumption, ErrorChannelsSuffice, NEW c \in ColRange, ~IsNoc(c)
    PROVE  /\ c % 4 \in {0, 1}
           /\ HasNextNoc(c) <=> c + 2 - (c % 4) < NumCols
<1>1. NumCols \in Nat /\ c \in Nat /\ c < NumCols
  BY DEF NetAssumption, ColRange
<1>2. c % 4 \in {0, 1}
  BY <1>1, NocPattern
<1>3. ASSUME c + 2 - (c % 4) < NumCols PROVE HasNextNoc(c)
  <2>1. (c + 2 - (c % 4)) % 4 = 2
    BY <1>1, <1>2
  <2>2. c + 2 - (c % 4) \in ColRange /\ c + 2 - (c % 4) > c
    BY <1>1, <1>2, <1>3 DEF ColRange
  <2>3. c + 2 - (c % 4) \in Nat
    BY <1>1, <1>2
  <2> QED
    BY <2>1, <2>2, <2>3, NocPattern DEF HasNextNoc
<1>4. ASSUME HasNextNoc(c) PROVE c + 2 - (c % 4) < NumCols
  <2>1. PICK d \in ColRange : d > c /\ d % 4 \in {2, 3}
    BY <1>1, <1>4, NocPattern DEF HasNextNoc, ColRange
  <2>2. d \in Nat /\ d < NumCols
    BY <1>1, <2>1 DEF ColRange
  <2>3. d >= c + 2 - (c % 4)
    BY <1>1, <1>2, <2>1, <2>2
  <2> QED
    BY <1>1, <1>2, <2>2, <2>3
<1> QED
  BY <1>2, <1>3, <1>4

\* The shims from a column to its L2 controller hand on in the same direction, and
\* there is no other controller between them.
LEMMA NocOfIs ==
    ASSUME NetAssumption, ErrorChannelsSuffice, NEW c \in ColRange
    PROVE  /\ NocOf(c) \in ColRange /\ IsNoc(NocOf(c))
           /\ IsNoc(c) \/ HasNextNoc(c) =>
                 /\ c <= NocOf(c)
                 /\ \A x \in ColRange : c <= x /\ x < NocOf(c) => ~IsNoc(x) /\ HasNextNoc(x)
           /\ ~IsNoc(c) /\ ~HasNextNoc(c) =>
                 /\ NocOf(c) < c /\ ~HasNextNoc(NocOf(c))
                 /\ \A x \in ColRange : NocOf(c) < x /\ x <= c => ~IsNoc(x) /\ ~HasNextNoc(x)
<1>1. NumCols \in Nat /\ NumCols >= 6 /\ c \in Nat /\ c < NumCols
  BY DEF NetAssumption, ErrorChannelsSuffice, ColRange
<1>2. \A x \in ColRange : x \in Nat /\ x < NumCols
  BY <1>1 DEF ColRange
<1>3. CASE IsNoc(c)
  <2>1. NocOf(c) = c
    BY <1>3 DEF NocOf
  <2> QED
    BY <1>2, <1>3, <2>1
<1>4. CASE ~IsNoc(c) /\ HasNextNoc(c)
  <2>1. c % 4 \in {0, 1} /\ c + 2 - (c % 4) < NumCols /\ NocOf(c) = c + 2 - (c % 4)
    BY <1>4, NextNoc DEF NocOf
  <2>2. NocOf(c) \in ColRange /\ c <= NocOf(c)
    BY <1>1, <2>1 DEF ColRange
  <2>3. IsNoc(NocOf(c))
    BY <1>1, <2>1, NocPattern
  <2>4. ASSUME NEW x \in ColRange, c <= x, x < NocOf(c) PROVE ~IsNoc(x) /\ HasNextNoc(x)
    <3>1. x % 4 \in {0, 1}
      BY <1>1, <1>2, <2>1, <2>4
    <3>2. ~IsNoc(x)
      BY <1>2, <3>1, NocPattern
    <3> QED
      BY <2>2, <2>3, <2>4, <3>2 DEF HasNextNoc
  <2> QED
    BY <1>4, <2>2, <2>3, <2>4
<1>5. CASE ~IsNoc(c) /\ ~HasNextNoc(c)
  <2>1. c % 4 \in {0, 1} /\ c + 2 - (c % 4) >= NumCols /\ NocOf(c) = c - 1 - (c % 4)
    BY <1>1, <1>5, NextNoc DEF NocOf
  <2>2. NocOf(c) \in ColRange /\ NocOf(c) < c
    BY <1>1, <2>1 DEF ColRange
  <2>3. NocOf(c) % 4 = 3
    BY <1>1, <2>1
  <2>4. ASSUME NEW x \in ColRange, NocOf(c) < x PROVE ~IsNoc(x)
    <3>1. x % 4 \in {0, 1}
      BY <1>1, <1>2, <2>1, <2>4
    <3> QED
      BY <1>2, <3>1, NocPattern
  <2>5. ASSUME NEW x \in ColRange, NocOf(c) <= x PROVE ~HasNextNoc(x)
    <3>1. \A y \in ColRange : y > x => NocOf(c) < y
      BY <1>1, <1>2, <2>1, <2>5
    <3> QED
      BY <2>4, <3>1 DEF HasNextNoc
  <2>6. NocOf(c) <= NocOf(c)
    BY <1>1, <2>1
  <2>7. \A x \in ColRange : NocOf(c) < x => NocOf(c) <= x
    BY <1>1, <1>2, <2>1
  <2> QED
    BY <1>2, <1>5, <2>2, <2>3, <2>4, <2>5, <2>6, <2>7, NocPattern
<1> QED
  BY <1>3, <1>4, <1>5

\* A controller gets three pairs of channels, from itself and the two columns before
\* or behind it.
LEMMA IrqIds ==
    ASSUME NetAssumption, ErrorChannelsSuffice, LastColumnsReport,
           NEW gen \in Gens, NEW c \in ColRange, NEW sw \in {0, 1}
    PROVE  /\ NocOf(c) % 4 = 2 => L1IrqId(gen, c, sw) = 2 * (c - NocOf(c) + 2) + sw
           /\ NocOf(c) % 4 # 2 => L1IrqId(gen, c, sw) = 2 * (c - NocOf(c)) + sw
<1>1. /\ NumCols \in Nat /\ NumCols >= 6 /\ c \in Nat /\ c < NumCols /\ gen \in {"AIE", "AIEML"}
      /\ gen = "AIE" => NumCols % 4 = 2
  BY DEF NetAssumption, ErrorChannelsSuffice, ColRange, LastColumnsReport
<1>2. CASE IsNoc(c)
  <2>1. NocOf(c) = c /\ c % 4 \in {2, 3}
    BY <1>1, <1>2, NocPattern DEF NocOf
  <2>2. CASE gen = "AIE"
    <3>1. ~(c + 3 > NumCols)
      BY <1>1, <2>1, <2>2
    <3>2. L1IrqId(gen, c, sw) = ((c % 4) % 3) * 2 + sw
      BY <1>1, <2>2, <3>1 DEF L1IrqId
    <3> QED
      BY <1>1, <2>1, <3>2
  <2>3. CASE gen = "AIEML"
    <3>1. L1IrqId(gen, c, sw) = IF c % 4 = 2 THEN 4 + sw ELSE sw
      BY <1>2, <2>3 DEF L1IrqId
    <3> QED
      BY <1>1, <2>1, <3>1
  <2> QED
    BY <1>1, <2>2, <2>3
<1>3. CASE ~IsNoc(c) /\ HasNextNoc(c)
  <2>1. c % 4 \in {0, 1} /\ c + 2 - (c % 4) < NumCols /\ NocOf(c) = c + 2 - (c % 4)
    BY <1>3, NextNoc DEF NocOf
  <2>2. L1IrqId(gen, c, sw) = (c % 4) * 2 + sw
    <3>1. CASE gen = "AIE"
      <4>1. ~(c + 3 > NumCols)
        BY <1>1, <2>1, <3>1
      <4>2. L1IrqId(gen, c, sw) = ((c % 4) % 3) * 2 + sw
        BY <1>1, <3>1, <4>1 DEF L1IrqId
      <4> QED
        BY <2>1, <4>2
    <3>2. CASE gen = "AIEML"
      <4>1. (c \div 4) * 4 + 2 < NumCols
        BY <1>1, <2>1
      <4> QED
        BY <1>1, <1>3, <3>2, <4>1 DEF L1IrqId
    <3> QED
      BY <1>1, <3>1, <3>2
  <2>3. NocOf(c) % 4 = 2
    BY <1>1, <2>1
  <2> QED
    BY <1>1, <2>1, <2>2, <2>3
<1>4. CASE ~IsNoc(c) /\ ~HasNextNoc(c)
  <2>1. c % 4 \in {0, 1} /\ c + 2 - (c % 4) >= NumCols /\ NocOf(c) = c - 1 - (c % 4)
    BY <1>1, <1>4, NextNoc DEF NocOf
  <2>2. L1IrqId(gen, c, sw) = (c % 4) * 2 + sw + 2
    <3>1. CASE gen = "AIE"
      <4>1. c + 3 > NumCols
        BY <1>1, <2>1, <3>1
      <4>2. L1IrqId(gen, c, sw) = ((c % 4) % 3) * 2 + sw + 2
        BY <1>1, <3>1, <4>1 DEF L1IrqId
      <4> QED
        BY <2>1, <4>2
    <3>2. CASE gen = "AIEML"
      <4>1. ~((c \div 4) * 4 + 2 < NumCols)
        BY <1>1, <2>1
      <4> QED
        BY <1>1, <1>4, <3>2, <4>1 DEF L1IrqId
    <3> QED
      BY <1>1, <3>1, <3>2
  <2>3. NocOf(c) % 4 = 3
    BY <1>1, <2>1
  <2>4. c % 4 \in Nat /\ c - NocOf(c) = (c % 4) + 1
    BY <1>1, <2>1
  <2>5. L1IrqId(gen, c, sw) = 2 * (c - NocOf(c)) + sw
    BY <2>2, <2>4
  <2> QED
    BY <2>3, <2>5
<1> QED
  BY <1>2, <1>3, <1>4

LEMMA Pairs ==
    ASSUME NEW a \in Int, NEW b \in Int, NEW t \in Int, NEW k \in Int,
           NEW u \in {0, 1}, NEW v \in {0, 1}, 2 * (a - t + k) + u = 2 * (b - t + k) + v
    PROVE  a = b /\ u = v
OBVIOUS

\* No two switches have a channel of one controller in common.
LEMMA ChannelsDiffer ==
    ASSUME NetAssumption, ErrorChannelsSuffice, LastColumnsReport, NEW gen \in Gens,
           NEW c \in ColRange, NEW d \in ColRange, NEW sw \in {0, 1}, NEW tw \in {0, 1},
           NocOf(c) = NocOf(d), L1IrqId(gen, c, sw) = L1IrqId(gen, d, tw)
    PROVE  c = d /\ sw = tw
<1> DEFINE t == NocOf(c)
<1>1. t \in Int /\ c \in Int /\ d \in Int
  <2>1. t \in ColRange
    BY NocOfIs
  <2> QED
    BY <2>1 DEF ColRange
<1>2. /\ t % 4 = 2 => L1IrqId(gen, c, sw) = 2 * (c - t + 2) + sw /\ L1IrqId(gen, d, tw) = 2 * (d - t + 2) + tw
      /\ t % 4 # 2 => L1IrqId(gen, c, sw) = 2 * (c - t) + sw /\ L1IrqId(gen, d, tw) = 2 * (d - t) + tw
  BY IrqIds
<1> HIDE DEF t
<1> DEFINE k == IF t % 4 = 2 THEN 2 ELSE 0
<1>3. k \in Int
  OBVIOUS
<1>4. 2 * (c - t + k) + sw = 2 * (d - t + k) + tw
  <2>1. CASE t % 4 = 2
    BY <1>2, <2>1
  <2>2. CASE t % 4 # 2
    <3>1. /\ k = 0 /\ c - t + 0 = c - t /\ d - t + 0 = d - t
      BY <1>1, <2>2
    <3> QED
      BY <1>2, <2>2, <3>1
  <2> QED
    BY <2>1, <2>2
<1> HIDE DEF k
<1>5. sw \in {0, 1} /\ tw \in {0, 1}
  OBVIOUS
<1> QED
  BY <1>1, <1>3, <1>4, <1>5, Pairs

\* The controller keeps the channels from going on.
LEMMA NocBlocks ==
    ASSUME NetAssumption, ErrorChannelsSuffice, LastColumnsReport,
           NEW gen \in Gens, NEW c \in ColRange, NEW sw \in {0, 1}
    PROVE  L1IrqId(gen, c, sw) \in BlockedB(gen, NocOf(c)) /\ L1IrqId(gen, c, 1) \in BlockedB(gen, c)
<1> DEFINE t == NocOf(c)
<1>1. /\ L1IrqId(gen, c, sw) \in 0..5 /\ L1IrqId(gen, c, 1) \in 0..5
  BY IrqIdSuffices
<1>2. t \in ColRange /\ IsNoc(t)
  BY NocOfIs
<1>3. L1IrqId(gen, c, sw) <= L1IrqId(gen, c, 1)
  BY IrqIds, NocOfIs DEF ColRange
<1>4. CASE IsNoc(c)
  <2>1. t = c
    BY <1>4 DEF NocOf
  <2> DEFINE i == L1IrqId(gen, c, sw)
             j == L1IrqId(gen, c, 1)
  <2>2. i \in 0..5 /\ j \in 0..5 /\ i <= j
    BY <1>1, <1>3
  <2>3. BlockedB(gen, c) = 0..(IF HasNextNoc(c) THEN j ELSE 5)
    BY <1>4 DEF BlockedB
  <2> HIDE DEF i, j
  <2>4. i \in BlockedB(gen, c) /\ j \in BlockedB(gen, c)
    BY <2>2, <2>3
  <2> QED
    BY <2>1, <2>4 DEF i, j
<1>5. CASE ~IsNoc(c)
  <2>1. L1IrqId(gen, c, 1) \in BlockedB(gen, c)
    BY <1>5 DEF BlockedB
  <2>2. CASE HasNextNoc(t)
    <3>1. HasNextNoc(c)
      BY <1>5, <2>2, NocOfIs
    <3>2. t % 4 = 2
      <4>1. c % 4 \in {0, 1} /\ t = c + 2 - (c % 4)
        BY <1>5, <3>1, NextNoc DEF NocOf
      <4>2. c \in Nat
        BY DEF ColRange, NetAssumption
      <4> HIDE DEF t
      <4> QED
        BY <4>1, <4>2
    <3>3. NocOf(t) = t
      BY <1>2 DEF NocOf
    <3> HIDE DEF t
    <3>4. L1IrqId(gen, t, 1) = 5
      <4>1. L1IrqId(gen, t, 1) = 2 * (t - t + 2) + 1
        BY <1>2, <3>2, <3>3, IrqIds
      <4>2. t \in Int
        BY <1>2 DEF ColRange
      <4> QED
        BY <4>1, <4>2
    <3>5. L1IrqId(gen, c, sw) \in BlockedB(gen, t)
      BY <1>1, <1>2, <2>2, <3>4 DEF BlockedB
    <3> QED
      BY <2>1, <3>5 DEF t
  <2>3. CASE ~HasNextNoc(t)
    <3> HIDE DEF t
    <3>1. L1IrqId(gen, c, sw) \in BlockedB(gen, t)
      BY <1>1, <1>2, <2>3 DEF BlockedB
    <3> QED
      BY <2>1, <3>1 DEF t
  <2> QED
    BY <2>2, <2>3
<1> QED
  BY <1>4, <1>5

----------------------------------------------------------------------------
(* Where a channel does not get, and the links it may take.                 *)

\* A channel stays in a set of switches that no link leads out of.
LEMMA ReachWithin ==
    ASSUME NetAssumption, NEW c, NEW from, NEW within, NEW J, from \subseteq J,
           \A l \in Open(c, within) : l[1] \in J => l[3] \in J
    PROVE  Reach(c, from, within) \subseteq J
<1> DEFINE open == Open(c, within)
           step == CHOOSE f : IsStep(f, from, open)
<1>1. IsStep(step, from, open)
  BY StepExists
<1>2. Reach(c, from, within) = step[2 * (NumCols + NumRows)]
  BY DEF Reach, IsStep
<1> HIDE DEF step, open
<1> DEFINE S == {n \in Nat : step[n] \subseteq J}
<1>3. 0 \in S
  BY <1>1 DEF IsStep
<1>4. ASSUME NEW n \in S PROVE n + 1 \in S
  <2>1. n \in Nat /\ n + 1 \in Nat /\ n + 1 # 0 /\ (n + 1) - 1 = n /\ step[n] \subseteq J
    OBVIOUS
  <2>2. step[n + 1] = Onwards(step[(n + 1) - 1], open)
    BY <1>1, <2>1 DEF IsStep
  <2>3. step[n + 1] \subseteq J
    BY <2>1, <2>2 DEF Onwards, open
  <2> QED
    BY <2>1, <2>3
<1> HIDE DEF S
<1>5. S = Nat
  BY <1>3, <1>4, EveryNumber DEF S
<1>6. 2 * (NumCols + NumRows) \in S
  BY <1>5 DEF NetAssumption
<1> QED
  BY <1>2, <1>6 DEF S

LEMMA LinesAre ==
    ASSUME NEW gen, NEW c, NEW r
    PROVE  \A p \in {LineA(gen, c, r), LineB(gen, c, r)} :
              /\ p[1] = <<c, r, p[1][3]>> /\ p = <<p[1], p[2]>>
              /\ p[2] \in {0, 1} /\ (IsAie(gen, r) => p[2] = 0)
<1>1. CASE IsAie(gen, r)
  BY <1>1 DEF LineA, LineB, Single
<1>2. CASE ~IsAie(gen, r)
  BY <1>2 DEF LineA, LineB
<1> QED
  BY <1>1, <1>2

LEMMA SidesAre ==
    ASSUME NEW gen, NEW c, NEW r
    PROVE  West(gen, c, r)[1][2] = r /\ East(gen, c, r)[1][2] = r
<1>1. \A p \in {LineA(gen, c, r), LineB(gen, c, r)} : p[1][2] = r
  <2> TAKE p \in {LineA(gen, c, r), LineB(gen, c, r)}
  <2>1. p[1] = <<c, r, p[1][3]>>
    BY LinesAre
  <2> DEFINE q == p[1]
  <2> HIDE DEF q
  <2>2. q = <<c, r, q[3]>>
    BY <2>1 DEF q
  <2>3. q[2] = r
    BY <2>2
  <2> QED
    BY <2>3 DEF q
<1> QED
  BY <1>1 DEF West, East

\* The links, by their directions.
LEMMA LinksAre ==
    ASSUME NEW gen \in Gens, NEW l \in Links[gen]
    PROVE  \/ /\ l[2] \in {"E", "W"}
              /\ \/ \E c \in ColRange, r \in Rows :
                       \/ l = <<West(gen, c, r), "E", East(gen, c, r)>>
                       \/ l = <<East(gen, c, r), "W", West(gen, c, r)>>
                 \/ \E c \in 0..NumCols-2, r \in Rows :
                       \/ l = <<East(gen, c, r), "E", West(gen, c + 1, r)>>
                       \/ l = <<West(gen, c + 1, r), "W", East(gen, c, r)>>
           \/ /\ l[2] \in {"N", "S"}
              /\ \E c \in ColRange, r \in 0..NumRows-2 :
                    \/ l = <<LineA(gen, c, r), "N", LineA(gen, c, r + 1)>>
                    \/ l = <<LineB(gen, c, r), "N", LineB(gen, c, r + 1)>>
                    \/ l = <<LineA(gen, c, r + 1), "S", LineA(gen, c, r)>>
                    \/ l = <<LineB(gen, c, r + 1), "S", LineB(gen, c, r)>>
<1>1. \/ \E p \in Horizontal(gen) : l = <<p[1], "E", p[2]>> \/ l = <<p[2], "W", p[1]>>
      \/ \E p \in Vertical(gen) : l = <<p[1], "N", p[2]>> \/ l = <<p[2], "S", p[1]>>
  BY DEF Links
<1>2. ASSUME NEW p \in Horizontal(gen), l = <<p[1], "E", p[2]>> \/ l = <<p[2], "W", p[1]>>
      PROVE  /\ l[2] \in {"E", "W"}
             /\ \/ \E c \in ColRange, r \in Rows :
                      \/ l = <<West(gen, c, r), "E", East(gen, c, r)>>
                      \/ l = <<East(gen, c, r), "W", West(gen, c, r)>>
                \/ \E c \in 0..NumCols-2, r \in Rows :
                      \/ l = <<East(gen, c, r), "E", West(gen, c + 1, r)>>
                      \/ l = <<West(gen, c + 1, r), "W", East(gen, c, r)>>
  <2>1. \/ \E c \in ColRange, r \in Rows : p = <<West(gen, c, r), East(gen, c, r)>>
        \/ \E c \in 0..NumCols-2, r \in Rows : p = <<East(gen, c, r), West(gen, c + 1, r)>>
    BY DEF Horizontal
  <2>2. CASE \E c \in ColRange, r \in Rows : p = <<West(gen, c, r), East(gen, c, r)>>
    BY <1>2, <2>2
  <2>3. CASE \E c \in 0..NumCols-2, r \in Rows : p = <<East(gen, c, r), West(gen, c + 1, r)>>
    BY <1>2, <2>3
  <2> QED
    BY <2>1, <2>2, <2>3
<1>3. ASSUME NEW p \in Vertical(gen), l = <<p[1], "N", p[2]>> \/ l = <<p[2], "S", p[1]>>
      PROVE  /\ l[2] \in {"N", "S"}
             /\ \E c \in ColRange, r \in 0..NumRows-2 :
                   \/ l = <<LineA(gen, c, r), "N", LineA(gen, c, r + 1)>>
                   \/ l = <<LineB(gen, c, r), "N", LineB(gen, c, r + 1)>>
                   \/ l = <<LineA(gen, c, r + 1), "S", LineA(gen, c, r)>>
                   \/ l = <<LineB(gen, c, r + 1), "S", LineB(gen, c, r)>>
  <2>1. \E c \in ColRange, r \in 0..NumRows-2 :
           \/ p = <<LineA(gen, c, r), LineA(gen, c, r + 1)>>
           \/ p = <<LineB(gen, c, r), LineB(gen, c, r + 1)>>
    BY DEF Vertical
  <2> QED
    BY <1>3, <2>1
<1> QED
  BY <1>1, <1>2, <1>3

\* The event switches of the shims are in a line.
SwA(c) == <<<<c, ShimRow, "PL">>, 0>>
SwB(c) == <<<<c, ShimRow, "PL">>, 1>>

LEMMA ShimSides ==
    ASSUME NEW gen, NEW c
    PROVE  West(gen, c, ShimRow) = SwA(c) /\ East(gen, c, ShimRow) = SwB(c)
BY DEF West, East, MemIsWest, LineA, LineB, Mod, IsAie, ShimRow, SwA, SwB

LEMMA ShimLinksAre ==
    ASSUME NetAssumption, NEW gen \in Gens, NEW l \in Links[gen], l[1][1] \in ShimSlots, l[3][1] \in ShimSlots
    PROVE  \/ \E x \in ColRange : l = <<SwA(x), "E", SwB(x)>> \/ l = <<SwB(x), "W", SwA(x)>>
           \/ \E x \in ColRange : x + 1 \in ColRange
                                  /\ (l = <<SwB(x), "E", SwA(x + 1)>> \/ l = <<SwA(x + 1), "W", SwB(x)>>)
<1>1. l[1][1][2] = ShimRow /\ l[3][1][2] = ShimRow
  BY DEF ShimSlots
<1>2. CASE \E c \in ColRange, r \in Rows :
               \/ l = <<West(gen, c, r), "E", East(gen, c, r)>>
               \/ l = <<East(gen, c, r), "W", West(gen, c, r)>>
  <2>1. PICK c \in ColRange, r \in Rows :
               \/ l = <<West(gen, c, r), "E", East(gen, c, r)>>
               \/ l = <<East(gen, c, r), "W", West(gen, c, r)>>
    BY <1>2
  <2>2. l[1] = West(gen, c, r) \/ l[1] = East(gen, c, r)
    BY <2>1
  <2>3. r = ShimRow
    BY <1>1, <2>2, SidesAre
  <2> QED
    BY <2>1, <2>3, ShimSides
<1>3. CASE \E c \in 0..NumCols-2, r \in Rows :
               \/ l = <<East(gen, c, r), "E", West(gen, c + 1, r)>>
               \/ l = <<West(gen, c + 1, r), "W", East(gen, c, r)>>
  <2>1. PICK c \in 0..NumCols-2, r \in Rows :
               \/ l = <<East(gen, c, r), "E", West(gen, c + 1, r)>>
               \/ l = <<West(gen, c + 1, r), "W", East(gen, c, r)>>
    BY <1>3
  <2>2. l[1] = West(gen, c + 1, r) \/ l[1] = East(gen, c, r)
    BY <2>1
  <2>3. r = ShimRow
    BY <1>1, <2>2, SidesAre
  <2>4. c \in ColRange /\ c + 1 \in ColRange
    BY DEF ColRange, NetAssumption
  <2> QED
    BY <2>1, <2>3, <2>4, ShimSides
<1>4. CASE \E c \in ColRange, r \in 0..NumRows-2 :
               \/ l = <<LineA(gen, c, r), "N", LineA(gen, c, r + 1)>>
               \/ l = <<LineB(gen, c, r), "N", LineB(gen, c, r + 1)>>
               \/ l = <<LineA(gen, c, r + 1), "S", LineA(gen, c, r)>>
               \/ l = <<LineB(gen, c, r + 1), "S", LineB(gen, c, r)>>
  <2>1. PICK c \in ColRange, r \in 0..NumRows-2 :
               \/ l = <<LineA(gen, c, r), "N", LineA(gen, c, r + 1)>>
               \/ l = <<LineB(gen, c, r), "N", LineB(gen, c, r + 1)>>
               \/ l = <<LineA(gen, c, r + 1), "S", LineA(gen, c, r)>>
               \/ l = <<LineB(gen, c, r + 1), "S", LineB(gen, c, r)>>
    BY <1>4
  <2> DEFINE low == {LineA(gen, c, r), LineB(gen, c, r)}
             high == {LineA(gen, c, r + 1), LineB(gen, c, r + 1)}
  <2>2. (l[1] \in low /\ l[3] \in high) \/ (l[1] \in high /\ l[3] \in low)
    BY <2>1
  <2>3. \A p \in low : p[1][2] = r
    BY LinesAre
  <2>4. \A p \in high : p[1][2] = r + 1
    BY LinesAre
  <2> HIDE DEF low, high
  <2>5. r = ShimRow /\ r + 1 = ShimRow
    BY <1>1, <2>2, <2>3, <2>4
  <2> QED
    BY <2>5 DEF ShimRow
<1> QED
  BY <1>2, <1>3, <1>4, LinksAre

\* What is set in the shims when the error network is on.
LEMMA ShimsAreSet ==
    ASSUME NetAssumption, ErrorChannelsSuffice, LastColumnsReport, Gen \in Gens, errs = "on", Wired, Shaped,
           NEW c \in ColRange
    PROVE  /\ \A d \in ShimDirs(c) : <<"block", <<c, ShimRow, "PL">>, L1IrqId(Gen, c, 0), 0, d>> \in regs
           /\ \A d \in DirsB(c), i \in BlockedB(Gen, c) : <<"block", <<c, ShimRow, "PL">>, i, 1, d>> \in regs
           /\ \A d, i : <<"block", <<c, ShimRow, "PL">>, i, 0, d>> \in regs => d \in ShimDirs(c)
           /\ \A d, i : <<"block", <<c, ShimRow, "PL">>, i, 1, d>> \in regs => d \in DirsB(c)
           /\ \A sw \in {0, 1} : \A i : <<"irq", <<c, ShimRow, "PL">>, sw, i>> \in regs <=> i = L1IrqId(Gen, c, sw)
           /\ <<"l2enable", <<c, ShimRow, "PL">>, 0>> \in regs <=> IsNoc(c)
<1> DEFINE s == <<c, ShimRow, "PL">>
<1>0. s[2] = ShimRow /\ \A x \in ColRange : <<x, ShimRow, "PL">> = s => x = c
  OBVIOUS
<1>1. \A f : ErrorSet(Gen, wired, f) /\ f[1] \in {"block", "irq", "l2enable"} => f \in regs
  BY DEF Wired, Routes
<1>2. \A x : x \notin SlotsOf(Gen, {})
  BY DEF SlotsOf
<1>3. ASSUME NEW d \in ShimDirs(c) PROVE <<"block", s, L1IrqId(Gen, c, 0), 0, d>> \in regs
  <2> DEFINE f == <<"block", s, L1IrqId(Gen, c, 0), 0, d>>
  <2>1. ErrorSet(Gen, wired, f) /\ f[1] = "block"
    BY <1>3 DEF ErrorSet
  <2> HIDE DEF f
  <2>2. f \in regs
    BY <1>1, <2>1
  <2> QED
    BY <2>2 DEF f
<1>4. ASSUME NEW d \in DirsB(c), NEW i \in BlockedB(Gen, c) PROVE <<"block", s, i, 1, d>> \in regs
  <2> DEFINE f == <<"block", s, i, 1, d>>
  <2>1. ErrorSet(Gen, wired, f) /\ f[1] = "block"
    BY <1>4 DEF ErrorSet
  <2> HIDE DEF f
  <2>2. f \in regs
    BY <1>1, <2>1
  <2> QED
    BY <2>2 DEF f
<1>5. ASSUME NEW d, NEW i, NEW sw, <<"block", s, i, sw, d>> \in regs
      PROVE  (sw = 0 => d \in ShimDirs(c)) /\ (sw = 1 => d \in DirsB(c))
  <2> DEFINE f == <<"block", s, i, sw, d>>
  <2>1. f[1] = "block" /\ f[2] = s /\ f[4] = sw /\ f[5] = d /\ f \in regs
    BY <1>5
  <2> HIDE DEF f, s
  <2>2. ErrorSet(Gen, {}, f)
    BY <1>0, <2>1 DEF Shaped
  <2>3. \/ \E col \in ColRange : \E e \in DirsB(col), j \in BlockedB(Gen, col) :
               f = <<"block", <<col, ShimRow, "PL">>, j, 1, e>>
        \/ \E col \in ColRange : \E e \in ShimDirs(col) :
               f = <<"block", <<col, ShimRow, "PL">>, L1IrqId(Gen, col, 0), 0, e>>
    BY <1>2, <2>1, <2>2 DEF ErrorSet
  <2>4. CASE \E col \in ColRange : \E e \in DirsB(col), j \in BlockedB(Gen, col) :
               f = <<"block", <<col, ShimRow, "PL">>, j, 1, e>>
    BY <1>0, <2>1, <2>4
  <2>5. CASE \E col \in ColRange : \E e \in ShimDirs(col) :
               f = <<"block", <<col, ShimRow, "PL">>, L1IrqId(Gen, col, 0), 0, e>>
    BY <1>0, <2>1, <2>5
  <2> QED
    BY <2>3, <2>4, <2>5
<1>6. ASSUME NEW sw \in {0, 1}, NEW i PROVE <<"irq", s, sw, i>> \in regs <=> i = L1IrqId(Gen, c, sw)
  <2> DEFINE f == <<"irq", s, sw, i>>
  <2>1. f[1] = "irq" /\ f[2] = s /\ f[3] = sw /\ f[4] = i
    OBVIOUS
  <2>2. i = L1IrqId(Gen, c, sw) => ErrorSet(Gen, wired, f)
    BY DEF ErrorSet
  <2> HIDE DEF f, s
  <2>3. ErrorSet(Gen, {}, f) => i = L1IrqId(Gen, c, sw)
    <3>1. SUFFICES ASSUME ErrorSet(Gen, {}, f) PROVE i = L1IrqId(Gen, c, sw)
      OBVIOUS
    <3>2. PICK col \in ColRange, tw \in {0, 1} :
              f = <<"irq", <<col, ShimRow, "PL">>, tw, L1IrqId(Gen, col, tw)>>
      BY <1>2, <2>1, <3>1 DEF ErrorSet
    <3>3. f[2] = <<col, ShimRow, "PL">> /\ f[3] = tw /\ f[4] = L1IrqId(Gen, col, tw)
      BY <3>2
    <3>4. col = c /\ tw = sw
      BY <1>0, <2>1, <3>3
    <3> QED
      BY <2>1, <3>3, <3>4
  <2>4. f \in regs => ErrorSet(Gen, {}, f)
    BY <2>1 DEF Shaped
  <2>5. f \in regs <=> i = L1IrqId(Gen, c, sw)
    BY <1>1, <2>1, <2>2, <2>3, <2>4
  <2> QED
    BY <2>5 DEF f
<1>7. <<"l2enable", s, 0>> \in regs <=> IsNoc(c)
  <2> DEFINE f == <<"l2enable", s, 0>>
  <2>1. f[1] = "l2enable" /\ f[2] = s
    OBVIOUS
  <2>2. IsNoc(c) => ErrorSet(Gen, wired, f)
    BY DEF ErrorSet
  <2> HIDE DEF f, s
  <2>3. ErrorSet(Gen, {}, f) => IsNoc(c)
    <3>1. SUFFICES ASSUME ErrorSet(Gen, {}, f) PROVE IsNoc(c)
      OBVIOUS
    <3>2. PICK col \in ColRange : IsNoc(col) /\ f = <<"l2enable", <<col, ShimRow, "PL">>, 0>>
      BY <1>2, <2>1, <3>1 DEF ErrorSet
    <3> QED
      BY <1>0, <2>1, <3>2
  <2>4. f \in regs => ErrorSet(Gen, {}, f)
    BY <2>1 DEF Shaped
  <2>5. f \in regs <=> IsNoc(c)
    BY <1>1, <2>1, <2>2, <2>3, <2>4
  <2> QED
    BY <2>5 DEF f
<1> QED
  BY <1>3, <1>4, <1>5, <1>6, <1>7

\* A channel is forwarded from one shim switch to the next.
LEMMA ShimForwarded ==
    ASSUME NetAssumption, Gen \in Gens, NEW R, NEW i, NEW x \in ColRange
    PROVE  /\ SwA(x) \in R /\ <<"block", <<x, ShimRow, "PL">>, i, 0, "E">> \notin regs
                 => SwB(x) \in Onwards(R, Open(i, ShimSlots))
           /\ SwB(x) \in R /\ <<"block", <<x, ShimRow, "PL">>, i, 1, "W">> \notin regs
                 => SwA(x) \in Onwards(R, Open(i, ShimSlots))
           /\ x + 1 \in ColRange =>
                 /\ SwB(x) \in R /\ <<"block", <<x, ShimRow, "PL">>, i, 1, "E">> \notin regs
                       => SwA(x + 1) \in Onwards(R, Open(i, ShimSlots))
                 /\ SwA(x + 1) \in R /\ <<"block", <<x + 1, ShimRow, "PL">>, i, 0, "W">> \notin regs
                       => SwB(x) \in Onwards(R, Open(i, ShimSlots))
<1> DEFINE free(p, d) == <<"block", p[1], i, p[2], d>> \notin regs
<1>1. ASSUME NEW p, NEW d, NEW q, <<p, d, q>> \in Links[Gen], p \in R, q[1] \in ShimSlots, free(p, d)
      PROVE  q \in Onwards(R, Open(i, ShimSlots))
  <2> DEFINE l == <<p, d, q>>
  <2>1. /\ l \in Links[Gen] /\ l[1] \in R /\ l[3][1] \in ShimSlots /\ l[3] = q
        /\ <<"block", l[1][1], i, l[1][2], l[2]>> \notin regs
    BY <1>1
  <2> HIDE DEF l
  <2> QED
    BY <2>1, Forwarded
<1>2. \A y \in ColRange : /\ SwA(y)[1] \in ShimSlots /\ SwB(y)[1] \in ShimSlots
                          /\ SwA(y)[1] = <<y, ShimRow, "PL">> /\ SwA(y)[2] = 0
                          /\ SwB(y)[1] = <<y, ShimRow, "PL">> /\ SwB(y)[2] = 1
  BY DEF SwA, SwB, ShimSlots
<1>3. /\ <<SwA(x), "E", SwB(x)>> \in Links[Gen] /\ <<SwB(x), "W", SwA(x)>> \in Links[Gen]
      /\ x + 1 \in ColRange => /\ <<SwB(x), "E", SwA(x + 1)>> \in Links[Gen]
                               /\ <<SwA(x + 1), "W", SwB(x)>> \in Links[Gen]
  <2>1. \A p \in Horizontal(Gen) : <<p[1], "E", p[2]>> \in Links[Gen] /\ <<p[2], "W", p[1]>> \in Links[Gen]
    BY DEF Links
  <2>2. ShimRow \in Rows /\ (x + 1 \in ColRange => x \in 0..NumCols-2)
    BY DEF Rows, ShimRow, ColRange, NetAssumption
  <2> DEFINE p == <<West(Gen, x, ShimRow), East(Gen, x, ShimRow)>>
             q == <<East(Gen, x, ShimRow), West(Gen, x + 1, ShimRow)>>
  <2>3. p \in Horizontal(Gen) /\ (x + 1 \in ColRange => q \in Horizontal(Gen))
    BY <2>2 DEF Horizontal
  <2>4. p[1] = SwA(x) /\ p[2] = SwB(x) /\ q[1] = SwB(x) /\ q[2] = SwA(x + 1)
    BY ShimSides
  <2> HIDE DEF p, q
  <2> QED
    BY <2>1, <2>3, <2>4
<1> HIDE DEF free
<1>4. /\ SwA(x) \in R /\ free(SwA(x), "E") => SwB(x) \in Onwards(R, Open(i, ShimSlots))
      /\ SwB(x) \in R /\ free(SwB(x), "W") => SwA(x) \in Onwards(R, Open(i, ShimSlots))
      /\ x + 1 \in ColRange =>
            /\ SwB(x) \in R /\ free(SwB(x), "E") => SwA(x + 1) \in Onwards(R, Open(i, ShimSlots))
            /\ SwA(x + 1) \in R /\ free(SwA(x + 1), "W") => SwB(x) \in Onwards(R, Open(i, ShimSlots))
  BY <1>1, <1>2, <1>3
<1> QED
  BY <1>2, <1>4 DEF free

\* The error network is on.
NetworkOn == Gen \in Gens /\ errs = "on" /\ Wired /\ Shaped

\* Where the report of a shim switch gets.
Reported(c, sw) == Reach(L1IrqId(Gen, c, sw), {<<<<c, ShimRow, "PL">>, sw>>}, ShimSlots)

LEMMA ReportStaysEast ==
    ASSUME NetAssumption, ErrorChannelsSuffice, LastColumnsReport, NetworkOn,
           NEW c \in ColRange, NEW sw \in {0, 1}, IsNoc(c) \/ HasNextNoc(c)
    PROVE  \A x \in ColRange : IsNoc(x) /\ SwB(x) \in Reported(c, sw) => x = NocOf(c)
<1> DEFINE t == NocOf(c)
           i == L1IrqId(Gen, c, sw)
           J == {SwA(x) : x \in {y \in ColRange : (c < y /\ y <= t) \/ (y = c /\ sw = 0)}}
                \cup {SwB(x) : x \in {y \in ColRange : c <= y /\ y <= t}}
<1>1. /\ t \in ColRange /\ IsNoc(t) /\ c <= t
      /\ \A x \in ColRange : c <= x /\ x < t => ~IsNoc(x)
  BY NocOfIs
<1>2. \A x \in ColRange : x \in Int
  BY DEF ColRange
<1>3. \A x \in ColRange : \A y : (SwA(y) = SwA(x) => y = x) /\ (SwB(y) = SwB(x) => y = x) /\ SwA(x) # SwB(y) /\ SwB(x) # SwA(y)
  BY DEF SwA, SwB
<1>4. <<"block", <<t, ShimRow, "PL">>, i, 1, "E">> \in regs
  <2>1. i \in BlockedB(Gen, t)
    BY NocBlocks DEF NetworkOn
  <2>2. "E" \in DirsB(t)
    BY <1>1 DEF DirsB, Dirs, DirNo
  <2> QED
    BY <1>1, <2>1, <2>2, ShimsAreSet DEF NetworkOn
<1>5. <<"block", <<c, ShimRow, "PL">>, i, sw, "W">> \in regs
  <2>1. "W" \in ShimDirs(c) /\ "W" \in DirsB(c)
    BY DEF ShimDirs, DirsB, Dirs, DirNo
  <2>2. L1IrqId(Gen, c, 1) \in BlockedB(Gen, c)
    BY NocBlocks DEF NetworkOn
  <2>3. CASE sw = 0
    BY <2>1, <2>3, ShimsAreSet DEF NetworkOn
  <2>4. CASE sw = 1
    BY <2>1, <2>2, <2>4, ShimsAreSet DEF NetworkOn
  <2> QED
    BY <2>3, <2>4
<1> HIDE DEF t, i
<1>6. ASSUME NEW l \in Open(i, ShimSlots), l[1] \in J PROVE l[3] \in J
  <2>1. /\ l \in Links[Gen] /\ l[3][1] \in ShimSlots
        /\ <<"block", l[1][1], i, l[1][2], l[2]>> \notin regs
    BY DEF Open
  <2>2. l[1][1] \in ShimSlots
    BY <1>6 DEF ShimSlots, SwA, SwB
  <2>3. \/ \E x \in ColRange : l = <<SwA(x), "E", SwB(x)>> \/ l = <<SwB(x), "W", SwA(x)>>
        \/ \E x \in ColRange : x + 1 \in ColRange
                               /\ (l = <<SwB(x), "E", SwA(x + 1)>> \/ l = <<SwA(x + 1), "W", SwB(x)>>)
    BY <2>1, <2>2, ShimLinksAre DEF NetworkOn
  <2>4. CASE \E x \in ColRange : l = <<SwA(x), "E", SwB(x)>>
    <3>1. PICK x \in ColRange : l = <<SwA(x), "E", SwB(x)>>
      BY <2>4
    <3>2. c <= x /\ x <= t
      BY <1>1, <1>2, <1>3, <1>6, <3>1
    <3> QED
      BY <3>1, <3>2
  <2>5. CASE \E x \in ColRange : l = <<SwB(x), "W", SwA(x)>>
    <3>1. PICK x \in ColRange : l = <<SwB(x), "W", SwA(x)>>
      BY <2>5
    <3>2. c <= x /\ x <= t
      BY <1>1, <1>2, <1>3, <1>6, <3>1
    <3>3. x = c => sw = 0
      <4>1. ASSUME x = c, sw = 1 PROVE <<"block", l[1][1], i, l[1][2], l[2]>> \in regs
        BY <1>5, <3>1, <4>1 DEF SwB
      <4> QED
        BY <2>1, <4>1
    <3>4. (c < x /\ x <= t) \/ (x = c /\ sw = 0)
      BY <1>2, <3>2, <3>3
    <3> QED
      BY <3>1, <3>4
  <2>6. CASE \E x \in ColRange : x + 1 \in ColRange /\ l = <<SwB(x), "E", SwA(x + 1)>>
    <3>1. PICK x \in ColRange : x + 1 \in ColRange /\ l = <<SwB(x), "E", SwA(x + 1)>>
      BY <2>6
    <3>2. c <= x /\ x <= t
      BY <1>1, <1>2, <1>3, <1>6, <3>1
    <3>3. x # t
      <4>1. ASSUME x = t PROVE <<"block", l[1][1], i, l[1][2], l[2]>> \in regs
        BY <1>4, <3>1, <4>1 DEF SwB
      <4> QED
        BY <2>1, <4>1
    <3>4. c < x + 1 /\ x + 1 <= t
      BY <1>1, <1>2, <3>2, <3>3
    <3> QED
      BY <3>1, <3>4
  <2>7. CASE \E x \in ColRange : x + 1 \in ColRange /\ l = <<SwA(x + 1), "W", SwB(x)>>
    <3>1. PICK x \in ColRange : x + 1 \in ColRange /\ l = <<SwA(x + 1), "W", SwB(x)>>
      BY <2>7
    <3>2. (c < x + 1 /\ x + 1 <= t) \/ (x + 1 = c /\ sw = 0)
      BY <1>1, <1>2, <1>3, <1>6, <3>1
    <3>3. ~(x + 1 = c /\ sw = 0)
      <4>1. ASSUME x + 1 = c, sw = 0 PROVE <<"block", l[1][1], i, l[1][2], l[2]>> \in regs
        BY <1>5, <3>1, <4>1 DEF SwA
      <4> QED
        BY <2>1, <4>1
    <3>4. c <= x /\ x <= t
      BY <1>1, <1>2, <3>2, <3>3
    <3> QED
      BY <3>1, <3>4
  <2> QED
    BY <2>3, <2>4, <2>5, <2>6, <2>7
<1>7. <<<<c, ShimRow, "PL">>, sw>> \in J
  <2>1. sw = 0 => <<<<c, ShimRow, "PL">>, sw>> = SwA(c)
    BY DEF SwA
  <2>2. sw = 1 => <<<<c, ShimRow, "PL">>, sw>> = SwB(c)
    BY DEF SwB
  <2>3. c <= c
    BY <1>2
  <2> QED
    BY <1>1, <2>1, <2>2, <2>3
<1> HIDE DEF J
<1>8. Reported(c, sw) \subseteq J
  BY <1>6, <1>7, ReachWithin DEF Reported, i
<1>9. ASSUME NEW x \in ColRange, IsNoc(x), SwB(x) \in J PROVE x = t
  <2>1. c <= x /\ x <= t
    BY <1>3, <1>9 DEF J
  <2> QED
    BY <1>1, <1>2, <1>9, <2>1
<1> QED
  BY <1>8, <1>9 DEF t

LEMMA ReportStaysWest ==
    ASSUME NetAssumption, ErrorChannelsSuffice, LastColumnsReport, NetworkOn,
           NEW c \in ColRange, NEW sw \in {0, 1}, ~IsNoc(c), ~HasNextNoc(c)
    PROVE  \A x \in ColRange : IsNoc(x) /\ SwB(x) \in Reported(c, sw) => x = NocOf(c)
<1> DEFINE t == NocOf(c)
           i == L1IrqId(Gen, c, sw)
           J == {SwA(x) : x \in {y \in ColRange : t < y /\ y <= c}}
                \cup {SwB(x) : x \in {y \in ColRange : (t <= y /\ y < c) \/ (y = c /\ sw = 1)}}
<1>1. /\ t \in ColRange /\ IsNoc(t) /\ t < c
      /\ \A x \in ColRange : t < x /\ x <= c => ~IsNoc(x)
  BY NocOfIs
<1>2. \A x \in ColRange : x \in Int
  BY DEF ColRange
<1>3. \A x \in ColRange : \A y : (SwA(y) = SwA(x) => y = x) /\ (SwB(y) = SwB(x) => y = x) /\ SwA(x) # SwB(y) /\ SwB(x) # SwA(y)
  BY DEF SwA, SwB
<1>4. <<"block", <<t, ShimRow, "PL">>, i, 1, "W">> \in regs
  <2>1. i \in BlockedB(Gen, t)
    BY NocBlocks DEF NetworkOn
  <2>2. "W" \in DirsB(t)
    BY <1>1 DEF DirsB, Dirs, DirNo
  <2> QED
    BY <1>1, <2>1, <2>2, ShimsAreSet DEF NetworkOn
<1>5. <<"block", <<c, ShimRow, "PL">>, i, sw, "E">> \in regs
  <2>1. "E" \in ShimDirs(c) /\ "E" \in DirsB(c)
    BY DEF ShimDirs, DirsB
  <2>2. L1IrqId(Gen, c, 1) \in BlockedB(Gen, c)
    BY NocBlocks DEF NetworkOn
  <2>3. CASE sw = 0
    BY <2>1, <2>3, ShimsAreSet DEF NetworkOn
  <2>4. CASE sw = 1
    BY <2>1, <2>2, <2>4, ShimsAreSet DEF NetworkOn
  <2> QED
    BY <2>3, <2>4
<1> HIDE DEF t, i
<1>6. ASSUME NEW l \in Open(i, ShimSlots), l[1] \in J PROVE l[3] \in J
  <2>1. /\ l \in Links[Gen] /\ l[3][1] \in ShimSlots
        /\ <<"block", l[1][1], i, l[1][2], l[2]>> \notin regs
    BY DEF Open
  <2>2. l[1][1] \in ShimSlots
    BY <1>6 DEF ShimSlots, SwA, SwB
  <2>3. \/ \E x \in ColRange : l = <<SwA(x), "E", SwB(x)>> \/ l = <<SwB(x), "W", SwA(x)>>
        \/ \E x \in ColRange : x + 1 \in ColRange
                               /\ (l = <<SwB(x), "E", SwA(x + 1)>> \/ l = <<SwA(x + 1), "W", SwB(x)>>)
    BY <2>1, <2>2, ShimLinksAre DEF NetworkOn
  <2>4. CASE \E x \in ColRange : l = <<SwA(x), "E", SwB(x)>>
    <3>1. PICK x \in ColRange : l = <<SwA(x), "E", SwB(x)>>
      BY <2>4
    <3>2. t < x /\ x <= c
      BY <1>1, <1>2, <1>3, <1>6, <3>1
    <3>3. x = c => sw = 1
      <4>1. ASSUME x = c, sw = 0 PROVE <<"block", l[1][1], i, l[1][2], l[2]>> \in regs
        BY <1>5, <3>1, <4>1 DEF SwA
      <4> QED
        BY <2>1, <4>1
    <3>4. (t <= x /\ x < c) \/ (x = c /\ sw = 1)
      BY <1>1, <1>2, <3>2, <3>3
    <3> QED
      BY <3>1, <3>4
  <2>5. CASE \E x \in ColRange : l = <<SwB(x), "W", SwA(x)>>
    <3>1. PICK x \in ColRange : l = <<SwB(x), "W", SwA(x)>>
      BY <2>5
    <3>2. t <= x /\ x <= c
      BY <1>1, <1>2, <1>3, <1>6, <3>1
    <3>3. x # t
      <4>1. ASSUME x = t PROVE <<"block", l[1][1], i, l[1][2], l[2]>> \in regs
        BY <1>4, <3>1, <4>1 DEF SwB
      <4> QED
        BY <2>1, <4>1
    <3>4. t < x /\ x <= c
      BY <1>1, <1>2, <3>2, <3>3
    <3> QED
      BY <3>1, <3>4
  <2>6. CASE \E x \in ColRange : x + 1 \in ColRange /\ l = <<SwB(x), "E", SwA(x + 1)>>
    <3>1. PICK x \in ColRange : x + 1 \in ColRange /\ l = <<SwB(x), "E", SwA(x + 1)>>
      BY <2>6
    <3>2. (t <= x /\ x < c) \/ (x = c /\ sw = 1)
      BY <1>1, <1>2, <1>3, <1>6, <3>1
    <3>3. ~(x = c /\ sw = 1)
      <4>1. ASSUME x = c, sw = 1 PROVE <<"block", l[1][1], i, l[1][2], l[2]>> \in regs
        BY <1>5, <3>1, <4>1 DEF SwB
      <4> QED
        BY <2>1, <4>1
    <3>4. t < x + 1 /\ x + 1 <= c
      BY <1>1, <1>2, <3>2, <3>3
    <3> QED
      BY <3>1, <3>4
  <2>7. CASE \E x \in ColRange : x + 1 \in ColRange /\ l = <<SwA(x + 1), "W", SwB(x)>>
    <3>1. PICK x \in ColRange : x + 1 \in ColRange /\ l = <<SwA(x + 1), "W", SwB(x)>>
      BY <2>7
    <3>2. t < x + 1 /\ x + 1 <= c
      BY <1>1, <1>2, <1>3, <1>6, <3>1
    <3>3. t <= x /\ x < c
      BY <1>1, <1>2, <3>2
    <3> QED
      BY <3>1, <3>3
  <2> QED
    BY <2>3, <2>4, <2>5, <2>6, <2>7
<1>7. <<<<c, ShimRow, "PL">>, sw>> \in J
  <2>1. sw = 0 => <<<<c, ShimRow, "PL">>, sw>> = SwA(c)
    BY DEF SwA
  <2>2. sw = 1 => <<<<c, ShimRow, "PL">>, sw>> = SwB(c)
    BY DEF SwB
  <2>3. c <= c
    BY <1>2
  <2> QED
    BY <1>1, <2>1, <2>2, <2>3
<1> HIDE DEF J
<1>8. Reported(c, sw) \subseteq J
  BY <1>6, <1>7, ReachWithin DEF Reported, i
<1>9. ASSUME NEW x \in ColRange, IsNoc(x), SwB(x) \in J PROVE x = t
  <2>1. t <= x /\ x <= c
    BY <1>1, <1>2, <1>3, <1>9 DEF J
  <2> QED
    BY <1>1, <1>2, <1>9, <2>1
<1> QED
  BY <1>8, <1>9 DEF t

LEMMA ReportGetsEast ==
    ASSUME NetAssumption, ErrorChannelsSuffice, LastColumnsReport, NetworkOn,
           NEW c \in ColRange, NEW sw \in {0, 1}, IsNoc(c) \/ HasNextNoc(c)
    PROVE  SwB(NocOf(c)) \in Reported(c, sw)
<1> DEFINE t == NocOf(c)
           i == L1IrqId(Gen, c, sw)
           start == {<<<<c, ShimRow, "PL">>, sw>>}
<1>1. /\ t \in ColRange /\ IsNoc(t) /\ c <= t
      /\ \A x \in ColRange : c <= x /\ x < t => ~IsNoc(x) /\ HasNextNoc(x)
  BY NocOfIs
<1>2. /\ NumCols \in Nat /\ NumRows \in Nat /\ c \in Nat /\ t \in Nat
      /\ \A x \in Nat : c <= x /\ x <= t => x \in ColRange
  BY <1>1 DEF ColRange, NetAssumption
<1>3. PICK step :
          /\ step[0] = start
          /\ \A n \in Nat : step[n + 1] = Onwards(step[n], Open(i, ShimSlots))
          /\ \A n \in 0..2 * (NumCols + NumRows) : step[n] \subseteq Reported(c, sw)
  BY ReachSteps DEF Reported
<1>4. \A x \in ColRange : c <= x /\ x <= t => <<"block", <<x, ShimRow, "PL">>, i, 0, "E">> \notin regs
  <2>1. \A x \in ColRange : c <= x /\ x <= t => "E" \notin ShimDirs(x)
    BY <1>1, <1>2 DEF ShimDirs, ColRange
  <2> QED
    BY <2>1, ShimsAreSet DEF NetworkOn
<1>5. \A x \in ColRange : c <= x /\ x < t => <<"block", <<x, ShimRow, "PL">>, i, 1, "E">> \notin regs
  <2>1. \A x \in ColRange : c <= x /\ x < t => "E" \notin DirsB(x)
    BY <1>1 DEF ShimDirs, DirsB
  <2> QED
    BY <2>1, ShimsAreSet DEF NetworkOn
<1> HIDE DEF t, i
\* Along the switches of a shim, and on to the next.
<1>6. Gen \in Gens
  BY DEF NetworkOn
<1>7. ASSUME NEW x \in ColRange, c <= x, x <= t, NEW n \in Nat, SwA(x) \in step[n] PROVE SwB(x) \in step[n + 1]
  <2>1. <<"block", <<x, ShimRow, "PL">>, i, 0, "E">> \notin regs
    BY <1>4, <1>7
  <2>2. SwB(x) \in Onwards(step[n], Open(i, ShimSlots))
    BY <1>6, <1>7, <2>1, ShimForwarded
  <2> QED
    BY <1>3, <2>2
<1>8. ASSUME NEW x \in ColRange, x + 1 \in ColRange, c <= x, x < t, NEW n \in Nat, SwB(x) \in step[n]
      PROVE  SwA(x + 1) \in step[n + 1]
  <2>1. <<"block", <<x, ShimRow, "PL">>, i, 1, "E">> \notin regs
    BY <1>5, <1>8
  <2>2. SwA(x + 1) \in Onwards(step[n], Open(i, ShimSlots))
    BY <1>6, <1>8, <2>1, ShimForwarded
  <2> QED
    BY <1>3, <2>2
<1> DEFINE S == {k \in Nat : c + k <= t => SwB(c + k) \in step[2 * k + 1]}
<1>9. 0 \in S
  <2>1. 0 \in Nat /\ 0 + 1 = 1 /\ 2 * 0 + 1 = 1 /\ c + 0 = c /\ c <= c
    BY <1>2
  <2>2. CASE sw = 0
    <3>1. SwA(c) \in step[0]
      BY <1>3, <2>2 DEF SwA
    <3>2. SwB(c) \in step[0 + 1]
      BY <1>1, <1>7, <2>1, <3>1
    <3> QED
      BY <2>1, <3>2
  <2>3. CASE sw = 1
    <3>1. SwB(c) \in step[0]
      BY <1>3, <2>3 DEF SwB
    <3>2. step[0 + 1] = Onwards(step[0], Open(i, ShimSlots))
      BY <1>3, <2>1
    <3>3. SwB(c) \in step[0 + 1]
      BY <3>1, <3>2 DEF Onwards
    <3> QED
      BY <2>1, <3>3
  <2> QED
    BY <2>2, <2>3
<1>10. ASSUME NEW k \in S PROVE k + 1 \in S
  <2>1. SUFFICES ASSUME c + (k + 1) <= t PROVE SwB(c + (k + 1)) \in step[2 * (k + 1) + 1]
    OBVIOUS
  <2> DEFINE x == c + k
             n == 2 * k + 1
  <2>2. /\ k \in Nat /\ n \in Nat /\ n + 1 \in Nat /\ x \in ColRange /\ x + 1 \in ColRange
        /\ c <= x /\ x < t /\ c <= x + 1 /\ x + 1 <= t
        /\ c + (k + 1) = x + 1 /\ 2 * (k + 1) + 1 = (n + 1) + 1
    BY <1>2, <2>1
  <2>3. SwB(x) \in step[n]
    BY <1>2, <2>2
  <2> HIDE DEF x, n, S
  <2>4. SwA(x + 1) \in step[n + 1]
    BY <1>8, <2>2, <2>3
  <2>5. SwB(x + 1) \in step[(n + 1) + 1]
    BY <1>7, <2>2, <2>4
  <2> QED
    BY <2>2, <2>5
<1> HIDE DEF S
<1>11. S = Nat
  BY <1>9, <1>10, EveryNumber DEF S
<1>12. t - c \in S /\ c + (t - c) = t /\ 2 * (t - c) + 1 \in 0..2 * (NumCols + NumRows)
  <2>1. t <= NumCols - 1
    BY <1>1 DEF ColRange
  <2>2. NumRows >= 1
    BY DEF NetAssumption
  <2> QED
    BY <1>1, <1>2, <1>11, <2>1, <2>2
<1>13. SwB(t) \in step[2 * (t - c) + 1]
  BY <1>2, <1>12 DEF S
<1> QED
  BY <1>3, <1>12, <1>13 DEF t

LEMMA ReportGetsWest ==
    ASSUME NetAssumption, ErrorChannelsSuffice, LastColumnsReport, NetworkOn,
           NEW c \in ColRange, NEW sw \in {0, 1}, ~IsNoc(c), ~HasNextNoc(c)
    PROVE  SwB(NocOf(c)) \in Reported(c, sw)
<1> DEFINE t == NocOf(c)
           i == L1IrqId(Gen, c, sw)
           start == {<<<<c, ShimRow, "PL">>, sw>>}
<1>1. /\ t \in ColRange /\ IsNoc(t) /\ t < c
      /\ \A x \in ColRange : t < x /\ x <= c => ~IsNoc(x) /\ ~HasNextNoc(x)
  BY NocOfIs
<1>2. /\ NumCols \in Nat /\ NumRows \in Nat /\ c \in Nat /\ t \in Nat
      /\ \A x \in Nat : t <= x /\ x <= c => x \in ColRange
  BY <1>1 DEF ColRange, NetAssumption
<1>3. PICK step :
          /\ step[0] = start
          /\ \A n \in Nat : step[n + 1] = Onwards(step[n], Open(i, ShimSlots))
          /\ \A n \in 0..2 * (NumCols + NumRows) : step[n] \subseteq Reported(c, sw)
  BY ReachSteps DEF Reported
<1>4. \A x \in ColRange : t < x /\ x <= c => /\ <<"block", <<x, ShimRow, "PL">>, i, 0, "W">> \notin regs
                                             /\ <<"block", <<x, ShimRow, "PL">>, i, 1, "W">> \notin regs
  <2>1. \A x \in ColRange : t < x /\ x <= c => "W" \notin ShimDirs(x) /\ "W" \notin DirsB(x)
    BY <1>1 DEF ShimDirs, DirsB
  <2> QED
    BY <2>1, ShimsAreSet DEF NetworkOn
<1> HIDE DEF t, i
\* Along the switches of a shim, and on to the next.
<1>5. Gen \in Gens
  BY DEF NetworkOn
<1>6. ASSUME NEW x \in ColRange, t < x, x <= c, NEW n \in Nat, SwB(x) \in step[n] PROVE SwA(x) \in step[n + 1]
  <2>1. <<"block", <<x, ShimRow, "PL">>, i, 1, "W">> \notin regs
    BY <1>4, <1>6
  <2>2. SwA(x) \in Onwards(step[n], Open(i, ShimSlots))
    BY <1>5, <1>6, <2>1, ShimForwarded
  <2> QED
    BY <1>3, <2>2
<1>7. ASSUME NEW x \in ColRange, x + 1 \in ColRange, t <= x, x + 1 <= c, NEW n \in Nat, SwA(x + 1) \in step[n]
      PROVE  SwB(x) \in step[n + 1]
  <2>1. t < x + 1
    BY <1>2, <1>7 DEF ColRange
  <2>2. <<"block", <<x + 1, ShimRow, "PL">>, i, 0, "W">> \notin regs
    BY <1>4, <1>7, <2>1
  <2>3. SwB(x) \in Onwards(step[n], Open(i, ShimSlots))
    BY <1>7, <1>5, <2>2, ShimForwarded
  <2> QED
    BY <1>3, <2>3
<1> DEFINE S == {k \in Nat : t < c - k => SwA(c - k) \in step[2 * k + 1]}
<1>8. 0 \in S
  <2>1. 0 \in Nat /\ 0 + 1 = 1 /\ 2 * 0 + 1 = 1 /\ c - 0 = c /\ c <= c
    BY <1>2
  <2>2. CASE sw = 1
    <3>1. SwB(c) \in step[0]
      BY <1>3, <2>2 DEF SwB
    <3>2. SwA(c) \in step[0 + 1]
      BY <1>1, <1>6, <2>1, <3>1
    <3> QED
      BY <2>1, <3>2
  <2>3. CASE sw = 0
    <3>1. SwA(c) \in step[0]
      BY <1>3, <2>3 DEF SwA
    <3>2. step[0 + 1] = Onwards(step[0], Open(i, ShimSlots))
      BY <1>3, <2>1
    <3>3. SwA(c) \in step[0 + 1]
      BY <3>1, <3>2 DEF Onwards
    <3> QED
      BY <2>1, <3>3
  <2> QED
    BY <2>2, <2>3
<1>9. ASSUME NEW k \in S PROVE k + 1 \in S
  <2>1. SUFFICES ASSUME t < c - (k + 1) PROVE SwA(c - (k + 1)) \in step[2 * (k + 1) + 1]
    OBVIOUS
  <2> DEFINE x == c - (k + 1)
             n == 2 * k + 1
  <2>2. /\ k \in Nat /\ n \in Nat /\ n + 1 \in Nat /\ x \in ColRange /\ x + 1 \in ColRange
        /\ t < x /\ t <= x /\ x <= c /\ x + 1 <= c /\ t < x + 1
        /\ c - k = x + 1 /\ 2 * (k + 1) + 1 = (n + 1) + 1
    BY <1>2, <2>1
  <2>3. SwA(x + 1) \in step[n]
    BY <1>2, <2>2
  <2> HIDE DEF x, n, S
  <2>4. SwB(x) \in step[n + 1]
    BY <1>7, <2>2, <2>3
  <2>5. SwA(x) \in step[(n + 1) + 1]
    BY <1>6, <2>2, <2>4
  <2> QED
    BY <2>2, <2>5 DEF x
<1> HIDE DEF S
<1>10. S = Nat
  BY <1>8, <1>9, EveryNumber DEF S
<1> DEFINE k == c - (t + 1)
<1>11. /\ k \in S /\ c - k = t + 1 /\ t < t + 1 /\ t + 1 \in ColRange /\ t + 1 <= c /\ t <= t
      /\ 2 * k + 1 \in Nat /\ (2 * k + 1) + 1 \in 0..2 * (NumCols + NumRows)
  <2>1. c <= NumCols - 1
    BY DEF ColRange
  <2> QED
    BY <1>1, <1>2, <1>10, <2>1
<1> HIDE DEF k
<1>12. SwA(t + 1) \in step[2 * k + 1]
  BY <1>11 DEF S
<1>13. SwB(t) \in step[(2 * k + 1) + 1]
  BY <1>1, <1>7, <1>11, <1>12
<1> QED
  BY <1>3, <1>11, <1>13 DEF t

\* Every L1 switch has one channel of one L2 controller.
LEMMA ReportsAre ==
    ASSUME NetAssumption, ErrorChannelsSuffice, LastColumnsReport, NetworkOn,
           NEW c \in ColRange, NEW sw \in {0, 1}
    PROVE  ReportsTo(c, sw) = {<<NocOf(c), L1IrqId(Gen, c, sw)>>}
<1> DEFINE i == L1IrqId(Gen, c, sw)
           s == <<c, ShimRow, "PL">>
           ids == {j \in Channels : <<"irq", s, sw, j>> \in regs}
           good(x) == LET noc == <<x[1], ShimRow, "PL">>
                      IN  <<"l2enable", noc, 0>> \in regs /\ <<noc, 1>> \in Reach(x[2], {<<s, sw>>}, ShimSlots)
<1>1. i \in Channels
  <2>1. i \in 0..5
    BY IrqIdSuffices DEF NetworkOn
  <2>2. NumChannels \in Nat /\ NumChannels >= 6
    BY DEF ErrorChannelsSuffice, NetAssumption
  <2> HIDE DEF i
  <2> QED
    BY <2>1, <2>2 DEF Channels
<1>2. ids = {i}
  <2>1. \A j : <<"irq", s, sw, j>> \in regs <=> j = i
    BY ShimsAreSet DEF NetworkOn
  <2> HIDE DEF i
  <2> QED
    BY <1>1, <2>1
<1>3. ReportsTo(c, sw) = {x \in ColRange \X ids : good(x)}
  BY DEF ReportsTo
<1>4. ASSUME NEW x \in ColRange
      PROVE  good(<<x, i>>) <=> IsNoc(x) /\ SwB(x) \in Reported(c, sw)
  BY ShimsAreSet DEF NetworkOn, SwB, Reported
<1>5. NocOf(c) \in ColRange /\ IsNoc(NocOf(c)) /\ SwB(NocOf(c)) \in Reported(c, sw)
  BY NocOfIs, ReportGetsEast, ReportGetsWest
<1>6. \A x \in ColRange : IsNoc(x) /\ SwB(x) \in Reported(c, sw) => x = NocOf(c)
  BY ReportStaysEast, ReportStaysWest
<1> HIDE DEF good, ids, i
<1>7. \A x \in ColRange \X ids : x = <<x[1], i>> /\ x[1] \in ColRange
  BY <1>2
<1>8. ASSUME NEW x \in ColRange \X ids PROVE good(x) <=> x = <<NocOf(c), i>>
  <2>1. x = <<x[1], i>> /\ x[1] \in ColRange
    BY <1>7
  <2> DEFINE y == x[1]
  <2> HIDE DEF y
  <2>2. x = <<y, i>> /\ y \in ColRange
    BY <2>1 DEF y
  <2>3. good(<<y, i>>) <=> y = NocOf(c)
    BY <1>4, <1>5, <1>6, <2>2
  <2> QED
    BY <2>2, <2>3
<1>9. <<NocOf(c), i>> \in ColRange \X ids
  BY <1>2, <1>5
<1> QED
  BY <1>3, <1>8, <1>9 DEF i

\* The switches of the column of a module, above the shim.
Column(c) == {x \in SlotsOf(Gen, wired) \X {0, 1} : x[1][1] = c /\ (IsAie(Gen, x[1][2]) => x[2] = 0)}

LEMMA TilesBelow ==
    ASSUME NetAssumption, NEW T \in TileSets
    PROVE  /\ \A c, r : <<c, r>> \in T => c \in ColRange /\ r \in Rows /\ r # ShimRow
           /\ \A c : \A r \in Rows : r + 1 \in Rows /\ <<c, r + 1>> \in T => r = ShimRow \/ <<c, r>> \in T
<1>1. T \subseteq ColRange \X (Rows \ {ShimRow}) /\ \A t \in T : t[2] > 1 => <<t[1], t[2] - 1>> \in T
  BY DEF NetAssumption
<1>2. ASSUME NEW c, NEW r \in Rows, r + 1 \in Rows, <<c, r + 1>> \in T, r # ShimRow PROVE <<c, r>> \in T
  <2>1. r \in Nat /\ r + 1 > 1 /\ (r + 1) - 1 = r
    BY <1>2 DEF Rows, ShimRow
  <2> DEFINE t == <<c, r + 1>>
  <2>2. t \in T /\ t[1] = c /\ t[2] = r + 1
    BY <1>2
  <2> HIDE DEF t
  <2>3. <<t[1], t[2] - 1>> \in T
    BY <1>1, <2>1, <2>2
  <2> QED
    BY <2>1, <2>2, <2>3
<1> QED
  BY <1>1, <1>2

\* Links to the south.
LEMMA SouthLinks ==
    ASSUME NetAssumption, NEW gen \in Gens, NEW c \in ColRange, NEW r \in Rows, r + 1 \in Rows
    PROVE  /\ <<LineA(gen, c, r + 1), "S", LineA(gen, c, r)>> \in Links[gen]
           /\ <<LineB(gen, c, r + 1), "S", LineB(gen, c, r)>> \in Links[gen]
<1> DEFINE p == <<LineA(gen, c, r), LineA(gen, c, r + 1)>>
           q == <<LineB(gen, c, r), LineB(gen, c, r + 1)>>
<1>1. r \in 0..NumRows-2
  BY DEF Rows, NetAssumption
<1>2. p \in Vertical(gen) /\ q \in Vertical(gen)
  BY <1>1 DEF Vertical
<1>3. \A x \in Vertical(gen) : <<x[2], "S", x[1]>> \in Links[gen]
  BY DEF Links
<1>4. /\ p[1] = LineA(gen, c, r) /\ p[2] = LineA(gen, c, r + 1)
      /\ q[1] = LineB(gen, c, r) /\ q[2] = LineB(gen, c, r + 1)
  OBVIOUS
<1> HIDE DEF p, q
<1> QED
  BY <1>2, <1>3, <1>4

LEMMA SouthLinksAre ==
    ASSUME NetAssumption, NEW gen \in Gens, NEW l \in Links[gen], l[2] = "S"
    PROVE  \E c \in ColRange, r \in Rows :
              /\ r + 1 \in Rows
              /\ \/ l[1] = LineA(gen, c, r + 1) /\ l[3] = LineA(gen, c, r)
                 \/ l[1] = LineB(gen, c, r + 1) /\ l[3] = LineB(gen, c, r)
<1>1. PICK c \in ColRange, r \in 0..NumRows-2 :
          \/ l = <<LineA(gen, c, r), "N", LineA(gen, c, r + 1)>>
          \/ l = <<LineB(gen, c, r), "N", LineB(gen, c, r + 1)>>
          \/ l = <<LineA(gen, c, r + 1), "S", LineA(gen, c, r)>>
          \/ l = <<LineB(gen, c, r + 1), "S", LineB(gen, c, r)>>
  BY LinksAre
<1>2. \/ l[1] = LineA(gen, c, r + 1) /\ l[3] = LineA(gen, c, r)
      \/ l[1] = LineB(gen, c, r + 1) /\ l[3] = LineB(gen, c, r)
  BY <1>1
<1>3. r \in Rows /\ r + 1 \in Rows
  BY DEF Rows, NetAssumption
<1> QED
  BY <1>2, <1>3

\* What is set above the shims when the error network is on.
LEMMA ArrayIsSet ==
    ASSUME errs = "on", Wired, Shaped
    PROVE  /\ \A c : \A x \in Column(c), d \in {"N", "E", "W"} : <<"block", x[1], 0, x[2], d>> \in regs
           /\ \A s, i, sw : s[2] # ShimRow => <<"block", s, i, sw, "S">> \notin regs
<1>1. ASSUME NEW s \in SlotsOf(Gen, wired), NEW sw \in {0, 1}, IsAie(Gen, s[2]) => sw = 0, NEW d \in {"N", "E", "W"}
      PROVE  <<"block", s, 0, sw, d>> \in regs
  <2> DEFINE f == <<"block", s, 0, sw, d>>
  <2>1. ErrorSet(Gen, wired, f) /\ f[1] \in Routes
    BY <1>1 DEF ErrorSet, Routes
  <2> HIDE DEF f
  <2>2. f \in regs
    BY <2>1 DEF Wired
  <2> QED
    BY <2>2 DEF f
<1>2. ASSUME NEW s, NEW i, NEW sw, s[2] # ShimRow PROVE <<"block", s, i, sw, "S">> \notin regs
  <2> DEFINE f == <<"block", s, i, sw, "S">>
  <2>1. f[1] = "block" /\ f[2] = s /\ f[5] = "S"
    OBVIOUS
  <2> HIDE DEF f
  <2>2. f \notin regs
    BY <1>2, <2>1 DEF Shaped
  <2> QED
    BY <2>2 DEF f
<1> QED
  BY <1>1, <1>2 DEF Column

LEMMA ErrorsStayInColumn ==
    ASSUME NetAssumption, Phase, NetworkOn, NEW s \in SlotsOf(Gen, wired)
    PROVE  Reach(0, Leaves(s), SlotsOf(Gen, tiles)) \subseteq Column(s[1])
<1> DEFINE J == Column(s[1])
<1>1. /\ wired \in TileSets /\ wired \subseteq tiles /\ tiles \in TileSets /\ Gen \in Gens
  BY DEF Phase, NetworkOn
<1>2. s[1] \in ColRange /\ s \in Slots
  BY DEF SlotsOf, Slots
<1>3. Leaves(s) \subseteq J
  <2>1. CASE s[3] = "MEM" /\ ~IsAie(Gen, s[2])
    <3>1. Leaves(s) = {<<s, 0>>, <<s, 1>>}
      BY <2>1 DEF Leaves
    <3> QED
      BY <2>1, <3>1 DEF Column
  <2>2. CASE ~(s[3] = "MEM" /\ ~IsAie(Gen, s[2]))
    <3>1. Leaves(s) = {<<s, 0>>}
      BY <2>2 DEF Leaves
    <3> QED
      BY <3>1 DEF Column
  <2> QED
    BY <2>1, <2>2
<1>4. ASSUME NEW l \in Open(0, SlotsOf(Gen, tiles)), l[1] \in J PROVE l[3] \in J
  <2>1. l \in Links[Gen] /\ l[3][1] \in SlotsOf(Gen, tiles) /\ <<"block", l[1][1], 0, l[1][2], l[2]>> \notin regs
    BY DEF Open
  <2>2. l[2] = "S"
    <3>1. l[2] \in {"E", "W"} \/ l[2] \in {"N", "S"}
      BY <1>1, <2>1, LinksAre, Zenon
    <3>2. l[2] \notin {"N", "E", "W"}
      BY <1>2, <1>4, <2>1, ArrayIsSet DEF NetworkOn
    <3> QED
      BY <3>1, <3>2
  <2>3. PICK c \in ColRange, r \in Rows :
            /\ r + 1 \in Rows
            /\ \/ l[1] = LineA(Gen, c, r + 1) /\ l[3] = LineA(Gen, c, r)
               \/ l[1] = LineB(Gen, c, r + 1) /\ l[3] = LineB(Gen, c, r)
    BY <1>1, <2>1, <2>2, SouthLinksAre
  <2> DEFINE p == l[1]
             q == l[3]
  <2>4. /\ p[1] = <<c, r + 1, p[1][3]>>
        /\ q[1] = <<c, r, q[1][3]>> /\ q = <<q[1], q[2]>> /\ q[2] \in {0, 1} /\ (IsAie(Gen, r) => q[2] = 0)
    BY <2>3, LinesAre
  <2>5. p \in SlotsOf(Gen, wired) \X {0, 1} /\ p[1][1] = s[1] /\ q[1] \in SlotsOf(Gen, tiles)
    BY <1>4, <2>1 DEF Column
  <2> HIDE DEF p, q
  <2> DEFINE a == p[1]
             b == q[1]
             m == q[1][3]
             n == p[1][3]
  <2>6. a = <<c, r + 1, n>> /\ b = <<c, r, m>> /\ a \in SlotsOf(Gen, wired) /\ b \in SlotsOf(Gen, tiles) /\ a[1] = s[1]
    BY <2>4, <2>5
  <2>7. b \in SlotsOf(Gen, tiles) /\ q = <<b, q[2]>>
    BY <2>4, <2>5
  <2> HIDE DEF a, b, m, n
  <2>8. a[1] = c /\ a[2] = r + 1 /\ b[1] = c /\ b[2] = r
    BY <2>6
  <2>9. <<c, r + 1>> \in wired /\ <<c, r>> \in tiles
    BY <2>6, <2>8 DEF SlotsOf
  <2>10. <<c, r>> \in wired
    BY <1>1, <2>3, <2>9, TilesBelow
  <2>11. b \in SlotsOf(Gen, wired)
    BY <2>7, <2>8, <2>10 DEF SlotsOf
  <2>12. q \in SlotsOf(Gen, wired) \X {0, 1} /\ q[1] = b
    BY <2>4, <2>7, <2>11
  <2>13. q \in J
    BY <2>4, <2>6, <2>8, <2>12 DEF Column
  <2> QED
    BY <2>13 DEF q
<1> HIDE DEF J
<1> QED
  BY <1>3, <1>4, ReachWithin DEF J

LEMMA LineSlots ==
    ASSUME NEW gen, NEW T, NEW c \in ColRange, NEW r \in Rows, <<c, r>> \in T, r # ShimRow
    PROVE  LineA(gen, c, r)[1] \in SlotsOf(gen, T) /\ LineB(gen, c, r)[1] \in SlotsOf(gen, T)
<1>1. CASE IsAie(gen, r)
  <2>1. LineA(gen, c, r)[1] = <<c, r, "CORE">> /\ LineB(gen, c, r)[1] = <<c, r, "MEM">>
    BY <1>1 DEF LineA, LineB, Single
  <2>2. ModsOf(gen, r) = {"CORE", "MEM"}
    BY <1>1 DEF ModsOf
  <2> QED
    BY <2>1, <2>2 DEF SlotsOf, Slots
<1>2. CASE ~IsAie(gen, r)
  <2>1. LineA(gen, c, r)[1] = <<c, r, "MEM">> /\ LineB(gen, c, r)[1] = <<c, r, "MEM">>
    BY <1>2 DEF LineA, LineB, Mod
  <2>2. ModsOf(gen, r) = {"MEM"}
    BY <1>2 DEF ModsOf
  <2> QED
    BY <2>1, <2>2 DEF SlotsOf, Slots
<1> QED
  BY <1>1, <1>2

LEMMA ErrorsArrive ==
    ASSUME NetAssumption, Phase, NetworkOn, NEW s \in SlotsOf(Gen, wired)
    PROVE  ArrivesAt(s) # {}
<1> DEFINE within == SlotsOf(Gen, tiles)
           R == Reach(0, Leaves(s), within)
           c == s[1]
           r == s[2]
           onB == s[3] = "MEM" /\ IsAie(Gen, s[2])
           Line(x) == IF onB THEN LineB(Gen, c, x) ELSE LineA(Gen, c, x)
<1>1. /\ wired \in TileSets /\ wired \subseteq tiles /\ Gen \in Gens /\ NumRows \in Nat /\ NumCols \in Nat
  BY DEF Phase, NetworkOn, NetAssumption
<1>2. /\ c \in ColRange /\ r \in Rows /\ <<c, r>> \in wired /\ s[3] \in ModsOf(Gen, r) /\ s = <<c, r, s[3]>>
      /\ r # ShimRow
  <2>1. s \in ColRange \X Rows \X {"PL", "MEM", "CORE"} /\ <<s[1], s[2]>> \in wired /\ s[3] \in ModsOf(Gen, s[2])
    BY DEF SlotsOf, Slots
  <2>2. s = <<s[1], s[2], s[3]>> /\ s[1] \in ColRange /\ s[2] \in Rows
    BY <2>1
  <2>3. s[2] # ShimRow
    BY <1>1, <2>1, TilesBelow
  <2> QED
    BY <2>1, <2>2, <2>3
<1>3. r \in Nat /\ r >= 1 /\ r < NumRows
  BY <1>1, <1>2 DEF Rows, ShimRow
<1>4. PICK step :
          /\ step[0] = Leaves(s)
          /\ \A n \in Nat : step[n + 1] = Onwards(step[n], Open(0, within))
          /\ \A n \in 0..2 * (NumCols + NumRows) : step[n] \subseteq R
  BY ReachSteps
<1>5. Line(r) \in step[0]
  <2>1. <<s, 0>> \in Leaves(s)
    BY DEF Leaves
  <2>2. Line(r) = <<s, 0>>
    <3>1. CASE onB
      <4>1. LineB(Gen, c, r) = <<<<c, r, "MEM">>, 0>>
        BY <3>1 DEF LineB, Single
      <4> QED
        BY <1>2, <3>1, <4>1
    <3>2. CASE ~onB /\ IsAie(Gen, r)
      <4>1. s[3] = "CORE"
        BY <1>2, <3>2 DEF ModsOf
      <4>2. LineA(Gen, c, r) = <<<<c, r, "CORE">>, 0>>
        BY <3>2 DEF LineA, Single
      <4> QED
        BY <1>2, <3>2, <4>1, <4>2
    <3>3. CASE ~onB /\ ~IsAie(Gen, r)
      <4>1. s[3] = "MEM"
        BY <1>2, <3>3 DEF ModsOf
      <4>2. LineA(Gen, c, r) = <<<<c, r, "MEM">>, 0>>
        BY <1>2, <3>3 DEF LineA, Mod
      <4> QED
        BY <1>2, <3>3, <4>1, <4>2
    <3> QED
      BY <3>1, <3>2, <3>3
  <2> QED
    BY <1>4, <2>1, <2>2
<1>6. \A x : Line(x) = <<Line(x)[1], Line(x)[2]>> /\ Line(x)[1] = <<c, x, Line(x)[1][3]>>
  BY LinesAre
<1>7. \A x \in Rows : <<c, x>> \in tiles /\ x # ShimRow => Line(x)[1] \in within
  BY <1>2, LineSlots
<1>8. \A x \in Rows : x + 1 \in Rows => <<Line(x + 1), "S", Line(x)>> \in Links[Gen]
  BY <1>1, <1>2, SouthLinks
<1>9. Line(0)[1] \in ShimSlots
  <2>1. LineA(Gen, c, 0)[1] = <<c, ShimRow, "PL">> /\ LineB(Gen, c, 0)[1] = <<c, ShimRow, "PL">>
    BY DEF LineA, LineB, Mod, IsAie, ShimRow
  <2>2. <<c, ShimRow, "PL">> \in ShimSlots
    BY <1>2 DEF ShimSlots
  <2> QED
    BY <2>1, <2>2
<1>10. \A x \in Rows : x # ShimRow => <<"block", Line(x)[1], 0, Line(x)[2], "S">> \notin regs
  <2> TAKE x \in Rows
  <2> HAVE x # ShimRow
  <2> DEFINE p == Line(x)[1]
  <2>1. p = <<c, x, Line(x)[1][3]>>
    BY <1>6
  <2> HIDE DEF p
  <2>2. p[2] = x
    BY <2>1
  <2>3. <<"block", p, 0, Line(x)[2], "S">> \notin regs
    BY <2>2, ArrayIsSet DEF NetworkOn
  <2> QED
    BY <2>3 DEF p
<1> HIDE DEF R, within, Line, onB, r, c
<1> DEFINE S == {k \in Nat : k < r => <<c, r - k>> \in wired /\ Line(r - k) \in step[k]}
<1>11. 0 \in S
  BY <1>2, <1>3, <1>5
<1>12. ASSUME NEW k \in S PROVE k + 1 \in S
  <2>1. SUFFICES ASSUME k + 1 < r PROVE <<c, r - (k + 1)>> \in wired /\ Line(r - (k + 1)) \in step[k + 1]
    OBVIOUS
  <2> DEFINE x == r - (k + 1)
  <2>2. /\ k \in Nat /\ x \in Rows /\ x + 1 \in Rows /\ x # ShimRow /\ x + 1 # ShimRow
        /\ r - k = x + 1 /\ k < r
    BY <1>1, <1>3, <2>1 DEF Rows, ShimRow
  <2>3. <<c, x + 1>> \in wired /\ Line(x + 1) \in step[k]
    BY <2>2
  <2> HIDE DEF x, S
  <2>4. <<c, x>> \in wired
    BY <1>1, <2>2, <2>3, TilesBelow
  <2> DEFINE l == <<Line(x + 1), "S", Line(x)>>
  <2>5. l[1] = Line(x + 1) /\ l[2] = "S" /\ l[3] = Line(x) /\ l \in Links[Gen]
    BY <1>8, <2>2
  <2> HIDE DEF l
  <2>6. l[3][1] \in within /\ <<"block", l[1][1], 0, l[1][2], l[2]>> \notin regs /\ l[1] \in step[k]
    BY <1>1, <1>7, <1>10, <2>2, <2>3, <2>4, <2>5
  <2>7. l[3] \in Onwards(step[k], Open(0, within))
    BY <2>5, <2>6, Forwarded
  <2>8. Line(x) \in step[k + 1]
    BY <1>4, <2>2, <2>5, <2>7
  <2> QED
    BY <2>4, <2>8 DEF x
<1> HIDE DEF S
<1>13. S = Nat
  BY <1>11, <1>12, EveryNumber DEF S
<1>14. r - 1 \in S /\ r - 1 < r /\ r - (r - 1) = 1 /\ r - 1 \in 0..2 * (NumCols + NumRows)
  BY <1>1, <1>3, <1>13
<1>15. Line(1) \in step[r - 1]
  BY <1>14 DEF S
<1>16. Line(1) \in R
  BY <1>4, <1>14, <1>15
<1> DEFINE l == <<Line(0 + 1), "S", Line(0)>>
<1>17. l[1] = Line(1) /\ l[2] = "S" /\ l[3] = Line(0) /\ l \in Links[Gen] /\ 1 \in Rows /\ 1 # ShimRow
  <2>1. 0 \in Rows /\ 0 + 1 \in Rows /\ 0 + 1 = 1 /\ 1 # ShimRow
    BY <1>1, <1>3 DEF Rows, ShimRow
  <2> QED
    BY <1>8, <2>1
<1> HIDE DEF l
<1>18. <<"block", l[1][1], 0, l[1][2], "S">> \notin regs
  BY <1>10, <1>17
<1>19. <<l[3][1][1], l[3][2]>> \in ArrivesAt(s)
  BY <1>9, <1>16, <1>17, <1>18 DEF ArrivesAt, R, within
<1> QED
  BY <1>19

LEMMA ErrorsArriveInColumn ==
    ASSUME NetAssumption, Phase, NetworkOn, NEW s \in SlotsOf(Gen, wired), NEW a \in ArrivesAt(s)
    PROVE  a[1] = s[1]
<1>1. PICK l \in Links[Gen] : /\ l[1] \in Reach(0, Leaves(s), SlotsOf(Gen, tiles)) /\ l[2] = "S"
                              /\ a = <<l[3][1][1], l[3][2]>>
  BY DEF ArrivesAt
<1>2. l[1][1][1] = s[1]
  BY <1>1, ErrorsStayInColumn DEF Column
<1>3. PICK c \in ColRange, r \in Rows :
          \/ l[1] = LineA(Gen, c, r + 1) /\ l[3] = LineA(Gen, c, r)
          \/ l[1] = LineB(Gen, c, r + 1) /\ l[3] = LineB(Gen, c, r)
  BY <1>1, SouthLinksAre DEF NetworkOn
<1> DEFINE p == l[1][1]
           q == l[3][1]
<1>4. p = <<c, r + 1, p[3]>> /\ q = <<c, r, q[3]>>
  BY <1>3, LinesAre
<1> HIDE DEF p, q
<1>5. p[1] = c /\ q[1] = c
  BY <1>4
<1> QED
  BY <1>1, <1>2, <1>5 DEF p, q

\* An error that is raised is reported once, and told from all others.
LEMMA ErrorsAreReported ==
    ASSUME NetAssumption, ErrorChannelsSuffice, LastColumnsReport, Phase, Wired, Shaped
    PROVE  ErrorsReachTheirL2
<1> SUFFICES ASSUME errs = "on" PROVE ErrorsReachTheirL2
  BY DEF ErrorsReachTheirL2
<1>1. NetworkOn
  BY DEF NetworkOn, Phase
<1>2. \A s \in SlotsOf(Gen, wired) : ArrivesAt(s) # {} /\ \A a \in ArrivesAt(s) : a[1] = s[1]
  BY <1>1, ErrorsArrive, ErrorsArriveInColumn
<1>3. \A c \in ColRange, sw \in {0, 1} : ReportsTo(c, sw) = {<<NocOf(c), L1IrqId(Gen, c, sw)>>}
  BY <1>1, ReportsAre
<1>4. \A c \in ColRange, sw \in {0, 1} : Cardinality(ReportsTo(c, sw)) = 1
  <2> TAKE c \in ColRange, sw \in {0, 1}
  <2>1. \E x : ReportsTo(c, sw) = {x}
    BY <1>3
  <2> QED
    BY <2>1, FS_Singleton, Zenon
<1>5. ASSUME NEW c \in ColRange, NEW d \in ColRange, NEW sw \in {0, 1}, NEW tw \in {0, 1}, <<c, sw>> # <<d, tw>>
      PROVE  ReportsTo(c, sw) \cap ReportsTo(d, tw) = {}
  <2>1. ~(NocOf(c) = NocOf(d) /\ L1IrqId(Gen, c, sw) = L1IrqId(Gen, d, tw))
    BY <1>1, <1>5, ChannelsDiffer DEF NetworkOn
  <2> QED
    BY <1>3, <2>1
<1> QED
  BY <1>2, <1>4, <1>5 DEF ErrorsReachTheirL2

\* When the error network is on, the errors of a module get down their own column,
\* and each L1 switch has one channel of one L2 controller to itself.
THEOREM ErrorsReachTheirL2Holds ==
    ASSUME ErrorChannelsSuffice, LastColumnsReport
    PROVE  Spec => []ErrorsReachTheirL2
<1> USE NetAssumption
<1>1. Init => Phase /\ Wired /\ Shaped
  BY PhaseInit DEF Init, Wired, Shaped
<1>2. IInv /\ Phase /\ Wired /\ Shaped /\ [Next]_vars => Phase' /\ Wired' /\ Shaped'
  BY PhaseStep, RoutesStep
<1>3. Phase /\ Wired /\ Shaped => ErrorsReachTheirL2
  BY ErrorsAreReported
<1> HIDE DEF Phase, Wired, Shaped, ErrorsReachTheirL2, IInv
<1> QED
  BY <1>1, <1>2, <1>3, Invariance, PTL DEF Spec
=============================================================================
