----------------------------- MODULE DeviceProofs ----------------------------
(* Theorems about DeviceGateway, for any set of executions and watchers, any *)
(* finite set of devices and any bounds, and about UnicodeInput, for any      *)
(* texts, any contents of the field and any number of faults.                *)
EXTENDS DeviceGateway, UnicodeInput, FiniteSetTheorems, TLAPS

-----------------------------------------------------------------------------
(* Types.                                                                    *)

LEMMA NeedNewType ==
  ASSUME NEW list
  PROVE  Cardinality(NeedNew(list)) \in Nat
<1>1. NeedNew(list) \subseteq Devices
  BY DEF NeedNew
<1>2. IsFiniteSet(NeedNew(list))
  BY <1>1, DevicesAssumption, FS_Subset
<1> QED
  BY <1>2, FS_CardinalityType

LEMMA IdleType == Idle \in CallerState /\ Idle.pc = "idle"
BY BoundAssumption DEF Idle, CallerState, Pc, NoList, Listing, Link, Connection

\* What applying a list does to the state of one device.
LEMMA ApplyOne ==
  ASSUME TrackerType, NEW list \in Listing, Apply(list), NEW d \in Devices
  PROVE  /\ state' = [e \in Devices |-> state'[e]]
         /\ minted' \in Nat /\ minted <= minted'
         /\ list[d] = "absent" => state'[d] = [state[d] EXCEPT !.present = FALSE]
         /\ list[d] # "absent" =>
              /\ state'[d].connection = list[d] /\ state'[d].present
              /\ list[d] # "online" => state'[d].session = 0
              /\ list[d] = "online" /\ KeepsSession(d) =>
                   state'[d].session = state[d].session
              /\ list[d] = "online" /\ ~KeepsSession(d) =>
                   state'[d].session \in (minted + 1)..minted'
         /\ state'[d] \in DeviceState
<1> DEFINE k == Cardinality(NeedNew(list))
<1>1. k \in Nat
  BY NeedNewType
<1>2. PICK fresh \in [NeedNew(list) -> (minted + 1)..(minted + k)] :
        /\ minted' = minted + k
        /\ state' = [e \in Devices |->
             IF list[e] = "absent"
             THEN [state[e] EXCEPT !.present = FALSE]
             ELSE [connection |-> list[e],
                   session |-> IF e \in NeedNew(list) THEN fresh[e]
                               ELSE IF list[e] = "online" THEN state[e].session
                               ELSE 0,
                   present |-> TRUE]]
  BY DEF Apply
<1>3. minted' \in Nat /\ minted <= minted'
  BY <1>1, <1>2 DEF TrackerType
<1>4. d \in NeedNew(list) => fresh[d] \in (minted + 1)..minted'
  BY <1>2
<1>5. state[d] \in DeviceState /\ list[d] \in Link
  BY DEF TrackerType, Listing
<1>6. state'[d] = IF list[d] = "absent"
                  THEN [state[d] EXCEPT !.present = FALSE]
                  ELSE [connection |-> list[d],
                        session |-> IF d \in NeedNew(list) THEN fresh[d]
                                    ELSE IF list[d] = "online" THEN state[d].session
                                    ELSE 0,
                        present |-> TRUE]
  BY <1>2
<1>7. d \in NeedNew(list) <=> list[d] = "online" /\ ~KeepsSession(d)
  BY DEF NeedNew
<1>8. state'[d] \in DeviceState
  <2>1. CASE list[d] = "absent"
    BY <1>5, <1>6, <2>1 DEF DeviceState
  <2>2. CASE list[d] # "absent"
    <3>1. d \in NeedNew(list) => fresh[d] \in Nat
      BY <1>3, <1>4 DEF TrackerType
    <3> QED
      BY <1>5, <1>6, <2>2, <3>1 DEF DeviceState
  <2> QED
    BY <2>1, <2>2
<1>9. state' = [e \in Devices |-> state'[e]]
  BY <1>2
<1> HIDE DEF k
<1> QED
  BY <1>3, <1>4, <1>6, <1>7, <1>8, <1>9

LEMMA ApplyKeepsType ==
  ASSUME TrackerType, NEW list \in Listing, Apply(list)
  PROVE  TrackerType'
<1>1. minted' \in Nat
  <2>1. PICK fresh : minted' = minted + Cardinality(NeedNew(list))
    BY DEF Apply
  <2> QED
    BY <2>1, NeedNewType DEF TrackerType
<1>2. \A d \in Devices : state'[d] \in DeviceState
  BY ApplyOne
<1>3. state' = [e \in Devices |-> state'[e]]
  BY DEF Apply
<1> QED
  BY <1>1, <1>2, <1>3 DEF TrackerType

\* An execution that moves on, keeping its device.
LEMMA GotoKeepsType ==
  ASSUME CallerType, NEW p \in Callers, caller[p].pc # "idle",
         NEW place \in Pc, Goto(p, place)
  PROVE  CallerType'
BY DEF CallerType, CallerState, Goto

LEMMA LeaveKeepsType ==
  ASSUME CallerType, NEW p \in Callers, Leave(p)
  PROVE  CallerType'
BY IdleType DEF CallerType, Leave

LEMMA InitType == Init => TypeOK
<1> SUFFICES ASSUME Init PROVE TypeOK
  OBVIOUS
<1>1. WorldType
  BY BoundAssumption DEF Init, WorldType, Listing, Link
<1>2. TrackerType
  BY DEF Init, TrackerType, Unknown, DeviceState, Link
<1>3. CallerType
  BY IdleType DEF Init, CallerType
<1> QED
  BY <1>1, <1>2, <1>3, BoundAssumption DEF Init, TypeOK

LEMMA SpendType ==
  ASSUME TypeOK
  PROVE  /\ Spend("links", MaxLinks) =>
              /\ budget' \in [links : 0..MaxLinks, calls : 0..MaxCalls,
                              lists : 0..MaxLists]
              /\ budget'.links = budget.links + 1
         /\ Spend("calls", MaxCalls) \/ Spend("lists", MaxLists) =>
              /\ budget' \in [links : 0..MaxLinks, calls : 0..MaxCalls,
                              lists : 0..MaxLists]
              /\ budget'.links = budget.links
BY BoundAssumption DEF TypeOK, Spend

LEMMA ExecuteKeepsType ==
  ASSUME TypeOK, NEW p \in Callers, Execute(p)
  PROVE  TypeOK'
<1>1. CallerType /\ TrackerType /\ WorldType
  BY DEF TypeOK
<1>2. caller[p] \in CallerState
  BY <1>1 DEF CallerType
<1>3. caller[p].pc # "idle" => caller[p].device \in Devices
  BY <1>1 DEF CallerType
<1>4. link \in Listing /\ caller[p].list \in Listing /\ NoList \in Listing
  BY <1>1, <1>2 DEF WorldType, CallerState, NoList, Listing, Link
<1>5. ASSUME NEW d \in Devices, Begin(p, d)
      PROVE  TypeOK'
  <2>1. budget'.links = budget.links
    BY <1>5, SpendType DEF Begin
  <2>2. epoch[d] \in 0..MaxLinks
    BY <1>1, BoundAssumption DEF WorldType, TypeOK
  <2>3. CallerType'
    BY <1>1, <1>4, <1>5, <2>2 DEF Begin, CallerType, CallerState, Pc
  <2>4. WorldType' /\ TrackerType'
    BY <1>1, <1>5, <2>1 DEF Begin, world, tracker, WorldType, TrackerType
  <2> QED
    BY <1>5, <2>3, <2>4, SpendType DEF Begin, TypeOK
<1>6. CASE Require(p)
  <2>1. caller[p].pc = "require" /\ caller[p].device \in Devices
    BY <1>3, <1>6 DEF Require, At
  <2>2. TrackerType'
    BY <1>1, <1>4, <1>6, ApplyKeepsType DEF Require
  <2>3. state'[caller[p].device].session \in Nat
    BY <2>1, <2>2 DEF TrackerType, DeviceState
  <2>4. CASE Leave(p)
    BY <1>1, <1>6, <2>2, <2>4, LeaveKeepsType DEF Require, TypeOK, world, WorldType
  <2>5. CASE caller' = [caller EXCEPT ![p].pc = "hold", ![p].list = NoList,
                          ![p].session = state'[caller[p].device].session]
    <3>1. CallerType'
      BY <1>1, <1>2, <1>4, <2>1, <2>3, <2>5 DEF CallerType, CallerState, Pc
    <3> QED
      BY <1>1, <1>6, <2>2, <3>1 DEF Require, TypeOK, world, WorldType
  <2> QED
    BY <1>6, <2>4, <2>5 DEF Require
<1>7. CASE Hold(p)
  <2>1. caller[p].pc = "hold" /\ caller[p].device \in Devices
    BY <1>3, <1>7 DEF Hold, At
  <2>2. CallerType'
    BY <1>1, <1>7, <2>1, GotoKeepsType, LeaveKeepsType DEF Hold, Pc
  <2> QED
    BY <1>1, <1>7, <2>1, <2>2
    DEF Hold, TypeOK, world, tracker, WorldType, TrackerType
<1>8. CASE ValidateFetch(p)
  <2>1. caller[p].pc = "bound"
    BY <1>8 DEF ValidateFetch, Fetch, At
  <2>2. CallerType'
    BY <1>1, <1>4, <1>8, <2>1 DEF ValidateFetch, Fetch, CallerType, CallerState, Pc
  <2> QED
    BY <1>1, <1>8, <2>2
    DEF ValidateFetch, TypeOK, world, tracker, WorldType, TrackerType
<1>9. CASE Validate(p)
  <2>1. caller[p].pc = "validate" /\ caller[p].device \in Devices
    BY <1>3, <1>9 DEF Validate, At
  <2>2. TrackerType'
    BY <1>1, <1>4, <1>9, ApplyKeepsType DEF Validate
  <2>3. CallerType'
    BY <1>1, <1>4, <1>9, <2>1 DEF Validate, CallerType, CallerState, Pc
  <2> QED
    BY <1>1, <1>9, <2>2, <2>3 DEF Validate, TypeOK, world, WorldType
<1>10. CASE Write(p) \/ Finish(p)
  <2>1. /\ caller[p].pc # "idle"
        /\ Goto(p, "bound") \/ Goto(p, "leave")
        /\ UNCHANGED <<world, tracker, lease, watcher, budget>>
    BY <1>10 DEF Write, Finish, At
  <2>2. CallerType'
    BY <1>1, <2>1, GotoKeepsType DEF Pc
  <2>3. late' \in [Callers -> Nat]
    BY <1>10 DEF Write, Finish, TypeOK
  <2> QED
    BY <1>1, <2>1, <2>2, <2>3
    DEF TypeOK, world, tracker, WorldType, TrackerType
<1>11. CASE Release(p)
  <2>1. lease' \in [Devices -> Callers \cup {None}]
    BY <1>11 DEF Release, LeaseReleased, TypeOK
  <2>2. CallerType'
    BY <1>1, <1>11, LeaveKeepsType DEF Release
  <2> QED
    BY <1>1, <1>11, <2>1, <2>2
    DEF Release, TypeOK, world, tracker, WorldType, TrackerType
<1> QED
  BY <1>5, <1>6, <1>7, <1>8, <1>9, <1>10, <1>11 DEF Execute

LEMMA StepKeepsType == TypeOK /\ [Next]_vars => TypeOK'
<1> SUFFICES ASSUME TypeOK, [Next]_vars PROVE TypeOK'
  OBVIOUS
<1>1. CallerType /\ TrackerType /\ WorldType
  BY DEF TypeOK
<1>2. CASE \E p \in Callers : Execute(p)
  BY <1>2, ExecuteKeepsType
<1>3. ASSUME NEW w \in Watchers, WatchFetch(w)
      PROVE  TypeOK'
  BY <1>1, <1>3, SpendType
  DEF WatchFetch, TypeOK, world, tracker, WorldType, TrackerType, CallerType
<1>4. ASSUME NEW w \in Watchers, WatchApply(w)
      PROVE  TypeOK'
  <2>1. watcher[w] \in Listing
    BY <1>4 DEF WatchApply, TypeOK
  <2>2. TrackerType'
    BY <1>1, <1>4, <2>1, ApplyKeepsType DEF WatchApply
  <2> QED
    BY <1>1, <1>4, <2>2 DEF WatchApply, TypeOK, world, WorldType, CallerType
<1>5. ASSUME NEW d \in Devices, Connect(d)
      PROVE  TypeOK'
  <2>1. budget'.links = budget.links + 1
    BY <1>5, SpendType DEF Connect
  <2>2. link' \in Listing
    BY <1>1, <1>5 DEF Connect, WorldType, Listing, Link, Connection
  <2>3. epoch' \in [Devices -> 0..budget'.links]
    BY <1>1, <1>5, <2>1 DEF Connect, WorldType, TypeOK
  <2> QED
    BY <1>1, <1>5, <2>2, <2>3, SpendType
    DEF Connect, TypeOK, tracker, WorldType, TrackerType, CallerType
<1>6. ASSUME NEW d \in Devices, NEW l \in Link, Disconnect(d, l)
      PROVE  TypeOK'
  <2>1. budget'.links = budget.links + 1
    BY <1>6, SpendType DEF Disconnect
  <2>2. link' \in Listing
    BY <1>1, <1>6 DEF Disconnect, WorldType, Listing
  <2>3. epoch' \in [Devices -> 0..budget'.links]
    BY <1>1, <1>6, <2>1 DEF Disconnect, WorldType, TypeOK
  <2> QED
    BY <1>1, <1>6, <2>2, <2>3, SpendType
    DEF Disconnect, TypeOK, tracker, WorldType, TrackerType, CallerType
<1>7. CASE UNCHANGED vars
  BY <1>1, <1>7 DEF vars, TypeOK, WorldType, TrackerType, CallerType
<1> QED
  BY <1>2, <1>3, <1>4, <1>5, <1>6, <1>7 DEF Next

THEOREM TypeCorrect == Spec => []TypeOK
  BY InitType, StepKeepsType, PTL DEF Spec
-----------------------------------------------------------------------------
(* Leases.                                                                   *)

\* An execution that takes no lease and gives none back.
LEMMA LeaseFrame ==
  ASSUME TypeOK, LeaseMatchesHolder, UNCHANGED lease,
         \A p \in Callers :
           /\ caller'[p].pc \in Holding <=> caller[p].pc \in Holding
           /\ caller[p].pc \in Holding => caller'[p].device = caller[p].device
  PROVE  LeaseMatchesHolder'
BY DEF LeaseMatchesHolder

LEMMA StepKeepsLease == TypeOK /\ LeaseMatchesHolder /\ [Next]_vars => LeaseMatchesHolder'
<1> SUFFICES ASSUME TypeOK, LeaseMatchesHolder, [Next]_vars
             PROVE  LeaseMatchesHolder'
  OBVIOUS
<1>1. caller \in [Callers -> CallerState]
  BY DEF TypeOK, CallerType
<1>2. ASSUME NEW p \in Callers, Hold(p)
      PROVE  LeaseMatchesHolder'
  <2>1. caller[p].pc = "hold" /\ caller[p].device \in Devices
    BY <1>2 DEF Hold, At, TypeOK, CallerType
  <2>2. CASE Free(caller[p].device)
    <3>1. lease' = [lease EXCEPT ![caller[p].device] = p] /\ Goto(p, "bound")
      BY <1>2, <2>2 DEF Hold
    <3>2. lease[caller[p].device] = None
      BY <2>2 DEF Free
    <3>3. \A q \in Callers : /\ q # p => caller'[q] = caller[q]
                            /\ caller'[p].device = caller[p].device
                            /\ caller'[p].pc = "bound"
      BY <1>1, <3>1 DEF Goto, CallerState
    <3>4. lease \in [Devices -> Callers \cup {None}]
      BY DEF TypeOK
    <3> QED
      BY <2>1, <3>1, <3>2, <3>3, <3>4, NoneAssumption
      DEF LeaseMatchesHolder, Holding
  <2>3. CASE ~Free(caller[p].device)
    <3>1. UNCHANGED lease /\ Leave(p)
      BY <1>2, <2>3 DEF Hold
    <3> QED
      BY <1>1, <2>1, <3>1, IdleType, LeaseFrame DEF Leave, Holding
  <2> QED
    BY <2>2, <2>3
<1>3. ASSUME NEW p \in Callers, Release(p)
      PROVE  LeaseMatchesHolder'
  <2>1. /\ caller[p].pc = "leave" /\ caller[p].device \in Devices
        /\ caller' = [caller EXCEPT ![p] = Idle]
        /\ lease' = LeaseReleased(p)
    BY <1>3 DEF Release, Leave, At, TypeOK, CallerType
  <2>2. lease[caller[p].device] = p
    BY <2>1 DEF LeaseMatchesHolder, Holding
  <2>3. lease' = [lease EXCEPT ![caller[p].device] = None]
    BY <2>1, <2>2 DEF LeaseReleased
  <2>4. caller'[p] = Idle /\ \A q \in Callers : q # p => caller'[q] = caller[q]
    BY <1>1, <2>1
  <2>5. lease \in [Devices -> Callers \cup {None}]
    BY DEF TypeOK
  <2> QED
    BY <2>1, <2>2, <2>3, <2>4, <2>5, IdleType, NoneAssumption
    DEF LeaseMatchesHolder, Holding
<1>4. ASSUME NEW p \in Callers, Execute(p), ~Hold(p), ~Release(p)
      PROVE  LeaseMatchesHolder'
  <2>1. CASE \E d \in Devices : Begin(p, d)
    BY <1>1, <2>1, LeaseFrame DEF Begin, At, Holding
  <2>2. CASE Require(p)
    <3>1. /\ caller[p].pc = "require"
          /\ \A q \in Callers : q # p => caller'[q] = caller[q]
          /\ caller'[p].pc \in {"idle", "hold"}
      BY <1>1, <2>2, IdleType DEF Require, At, Leave, CallerState
    <3> QED
      BY <2>2, <3>1, LeaseFrame DEF Require, Holding
  <2>3. CASE ValidateFetch(p) \/ Validate(p) \/ Write(p) \/ Finish(p)
    <3>1. /\ caller[p].pc \in Holding /\ caller'[p].pc \in Holding
          /\ caller'[p].device = caller[p].device
          /\ \A q \in Callers : q # p => caller'[q] = caller[q]
      BY <1>1, <2>3
      DEF ValidateFetch, Fetch, Validate, Write, Finish, Goto, At, Holding,
          CallerState
    <3> QED
      BY <2>3, <3>1, LeaseFrame DEF ValidateFetch, Validate, Write, Finish
  <2> QED
    BY <1>4, <2>1, <2>2, <2>3 DEF Execute
<1>5. CASE UNCHANGED <<lease, caller>>
  BY <1>5, LeaseFrame
<1> QED
  BY <1>2, <1>3, <1>4, <1>5
  DEF Next, WatchFetch, WatchApply, Connect, Disconnect, vars

\* A lease is in the table exactly while its holder is inside.
THEOREM LeasesMatchHolders == Spec => []LeaseMatchesHolder
<1>1. Init => LeaseMatchesHolder
  BY NoneAssumption, IdleType DEF Init, LeaseMatchesHolder, Holding
<1> QED
  BY <1>1, StepKeepsLease, TypeCorrect, PTL DEF Spec

\* At most one execution at a time is inside the lease of a device.
THEOREM DeviceExclusive == Spec => []Exclusive
<1>1. TypeOK /\ LeaseMatchesHolder => Exclusive
  BY DEF TypeOK, CallerType, LeaseMatchesHolder, Exclusive, Holding
<1> QED
  BY <1>1, TypeCorrect, LeasesMatchHolders, PTL
-----------------------------------------------------------------------------
(* Sessions.                                                                 *)

\* A session is either still vouched for or gone: lists only mint new ones.
LEMMA ApplyRevokes ==
  ASSUME TrackerType, NEW list \in Listing, Apply(list), NEW d \in Devices
  PROVE  \/ Vouched(state'[d]) \in {0, Vouched(state[d])}
         \/ Vouched(state'[d]) > minted
<1>1. state[d] \in DeviceState /\ state'[d] \in DeviceState /\ list[d] \in Link
  BY ApplyOne DEF TrackerType, Listing
<1>2. CASE list[d] = "absent"
  <2>1. state'[d] = [state[d] EXCEPT !.present = FALSE]
    BY <1>2, ApplyOne
  <2>2. ~state'[d].present
    BY <1>1, <2>1 DEF DeviceState
  <2> QED
    BY <2>2 DEF Vouched
<1>3. CASE list[d] = "offline"
  BY <1>1, <1>3, ApplyOne DEF Vouched
<1>4. CASE list[d] = "online" /\ KeepsSession(d)
  BY <1>1, <1>4, ApplyOne DEF Vouched, KeepsSession
<1>5. CASE list[d] = "online" /\ ~KeepsSession(d)
  <2>1. state'[d].session \in (minted + 1)..minted'
    BY <1>5, ApplyOne
  <2>2. Vouched(state'[d]) = state'[d].session
    BY <1>5, ApplyOne DEF Vouched
  <2> QED
    BY <2>1, <2>2 DEF TrackerType
<1> QED
  BY <1>1, <1>2, <1>3, <1>4, <1>5 DEF Link, Connection

\* The lists that are applied are lists.
LEMMA TrackerStep ==
  ASSUME TypeOK, [Next]_vars
  PROVE  UNCHANGED tracker \/ \E list \in Listing : Apply(list)
<1>1. \A p \in Callers : caller[p].list \in Listing
  BY DEF TypeOK, CallerType, CallerState
<1>2. \A w \in Watchers : watcher[w] # None => watcher[w] \in Listing
  BY DEF TypeOK
<1>3. ASSUME NEW p \in Callers, Execute(p)
      PROVE  UNCHANGED tracker \/ \E list \in Listing : Apply(list)
  BY <1>1, <1>3 DEF Execute, Begin, Require, Hold, ValidateFetch, Validate, Write,
                    Finish, Release
<1>4. ASSUME NEW w \in Watchers, WatchFetch(w) \/ WatchApply(w)
      PROVE  UNCHANGED tracker \/ \E list \in Listing : Apply(list)
  BY <1>2, <1>4 DEF WatchFetch, WatchApply
<1>5. ASSUME NEW d \in Devices, Connect(d) \/ \E l \in Link : Disconnect(d, l)
      PROVE  UNCHANGED tracker
  BY <1>5 DEF Connect, Disconnect
<1>6. CASE UNCHANGED vars
  BY <1>6 DEF vars, tracker
<1> QED
  BY <1>3, <1>4, <1>5, <1>6 DEF Next

LEMMA StepRevokes ==
  ASSUME TypeOK, [Next]_vars, NEW d \in Devices
  PROVE  \/ Vouched(state'[d]) \in {0, Vouched(state[d])}
         \/ Vouched(state'[d]) > minted
<1>1. CASE UNCHANGED tracker
  BY <1>1 DEF tracker
<1>2. CASE \E list \in Listing : Apply(list)
  BY <1>2, ApplyRevokes DEF TypeOK
<1> QED
  BY <1>1, <1>2, TrackerStep

\* A revoked session never comes back, in whatever order lists are applied.
THEOREM SessionsRevokedForEver == Spec => RevokedForEver
<1>1. TypeOK /\ [Next]_vars =>
        [\A d \in Devices : Vouched(state'[d]) \in {0, Vouched(state[d])}
                             \/ Vouched(state'[d]) > minted]_vars
  BY StepRevokes
<1> QED
  BY <1>1, TypeCorrect, PTL DEF Spec, RevokedForEver
-----------------------------------------------------------------------------
(* Late writes.                                                              *)

\* Session ids in use were minted, and 0 is no session.
SessionInv ==
  /\ \A d \in Devices :
       /\ state[d].session <= minted
       /\ state[d].connection = "online" => state[d].session # 0
  /\ \A p \in Callers :
       /\ caller[p].session <= minted
       /\ caller[p].pc \in Holding \cup {"hold"} => caller[p].session # 0

\* AtMostOneLateWrite alone is not inductive: an execution that made its late
\* write must also be known to fail its next check.
LateInv ==
  \A p \in Callers :
    \/ late[p] = 0
    \/ /\ late[p] = 1
       /\ caller[p].pc \in {"bound", "validate", "leave"}
       /\ Revoked(p)

\* Where the session of an execution comes from in one step.
LEMMA SessionStep ==
  ASSUME TypeOK, [Next]_vars, NEW p \in Callers
  PROVE  \/ /\ caller'[p].session = caller[p].session
            /\ caller'[p].pc \in Holding \cup {"hold"} =>
                 caller[p].pc \in Holding \cup {"hold"}
         \/ caller'[p].session = 0 /\ caller'[p].pc \notin Holding \cup {"hold"}
         \/ /\ caller[p].pc = "require" /\ Apply(caller[p].list)
            /\ caller[p].list[caller[p].device] = "online"
            /\ caller'[p].session = state'[caller[p].device].session
<1>1. caller \in [Callers -> CallerState]
  BY DEF TypeOK, CallerType
<1>2. ASSUME NEW q \in Callers, q # p, Execute(q)
      PROVE  caller'[p] = caller[p]
  BY <1>1, <1>2
  DEF Execute, Begin, Require, Hold, ValidateFetch, Fetch, Validate, Write, Finish,
      Release, Goto, Leave
<1>3. CASE \E d \in Devices : Begin(p, d)
  BY <1>1, <1>3 DEF Begin, Holding
<1>4. CASE Require(p)
  BY <1>1, <1>4, IdleType DEF Require, At, Leave, Idle, Holding, CallerState
<1>5. CASE Hold(p)
  BY <1>1, <1>5 DEF Hold, At, Goto, Leave, Idle, Holding, CallerState
<1>6. CASE ValidateFetch(p) \/ Validate(p) \/ Write(p) \/ Finish(p)
  BY <1>1, <1>6
  DEF ValidateFetch, Fetch, Validate, Write, Finish, At, Goto, Holding, CallerState
<1>7. CASE Release(p)
  BY <1>1, <1>7 DEF Release, Leave, Idle, Holding
<1>8. CASE UNCHANGED caller
  BY <1>8
<1> QED
  BY <1>2, <1>3, <1>4, <1>5, <1>6, <1>7, <1>8
  DEF Next, Execute, WatchFetch, WatchApply, Connect, Disconnect, vars

\* Applying a list keeps the ids of the tracker below minted.
LEMMA ApplyKeepsIds ==
  ASSUME TypeOK, SessionInv, NEW list \in Listing, Apply(list), NEW d \in Devices
  PROVE  /\ state'[d].session <= minted'
         /\ state'[d].connection = "online" => state'[d].session # 0
<1>1. /\ TrackerType /\ state[d] \in DeviceState /\ minted \in Nat
      /\ state'[d] \in DeviceState /\ minted' \in Nat /\ minted <= minted'
      /\ list[d] \in Link
  BY ApplyOne DEF TypeOK, TrackerType, Listing
<1>2. /\ state[d].session <= minted /\ state[d].session \in Nat
      /\ state[d].connection = "online" => state[d].session # 0
  BY <1>1 DEF SessionInv, DeviceState
<1>3. CASE list[d] = "absent"
  <2>1. state'[d] = [state[d] EXCEPT !.present = FALSE]
    BY <1>1, <1>3, ApplyOne
  <2>2. /\ state'[d].session = state[d].session
        /\ state'[d].connection = state[d].connection
    BY <1>1, <2>1 DEF DeviceState
  <2> QED
    BY <1>1, <1>2, <2>2
<1>4. CASE list[d] = "offline"
  <2>1. state'[d].session = 0 /\ state'[d].connection = "offline"
    BY <1>1, <1>4, ApplyOne
  <2> QED
    BY <1>1, <2>1
<1>5. CASE list[d] = "online" /\ KeepsSession(d)
  <2>1. state'[d].session = state[d].session /\ state[d].connection = "online"
    BY <1>1, <1>5, ApplyOne DEF KeepsSession
  <2> QED
    BY <1>1, <1>2, <2>1
<1>6. CASE list[d] = "online" /\ ~KeepsSession(d)
  <2>1. state'[d].session \in (minted + 1)..minted'
    BY <1>1, <1>6, ApplyOne
  <2> QED
    BY <1>1, <2>1
<1> QED
  BY <1>1, <1>3, <1>4, <1>5, <1>6 DEF Link, Connection

LEMMA StepKeepsSessions == TypeOK /\ SessionInv /\ [Next]_vars => SessionInv'
<1> SUFFICES ASSUME TypeOK, SessionInv, [Next]_vars PROVE SessionInv'
  OBVIOUS
<1>1. minted \in Nat /\ minted' \in Nat /\ minted <= minted'
  <2>1. minted \in Nat /\ TrackerType
    BY DEF TypeOK, TrackerType
  <2>2. CASE UNCHANGED tracker
    BY <2>1, <2>2 DEF tracker
  <2>3. ASSUME NEW list \in Listing, Apply(list)
        PROVE  minted' \in Nat /\ minted <= minted'
    <3>1. PICK fresh : minted' = minted + Cardinality(NeedNew(list))
      BY <2>3 DEF Apply
    <3> QED
      BY <2>1, <3>1, NeedNewType
  <2> QED
    BY <2>1, <2>2, <2>3, TrackerStep
<1>2. ASSUME NEW d \in Devices
      PROVE  /\ state'[d].session <= minted'
             /\ state'[d].connection = "online" => state'[d].session # 0
  <2>1. CASE UNCHANGED tracker
    BY <2>1 DEF tracker, SessionInv
  <2> QED
    BY <2>1, ApplyKeepsIds, TrackerStep
<1>3. ASSUME NEW p \in Callers
      PROVE  /\ caller'[p].session <= minted'
             /\ caller'[p].pc \in Holding \cup {"hold"} => caller'[p].session # 0
  <2>1. caller[p] \in CallerState /\ caller[p].session \in Nat
    BY DEF TypeOK, CallerType, CallerState
  <2>2. CASE /\ caller[p].pc = "require" /\ Apply(caller[p].list)
             /\ caller[p].list[caller[p].device] = "online"
             /\ caller'[p].session = state'[caller[p].device].session
    <3>1. caller[p].device \in Devices /\ caller[p].list \in Listing
      BY <2>1, <2>2 DEF TypeOK, CallerType, CallerState
    <3>2. state'[caller[p].device].connection = "online"
      BY <2>2, <3>1, ApplyOne DEF TypeOK
    <3> QED
      BY <1>2, <2>2, <3>1, <3>2
  <2>3. caller[p].session <= minted'
    BY <1>1, <2>1 DEF SessionInv
  <2> QED
    BY <1>1, <2>1, <2>2, <2>3, SessionStep DEF SessionInv
<1> QED
  BY <1>2, <1>3 DEF SessionInv

\* The session of an execution inside its lease, once revoked, stays revoked.
LEMMA RevokedKept ==
  ASSUME TypeOK, SessionInv, [Next]_vars, NEW p \in Callers,
         caller[p].pc \in Holding, Revoked(p),
         caller'[p].device = caller[p].device,
         caller'[p].session = caller[p].session
  PROVE  Revoked(p)'
<1> DEFINE d == caller[p].device
           s == caller[p].session
<1>1. d \in Devices /\ s \in Nat /\ s # 0 /\ s <= minted /\ minted \in Nat
  BY DEF TypeOK, CallerType, CallerState, TrackerType, SessionInv, Holding
<1>2. Vouched(state[d]) # s
  BY <1>1 DEF Revoked, Vouched
<1>3. Vouched(state'[d]) # s
  BY <1>1, <1>2, StepRevokes
<1>4. ~(state'[d].present /\ state'[d].connection = "online"
        /\ state'[d].session = s)
  BY <1>3 DEF Vouched
<1> QED
  BY <1>4 DEF Revoked

LEMMA LateFrame ==
  ASSUME TypeOK, SessionInv, LateInv, [Next]_vars, NEW p \in Callers,
         UNCHANGED late, caller'[p].device = caller[p].device,
         caller'[p].session = caller[p].session,
         \/ caller'[p].pc = caller[p].pc
         \/ caller'[p].pc \in {"bound", "validate", "leave"}
  PROVE  \/ late'[p] = 0
         \/ /\ late'[p] = 1
            /\ caller'[p].pc \in {"bound", "validate", "leave"}
            /\ Revoked(p)'
<1>1. CASE late[p] = 0
  BY <1>1
<1>2. CASE late[p] # 0
  <2>1. /\ late[p] = 1 /\ Revoked(p)
        /\ caller[p].pc \in {"bound", "validate", "leave"}
    BY <1>2 DEF LateInv
  <2>2. Revoked(p)'
    BY <2>1, RevokedKept DEF Holding
  <2> QED
    BY <2>1, <2>2
<1> QED
  BY <1>1, <1>2

LEMMA StepKeepsLate ==
  TypeOK /\ SessionInv /\ LateInv /\ [Next]_vars => LateInv'
<1> SUFFICES ASSUME TypeOK, SessionInv, LateInv, [Next]_vars, NEW p \in Callers
             PROVE  \/ late'[p] = 0
                    \/ /\ late'[p] = 1
                       /\ caller'[p].pc \in {"bound", "validate", "leave"}
                       /\ Revoked(p)'
  BY DEF LateInv
<1>1. caller \in [Callers -> CallerState] /\ late \in [Callers -> Nat]
  BY DEF TypeOK, CallerType
<1>2. CASE late'[p] = late[p] /\ caller'[p] = caller[p]
  <2>1. CASE late[p] = 0
    BY <1>2, <2>1
  <2>2. CASE late[p] # 0
    <3>1. /\ late[p] = 1 /\ Revoked(p)
          /\ caller[p].pc \in {"bound", "validate", "leave"}
      BY <2>2 DEF LateInv
    <3>2. Revoked(p)'
      BY <1>2, <3>1, RevokedKept DEF Holding
    <3> QED
      BY <1>2, <3>1, <3>2
  <2> QED
    BY <2>1, <2>2
<1>3. ASSUME NEW q \in Callers, q # p, Execute(q)
      PROVE  late'[p] = late[p] /\ caller'[p] = caller[p]
  BY <1>1, <1>3
  DEF Execute, Begin, Require, Hold, ValidateFetch, Fetch, Validate, Write, Finish,
      Release, Goto, Leave
\* Before the lease there is no late write.
<1>4. ASSUME caller[p].pc \in {"idle", "require", "hold", "write"}
      PROVE  late[p] = 0
  BY <1>4 DEF LateInv
<1>5. CASE (\E d \in Devices : Begin(p, d)) \/ Require(p) \/ Hold(p)
  BY <1>4, <1>5 DEF Begin, Require, Hold, At
<1>6. CASE ValidateFetch(p) \/ Finish(p)
  <2>1. /\ UNCHANGED late /\ caller'[p].device = caller[p].device
        /\ caller'[p].session = caller[p].session
        /\ caller'[p].pc \in {"validate", "leave"}
    BY <1>1, <1>6 DEF ValidateFetch, Fetch, Finish, Goto, CallerState
  <2> QED
    BY <2>1, LateFrame
<1>7. CASE Validate(p)
  <2>1. /\ caller[p].pc = "validate" /\ UNCHANGED late
        /\ caller'[p].device = caller[p].device
        /\ caller'[p].session = caller[p].session
        /\ caller'[p].pc = IF StillBound(p) THEN "write" ELSE "leave"
    BY <1>1, <1>7 DEF Validate, At, CallerState
  <2>2. CASE ~StillBound(p)
    BY <2>1, <2>2, LateFrame
  <2>3. CASE StillBound(p)
    <3>1. caller[p].device \in Devices /\ caller[p].list \in Listing
      BY <1>1, <2>1 DEF TypeOK, CallerType, CallerState
    <3>2. /\ state'[caller[p].device].connection = "online"
          /\ state'[caller[p].device].present
      BY <1>7, <2>3, <3>1, ApplyOne DEF Validate, StillBound, TypeOK
    <3>3. ~Revoked(p)'
      BY <2>1, <2>3, <3>2 DEF Revoked, StillBound
    <3>4. ~Revoked(p)
      BY <2>1, <3>3, RevokedKept DEF Holding
    <3> QED
      BY <2>1, <3>4 DEF LateInv
  <2> QED
    BY <2>2, <2>3
<1>8. CASE Write(p)
  <2>1. caller[p].pc = "write" /\ late[p] = 0 /\ UNCHANGED state
    BY <1>4, <1>8 DEF Write, At, tracker
  <2>2. CASE UNCHANGED late
    BY <2>1, <2>2
  <2>3. CASE /\ Goto(p, "bound")
             /\ late' = [late EXCEPT ![p] = @ + IF Revoked(p) THEN 1 ELSE 0]
    <3>1. caller'[p].pc = "bound" /\ (Revoked(p)' <=> Revoked(p))
      BY <1>1, <2>1, <2>3 DEF Goto, Revoked, CallerState
    <3>2. late'[p] = IF Revoked(p) THEN 1 ELSE 0
      BY <1>1, <2>1, <2>3
    <3> QED
      BY <3>1, <3>2
  <2> QED
    BY <1>8, <2>2, <2>3 DEF Write
<1>9. CASE Release(p)
  BY <1>1, <1>9 DEF Release
<1>10. CASE UNCHANGED <<caller, late>>
  BY <1>2, <1>10
<1> QED
  BY <1>2, <1>3, <1>5, <1>6, <1>7, <1>8, <1>9, <1>10
  DEF Next, Execute, WatchFetch, WatchApply, Connect, Disconnect, vars

\* After the tracker revoked its session an execution completes at most the one
\* write that had already passed its check.
THEOREM LateWritesBounded == Spec => []AtMostOneLateWrite
<1>1. Init => SessionInv /\ LateInv
  BY IdleType
  DEF Init, SessionInv, LateInv, Unknown, Idle, Holding
<1>2. TypeOK /\ SessionInv /\ LateInv /\ [Next]_vars => SessionInv' /\ LateInv'
  BY StepKeepsSessions, StepKeepsLate
<1>3. LateInv => AtMostOneLateWrite
  BY DEF LateInv, AtMostOneLateWrite
<1> QED
  BY <1>1, <1>2, <1>3, TypeCorrect, PTL DEF Spec
-----------------------------------------------------------------------------
(* One session, one device.                                                  *)

\* A list gives every device it finds again an id of its own, above all others.
LEMMA ApplyKeepsDistinct ==
  ASSUME TypeOK, SessionInv, SessionsDistinct, NEW list \in Listing, Apply(list),
         NEW d \in Devices, NEW e \in Devices,
         state'[d].session = state'[e].session, state'[d].session # 0
  PROVE  d = e
<1> DEFINE k == Cardinality(NeedNew(list))
           Fresh(x) == x \in NeedNew(list)
<1>1. k \in Nat /\ minted \in Nat
  BY NeedNewType DEF TypeOK, TrackerType
<1>2. PICK fresh \in [NeedNew(list) -> (minted + 1)..(minted + k)] :
        /\ DistinctIds(fresh)
        /\ state' = [x \in Devices |->
             IF list[x] = "absent"
             THEN [state[x] EXCEPT !.present = FALSE]
             ELSE [connection |-> list[x],
                   session |-> IF x \in NeedNew(list) THEN fresh[x]
                               ELSE IF list[x] = "online" THEN state[x].session
                               ELSE 0,
                   present |-> TRUE]]
  BY DEF Apply
<1> HIDE DEF k
<1>3. ASSUME NEW x \in Devices
      PROVE  /\ state[x].session \in Nat /\ state[x].session <= minted
             /\ Fresh(x) => state'[x].session = fresh[x] /\ fresh[x] > minted
             /\ ~Fresh(x) => state'[x].session \in {0, state[x].session}
  <2>1. state[x] \in DeviceState /\ state[x].session <= minted
    BY DEF TypeOK, TrackerType, SessionInv
  <2>2. Fresh(x) => list[x] = "online"
    BY DEF NeedNew
  <2>3. Fresh(x) => state'[x].session = fresh[x] /\ fresh[x] > minted
    BY <1>1, <1>2, <2>2
  <2>4. ~Fresh(x) => state'[x].session \in {0, state[x].session}
    BY <1>2, <2>1 DEF DeviceState
  <2> QED
    BY <2>1, <2>3, <2>4 DEF DeviceState
<1>4. CASE Fresh(d) /\ Fresh(e)
  BY <1>2, <1>3, <1>4 DEF DistinctIds
<1>5. CASE Fresh(d) # Fresh(e)
  BY <1>1, <1>3, <1>5
<1>6. CASE ~Fresh(d) /\ ~Fresh(e)
  BY <1>3, <1>6 DEF SessionsDistinct
<1> QED
  BY <1>4, <1>5, <1>6

LEMMA StepKeepsDistinct ==
  TypeOK /\ SessionInv /\ SessionsDistinct /\ [Next]_vars => SessionsDistinct'
<1> SUFFICES ASSUME TypeOK, SessionInv, SessionsDistinct, [Next]_vars
             PROVE  SessionsDistinct'
  OBVIOUS
<1>1. CASE UNCHANGED tracker
  BY <1>1 DEF tracker, SessionsDistinct
<1>2. ASSUME NEW list \in Listing, Apply(list) PROVE SessionsDistinct'
  BY <1>2, ApplyKeepsDistinct DEF SessionsDistinct
<1> QED
  BY <1>1, <1>2, TrackerStep

\* A session id names one device, however many lists mint ids and in whatever order
\* they are applied (SessionTrackingDeviceAdapter.list_devices).
THEOREM SessionsNameDevices == Spec => []SessionsDistinct
<1>1. Init => SessionInv /\ SessionsDistinct
  BY IdleType
  DEF Init, SessionInv, SessionsDistinct, Unknown, Idle, Holding
<1>2. TypeOK /\ SessionInv /\ [Next]_vars => SessionInv'
  BY StepKeepsSessions
<1> QED
  BY <1>1, <1>2, StepKeepsDistinct, TypeCorrect, PTL DEF Spec
-----------------------------------------------------------------------------
(* UnicodeInput: the inductive invariant.  It says nothing of what the keys  *)
(* and the field hold - that the decoder undoes the encoder is an induction   *)
(* over the text - but when they can change.                                 *)

\* The places in execute() before the first injection.
Untyped == {"validate", "resolve", "before", "previous", "enable", "set", "check",
            "tap", "type"}

\* How often the text was sent.
Counted ==
  /\ typed \in 0..2
  /\ pc \in Untyped => typed = 0
  /\ pc = "typing" => typed \in {1, 2}
  /\ pc \in {"verify", "reread", "retype"} => typed = 1
  /\ pc = "last_verify" => typed = 2

\* A success is declared on a field that only a late key changes any more.
SuccessSettled ==
  result = "ok" =>
    /\ pc \in {"submit", "restore", "restore_check", "done"}
    /\ delayed \/ field = Expected

EnterAfterSuccess ==
  /\ pc = "submit" => result = "ok"
  /\ pc \notin {"restore", "restore_check", "done"} => entered = <<>>

InputInv ==
  /\ Counted /\ SuccessSettled /\ EnterAfterSuccess /\ RestoredOrReported

LEMMA InputInitially == InputInit => InputInv
BY DEF InputInit, InputInv, Counted, Untyped, SuccessSettled, EnterAfterSuccess,
       RestoredOrReported

\* What the finally block and the early returns have to keep: a call that ends
\* after an injection put the input method back or reports that it did not.
LEMMA StepRestores ==
  ASSUME InputInv, [InputNext]_inputVars
  PROVE  RestoredOrReported'
<1> USE DEF InputInv, RestoredOrReported
<1>1. ASSUME pc' # "done" PROVE RestoredOrReported'
  BY <1>1
<1>2. ASSUME pc \in Untyped, UNCHANGED typed PROVE RestoredOrReported'
  BY <1>2 DEF Counted
<1>3. ASSUME UNCHANGED <<pc, typed, ime, previous, result>>
      PROVE  RestoredOrReported'
  BY <1>3
<1>4. CASE ValidateText \/ ResolveHelper \/ LookBefore \/ ReadPrevious \/ EnableHelper
  BY <1>2, <1>4
  DEF ValidateText, ResolveHelper, LookBefore, ReadPrevious, EnableHelper, Untyped
<1>5. CASE SetHelper \/ CheckHelper \/ Tap
  BY <1>2, <1>5 DEF SetHelper, CheckHelper, Tap, Untyped
<1>6. CASE InputText \/ Typed \/ TypingFails
  BY <1>1, <1>6 DEF InputText, Typed, TypingFails, Fail
<1>7. CASE Verify
  BY <1>1, <1>7 DEF Verify, AfterVerified, Fail
<1>8. CASE Submit
  BY <1>1, <1>8 DEF Submit, Fail
<1>9. CASE RestoreSet
  BY <1>9 DEF RestoreSet, Reject
<1>10. CASE RestoreCheck
  BY <1>10 DEF RestoreCheck, Reject
<1>11. CASE Key \/ RestartInput \/ UNCHANGED inputVars
  BY <1>3, <1>11 DEF Key, RestartInput, inputVars
<1>12. CASE Bind
  BY <1>3, <1>12 DEF Bind
<1> QED
  BY <1>4, <1>5, <1>6, <1>7, <1>8, <1>9, <1>10, <1>11, <1>12
  DEF InputNext, Tool, Device

LEMMA StepCounts ==
  ASSUME InputInv, [InputNext]_inputVars
  PROVE  Counted'
<1> USE DEF InputInv, Counted, Untyped
<1>1. CASE ValidateText
  BY <1>1 DEF ValidateText, Reject
<1>2. CASE ResolveHelper \/ LookBefore \/ ReadPrevious
  BY <1>2 DEF ResolveHelper, LookBefore, ReadPrevious, Reject
<1>3. CASE EnableHelper \/ SetHelper \/ CheckHelper
  BY <1>3 DEF EnableHelper, SetHelper, CheckHelper, Reject
<1>4. CASE Tap
  BY <1>4 DEF Tap, Fail
<1>5. CASE InputText
  BY <1>5 DEF InputText
<1>6. CASE Typed \/ TypingFails
  BY <1>6 DEF Typed, TypingFails, Fail
<1>7. CASE Verify
  BY <1>7 DEF Verify, AfterVerified, Fail
<1>8. CASE Submit \/ RestoreSet \/ RestoreCheck
  BY <1>8 DEF Submit, RestoreSet, RestoreCheck, Fail, Reject
<1>9. CASE Key \/ Bind \/ RestartInput \/ UNCHANGED inputVars
  BY <1>9 DEF Key, Bind, RestartInput, inputVars
<1> QED
  BY <1>1, <1>2, <1>3, <1>4, <1>5, <1>6, <1>7, <1>8, <1>9 DEF InputNext, Tool, Device

\* The field and the reading that declared success.
LEMMA StepSettles ==
  ASSUME InputInv, [InputNext]_inputVars
  PROVE  SuccessSettled'
<1> USE DEF InputInv, SuccessSettled, Untyped
<1>1. ASSUME UNCHANGED <<call, before>> PROVE Expected' = Expected
  BY <1>1 DEF Expected
<1>2. CASE ValidateText
  BY <1>1, <1>2 DEF ValidateText, Reject
<1>3. CASE ResolveHelper \/ LookBefore \/ ReadPrevious
  BY <1>1, <1>3 DEF ResolveHelper, LookBefore, ReadPrevious, Reject
<1>4. CASE EnableHelper \/ SetHelper \/ CheckHelper
  BY <1>1, <1>4 DEF EnableHelper, SetHelper, CheckHelper, Reject
<1>5. CASE Tap \/ InputText
  BY <1>1, <1>5 DEF Tap, InputText, Fail
<1>6. CASE Typed \/ TypingFails
  BY <1>1, <1>6 DEF Typed, TypingFails, Fail
<1>7. CASE Verify
  <2>1. ASSUME NEW shown \in Shown, Verifies(shown), AfterVerified, result' = "ok"
        PROVE  pc' \in {"submit", "restore"} /\ field = Expected
    BY <2>1 DEF Verifies, AfterVerified
  <2>2. \/ result' = "ok" /\ pc' \in {"submit", "restore"} /\ field = Expected
        \/ UNCHANGED result /\ pc \notin {"submit", "restore", "restore_check", "done"}
        \/ result' # "ok"
    BY <1>7, <2>1 DEF Verify, Fail
  <2>3. UNCHANGED <<call, before, field>>
    BY <1>7 DEF Verify
  <2> QED
    BY <1>1, <2>2, <2>3
<1>8. CASE Submit
  BY <1>1, <1>8 DEF Submit, Fail
<1>9. CASE RestoreSet \/ RestoreCheck
  BY <1>1, <1>9 DEF RestoreSet, RestoreCheck, Reject
<1>10. CASE Key
  <2>1. UNCHANGED <<call, before, pc, result>> /\ delayed' = (delayed \/ pc # "typing")
    BY <1>10 DEF Key
  <2> QED
    BY <1>1, <2>1
<1>11. CASE Bind \/ RestartInput \/ UNCHANGED inputVars
  BY <1>1, <1>11 DEF Bind, RestartInput, inputVars
<1> QED
  BY <1>2, <1>3, <1>4, <1>5, <1>6, <1>7, <1>8, <1>9, <1>10, <1>11
  DEF InputNext, Tool, Device

\* Enter is pressed by Submit alone.
LEMMA StepSubmits ==
  ASSUME InputInv, [InputNext]_inputVars
  PROVE  EnterAfterSuccess' /\ (entered' # entered => Submit)
<1> USE DEF InputInv, EnterAfterSuccess
<1>1. CASE ValidateText \/ ResolveHelper \/ LookBefore
  BY <1>1 DEF ValidateText, ResolveHelper, LookBefore, Reject
<1>2. CASE ReadPrevious \/ EnableHelper
  BY <1>2 DEF ReadPrevious, EnableHelper, Reject
<1>3. CASE SetHelper \/ CheckHelper
  BY <1>3 DEF SetHelper, CheckHelper, Reject
<1>4. CASE Tap \/ InputText
  BY <1>4 DEF Tap, InputText, Fail
<1>5. CASE Typed \/ TypingFails
  BY <1>5 DEF Typed, TypingFails, Fail
<1>6. CASE Verify
  BY <1>6 DEF Verify, AfterVerified, Fail
<1>7. CASE Submit
  BY <1>7 DEF Submit, Fail
<1>8. CASE RestoreSet \/ RestoreCheck
  BY <1>8 DEF RestoreSet, RestoreCheck, Reject
<1>9. CASE Key \/ Bind \/ RestartInput \/ UNCHANGED inputVars
  BY <1>9 DEF Key, Bind, RestartInput, inputVars
<1> QED
  BY <1>1, <1>2, <1>3, <1>4, <1>5, <1>6, <1>7, <1>8, <1>9 DEF InputNext, Tool, Device

LEMMA InputStep == InputInv /\ [InputNext]_inputVars => InputInv'
BY StepRestores, StepCounts, StepSettles, StepSubmits DEF InputInv

LEMMA InputInvariant == InputSpec => []InputInv
BY InputInitially, InputStep, PTL DEF InputSpec

\* Whichever keys were lost and however often the text was sent: a call of
\* UnicodeTextInputTool.execute that reports success left the field with what it
\* held and one copy of the text, unless a key arrived after its command had ended.
THEOREM SuccessLeavesExactText == InputSpec => []SuccessIsExact
<1>1. InputInv => SuccessIsExact
  BY DEF InputInv, SuccessSettled, SuccessIsExact
<1> QED
  BY <1>1, InputInvariant, PTL

\* A call that typed puts the previous input method back or ends with
\* IME_RESTORE_FAILED, whichever command failed (_restore_input_method).
THEOREM InputMethodRestored == InputSpec => []RestoredOrReported
<1>1. InputInv => RestoredOrReported
  BY DEF InputInv
<1> QED
  BY <1>1, InputInvariant, PTL

\* press_enter happens at most once, on a field that holds the whole text if no key
\* arrived after its command had ended.
THEOREM OnlyWholeTextSubmitted == InputSpec => SubmittedWhole
<1>1. ASSUME InputInv, [InputNext]_inputVars, entered' # entered
      PROVE  entered = <<>> /\ (delayed \/ field = Expected)
  <2>1. Submit
    BY <1>1, StepSubmits
  <2> QED
    BY <1>1, <2>1 DEF Submit, InputInv, EnterAfterSuccess, SuccessSettled
<1> QED
  BY <1>1, InputInvariant, PTL DEF InputSpec, SubmittedWhole
=============================================================================
