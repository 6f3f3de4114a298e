--------------------------- MODULE DeviceGateway ----------------------------
(***************************************************************************)
(* How runtime calls get exclusive, connection-bound access to a device:    *)
(* the lease manager (devices/lease.py) and the session tracking adapter    *)
(* (devices/session.py).  A caller is one tool, skill or task execution: it  *)
(* asks for the online session of a device, takes the device lease, binds   *)
(* the session and then performs writes, each preceded by a check that the  *)
(* session is still the current one.                                        *)
(*                                                                          *)
(* The adapter is asked for the device list outside the tracker's lock and  *)
(* the answer is applied under it, so answers can be applied out of order,  *)
(* and the device can come and go between a check and the write it admits.  *)
(***************************************************************************)
EXTENDS Naturals, FiniteSets

CONSTANTS
  Devices,
  Callers,    \* executions that write
  Watchers,   \* readers of the device list (readiness, inspection, polling)
  None,
  MaxLinks,   \* bound: connection changes of a behaviour
  MaxCalls,   \* bound: executions started
  MaxLists    \* bound: device lists read by watchers

ASSUME NoneAssumption == None \notin Callers \cup Devices
ASSUME DevicesAssumption == IsFiniteSet(Devices)
ASSUME BoundAssumption == {MaxLinks, MaxCalls, MaxLists} \subseteq Nat

VARIABLES
  link,    \* the world: physical connection of each device
  epoch,   \* the world: how often the device came online
  state,   \* tracker: last known connection, session and presence
  minted,  \* tracker: session ids handed out (uuid4 in the code: always new)
  lease,   \* lease manager: holder of each device
  caller,  \* control state of each execution
  watcher, \* a list read by a watcher and not applied yet
  late,    \* history: writes of an execution after its session was revoked
  budget

world == <<link, epoch>>
tracker == <<state, minted>>
vars == <<link, epoch, state, minted, lease, caller, watcher, late, budget>>
-----------------------------------------------------------------------------
\* "offline" stands for every visible state other than online.
Connection == {"online", "offline"}
Link       == Connection \cup {"absent"}
Listing    == [Devices -> Link]

\* Session 0 is None; a device never seen has connection "absent".
Unknown == [connection |-> "absent", session |-> 0, present |-> FALSE]
NoList  == [d \in Devices |-> "absent"]
Idle    == [pc |-> "idle", device |-> None, session |-> 0, since |-> 0,
            list |-> NoList]

Init ==
  /\ link = [d \in Devices |-> "absent"]
  /\ epoch = [d \in Devices |-> 0]
  /\ state = [d \in Devices |-> Unknown]
  /\ minted = 0
  /\ lease = [d \in Devices |-> None]
  /\ caller = [p \in Callers |-> Idle]
  /\ watcher = [w \in Watchers |-> None]
  /\ late = [p \in Callers |-> 0]
  /\ budget = [links |-> 0, calls |-> 0, lists |-> 0]

Spend(what, max) ==
  budget[what] < max /\ budget' = [budget EXCEPT ![what] = @ + 1]
-----------------------------------------------------------------------------
(* The tracker.                                                             *)

KeepsSessionUnseen(d) == state[d].connection = "online"  \* mutant

\* A device listed online keeps its session only if it was known present and
\* online; otherwise it gets a new one.
KeepsSession(d) == state[d].present /\ state[d].connection = "online"

NeedNew(list) == {d \in Devices : list[d] = "online" /\ ~KeepsSession(d)}

DistinctIds(fresh) == \A d, e \in DOMAIN fresh : fresh[d] = fresh[e] => d = e

\* list_devices, second half: apply a list under the lock.  New sessions are
\* numbered upwards from minted; fresh gives each device its own.
Apply(list) ==
  \E fresh \in [NeedNew(list) -> (minted + 1)..(minted + Cardinality(NeedNew(list)))] :
    /\ DistinctIds(fresh)
    /\ minted' = minted + Cardinality(NeedNew(list))
    /\ state' = [d \in Devices |->
         IF list[d] = "absent"
         THEN [state[d] EXCEPT !.present = FALSE]
         ELSE [connection |-> list[d],
               session |-> IF d \in NeedNew(list) THEN fresh[d]
                           ELSE IF list[d] = "online" THEN state[d].session
                           ELSE 0,
               present |-> TRUE]]
-----------------------------------------------------------------------------
(* One execution.                                                           *)

At(p, pc)   == caller[p].pc = pc
Goto(p, pc) == caller' = [caller EXCEPT ![p].pc = pc]
Leave(p)    == caller' = [caller EXCEPT ![p] = Idle]

\* Any list_devices starts by asking the adapter, without the lock.
Fetch(p, pc, next) ==
  /\ At(p, pc)
  /\ caller' = [caller EXCEPT ![p].pc = next, ![p].list = link]

Begin(p, d) ==
  /\ At(p, "idle")
  /\ Spend("calls", MaxCalls)
  /\ caller' = [caller EXCEPT ![p] = [pc |-> "require", device |-> d,
                  session |-> 0, since |-> epoch[d], list |-> link]]
  /\ UNCHANGED <<world, tracker, lease, watcher, late>>

\* require_online_session: DEVICE_NOT_FOUND and DEVICE_OFFLINE end the call.
Require(p) ==
  LET d == caller[p].device IN
  /\ At(p, "require")
  /\ Apply(caller[p].list)
  /\ IF caller[p].list[d] = "online"
     THEN caller' = [caller EXCEPT ![p].pc = "hold", ![p].list = NoList,
                                   ![p].session = state'[d].session]
     ELSE Leave(p)
  /\ UNCHANGED <<world, lease, watcher, late, budget>>

Free(d) == lease[d] = None

\* hold: not reentrant, and an expired lease is still held (DEVICE_LOCKED).
Hold(p) ==
  LET d == caller[p].device IN
  /\ At(p, "hold")
  /\ IF Free(d)
     THEN lease' = [lease EXCEPT ![d] = p] /\ Goto(p, "bound")
     ELSE UNCHANGED lease /\ Leave(p)
  /\ UNCHANGED <<world, tracker, watcher, late, budget>>

\* _validate_binding: ask for the list, apply it, compare the session.
ValidateFetch(p) ==
  /\ Fetch(p, "bound", "validate")
  /\ UNCHANGED <<world, tracker, lease, watcher, late, budget>>

StillOnline(p) == caller[p].list[caller[p].device] = "online"  \* mutant
StillBound(p) ==
  LET d == caller[p].device IN
  caller[p].list[d] = "online" /\ state'[d].session = caller[p].session

Validate(p) ==
  /\ At(p, "validate")
  /\ Apply(caller[p].list)
  /\ caller' = [caller EXCEPT ![p].list = NoList, ![p].pc =
       IF StillBound(p) THEN "write" ELSE "leave"]
  /\ UNCHANGED <<world, lease, watcher, late, budget>>

\* The tracker no longer vouches for the session of p.
Revoked(p) ==
  LET s == state[caller[p].device] IN
  ~(s.present /\ s.connection = "online" /\ s.session = caller[p].session)

\* The adapter call admitted by the check: the device acts if it is reachable,
\* otherwise the call fails and the execution ends.
Write(p) ==
  LET d == caller[p].device IN
  /\ At(p, "write")
  /\ IF link[d] = "online"
     THEN /\ Goto(p, "bound")
          /\ late' = [late EXCEPT ![p] = @ + IF Revoked(p) THEN 1 ELSE 0]
     ELSE Goto(p, "leave") /\ UNCHANGED late
  /\ UNCHANGED <<world, tracker, lease, watcher, budget>>

\* The execution is done, or failed: the contexts exit and release the lease.
Finish(p) ==
  /\ At(p, "bound")
  /\ Goto(p, "leave")
  /\ UNCHANGED <<world, tracker, lease, watcher, late, budget>>

LeaseKept(p) == lease  \* mutant: the context exits without releasing
LeaseReleased(p) ==
  LET d == caller[p].device IN
  IF lease[d] = p THEN [lease EXCEPT ![d] = None] ELSE lease

Release(p) ==
  /\ At(p, "leave")
  /\ lease' = LeaseReleased(p)
  /\ Leave(p)
  /\ late' = [late EXCEPT ![p] = 0]
  /\ UNCHANGED <<world, tracker, watcher, budget>>

Execute(p) ==
  \/ \E d \in Devices : Begin(p, d)
  \/ Require(p) \/ Hold(p) \/ ValidateFetch(p) \/ Validate(p)
  \/ Write(p) \/ Finish(p) \/ Release(p)
-----------------------------------------------------------------------------
(* Readers of the device list hold no lease.                                *)

WatchFetch(w) ==
  /\ watcher[w] = None
  /\ Spend("lists", MaxLists)
  /\ watcher' = [watcher EXCEPT ![w] = link]
  /\ UNCHANGED <<world, tracker, lease, caller, late>>

WatchApply(w) ==
  /\ watcher[w] # None
  /\ Apply(watcher[w])
  /\ watcher' = [watcher EXCEPT ![w] = None]
  /\ UNCHANGED <<world, lease, caller, late, budget>>
-----------------------------------------------------------------------------
(* The world.                                                               *)

Connect(d) ==
  /\ link[d] # "online"
  /\ Spend("links", MaxLinks)
  /\ link' = [link EXCEPT ![d] = "online"]
  /\ epoch' = [epoch EXCEPT ![d] = @ + 1]
  /\ UNCHANGED <<tracker, lease, caller, watcher, late>>

Disconnect(d, l) ==
  /\ l \notin {link[d], "online"}
  /\ Spend("links", MaxLinks)
  /\ link' = [link EXCEPT ![d] = l]
  /\ UNCHANGED <<epoch, tracker, lease, caller, watcher, late>>

Next ==
  \/ \E p \in Callers : Execute(p)
  \/ \E w \in Watchers : WatchFetch(w) \/ WatchApply(w)
  \/ \E d \in Devices : Connect(d) \/ \E l \in Link : Disconnect(d, l)

Spec == Init /\ [][Next]_vars
-----------------------------------------------------------------------------
(* Properties.                                                              *)

Pc == {"idle", "require", "hold", "bound", "validate", "write", "leave"}

DeviceState == [connection : Link, session : Nat, present : BOOLEAN]
CallerState == [pc : Pc, device : Devices \cup {None}, session : Nat,
                since : 0..MaxLinks, list : Listing]

WorldType   == link \in Listing /\ epoch \in [Devices -> 0..budget.links]
TrackerType == state \in [Devices -> DeviceState] /\ minted \in Nat
CallerType  ==
  /\ caller \in [Callers -> CallerState]
  /\ \A p \in Callers : caller[p].pc # "idle" => caller[p].device \in Devices

TypeOK ==
  /\ budget \in [links : 0..MaxLinks, calls : 0..MaxCalls, lists : 0..MaxLists]
  /\ WorldType /\ TrackerType /\ CallerType
  /\ lease \in [Devices -> Callers \cup {None}]
  /\ watcher \in [Watchers -> Listing \cup {None}]
  /\ late \in [Callers -> Nat]

Holding == {"bound", "validate", "write", "leave"}

\* At most one execution at a time is inside the lease of a device, from the
\* moment it got it to the moment it gave it back.
Exclusive ==
  \A p, q \in Callers :
    /\ caller[p].pc \in Holding /\ caller[q].pc \in Holding
    /\ caller[p].device = caller[q].device
    => p = q

\* A lease is in the table exactly while its holder is inside: it is neither
\* lost under the holder nor left behind by it.
LeaseMatchesHolder ==
  \A d \in Devices, p \in Callers :
    lease[d] = p <=> caller[p].device = d /\ caller[p].pc \in Holding

\* A revoked session never comes back: whatever order lists are applied in, a
\* session the tracker starts to vouch for is either new or the one it vouched
\* for until now.
Vouched(s) == IF s.present /\ s.connection = "online" THEN s.session ELSE 0
RevokedForEver ==
  [][\A d \in Devices : Vouched(state'[d]) \in {0, Vouched(state[d])}
                        \/ Vouched(state'[d]) > minted]_vars

\* One session id names one device.
SessionsDistinct ==
  \A d, e \in Devices : state[d].session = state[e].session
                        /\ state[d].session # 0 => d = e

\* After the tracker revoked its session an execution completes at most the one
\* write that had already passed its check.
AtMostOneLateWrite == \A p \in Callers : late[p] <= 1

\* An execution on a device that stays connected is not refused.
ContinuousSession ==
  [][\A p \in Callers :
       /\ caller[p].pc = "validate" /\ caller'[p].pc = "leave"
       => \/ link[caller[p].device] # "online"
          \/ epoch[caller[p].device] # caller[p].since]_vars
=============================================================================
