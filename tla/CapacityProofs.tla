------------------------------ MODULE CapacityProofs ------------------------------
(***************************************************************************)
(* Theorems about CapacityReservation for any number of stages, setups,    *)
(* VMs and reservations, proved with TLAPS.  The request of a stage fixes  *)
(* its capacity once; every copy of it that the table, the handlers, the   *)
(* calls of DestroyCapacity and the purger hold is that one.               *)
(***************************************************************************)
EXTENDS CapacityReservation, TLAPS

Cap(s) == request[s].capacity

CallType == [capacity: Capacity, by: Callers, pc: {"claim", "instance", "release", "delete"}]

PurgerType == [pc: {"idle", "free", "inuse", "orphans", "claim"}, old: SUBSET Stages,
               candidates: SUBSET Stages, claiming: Stages \cup {NoStage},
               todo: SUBSET Capacity]

(* The records are records; a claim of the purger is for a stage. *)
RecordInv ==
  /\ destroying \subseteq CallType
  /\ purger \in PurgerType
  /\ purger.pc = "claim" => purger.claiming \in Stages

(* A request that has reserved has a warm VM or a reservation, its own. *)
RequestInv ==
  \A s \in Stages :
    /\ request[s].pc = "idle" => Cap(s) = Nothing
    /\ request[s].pc # "idle" => \/ \E v \in VMs : Cap(s) = Warm(s, v)
                                 \/ \E c \in Reservations : Cap(s) = Reserved(s, c)

HeldInv ==
  \A s \in Stages :
    /\ Cap(s).reservation # NoReservation =>
         /\ provider[Cap(s).reservation] # "absent"
         /\ \A t \in Stages : Cap(t).reservation = Cap(s).reservation => t = s
    /\ Cap(s).vm # NoVM =>
         /\ instances[Cap(s).vm].state \in {"inuse", "gone"}
         /\ \A t \in Stages : Cap(t).vm = Cap(s).vm => t = s

(* A copy of the capacity of a stage, whose request is over. *)
Copy(k) == k \in Capacity /\ request[k.stage].pc = "done" /\ k = Cap(k.stage)

TableInv ==
  \A s \in Stages :
    /\ table[s].state = "none" => table[s].capacity = Nothing
    /\ table[s].state # "none" => Copy(table[s].capacity) /\ table[s].capacity.stage = s

(* A setup has the row it claimed, which is free never again. *)
SetupInv ==
  \A u \in Setups :
    /\ setup[u].capacity # Nothing =>
         Copy(setup[u].capacity) /\ table[setup[u].capacity.stage].state # "created"
    /\ setup[u].reserved \in {Nothing, setup[u].capacity}
    /\ setup[u].pc = "idle" => setup[u].capacity = Nothing /\ setup[u].vm = NoVM

(* Rows are deleted after the release, by calls for the row's capacity. *)
CallInv ==
  /\ \A d \in destroying :
       /\ Copy(d.capacity)
       /\ d.pc = "release" => d.capacity.reservation # NoReservation
       /\ d.pc = "delete" /\ d.capacity.reservation \in Reachable =>
            provider[d.capacity.reservation] = "gone"
  /\ \A k \in purger.todo : Copy(k)

(* Whoever works on a VM that a stage has reserved has its capacity. *)
UserInv ==
  \A u \in Setups : setup[u].vm # NoVM =>
    /\ instances[setup[u].vm].state \in {"inuse", "gone"}
    /\ \A s \in Stages : Cap(s).vm = setup[u].vm => setup[u].capacity = Cap(s)

IInv == /\ TypeOK /\ RecordInv /\ RequestInv /\ HeldInv /\ TableInv /\ SetupInv /\ CallInv
        /\ UserInv /\ OneUser /\ ReservationTracked

-----------------------------------------------------------------------------
(* Capacities. *)

(* No capacity is Nothing, which names nothing. *)
LEMMA Capacities ==
  /\ \A k \in Capacity : /\ k # Nothing /\ k.stage \in Stages
                         /\ k.vm \in VMs \cup {NoVM}
                         /\ k.reservation \in Reservations \cup {NoReservation}
  /\ Nothing.stage = NoStage /\ Nothing.vm = NoVM /\ Nothing.reservation = NoReservation
  /\ \A s \in Stages, v \in VMs :
       /\ Warm(s, v) \in Capacity /\ Warm(s, v).stage = s
       /\ Warm(s, v).vm = v /\ Warm(s, v).reservation = NoReservation
  /\ \A s \in Stages, c \in Reservations :
       /\ Reserved(s, c) \in Capacity /\ Reserved(s, c).stage = s
       /\ Reserved(s, c).vm = NoVM /\ Reserved(s, c).reservation = c
<1>1. Nothing.stage = NoStage /\ Nothing.vm = NoVM /\ Nothing.reservation = NoReservation
  BY DEF Nothing
<1>2. \A k \in Capacity : /\ k # Nothing /\ k.stage \in Stages
                          /\ k.vm \in VMs \cup {NoVM}
                          /\ k.reservation \in Reservations \cup {NoReservation}
  BY <1>1, NoneAssumption DEF Capacity
<1> QED
  BY <1>1, <1>2 DEF Capacity, Warm, Reserved

(* The calls a caller starts. *)
LEMMA CallsAre ==
  ASSUME NEW capacity, NEW by
  PROVE  /\ capacity = Nothing => CallsFor(capacity, by) = {}
         /\ capacity # Nothing => CallsFor(capacity, by) = {Call(capacity, by)}
  BY DEF CallsFor

(* A call is a record. *)
LEMMA CallFields ==
  /\ \A k \in Capacity, by \in Callers :
       /\ Call(k, by) \in CallType /\ Call(k, by).capacity = k
       /\ Call(k, by).by = by /\ Call(k, by).pc = "claim"
  /\ \A d \in CallType : /\ d.capacity \in Capacity /\ d.by \in Callers
                         /\ d.pc \in {"claim", "instance", "release", "delete"}
  /\ \A d \in CallType, pc \in {"claim", "instance", "release", "delete"} :
       LET e == [d EXCEPT !.pc = pc] IN
       /\ e \in CallType /\ e.capacity = d.capacity /\ e.by = d.by /\ e.pc = pc
  BY DEF CallType, Call

-----------------------------------------------------------------------------
(* Who writes what. *)

(* HandleCapacityReservation alone writes a request. *)
LEMMA OnlyRequest ==
  ASSUME [Next]_vars
  PROVE  \/ UNCHANGED request
         \/ \E s \in Stages : \/ \E v \in VMs : ReserveWarm(s, v)
                              \/ \E c \in Reservations : ReserveCapacity(s, c)
                              \/ CreateRow(s) \/ RequestCrash(s)
  BY DEF Next, vars, RequestStep, DestroyStage, SetupStep, SetupCrash, SeedVM, ReapInstance,
         DestroyStep, DestroyCrash, Purge, PurgerCrash, Tick, SetupOnly, PurgeOnly, DestroyOnly,
         SetupClaim, SetupFind, SetupClaimWarm, SetupCreate, SetupProvisionFails, SetupTag,
         SetupReady, SetupCleanup, SetupOwnerFails, ClaimForTermination, DestroyInstance,
         ReleaseCapacity, DeleteRecord, PurgeList, PurgeClaimFree, PurgeListInUse,
         PurgeClaimOrphan, PurgeEnd, PurgeSkip, PurgeLookup, PurgeDestroy

(* The driver is asked to reserve and to release. *)
LEMMA OnlyProvider ==
  ASSUME [Next]_vars
  PROVE  \/ UNCHANGED provider
         \/ \E s \in Stages, c \in Reservations : ReserveCapacity(s, c)
         \/ \E d \in destroying : ReleaseCapacity(d)
  BY DEF Next, vars, RequestStep, RequestCrash, ReserveWarm, CreateRow, DestroyStage, SetupStep,
         SetupCrash, SeedVM, ReapInstance, DestroyStep, DestroyCrash, Purge, PurgerCrash, Tick,
         PurgeOnly, SetupClaim, SetupFind, SetupClaimWarm, SetupCreate, SetupProvisionFails,
         SetupTag, SetupReady, SetupCleanup, SetupOwnerFails, ClaimForTermination,
         DestroyInstance, DeleteRecord, PurgeList, PurgeClaimFree, PurgeListInUse,
         PurgeClaimOrphan, PurgeEnd, PurgeSkip, PurgeLookup, PurgeDestroy

(* The statements on capacity_reservation, and its clock. *)
LEMMA OnlyTable ==
  ASSUME [Next]_vars
  PROVE  \/ UNCHANGED table
         \/ \E d \in destroying : ClaimForTermination(d) \/ DeleteRecord(d)
         \/ \E s \in Stages : CreateRow(s)
         \/ \E u \in Setups, s \in Stages : SetupClaim(u, s)
         \/ Tick \/ PurgeClaimFree \/ PurgeClaimOrphan
  BY DEF Next, vars, RequestStep, RequestCrash, ReserveWarm, ReserveCapacity, DestroyStage,
         SetupStep, SetupCrash, SeedVM, ReapInstance, DestroyStep, DestroyCrash, Purge,
         PurgerCrash, SetupFind, SetupClaimWarm, SetupCreate, SetupProvisionFails, SetupTag,
         SetupReady, SetupCleanup, SetupOwnerFails, DestroyInstance, ReleaseCapacity, PurgeList,
         PurgeListInUse, PurgeEnd, PurgeSkip, PurgeLookup, PurgeDestroy

(* HandleSetup alone writes its variables, and the clock. *)
LEMMA OnlySetup ==
  ASSUME [Next]_vars
  PROVE  UNCHANGED setup \/ Tick \/ \E u \in Setups : SetupStep(u) \/ SetupCrash(u)
  BY DEF Next, vars, RequestStep, RequestCrash, ReserveWarm, ReserveCapacity, CreateRow,
         DestroyStage, SeedVM, ReapInstance, DestroyStep, DestroyCrash, Purge, PurgerCrash,
         RequestOnly, DestroyOnly, PurgeOnly, ClaimForTermination, DestroyInstance,
         ReleaseCapacity, DeleteRecord, PurgeList, PurgeClaimFree, PurgeListInUse,
         PurgeClaimOrphan, PurgeEnd, PurgeSkip, PurgeLookup, PurgeDestroy

(* cleanupCapacities alone writes its variables. *)
LEMMA OnlyPurger ==
  ASSUME [Next]_vars
  PROVE  UNCHANGED purger \/ Purge \/ PurgerCrash
  BY DEF Next, vars, RequestStep, RequestCrash, ReserveWarm, ReserveCapacity, CreateRow,
         DestroyStage, SetupStep, SetupCrash, SeedVM, ReapInstance, DestroyStep, DestroyCrash,
         Tick, RequestOnly, SetupOnly, DestroyOnly, SetupClaim, SetupFind, SetupClaimWarm,
         SetupCreate, SetupProvisionFails, SetupTag, SetupReady, SetupCleanup, SetupOwnerFails,
         ClaimForTermination, DestroyInstance, ReleaseCapacity, DeleteRecord

(* A reservation is lost with a request, or with its call. *)
LEMMA OnlyStray ==
  ASSUME [Next]_vars
  PROVE  \/ UNCHANGED stray
         \/ \E s \in Stages : RequestCrash(s)
         \/ \E d \in destroying : DestroyCrash(d) \/ ReleaseCapacity(d)
  BY DEF Next, vars, RequestStep, ReserveWarm, ReserveCapacity, CreateRow, DestroyStage,
         SetupStep, SetupCrash, SeedVM, ReapInstance, DestroyStep, Purge, PurgerCrash, Tick,
         SetupOnly, PurgeOnly, SetupClaim, SetupFind, SetupClaimWarm, SetupCreate,
         SetupProvisionFails, SetupTag, SetupReady, SetupCleanup, SetupOwnerFails,
         ClaimForTermination, DestroyInstance, DeleteRecord, PurgeList, PurgeClaimFree,
         PurgeListInUse, PurgeClaimOrphan, PurgeEnd, PurgeSkip, PurgeLookup, PurgeDestroy

(* The instances table is written by the claims, the creations and the destroys. *)
LEMMA OnlyInstances ==
  ASSUME [Next]_vars
  PROVE  \/ UNCHANGED instances
         \/ \E d \in destroying : DestroyInstance(d)
         \/ \E s \in Stages : DestroyStage(s) \/ \E v \in VMs : ReserveWarm(s, v)
         \/ \E u \in Setups : \/ \E v \in VMs : SetupClaimWarm(u, v) \/ SetupCreate(u, v)
                              \/ SetupTag(u) \/ SetupCleanup(u) \/ SetupOwnerFails(u)
         \/ \E v \in VMs : SeedVM(v) \/ ReapInstance(v)
  BY DEF Next, vars, RequestStep, RequestCrash, ReserveCapacity, CreateRow, SetupStep,
         SetupCrash, DestroyStep, DestroyCrash, Purge, PurgerCrash, Tick, PurgeOnly,
         SetupClaim, SetupFind, SetupProvisionFails, SetupReady, ClaimForTermination,
         ReleaseCapacity, DeleteRecord, PurgeList, PurgeClaimFree, PurgeListInUse,
         PurgeClaimOrphan, PurgeEnd, PurgeSkip, PurgeLookup, PurgeDestroy

-----------------------------------------------------------------------------
(* What a step does to a request, a reservation, an instance and a row. *)

RequestType == [pc: {"idle", "create", "done"}, capacity: Capacity \cup {Nothing}]

Reserves(s) ==
  /\ request[s].pc = "idle" /\ request'[s].pc = "create"
  /\ \A t \in Stages : t # s => request'[t] = request[t]
  /\ \/ \E v \in VMs : /\ request'[s].capacity = Warm(s, v)
                       /\ instances[v].state = "created" /\ instances'[v].state = "inuse"
     \/ \E c \in Reservations : /\ request'[s].capacity = Reserved(s, c)
                                /\ provider[c] = "absent" /\ provider'[c] = "held"

(* A capacity is chosen once. *)
LEMMA RequestSteps ==
  ASSUME TypeOK, [Next]_vars
  PROVE  /\ request' \in [Stages -> RequestType]
         /\ \/ \E s \in Stages : Reserves(s)
            \/ \A s \in Stages : /\ request'[s].capacity = request[s].capacity
                                 /\ \/ request'[s].pc = request[s].pc
                                    \/ request[s].pc = "create" /\ request'[s].pc = "done"
<1> USE DEF RequestType
<1>1. /\ request \in [Stages -> RequestType]
      /\ \A s \in Stages : request[s] \in RequestType
      /\ instances \in [VMs -> [state: {"absent", "created", "inuse", "gone"},
                                stage: Stages \cup {NoStage}]]
      /\ provider \in [Reservations -> {"absent", "held", "gone"}]
  BY DEF TypeOK
<1>2. CASE UNCHANGED request
  BY <1>1, <1>2
<1>3. ASSUME NEW s \in Stages, NEW v \in VMs, ReserveWarm(s, v)
      PROVE  request' \in [Stages -> RequestType] /\ Reserves(s)
  <2>1. /\ request' = [request EXCEPT ![s] = [pc |-> "create", capacity |-> Warm(s, v)]]
        /\ instances' = [instances EXCEPT ![v].state = "inuse"]
        /\ request[s].pc = "idle" /\ instances[v].state = "created"
    BY <1>3 DEF ReserveWarm
  <2>2. [pc |-> "create", capacity |-> Warm(s, v)] \in RequestType
    BY Capacities
  <2>3. instances'[v].state = "inuse"
    BY <1>1, <2>1
  <2> QED
    BY <1>1, <2>1, <2>2, <2>3 DEF Reserves
<1>4. ASSUME NEW s \in Stages, NEW c \in Reservations, ReserveCapacity(s, c)
      PROVE  request' \in [Stages -> RequestType] /\ Reserves(s)
  <2>1. /\ request' = [request EXCEPT ![s] = [pc |-> "create", capacity |-> Reserved(s, c)]]
        /\ provider' = [provider EXCEPT ![c] = "held"]
        /\ request[s].pc = "idle" /\ provider[c] = "absent"
    BY <1>4 DEF ReserveCapacity
  <2>2. [pc |-> "create", capacity |-> Reserved(s, c)] \in RequestType
    BY Capacities
  <2> QED
    BY <1>1, <2>1, <2>2 DEF Reserves
<1>5. ASSUME NEW s \in Stages, CreateRow(s) \/ RequestCrash(s)
      PROVE  /\ request' \in [Stages -> RequestType]
             /\ \A t \in Stages : /\ request'[t].capacity = request[t].capacity
                                  /\ \/ request'[t].pc = request[t].pc
                                     \/ request[t].pc = "create" /\ request'[t].pc = "done"
  <2>1. request' = [request EXCEPT ![s] = [request[s] EXCEPT !.pc = "done"]]
    BY <1>5 DEF CreateRow, RequestCrash, RequestTo
  <2>2. request[s].pc = "create"
    BY <1>5 DEF CreateRow, RequestCrash
  <2> QED
    BY <1>1, <2>1, <2>2
<1> QED
  BY <1>2, <1>3, <1>4, <1>5, OnlyRequest

(* A copy after the step. *)
CopyNext(k) ==
  k \in Capacity /\ request'[k.stage].pc = "done" /\ k = request'[k.stage].capacity

(* So a copy of it stays one. *)
LEMMA CopyKept ==
  ASSUME TypeOK, [Next]_vars
  PROVE  \A k : Copy(k) => CopyNext(k)
<1> SUFFICES ASSUME NEW k, Copy(k)
             PROVE  CopyNext(k)
  OBVIOUS
<1>1. k.stage \in Stages
  BY Capacities DEF Copy
<1> QED
  BY <1>1, RequestSteps DEF Copy, CopyNext, Cap, Reserves

(* A reservation is held once and given back once. *)
LEMMA ProviderSteps ==
  ASSUME TypeOK, [Next]_vars
  PROVE  /\ provider' \in [Reservations -> {"absent", "held", "gone"}]
         /\ \A c \in Reservations :
              /\ provider[c] = "gone" => provider'[c] = "gone"
              /\ provider[c] # "absent" => provider'[c] # "absent"
              /\ provider'[c] = "held" => \/ provider[c] = "held"
                                          \/ \E s \in Stages : ReserveCapacity(s, c)
<1>1. provider \in [Reservations -> {"absent", "held", "gone"}]
  BY DEF TypeOK
<1>2. CASE UNCHANGED provider
  BY <1>1, <1>2
<1>3. ASSUME NEW s \in Stages, NEW c \in Reservations, ReserveCapacity(s, c)
      PROVE  provider[c] = "absent" /\ provider' = [provider EXCEPT ![c] = "held"]
  BY <1>3 DEF ReserveCapacity
<1>4. ASSUME NEW d \in destroying, ReleaseCapacity(d)
      PROVE  UNCHANGED provider \/ provider' = [provider EXCEPT ![d.capacity.reservation] = "gone"]
  BY <1>4 DEF ReleaseCapacity
<1>5. CASE \E c : provider' = [provider EXCEPT ![c] = "gone"]
  BY <1>1, <1>5
<1>6. CASE \E s \in Stages, c \in Reservations : ReserveCapacity(s, c)
  BY <1>1, <1>3, <1>6
<1> QED
  BY <1>2, <1>4, <1>5, <1>6, OnlyProvider

InstanceType == [state: {"absent", "created", "inuse", "gone"}, stage: Stages \cup {NoStage}]

(* A VM that is taken is not free again. *)
LEMMA InstanceSteps ==
  ASSUME TypeOK, [Next]_vars
  PROVE  /\ instances' \in [VMs -> InstanceType]
         /\ \A v \in VMs : instances[v].state \in {"inuse", "gone"}
                             => instances'[v].state \in {"inuse", "gone"}
<1> DEFINE Good == /\ instances' \in [VMs -> InstanceType]
                   /\ \A v \in VMs : instances[v].state \in {"inuse", "gone"}
                                       => instances'[v].state \in {"inuse", "gone"}
<1>1. instances \in [VMs -> InstanceType] /\ \A v \in VMs : instances[v] \in InstanceType
  BY DEF TypeOK, InstanceType
<1>2. ASSUME UNCHANGED instances
      PROVE  Good
  BY <1>1, <1>2
<1>3. ASSUME NEW v, NEW st \in {"created", "inuse", "gone"},
             st = "created" => instances[v].state = "absent",
             instances' = [instances EXCEPT ![v].state = st]
      PROVE  Good
  <2>1. v \in VMs => /\ [instances[v] EXCEPT !.state = st] \in InstanceType
                     /\ [instances[v] EXCEPT !.state = st].state = st
    BY <1>1 DEF InstanceType
  <2>2. instances' = [instances EXCEPT ![v] = [instances[v] EXCEPT !.state = st]]
    BY <1>3
  <2> QED
    BY <1>1, <1>3, <2>1, <2>2
<1>4. ASSUME NEW vs, Discard(vs)
      PROVE  Good
  <2>1. \A v \in VMs : /\ [instances[v] EXCEPT !.state = "gone"] \in InstanceType
                       /\ [instances[v] EXCEPT !.state = "gone"].state = "gone"
    BY <1>1 DEF InstanceType
  <2> QED
    BY <1>1, <1>4, <2>1 DEF Discard
<1>5. ASSUME NEW u \in Setups, SetupTag(u)
      PROVE  Good
  <2> DEFINE v == setup[u].vm
             st == IF instances[v].state = "gone" THEN instances[v].stage ELSE setup[u].stage
  <2>1. instances' = [instances EXCEPT ![v] = [instances[v] EXCEPT !.stage = st]]
    BY <1>5 DEF SetupTag
  <2>2. setup[u].stage \in Stages \cup {NoStage}
    BY DEF TypeOK
  <2>3. v \in VMs => /\ [instances[v] EXCEPT !.stage = st] \in InstanceType
                     /\ [instances[v] EXCEPT !.stage = st].state = instances[v].state
    BY <1>1, <2>2 DEF InstanceType
  <2> QED
    BY <1>1, <2>1, <2>3
<1>6. ASSUME NEW d \in destroying, DestroyInstance(d)
      PROVE  Good
  BY <1>2, <1>3, <1>6 DEF DestroyInstance
<1>7. ASSUME NEW s \in Stages, DestroyStage(s)
      PROVE  Good
  BY <1>4, <1>7 DEF DestroyStage
<1>8. ASSUME NEW u \in Setups, SetupCleanup(u) \/ SetupOwnerFails(u)
      PROVE  Good
  BY <1>4, <1>8 DEF SetupCleanup, SetupOwnerFails
<1>9. ASSUME NEW v \in VMs, SeedVM(v) \/ ReapInstance(v)
      PROVE  Good
  BY <1>3, <1>9 DEF SeedVM, ReapInstance
<1>10. ASSUME NEW v \in VMs, NEW s \in Stages, ReserveWarm(s, v)
       PROVE  Good
  BY <1>3, <1>10 DEF ReserveWarm
<1>11. ASSUME NEW v \in VMs, NEW u \in Setups, SetupClaimWarm(u, v) \/ SetupCreate(u, v)
       PROVE  Good
  BY <1>3, <1>11 DEF SetupClaimWarm, SetupCreate
<1> QED
  BY <1>2, <1>5, <1>6, <1>7, <1>8, <1>9, <1>10, <1>11, OnlyInstances

(* A row is kept, is inserted by its request or is deleted by a call. *)
RowKept(s) ==
  /\ table'[s] \in Row
  /\ table'[s].capacity = table[s].capacity
  /\ table'[s].state = "none" <=> table[s].state = "none"
  /\ table'[s].state = "created" => table[s].state = "created"

RowInserted(s) ==
  /\ request[s].pc = "create" /\ request'[s].pc = "done"
  /\ table'[s] \in Row
  /\ table'[s].state = "created" /\ table'[s].capacity = Cap(s)

RowDeleted(s) ==
  /\ table'[s] = NoRow
  /\ \E d \in destroying : DeleteRecord(d) /\ d.capacity.stage = s

(* The default row. *)
LEMMA NoRowIs == NoRow \in Row /\ NoRow.state = "none" /\ NoRow.capacity = Nothing
  BY AgeAssumption DEF NoRow, Row

(* The fields of a row. *)
LEMMA RowFields ==
  ASSUME TypeOK, NEW s \in Stages
  PROVE  /\ table[s] \in Row
         /\ table[s].state \in {"none", "created", "inuse", "terminating"}
         /\ table[s].capacity \in Capacity \cup {Nothing}
         /\ table[s].age \in 0 .. (MaxAge + 1)
<1>1. table[s] \in Row
  BY DEF TypeOK
<1> QED
  BY <1>1 DEF Row

(* A claim and the clock, on a row. *)
LEMMA RowWrites ==
  ASSUME NEW row \in Row
  PROVE  /\ \A st \in {"inuse", "terminating"} :
              LET new == [row EXCEPT !.state = st] IN
              new \in Row /\ new.state = st /\ new.capacity = row.capacity
         /\ row.age <= MaxAge =>
              LET new == [row EXCEPT !.age = @ + 1] IN
              new \in Row /\ new.state = row.state /\ new.capacity = row.capacity
<1>1. ASSUME NEW st \in {"inuse", "terminating"}
      PROVE  LET new == [row EXCEPT !.state = st] IN
             new \in Row /\ new.state = st /\ new.capacity = row.capacity
  BY DEF Row
<1>2. row.age <= MaxAge => row.age + 1 \in 0 .. (MaxAge + 1)
  BY AgeAssumption DEF Row
<1>3. ASSUME row.age <= MaxAge
      PROVE  LET new == [row EXCEPT !.age = @ + 1] IN
             new \in Row /\ new.state = row.state /\ new.capacity = row.capacity
  BY <1>2, <1>3 DEF Row
<1> QED
  BY <1>1, <1>3

(* CapacityReservationStore.FindAndClaim *)
LEMMA ClaimKeeps ==
  ASSUME TypeOK, NEW s \in Stages, NEW newState \in {"inuse", "terminating"}, NEW allowed,
         "none" \notin allowed, FindAndClaim(s, newState, allowed)
  PROVE  /\ table' \in [Stages -> Row] /\ \A t \in Stages : RowKept(t)
         /\ table'[s].state = newState /\ table[s].state \in allowed
<1>1. table' = [table EXCEPT ![s] = [table[s] EXCEPT !.state = newState]]
  BY DEF FindAndClaim
<1>2. table \in [Stages -> Row] /\ table[s] \in Row
  BY DEF TypeOK
<1>3. /\ [table[s] EXCEPT !.state = newState] \in Row
      /\ [table[s] EXCEPT !.state = newState].state = newState
      /\ [table[s] EXCEPT !.state = newState].capacity = table[s].capacity
  BY <1>2, RowWrites
<1> QED
  BY <1>1, <1>2, <1>3 DEF RowKept, FindAndClaim

(* What the steps make of the table. *)
LEMMA TableSteps ==
  ASSUME TypeOK, RecordInv, [Next]_vars
  PROVE  /\ table' \in [Stages -> Row]
         /\ \A s \in Stages : RowKept(s) \/ RowInserted(s) \/ RowDeleted(s)
<1> DEFINE Good == /\ table' \in [Stages -> Row]
                   /\ \A s \in Stages : RowKept(s) \/ RowInserted(s) \/ RowDeleted(s)
<1>1. table \in [Stages -> Row] /\ \A s \in Stages : table[s] \in Row
  BY DEF TypeOK
<1>2. ASSUME UNCHANGED table
      PROVE  Good
  BY <1>1, <1>2 DEF RowKept
<1>3. ASSUME NEW d \in destroying, ClaimForTermination(d)
      PROVE  Good
  <2>1. d.capacity.stage \in Stages
    BY Capacities DEF TypeOK
  <2> QED
    BY <1>2, <1>3, <2>1, ClaimKeeps DEF ClaimForTermination
<1>4. ASSUME NEW d \in destroying, DeleteRecord(d)
      PROVE  Good
  <2>1. CASE table' = [table EXCEPT ![d.capacity.stage] = NoRow]
    BY <1>1, <1>4, <2>1, NoRowIs DEF RowKept, RowDeleted
  <2> QED
    BY <1>2, <1>4, <2>1 DEF DeleteRecord
<1>5. ASSUME NEW s \in Stages, CreateRow(s)
      PROVE  Good
  <2> DEFINE new == [state |-> "created", age |-> 0, capacity |-> request[s].capacity]
  <2>1. CASE table' = [table EXCEPT ![s] = new]
    <3>1. request[s].capacity \in Capacity \cup {Nothing}
      BY DEF TypeOK
    <3>2. new \in Row
      BY <3>1, AgeAssumption DEF Row
    <3>3. request[s].pc = "create" /\ request' = [request EXCEPT ![s].pc = "done"]
      BY <1>5 DEF CreateRow, RequestTo
    <3>4. request'[s].pc = "done"
      BY <3>3 DEF TypeOK
    <3>5. RowInserted(s)
      BY <1>1, <2>1, <3>2, <3>3, <3>4 DEF RowInserted, Cap
    <3> QED
      BY <1>1, <2>1, <3>2, <3>5 DEF RowKept
  <2> QED
    BY <1>2, <1>5, <2>1 DEF CreateRow
<1>6. ASSUME NEW u \in Setups, NEW s \in Stages, SetupClaim(u, s)
      PROVE  Good
  BY <1>2, <1>6, ClaimKeeps DEF SetupClaim
<1>7. CASE Tick
  <2>1. \A s \in Stages : table'[s] \in Row /\ RowKept(s)
    <3> SUFFICES ASSUME NEW s \in Stages PROVE table'[s] \in Row /\ RowKept(s)
      OBVIOUS
    <3>1. CASE table[s].state # "none" /\ table[s].age <= MaxAge
      <4>1. table'[s] = [table[s] EXCEPT !.age = @ + 1]
        BY <1>7, <3>1 DEF Tick
      <4> QED
        BY <1>1, <3>1, <4>1, RowWrites DEF RowKept
    <3>2. CASE ~(table[s].state # "none" /\ table[s].age <= MaxAge)
      BY <1>1, <1>7, <3>2 DEF Tick, RowKept
    <3> QED
      BY <3>1, <3>2
  <2> QED
    BY <1>7, <2>1 DEF Tick
<1>8. CASE PurgeClaimFree
  <2>1. PICK stages \in {Stale({"created"}), {}} :
          table' = [s \in Stages |-> IF s \in stages THEN [table[s] EXCEPT !.state = "terminating"]
                                                     ELSE table[s]]
    BY <1>8 DEF PurgeClaimFree
  <2>2. \A s \in stages : table[s].state = "created"
    BY <2>1 DEF Stale
  <2>3. \A s \in Stages : table'[s] \in Row /\ RowKept(s)
    BY <1>1, <2>1, <2>2, RowWrites DEF RowKept
  <2> QED
    BY <2>1, <2>3
<1>9. CASE PurgeClaimOrphan
  <2>1. purger.claiming \in Stages
    BY <1>9 DEF PurgeClaimOrphan, RecordInv
  <2> QED
    BY <1>2, <1>9, <2>1, ClaimKeeps DEF PurgeClaimOrphan
<1> QED
  BY <1>2, <1>3, <1>4, <1>5, <1>6, <1>7, <1>8, <1>9, OnlyTable

-----------------------------------------------------------------------------
(* What a step does to a setup. *)

SetupType ==
  [pc: {"idle", "provision", "destroy", "tag", "health", "ready", "failed"},
   stage: Stages \cup {NoStage}, capacity: Capacity \cup {Nothing},
   reserved: Capacity \cup {Nothing}, vm: VMs \cup {NoVM}, slow: BOOLEAN]

SetupKept(u) ==
  /\ setup'[u].capacity = setup[u].capacity
  /\ setup'[u].reserved \in {setup[u].reserved, Nothing}
  /\ setup'[u].vm \in {setup[u].vm, NoVM}
  /\ setup'[u].pc = "idle" => setup[u].pc = "idle"

SetupClaims(u) ==
  /\ setup[u].pc = "idle" /\ setup'[u].pc # "idle" /\ setup'[u].vm = setup[u].vm
  /\ \E s \in Stages :
       /\ table[s].state = "created" /\ table'[s].state = "inuse"
       /\ setup'[u].capacity = table[s].capacity /\ setup'[u].reserved = table[s].capacity

SetupUses(u) ==
  /\ UNCHANGED request /\ setup'[u].pc # "idle"
  /\ setup'[u].capacity = setup[u].capacity /\ setup'[u].reserved = setup[u].reserved
  /\ setup'[u].vm \in VMs
  /\ \/ setup'[u].vm = setup[u].reserved.vm /\ UNCHANGED instances
     \/ /\ instances[setup'[u].vm].state \in {"absent", "created"}
        /\ instances'[setup'[u].vm].state = "inuse"

SetupGood ==
  /\ setup' \in [Setups -> SetupType]
  /\ \/ \A u \in Setups : SetupKept(u)
     \/ \E u \in Setups : /\ SetupClaims(u) \/ SetupUses(u)
                          /\ \A t \in Setups : t # u => SetupKept(t)

IsSetup(y, pc, capacity, reserved, vm) ==
  /\ y \in SetupType
  /\ y.pc = pc /\ y.capacity = capacity /\ y.reserved = reserved /\ y.vm = vm

(* One setup's record is written. *)
LEMMA SetupWrite ==
  ASSUME TypeOK, NEW u \in Setups, NEW y \in SetupType, setup' = [setup EXCEPT ![u] = y]
  PROVE  /\ setup' \in [Setups -> SetupType] /\ setup'[u] = y
         /\ \A t \in Setups : t # u => SetupKept(t)
<1>1. setup \in [Setups -> SetupType]
  BY DEF TypeOK, SetupType
<1> QED
  BY <1>1 DEF SetupKept

(* SetupTo and NextPool *)
LEMMA SetupMoves ==
  ASSUME TypeOK, NEW u \in Setups,
         NEW pc \in {"provision", "destroy", "tag", "health", "ready", "failed"},
         SetupTo(u, pc) \/ NextPool(u)
  PROVE  SetupGood
<1>1. setup[u] \in SetupType
  BY DEF TypeOK, SetupType
<1>2. CASE SetupTo(u, pc)
  <2> DEFINE slow == setup[u].slow /\ pc = "destroy"
             y == [setup[u] EXCEPT !.pc = pc, !.slow = slow]
  <2>1. setup' = [setup EXCEPT ![u] = y]
    BY <1>2 DEF SetupTo
  <2>2. slow \in BOOLEAN
    OBVIOUS
  <2> HIDE DEF slow
  <2>3. IsSetup(y, pc, setup[u].capacity, setup[u].reserved, setup[u].vm)
    BY <1>1, <2>2 DEF IsSetup, SetupType
  <2> HIDE DEF y
  <2>4. /\ setup' \in [Setups -> SetupType] /\ setup'[u] = y
        /\ \A t \in Setups : t # u => SetupKept(t)
    BY <2>1, <2>3, SetupWrite DEF IsSetup
  <2>5. SetupKept(u)
    BY <2>3, <2>4 DEF IsSetup, SetupKept
  <2> QED
    BY <2>4, <2>5 DEF SetupGood
<1>3. CASE NextPool(u)
  <2> DEFINE slow == setup[u].slow /\ setup[u].reserved # Nothing
             next == IF setup[u].reserved # Nothing THEN "provision" ELSE "failed"
             y == [setup[u] EXCEPT !.pc = next, !.reserved = Nothing, !.vm = NoVM, !.slow = slow]
  <2>1. setup' = [setup EXCEPT ![u] = y]
    BY <1>3 DEF NextPool
  <2>2. slow \in BOOLEAN /\ next \in {"provision", "failed"}
    OBVIOUS
  <2> HIDE DEF slow, next
  <2>3. IsSetup(y, next, setup[u].capacity, Nothing, NoVM)
    BY <1>1, <2>2 DEF IsSetup, SetupType
  <2> HIDE DEF y
  <2>4. /\ setup' \in [Setups -> SetupType] /\ setup'[u] = y
        /\ \A t \in Setups : t # u => SetupKept(t)
    BY <2>1, <2>3, SetupWrite DEF IsSetup
  <2>5. SetupKept(u)
    BY <2>2, <2>3, <2>4 DEF IsSetup, SetupKept
  <2> QED
    BY <2>4, <2>5 DEF SetupGood
<1> QED
  BY <1>2, <1>3

(* SetupFind, SetupClaimWarm and SetupCreate *)
LEMMA SetupTakes ==
  ASSUME TypeOK, NEW u \in Setups, NEW v \in VMs, UNCHANGED request,
         setup' = [setup EXCEPT ![u].pc = "tag", ![u].vm = v],
         \/ v = setup[u].reserved.vm /\ UNCHANGED instances
         \/ instances[v].state \in {"absent", "created"} /\ instances'[v].state = "inuse"
  PROVE  SetupGood
<1> DEFINE y == [setup[u] EXCEPT !.pc = "tag", !.vm = v]
<1>1. setup[u] \in SetupType
  BY DEF TypeOK, SetupType
<1>2. IsSetup(y, "tag", setup[u].capacity, setup[u].reserved, v)
  BY <1>1 DEF IsSetup, SetupType
<1>3. setup' = [setup EXCEPT ![u] = y]
  OBVIOUS
<1> HIDE DEF y
<1>4. /\ setup' \in [Setups -> SetupType] /\ setup'[u] = y
      /\ \A t \in Setups : t # u => SetupKept(t)
  BY <1>2, <1>3, SetupWrite DEF IsSetup
<1>5. SetupUses(u)
  BY <1>2, <1>4 DEF IsSetup, SetupUses
<1> QED
  BY <1>4, <1>5 DEF SetupGood

(* What the steps make of the setups. *)
LEMMA SetupSteps ==
  ASSUME TypeOK, [Next]_vars
  PROVE  SetupGood
<1>1. setup \in [Setups -> SetupType] /\ \A u \in Setups : setup[u] \in SetupType
  BY DEF TypeOK, SetupType
<1>2. CASE UNCHANGED setup
  BY <1>1, <1>2 DEF SetupGood, SetupKept
<1>3. CASE Tick
  <2>1. \A u \in Setups : setup'[u] = [setup[u] EXCEPT !.slow = setup[u].slow \/ InFlight(u)]
    BY <1>3 DEF Tick
  <2>2. ASSUME NEW u \in Setups
        PROVE  setup'[u] \in SetupType /\ SetupKept(u)
    <3> DEFINE slow == setup[u].slow \/ InFlight(u)
    <3>1. slow \in BOOLEAN
      OBVIOUS
    <3>2. setup'[u] = [setup[u] EXCEPT !.slow = slow]
      BY <2>1
    <3> HIDE DEF slow
    <3>3. IsSetup(setup'[u], setup[u].pc, setup[u].capacity, setup[u].reserved, setup[u].vm)
      BY <1>1, <3>1, <3>2 DEF IsSetup, SetupType
    <3> QED
      BY <3>3 DEF IsSetup, SetupKept
  <2>3. setup' \in [Setups -> SetupType]
    BY <1>3, <2>2 DEF Tick
  <2> QED
    BY <2>2, <2>3 DEF SetupGood
<1>4. ASSUME NEW u \in Setups, NEW s \in Stages, SetupClaim(u, s)
      PROVE  SetupGood
  <2>1. setup[u].pc = "idle"
    BY <1>4 DEF SetupClaim
  <2>2. CASE setup' = [setup EXCEPT ![u].pc = "provision", ![u].stage = s]
    <3> DEFINE y == [setup[u] EXCEPT !.pc = "provision", !.stage = s]
    <3>1. IsSetup(y, "provision", setup[u].capacity, setup[u].reserved, setup[u].vm)
      BY <1>1 DEF IsSetup, SetupType
    <3>2. setup' = [setup EXCEPT ![u] = y]
      BY <2>2
    <3> HIDE DEF y
    <3>3. /\ setup' \in [Setups -> SetupType] /\ setup'[u] = y
          /\ \A t \in Setups : t # u => SetupKept(t)
      BY <3>1, <3>2, SetupWrite DEF IsSetup
    <3>4. SetupKept(u)
      BY <3>1, <3>3 DEF IsSetup, SetupKept
    <3> QED
      BY <3>3, <3>4 DEF SetupGood
  <2>3. CASE /\ FindAndClaim(s, "inuse", {"created"})
             /\ setup' = [setup EXCEPT ![u].pc = "provision", ![u].stage = s,
                                       ![u].capacity = table[s].capacity,
                                       ![u].reserved = table[s].capacity]
    <3> DEFINE k == table[s].capacity
               y == [setup[u] EXCEPT !.pc = "provision", !.stage = s, !.capacity = k,
                                     !.reserved = k]
    <3>1. k \in Capacity \cup {Nothing}
      BY RowFields
    <3>2. setup' = [setup EXCEPT ![u] = y]
      BY <2>3
    <3> HIDE DEF k
    <3>3. IsSetup(y, "provision", k, k, setup[u].vm)
      BY <1>1, <3>1 DEF IsSetup, SetupType
    <3> HIDE DEF y
    <3>4. /\ setup' \in [Setups -> SetupType] /\ setup'[u] = y
          /\ \A t \in Setups : t # u => SetupKept(t)
      BY <3>2, <3>3, SetupWrite DEF IsSetup
    <3>5. table[s].state = "created" /\ table'[s].state = "inuse"
      BY <2>3, ClaimKeeps
    <3>6. SetupClaims(u)
      BY <2>1, <3>3, <3>4, <3>5 DEF IsSetup, SetupClaims, k
    <3> QED
      BY <3>4, <3>6 DEF SetupGood
  <2> QED
    BY <1>4, <2>2, <2>3 DEF SetupClaim
<1>5. ASSUME NEW u \in Setups, SetupFind(u)
      PROVE  SetupGood
  <2>1. setup[u].reserved.vm \in VMs
    <3>1. setup[u].reserved \in Capacity \cup {Nothing}
      BY <1>1 DEF SetupType
    <3> QED
      BY <1>5, <3>1, Capacities DEF SetupFind
  <2>2. CASE SetupTo(u, "destroy")
    BY <2>2, SetupMoves
  <2>3. CASE setup' = [setup EXCEPT ![u].pc = "tag", ![u].vm = setup[u].reserved.vm]
    <3>1. UNCHANGED <<instances, request>>
      BY <1>5 DEF SetupFind, SetupOnly
    <3> QED
      BY <2>1, <2>3, <3>1, SetupTakes
  <2> QED
    BY <1>5, <2>2, <2>3 DEF SetupFind
<1>6. ASSUME NEW u \in Setups, NEW v \in VMs, SetupClaimWarm(u, v) \/ SetupCreate(u, v)
      PROVE  SetupGood
  <2>1. /\ setup' = [setup EXCEPT ![u].pc = "tag", ![u].vm = v]
        /\ instances[v].state \in {"absent", "created"}
        /\ instances' = [instances EXCEPT ![v].state = "inuse"]
    BY <1>6 DEF SetupClaimWarm, SetupCreate
  <2>2. instances'[v].state = "inuse" /\ UNCHANGED request
    BY <1>6, <2>1 DEF TypeOK, SetupClaimWarm, SetupCreate, SetupOnly
  <2> QED
    BY <2>1, <2>2, SetupTakes
<1>7. ASSUME NEW u \in Setups,
             \/ SetupProvisionFails(u) \/ SetupTag(u) \/ SetupReady(u) \/ SetupCleanup(u)
             \/ SetupOwnerFails(u) \/ SetupCrash(u)
      PROVE  SetupGood
  BY <1>7, SetupMoves DEF SetupProvisionFails, SetupTag, SetupReady, SetupCleanup,
                          SetupOwnerFails, SetupCrash
<1> QED
  BY <1>2, <1>3, <1>4, <1>5, <1>6, <1>7, OnlySetup DEF SetupStep

-----------------------------------------------------------------------------
(* What a step does to the calls of DestroyCapacity. *)

(* The set of calls is written by its own steps and by the callers. *)
LEMMA OnlyDestroying ==
  ASSUME [Next]_vars
  PROVE  \/ UNCHANGED destroying
         \/ \E d \in destroying : DestroyStep(d) \/ DestroyCrash(d)
         \/ \E s \in Stages : CreateRow(s) \/ DestroyStage(s)
         \/ \E u \in Setups : \/ SetupFind(u) \/ SetupCleanup(u) \/ SetupOwnerFails(u)
                              \/ SetupCrash(u)
         \/ \E v \in VMs : ReapInstance(v)
         \/ \E k \in purger.todo : PurgeDestroy(k)
         \/ PurgerCrash
  BY DEF Next, vars, RequestStep, RequestCrash, ReserveWarm, ReserveCapacity, SetupStep, SeedVM,
         Purge, Tick, SetupClaim, SetupClaimWarm, SetupCreate, SetupProvisionFails, SetupTag,
         SetupReady, PurgeList, PurgeClaimFree, PurgeListInUse, PurgeClaimOrphan, PurgeEnd,
         PurgeSkip, PurgeLookup

CallMoves(d, e) ==
  /\ e \in CallType /\ e.capacity = d.capacity /\ e.by = d.by
  /\ \/ d.pc = "claim" /\ e.pc = IF d.capacity.vm # NoVM THEN "instance" ELSE "release"
     \/ /\ d.pc = "instance"
        /\ e.pc = IF d.capacity.reservation # NoReservation THEN "release" ELSE "delete"
     \/ /\ d.pc = "release" /\ e.pc = "delete"
        /\ \/ d.capacity.reservation \in Elsewhere
           \/ provider' = [provider EXCEPT ![d.capacity.reservation] = "gone"]

CallStarts(e) == e \in CallType /\ e.pc = "claim" /\ CopyNext(e.capacity)

(* A request's call goes on, or its reservation is released or lost. *)
CallFollowed(d) ==
  \/ \E e \in destroying' : e.by = d.by /\ e.capacity = d.capacity
  \/ d.by # "request"
  \/ d.pc = "delete"
  \/ ReservationOf(d.capacity) \subseteq stray'

CallsGood ==
  /\ \A e \in destroying' : \/ e \in destroying \/ CallStarts(e)
                            \/ \E d \in destroying : CallMoves(d, e)
  /\ \A d \in destroying : CallFollowed(d)

CopyInv == RequestInv /\ TableInv /\ SetupInv /\ CallInv

(* A caller starts a call for a copy of a capacity. *)
LEMMA StartGood ==
  ASSUME NEW k, NEW by \in Callers, k = Nothing \/ CopyNext(k), Start(k, by)
  PROVE  CallsGood
<1>1. CASE k = Nothing
  BY <1>1, CallsAre DEF Start, CallsGood, CallFollowed
<1>2. CASE k # Nothing
  <2>1. destroying' = destroying \cup {Call(k, by)}
    BY <1>2, CallsAre DEF Start
  <2>2. CopyNext(k) /\ k \in Capacity
    BY <1>2 DEF CopyNext
  <2>3. CallStarts(Call(k, by))
    BY <2>2, CallFields DEF CallStarts
  <2> QED
    BY <2>1, <2>3 DEF CallsGood, CallFollowed
<1> QED
  BY <1>1, <1>2

(* A call goes on. *)
LEMMA MoveGood ==
  ASSUME RecordInv, NEW d \in destroying, NEW pc \in {"instance", "release", "delete"},
         DestroyTo(d, pc), CallMoves(d, [d EXCEPT !.pc = pc])
  PROVE  CallsGood
<1> DEFINE e == [d EXCEPT !.pc = pc]
<1>1. destroying' = (destroying \ {d}) \cup {e}
  BY DEF DestroyTo
<1>2. e.by = d.by /\ e.capacity = d.capacity
  BY DEF CallMoves
<1> HIDE DEF e
<1>3. \A x \in destroying : CallFollowed(x)
  BY <1>1, <1>2 DEF CallFollowed
<1> QED
  BY <1>1, <1>3 DEF CallsGood, e

(* The steps of a call. *)
LEMMA CallSteps ==
  ASSUME RecordInv, NEW d \in destroying, DestroyStep(d) \/ DestroyCrash(d)
  PROVE  CallsGood
<1>1. d \in CallType
  BY DEF RecordInv
<1>2. \A pc \in {"instance", "release", "delete"} :
        /\ [d EXCEPT !.pc = pc] \in CallType /\ [d EXCEPT !.pc = pc].pc = pc
        /\ [d EXCEPT !.pc = pc].capacity = d.capacity /\ [d EXCEPT !.pc = pc].by = d.by
  BY <1>1 DEF CallType
<1>3. CASE ClaimForTermination(d)
  <2> DEFINE pc == IF d.capacity.vm # NoVM THEN "instance" ELSE "release"
  <2>1. pc \in {"instance", "release", "delete"}
    OBVIOUS
  <2>2. d.pc = "claim" /\ DestroyTo(d, pc)
    BY <1>3 DEF ClaimForTermination
  <2>3. CallMoves(d, [d EXCEPT !.pc = pc])
    BY <1>2, <2>1, <2>2 DEF CallMoves
  <2> QED
    BY <2>1, <2>2, <2>3, MoveGood
<1>4. CASE DestroyInstance(d)
  <2> DEFINE pc == IF d.capacity.reservation # NoReservation THEN "release" ELSE "delete"
  <2>1. pc \in {"instance", "release", "delete"}
    OBVIOUS
  <2>2. d.pc = "instance" /\ DestroyTo(d, pc)
    BY <1>4 DEF DestroyInstance
  <2>3. CallMoves(d, [d EXCEPT !.pc = pc])
    BY <1>2, <2>1, <2>2 DEF CallMoves
  <2> QED
    BY <2>1, <2>2, <2>3, MoveGood
<1>5. ASSUME Return(d), d.pc = "delete" \/ stray' = stray \cup LostWith(d)
      PROVE  CallsGood
  <2>1. destroying' = destroying \ {d}
    BY <1>5 DEF Return
  <2>2. CallFollowed(d)
    BY <1>5 DEF CallFollowed, LostWith
  <2> QED
    BY <2>1, <2>2 DEF CallsGood, CallFollowed
<1>6. CASE ReleaseCapacity(d)
  <2>1. CASE /\ DestroyTo(d, "delete")
             /\ \/ d.capacity.reservation \in Elsewhere
                \/ provider' = [provider EXCEPT ![d.capacity.reservation] = "gone"]
    <3>1. CallMoves(d, [d EXCEPT !.pc = "delete"])
      BY <1>2, <1>6, <2>1 DEF CallMoves, ReleaseCapacity
    <3> QED
      BY <2>1, <3>1, MoveGood
  <2> QED
    BY <1>5, <1>6, <2>1 DEF ReleaseCapacity
<1>7. CASE DeleteRecord(d)
  BY <1>5, <1>7 DEF DeleteRecord
<1>8. CASE DestroyCrash(d)
  BY <1>5, <1>8 DEF DestroyCrash
<1> QED
  BY <1>3, <1>4, <1>6, <1>7, <1>8 DEF DestroyStep

(* What the steps make of the calls. *)
LEMMA CallsStep ==
  ASSUME TypeOK, RecordInv, CopyInv, [Next]_vars
  PROVE  CallsGood
<1>1. \A s \in Stages : table[s].capacity = Nothing \/ CopyNext(table[s].capacity)
  BY CopyKept DEF CopyInv, TableInv
<1>2. \A u \in Setups : /\ setup[u].capacity = Nothing \/ CopyNext(setup[u].capacity)
                        /\ setup[u].reserved = Nothing \/ CopyNext(setup[u].reserved)
  BY CopyKept DEF CopyInv, SetupInv
<1>3. CASE UNCHANGED destroying
  BY <1>3 DEF CallsGood, CallFollowed
<1>4. ASSUME NEW s \in Stages, CreateRow(s)
      PROVE  CallsGood
  <2>1. CopyNext(request[s].capacity)
    <3>1. request[s].capacity \in Capacity /\ request[s].capacity.stage = s
      BY <1>4, Capacities DEF CopyInv, RequestInv, CreateRow, Cap
    <3>2. request'[s].pc = "done" /\ request'[s].capacity = request[s].capacity
      BY <1>4 DEF CreateRow, RequestTo, TypeOK
    <3> QED
      BY <3>1, <3>2 DEF CopyNext
  <2>2. CASE Start(request[s].capacity, "request")
    BY <2>1, <2>2, StartGood DEF Callers
  <2> QED
    BY <1>3, <1>4, <2>2 DEF CreateRow
<1>5. ASSUME NEW s \in Stages, DestroyStage(s)
      PROVE  CallsGood
  BY <1>1, <1>3, <1>5, StartGood DEF DestroyStage, Callers
<1>6. ASSUME NEW u \in Setups, SetupFind(u) \/ SetupCleanup(u) \/ SetupOwnerFails(u)
      PROVE  CallsGood
  <2>1. u \in Callers
    BY DEF Callers
  <2>2. Start(setup[u].reserved, u) \/ Start(setup[u].capacity, u) \/ UNCHANGED destroying
    BY <1>6 DEF SetupFind, SetupCleanup, SetupOwnerFails
  <2> QED
    BY <1>2, <1>3, <2>1, <2>2, StartGood
<1>7. ASSUME NEW by \in Callers, by # "request", destroying' = {d \in destroying : d.by # by}
      PROVE  CallsGood
  BY <1>7 DEF CallsGood, CallFollowed
<1>8. ASSUME NEW u \in Setups, SetupCrash(u)
      PROVE  CallsGood
  <2>1. u \in Callers /\ u # "request"
    BY CallerAssumption DEF Callers
  <2> QED
    BY <1>7, <1>8, <2>1 DEF SetupCrash
<1>9. CASE PurgerCrash
  BY <1>7, <1>9 DEF PurgerCrash, Callers
<1>10. ASSUME NEW v \in VMs, ReapInstance(v)
       PROVE  CallsGood
  BY <1>1, <1>3, <1>10, StartGood DEF ReapInstance, Callers
<1>11. ASSUME NEW k \in purger.todo, PurgeDestroy(k)
       PROVE  CallsGood
  <2>1. CopyNext(k)
    BY CopyKept DEF CopyInv, CallInv
  <2> QED
    BY <1>11, <2>1, StartGood DEF PurgeDestroy, Callers
<1> QED
  BY <1>3, <1>4, <1>5, <1>6, <1>8, <1>9, <1>10, <1>11, CallSteps, OnlyDestroying

-----------------------------------------------------------------------------
(* What a step does to the purger. *)

PurgerGood ==
  /\ purger' \in PurgerType
  /\ purger'.pc = "claim" => purger'.claiming \in Stages
  /\ \A k \in purger'.todo : k \in purger.todo \/ Copy(k)

(* The capacities of rows that are there. *)
LEMMA CapacitiesAre ==
  ASSUME TypeOK, TableInv, NEW stages, \A s \in stages : s \in Stages /\ table[s].state # "none"
  PROVE  CapacitiesOf(stages) \subseteq Capacity /\ \A k \in CapacitiesOf(stages) : Copy(k)
  BY DEF CapacitiesOf, TableInv, Copy

(* What the steps make of it. *)
LEMMA PurgerSteps ==
  ASSUME TypeOK, RecordInv, TableInv, [Next]_vars
  PROVE  PurgerGood
<1>1. /\ purger \in PurgerType
      /\ purger.old \subseteq Stages /\ purger.candidates \subseteq Stages
      /\ purger.todo \subseteq Capacity
  BY DEF RecordInv, TypeOK
<1>2. CASE UNCHANGED purger
  BY <1>2 DEF RecordInv, PurgerGood
<1>3. CASE purger' = IdlePurger
  BY <1>3 DEF IdlePurger, PurgerType, PurgerGood
<1>4. CASE PurgeList
  <2>1. PICK stages \in {Terminating, {}} :
          purger' = [purger EXCEPT !.pc = "free", !.old = Old, !.todo = CapacitiesOf(stages)]
    BY <1>4 DEF PurgeList
  <2>2. \A s \in stages : s \in Stages /\ table[s].state # "none"
    BY <2>1 DEF Terminating, Old
  <2>3. CapacitiesOf(stages) \subseteq Capacity /\ \A k \in CapacitiesOf(stages) : Copy(k)
    BY <2>2, CapacitiesAre
  <2>4. Old \subseteq Stages
    BY DEF Old
  <2> QED
    BY <1>1, <2>1, <2>3, <2>4 DEF PurgerType, PurgerGood
<1>5. CASE PurgeClaimFree
  <2>1. PICK stages \in {Stale({"created"}), {}} :
          purger' = [purger EXCEPT !.pc = "inuse", !.todo = @ \cup CapacitiesOf(stages)]
    BY <1>5 DEF PurgeClaimFree
  <2>2. \A s \in stages : s \in Stages /\ table[s].state # "none"
    BY <1>1, <2>1 DEF Stale
  <2>3. CapacitiesOf(stages) \subseteq Capacity /\ \A k \in CapacitiesOf(stages) : Copy(k)
    BY <2>2, CapacitiesAre
  <2> QED
    BY <1>1, <2>1, <2>3 DEF PurgerType, PurgerGood
<1>6. CASE PurgeListInUse
  <2>1. PICK stages \in {Stale({"inuse"}), {}} :
          purger' = [purger EXCEPT !.pc = "orphans", !.old = {}, !.candidates = stages]
    BY <1>6 DEF PurgeListInUse
  <2>2. stages \subseteq Stages
    BY <1>1, <2>1 DEF Stale
  <2> QED
    BY <1>1, <2>1, <2>2 DEF PurgerType, PurgerGood
<1>7. ASSUME NEW s \in Stages, PurgeSkip(s)
      PROVE  PurgerGood
  <2>1. purger' = [purger EXCEPT !.candidates = @ \ {s}] /\ purger.pc = "orphans"
    BY <1>7 DEF PurgeSkip
  <2> QED
    BY <1>1, <2>1 DEF PurgerType, PurgerGood
<1>8. ASSUME NEW s \in Stages, PurgeLookup(s)
      PROVE  PurgerGood
  <2>1. purger' = [purger EXCEPT !.pc = "claim", !.candidates = @ \ {s}, !.claiming = s]
    BY <1>8 DEF PurgeLookup
  <2> QED
    BY <1>1, <2>1 DEF PurgerType, PurgerGood
<1>9. CASE PurgeClaimOrphan
  <2> DEFINE s == purger.claiming
  <2>1. CASE /\ FindAndClaim(s, "terminating", {"inuse"})
             /\ purger' = [purger EXCEPT !.pc = "orphans", !.claiming = NoStage,
                                         !.todo = @ \cup {table[s].capacity}]
    <3>1. s \in Stages
      BY <1>9 DEF PurgeClaimOrphan, RecordInv
    <3>2. table[s].capacity \in Capacity /\ Copy(table[s].capacity)
      BY <2>1, <3>1 DEF FindAndClaim, TableInv, Copy
    <3> QED
      BY <1>1, <2>1, <3>2 DEF PurgerType, PurgerGood
  <2>2. CASE purger' = [purger EXCEPT !.pc = "orphans", !.claiming = NoStage]
    BY <1>1, <2>2 DEF PurgerType, PurgerGood
  <2> QED
    BY <1>9, <2>1, <2>2 DEF PurgeClaimOrphan
<1>10. ASSUME NEW k \in purger.todo, PurgeDestroy(k)
       PROVE  PurgerGood
  <2>1. purger' = [purger EXCEPT !.todo = @ \ {k}] /\ purger.pc = "orphans"
    BY <1>10 DEF PurgeDestroy
  <2> QED
    BY <1>1, <2>1 DEF PurgerType, PurgerGood
<1> QED
  BY <1>2, <1>3, <1>4, <1>5, <1>6, <1>7, <1>8, <1>9, <1>10, OnlyPurger
     DEF Purge, PurgeEnd, PurgerCrash

-----------------------------------------------------------------------------
(* The parts of the invariant. *)

(* No two requests have the same VM or reservation. *)
LEMMA RequestInvStep ==
  ASSUME TypeOK, RequestInv, HeldInv, [Next]_vars
  PROVE  RequestInv' /\ HeldInv'
<1>1. /\ \A c \in Reservations : provider[c] # "absent" => provider'[c] # "absent"
      /\ \A v \in VMs : instances[v].state \in {"inuse", "gone"}
                          => instances'[v].state \in {"inuse", "gone"}
  BY ProviderSteps, InstanceSteps
<1>2. \A s \in Stages : /\ Cap(s) \in Capacity \cup {Nothing}
                        /\ Cap(s).vm \in VMs \cup {NoVM}
                        /\ Cap(s).reservation \in Reservations \cup {NoReservation}
  BY Capacities DEF TypeOK, Cap
<1>3. CASE \A s \in Stages : /\ request'[s].capacity = request[s].capacity
                             /\ \/ request'[s].pc = request[s].pc
                                \/ request[s].pc = "create" /\ request'[s].pc = "done"
  <2>1. RequestInv'
    BY <1>3 DEF RequestInv, Cap
  <2>2. HeldInv'
    BY <1>1, <1>2, <1>3 DEF HeldInv, Cap
  <2> QED
    BY <2>1, <2>2
<1>4. ASSUME NEW s \in Stages, Reserves(s)
      PROVE  RequestInv' /\ HeldInv'
  <2>1. \A t \in Stages : t # s => request'[t] = request[t]
    BY <1>4 DEF Reserves
  <2>2. RequestInv'
    BY <1>4, <2>1 DEF RequestInv, Reserves, Cap
  <2>3. \/ /\ Cap(s)'.vm \in VMs /\ Cap(s)'.reservation = NoReservation
           /\ instances[Cap(s)'.vm].state = "created" /\ instances'[Cap(s)'.vm].state = "inuse"
        \/ /\ Cap(s)'.reservation \in Reservations /\ Cap(s)'.vm = NoVM
           /\ provider[Cap(s)'.reservation] = "absent" /\ provider'[Cap(s)'.reservation] = "held"
    BY <1>4, Capacities DEF Reserves, Cap
  <2>4. \A t \in Stages : t # s =>
          /\ Cap(t)' = Cap(t)
          /\ Cap(t).reservation # NoReservation => Cap(t).reservation # Cap(s)'.reservation
          /\ Cap(t).vm # NoVM => Cap(t).vm # Cap(s)'.vm
    BY <2>1, <2>3 DEF HeldInv, Cap
  <2>5. ASSUME NEW x \in Stages, Cap(x)'.reservation # NoReservation
        PROVE  /\ provider'[Cap(x)'.reservation] # "absent"
               /\ \A t \in Stages : Cap(t)'.reservation = Cap(x)'.reservation => t = x
    <3>1. CASE x = s
      BY <2>3, <2>4, <2>5, <3>1
    <3>2. CASE x # s
      BY <1>1, <1>2, <2>4, <2>5, <3>2 DEF HeldInv
    <3> QED
      BY <3>1, <3>2
  <2>6. ASSUME NEW x \in Stages, Cap(x)'.vm # NoVM
        PROVE  /\ instances'[Cap(x)'.vm].state \in {"inuse", "gone"}
               /\ \A t \in Stages : Cap(t)'.vm = Cap(x)'.vm => t = x
    <3>1. CASE x = s
      BY <2>3, <2>4, <2>6, <3>1
    <3>2. CASE x # s
      BY <1>1, <1>2, <2>4, <2>6, <3>2 DEF HeldInv
    <3> QED
      BY <3>1, <3>2
  <2> QED
    BY <2>2, <2>5, <2>6 DEF HeldInv
<1> QED
  BY <1>3, <1>4, RequestSteps

(* The rows hold copies. *)
LEMMA TableInvStep ==
  ASSUME TypeOK, RecordInv, RequestInv, TableInv, [Next]_vars
  PROVE  TableInv'
<1> SUFFICES ASSUME NEW s \in Stages
             PROVE  /\ table'[s].state = "none" => table'[s].capacity = Nothing
                    /\ table'[s].state # "none" =>
                         CopyNext(table'[s].capacity) /\ table'[s].capacity.stage = s
  BY DEF TableInv, Copy, CopyNext, Cap
<1>1. CASE RowKept(s)
  BY <1>1, CopyKept DEF RowKept, TableInv
<1>2. CASE RowInserted(s)
  <2>1. Cap(s) \in Capacity /\ Cap(s).stage = s
    BY <1>2, Capacities DEF RowInserted, RequestInv
  <2>2. request'[s].capacity = Cap(s)
    BY <1>2, RequestSteps DEF RowInserted, Reserves, Cap
  <2> QED
    BY <1>2, <2>1, <2>2 DEF RowInserted, CopyNext
<1>3. CASE RowDeleted(s)
  BY <1>3, NoRowIs DEF RowDeleted
<1> QED
  BY <1>1, <1>2, <1>3, TableSteps

(* A setup holds the copy it claimed, and no other setup does. *)
LEMMA SetupInvStep ==
  ASSUME TypeOK, RecordInv, TableInv, SetupInv, OneUser, [Next]_vars
  PROVE  SetupInv' /\ OneUser'
<1>1. ASSUME NEW k, Copy(k), table[k.stage].state # "created"
      PROVE  CopyNext(k) /\ table'[k.stage].state # "created"
  <2>1. CopyNext(k) /\ k.stage \in Stages /\ request[k.stage].pc = "done"
    BY <1>1, CopyKept, Capacities DEF Copy
  <2>2. ~RowInserted(k.stage)
    BY <2>1 DEF RowInserted
  <2>3. RowKept(k.stage) \/ RowDeleted(k.stage)
    BY <2>1, <2>2, TableSteps
  <2> QED
    BY <1>1, <2>1, <2>3, NoRowIs DEF RowKept, RowDeleted
<1> DEFINE Fine(u) ==
      /\ setup'[u].capacity # Nothing =>
           /\ CopyNext(setup'[u].capacity)
           /\ table'[setup'[u].capacity.stage].state # "created"
      /\ setup'[u].reserved \in {Nothing, setup'[u].capacity}
      /\ setup'[u].pc = "idle" => setup'[u].capacity = Nothing /\ setup'[u].vm = NoVM
<1>2. ASSUME NEW u \in Setups, SetupKept(u)
      PROVE  Fine(u)
  BY <1>1, <1>2 DEF SetupKept, SetupInv
<1>3. ASSUME NEW u \in Setups, SetupUses(u)
      PROVE  Fine(u)
  BY <1>1, <1>3 DEF SetupUses, SetupInv
<1>4. ASSUME NEW u \in Setups, SetupClaims(u)
      PROVE  Fine(u) /\ \A t \in Setups : t # u /\ SetupKept(t) /\ setup'[t].capacity # Nothing
                                            => setup'[t].capacity # setup'[u].capacity
  <2>1. PICK s \in Stages :
          /\ table[s].state = "created" /\ table'[s].state = "inuse"
          /\ setup'[u].capacity = table[s].capacity /\ setup'[u].reserved = table[s].capacity
    BY <1>4 DEF SetupClaims
  <2>2. Copy(table[s].capacity) /\ table[s].capacity.stage = s
    BY <2>1 DEF TableInv
  <2>3. Fine(u)
    BY <1>4, <2>1, <2>2, CopyKept DEF SetupClaims
  <2>4. ASSUME NEW t \in Setups, SetupKept(t), setup'[t].capacity # Nothing
        PROVE  setup'[t].capacity # setup'[u].capacity
    <3>1. table[setup[t].capacity.stage].state # "created"
      BY <2>4 DEF SetupKept, SetupInv
    <3> QED
      BY <2>1, <2>2, <2>4, <3>1 DEF SetupKept
  <2> QED
    BY <2>3, <2>4
<1>5. \A u \in Setups : Fine(u)
  BY <1>2, <1>3, <1>4, SetupSteps DEF SetupGood
<1>6. SetupInv'
  BY <1>5 DEF SetupInv, Copy, CopyNext, Cap
<1>7. ASSUME NEW t \in Setups, NEW u \in Setups, t # u, setup'[t].capacity # Nothing
      PROVE  setup'[t].capacity # setup'[u].capacity
  <2>1. CASE /\ setup'[t].capacity = setup[t].capacity
             /\ setup'[u].capacity = setup[u].capacity
    BY <1>7, <2>1 DEF OneUser
  <2>2. CASE SetupClaims(u) /\ SetupKept(t)
    BY <1>4, <1>7, <2>2
  <2>3. CASE SetupClaims(t) /\ SetupKept(u)
    <3>1. CASE setup'[u].capacity = Nothing
      BY <1>7, <3>1
    <3>2. CASE setup'[u].capacity # Nothing
      BY <1>4, <1>7, <2>3, <3>2
    <3> QED
      BY <3>1, <3>2
  <2> QED
    BY <1>7, <2>1, <2>2, <2>3, SetupSteps DEF SetupGood, SetupKept, SetupUses
<1>8. OneUser'
  BY <1>7 DEF OneUser
<1> QED
  BY <1>6, <1>8

(* The calls hold copies, and go in order. *)
LEMMA CallInvStep ==
  ASSUME TypeOK, RecordInv, CopyInv, [Next]_vars
  PROVE  CallInv' /\ RecordInv'
<1>1. \A k : Copy(k) => CopyNext(k)
  BY CopyKept
<1>2. \A k \in purger'.todo : CopyNext(k)
  BY <1>1, PurgerSteps DEF PurgerGood, CopyInv, CallInv
<1>3. ASSUME NEW e \in destroying'
      PROVE  /\ e \in CallType /\ CopyNext(e.capacity)
             /\ e.pc = "release" => e.capacity.reservation # NoReservation
             /\ e.pc = "delete" /\ e.capacity.reservation \in Reachable =>
                  provider'[e.capacity.reservation] = "gone"
  <2>1. CASE e \in destroying
    <3>1. /\ e \in CallType /\ Copy(e.capacity)
          /\ e.pc = "release" => e.capacity.reservation # NoReservation
          /\ e.pc = "delete" /\ e.capacity.reservation \in Reachable =>
               provider[e.capacity.reservation] = "gone"
      BY <2>1 DEF RecordInv, CopyInv, CallInv
    <3>2. e.capacity.reservation \in Reservations \cup {NoReservation}
      BY <3>1, Capacities DEF Copy
    <3> QED
      BY <1>1, <3>1, <3>2, ProviderSteps DEF Reachable
  <2>2. CASE CallStarts(e)
    BY <2>2 DEF CallStarts
  <2>3. ASSUME NEW d \in destroying, CallMoves(d, e)
        PROVE  /\ e \in CallType /\ CopyNext(e.capacity)
               /\ e.pc = "release" => e.capacity.reservation # NoReservation
               /\ e.pc = "delete" /\ e.capacity.reservation \in Reachable =>
                    provider'[e.capacity.reservation] = "gone"
    <3>1. Copy(d.capacity) /\ e.capacity = d.capacity /\ e \in CallType
      BY <2>3 DEF CopyInv, CallInv, CallMoves
    <3>2. d.capacity.reservation \in Reservations \cup {NoReservation}
      BY <3>1, Capacities DEF Copy
    <3>3. d.capacity.vm = NoVM => d.capacity.reservation # NoReservation
      <4>1. d.capacity.stage \in Stages /\ d.capacity = Cap(d.capacity.stage)
            /\ request[d.capacity.stage].pc = "done"
        BY <3>1, Capacities DEF Copy
      <4> QED
        BY <4>1, Capacities, NoneAssumption DEF CopyInv, RequestInv
    <3>4. e.pc = "release" => e.capacity.reservation # NoReservation
      BY <2>3, <3>1, <3>3 DEF CallMoves
    <3>5. ASSUME e.pc = "delete", e.capacity.reservation \in Reachable
          PROVE  provider'[e.capacity.reservation] = "gone"
      BY <2>3, <3>1, <3>2, <3>5, NoneAssumption DEF CallMoves, TypeOK, Reachable
    <3> QED
      BY <1>1, <3>1, <3>4, <3>5
  <2> QED
    BY <2>1, <2>2, <2>3, CallsStep DEF CallsGood
<1>4. CallInv'
  BY <1>2, <1>3 DEF CallInv, Copy, CopyNext, Cap
<1>5. RecordInv'
  BY <1>3, PurgerSteps DEF RecordInv, PurgerGood, CopyInv
<1> QED
  BY <1>4, <1>5

(* A VM that a stage has reserved has one user. *)
LEMMA UserInvStep ==
  ASSUME TypeOK, HeldInv, SetupInv, UserInv, [Next]_vars
  PROVE  UserInv'
<1>1. \A v \in VMs : instances[v].state \in {"inuse", "gone"}
                       => instances'[v].state \in {"inuse", "gone"}
  BY InstanceSteps
<1>2. \A s \in Stages : /\ Cap(s) \in Capacity \cup {Nothing}
                        /\ Cap(s).vm \in VMs \cup {NoVM}
  BY Capacities DEF TypeOK, Cap
<1>3. \A u \in Setups : /\ setup[u].vm \in VMs \cup {NoVM}
                        /\ setup[u].reserved \in Capacity \cup {Nothing}
  BY DEF TypeOK
<1>4. ASSUME NEW v \in VMs, instances[v].state \in {"inuse", "gone"},
             NEW s \in Stages, Cap(s)'.vm = v
      PROVE  Cap(s)' = Cap(s)
  <2>1. ASSUME Reserves(s)
        PROVE  FALSE
    BY <1>4, <2>1, Capacities, NoneAssumption DEF Reserves, Cap
  <2> QED
    BY <2>1, RequestSteps DEF Reserves, Cap
<1>5. ASSUME NEW u \in Setups, SetupKept(u), setup'[u].vm # NoVM
      PROVE  /\ instances'[setup'[u].vm].state \in {"inuse", "gone"}
             /\ \A s \in Stages : Cap(s)'.vm = setup'[u].vm => setup'[u].capacity = Cap(s)'
  <2>1. /\ setup'[u].vm = setup[u].vm /\ setup'[u].capacity = setup[u].capacity
        /\ setup[u].vm \in VMs
    BY <1>3, <1>5 DEF SetupKept
  <2> QED
    BY <1>1, <1>4, <2>1, <1>5 DEF UserInv
<1>6. ASSUME NEW u \in Setups, SetupUses(u)
      PROVE  /\ instances'[setup'[u].vm].state \in {"inuse", "gone"}
             /\ \A s \in Stages : Cap(s)'.vm = setup'[u].vm => setup'[u].capacity = Cap(s)'
  <2>1. /\ \A s \in Stages : Cap(s)' = Cap(s)
        /\ setup'[u].vm \in VMs /\ setup'[u].vm # NoVM
        /\ setup'[u].capacity = setup[u].capacity
    BY <1>6, NoneAssumption DEF SetupUses, Cap
  <2>2. CASE setup'[u].vm = setup[u].reserved.vm /\ UNCHANGED instances
    <3>1. setup[u].reserved = setup[u].capacity /\ setup[u].capacity # Nothing
      BY <1>3, <2>1, <2>2, Capacities DEF SetupInv
    <3>2. Copy(setup[u].capacity)
      BY <3>1 DEF SetupInv
    <3>3. setup[u].capacity.stage \in Stages /\ setup[u].capacity = Cap(setup[u].capacity.stage)
      BY <3>2, Capacities DEF Copy
    <3> QED
      BY <2>1, <2>2, <3>1, <3>3 DEF HeldInv
  <2>3. CASE /\ instances[setup'[u].vm].state \in {"absent", "created"}
             /\ instances'[setup'[u].vm].state = "inuse"
    BY <2>1, <2>3 DEF HeldInv
  <2> QED
    BY <1>6, <2>2, <2>3 DEF SetupUses
<1>7. ASSUME NEW u \in Setups, SetupClaims(u)
      PROVE  setup'[u].vm = NoVM
  BY <1>7 DEF SetupClaims, SetupInv
<1> QED
  BY <1>5, <1>6, <1>7, SetupSteps DEF SetupGood, UserInv

(* A reservation that is held is tracked. *)
LEMMA TrackedStep ==
  ASSUME TypeOK, RecordInv, CopyInv, ReservationTracked, [Next]_vars
  PROVE  ReservationTracked'
<1> DEFINE InRow(c) == \E s \in Stages : table'[s].capacity.reservation = c
           Asked(c) == \E s \in Stages : /\ request'[s].pc = "create"
                                         /\ request'[s].capacity.reservation = c
           Called(c) == \E d \in destroying' : d.by = "request" /\ d.capacity.reservation = c
<1> SUFFICES ASSUME NEW c \in Reachable, provider'[c] = "held"
             PROVE  InRow(c) \/ Asked(c) \/ Called(c) \/ c \in stray'
  BY DEF ReservationTracked
<1>1. c # NoReservation /\ c \in Reservations
  BY NoneAssumption DEF Reachable
<1>2. ASSUME NEW s \in Stages, ReserveCapacity(s, c)
      PROVE  Asked(c)
  <2>1. request'[s] = [pc |-> "create", capacity |-> Reserved(s, c)]
    BY <1>2 DEF ReserveCapacity, TypeOK
  <2> QED
    BY <1>1, <2>1, Capacities
<1>3. CASE provider[c] = "held"
  <2>1. \A d \in destroying : d.pc = "delete" => d.capacity.reservation # c
    BY <1>1, <1>3 DEF CopyInv, CallInv
  <2>2. ASSUME NEW s \in Stages, table[s].capacity.reservation = c
        PROVE  InRow(c)
    <3>1. table[s].state # "none" /\ table[s].capacity = Cap(s) /\ request[s].pc = "done"
      BY <1>1, <2>2, Capacities DEF CopyInv, TableInv, Copy
    <3>2. ~RowInserted(s)
      BY <3>1 DEF RowInserted
    <3>3. ~RowDeleted(s)
      <4> SUFFICES ASSUME NEW d \in destroying, d.capacity.stage = s, d.pc = "delete"
                   PROVE  FALSE
        BY DEF RowDeleted, DeleteRecord
      <4>1. d.capacity = Cap(s)
        BY DEF CopyInv, CallInv, Copy
      <4> QED
        BY <2>1, <2>2, <3>1, <4>1
    <3> QED
      BY <2>2, <3>2, <3>3, TableSteps DEF RowKept
  <2>3. ASSUME NEW s \in Stages, request[s].pc = "create", request[s].capacity.reservation = c
        PROVE  InRow(c) \/ Asked(c) \/ Called(c) \/ c \in stray'
    <3>1. CASE request'[s] = request[s]
      BY <2>3, <3>1
    <3>2. CASE RequestCrash(s)
      BY <1>1, <2>3, <3>2 DEF RequestCrash, ReservationOf
    <3>3. CASE CreateRow(s)
      <4>1. CASE Start(request[s].capacity, "request")
        <5>1. request[s].capacity # Nothing /\ request[s].capacity \in Capacity
          BY <1>1, <2>3, Capacities DEF TypeOK
        <5>2. Call(request[s].capacity, "request") \in destroying'
          BY <4>1, <5>1, CallsAre DEF Start
        <5>3. /\ Call(request[s].capacity, "request").by = "request"
              /\ Call(request[s].capacity, "request").capacity = request[s].capacity
          BY DEF Call
        <5> QED
          BY <2>3, <5>2, <5>3
      <4>2. CASE table' = [table EXCEPT ![s] = [state |-> "created", age |-> 0,
                                                capacity |-> request[s].capacity]]
        BY <2>3, <4>2 DEF TypeOK
      <4> QED
        BY <3>3, <4>1, <4>2 DEF CreateRow
    <3> QED
      BY <2>3, <3>1, <3>2, <3>3, OnlyRequest
         DEF TypeOK, ReserveWarm, ReserveCapacity, CreateRow, RequestCrash, RequestTo
  <2>4. ASSUME NEW d \in destroying, d.by = "request", d.capacity.reservation = c
        PROVE  Called(c) \/ c \in stray'
    <3>1. CallFollowed(d)
      BY CallsStep DEF CallsGood
    <3> QED
      BY <1>1, <2>1, <2>4, <3>1 DEF CallFollowed, ReservationOf
  <2>5. stray \subseteq stray'
    BY OnlyStray DEF RequestCrash, DestroyCrash, ReleaseCapacity
  <2> QED
    BY <1>3, <2>2, <2>3, <2>4, <2>5 DEF ReservationTracked
<1> QED
  BY <1>1, <1>2, <1>3, ProviderSteps

-----------------------------------------------------------------------------
(* The types. *)

(* The crashes are counted. *)
LEMMA CrashesStep ==
  ASSUME TypeOK, [Next]_vars
  PROVE  crashes' \in 0 .. MaxCrashes
<1>1. UNCHANGED crashes \/ Crash
  BY DEF Next, vars, RequestStep, RequestCrash, ReserveWarm, ReserveCapacity, CreateRow,
         DestroyStage, SetupStep, SetupCrash, SeedVM, ReapInstance, DestroyStep, DestroyCrash,
         Purge, PurgerCrash, Tick, SetupOnly, PurgeOnly, DestroyOnly, SetupClaim, SetupFind,
         SetupClaimWarm, SetupCreate, SetupProvisionFails, SetupTag, SetupReady, SetupCleanup,
         SetupOwnerFails, ClaimForTermination, DestroyInstance, ReleaseCapacity, DeleteRecord,
         PurgeList, PurgeClaimFree, PurgeListInUse, PurgeClaimOrphan, PurgeEnd, PurgeSkip,
         PurgeLookup, PurgeDestroy
<1>2. crashes \in 0 .. MaxCrashes
  BY DEF TypeOK
<1> QED
  BY <1>1, <1>2, BoundsAssumption DEF Crash

(* What is lost is a reservation. *)
LEMMA StrayStep ==
  ASSUME TypeOK, RecordInv, [Next]_vars
  PROVE  stray' \subseteq Reservations
<1>1. stray \subseteq Reservations
  BY DEF TypeOK
<1>2. \A k \in Capacity \cup {Nothing} : ReservationOf(k) \subseteq Reservations
  BY Capacities DEF ReservationOf
<1>3. ASSUME NEW s \in Stages, RequestCrash(s)
      PROVE  stray' \subseteq Reservations
  <2>1. request[s].capacity \in Capacity \cup {Nothing}
    BY DEF TypeOK
  <2>2. stray' = stray \cup ReservationOf(request[s].capacity)
    BY <1>3 DEF RequestCrash
  <2> QED
    BY <1>1, <1>2, <2>1, <2>2
<1>4. ASSUME NEW d \in destroying, DestroyCrash(d) \/ ReleaseCapacity(d)
      PROVE  stray' \subseteq Reservations
  <2>1. ReservationOf(d.capacity) \subseteq Reservations
    BY <1>2 DEF TypeOK
  <2>2. UNCHANGED stray \/ stray' = stray \cup LostWith(d)
    BY <1>4 DEF DestroyCrash, ReleaseCapacity
  <2> QED
    BY <1>1, <2>1, <2>2 DEF LostWith
<1> QED
  BY <1>1, <1>3, <1>4, OnlyStray

(* Every step keeps the types. *)
LEMMA TypeStep ==
  ASSUME TypeOK, RecordInv, CopyInv, [Next]_vars
  PROVE  TypeOK'
<1>1. /\ table' \in [Stages -> Row]
      /\ provider' \in [Reservations -> {"absent", "held", "gone"}]
      /\ instances' \in [VMs -> InstanceType]
      /\ request' \in [Stages -> RequestType]
  BY TableSteps, ProviderSteps, InstanceSteps, RequestSteps
<1>2. setup' \in [Setups -> SetupType]
  BY SetupSteps DEF SetupGood
<1>3. TableInv' /\ CallInv' /\ RecordInv'
  BY TableInvStep, CallInvStep DEF CopyInv
<1>4. ASSUME NEW s \in Stages
      PROVE  table'[s].capacity.stage = NoStage <=> table'[s].state = "none"
  BY <1>3, Capacities, NoneAssumption DEF TableInv
<1>5. ASSUME NEW d \in destroying'
      PROVE  /\ d.capacity \in Capacity
             /\ d.by \in Setups \cup {"request", "destroy", "reaper", "purger"}
             /\ d.pc \in {"claim", "instance", "release", "delete"}
             /\ d.pc = "release" => d.capacity.reservation \in Reservations
  <2>1. d \in CallType /\ (d.pc = "release" => d.capacity.reservation # NoReservation)
    BY <1>3 DEF RecordInv, CallInv
  <2>2. /\ d.capacity \in Capacity /\ d.by \in Callers
        /\ d.pc \in {"claim", "instance", "release", "delete"}
    BY <2>1, CallFields
  <2> QED
    BY <2>1, <2>2, Capacities DEF Callers
<1>6. /\ purger'.pc \in {"idle", "free", "inuse", "orphans", "claim"}
      /\ purger'.old \subseteq Stages /\ purger'.candidates \subseteq Stages
      /\ purger'.claiming \in Stages \cup {NoStage}
      /\ purger'.todo \subseteq Capacity
  BY <1>3 DEF RecordInv, PurgerType
<1> QED
  BY <1>1, <1>2, <1>4, <1>5, <1>6, CrashesStep, StrayStep
     DEF TypeOK, InstanceType, RequestType, SetupType

-----------------------------------------------------------------------------
(* The theorems. *)

(* Initially there are no rows, and nobody holds a capacity. *)
LEMMA IInvInit == Init => IInv
<1> SUFFICES ASSUME Init
             PROVE  IInv
  OBVIOUS
<1>1. /\ \A s \in Stages : /\ table[s] = NoRow /\ request[s].pc = "idle"
                           /\ request[s].capacity = Nothing
      /\ \A c \in Reservations : provider[c] = "absent"
      /\ \A u \in Setups : /\ setup[u].pc = "idle" /\ setup[u].capacity = Nothing
                           /\ setup[u].reserved = Nothing /\ setup[u].vm = NoVM
      /\ destroying = {} /\ purger = IdlePurger /\ stray = {} /\ crashes = 0
  BY DEF Init
<1>2. TypeOK
  <2>1. table \in [Stages -> Row]
    BY NoRowIs DEF Init
  <2>2. \A s \in Stages : table[s].capacity.stage = NoStage <=> table[s].state = "none"
    BY <1>1, NoRowIs, Capacities
  <2>3. /\ provider \in [Reservations -> {"absent", "held", "gone"}]
        /\ instances \in [VMs -> InstanceType]
        /\ request \in [Stages -> RequestType]
        /\ setup \in [Setups -> SetupType]
    BY DEF Init, InstanceType, RequestType, SetupType
  <2>4. /\ purger.pc \in {"idle", "free", "inuse", "orphans", "claim"}
        /\ purger.old \subseteq Stages /\ purger.candidates \subseteq Stages
        /\ purger.claiming \in Stages \cup {NoStage}
        /\ purger.todo \subseteq Capacity
    BY <1>1 DEF IdlePurger
  <2> QED
    BY <1>1, <2>1, <2>2, <2>3, <2>4, BoundsAssumption
       DEF TypeOK, InstanceType, RequestType, SetupType
<1>3. RecordInv /\ CallInv
  BY <1>1 DEF RecordInv, CallInv, IdlePurger, PurgerType
<1>4. RequestInv /\ HeldInv
  BY <1>1, Capacities DEF RequestInv, HeldInv, Cap
<1>5. TableInv
  BY <1>1, NoRowIs DEF TableInv
<1>6. SetupInv /\ UserInv /\ OneUser
  BY <1>1 DEF SetupInv, UserInv, OneUser
<1>7. ReservationTracked
  BY <1>1 DEF ReservationTracked, Reachable
<1> QED
  BY <1>2, <1>3, <1>4, <1>5, <1>6, <1>7 DEF IInv

(* Every step keeps the invariant. *)
LEMMA IInvStep == IInv /\ [Next]_vars => IInv'
<1> SUFFICES ASSUME IInv, [Next]_vars
             PROVE  IInv'
  OBVIOUS
<1>1. CopyInv
  BY DEF IInv, CopyInv
<1>2. TypeOK' /\ CallInv' /\ RecordInv' /\ ReservationTracked'
  BY <1>1, TypeStep, CallInvStep, TrackedStep DEF IInv
<1>3. RequestInv' /\ HeldInv' /\ TableInv' /\ SetupInv' /\ OneUser' /\ UserInv'
  BY RequestInvStep, TableInvStep, SetupInvStep, UserInvStep DEF IInv
<1> QED
  BY <1>2, <1>3 DEF IInv

(* It is an invariant of the specification. *)
LEMMA Invariance == Spec => []IInv
  BY IInvInit, IInvStep, PTL DEF Spec

(* The tables and the memory of the handlers and the purger keep their      *)
(* types; a row that is there names a stage.                                *)
THEOREM TypeCorrect == Spec => []TypeOK
<1>1. IInv => TypeOK
  BY DEF IInv
<1> QED
  BY <1>1, Invariance, PTL

(* A reservation that the provider holds is in a row, with the request that *)
(* made it, or lost with that request: no order of the DestroyCapacity      *)
(* calls deletes its row before the driver has released it.                 *)
THEOREM HeldIsTracked == Spec => []ReservationTracked
<1>1. IInv => ReservationTracked
  BY DEF IInv
<1> QED
  BY <1>1, Invariance, PTL

(* The claim of a row hands its capacity to one setup, for good. *)
THEOREM CapacityHasOneUser == Spec => []OneUser
<1>1. IInv => OneUser
  BY DEF IInv
<1> QED
  BY <1>1, Invariance, PTL

(* The warm VM of a row is used by the setup that claimed the row alone. *)
THEOREM WarmVMIsKept == Spec => []WarmKept
<1>1. IInv => WarmKept
  <2> SUFFICES ASSUME IInv, NEW s \in Stages, NEW u \in Setups, table[s].state # "none",
                      setup[u].vm # NoVM, setup[u].vm = table[s].capacity.vm
               PROVE  setup[u].capacity = table[s].capacity
    BY DEF WarmKept
  <2>1. table[s].capacity = Cap(s)
    BY DEF IInv, TableInv, Copy
  <2> QED
    BY <2>1 DEF IInv, UserInv
<1> QED
  BY <1>1, Invariance, PTL

=============================================================================
