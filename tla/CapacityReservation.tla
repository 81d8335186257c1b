--------------------------- MODULE CapacityReservation ---------------------------
(***************************************************************************)
(* Capacity reservations: a capacity task reserves, ahead of a stage, a    *)
(* warm VM of the pool or capacity at the provider, and stores it in the   *)
(* capacity_reservation table; the stage's setup claims the row and uses   *)
(* what it names; DestroyCapacity gives it back, called by the handlers    *)
(* when they fail, by the stage's destroy, by the reapers of instances and *)
(* by the purger.                                                          *)
(*                                                                         *)
(* The life of a VM is DistributedManager's subject: here an instance row  *)
(* and its VM are one, and the reapers may take an instance at any time.   *)
(* One capacity task is delivered for a stage.                             *)
(***************************************************************************)
EXTENDS Integers, FiniteSets

CONSTANTS
  Stages,        \* stage runtime ids, the primary key of the table
  Setups,        \* deliveries of setup tasks, each for some stage
  VMs,           \* instances
  Reservations,  \* reservations at the provider; an id is never reused
  Elsewhere,     \* those a tenant's driver makes in an account of its own
  MaxAge,        \* freeCapacityMaxAge, in ticks
  MaxCalls,      \* bound on the calls of DestroyCapacity at one time
  MaxCrashes,    \* bound on the processes that end
  NoVM, NoReservation, NoStage

ASSUME AgeAssumption == MaxAge \in Nat
ASSUME BoundsAssumption == MaxCalls \in Nat \ {0} /\ MaxCrashes \in Nat
ASSUME CallerAssumption == Setups \cap {"request", "destroy", "reaper", "purger"} = {}
ASSUME NoneAssumption ==
  NoVM \notin VMs /\ NoReservation \notin Reservations /\ NoStage \notin Stages
ASSUME ElsewhereAssumption == Elsewhere \subseteq Reservations

VARIABLES
  table,      \* capacity_reservation
  provider,   \* the reservations as the provider has them
  instances,  \* the instances table, with the VMs
  request,    \* HandleCapacityReservation, one per stage
  setup,      \* HandleSetup
  destroying, \* the calls of DestroyCapacity in progress
  purger,     \* cleanupCapacities
  stray,      \* reservations lost with the request that made them
  crashes

vars == <<table, provider, instances, request, setup, destroying, purger, stray, crashes>>

-----------------------------------------------------------------------------
(* The reservations in the account of the pool's default driver.  A tenant's *)
(* driver reserves (provisioner.go:269) where the tenant's account is; the   *)
(* default driver releases, whoever reserved (instance_ops.go:194).          *)
Reachable == Reservations \ Elsewhere

(* A capacity names a warm VM or a reservation of the provider. *)
Capacity == [stage: Stages, vm: VMs \cup {NoVM},
             reservation: Reservations \cup {NoReservation}]

Nothing == [stage |-> NoStage, vm |-> NoVM, reservation |-> NoReservation]

Warm(s, v) == [stage |-> s, vm |-> v, reservation |-> NoReservation]
Reserved(s, c) == [stage |-> s, vm |-> NoVM, reservation |-> c]

Row == [state: {"none", "created", "inuse", "terminating"},
        capacity: Capacity \cup {Nothing}, age: 0 .. (MaxAge + 1)]

NoRow == [state |-> "none", capacity |-> Nothing, age |-> 0]

(* The rows older than freeCapacityMaxAge. *)
Old == {s \in Stages : table[s].age > MaxAge}

(* CapacityReservationStore.FindAndClaim, on the row of one stage. *)
FindAndClaim(s, newState, allowedStates) ==
  /\ table[s].state \in allowedStates
  /\ table' = [table EXCEPT ![s].state = newState]

(* GetInstanceByStageID *)
InUseBy(s) == {v \in VMs : instances[v].state = "inuse" /\ instances[v].stage = s}

IdlePurger == [pc |-> "idle", old |-> {}, candidates |-> {}, claiming |-> NoStage,
               todo |-> {}]

Init ==
  /\ table = [s \in Stages |-> NoRow]
  /\ provider = [c \in Reservations |-> "absent"]
  /\ instances = [v \in VMs |-> [state |-> "absent", stage |-> NoStage]]
  /\ request = [s \in Stages |-> [pc |-> "idle", capacity |-> Nothing]]
  /\ setup = [u \in Setups |-> [pc |-> "idle", stage |-> NoStage, capacity |-> Nothing,
                                reserved |-> Nothing, vm |-> NoVM, slow |-> FALSE]]
  /\ destroying = {}
  /\ purger = IdlePurger
  /\ stray = {}
  /\ crashes = 0

-----------------------------------------------------------------------------
(* Manager.DestroyCapacity.  A call in progress is a record; `by` is the   *)
(* caller.                                                                 *)

Call(capacity, by) == [capacity |-> capacity, by |-> by, pc |-> "claim"]

(* The calls a caller starts: none for a nil capacity. *)
CallsFor(capacity, by) == {Call(k, by) : k \in {capacity} \ {Nothing}}

Start(capacity, by) ==
  /\ destroying' = destroying \cup CallsFor(capacity, by)
  /\ Cardinality(destroying') <= MaxCalls

Running(by) == \E d \in destroying : d.by = by

DestroyTo(d, pc) == destroying' = (destroying \ {d}) \cup {[d EXCEPT !.pc = pc]}

Return(d) == destroying' = destroying \ {d}

ReservationOf(capacity) == {capacity.reservation} \ {NoReservation}

(* A request's call that ends early loses the reservation: no row has it. *)
LostWith(d) == IF d.by = "request" THEN ReservationOf(d.capacity) ELSE {}

DestroyOnly == UNCHANGED <<request, setup, purger, crashes>>

(* Mutant of ClaimForTermination: every capacity is taken to be a reservation. *)
ClaimForRelease(d) ==
  /\ d.pc = "claim"
  /\ FindAndClaim(d.capacity.stage, "terminating", {"created", "inuse"}) \/ UNCHANGED table
  /\ DestroyTo(d, "release")
  /\ DestroyOnly /\ UNCHANGED <<provider, instances, stray>>

(* claimCapacityForTermination: by stage; a miss or an error is logged. *)
ClaimForTermination(d) ==
  /\ d.pc = "claim"
  /\ FindAndClaim(d.capacity.stage, "terminating", {"created", "inuse"}) \/ UNCHANGED table
  /\ DestroyTo(d, IF d.capacity.vm # NoVM THEN "instance" ELSE "release")
  /\ DestroyOnly /\ UNCHANGED <<provider, instances, stray>>

(* The warm VM; its error is logged too. *)
DestroyInstance(d) ==
  /\ d.pc = "instance"
  /\ instances' = [instances EXCEPT ![d.capacity.vm].state = "gone"] \/ UNCHANGED instances
  /\ DestroyTo(d, IF d.capacity.reservation # NoReservation THEN "release" ELSE "delete")
  /\ DestroyOnly /\ UNCHANGED <<table, provider, stray>>

(* Mutant of ReleaseCapacity: the driver's error is logged as well. *)
ReleaseIgnoresError(d) ==
  /\ d.pc = "release"
  /\ \/ provider' = [provider EXCEPT ![d.capacity.reservation] = "gone"]
     \/ UNCHANGED provider
  /\ DestroyTo(d, "delete")
  /\ DestroyOnly /\ UNCHANGED <<table, instances, stray>>

(* DestroyCapacity of the pool's default driver.  A reservation in another *)
(* account is not found, which the drivers take for one already released;  *)
(* an error returns, and the row stays.                                    *)
ReleaseCapacity(d) ==
  /\ d.pc = "release"
  /\ \/ /\ d.capacity.reservation \in Reachable
        /\ provider' = [provider EXCEPT ![d.capacity.reservation] = "gone"]
        /\ DestroyTo(d, "delete")
        /\ UNCHANGED stray
     \/ /\ d.capacity.reservation \in Elsewhere
        /\ DestroyTo(d, "delete")
        /\ UNCHANGED <<provider, stray>>
     \/ /\ Return(d)
        /\ stray' = stray \cup LostWith(d)
        /\ UNCHANGED provider
  /\ DestroyOnly /\ UNCHANGED <<table, instances>>

(* deleteCapacityReservationRecord: by stage; an error is logged. *)
DeleteRecord(d) ==
  /\ d.pc = "delete"
  /\ table' = [table EXCEPT ![d.capacity.stage] = NoRow] \/ UNCHANGED table
  /\ Return(d)
  /\ DestroyOnly /\ UNCHANGED <<provider, instances, stray>>

DestroyStep(d) ==
  ClaimForTermination(d) \/ DestroyInstance(d) \/ ReleaseCapacity(d) \/ DeleteRecord(d)

Crash == crashes < MaxCrashes /\ crashes' = crashes + 1

(* The process of a handler's call ends. *)
DestroyCrash(d) ==
  /\ Crash
  /\ d.by # "purger"
  /\ Return(d)
  /\ stray' = stray \cup LostWith(d)
  /\ UNCHANGED <<table, provider, instances, request, setup, purger>>

-----------------------------------------------------------------------------
(* HandleCapacityReservation                                               *)

RequestTo(s, pc) == request' = [request EXCEPT ![s].pc = pc]

RequestOnly == UNCHANGED <<setup, purger>>

(* Mutant of ReserveWarm: the VM stays free in the pool. *)
ReserveWarmUnclaimed(s, v) ==
  /\ request[s].pc = "idle"
  /\ instances[v].state = "created"
  /\ request' = [request EXCEPT ![s] = [pc |-> "create", capacity |-> Warm(s, v)]]
  /\ RequestOnly /\ UNCHANGED <<table, provider, instances, destroying, stray, crashes>>

(* Provision claims a warm VM for the task, and tags no stage. *)
ReserveWarm(s, v) ==
  /\ request[s].pc = "idle"
  /\ instances[v].state = "created"
  /\ instances' = [instances EXCEPT ![v].state = "inuse"]
  /\ request' = [request EXCEPT ![s] = [pc |-> "create", capacity |-> Warm(s, v)]]
  /\ RequestOnly /\ UNCHANGED <<table, provider, destroying, stray, crashes>>

(* Driver.ReserveCapacity, when no warm VM matches. *)
ReserveCapacity(s, c) ==
  /\ request[s].pc = "idle"
  /\ provider[c] = "absent"
  /\ provider' = [provider EXCEPT ![c] = "held"]
  /\ request' = [request EXCEPT ![s] = [pc |-> "create", capacity |-> Reserved(s, c)]]
  /\ RequestOnly /\ UNCHANGED <<table, instances, destroying, stray, crashes>>

(* Find, which finds no row as one task is delivered for the stage, and the *)
(* insert; when it fails the capacity is destroyed.                         *)
CreateRow(s) ==
  /\ request[s].pc = "create"
  /\ \/ /\ table' = [table EXCEPT ![s] = [state |-> "created", age |-> 0,
                                          capacity |-> request[s].capacity]]
        /\ UNCHANGED destroying
     \/ Start(request[s].capacity, "request") /\ UNCHANGED table
  /\ RequestTo(s, "done")
  /\ RequestOnly /\ UNCHANGED <<provider, instances, stray, crashes>>

RequestCrash(s) ==
  /\ Crash
  /\ request[s].pc = "create"
  /\ RequestTo(s, "done")
  /\ stray' = stray \cup ReservationOf(request[s].capacity)
  /\ RequestOnly /\ UNCHANGED <<table, provider, instances, destroying>>

-----------------------------------------------------------------------------
(* HandleSetup.  `capacity` is what the handler claimed, `reserved` what it *)
(* passes on to the pool it tries.                                         *)

SetupTo(u, pc) ==
  setup' = [setup EXCEPT ![u].pc = pc, ![u].slow = @ /\ pc = "destroy"]

SetupOnly == UNCHANGED <<request, purger, stray, crashes>>

(* Mutant of SetupClaim: a row in use is claimed too. *)
SetupClaimAny(u, s) ==
  /\ setup[u].pc = "idle"
  /\ \/ /\ FindAndClaim(s, "inuse", {"created", "inuse"})
        /\ setup' = [setup EXCEPT ![u].pc = "provision", ![u].stage = s,
                                  ![u].capacity = table[s].capacity,
                                  ![u].reserved = table[s].capacity]
     \/ /\ setup' = [setup EXCEPT ![u].pc = "provision", ![u].stage = s]
        /\ UNCHANGED table
  /\ SetupOnly /\ UNCHANGED <<provider, instances, destroying>>

(* The claim of the stage's row; on a miss or an error there is no capacity. *)
SetupClaim(u, s) ==
  /\ setup[u].pc = "idle"
  /\ \/ /\ FindAndClaim(s, "inuse", {"created"})
        /\ setup' = [setup EXCEPT ![u].pc = "provision", ![u].stage = s,
                                  ![u].capacity = table[s].capacity,
                                  ![u].reserved = table[s].capacity]
     \/ /\ setup' = [setup EXCEPT ![u].pc = "provision", ![u].stage = s]
        /\ UNCHANGED table
  /\ SetupOnly /\ UNCHANGED <<provider, instances, destroying>>

(* provisionFromReservedCapacity with a warm VM: its row is used as it is    *)
(* found; when it is not, the capacity is destroyed and a VM is created.     *)
SetupFind(u) ==
  LET v == setup[u].reserved.vm IN
  /\ setup[u].pc = "provision"
  /\ v # NoVM
  /\ \/ /\ instances[v].state # "gone"
        /\ setup' = [setup EXCEPT ![u].pc = "tag", ![u].vm = v]
        /\ UNCHANGED destroying
     \/ /\ SetupTo(u, "destroy")
        /\ Start(setup[u].reserved, u)
  /\ SetupOnly /\ UNCHANGED <<table, provider, instances>>

(* provisionFromPool, without a capacity: a free VM of the pool. *)
SetupClaimWarm(u, v) ==
  /\ setup[u].pc = "provision"
  /\ setup[u].reserved = Nothing
  /\ instances[v].state = "created"
  /\ instances' = [instances EXCEPT ![v].state = "inuse"]
  /\ setup' = [setup EXCEPT ![u].pc = "tag", ![u].vm = v]
  /\ SetupOnly /\ UNCHANGED <<table, provider, destroying>>

(* setupInstance: a new VM, in the reservation if there is one. *)
MayCreate(u) ==
  \/ setup[u].pc = "provision" /\ setup[u].reserved.vm = NoVM
  \/ setup[u].pc = "destroy" /\ ~Running(u)

SetupCreate(u, v) ==
  /\ MayCreate(u)
  /\ instances[v].state = "absent"
  /\ instances' = [instances EXCEPT ![v].state = "inuse"]
  /\ setup' = [setup EXCEPT ![u].pc = "tag", ![u].vm = v]
  /\ SetupOnly /\ UNCHANGED <<table, provider, destroying>>

(* The next pool of the request, where nothing is reserved, or the end. *)
NextPool(u) ==
  setup' = [setup EXCEPT ![u].pc = IF setup[u].reserved # Nothing THEN "provision"
                                                                  ELSE "failed",
                         ![u].reserved = Nothing, ![u].vm = NoVM,
                         ![u].slow = @ /\ setup[u].reserved # Nothing]

(* Provision fails; the capacity that was claimed is left in its row. *)
SetupProvisionFails(u) ==
  /\ MayCreate(u)
  /\ NextPool(u)
  /\ SetupOnly /\ UNCHANGED <<table, provider, instances, destroying>>

(* tagAndConnectInstance: the stage is written to the row, if it is there. *)
SetupTag(u) ==
  LET v == setup[u].vm IN
  /\ setup[u].pc = "tag"
  /\ instances' = [instances EXCEPT ![v].stage = IF instances[v].state = "gone"
                                                   THEN @ ELSE setup[u].stage]
  /\ SetupTo(u, "health")
  /\ SetupOnly /\ UNCHANGED <<table, provider, destroying>>

(* The destroy of an instance, which may fail. *)
Discard(vs) ==
  \/ instances' = [v \in VMs |-> IF v \in vs THEN [instances[v] EXCEPT !.state = "gone"]
                                             ELSE instances[v]]
  \/ UNCHANGED instances

(* The health check, the setup of lite-engine and the stage owner. *)
SetupReady(u) ==
  /\ setup[u].pc = "health"
  /\ instances[setup[u].vm].state # "gone"
  /\ SetupTo(u, "ready")
  /\ SetupOnly /\ UNCHANGED <<table, provider, instances, destroying>>

(* One of them, or the tag, fails: cleanUpInstanceFn, and the next pool. *)
SetupCleanup(u) ==
  /\ setup[u].pc \in {"tag", "health"}
  /\ Discard({setup[u].vm})
  /\ Start(setup[u].reserved, u)
  /\ NextPool(u)
  /\ SetupOnly /\ UNCHANGED <<table, provider>>

(* The stage owner cannot be created: the instance and the capacity go. *)
SetupOwnerFails(u) ==
  /\ setup[u].pc = "health"
  /\ Discard({setup[u].vm})
  /\ Start(setup[u].capacity, u)
  /\ SetupTo(u, "failed")
  /\ SetupOnly /\ UNCHANGED <<table, provider>>

SetupCrash(u) ==
  /\ Crash
  /\ setup[u].pc \notin {"idle", "ready", "failed"}
  /\ SetupTo(u, "failed")
  /\ destroying' = {d \in destroying : d.by # u}
  /\ UNCHANGED <<table, provider, instances, request, purger, stray>>

-----------------------------------------------------------------------------
(* The destroy of a stage, the pool's own work on instances, and time       *)

(* handleDestroy: the stage's instance, and the capacity found in the table *)
(* by its deferred function.                                                *)
DestroyStage(s) ==
  /\ Discard(InUseBy(s))
  /\ Start(table[s].capacity, "destroy") \/ UNCHANGED destroying
  /\ SetupOnly /\ UNCHANGED <<table, provider, setup>>

(* A warm VM is added to the pool. *)
SeedVM(v) ==
  /\ instances[v].state = "absent"
  /\ instances' = [instances EXCEPT ![v].state = "created"]
  /\ SetupOnly /\ UNCHANGED <<table, provider, setup, destroying>>

(* A reaper destroys an instance, and then the capacity of its stage. *)
ReapInstance(v) ==
  LET s == instances[v].stage IN
  /\ instances[v].state \in {"created", "inuse"}
  /\ instances' = [instances EXCEPT ![v].state = "gone"]
  /\ \/ s \in Stages /\ Start(table[s].capacity, "reaper")
     \/ UNCHANGED destroying
  /\ SetupOnly /\ UNCHANGED <<table, provider, setup>>

InFlight(u) ==
  setup[u].capacity # Nothing /\ setup[u].pc \in {"provision", "destroy", "tag"}

(* Time passes; an age counts up to the first that is stale.  A setup that   *)
(* holds a capacity and has not tagged its instance is slow from now on.     *)
Tick ==
  /\ \E s \in Stages : table[s].state # "none" /\ table[s].age <= MaxAge
  /\ table' = [s \in Stages |->
                 IF table[s].state # "none" /\ table[s].age <= MaxAge
                   THEN [table[s] EXCEPT !.age = @ + 1] ELSE table[s]]
  /\ setup' = [u \in Setups |-> [setup[u] EXCEPT !.slow = @ \/ InFlight(u)]]
  /\ SetupOnly /\ UNCHANGED <<provider, instances, destroying>>

-----------------------------------------------------------------------------
(* DistributedManager.cleanupCapacities                                    *)

PurgeOnly == UNCHANGED <<request, setup, stray, crashes, provider, instances>>

CapacitiesOf(stages) == {table[s].capacity : s \in stages}

(* The rows that were old when the cutoff was computed. *)
Stale(states) == {s \in purger.old : table[s].state \in states}

Terminating == {s \in Old : table[s].state = "terminating"}

(* createdAtBefore is computed, once for all lookups, and the stale rows   *)
(* that are terminating are listed; an error lists none.                   *)
PurgeList ==
  /\ purger.pc = "idle"
  /\ \E stages \in {Terminating, {}} :
       purger' = [purger EXCEPT !.pc = "free", !.old = Old, !.todo = CapacitiesOf(stages)]
  /\ PurgeOnly /\ UNCHANGED <<table, destroying>>

(* The stale rows that are created are claimed, in one statement. *)
PurgeClaimFree ==
  /\ purger.pc = "free"
  /\ \E stages \in {Stale({"created"}), {}} :
       /\ table' = [s \in Stages |->
                      IF s \in stages THEN [table[s] EXCEPT !.state = "terminating"]
                                      ELSE table[s]]
       /\ purger' = [purger EXCEPT !.pc = "inuse", !.todo = @ \cup CapacitiesOf(stages)]
  /\ PurgeOnly /\ UNCHANGED destroying

(* Mutant of PurgeListInUse: it asks for the created rows again. *)
PurgeListCreated ==
  /\ purger.pc = "inuse"
  /\ \E stages \in {Stale({"created"}), {}} :
       purger' = [purger EXCEPT !.pc = "orphans", !.old = {}, !.candidates = stages]
  /\ PurgeOnly /\ UNCHANGED <<table, destroying>>

(* findOrphanedInUseCapacities lists the stale rows in use. *)
PurgeListInUse ==
  /\ purger.pc = "inuse"
  /\ \E stages \in {Stale({"inuse"}), {}} :
       purger' = [purger EXCEPT !.pc = "orphans", !.old = {}, !.candidates = stages]
  /\ PurgeOnly /\ UNCHANGED <<table, destroying>>

(* GetInstanceByStageID finds an instance for the stage: it is skipped. *)
PurgeSkip(s) ==
  /\ purger.pc = "orphans"
  /\ s \in purger.candidates
  /\ InUseBy(s) # {}
  /\ purger' = [purger EXCEPT !.candidates = @ \ {s}]
  /\ PurgeOnly /\ UNCHANGED <<table, destroying>>

(* It finds none, or fails: the two are told apart by nobody. *)
PurgeLookup(s) ==
  /\ purger.pc = "orphans"
  /\ s \in purger.candidates
  /\ purger' = [purger EXCEPT !.pc = "claim", !.candidates = @ \ {s}, !.claiming = s]
  /\ PurgeOnly /\ UNCHANGED <<table, destroying>>

(* The orphan is claimed, or another took it, or the claim fails. *)
PurgeClaimOrphan ==
  LET s == purger.claiming IN
  /\ purger.pc = "claim"
  /\ \/ /\ FindAndClaim(s, "terminating", {"inuse"})
        /\ purger' = [purger EXCEPT !.pc = "orphans", !.claiming = NoStage,
                                    !.todo = @ \cup {table[s].capacity}]
     \/ /\ purger' = [purger EXCEPT !.pc = "orphans", !.claiming = NoStage]
        /\ UNCHANGED table
  /\ PurgeOnly /\ UNCHANGED destroying

(* destroyCapacityFromReservation: one capacity after the other. *)
PurgeDestroy(capacity) ==
  /\ purger.pc = "orphans"
  /\ purger.candidates = {}
  /\ ~Running("purger")
  /\ capacity \in purger.todo
  /\ purger' = [purger EXCEPT !.todo = @ \ {capacity}]
  /\ Start(capacity, "purger")
  /\ PurgeOnly /\ UNCHANGED table

PurgeEnd ==
  /\ purger.pc = "orphans"
  /\ purger.candidates = {}
  /\ purger.todo = {}
  /\ ~Running("purger")
  /\ purger' = IdlePurger
  /\ PurgeOnly /\ UNCHANGED <<table, destroying>>

PurgerCrash ==
  /\ Crash
  /\ purger.pc # "idle"
  /\ purger' = IdlePurger
  /\ destroying' = {d \in destroying : d.by # "purger"}
  /\ UNCHANGED <<table, provider, instances, request, setup, stray>>

Purge ==
  \/ PurgeList \/ PurgeClaimFree \/ PurgeListInUse \/ PurgeClaimOrphan
  \/ PurgeEnd
  \/ \E s \in Stages : PurgeSkip(s) \/ PurgeLookup(s)
  \/ \E capacity \in purger.todo : PurgeDestroy(capacity)

-----------------------------------------------------------------------------
RequestStep(s) ==
  \/ \E v \in VMs : ReserveWarm(s, v)
  \/ \E c \in Reservations : ReserveCapacity(s, c)
  \/ CreateRow(s)

SetupStep(u) ==
  \/ \E s \in Stages : SetupClaim(u, s)
  \/ SetupFind(u)
  \/ \E v \in VMs : SetupClaimWarm(u, v) \/ SetupCreate(u, v)
  \/ SetupProvisionFails(u) \/ SetupTag(u) \/ SetupReady(u)
  \/ SetupCleanup(u) \/ SetupOwnerFails(u)

Next ==
  \/ \E s \in Stages : RequestStep(s) \/ RequestCrash(s) \/ DestroyStage(s)
  \/ \E u \in Setups : SetupStep(u) \/ SetupCrash(u)
  \/ \E v \in VMs : SeedVM(v) \/ ReapInstance(v)
  \/ \E d \in destroying : DestroyStep(d) \/ DestroyCrash(d)
  \/ Purge \/ PurgerCrash
  \/ Tick

Spec == Init /\ [][Next]_vars

-----------------------------------------------------------------------------
(* Fairness: a handler that runs goes on to its end and the goroutine of    *)
(* cleanUpInstanceFn too; the purger's loop goes on, and its statements and *)
(* the driver's release do not fail every time; time passes; and an         *)
(* instance that nobody destroys is reaped in the end (VMReclaimed of       *)
(* DistributedManager).                                                     *)

Callers == Setups \cup {"request", "destroy", "reaper", "purger"}

CallStep(by) == \E d \in destroying : d.by = by /\ DestroyStep(d)

SetupRun(u) == setup[u].pc # "idle" /\ SetupStep(u)

PurgerReleases == \E d \in destroying :
  d.by = "purger" /\ ReleaseCapacity(d) /\ provider'[d.capacity.reservation] = "gone"

Fairness ==
  /\ \A s \in Stages : WF_vars(CreateRow(s))
  /\ \A u \in Setups : WF_vars(SetupRun(u))
  /\ \A by \in Callers : WF_vars(CallStep(by))
  /\ \A v \in VMs : WF_vars(ReapInstance(v))
  /\ WF_vars(Tick)
  /\ WF_vars(Purge)
  /\ SF_vars(PurgeList /\ purger'.todo = CapacitiesOf(Terminating))
  /\ SF_vars(PurgeClaimFree /\ Stale({"created"})' = {})
  /\ SF_vars(PurgeListInUse /\ purger'.candidates = Stale({"inuse"}))
  /\ SF_vars(PurgeClaimOrphan /\ table' # table)
  /\ SF_vars(\E capacity \in purger.todo : PurgeDestroy(capacity))
  /\ SF_vars(PurgerReleases)

FairSpec == Spec /\ Fairness

-----------------------------------------------------------------------------
(* One type invariant: what the variables may hold. *)
TypeOK ==
  /\ table \in [Stages -> Row]
  /\ \A s \in Stages : table[s].capacity.stage = NoStage <=> table[s].state = "none"
  /\ provider \in [Reservations -> {"absent", "held", "gone"}]
  /\ instances \in [VMs -> [state: {"absent", "created", "inuse", "gone"},
                            stage: Stages \cup {NoStage}]]
  /\ request \in [Stages -> [pc: {"idle", "create", "done"},
                             capacity: Capacity \cup {Nothing}]]
  /\ setup \in [Setups -> [pc: {"idle", "provision", "destroy", "tag", "health", "ready",
                                "failed"},
                           stage: Stages \cup {NoStage}, capacity: Capacity \cup {Nothing},
                           reserved: Capacity \cup {Nothing}, vm: VMs \cup {NoVM},
                           slow: BOOLEAN]]
  /\ \A d \in destroying :
       /\ d.capacity \in Capacity
       /\ d.by \in Setups \cup {"request", "destroy", "reaper", "purger"}
       /\ d.pc \in {"claim", "instance", "release", "delete"}
       /\ d.pc = "release" => d.capacity.reservation \in Reservations
  /\ purger.pc \in {"idle", "free", "inuse", "orphans", "claim"}
  /\ purger.old \subseteq Stages /\ purger.candidates \subseteq Stages
  /\ purger.claiming \in Stages \cup {NoStage}
  /\ purger.todo \subseteq Capacity
  /\ stray \subseteq Reservations
  /\ crashes \in 0 .. MaxCrashes

(* A reservation in the account of the pool's default driver that the        *)
(* provider still holds (and bills) can be found by somebody who will give   *)
(* it back: it is in a row, or with the request that made it; otherwise it   *)
(* was lost with that request, by a crash or a failed release, and no        *)
(* process knows of it.  It says that no row of such a reservation is        *)
(* deleted, by any order of the concurrent DestroyCapacity calls and their   *)
(* errors, before the driver has released it.  Of a tenant's reservation in  *)
(* an account of its own this is not true: its release finds nothing, which  *)
(* DestroyCapacity takes for done, and the row is deleted.                   *)
ReservationTracked ==
  \A c \in Reachable : provider[c] = "held" =>
    \/ \E s \in Stages : table[s].capacity.reservation = c
    \/ \E s \in Stages : request[s].pc = "create" /\ request[s].capacity.reservation = c
    \/ \E d \in destroying : d.by = "request" /\ d.capacity.reservation = c
    \/ c \in stray

(* Two setups of one stage never work on the same capacity: the claim from   *)
(* created to inuse hands a row out once.                                    *)
OneUser ==
  \A t, u \in Setups : t # u /\ setup[t].capacity # Nothing
                         => setup[t].capacity # setup[u].capacity

(* A warm VM that a row keeps is used by nobody but the setup that claimed   *)
(* the row: not by another stage's, nor by another delivery for the stage    *)
(* that found no capacity and takes a VM from the pool.                      *)
WarmKept ==
  \A s \in Stages, u \in Setups :
    (table[s].state # "none" /\ setup[u].vm # NoVM /\ setup[u].vm = table[s].capacity.vm)
      => setup[u].capacity = table[s].capacity

(* What cleanupCapacities says of its third lookup: "Only consider InUse     *)
(* rows older than the cutoff to avoid racing with in-flight setups that     *)
(* haven't yet written the instance row" (distributed_manager.go:1071-1072). *)
(* A row it is about to claim is not one that such a setup is working with,  *)
(* at least when the setup claimed it less than a tick ago.                  *)
PurgeSparesInFlight ==
  \A u \in Setups :
    (InFlight(u) /\ ~setup[u].slow)
      => ~(/\ purger.pc = "claim"
           /\ purger.claiming = setup[u].stage
           /\ table[setup[u].stage].state = "inuse")

(* A reservation in the account of the pool's default driver is given back   *)
(* in the end, whatever fails or crashes on the way, unless it was lost with *)
(* the request that made it.  A tenant's reservation in an account of its    *)
(* own is given back by nobody here (Google's deletes itself after           *)
(* CapacityReservationTTL where that is set, Amazon's has no end).           *)
CapacityReturned ==
  \A c \in Reachable : provider[c] = "held" ~> (provider[c] = "gone" \/ c \in stray)

=============================================================================
