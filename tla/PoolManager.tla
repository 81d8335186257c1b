---------------------------- MODULE PoolManager ----------------------------
(***************************************************************************)
(* The pool manager of one runner (Manager), which keeps the instances of  *)
(* a pool in a store of its own and orders its operations with the mutex   *)
(* of the pool.  Stages provision a VM and destroy it: pipelines of the    *)
(* drone engine, stages of the setup handler, and gitspaces, which also    *)
(* suspend and resume their VM.  A goroutine per VM (work) creates it,     *)
(* waits until it is reachable and hibernates it; it also carries the      *)
(* suspension of a gitspace.  The keeper is whichever of BuildPools, the   *)
(* purger and CleanPools holds the mutex.                                  *)
(*                                                                         *)
(* Time is left out: a VM may be older than any maximum age when the       *)
(* purger lists it, and a wait ends at any time.                           *)
(***************************************************************************)
EXTENDS Integers, Sequences, SequencesExt, FiniteSetsExt

CONSTANT Configs  \* the configurations of a pool, records with the fields below

VARIABLES
  config,  \* the configuration of the pool, which stays
  rows,    \* the instances table
  up,      \* what the provider has of each VM: "none", "on" or "off"
  mutex,   \* whether the mutex of the pool is held
  work,    \* the goroutine of each VM
  stage,   \* what each stage is doing
  keeper   \* what the holder of the mutex of the housekeeping is doing

poolVars == <<config, rows, up, mutex, work, stage, keeper>>

MaxVMs == config.maxVMs           \* how many VMs may be created (a bound)
Stages == config.stages           \* the stages
Gitspaces == config.gitspaces     \* those of them that are gitspaces
Pipelines == config.pipelines     \* those of them that the drone engine runs
Strategy == config.strategy       \* "Greedy" or "MinMax"
Tenants == config.tenants         \* a sequence of [id, minSize, maxSize, variants]
MultiTenant == Len(Tenants) > 1   \* whether the pool has tenants of its own
CanHibernate == config.hibernate  \* whether the driver can hibernate
MaxRetries == config.retries      \* how often a hibernation is tried
Ops == config.ops                 \* what the keeper does: "purge", "clean"
Kept == config.kept               \* how many VMs are there from an earlier run
Upsert == config.upsert           \* whether the store's Update puts back a row that is gone
NamesFailed == config.names       \* whether the driver's Destroy names the instances it failed on

VMs == 1..MaxVMs  \* a VM is numbered by the order of creation
NoOne == "no one"
NoVM == 0

(* There are finitely many VMs, some of them from an earlier run, and no   *)
(* stage has the name of another actor.                                    *)
ASSUME ConfigsAssumption ==
  \A c \in Configs : /\ c.maxVMs \in Nat /\ c.kept \in 0..c.maxVMs
                     /\ c.gitspaces \subseteq c.stages
                     /\ c.stages \cap {NoOne, "pool", "keeper"} = {}

NoVariant == 0  \* the variants are numbered as the pool file lists them
(* BuildInstanceFromRequest: the instance of a gitspace as its request has *)
(* it, with neither a state nor a time.                                    *)
RequestRow == [state |-> "", hibernated |-> FALSE, started |-> 0,
               tenant |-> "", variant |-> NoVariant, retain |-> TRUE]

NoWork == [pc |-> "none", by |-> NoOne, tenant |-> "", variant |-> NoVariant,
           row |-> RequestRow, tries |-> 0]
NoKeeper == [pc |-> "idle", op |-> "none", set |-> {}, plan |-> <<>>]

(* The runner has come up, with the free VMs it kept from an earlier run,  *)
(* and is about to build the pool.                                         *)
PoolInit ==
  /\ config \in Configs
  /\ rows = [v \in 1..Kept |-> [RequestRow EXCEPT !.state = "created", !.started = v,
                                  !.tenant = Tenants[1].id, !.retain = FALSE]]
  /\ up = [v \in VMs |-> IF v <= Kept THEN "on" ELSE "none"]
  /\ mutex = FALSE
  /\ work = [v \in VMs |-> [NoWork EXCEPT !.pc = IF v <= Kept THEN "ended" ELSE "none"]]
  /\ stage = [s \in Stages |-> [pc |-> "idle", vm |-> NoVM, row |-> RequestRow]]
  /\ keeper = [NoKeeper EXCEPT !.op = "build"]

-----------------------------------------------------------------------------
(* The store: a table with one row per instance.  The SQL store updates    *)
(* nothing when the row is gone; the embedded one puts the row back.       *)
Find(v) == v \in DOMAIN rows
Create(v, row) == rows' = [w \in DOMAIN rows \cup {v} |-> IF w = v THEN row ELSE rows[w]]
Update(v, row) == IF Upsert \/ Find(v) THEN Create(v, row) ELSE UNCHANGED rows
Delete(S) == rows' = [v \in DOMAIN rows \ S |-> rows[v]]

(* m.list: the rows by their state. *)
List(states) == {v \in DOMAIN rows : rows[v].state \in states}
Now == 1 + Max({0} \cup {rows[v].started : v \in DOMAIN rows})

(* The strategies of the pool size. *)
Clamp(t) == [max |-> IF t.maxSize <= 0 THEN 1 ELSE t.maxSize,
             min |-> IF t.minSize < 0 \/ t.minSize > t.maxSize THEN 0 ELSE t.minSize]
ShouldCreate(t, busy, free) ==
  IF Strategy = "Greedy" THEN Max({0, t.minSize - free})
  ELSE Max({0, Clamp(t).min - busy - free})
ShouldRemove(t, busy, free) ==
  IF Strategy = "Greedy" THEN 0
  ELSE Max({0, Min({free, busy + free - Clamp(t).max})})
CanCreate(busy) == Strategy = "Greedy" \/ busy < Tenants[1].maxSize

-----------------------------------------------------------------------------
(* setupInstance: the driver creates the VM, then it is stored.  A VM that *)
(* cannot be stored is destroyed as well as may be, and one that stays is  *)
(* lost.                                                                   *)
Used == Cardinality({v \in VMs : work[v].pc # "none"})
Fresh(groups) == {v \in VMs : work[v].pc = "none" /\ v - Used \in DOMAIN groups}
Launch(by, groups) ==
  [v \in VMs |-> IF v \in Fresh(groups)
                 THEN [NoWork EXCEPT !.pc = "create", !.by = by,
                                     !.tenant = groups[v - Used].tenant,
                                     !.variant = groups[v - Used].variant]
                 ELSE work[v]]
Group(t, variant) == [tenant |-> t, variant |-> variant]
BaseGroup == Group(Tenants[1].id, NoVariant)

(* A goroutine goes on; only a stage asks how it ended. *)
Endings == {"ended", "failed", "lost"}
Goto(v, pc) ==
  work' = [work EXCEPT ![v] =
    IF pc \notin Endings THEN [@ EXCEPT !.pc = pc]
    ELSE [NoWork EXCEPT !.by = work[v].by,
                        !.pc = IF pc = "failed" /\ work[v].by \notin Stages THEN "ended" ELSE pc]]

CreateVM(v) ==
  /\ work[v].pc = "create"
  /\ \/ up' = [up EXCEPT ![v] = "on"] /\ Goto(v, "record")
     \/ Goto(v, "failed") /\ UNCHANGED up
  /\ UNCHANGED <<rows, mutex, stage, keeper>>

NewRow(w) ==
  [state |-> IF w.by \in Stages THEN "inuse" ELSE "provisioning", hibernated |-> FALSE,
   started |-> Now, tenant |-> w.tenant, variant |-> w.variant, retain |-> w.by \in Gitspaces]

RecordVM(v) ==
  /\ work[v].pc = "record"
  /\ \/ /\ Create(v, NewRow(work[v]))
        /\ work' = [work EXCEPT ![v].row = NewRow(work[v]),
                                ![v].pc = IF work[v].by \in Stages THEN "ended" ELSE "connect"]
        /\ UNCHANGED up
     \/ /\ \/ up' = [up EXCEPT ![v] = "none"] /\ Goto(v, "failed")
           \/ Goto(v, "lost") /\ UNCHANGED up
        /\ UNCHANGED rows
  /\ UNCHANGED <<mutex, stage, keeper>>

-----------------------------------------------------------------------------
(* setupInstanceWithHibernate, the goroutine of a warm VM: it waits until  *)
(* the VM is reachable, marks it created (writing its own copy of the row, *)
(* without the mutex) and hibernates it.                                   *)
WaitForConnectivity(v) ==
  /\ work[v].pc = "connect"
  /\ \/ Find(v) /\ up[v] = "on" /\ Goto(v, "ready")
     \/ Goto(v, "destroy")
  /\ UNCHANGED <<rows, up, mutex, stage, keeper>>

DestroyUnreachable(v) ==
  /\ \/ /\ work[v].pc = "destroy"
        /\ \/ up' = [up EXCEPT ![v] = "none"] /\ Goto(v, "delete")
           \/ Goto(v, "ended") /\ UNCHANGED up
        /\ UNCHANGED rows
     \/ /\ work[v].pc = "delete" /\ Goto(v, "ended")
        /\ Delete({v}) \/ UNCHANGED rows
        /\ UNCHANGED up
  /\ UNCHANGED <<mutex, stage, keeper>>

MarkCreated(v) ==
  /\ work[v].pc = "ready"
  /\ \/ /\ Update(v, [work[v].row EXCEPT !.state = "created"])
        /\ IF CanHibernate
           THEN work' = [work EXCEPT ![v].pc = "hibernate", ![v].tries = 1, ![v].row = RequestRow]
           ELSE Goto(v, "ended")
     \/ Goto(v, "ended") /\ UNCHANGED rows
  /\ UNCHANGED <<up, mutex, stage, keeper>>

(* hibernate: the row is found and written under the mutex, which is free  *)
(* while the driver works.  Each locked section is a step: nobody writes   *)
(* the row of such a VM without the mutex.  One that finds no row, or      *)
(* cannot read or write it, goes to another place.                         *)
Locked(v, pc) == work[v].pc = pc /\ ~mutex
LockedUpdate(v, pc, row, to) ==
  /\ Locked(v, pc) /\ Find(v)
  /\ Update(v, row) /\ Goto(v, to)
  /\ UNCHANGED <<up, mutex, stage, keeper>>
LockedError(v, pc, to) ==
  /\ Locked(v, pc) /\ Goto(v, to)
  /\ UNCHANGED <<rows, up, mutex, stage, keeper>>

(* Mutant of AlreadyInUse: this early return leaves the mutex held. *)
AlreadyInUseLocked(v) ==
  /\ Locked(v, "hibernate") /\ Find(v) /\ rows[v].state = "inuse"
  /\ Goto(v, "ended") /\ mutex' = TRUE
  /\ UNCHANGED <<rows, up, stage, keeper>>

AlreadyInUse(v) ==
  /\ Locked(v, "hibernate") /\ Find(v) /\ rows[v].state = "inuse"
  /\ Goto(v, "ended")
  /\ UNCHANGED <<rows, up, mutex, stage, keeper>>

(* Mutant of MarkHibernating: it does not look whether the VM is in use. *)
MarkHibernatingUnchecked(v) ==
  LockedUpdate(v, "hibernate", [rows[v] EXCEPT !.state = "hibernating"], "power")

MarkHibernating(v) ==
  /\ Find(v) /\ rows[v].state # "inuse"
  /\ LockedUpdate(v, "hibernate", [rows[v] EXCEPT !.state = "hibernating"], "power")

Hibernate(v) == MarkHibernating(v) \/ AlreadyInUse(v) \/ LockedError(v, "hibernate", "failed")

(* The driver hibernates the VM, or fails; it may fail after the VM has    *)
(* stopped.  Only some errors are retried.                                 *)
DriverHibernate(v) ==
  /\ work[v].pc = "power"
  /\ \/ up[v] # "none" /\ up' = [up EXCEPT ![v] = "off"] /\ Goto(v, "finish")
     \/ /\ up' \in {up, [up EXCEPT ![v] = IF @ = "on" THEN "off" ELSE @]}
        /\ \E n \in {work[v].tries, MaxRetries} :
             work' = [work EXCEPT ![v].pc = "revert", ![v].tries = n]
  /\ UNCHANGED <<rows, mutex, stage, keeper>>

(* updateInstState after a failure, and hibernateOrStopWithRetries.        *)
Retry(v) ==
  IF work[v].tries < MaxRetries
  THEN work' = [work EXCEPT ![v].pc = "hibernate", ![v].tries = @ + 1]
  ELSE Goto(v, "failed")
HibernateFailed(v) ==
  /\ Locked(v, "revert") /\ Retry(v)
  /\ \/ Find(v) /\ Update(v, [rows[v] EXCEPT !.state = "created"])
     \/ UNCHANGED rows
  /\ UNCHANGED <<up, mutex, stage, keeper>>

HibernateFinish(v) ==
  \/ LockedUpdate(v, "finish", [rows[v] EXCEPT !.state = "created", !.hibernated = TRUE], "ended")
  \/ LockedError(v, "finish", "failed")

(* findOrCreateInstance: Suspend makes the row created, whatever it was,   *)
(* before it hibernates the VM.                                            *)
FindOrCreateInstance(v) ==
  \/ LockedUpdate(v, "suspend", [rows[v] EXCEPT !.state = "created"], "hibernate")
  \/ /\ Locked(v, "suspend") /\ ~Find(v)
     /\ Create(v, [RequestRow EXCEPT !.state = "created"]) /\ Goto(v, "hibernate")
     /\ UNCHANGED <<up, mutex, stage, keeper>>
  \/ LockedError(v, "suspend", "failed")

Work(v) ==
  \/ CreateVM(v) \/ RecordVM(v) \/ WaitForConnectivity(v) \/ DestroyUnreachable(v)
  \/ MarkCreated(v) \/ Hibernate(v) \/ DriverHibernate(v) \/ HibernateFailed(v)
  \/ HibernateFinish(v) \/ FindOrCreateInstance(v)

-----------------------------------------------------------------------------
(* Provision.  A gitspace comes with the instance it had, if any; any      *)
(* other stage takes the oldest free VM of the pool under the mutex, or    *)
(* creates one without it.  The daemon polls for pipelines before it has   *)
(* built its pool; the handlers serve when it is built.                    *)
To(s, pc) ==
  stage' = [stage EXCEPT ![s] = [pc |-> pc, vm |-> IF pc = "done" THEN NoVM ELSE @.vm,
                                 row |-> RequestRow]]

Provision(s) ==
  /\ stage[s].pc = "idle"
  /\ s \in Pipelines \/ keeper.op # "build"
  /\ \/ s \in Gitspaces /\ To(s, "create") /\ UNCHANGED mutex
     \/ s \notin Gitspaces /\ ~mutex /\ mutex' = TRUE /\ To(s, "list")
  /\ UNCHANGED <<rows, up, work, keeper>>

Oldest(S) == {v \in S : \A w \in S : rows[v].started <= rows[w].started}

(* Mutant of ProvisionFromPool: the mutex is freed when the instances have *)
(* been listed.                                                            *)
ProvisionFromPoolUnlocked(s) ==
  /\ stage[s].pc = "list"
  /\ mutex' = FALSE
  /\ \/ List({"created"}) = {} /\ To(s, "create")
     \/ \E v \in Oldest(List({"created"})) :
          stage' = [stage EXCEPT ![s] = [pc |-> "claim", vm |-> v, row |-> rows[v]]]
  /\ UNCHANGED <<rows, up, work, keeper>>

ProvisionFromPool(s) ==
  /\ stage[s].pc = "list"
  /\ \/ To(s, "done") /\ mutex' = FALSE
     \/ /\ List({"created"}) = {} /\ mutex' = FALSE
        /\ To(s, IF CanCreate(Cardinality(List({"inuse"}))) THEN "create" ELSE "done")
     \/ \E v \in Oldest(List({"created"})) :
          /\ stage' = [stage EXCEPT ![s] = [pc |-> "claim", vm |-> v, row |-> rows[v]]]
          /\ UNCHANGED mutex
  /\ UNCHANGED <<rows, up, work, keeper>>

(* The free VM is tagged, and a goroutine is started that replaces it. *)
Claimed(row) ==
  [row EXCEPT !.state = "inuse", !.started = IF row.hibernated THEN Now ELSE @]
Claim(s) ==
  /\ stage[s].pc = "claim"
  /\ mutex' = FALSE
  /\ \/ /\ Update(stage[s].vm, Claimed(stage[s].row))
        /\ work' = Launch("pool", <<BaseGroup>>)
        /\ stage' = [stage EXCEPT ![s].pc = "provisioned", ![s].row = Claimed(@)]
     \/ To(s, "done") /\ UNCHANGED <<rows, work>>
  /\ UNCHANGED <<up, keeper>>

(* setupInstance for the stage itself, in use from the start. *)
CreateForStage(s) ==
  /\ stage[s].pc = "create"
  /\ work' = Launch(s, <<BaseGroup>>)
  /\ \/ \E v \in Fresh(<<BaseGroup>>) : stage' = [stage EXCEPT ![s].pc = "creating", ![s].vm = v]
     \/ Fresh(<<BaseGroup>>) = {} /\ To(s, "done")
  /\ UNCHANGED <<rows, up, mutex, keeper>>

(* The goroutine of the VM has done what the stage called it for. *)
ReturnToStage(s) ==
  LET w == work[stage[s].vm] IN
  /\ \/ /\ stage[s].pc = "creating"
        /\ \/ w.pc = "ended" /\ stage' = [stage EXCEPT ![s].pc = "provisioned", ![s].row = w.row]
           \/ w.pc \in {"failed", "lost"} /\ To(s, "done")
        /\ work' = [work EXCEPT ![stage[s].vm].row = RequestRow]
     \/ /\ stage[s].pc = "suspending"
        /\ \/ w.pc = "ended" /\ To(s, "suspended")
           \/ w.pc = "failed" /\ To(s, "serving")
        /\ UNCHANGED work
  /\ UNCHANGED <<rows, up, mutex, keeper>>

(* processExistingInstance: the gitspace wakes its VM, or is given another *)
(* one after its own has been destroyed as well as may be.  The row of the *)
(* old VM stays.                                                           *)
ProcessExistingInstance(s) ==
  /\ stage[s].pc = "suspended"
  /\ \/ /\ stage' = [stage EXCEPT ![s].pc = "provisioned", ![s].row = [RequestRow EXCEPT
                                    !.state = "inuse", !.hibernated = TRUE, !.started = Now]]
        /\ UNCHANGED up
     \/ /\ To(s, "create")
        /\ up' \in {up, [up EXCEPT ![stage[s].vm] = "none"]}
  /\ UNCHANGED <<rows, mutex, work, keeper>>

(* StartInstance wakes a hibernated VM and writes its own copy of the row, *)
(* without the mutex.  The engine calls it with no instance, which panics; *)
(* the runner recovers, and the engine has not noted the VM.               *)
StartInstance(s) ==
  LET v == stage[s].vm
      inst == IF s \in Gitspaces THEN [RequestRow EXCEPT !.hibernated = TRUE] ELSE rows[v]
  IN /\ stage[s].pc = "provisioned"
     /\ \/ ~stage[s].row.hibernated /\ stage' = [stage EXCEPT ![s].pc = "started"] /\ UNCHANGED up
        \/ /\ stage[s].row.hibernated /\ s \in Pipelines
           /\ To(s, "done") /\ UNCHANGED up
        \/ /\ stage[s].row.hibernated /\ s \notin Pipelines
           /\ \/ To(s, "lookup") /\ UNCHANGED up
              \/ /\ s \in Gitspaces \/ Find(v)
                 /\ \/ /\ ~inst.hibernated /\ UNCHANGED up
                       /\ stage' = [stage EXCEPT ![s].pc = "started", ![s].row = inst]
                    \/ /\ inst.hibernated /\ up[v] # "none" /\ up' = [up EXCEPT ![v] = "on"]
                       /\ stage' = [stage EXCEPT ![s].pc = "starting",
                                                 ![s].row = [inst EXCEPT !.hibernated = FALSE]]
     /\ UNCHANGED <<rows, mutex, work, keeper>>

(* A failed setup destroys the VM.  The engine, and the handler after a    *)
(* failed start, look the instance up first; else the handler has it.      *)
SetupFailed(s) == IF s \in Pipelines THEN "lookup" ELSE "cleanup"

(* The row is written after the start and again with the stage's tags.     *)
WriteRow(s) ==
  /\ \/ /\ stage[s].pc = "starting"
        /\ Update(stage[s].vm, stage[s].row) /\ stage' = [stage EXCEPT ![s].pc = "started"]
     \/ /\ stage[s].pc = "started"
        /\ Update(stage[s].vm, stage[s].row) /\ To(s, "check")
     \/ /\ stage[s].pc \in {"starting", "started"}
        /\ To(s, SetupFailed(s)) /\ UNCHANGED rows
  /\ UNCHANGED <<up, mutex, work, keeper>>

(* The lite engine answers and is set up, or not; then the stage runs.     *)
HealthAndSetup(s) ==
  /\ stage[s].pc = "check"
  /\ \/ up[stage[s].vm] = "on" /\ To(s, "serving")
     \/ To(s, SetupFailed(s))
  /\ UNCHANGED <<rows, up, mutex, work, keeper>>

EndOfStage(s) ==
  /\ stage[s].pc = "serving" /\ To(s, IF s \in Pipelines THEN "lookup" ELSE "ending")
  /\ UNCHANGED <<rows, up, mutex, work, keeper>>

(* HandleSuspend, after the lite engine has agreed. *)
Suspend(s) ==
  /\ stage[s].pc = "serving" /\ s \in Gitspaces
  /\ To(s, "suspending")
  /\ work' = [work EXCEPT ![stage[s].vm].pc = "suspend", ![stage[s].vm].tries = 1]
  /\ UNCHANGED <<rows, up, mutex, keeper>>

(* HandleDestroy: the instance, from the request of a gitspace or from the *)
(* store, is marked terminating as well as may be before it is destroyed.  *)
HandleDestroy(s) ==
  /\ \/ /\ stage[s].pc = "ending"
        /\ \/ /\ s \in Gitspaces \/ Find(stage[s].vm)
              /\ stage' = [stage EXCEPT ![s].pc = "terminate",
                             ![s].row = IF s \in Gitspaces THEN RequestRow ELSE rows[stage[s].vm]]
           \/ To(s, "failed")
        /\ UNCHANGED rows
     \/ /\ stage[s].pc = "terminate" /\ To(s, "destroy")
        /\ Update(stage[s].vm, [stage[s].row EXCEPT !.state = "terminating"]) \/ UNCHANGED rows
  /\ UNCHANGED <<up, mutex, work, keeper>>

(* Destroy, without the mutex: the VM, then the row.  The handler begins   *)
(* again when it failed, until it gives up.                                *)
Destroy(s) ==
  /\ \/ /\ stage[s].pc \in {"cleanup", "lookup", "destroy"}
        /\ \/ /\ stage[s].pc = "lookup" => Find(stage[s].vm)
              /\ up' = [up EXCEPT ![stage[s].vm] = "none"] /\ To(s, "deleting")
           \/ stage[s].pc # "destroy" /\ To(s, "done") /\ UNCHANGED up
           \/ stage[s].pc = "destroy" /\ To(s, "ending") /\ UNCHANGED up
        /\ UNCHANGED rows
     \/ /\ stage[s].pc = "deleting" /\ stage' = [stage EXCEPT ![s].pc = "done"]
        /\ Delete({stage[s].vm}) \/ UNCHANGED rows
        /\ UNCHANGED up
  /\ UNCHANGED <<mutex, work, keeper>>

StageStep(s) ==
  \/ Provision(s) \/ ProvisionFromPool(s) \/ Claim(s) \/ CreateForStage(s) \/ ReturnToStage(s)
  \/ StartInstance(s) \/ WriteRow(s) \/ HealthAndSetup(s) \/ HandleDestroy(s) \/ Destroy(s)
Choice(s) == ProcessExistingInstance(s) \/ EndOfStage(s) \/ Suspend(s)

-----------------------------------------------------------------------------
(* BuildPools, the purger and CleanPools work under the mutex of the pool  *)
(* from their first list to their end.                                     *)
Leave == mutex' = FALSE /\ keeper' = NoKeeper

KeeperLock ==
  /\ keeper.pc = "idle" /\ ~mutex
  /\ mutex' = TRUE
  /\ \/ keeper.op = "build" /\ keeper' = [keeper EXCEPT !.pc = "count"]
     \/ /\ keeper.op # "build"
        /\ \E op \in Ops : keeper' = [NoKeeper EXCEPT !.op = op, !.pc = "list"]
  /\ UNCHANGED <<rows, up, work, stage>>

(* purgeStaleInstancesForPool destroys what is too old, cleanPool the busy *)
(* or the free instances or both; retained ones are not listed.            *)
Listed == {v \in DOMAIN rows : ~rows[v].retain}
Busy == List({"inuse", "terminating"}) \cap Listed
Spare == List({"created", "hibernating", "provisioning"}) \cap Listed
KeeperList ==
  /\ keeper.pc = "list"
  /\ \/ Leave
     \/ \E S \in IF keeper.op = "purge" THEN SUBSET (Busy \cup Spare)
                                        ELSE {Busy, Spare, Busy \cup Spare} :
          IF S = {} THEN Leave
          ELSE keeper' = [keeper EXCEPT !.pc = "destroy", !.set = S] /\ UNCHANGED mutex
  /\ UNCHANGED <<rows, up, work, stage>>

(* destroyByTenant: each tenant's driver destroys its part of the batch.   *)
(* The instances that the driver names as failed are taken out of it; but  *)
(* the drivers of Nomad, Azure, Anka and DigitalOcean return an error and  *)
(* no names when a destroy fails, and the error is only logged.            *)
(* Mutant of KeeperDestroy: the rows of the failed ones are deleted too. *)
KeeperDestroyAll ==
  /\ keeper.pc = "destroy"
  /\ \E failed \in SUBSET keeper.set :
       /\ up' = [v \in VMs |-> IF v \in keeper.set \ failed THEN "none" ELSE up[v]]
       /\ keeper' = [keeper EXCEPT !.pc = "delete"]
  /\ UNCHANGED <<rows, mutex, work, stage>>

KeeperDestroy ==
  /\ keeper.pc = "destroy"
  /\ \E failed \in SUBSET keeper.set :
       /\ up' = [v \in VMs |-> IF v \in keeper.set \ failed THEN "none" ELSE up[v]]
       /\ keeper' = [keeper EXCEPT !.pc = "delete",
                                    !.set = IF NamesFailed THEN @ \ failed ELSE @]
  /\ UNCHANGED <<rows, mutex, work, stage>>

(* The rows of the others are deleted; the first that cannot be deleted    *)
(* ends the operation.  The purger then rebuilds the pool.                 *)
KeeperDelete ==
  /\ keeper.pc = "delete"
  /\ \/ /\ Delete(keeper.set)
        /\ IF keeper.op = "purge"
           THEN keeper' = [keeper EXCEPT !.pc = "count", !.set = {}] /\ UNCHANGED mutex
           ELSE Leave
     \/ \E S \in SUBSET keeper.set : S # keeper.set /\ Delete(S) /\ Leave
  /\ UNCHANGED <<up, work, stage>>

(* buildPool: free and hibernating instances count, those being set up do  *)
(* not.  With tenants each is counted alone, without its variants.         *)
Of(t, v) == ~MultiTenant \/ (rows[v].tenant = t.id /\ rows[v].variant = NoVariant)
BusyOf(t) == {v \in List({"inuse"}) : Of(t, v)}
FreeOf(t) == {v \in List({"created", "hibernating"}) : Of(t, v)}
Missing(t) == ShouldCreate(t, Cardinality(BusyOf(t)), Cardinality(FreeOf(t)))
Excess(t) == ShouldRemove(t, Cardinality(BusyOf(t)), Cardinality(FreeOf(t)))

(* What is built, as batches of VMs that are set up together: a pool       *)
(* without tenants sets up its missing instances at once and then those of *)
(* each variant, a tenant's are set up one by one.  Those of a variant are *)
(* set up whether or not there are some.                                   *)
Batches(t) ==
  LET base == [i \in 1..Missing(t) |-> Group(t.id, NoVariant)]
      variant == [i \in DOMAIN t.variants |->
                    [j \in 1..t.variants[i] |-> Group(t.id, i)]]
  IN IF MultiTenant THEN [i \in DOMAIN base |-> <<base[i]>>] \o
                         [i \in DOMAIN FlattenSeq(variant) |-> <<FlattenSeq(variant)[i]>>]
     ELSE <<base>> \o variant

(* The excess is destroyed at the provider; its rows stay. *)
KeeperCount ==
  /\ keeper.pc = "count"
  /\ \/ Leave /\ UNCHANGED up
     \/ /\ keeper' = [keeper EXCEPT !.pc = "build", !.plan = FlattenSeq([i \in DOMAIN Tenants |->
                                                                    Batches(Tenants[i])])]
        /\ \E gone \in SUBSET List({"created", "hibernating"}) :
             /\ \A i \in DOMAIN Tenants :
                  Cardinality(gone \cap FreeOf(Tenants[i])) <= Excess(Tenants[i])
             /\ up' = [v \in VMs |-> IF v \in gone THEN "none" ELSE up[v]]
        /\ UNCHANGED mutex
  /\ UNCHANGED <<rows, work, stage>>

KeeperBuild ==
  /\ keeper.pc = "build"
  /\ \/ keeper.plan = <<>> /\ Leave /\ UNCHANGED work
     \/ /\ keeper.plan # <<>>
        /\ work' = Launch("keeper", Head(keeper.plan))
        /\ keeper' = [keeper EXCEPT !.pc = "wait", !.set = Fresh(Head(keeper.plan)),
                                    !.plan = Tail(@)]
        /\ UNCHANGED mutex
  /\ UNCHANGED <<rows, up, stage>>

KeeperWait ==
  /\ keeper.pc = "wait"
  /\ \A v \in keeper.set : work[v].pc \notin {"create", "record"}
  /\ keeper' = [keeper EXCEPT !.pc = "build", !.set = {}]
  /\ UNCHANGED <<rows, up, mutex, work, stage>>

KeeperStep ==
  KeeperList \/ KeeperDestroy \/ KeeperDelete \/ KeeperCount \/ KeeperBuild \/ KeeperWait

-----------------------------------------------------------------------------
PoolNext ==
  /\ \/ \E v \in VMs : Work(v)
     \/ \E s \in Stages : StageStep(s) \/ Choice(s)
     \/ KeeperLock \/ KeeperStep
  /\ UNCHANGED config

(* A goroutine goes on, and a stage gets a mutex that is free again and    *)
(* again (the mutex of Go hands itself to a waiter that starves).  The     *)
(* pool is built; nobody need start another operation of the keeper, end a *)
(* stage or resume a gitspace.                                             *)
VMGoesOn(v) == v \in VMs /\ Work(v) /\ UNCHANGED config
StageGoesOn(s) == s \in Stages /\ StageStep(s) /\ UNCHANGED config
KeeperGoesOn == (KeeperStep \/ (keeper.op = "build" /\ KeeperLock)) /\ UNCHANGED config
PoolFairness ==
  /\ \A v \in UNION {1..c.maxVMs : c \in Configs} : WF_poolVars(VMGoesOn(v))
  /\ \A s \in UNION {c.stages : c \in Configs} : SF_poolVars(StageGoesOn(s))
  /\ WF_poolVars(KeeperGoesOn)

PoolSpec == PoolInit /\ [][PoolNext]_poolVars /\ PoolFairness

-----------------------------------------------------------------------------
(* Properties. *)

Uses(s, v) ==
  stage[s].vm = v /\ stage[s].pc \in {"provisioned", "starting", "started", "check", "serving"}
Gitspace(v) == work[v].by \in Gitspaces

(* A handler has begun to end the VM, or has ended it. *)
HandlerEnds(v) ==
  \E s \in Stages \ Pipelines :
    /\ stage[s].vm = v
    /\ stage[s].pc \in {"ending", "terminate", "destroy", "failed", "deleting", "done"}

(* No VM is given to two stages, while warm VMs are set up, hibernated,    *)
(* retried, purged and replaced around them.  It does not hold of the VM   *)
(* of a gitspace, which Suspend makes a free instance of the pool, and of  *)
(* a VM that the handler of a stage has begun to end: hibernate takes a    *)
(* row that is terminating for a free one and makes it created again.      *)
LocalSingleUse ==
  \A v \in VMs, s, t \in Stages :
    Uses(s, v) /\ Uses(t, v) /\ ~Gitspace(v) /\ ~HandlerEnds(v) => s = t

(* With a driver that names the instances it failed on, every VM at the    *)
(* provider has a row, so that the purger finds it, or its set-up is on    *)
(* the way, or setupInstance tried to destroy it: whichever destroy of a   *)
(* batch or delete of a row fails.  It does not hold of the drivers that   *)
(* name none: purgePool and cleanPool then delete the row of a VM that     *)
(* lives (purger.go:187, 255), against their own comment, "Only delete     *)
(* successfully destroyed instances from database".                        *)
VMRecorded ==
  NamesFailed =>
    \A v \in VMs : up[v] # "none" => Find(v) \/ work[v].pc \in {"record", "lost"}

(* The hibernation of a warm VM, begun before a stage claimed it or tried  *)
(* again after that, never stops the VM under the stage, unless a handler  *)
(* ends it.                                                                *)
StopsInUse ==
  \E v \in VMs, s \in Stages :
    up[v] = "on" /\ up'[v] = "off" /\ ~Gitspace(v) /\ ~HandlerEnds(v) /\ Uses(s, v)

NotStoppedInUse == [][~StopsInUse]_poolVars

(* A stage that waits for its VM. *)
Provisioning(s) == stage[s].pc \in {"idle", "list", "claim", "create", "creating"}

=============================================================================
