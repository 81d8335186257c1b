--------------------------- MODULE DistributedManager ---------------------------
(***************************************************************************)
(* The life of a VM under the distributed pool manager of                  *)
(* app/drivers/distributed_manager.go: the row of the instances table, the *)
(* VM in the cloud, and the actors that read a row, talk to the cloud and  *)
(* write the row back:                                                     *)
(*                                                                         *)
(*   - the goroutine of setupInstanceWithHibernate, one per pooled VM;     *)
(*   - handleSetup, one per stage: claims a pooled VM or creates one;      *)
(*   - handleDestroy, one per stage;                                       *)
(*   - reapers: the purger, CleanPools and the scaler's scale-down.        *)
(*                                                                         *)
(* Every database statement and every driver call is a step of its own.    *)
(* What an actor keeps in memory between two steps is in its own variable, *)
(* because store.Update writes whole rows back from that memory.           *)
(*                                                                         *)
(* Left out: Manager.Suspend, which gitspaces call and the distributed     *)
(* manager inherits.  findOrCreateInstance makes the row of a VM that a    *)
(* stage has Created again, where any stage may claim it, so that nothing  *)
(* below is about a VM that is ever suspended; PoolManager has Suspend.    *)
(***************************************************************************)
EXTENDS Integers, FiniteSets

CONSTANTS
  VMs,                  \* instance ids; the cloud never reuses one
  Stages,               \* stage runtime ids, each set up once
  Reapers,              \* goroutines that run the purger, CleanPools, the scaler
  RetainStages,         \* stages whose request asks to retain the VM
  MaxAgeBusy,           \* DRONE_SETTINGS_BUSY_MAX_AGE, in ticks
  MaxAgeFree,           \* DRONE_SETTINGS_FREE_MAX_AGE, in ticks
  StuckProvisioning,    \* stuckProvisioningMaxAge, in ticks
  DriverReportsFailed,  \* does Driver.Destroy name the instances it failed on?
  NoVM, NoStage

ASSUME RetainAssumption == RetainStages \subseteq Stages
ASSUME AgeAssumption ==
  /\ MaxAgeBusy \in Nat \ {0} /\ MaxAgeFree \in Nat \ {0}
  /\ StuckProvisioning \in Nat \ {0}
  /\ MaxAgeBusy <= MaxAgeFree
ASSUME DriverAssumption == DriverReportsFailed \in BOOLEAN
ASSUME NoneAssumption == NoVM \notin VMs /\ NoStage \notin Stages

VARIABLES
  rows,        \* the instances table
  cloud,       \* the VMs as the provider has them
  pooler,      \* control of the goroutine of setupInstanceWithHibernate
  setup,       \* control of handleSetup
  leased,      \* the instance handleSetup works on
  held,        \* the mutable part of its in-memory copy of the row
  stageOwners, \* the stage_owner table
  destroyer,   \* control of handleDestroy
  target,      \* the instance handleDestroy works on
  job,         \* what a reaper is doing: a sweep, CleanPools or a scale-down
  step,        \* control of a reaper
  todo,        \* instances the reaper claimed and has not destroyed yet
  success,     \* instances the reaper holds for destroyed
  reported,    \* VMs whose row was force-deleted, with a leak warning, while live
  dropped      \* live VMs that never got a row

setupVars == <<setup, leased, held>>
destVars  == <<destroyer, target>>
reapVars  == <<job, step, todo, success>>
lossVars  == <<reported, dropped>>
vars == <<rows, cloud, pooler, setupVars, stageOwners, destVars, reapVars, lossVars>>

-----------------------------------------------------------------------------
(* The instances table.  A missing row is NoRow.  `started` is kept as the *)
(* row's age in ticks, which saturates where no cut-off tells ages apart;  *)
(* `updated` matters to terminating rows only, as whether it lies within   *)
(* stuckTerminatingMaxAge.                                                 *)

InstanceState == {"created", "inuse", "hibernating", "terminating", "provisioning"}
Source == {"pool", "predictor", "ondemand"}

AgeCap == 2 * MaxAgeFree + StuckProvisioning

Row == [state: InstanceState \cup {"none"}, stage: Stages \cup {NoStage},
        hib: BOOLEAN, retain: BOOLEAN, source: Source, age: 0..AgeCap,
        recent: BOOLEAN]

NoRow == [state |-> "none", stage |-> NoStage, hib |-> FALSE, retain |-> FALSE,
          source |-> "pool", age |-> 0, recent |-> FALSE]

HasRow(v) == rows[v].state # "none"
Retained(v) == HasRow(v) /\ rows[v].retain

(* InstanceStore.Create *)
Insert(v, state, retain, source) ==
  rows' = [rows EXCEPT ![v] =
             [NoRow EXCEPT !.state = state, !.retain = retain, !.source = source]]

(* InstanceStore.Update: by id and unconditional, so it overwrites what    *)
(* another actor wrote since the copy was read; a no-op without a row.     *)
Update(v, state, stage, hib, recent) ==
  rows' = [rows EXCEPT ![v] =
             IF HasRow(v)
               THEN [@ EXCEPT !.state = state, !.stage = stage, !.hib = hib,
                              !.recent = recent]
               ELSE @]

(* InstanceStore.Delete *)
Delete(v) == rows' = [rows EXCEPT ![v] = NoRow]

(* InstanceStore.FindAndClaim: one row in an allowed state.  Which one it  *)
(* returns depends on filters and on locked rows being skipped, so any.    *)
FindAndClaim(v, newState, allowedStates, updateStartTime) ==
  /\ rows[v].state \in allowedStates
  /\ rows' = [rows EXCEPT ![v].state = newState,
                          ![v].recent = (newState = "terminating"),
                          ![v].age = IF updateStartTime THEN 0 ELSE @]

-----------------------------------------------------------------------------
(* The cloud driver.  Destroying a VM that is already gone succeeds.       *)

CloudState == {"absent", "running", "stopped", "gone"}

Live(v) == cloud[v] \in {"running", "stopped"}

DriverCreate(v)  == cloud[v] = "absent" /\ cloud' = [cloud EXCEPT ![v] = "running"]
DriverDestroy(v) == cloud' = [cloud EXCEPT ![v] = "gone"]

-----------------------------------------------------------------------------
Init ==
  /\ rows = [v \in VMs |-> NoRow]
  /\ cloud = [v \in VMs |-> "absent"]
  /\ pooler = [v \in VMs |-> "none"]
  /\ setup = [s \in Stages |-> "idle"]
  /\ leased = [s \in Stages |-> NoVM]
  /\ held = [s \in Stages |->
               [state |-> "inuse", stage |-> NoStage, hib |-> FALSE, recent |-> FALSE]]
  /\ stageOwners = {}
  /\ destroyer = [s \in Stages |-> "idle"]
  /\ target = [s \in Stages |-> NoVM]
  /\ job = [r \in Reapers |-> "busy"]
  /\ step = [r \in Reapers |-> "idle"]
  /\ todo = [r \in Reapers |-> {}]
  /\ success = [r \in Reapers |-> {}]
  /\ reported = {}
  /\ dropped = {}

-----------------------------------------------------------------------------
(* setupInstanceWithHibernate: create a pooled VM, store it, wait until it *)
(* answers, publish it as Created, then try to hibernate it.               *)

PoolerTo(v, pc) == pooler' = [pooler EXCEPT ![v] = pc]

PoolerOnly == UNCHANGED <<setupVars, stageOwners, destVars, reapVars>>

SeedCreate(v) ==
  /\ pooler[v] = "none"
  /\ DriverCreate(v)
  /\ PoolerTo(v, "created")
  /\ PoolerOnly /\ UNCHANGED <<rows, lossVars>>

(* instanceStore.Create, and driver.Destroy with its result ignored when   *)
(* the insert fails.                                                       *)
SeedInsert(v) ==
  /\ pooler[v] = "created"
  /\ PoolerOnly /\ UNCHANGED reported
  /\ \/ /\ \E source \in {"pool", "predictor"} : Insert(v, "provisioning", FALSE, source)
        /\ PoolerTo(v, "waiting")
        /\ UNCHANGED <<cloud, dropped>>
     \/ DriverDestroy(v) /\ PoolerTo(v, "done") /\ UNCHANGED <<rows, dropped>>
     \/ dropped' = dropped \cup {v} /\ PoolerTo(v, "done") /\ UNCHANGED <<rows, cloud>>

(* waitForInstanceConnectivity *)
SeedConnect(v) ==
  /\ pooler[v] = "waiting"
  /\ \/ HasRow(v) /\ cloud[v] = "running" /\ PoolerTo(v, "verified")
     \/ PoolerTo(v, "unreachable")
  /\ PoolerOnly /\ UNCHANGED <<rows, cloud, lossVars>>

(* Manager.Destroy: the driver call, and its error return. *)
SeedDestroy(v) ==
  /\ pooler[v] = "unreachable"
  /\ \/ DriverDestroy(v) /\ PoolerTo(v, "destroyed")
     \/ PoolerTo(v, "done") /\ UNCHANGED cloud
  /\ PoolerOnly /\ UNCHANGED <<rows, lossVars>>

(* Manager.Destroy: the row goes last; failing to delete it is logged. *)
SeedDelete(v) ==
  /\ pooler[v] = "destroyed"
  /\ Delete(v) \/ UNCHANGED rows
  /\ PoolerTo(v, "done")
  /\ PoolerOnly /\ UNCHANGED <<cloud, lossVars>>

(* Step 2: the whole row is written back as Created. *)
SeedVerified(v) ==
  /\ pooler[v] = "verified"
  /\ \/ Update(v, "created", NoStage, FALSE, FALSE) /\ PoolerTo(v, "ready")
     \/ PoolerTo(v, "done") /\ UNCHANGED rows
  /\ PoolerOnly /\ UNCHANGED <<cloud, lossVars>>

(* Mutants of HibernateClaim: the claim also takes a VM in use; the row is *)
(* checked and not claimed.                                                *)
HibernateClaimInUse(v) ==
  /\ pooler[v] = "ready"
  /\ FindAndClaim(v, "hibernating", {"created", "inuse"}, FALSE)
  /\ PoolerTo(v, "hibernating")
  /\ PoolerOnly /\ UNCHANGED <<cloud, lossVars>>

HibernateUnclaimed(v) ==
  /\ pooler[v] = "ready"
  /\ rows[v].state = "created"
  /\ PoolerTo(v, "hibernating")
  /\ PoolerOnly /\ UNCHANGED <<rows, cloud, lossVars>>

(* hibernate: the claim. *)
HibernateClaim(v) ==
  /\ pooler[v] = "ready"
  /\ FindAndClaim(v, "hibernating", {"created"}, FALSE)
  /\ PoolerTo(v, "hibernating")
  /\ PoolerOnly /\ UNCHANGED <<cloud, lossVars>>

(* hibernate: not wanted, or the claim returned an error. *)
HibernateSkip(v) ==
  /\ pooler[v] = "ready"
  /\ PoolerTo(v, "done")
  /\ PoolerOnly /\ UNCHANGED <<rows, cloud, lossVars>>

(* hibernate: the driver call with its retries.  One that returned an      *)
(* error may have suspended the VM all the same.                           *)
HibernateVM(v) ==
  /\ pooler[v] = "hibernating"
  /\ \/ Live(v) /\ cloud' = [cloud EXCEPT ![v] = "stopped"] /\ PoolerTo(v, "hibOK")
     \/ Live(v) /\ cloud' = [cloud EXCEPT ![v] = "stopped"] /\ PoolerTo(v, "hibFail")
     \/ PoolerTo(v, "hibFail") /\ UNCHANGED cloud
  /\ PoolerOnly /\ UNCHANGED <<rows, lossVars>>

(* hibernate: the claimed copy is written back as Created. *)
HibernateDone(v) ==
  /\ pooler[v] \in {"hibOK", "hibFail"}
  /\ \/ Update(v, "created", NoStage, pooler[v] = "hibOK", FALSE)
     \/ UNCHANGED rows
  /\ PoolerTo(v, "done")
  /\ PoolerOnly /\ UNCHANGED <<cloud, lossVars>>

PoolerCrash(v) ==
  /\ pooler[v] \notin {"none", "done"}
  /\ PoolerTo(v, "done")
  /\ dropped' = IF pooler[v] = "created" THEN dropped \cup {v} ELSE dropped
  /\ PoolerOnly /\ UNCHANGED <<rows, cloud, reported>>

Pooler(v) ==
  \/ SeedCreate(v) \/ SeedInsert(v) \/ SeedConnect(v) \/ SeedDestroy(v)
  \/ SeedDelete(v) \/ SeedVerified(v) \/ HibernateClaim(v) \/ HibernateSkip(v)
  \/ HibernateVM(v) \/ HibernateDone(v)

-----------------------------------------------------------------------------
(* handleSetup: Provision, StartInstance, tag, health check, stage owner.  *)

SetupTo(s, pc) == setup' = [setup EXCEPT ![s] = pc]

SetupOnly == UNCHANGED <<pooler, destVars, reapVars>>

Copy(v) == [state |-> rows[v].state, stage |-> rows[v].stage, hib |-> rows[v].hib,
            recent |-> rows[v].recent]

(* Clean-up runs in a goroutine that reads handleSetup's named result      *)
(* `instance` while the return statement sets it to nil: it may find the   *)
(* instance or nil, and with nil looks the row up in the store.            *)
StartCleanup(s) == SetupTo(s, "cleaning") \/ SetupTo(s, "cleaningByID")

(* Mutant of ClaimFree: the copy is the row as it was before the claim. *)
ClaimFreeStaleCopy(s, v) ==
  /\ setup[s] = "idle"
  /\ FindAndClaim(v, "inuse", {"created"}, TRUE)
  /\ leased' = [leased EXCEPT ![s] = v]
  /\ held' = [held EXCEPT ![s] = Copy(v)]
  /\ SetupTo(s, "claimed")
  /\ SetupOnly /\ UNCHANGED <<cloud, stageOwners, lossVars>>

(* provisionWithVariants, case 2 *)
ClaimFree(s, v) ==
  /\ setup[s] = "idle"
  /\ FindAndClaim(v, "inuse", {"created"}, TRUE)
  /\ leased' = [leased EXCEPT ![s] = v]
  /\ held' = [held EXCEPT ![s] = Copy(v)']
  /\ SetupTo(s, "claimed")
  /\ SetupOnly /\ UNCHANGED <<cloud, stageOwners, lossVars>>

(* The owner is written with the whole copy; an error leaves the row. *)
OwnerUpdate(s) ==
  /\ setup[s] = "claimed"
  /\ \/ /\ Update(leased[s], held[s].state, held[s].stage, held[s].hib, held[s].recent)
        /\ SetupTo(s, "provisioned")
     \/ SetupTo(s, "failed") /\ UNCHANGED rows
  /\ SetupOnly /\ UNCHANGED <<cloud, leased, held, stageOwners, lossVars>>

(* provisionWithVariants, case 3: no pooled VM matched. *)
CreateOnDemand(s, v) ==
  /\ setup[s] = "idle"
  /\ DriverCreate(v)
  /\ leased' = [leased EXCEPT ![s] = v]
  /\ SetupTo(s, "creating")
  /\ SetupOnly /\ UNCHANGED <<rows, held, stageOwners, lossVars>>

InsertOnDemand(s) ==
  LET v == leased[s] IN
  /\ setup[s] = "creating"
  /\ SetupOnly /\ UNCHANGED <<leased, held, stageOwners, reported>>
  /\ \/ /\ Insert(v, "inuse", s \in RetainStages, "ondemand")
        /\ SetupTo(s, "provisioned")
        /\ UNCHANGED <<cloud, dropped>>
     \/ DriverDestroy(v) /\ SetupTo(s, "failed") /\ UNCHANGED <<rows, dropped>>
     \/ dropped' = dropped \cup {v} /\ SetupTo(s, "failed") /\ UNCHANGED <<rows, cloud>>

(* Mutant of ResumeFind: a row that is not there is read as an empty one. *)
ResumeFindUnchecked(s) ==
  LET v == leased[s] IN
  /\ setup[s] = "provisioned" /\ held[s].hib
  /\ held' = [held EXCEPT ![s] = Copy(v)]
  /\ SetupTo(s, IF rows[v].hib THEN "resuming" ELSE "resumed")
  /\ SetupOnly /\ UNCHANGED <<rows, cloud, leased, stageOwners, lossVars>>

(* StartInstance: the copy is read again. *)
ResumeFind(s) ==
  LET v == leased[s] IN
  /\ setup[s] = "provisioned" /\ held[s].hib
  /\ \/ /\ HasRow(v)
        /\ held' = [held EXCEPT ![s] = Copy(v)]
        /\ SetupTo(s, IF rows[v].hib THEN "resuming" ELSE "resumed")
     \/ SetupTo(s, "cleaningByID") /\ UNCHANGED held
  /\ SetupOnly /\ UNCHANGED <<rows, cloud, leased, stageOwners, lossVars>>

ResumeStart(s) ==
  LET v == leased[s] IN
  /\ setup[s] = "resuming"
  /\ \/ /\ Live(v) /\ cloud' = [cloud EXCEPT ![v] = "running"]
        /\ SetupTo(s, "resumeWrite")
     \/ SetupTo(s, "cleaningByID") /\ UNCHANGED cloud
  /\ SetupOnly /\ UNCHANGED <<rows, leased, held, stageOwners, lossVars>>

ResumeWrite(s) ==
  /\ setup[s] = "resumeWrite"
  /\ \/ /\ Update(leased[s], held[s].state, held[s].stage, FALSE, held[s].recent)
        /\ held' = [held EXCEPT ![s].hib = FALSE]
        /\ SetupTo(s, "resumed")
     \/ SetupTo(s, "cleaningByID") /\ UNCHANGED <<rows, held>>
  /\ SetupOnly /\ UNCHANGED <<cloud, leased, stageOwners, lossVars>>

(* tagAndConnectInstance: the stage is written with the whole copy. *)
Tag(s) ==
  /\ setup[s] = "resumed" \/ (setup[s] = "provisioned" /\ ~held[s].hib)
  /\ \/ /\ Update(leased[s], held[s].state, s, held[s].hib, held[s].state = "terminating")
        /\ SetupTo(s, "tagged")
     \/ StartCleanup(s) /\ UNCHANGED rows
  /\ SetupOnly /\ UNCHANGED <<cloud, leased, held, stageOwners, lossVars>>

(* Instance tags, the client, RetryHealth and RetrySetup. *)
HealthCheck(s) ==
  /\ setup[s] = "tagged"
  /\ \/ cloud[leased[s]] = "running" /\ SetupTo(s, "healthy")
     \/ StartCleanup(s)
  /\ SetupOnly /\ UNCHANGED <<rows, cloud, leased, held, stageOwners, lossVars>>

(* HandleSetup records the stage owner; on failure it cleans up itself. *)
OwnStage(s) ==
  /\ setup[s] = "healthy"
  /\ \/ stageOwners' = stageOwners \cup {s} /\ SetupTo(s, "ready")
     \/ SetupTo(s, "cleaning") /\ UNCHANGED stageOwners
  /\ SetupOnly /\ UNCHANGED <<rows, cloud, leased, held, lossVars>>

(* Manager.Destroy with a nil instance: find it, or give up. *)
CleanupFind(s) ==
  /\ setup[s] = "cleaningByID"
  /\ SetupTo(s, "failed") \/ (HasRow(leased[s]) /\ SetupTo(s, "cleaning"))
  /\ SetupOnly /\ UNCHANGED <<rows, cloud, leased, held, stageOwners, lossVars>>

(* Mutant of CleanupDestroy: the driver's error is ignored. *)
CleanupIgnoresError(s) ==
  /\ setup[s] = "cleaning"
  /\ SetupTo(s, "cleaned")
  /\ DriverDestroy(leased[s]) \/ UNCHANGED cloud
  /\ SetupOnly /\ UNCHANGED <<rows, leased, held, stageOwners, lossVars>>

CleanupDestroy(s) ==
  /\ setup[s] = "cleaning"
  /\ \/ DriverDestroy(leased[s]) /\ SetupTo(s, "cleaned")
     \/ SetupTo(s, "failed") /\ UNCHANGED cloud
  /\ SetupOnly /\ UNCHANGED <<rows, leased, held, stageOwners, lossVars>>

CleanupDelete(s) ==
  /\ setup[s] = "cleaned"
  /\ Delete(leased[s]) \/ UNCHANGED rows
  /\ SetupTo(s, "failed")
  /\ SetupOnly /\ UNCHANGED <<cloud, leased, held, stageOwners, lossVars>>

SetupCrash(s) ==
  /\ setup[s] \notin {"idle", "ready", "failed"}
  /\ SetupTo(s, "failed")
  /\ dropped' = IF setup[s] = "creating" THEN dropped \cup {leased[s]} ELSE dropped
  /\ SetupOnly /\ UNCHANGED <<rows, cloud, leased, held, stageOwners, reported>>

SetupStep(s) ==
  \/ OwnerUpdate(s) \/ InsertOnDemand(s) \/ ResumeFind(s) \/ ResumeStart(s)
  \/ ResumeWrite(s) \/ Tag(s) \/ HealthCheck(s) \/ OwnStage(s)
  \/ CleanupFind(s) \/ CleanupDestroy(s) \/ CleanupDelete(s)

-----------------------------------------------------------------------------
(* HandleDestroy: retried until it returns without an error.               *)

DestroyerTo(s, pc) == destroyer' = [destroyer EXCEPT ![s] = pc]

DestroyOnly == UNCHANGED <<pooler, setupVars, reapVars, lossVars>>

(* Mutant of DestroyFindDB: the query has no filter on the stage. *)
DestroyFindAny(s, v) ==
  /\ destroyer[s] = "idle"
  /\ s \in stageOwners
  /\ rows[v].state = "inuse"
  /\ target' = [target EXCEPT ![s] = v]
  /\ DestroyerTo(s, "foundDB")
  /\ DestroyOnly /\ UNCHANGED <<rows, cloud, stageOwners>>

(* The stage owner row, for the pool, and GetInstanceByStageID. *)
DestroyFindDB(s, v) ==
  /\ destroyer[s] = "idle"
  /\ s \in stageOwners
  /\ rows[v].state = "inuse" /\ rows[v].stage = s
  /\ target' = [target EXCEPT ![s] = v]
  /\ DestroyerTo(s, "foundDB")
  /\ DestroyOnly /\ UNCHANGED <<rows, cloud, stageOwners>>

(* BuildInstanceFromRequest: the InstanceInfo of the setup's response. *)
DestroyFindInfo(s) ==
  /\ destroyer[s] = "idle"
  /\ setup[s] = "ready"
  /\ target' = [target EXCEPT ![s] = leased[s]]
  /\ DestroyerTo(s, "foundInfo")
  /\ DestroyOnly /\ UNCHANGED <<rows, cloud, stageOwners>>

(* The row becomes Terminating; a failure is only logged.  The instance    *)
(* built from a request has no stage and started at 0, which Update writes.*)
DestroyMark(s) ==
  LET v == target[s] IN
  /\ destroyer[s] \in {"foundDB", "foundInfo"}
  /\ \/ /\ destroyer[s] = "foundDB"
        /\ Update(v, "terminating", s, rows[v].hib, TRUE)
     \/ /\ destroyer[s] = "foundInfo" /\ HasRow(v)
        /\ rows' = [rows EXCEPT ![v].state = "terminating", ![v].stage = NoStage,
                                ![v].hib = FALSE, ![v].recent = TRUE, ![v].age = AgeCap]
     \/ UNCHANGED rows
  /\ DestroyerTo(s, "terminating")
  /\ DestroyOnly /\ UNCHANGED <<cloud, stageOwners, target>>

(* The driver call; an error sends HandleDestroy round its loop. *)
DestroyVM(s) ==
  /\ destroyer[s] = "terminating"
  /\ \/ DriverDestroy(target[s]) /\ DestroyerTo(s, "destroyed") /\ UNCHANGED target
     \/ /\ DestroyerTo(s, "idle")
        /\ target' = [target EXCEPT ![s] = NoVM]
        /\ UNCHANGED cloud
  /\ DestroyOnly /\ UNCHANGED <<rows, stageOwners>>

DestroyDelete(s) ==
  /\ destroyer[s] = "destroyed"
  /\ Delete(target[s]) \/ UNCHANGED rows
  /\ DestroyerTo(s, "deleted")
  /\ DestroyOnly /\ UNCHANGED <<cloud, stageOwners, target>>

DestroyUnown(s) ==
  /\ destroyer[s] = "deleted"
  /\ stageOwners' = stageOwners \ {s} \/ UNCHANGED stageOwners
  /\ DestroyerTo(s, "done")
  /\ DestroyOnly /\ UNCHANGED <<rows, cloud, target>>

DestroyCrash(s) ==
  /\ destroyer[s] \notin {"idle", "done"}
  /\ DestroyerTo(s, "idle")
  /\ target' = [target EXCEPT ![s] = NoVM]
  /\ DestroyOnly /\ UNCHANGED <<rows, cloud, stageOwners>>

DestroyStep(s) ==
  \/ DestroyMark(s) \/ DestroyVM(s) \/ DestroyDelete(s) \/ DestroyUnown(s)

-----------------------------------------------------------------------------
(* The reapers: a purger sweep (busy, then free), CleanPools, scaleDown.   *)

StepTo(r, pc) == step' = [step EXCEPT ![r] = pc]

ReapOnly == UNCHANGED <<pooler, setupVars, stageOwners, destVars, dropped>>

FreeStates == {"created", "hibernating", "provisioning"}

(* The end of a job; a busy sweep is followed by the free one. *)
Finish(r) ==
  /\ todo' = [todo EXCEPT ![r] = {}]
  /\ success' = [success EXCEPT ![r] = {}]
  /\ IF job[r] = "busy"
       THEN StepTo(r, "force") /\ job' = [job EXCEPT ![r] = "free"]
       ELSE StepTo(r, "idle") /\ job' = [job EXCEPT ![r] = "busy"]

StartJob(r, j) ==
  /\ step[r] = "idle"
  /\ job' = [job EXCEPT ![r] = j]
  /\ StepTo(r, IF j = "busy" THEN "force" ELSE "claim")
  /\ ReapOnly /\ UNCHANGED <<rows, cloud, todo, success, reported>>

(* The rows forceDeleteLeakedInstances selects: by age alone. *)
Leaked(kind) ==
  {v \in VMs : HasRow(v) /\
     rows[v].age > 2 * (IF kind = "busy" THEN MaxAgeBusy ELSE MaxAgeFree)}

(* Mutant of ForceDelete: a row that some reaper has claimed is left to it. *)
ForceDeleteUnclaimed(r) ==
  LET leaked == {v \in Leaked(job[r]) : rows[v].state # "terminating"} IN
  /\ step[r] = "force"
  /\ rows' = [v \in VMs |-> IF v \in leaked THEN NoRow ELSE rows[v]]
  /\ reported' = reported \cup {v \in leaked : Live(v)}
  /\ StepTo(r, "claim")
  /\ ReapOnly /\ UNCHANGED <<cloud, job, todo, success>>

(* forceDeleteLeakedInstances: one DELETE, whatever the rows' states. *)
ForceDelete(r) ==
  LET leaked == Leaked(job[r]) IN
  /\ step[r] = "force"
  /\ rows' = [v \in VMs |-> IF v \in leaked THEN NoRow ELSE rows[v]]
  /\ reported' = reported \cup {v \in leaked : Live(v)}
  /\ StepTo(r, "claim")
  /\ ReapOnly /\ UNCHANGED <<cloud, job, todo, success>>

(* A failed statement is logged, and the sweep goes on. *)
ForceDeleteFails(r) ==
  /\ step[r] = "force"
  /\ StepTo(r, "claim")
  /\ ReapOnly /\ UNCHANGED <<rows, cloud, job, todo, success, reported>>

(* The conditions of cleanupBusyInstances and cleanupFreeInstances. *)
Stale(v, kind) ==
  LET row == rows[v] IN
  IF kind = "busy"
    THEN \/ row.state \in {"inuse", "terminating"} /\ row.age > MaxAgeBusy /\ ~row.retain
         \/ row.state = "terminating" /\ ~row.recent
    ELSE \/ row.state \in {"created", "hibernating"} /\ row.age > MaxAgeFree /\ ~row.retain
         \/ row.state = "provisioning" /\ row.age > StuckProvisioning

(* executeInstanceCleanup: one UPDATE claims every stale row. *)
PurgeClaim(r) ==
  LET stale == {v \in VMs : Stale(v, job[r])} IN
  /\ step[r] = "claim" /\ job[r] \in {"busy", "free"}
  /\ ReapOnly /\ UNCHANGED <<cloud, reported>>
  /\ \/ /\ rows' = [v \in VMs |->
                      IF v \in stale
                        THEN [rows[v] EXCEPT !.state = "terminating", !.recent = TRUE]
                        ELSE rows[v]]
        /\ todo' = [todo EXCEPT ![r] = stale]
        /\ StepTo(r, "destroy")
        /\ UNCHANGED <<job, success>>
     \/ Finish(r) /\ UNCHANGED rows

(* cleanPool claims row by row.  FindAndClaim does not read MatchLabels. *)
CleanClaim(r, v) ==
  /\ step[r] = "claim" /\ job[r] \in {"cleanAll", "cleanFree"}
  /\ FindAndClaim(v, "terminating",
                  IF job[r] = "cleanAll" THEN FreeStates \cup {"inuse"} ELSE FreeStates,
                  FALSE)
  /\ todo' = [todo EXCEPT ![r] = @ \cup {v}]
  /\ ReapOnly /\ UNCHANGED <<cloud, job, step, success, reported>>

CleanClaimed(r) ==
  /\ step[r] = "claim" /\ job[r] \in {"cleanAll", "cleanFree"}
  /\ StepTo(r, "destroy")
  /\ ReapOnly /\ UNCHANGED <<rows, cloud, job, todo, success, reported>>

(* A claim that returns an error leaves the rows claimed so far. *)
ClaimError(r) ==
  /\ step[r] = "claim" /\ job[r] \in {"cleanAll", "cleanFree", "scale"}
  /\ Finish(r)
  /\ ReapOnly /\ UNCHANGED <<rows, cloud, reported>>

(* scaleDown *)
ScaleClaim(r, v) ==
  /\ step[r] = "claim" /\ job[r] = "scale"
  /\ rows[v].source = "predictor"
  /\ FindAndClaim(v, "terminating", {"created", "hibernating"}, FALSE)
  /\ todo' = [todo EXCEPT ![r] = {v}]
  /\ StepTo(r, "destroy")
  /\ ReapOnly /\ UNCHANGED <<cloud, job, success, reported>>

ReapDestroy(r, v) ==
  /\ step[r] = "destroy" /\ v \in todo[r]
  /\ DriverDestroy(v)
  /\ todo' = [todo EXCEPT ![r] = @ \ {v}]
  /\ success' = [success EXCEPT ![r] = @ \cup {v}]
  /\ ReapOnly /\ UNCHANGED <<rows, job, step, reported>>

(* Driver.Destroy fails on v: the driver goes on and names v, or it stops  *)
(* and returns no list, which destroyByTenant's callers take for success.  *)
(* scaleDown goes through Manager.Destroy, which honours the error.        *)
ReapDestroyFail(r, v) ==
  /\ step[r] = "destroy" /\ v \in todo[r]
  /\ IF DriverReportsFailed \/ job[r] = "scale"
       THEN todo' = [todo EXCEPT ![r] = @ \ {v}] /\ UNCHANGED success
       ELSE /\ todo' = [todo EXCEPT ![r] = {}]
            /\ success' = [success EXCEPT ![r] = @ \cup todo[r]]
  /\ ReapOnly /\ UNCHANGED <<rows, cloud, job, step, reported>>

(* Mutant of ReapDelete: the DELETE takes all claimed rows, before the     *)
(* driver is done.                                                         *)
ReapDeleteClaimed(r) ==
  /\ step[r] = "destroy"
  /\ rows' = [v \in VMs |-> IF v \in todo[r] \cup success[r] THEN NoRow ELSE rows[v]]
  /\ Finish(r)
  /\ ReapOnly /\ UNCHANGED <<cloud, reported>>

(* The rows of what was destroyed go in one DELETE, which may fail. *)
ReapDelete(r) ==
  /\ step[r] = "destroy" /\ todo[r] = {}
  /\ \/ rows' = [v \in VMs |-> IF v \in success[r] THEN NoRow ELSE rows[v]]
     \/ UNCHANGED rows
  /\ Finish(r)
  /\ ReapOnly /\ UNCHANGED <<cloud, reported>>

ReaperCrash(r) ==
  /\ step[r] # "idle"
  /\ StepTo(r, "idle")
  /\ job' = [job EXCEPT ![r] = "busy"]
  /\ todo' = [todo EXCEPT ![r] = {}]
  /\ success' = [success EXCEPT ![r] = {}]
  /\ ReapOnly /\ UNCHANGED <<rows, cloud, reported>>

ReapStep(r) ==
  \/ ForceDelete(r) \/ ForceDeleteFails(r) \/ PurgeClaim(r) \/ CleanClaimed(r)
  \/ ClaimError(r) \/ ReapDelete(r)
  \/ \E v \in VMs : CleanClaim(r, v) \/ ScaleClaim(r, v) \/ ReapDestroy(r, v)
                      \/ ReapDestroyFail(r, v)

-----------------------------------------------------------------------------
(* Time: rows age, and `updated` falls out of stuckTerminatingMaxAge. *)
Tick ==
  /\ rows' = [v \in VMs |->
                IF HasRow(v)
                  THEN [rows[v] EXCEPT !.recent = FALSE,
                                       !.age = IF @ < AgeCap THEN @ + 1 ELSE @]
                  ELSE rows[v]]
  /\ held' = [s \in Stages |-> [held[s] EXCEPT !.recent = FALSE]]
  /\ UNCHANGED <<cloud, pooler, setup, leased, stageOwners, destVars, reapVars, lossVars>>

Next ==
  \/ \E v \in VMs : Pooler(v) \/ PoolerCrash(v)
  \/ \E s \in Stages :
       \/ SetupStep(s) \/ SetupCrash(s)
       \/ \E v \in VMs : ClaimFree(s, v) \/ CreateOnDemand(s, v)
  \/ \E s \in Stages :
       \/ DestroyFindInfo(s) \/ DestroyStep(s) \/ DestroyCrash(s)
       \/ \E v \in VMs : DestroyFindDB(s, v)
  \/ \E r \in Reapers :
       \/ \E j \in {"busy", "cleanAll", "cleanFree", "scale"} : StartJob(r, j)
       \/ ReapStep(r) \/ ReaperCrash(r)
  \/ Tick

Spec == Init /\ [][Next]_vars

(* Handlers and sweeps that were started go on, time passes, the purger's  *)
(* ticker keeps firing and the database does not refuse its DELETE for     *)
(* ever.  Nothing is assumed of the driver.                                *)
Fairness ==
  /\ \A v \in VMs : WF_vars(Pooler(v))
  /\ \A s \in Stages : WF_vars(SetupStep(s))
  /\ WF_vars(Tick)
  /\ \A r \in Reapers : /\ WF_vars(ReapStep(r))
                        /\ SF_vars(StartJob(r, "busy"))
                        /\ SF_vars(ForceDelete(r))

FairSpec == Spec /\ Fairness

-----------------------------------------------------------------------------
(* Invariants. *)

PoolerPC == {"none", "created", "waiting", "verified", "unreachable", "destroyed",
             "ready", "hibernating", "hibOK", "hibFail", "done"}
SetupPC == {"idle", "claimed", "creating", "provisioned", "resuming", "resumeWrite",
            "resumed", "tagged", "healthy", "ready", "cleaningByID", "cleaning",
            "cleaned", "failed"}
DestroyPC == {"idle", "foundDB", "foundInfo", "terminating", "destroyed", "deleted", "done"}
Job == {"busy", "free", "cleanAll", "cleanFree", "scale"}

(* The types of the tables and of every actor's memory. *)
TypeOK ==
  /\ rows \in [VMs -> Row]
  /\ cloud \in [VMs -> CloudState]
  /\ pooler \in [VMs -> PoolerPC]
  /\ setup \in [Stages -> SetupPC]
  /\ leased \in [Stages -> VMs \cup {NoVM}]
  /\ held \in [Stages -> [state: InstanceState, stage: Stages \cup {NoStage},
                          hib: BOOLEAN, recent: BOOLEAN]]
  /\ stageOwners \subseteq Stages
  /\ destroyer \in [Stages -> DestroyPC]
  /\ target \in [Stages -> VMs \cup {NoVM}]
  /\ job \in [Reapers -> Job]
  /\ step \in [Reapers -> {"idle", "force", "claim", "destroy"}]
  /\ todo \in [Reapers -> SUBSET VMs]
  /\ success \in [Reapers -> SUBSET VMs]
  /\ reported \subseteq VMs
  /\ dropped \subseteq VMs

(* A VM runs at most one stage in its whole life.  No lock orders the      *)
(* claim of Provision, the two writes of the pooler's goroutine and the    *)
(* whole-row writes of handleSetup; a single one that put a used VM back   *)
(* to Created would hand one tenant's disk to another.                     *)
SingleUse ==
  \A s, t \in Stages : leased[s] = leased[t] /\ leased[s] # NoVM => s = t

(* The row of a VM that was handed to a stage never reads free again,      *)
(* whichever stale copy was written last: it is InUse or Terminating, or   *)
(* is gone.                                                                *)
LeasedNeverFree ==
  \A s \in Stages : leased[s] # NoVM => rows[leased[s]].state \notin FreeStates

(* A VM on which a stage passed its health check is never suspended under  *)
(* it by hibernate(), which claims the row, sleeps between its attempts    *)
(* and writes the row back minutes later.                                  *)
StageVMNeverSuspended ==
  \A s \in Stages : setup[s] \in {"healthy", "ready"} => cloud[leased[s]] # "stopped"

(* The row of a VM outlives the VM: whatever fails or crashes, a live VM   *)
(* is still in the table for the purger to find, is between driver.Create  *)
(* and instanceStore.Create, was lost there, or was given up with the      *)
(* instance_leak_candidate warning.                                        *)
RowOutlivesVM ==
  \A v \in VMs : Live(v) =>
    \/ HasRow(v)
    \/ pooler[v] = "created"
    \/ \E s \in Stages : setup[s] = "creating" /\ leased[s] = v
    \/ v \in reported \cup dropped

(* handleDestroy never destroys another stage's VM, whether it found it by *)
(* the stage in the row or in the request.                                 *)
DestroyHitsOwnVM ==
  \A s \in Stages : target[s] \in {NoVM, leased[s]}

-----------------------------------------------------------------------------
(* The inductive invariant behind these: who may write a row when.         *)

(* A started handleSetup has its VM, an active handleDestroy its target. *)
Busy ==
  /\ \A s \in Stages : setup[s] = "idle" <=> leased[s] = NoVM
  /\ \A s \in Stages : destroyer[s] # "idle" => target[s] # NoVM

(* The states a row can be in while the pooler's goroutine is before its   *)
(* first write, and between its hibernation claim and its last write.      *)
PoolerRow(v) ==
  /\ pooler[v] = "created" => rows[v].state = "none"
  /\ pooler[v] \in {"waiting", "verified", "unreachable", "destroyed"} =>
       rows[v].state \in {"none", "provisioning", "terminating"}
  /\ pooler[v] \in {"hibernating", "hibOK", "hibFail"} =>
       rows[v].state \in {"none", "hibernating", "terminating"}

(* A leased VM has no pooler that will write its row, and no row before    *)
(* InsertOnDemand.                                                         *)
LeasedRow(s) ==
  leased[s] # NoVM =>
    /\ pooler[leased[s]] \in {"none", "ready", "done"}
    /\ setup[s] = "creating" => rows[leased[s]].state = "none"

Unborn(v) ==
  cloud[v] = "absent" =>
    rows[v].state = "none" /\ pooler[v] = "none" /\ \A s \in Stages : leased[s] # v

LeaseInv ==
  /\ SingleUse
  /\ LeasedNeverFree
  /\ \A v \in VMs : PoolerRow(v)
  /\ \A s \in Stages : LeasedRow(s)
  /\ \A v \in VMs : Unborn(v)
  /\ \A s \in Stages : held[s].state \in {"inuse", "terminating"}

(* A stage in a row, or in a copy of one, is the stage that leased the VM. *)
StageInv ==
  /\ \A v \in VMs, s \in Stages : rows[v].stage = s => leased[s] = v
  /\ \A s \in Stages : held[s].stage \in {NoStage, s}
  /\ DestroyHitsOwnVM

(* Whoever is about to delete a row knows that the VM is gone. *)
RowInv ==
  /\ \A v \in VMs : pooler[v] = "destroyed" => cloud[v] = "gone"
  /\ \A s \in Stages : setup[s] = "cleaned" => cloud[leased[s]] = "gone"
  /\ \A s \in Stages : destroyer[s] = "destroyed" => cloud[target[s]] = "gone"
  /\ \A r \in Reapers : \A v \in success[r] : cloud[v] = "gone"
  /\ RowOutlivesVM

-----------------------------------------------------------------------------
(* What comments of the code say and the code does not keep.               *)

(* scaler.go on scaleDown: "Use FindAndClaim to atomically claim instances *)
(* for termination / This avoids race conditions with other processes".    *)
(* No stage holds a VM that scaleDown has claimed.                         *)
ScaleDownOwnsVM ==
  \A r \in Reapers, s \in Stages : job[r] = "scale" => leased[s] \notin todo[r]

(* StartInstancePurger, on the retain label: "If retain is true, instance  *)
(* is not cleaned up while we clean the pools or run the instance purger". *)
(* No step of a reaper ends the use of a VM whose row is retained.         *)
RetainedSpared ==
  [][\A v \in VMs : Retained(v) /\ rows[v].state = "inuse" /\ rows'[v].state # "inuse"
       => UNCHANGED reapVars]_vars

-----------------------------------------------------------------------------
(* Liveness and refinement. *)

(* No VM is for ever: whatever crashes and whatever the driver refuses, it *)
(* is destroyed in the end, is given up with a warning by the purger, or   *)
(* was lost before it had a row.  A VM whose row is marked as retained is  *)
(* left out: it is to stay until it is asked for, for ever if it is not.   *)
VMReclaimed ==
  \A v \in VMs : Live(v) ~> (~Live(v) \/ Retained(v) \/ v \in reported \cup dropped)

fate == [v \in VMs |-> CASE cloud[v] = "absent" -> "unborn"
                         [] cloud[v] = "gone" -> "dead"
                         [] OTHER -> "live"]

Lease == INSTANCE VMLease WITH lease <- leased, tracked <- {v \in VMs : HasRow(v)},
                               lost <- reported

(* The rows, copies and actors of the manager implement VMLease: a VM has  *)
(* one life and one stage, and no row is deleted while its VM lives unless *)
(* it is given up by name.                                                 *)
LeaseSpec == Lease!Spec

=============================================================================
