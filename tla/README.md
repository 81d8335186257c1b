# Verification of drone-runner-aws

TLA+ specifications of the drone/harness VM runner in this repository, the TLC
configurations that check them on small instances, and TLAPS proofs of the most
important safety properties for every instance. `PROJECT.json` maps each
definition to the source lines it models and lists the runs, the mutants that
show each property can fail, the hazards, the findings and the theorems.

    tlc -workers 2 -config MCDM_lease.cfg MCDistributedManager
    tlapm DistributedManagerProofs.tla

## 1. The system and its parts

The runner keeps pools of cloud VMs, hands one VM to each CI stage, and destroys
it afterwards. Several runner processes (pods) share one Postgres database.

| Part | State | Operations | Hard behaviour |
|---|---|---|---|
| Distributed pool manager (`app/drivers/distributed_manager.go`, `provisioner.go`, `instance_ops.go`, `hibernator.go`) | the `instances` table; in-memory copies of rows in each goroutine | Provision, SetupInstance, hibernate, StartInstance, Destroy, CleanPools, purger | rows are claimed atomically (`FindAndClaim`) but written back whole and unconditionally (`Update`), minutes later, by goroutines that hold old copies |
| Setup handler (`command/harness/setup.go`, `setup_init_phases.go`) | the instance it got, named results | HandleSetup: provision, resume, tag, health check, stage owner | clean-up goroutine races with the return statement; any step may fail |
| Destroy handler (`command/harness/destroy.go`) | stage owner row, `InstanceInfo` of the request | HandleDestroy: find, mark Terminating, destroy, delete, unown | retry after the row has already changed state; two ways to find the VM |
| Reapers (purger, CleanPools, `scaler.go` scaleDown) | claimed batches | claim, destroy, delete; force-delete | partial failure of a batch; a crash between steps; age cut-offs |
| Outbox (`store/database/sql/outbox.go`, `app/scheduler/jobs/outbox.go`) | `outbox_jobs` | create, claim, retry, delete, clean-up | many pods on one queue; crash or lost update leaves a job in `running` |
| Scaler trigger (`scaler_trigger.go`) | `lastWindowKey` | once per window, find-then-create a scale job per pool | every pod runs it; a unique index instead of a lock |
| Scaler, predictor, utilization history (`scaler.go`, `ema_weekend_decay_predictor.go`, `utilization_tracker.go`, `history_cleanup.go`) | utilization table | record, predict, scale, clean up | weekends, missing records and a retention that meets the oldest window; floating point |
| Capacity reservations (`command/harness/capacity.go`, `capacity_reservation.go`) | `capacity_reservation` | reserve, claim by setup, DestroyCapacity, purge | five callers of DestroyCapacity on copies of one row; a cut-off by age of the row, not of the claim |
| Scheduler (`app/scheduler/scheduler.go`) | registered jobs, tickers | Register, Unregister, Start, Stop | old and new goroutine of a job |
| Local manager (`manager.go`, `pool_builder.go`, `strategy.go`, `purger.go`, `hibernator.go`), Drone engine (`engine/engine.go`), suspend | a mutex per pool, LevelDB or SQLite rows | Provision, buildPool, hibernate, StartInstance, Suspend, Destroy, purger, CleanPools | the mutex is given up for driver calls and for retries that wait minutes; early returns |
| Cloud drivers (`app/drivers/<provider>`) | the provider; fields of the driver value (network index, stockout and image caches, security group, machine name) | Create, Destroy, Hibernate, Start, SetLabels, capacity | a call is many requests, each of which may fail after its effect; calls on one driver value overlap; batch errors reported in two ways |
| Steps of a stage (`step.go`, `env_state.go`, `ctx_state.go`, `dlite/`) | exported variables, cancel functions | init, execute and cleanup tasks | steps run at once; cleanup meets tasks half way |
| Tenants of the pool file (`tenant_merge.go`, `poolfile/config.go`, `pool.go`) | tenants, their drivers, the tenant id in a row | ResolveTenants, DriverForTenant | rows outlive the configuration |
| Delegate and daemon servers, config, compiler, cloud-init, certs, metrics | configuration | start-up, request decoding | none the others read back |

How they interact. `HandleSetup` calls `Provision`, which claims a Created row or
creates a VM, and after a claim puts a replacement job in the outbox. The outbox
processor of some pod runs the job and calls `SetupInstanceForPool`, whose
goroutine publishes the VM and tries to hibernate it. The scaler trigger puts
scale jobs in the same outbox; `ScalePool` enqueues more set-up jobs or claims
and destroys excess VMs. `HandleDestroy`, the purger and `CleanPools` take VMs
out again. All communication is through rows; there is no lock across the steps
of a handler.

What makes it correct. A VM runs one stage (it is not clean afterwards); a
claimed row is never offered again; a stage's VM is not suspended or destroyed by
others; a row is not deleted while its VM lives (or the VM is a leak); every VM
that is not retained is destroyed or reported in the end; a job has one worker; a pool is scaled once
per window; retries are bounded and no job stays for ever; a reservation is used
by one setup, is known to some row while the provider holds it, and is given back.
No driver call forgets a VM it made or reports one destroyed that is not; a VM
comes up with the proxy, rules and labels meant for it; the mutex of a pool, the
room of a Nomad node and the lock of a Mac host are given back on every path; a
job of the scheduler has one goroutine; a step sees the variables of the steps
before it and ends when its stage is cleaned up; a forecast stays within the uses
it is drawn from; a row leads to the driver that can destroy its VM.

## 2. Modules

| Module | What it is |
|---|---|
| `VMLease` | abstract specification: a VM lives once, is leased once, and leaves the inventory dead or given up by name |
| `DistributedManager` | the pool manager, setup and destroy handlers and reapers over the `instances` table and the cloud; properties, the inductive invariant, and the refinement mapping to `VMLease` |
| `MCDistributedManager` | instances for TLC (`MCDM_*.cfg`) |
| `DistributedManagerProofs` | its invariants, and that it implements `VMLease`, proved |
| `Outbox` | the outbox table, the processors, the scaler trigger and the clean-up job |
| `MCOutbox` | instances for TLC (`MCOutbox_*.cfg`) |
| `OutboxProofs` | its invariants, proved |
| `CapacityReservation` | the capacity task, the reservation rows, their use by setup, DestroyCapacity and the purger's sweep |
| `MCCapacityReservation` | instances for TLC (`MCCapacity_*.cfg`) |
| `CapacityProofs` | its invariants, proved |
| `DriverCalls` | what the drivers have in common: concurrent calls, the resources of the provider, what the manager holds |
| `GoogleDriver`, `AmazonDriver`, `AzureDriver`, `DigitalOceanDriver` | the calls of each cloud driver, one step per request |
| `NomadDriver`, `TartHost` | the three jobs of a Nomad VM and the cluster that runs them; the scripts of the Mac virtualizer on one host |
| `MacDrivers` | Anka, Anka Build and VMware Fusion |
| `Drivers` | the drivers side by side, one scenario of one driver per behaviour; the properties |
| `MCDrivers` | the scenarios, for TLC |
| `DriverProofs` | the safety properties of the drivers, proved |
| `PoolManager` | the local manager, the drone engine's Setup and Destroy, suspend, the local store and the strategies |
| `Scheduler` | the job scheduler |
| `StepTasks` | the tasks of a stage on one runner |
| `Forecast` | tracker, predictor, history clean-up and the scaler's targets |
| `TenantConfig` | the tenants of the pool file and of the rows, over reloads |
| `MCPools` | the five side by side, one scenario of one of them per behaviour, for TLC |
| `PoolManagerProofs`, `JobProofs` (`Scheduler` and `Forecast`), `StepTasksProofs`, `TenantConfigProofs` | their safety properties, proved |

### DistributedManager

Each database statement and each driver call is one step. The tables are shared
variables (`rows`, `stageOwners`, `cloud`); what an actor holds between steps is
its own (`pooler[v]`, `setup[s]`/`leased[s]`/`held[s]`, `destroyer[s]`/`target[s]`,
`job[r]`/`step[r]`/`todo[r]`/`success[r]`). `held[s]` is the mutable part of
`handleSetup`'s copy of the row; `hibernate`'s copy always has the fields that
`HibernateDone` writes, so it needs no variable.

- Pooler (`setupInstanceWithHibernate`): SeedCreate, SeedInsert, SeedConnect,
  then SeedDestroy/SeedDelete when the VM does not answer, or SeedVerified,
  HibernateClaim/HibernateSkip, HibernateVM, HibernateDone.
- Setup: ClaimFree and OwnerUpdate, or CreateOnDemand and InsertOnDemand;
  ResumeFind, ResumeStart, ResumeWrite for a hibernated VM; Tag, HealthCheck,
  OwnStage; CleanupFind, CleanupDestroy, CleanupDelete on failure. The clean-up
  closure reads the named result `instance` while the return statement sets it to
  nil, a data race: `StartCleanup` takes both outcomes.
- Destroy: DestroyFindDB or DestroyFindInfo, DestroyMark, DestroyVM (an error
  goes round the loop), DestroyDelete, DestroyUnown.
- Reapers: a purger sweep is ForceDelete, PurgeClaim, ReapDestroy or
  ReapDestroyFail for each instance, ReapDelete, first for busy rows, then for
  free ones. CleanPools claims row by row (CleanClaim, CleanClaimed), scaleDown
  one predictor-made row (ScaleClaim).
- PoolerCrash, SetupCrash, DestroyCrash, ReaperCrash: the process ends between
  any two steps of the actor. Every database write and driver call can also fail.
- Tick: `started` is kept as an age. Ages saturate at `AgeCap`, above every
  cut-off. `recent` says whether `updated` lies within stuckTerminatingMaxAge; it
  is only read for Terminating rows.

Abstractions. Which row `FindAndClaim` returns (filters on image, variant,
tenant; rows locked by others are skipped) is a free choice. The driver's Destroy
of an absent VM succeeds. A failed Hibernate may have suspended the VM. A VM with
the instance row built from a request has `started` = 0, which `Update` writes:
age `AgeCap`. A stage is set up once, from one pool. VMs that the code cannot
know of (the process ended, or both insert and compensating destroy failed,
between driver.Create and instanceStore.Create) are collected in `dropped`; VMs
whose row is force-deleted while they live, which the code logs as
`instance_leak_candidate`, in `reported`. RowOutlivesVM and VMReclaimed leave both
out: they say nothing of how a VM is lost before it has a row, nor of the rows
that the force-delete takes for leaks.

Left out. Suspend of a gitspace puts the row of a leased VM back to Created
(`instance_ops.go:329`, `hibernator.go:275-276`), where the next Provision may claim
it. Under the distributed manager it is not an action: SingleUse, LeasedNeverFree and
the refinement are about VMs that are not suspended by request. Under the local manager it
is modelled (`PoolManager`, Gitspaces), with the same exception in LocalSingleUse.

### Outbox

`table` is `outbox_jobs`; a row's id is never reused, so a deleted row stays
`deleted`. `tries` is the retry count, `waiting` whether processed_at is within
the retry interval, `age` the windows since it was created. Each runner has one
`ProcessPendingJobs` (`phase`), a worker per claimed job (`work`) and one trigger
(`trigger`, `lastWindowKey`). A batch is any subset of the claimable rows up to
`BatchSize`, since locked rows are skipped. ScaleJobs is both the query and the
unique index of migration 0018. Completed scale jobs keep their row in `running`:
only the clean-up removes it. ScalePool returns an error only before it scales.
A trigger's Execute, limited to a minute, may run across the start of one window
and not of two, and the clean-up age of 48 hours is at least two windows
(`MaxAge >= 2`). `made` and `scaled` count effects, for the properties only.

### CapacityReservation

`table` has at most one row per stage (the primary key), with its state, what it
names (a warm VM or a reservation of the provider) and its age. `request[s]` is
HandleCapacityReservation, `setup[u]` a delivery of HandleSetup, `purger` one
cleanupCapacities, and `destroying` the calls of DestroyCapacity in progress, each
with its own copy of the capacity and its caller. In a setup, `capacity` is what
the handler claimed and `reserved` what it passes to the pool at hand: the next
pool gets none.

- Request: ReserveWarm (Provision claims a hot-pool VM) or ReserveCapacity, then
  CreateRow, whose failure calls DestroyCapacity.
- Setup: SetupClaim; SetupFind for a warm VM (a VM that is not found makes it
  destroy the capacity and create another), SetupClaimWarm or SetupCreate;
  SetupTag, SetupReady; SetupProvisionFails leaves the row as it is, SetupCleanup
  and SetupOwnerFails call DestroyCapacity.
- DestroyCapacity: ClaimForTermination, DestroyInstance, ReleaseCapacity,
  DeleteRecord; only a failed release ends it early. The release is the default
  driver's (`instance_ops.go:194`), also of what a tenant's driver reserved
  (`provisioner.go:269`). `Elsewhere` are the reservations in an account that the
  default driver does not reach: their release is an error, or finds nothing and
  passes for done, so that the row goes and the reservation stays.
- DestroyStage and ReapInstance stand for the destroy handler and for the reapers
  of `DistributedManager`, at any time; SeedVM for its poolers.
- Purger: PurgeList (which fixes the cut-off), PurgeClaimFree, PurgeListInUse,
  then PurgeSkip, or PurgeLookup and PurgeClaimOrphan, for each candidate, and
  PurgeDestroy for one capacity after the other. PurgeLookup needs no missing
  instance: the code drops the error of the query.

Abstractions. An instance row and its VM are one here, and `gone` is both
Terminating and deleted. A request's two calls Find and Create are one step,
because one capacity task is delivered per stage: the branch in which Find already
finds a row (`capacity.go:149-150`) is left out with the second delivery that alone
can reach it. `slow` remembers that time
passed since a setup claimed its row; only PurgeSparesInFlight reads it.
Reservations that no row ever knew (a crash, or a failed insert followed by a
failed release) are collected in `stray`; the provider's own expiry of
reservations is left out. One purger: the concurrent calls of a second one are
among those of `destroying`.

### Drivers

`cloud` maps the provider's resources (VMs, disks, addresses, security groups,
jobs) to what matters of them, `call[c]` is the call a goroutine is in, `shared`
the fields of the driver value that all calls read and write, `held` the instances
the manager has rows for. Between two requests of a call the other calls move.
Each request succeeds, fails without effect or, where the code waits for an
operation, fails after it. A delete the provider refuses with nobody left to tell
is recorded in `abandoned`; a resource the code forgets is not, which is what
NoOrphanVM is about. The one VM that Amazon's Create is known to leave without any
request to delete it, when its context ends in the poll for the address
(`amazon/driver.go:1107-1109`), is marked apart (`LeaveBehind`).

- `GoogleDriver`: the choice of network and zones, the candidates with the
  stockout cache, InsertInstance, CleanupFailedInstance and the next candidate;
  the search for the zone in Destroy, persistent disks; SetTags and SetLabels with
  their fingerprint; reservations, Hibernate and Start.
- `AmazonDriver`: the security group in two requests, the image cache, disks,
  RunInstances, the poll for the address, volumes; Hibernate, Start, reservations.
- `AzureDriver`: the parts of an instance in the order they are made and deleted.
  `DigitalOceanDriver`: the firewall, the droplet and its poll.
- `NomadDriver`: resource, init and destroy job, Create's polls and its background
  goroutines. PlaceResourceJob, RunInitJob and RunDestroyJob are the cluster;
  HealthCheck is the script of the resource job. `TartHost`: the start-up and
  destroy scripts of VMs on a Mac host that share an image cache and the packet
  filter's anchor file, with the lock function as written, its broken lock too.
  `Matches[a]` are the addresses whose lines `sed "/a/d"` removes, a itself among
  them: the run has `64.2` and `64.20`, the first of which matches both.
- `MacDrivers`: clone, start and script of Anka; the retries of Anka Build;
  VMware Fusion, whose machine name is a field of the driver value.

Names are random and never reused; each goroutine makes one VM. `Drivers` has one
instance of each of these modules over the same variables. `scenario` is chosen by
Init and never changes: it names the driver, its configuration (networks, zones,
private addresses, an existing virtual network) and the calls and requests that are
made of it, which `MCDrivers` lists and the proofs leave open.

### PoolManager

`rows` is the store, `up` the provider, `mutex` the pool's. `work[v]` is the
goroutine that makes, checks and hibernates VM v (buildPool's goroutines, or
Provision's, or a suspension), `stage[s]` a stage from Provision to Destroy, as
the setup handler, the drone engine (`Pipelines`) or a gitspace (`Gitspaces`)
runs it, and `keeper` BuildPools, the purger or CleanPools. What the code does
under the mutex without a driver call is one step; a driver call under the mutex
(purger, CleanPools) leaves it held. Clamp, ShouldCreate, ShouldRemove and
CanCreate are the strategies, Missing, Excess and Batches the counts per tenant
and variant. `Upsert` is the LevelDB store, whose Update creates a missing row.
`config` holds what the program is started with (strategy, tenants, the stages that
will come, the store, hibernation, and whether the driver's Destroy names the
instances it failed on, as Google's and Amazon's do and Nomad's, Azure's,
DigitalOcean's and Anka's do not); Init chooses it from `Configs` and no step
changes it.

### Scheduler, StepTasks, Forecast, TenantConfig

`Scheduler`: each operation holds the scheduler's mutex throughout and is one
step; goroutines begin, tick, execute and return beside it. `asked` remembers what
was last asked for a name: Unregister before Start removes nothing. `StepTasks`: `env` is
EnvState, `ctx` CtxState; a step copies the exported variables from a map that
others write (a Go map read and written at once ends the process: `crashed`, after
which no property says anything). A cleanup is distributed or not; a distributed one
cancels nothing (`dlite/cleanup.go:34`).
`Forecast`: time in slots (of half a day in the run), the load of a week, which may
change, the moving average slot by slot in their order, the predictor's averages as exact fractions; a ceiling of a fraction that is a whole
number may come out one higher, as it does for floats (3*0.1/0.1 rounds up to 4).
`TenantConfig`: the first pool file has no overrides; it is loaded again with
edits that keep the accounts of each override and its group id once it has one,
and may add accounts and overrides.

## 3. Runs

| Run | Instance | Shows |
|---|---|---|
| `MCDM_lease` | 2 stages; 1 VM with 2 reapers, 2 VMs without | TypeOK, SingleUse, LeasedNeverFree, StageVMNeverSuspended, RowOutlivesVM, DestroyHitsOwnVM |
| `MCDM_live` | 1 VM, 2 stages of which 1 retains, 1 reaper, fair | VMReclaimed; LeaseSpec: the manager implements `VMLease` |
| `MCOutbox_safety` | 2 jobs, 2 runners, 1 pool, 1 window, 1 retry | TypeOK, OneWorker, ScaledOnce, DroppedForCause |
| `MCOutbox_live` | 1 job, 2 runners, 2 retries, fair | SetupBound, JobLeaves |
| `MCCapacity_safety` | 1 stage, 2 setups, 2 VMs, 1 reservation, 2 calls at a time | TypeOK, ReservationTracked, OneUser, WarmKept |
| `MCCapacity_live` | 1 stage, 1 setup, 1 VM, 2 reservations of which 1 in a tenant's account, 1 crash, fair | CapacityReturned |
| `MCCapacity_purge` | 1 stage, 1 setup | a violation, see section 5 |
| `MCDM_scale`, `MCDM_driver`, `MCDM_retain` | 1 VM, 1 stage, 1 reaper | violations, see section 5 |
| `MCDrivers` | 13 scenarios: 2 concurrent callers of a driver value | NoOrphanVM, DestroyedIsGone, ProxyOfNetwork, LabelsKept, ReachableVM, RoomKept, RoomReturned, PortForwarded, ScriptEnds |
| `MCPools` | 13 scenarios: 9 configurations of a pool with 1 to 3 VMs and up to 3 stages; 2 jobs; 2 steps, one of them distributed, and a service in a container; 23 days; 3 accounts | LocalSingleUse, VMRecorded, NotStoppedInUse, ProvisionReturns, OneGoroutinePerJob, CancelledReturns, EnvsSeen, CaughtTaskEnds, ForecastBetween, HistoryKept, NotScaledBelow, DriverOfAccount |

Bounds. The properties are about one VM and the actors that touch its row, so
one VM with two of each actor exhibits every pairwise race; two VMs are needed
only where an actor could confuse them, as a destroy could that looks for the VM of
its stage. The constraint `OneVMForReapers` of `MCDM_lease` has both in one run: with
two VMs up, stages, pooler and crashes go on and the reapers and the clock stand
still; with one, all go on. Batches of several VMs
are covered by the proof of RowOutlivesVM. Max ages of one tick separate young, stale and leaked rows. Two
runners and two jobs give every claim race and one job created by another
(ScalePool); `MaxRetries` 2, in `MCOutbox_live`, gives a first try, a retry that
can make a second VM, and exhaustion. `MaxWindow`
bounds the windows the trigger works for; time goes on afterwards so jobs still
age. Rows of `CapacityReservation` are independent but for the VMs, so one stage
is enough; two setups make the second delivery, and two VMs the replacement of a
warm VM that is gone. `MaxCalls` bounds the DestroyCapacity calls at one time and
`MaxCrashes` the processes that end. Symmetry is used in the safety runs, over interchangeable model values only.

In `MCDrivers` and `MCPools` the initial state picks a scenario, that is one
component with one configuration, and the others stand still; a run of the whole
cross product would add interleavings of parts that share no state. Two callers
give every overlap of two calls; two networks with three zones and two stockout
attempts give a retry within a network and into another. Nomad has room for one
VM, so that a room that is not given back shows. The pool scenarios give: a warm
VM fought over by its hibernator, a stage and a pipeline (`warm`), one VM with three
stages and the code's three tries to hibernate it (`retries`), the purger with
two tenants (`purge`), CleanPools over a store that puts rows back (`clean`), both
strategies at their limits (`minmax`, `variants`, `tenants`), a gitspace that
is suspended and resumed (`gitspace`), and purger and CleanPools with a driver that
names no failed instance (`unnamed`), of which VMRecorded says nothing. 23 days are three weeks of history and a
window. These behaviours end when the VMs, goroutines or days are used up, so
`MCPools` does not check for deadlock; `MCDrivers` does, with a step for when all
calls have returned.

Fairness. `VMReclaimed` assumes that started handlers and sweeps go on (weak
fairness of the actors' own steps: they are goroutines with timeouts), that time
passes, that the purger's ticker fires again and again and that its DELETE
succeeds infinitely often (strong fairness of StartJob for the busy sweep and of
ForceDelete, since crashes and errors interrupt them). Nothing is assumed of the
driver: it may fail for ever, and then the VM is `reported`. A retained VM is left
out: by the comments it is to stay until it is asked for (section 5 on what the code
does). `JobLeaves` assumes
only the clock, the trigger's own steps and the hourly clean-up, nothing of the
processors. `CapacityReturned` assumes that handlers, goroutines and the purger's
loop go on, that time passes, that instances in use are reaped in the end (which
is VMReclaimed), and that each of the purger's statements and the driver's release
succeeds if tried for ever (strong fairness, since any of them may fail any number
of times). In `MCDrivers` a goroutine inside a Nomad call goes on (its polls have
timeouts), the resource job's script keeps checking, and a script on a Mac host
goes on; nothing is assumed of the provider. In `MCPools` goroutines go on; a stage
that waits for the mutex of its pool, and a goroutine of the scheduler that may
return or tick, gets its turn if it is possible again and again (strong fairness:
Go's mutex hands over to a starved waiter, and its select picks among ready cases at random). Since the
scenario never changes, the fairness of several components is stated as that of
the disjunction of their steps.

## 4. Proofs

Eight modules hold proofs, for any values of the constants that satisfy the
assumptions named below. None of the properties is inductive; each proof finds a
strengthening, which TLC checked as an invariant before it was proved (on the
constants of the safety runs, and with a second stage, retry, window or VM where
that could matter).

### The distributed manager (`DistributedManagerProofs`)

- `TypeCorrect`: TypeOK, together with Busy (an active handler has its VM);
- `VMServesOneStage`: SingleUse;
- `LeaseIsFinal`: LeasedNeverFree;
- `NoSuspendUnderStage`: StageVMNeverSuspended;
- `DestroyIsOwn`: DestroyHitsOwnVM;
- `RowsOutliveVMs`: RowOutlivesVM, if `DriverReportsFailed`;
- `ManagerImplementsLease`: `Spec => LeaseSpec`, if `DriverReportsFailed`.

The argument is about who may write a row when:

- `LeaseInv`. SingleUse fails only if a leased VM's row becomes Created, and only
  the pooler writes Created. So the invariant ties the pooler's control to the
  row: before its first write the row is Provisioning, Terminating or gone;
  between its hibernation claim and its last write it is Hibernating, Terminating
  or gone (`PoolerRow`). Claims need Created, so the pooler of a leased VM is idle,
  finished or at `ready`, where its only write is the claim that needs Created
  again (`LeasedRow`). The copies in `held` read InUse or Terminating.
- `StageInv`. A stage id in a row, or in a copy, is that of the stage which leased
  the VM; hence what a destroy finds by stage id is its own VM.
- `RowInv`. Every actor about to delete a row (`destroyed`, `cleaned`, in
  `success`) knows that its VM is gone, and VMs never come back.
- `TrackInv`, for the refinement. A VM between driver.Create and the insert of its
  row runs and is in nobody else's hands; whoever may take a VM out of the table
  (reapers, destroys, the force-delete) has one whose insert is over. So a VM's row
  appears once, and every step of the manager is a step of `VMLease` or a stutter.

The proofs split the actions into those that leave rows calm (each row keeps its
state, becomes Terminating or none, or is InUse and leased already) and the few
that move the pooler, lease a VM or create one; a lemma for each write
(`UpdateEffect`, `ClaimEffect`, ...) keeps records out of the rest.
`DriverReportsFailed` is a hypothesis and not a fact of the code: the run
`MCDM_driver` shows what happens with the drivers for which it is false.

### The outbox (`OutboxProofs`)

- `TypeCorrect`, `JobHasOneWorker` (OneWorker), `SetupIsBounded` (SetupBound),
  `WindowScaledOnce` (ScaledOnce), `GivenUpForCause` (DroppedForCause).

Each step is first described as one job sees it (its row is claimed, retried,
deleted, aged, or left alone), so that the invariants about one job follow
without the rest of the table: a row that can be claimed has no worker, a try is
counted before the job runs (`Attempts`), and every VM used up a try of its own
(`OneVMPerTry`). ScaledOnce relates rows, triggers and time. A trigger creates a
job for a pool and a window only if the table has none, and the clean-up removes a
row only when no trigger asks for its window any more; so of two scale jobs for one
pool and window one was given up without scaling (`OneScaleJob`), and a window that
was scaled has the job that did it to show for it (`ScaledByJob`). That a job two
windows old has no trigger at work for its window (`WindowsBehind`) is where the
assumption `MaxAge >= 2` enters: the clean-up age is 48 hours.

### Capacity reservations (`CapacityProofs`)

- `TypeCorrect`, `HeldIsTracked` (ReservationTracked), `CapacityHasOneUser`
  (OneUser), `WarmVMIsKept` (WarmKept).

The request of a stage fixes its capacity once. Every copy of it, in the table,
in the setups, in the calls of DestroyCapacity and in the purger's lists, is that
one, and different stages have different ones. A call that is about to delete the
row is past the release of the very reservation the row names, whoever made the
call and whichever call claimed the row, unless that reservation is `Elsewhere`;
hence ReservationTracked of the others (`Reachable`). A row that a
setup claimed stays claimed, hence OneUser and WarmKept. `CallerAssumption`, that
no setup is named as the other callers are, is a fact about names of the model;
which reservations are `Elsewhere` is open.

### One runner (`PoolManagerProofs`, `JobProofs`, `StepTasksProofs`, `TenantConfigProofs`)

- `PoolVMServesOneStage`: LocalSingleUse; `PoolVMsAreRecorded`: VMRecorded;
  `NoStopUnderPoolStage`: the action property NotStoppedInUse.
  `PoolInv` says what the goroutine of a VM, its row and the stages may be at the
  same time: a goroutine that sets the VM up or stops it has a row no stage can
  claim; a stage that has the VM has made the row InUse under the mutex while the
  goroutine was at rest or about to look at the row again, which then leaves it
  alone. `GoneInv` and `BirthInv` say that whoever deletes a row has destroyed the
  VM, if the driver names its failures (`NamesFailed`, a hypothesis of VMRecorded and
  not a fact of every driver), and that nobody else knows a VM before it has a row. Each action is shown to
  be one of seven kinds of step, and the invariant is proved for the kinds. The one
  assumption, `ConfigsAssumption`, says of each configuration that there are finitely
  many VMs, that gitspaces are stages, and that no stage is named as another actor.
- `JobHasOneGoroutine`: OneGoroutinePerJob of `Scheduler`. The property counts
  goroutines; the invariant says that jobCancels is a bijection between the
  registered names and the goroutines that are not cancelled, and relates what was
  last asked for a name to the jobs and cancel functions (`Asked`). No assumption.
- `ForecastIsBetween`, `CleanupKeepsHistory`, `ScaleDownLeavesUse`: ForecastBetween,
  HistoryKept and NotScaledBelow of `Forecast`. `HistoryInv` says that the history is
  what the tracker saw, but for uses of 0 and for what is older than the retention;
  so a query of the last three weeks returns the same from both, and Predict is a
  function of what its queries return. Each average lies between the least and the
  greatest of its records (`SmoothBetween`, `HistoricalBetween`, `CombineBetween`,
  `CeilBetween`). The moving average is a recursive function over the slots: that it
  exists (`AveragesExist`) and lies between its records (`EMABetween`) is proved by
  taking the least slot where it would not, from the library's WFMin, which has no
  operator as a parameter. A forecast that is below every use would need a window
  without a record; if no use was 0 then last week's window has one, and of three
  days one is a weekday (`SomeWeekday`). `PlanInv` carries the forecast over to what
  the scaler did. `ForecastAssumption`: two or more ticks a day, positive weights, at
  least three days of lookback and at most three weeks, and a retention of three
  weeks or more, which the default of 60 days has and the code does not check.
- `EnvsAreSeen`: EnvsSeen of `StepTasks`. Until the cleanup deletes it the map of
  variables only grows, so that it holds what had been exported when a task that
  is under way began. No assumption.
- `InstanceKeepsDriver`: DriverOfAccount of `TenantConfig`, for any accounts, group
  ids, specs and number of overrides (`MaxTenants \in Nat`), over any number of
  reloads. The tenant id in a row need not be a tenant's id any more; the invariant
  says that it is the group id, or one of the accounts, of the override that has the
  row's account. The check after ResolveTenants's loop is what makes such a name
  unambiguous (`NamesOne`): without it another override may have taken an account
  for its group id, and DriverForTenant would find that one's driver first.

The proof of SingleUse found the property too strong as it stood: two stages and
two tries, the bounds of the run until then, could not show that a VM which a
handler has begun to end may be given to two others (section 5). The property now
excludes such VMs, and the scenario `retries` has three stages and three tries.

### The drivers (`DriverProofs`)

- `NoVMIsForgotten` (NoOrphanVM), `ReportedGoneIsGone` (DestroyedIsGone),
  `ProxyIsOfNetwork` (ProxyOfNetwork), `LabelsAreKept` (the action property
  LabelsKept), `VMsAreReachable` (ReachableVM), `RoomIsKept` (RoomKept) and
  `PortsAreForwarded` (PortForwarded), for any number of concurrent calls, any
  batches, requests, networks, zones, room, images and addresses.

The invariant, `DriversInv`, is that of the driver the scenario names.

- `BatchInv`, of the six drivers that work a Destroy off instance by instance. Each
  instance of a batch is still to be done, under way, listed as failed, or its VM is
  gone for good; and the call that made it is over, so that nothing of its name is
  made again. Without the second half a create that retries in another zone could
  make the VM again behind the destroy. On Azure, gone means all parts: the call at
  one part has deleted those before it in the order (`AzureDeleting`).
- `Owned`, of Google and Amazon. Every VM has a row, or its delete was tried, or
  Amazon's Create left it when its context ended (`LeftVM`), or its
  create is at a step that knows its zone: the candidate at the head of the list, of
  which the clean-up after a stockout drops only the one it has cleaned up.
- `GoogleInv`. Every candidate fits: its network lists its zone, or none does. This
  is proved of BuildCreateCandidates for any networks, any counter of the round robin
  and any cached stockouts; the VM and its instance take the proxy of the same
  candidate. A call that sets labels works on a VM whose create is over; a write
  that is accepted saw the labels as they are, hence LabelsKept.
- `AmazonInv`. A call between finding and checking the security group knows that it
  exists, one past the check that it has the rule, a driver value that has kept the
  group that it exists; and no call takes either away.
- `NomadInv`. For each caller, what its call, its three jobs, its background
  goroutines and its instance may be at the same time. A resource job that runs has
  not failed too often. Create looks at it last, when the init job is over, so that
  a VM which is down after that never comes up again; and while it is up the health
  check counts nothing.
- `TartInv`. A script at a step under the lock has the lock, unless one was broken;
  what it has read of the anchor file is what the file holds; and no two VMs have
  one address, so that no sed deletes the rule of a VM whose address no other one
  matches (`Sole`), whatever the matching is.

A step of a driver is shown to do only what these allow to one call (`BatchStep`,
`Keeps`, `NomadOnly`, `TartOnly`), and one lemma for each of them carries the
invariant over to all calls.

Assumptions, all in `Drivers`: a Google pool has at least one network, and finitely
many zones (`NetworksAssumption`; without a list of networks the driver uses the one
of its own fields); Google tries a create, and Nomad's script a check, at least once
(`AttemptsAssumption`, `FailuresAssumption`); the absent lock is not a caller
(`NoLockAssumption`, a fact about names of the model); an address matches itself
(`MatchesAssumption`). Scenarios are otherwise any
records with a driver.

### What only TLC checks, and why

Only liveness, which the prover does not do: VMReclaimed, JobLeaves,
CapacityReturned, RoomReturned, ScriptEnds, ProvisionReturns, CancelledReturns,
CaughtTaskEnds. Every invariant and every other action property of the runs is a
theorem.

The theorems about one runner are of the specification of one component
(`PoolSpec`, `SchedulerSpec`, `ForecastSpec`, `TasksSpec`, `TenantSpec`); `MCPools`
runs the same actions, one component in each behaviour, and checks the same definitions.

## 5. Findings

Each is a violation run whose property restates a comment of the code; the quotes
and lines are in `PROJECT.json`.

- `MCDM_scale`: hibernate's last write undoes scaleDown's claim; a stage gets a VM
  that is being destroyed.
- `MCDM_driver`: drivers that return no list of failures make the purger delete
  rows of live VMs.
- `MCCapacity_purge`: the sweep for orphaned capacities goes by the age of the row;
  a row that a setup claims late is taken from it before it has an instance.
- `MCDM_retain`: CleanPools claims VMs that are marked as retained, although
  `distributed_manager.go:852` says that they are cleaned up neither by CleanPools nor by
  the purger: FindAndClaim does not read MatchLabels (`sql/instances.go:132`). The
  force-delete of the purger does not look at the label either
  (`distributed_manager.go:1304-1309`): it deletes the row of a retained VM past twice
  the maximum age and leaves the VM with a leak warning.

Observations that no run of its own shows; the models have these behaviours.

- A capacity that a tenant's driver reserved in an account of its own
  (`provisioner.go:269, 290`) is released with the pool's default driver
  (`instance_ops.go:194`). It does not find the id, which Google's and Amazon's drivers
  take for already released (`google/driver.go:505-508`, `amazon/driver.go:412-414`),
  the row is deleted, and the tenant's reservation stays: on Amazon for ever, on
  Google until CapacityReservationTTL if that is set. ReservationTracked and
  CapacityReturned are about the reservations the default driver reaches.
- A reservation or a VM is lost when the process ends between the provider's answer
  and the insert of its row (`capacity.go:150`, `provisioner.go:307`).
- Amazon's Create returns when its context ends in the poll for the address
  (`amazon/driver.go:1107-1109`) and terminates nothing: a VM that no row knows.
  NoOrphanVM names this case and allows it.
- Under the local manager too, the purger and CleanPools delete the rows of VMs that
  live when the driver's error names no instance (`purger.go:154-191, 238-258`), against
  the comment there, "Only delete successfully destroyed instances from database".
  VMRecorded is about the other drivers.
- The scripts of a Mac host remove rules with `sed "/$VM_IP/d"`
  (`mac_virtualizer.go:279, 396`), whose pattern also matches longer addresses: a VM at
  192.168.64.2 that starts or ends removes the rule of 192.168.64.20. PortForwarded
  is about VMs whose address no other one matches.
- `Unregister` before `Start` removes nothing (`scheduler.go:96` looks at the cancel
  functions only), and Start runs the job, although `scheduler.go:91` says "Unregister removes
  a job from the scheduler". No caller in the repository does this.
- A distributed cleanup cancels no task (`dlite/cleanup.go:34`): CaughtTaskEnds is
  about tasks that a cleanup which is not distributed found.
- The busy sweep force-deletes rows by twice its own age in every state; with the
  defaults a free VM between 48 and 72 hours old loses its row without a destroy,
  against the comment at `distributed_manager.go:1184`.
- The local `hibernate` (`hibernator.go:172`) looks only for InUse: a retry can put
  a row that a destroy made Terminating back to Created, where another stage may
  claim it. With a third stage and the three tries of `hibernator.go:127` the row
  can be freed again by a second Terminating write of the first handler, and one VM
  is given to two stages while it is destroyed. LocalSingleUse and NotStoppedInUse
  are about VMs that no handler has begun to end.
- Services, distributed steps and tasks that begin after a cleanup are not
  cancelled by it; variables exported then stay in EnvState.
- `EnvState.Get` returns its map without a copy (`env_state.go:18`): a step that
  copies it while another exports ends the process.
- VMware Fusion keeps the machine name in the driver value: overlapping calls work
  on each other's machine, so DestroyedIsGone leaves it out. Besides Amazon's Create
  above, Anka, Anka Build,
  Fusion, Azure and DigitalOcean leave a VM behind when a later step of Create
  fails, so NoOrphanVM is about Google and Amazon.
- The lock of the Mac scripts is broken after ten tries and a script that broke it
  goes on without one: PortForwarded holds until then.
- Nomad: when the last look at the resource job is not answered, Create returns an
  error and leaves the VM running; the health check never ends it.
- The scaler looks for images of the last 2 days (`scaler.go:203`), so the floor of
  recent use, which looks back 7, never applies to one used 3 to 7 days ago. The
  predictor's comment speaks of 5 weekdays where its default is 2.
- `VariantsForTenant` (`pool.go:114`) lacks the lookup by account that
  DriverForTenant has, so a row from before a group id gets the default variants.
- An outbox retry interval below a minute becomes zero (`sql/outbox.go:77`); a pool
  whose VMs never answer is replenished for ever by fresh jobs
  (`distributed_manager.go:692`); the trigger skips a window for a pool whose job
  it failed to create (`scaler_trigger.go:160`); a hot-pool VM carries the retain
  label of its creation, not of the stage that gets it (`provisioner.go:259`).

## 6. Plan

Done: `VMLease`, `DistributedManager`, `Outbox`, `CapacityReservation`, the
drivers and the parts of one runner in `MCPools`; the proofs of section 4.

What is left: the candidates for more of the code are the two capacity tasks of one
stage (a hazard in `PROJECT.json` without a property), Suspend under the distributed
manager, the create paths of Anka, Azure
and DigitalOcean once they clean up after themselves (NoOrphanVM would then be about
them too), and the lock of the Mac scripts once a broken lock ends the script.

### Not modelled

- The delegate's HTTP routes, the daemon's poller and the runner's life cycle
  (`runner.go`, `daemon.go`): start-up is Init, and shut-down a crash between any
  two steps.
- Parsing and defaults of the configuration and the mapping of the pool file to
  driver options (`command/config`, most of `poolfile`): pure and without state.
- The drone compiler, linter and resource types (`engine/compiler`,
  `engine/resource`) translate a pipeline file; `engine.Run` streams logs.
- Cloud-init templates, certificates, metrics, tracing and logging: nothing reads
  them back.
- The single-instance store and the mutex wrapper of the SQLite store; the
  provider's own expiry of reservations other than Google's; the lite engine
  inside the VM beyond whether it answers.
