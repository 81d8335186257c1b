------------------------------- MODULE MCPools -------------------------------
(***************************************************************************)
(* One runner for TLC.  A behaviour is one scenario of one component: the  *)
(* pool manager with a configuration of the pool, the scheduler, the tasks *)
(* of a stage, the forecast, or the tenants of the pool file.  The initial *)
(* state chooses the scenario; the variables of the other components stay  *)
(* as they are.                                                            *)
(***************************************************************************)
EXTENDS PoolManager, Scheduler, StepTasks, Forecast, TenantConfig

CONSTANTS Scenarios, s, t, u  \* s, t and u are the stages

VARIABLE scenario

mcvars == <<scenario, poolVars, schedulerVars, taskVars, forecastVars, tenantVars>>

-----------------------------------------------------------------------------
(* The pool manager.  A configuration of the pool has the stages, how many *)
(* VMs there may be, whether the driver can hibernate and names what it    *)
(* failed to destroy, and what the purger and CleanPools do meanwhile.     *)
Tenant(id, min, max, variants) ==
  [id |-> id, minSize |-> min, maxSize |-> max, variants |-> variants]

(* Two stages, the first of the drone engine, and one VM in the pool. *)
Warm == [stages |-> {s, t}, gitspaces |-> {}, pipelines |-> {s}, strategy |-> "Greedy",
         tenants |-> <<Tenant("default", 1, 2, <<>>)>>, maxVMs |-> 2, hibernate |-> TRUE,
         retries |-> 1, ops |-> {}, kept |-> 0, upsert |-> FALSE, names |-> TRUE]

PoolConfig == [
  warm     |-> Warm,
  retries  |-> [Warm EXCEPT !.stages = {s, t, u}, !.pipelines = {s, t}, !.retries = 3,
                            !.maxVMs = 1],
  purge    |-> [Warm EXCEPT !.stages = {t}, !.hibernate = FALSE, !.ops = {"purge"},
                            !.tenants = <<Tenant("default", 1, 2, <<>>),
                                          Tenant("acme", 1, 2, <<>>)>>],
  unnamed  |-> [Warm EXCEPT !.stages = {t}, !.maxVMs = 1, !.ops = {"purge", "clean"},
                            !.names = FALSE],
  clean    |-> [Warm EXCEPT !.stages = {s}, !.ops = {"clean"}, !.upsert = TRUE],
  minmax   |-> [Warm EXCEPT !.strategy = "MinMax", !.kept = 2, !.hibernate = FALSE,
                            !.tenants = <<Tenant("default", 1, 1, <<>>)>>],
  variants |-> [Warm EXCEPT !.stages = {}, !.hibernate = FALSE, !.maxVMs = 3,
                            !.tenants = <<Tenant("default", 1, 2, <<1, 1>>)>>],
  tenants  |-> [Warm EXCEPT !.stages = {}, !.pipelines = {}, !.hibernate = FALSE, !.maxVMs = 3,
                            !.tenants = <<Tenant("default", 1, 2, <<>>),
                                          Tenant("acme", 1, 2, <<1>>)>>],
  gitspace |-> [Warm EXCEPT !.gitspaces = {s}, !.pipelines = {}, !.maxVMs = 1,
                            !.tenants = <<Tenant("default", 0, 2, <<>>)>>]]

PoolConfigs == {PoolConfig[c] : c \in DOMAIN PoolConfig}

(* The tasks of a stage: two steps, one of them distributed, and a service *)
(* in a container.                                                         *)
TheServices == <<"db">>

(* The defaults of the predictor and the scaler, but for the floor of      *)
(* recent use and the buffer, which are off by default, and the retention, *)
(* which is as short as it may be.                                         *)
TheDecayFactors == <<85, 10, 5>>

(* The tenants of the pool file: three accounts, one of which may also be  *)
(* the id of a group.                                                      *)
TheBaseSpec == [zone |-> "z", size |-> "s"]
TheSpecs == <<[zone |-> "za"], [size |-> "sb"]>>

-----------------------------------------------------------------------------
(* A step of one component leaves the others as they are. *)
InPool(A) == /\ scenario = "pool" /\ A
             /\ UNCHANGED <<scenario, schedulerVars, taskVars, forecastVars, tenantVars>>
InScheduler(A) == /\ scenario = "scheduler" /\ A
                  /\ UNCHANGED <<scenario, poolVars, taskVars, forecastVars, tenantVars>>
InTasks(A) == /\ scenario = "steps" /\ A
              /\ UNCHANGED <<scenario, poolVars, schedulerVars, forecastVars, tenantVars>>

Init ==
  /\ scenario \in Scenarios
  /\ PoolInit /\ (scenario # "pool" => config = Warm)
  /\ ForecastInit /\ (scenario # "forecast" => load = [weekday |-> 0, weekend |-> 0])
  /\ SchedulerInit /\ TasksInit /\ TenantsInit

Next ==
  \/ InPool(PoolNext)
  \/ InScheduler(SchedulerNext)
  \/ InTasks(TasksNext)
  \/ /\ scenario = "forecast" /\ ForecastNext
     /\ UNCHANGED <<scenario, poolVars, schedulerVars, taskVars, tenantVars>>
  \/ /\ scenario = "groups" /\ TenantsNext
     /\ UNCHANGED <<scenario, poolVars, schedulerVars, taskVars, forecastVars>>

(* The fairness of the components.  The scenario never changes, so that    *)
(* fairness of a step of one component or another says that each component *)
(* is fair in its own scenarios.                                           *)
TheStages == <<s, t, u>>
TheTasks == <<"test", "deploy", "db">>
Fairness ==
  /\ \A i \in 1..3 : WF_mcvars(\/ InPool(VMGoesOn(i))
                                \/ InScheduler(Runs(i))
                                \/ InTasks(FairStep(TheTasks[i])))
  /\ WF_mcvars(InPool(KeeperGoesOn))
  /\ \A i \in 1..3 : SF_mcvars(InPool(StageGoesOn(TheStages[i])) \/ InScheduler(Ends(i)))

Spec == Init /\ [][Next]_mcvars /\ Fairness

-----------------------------------------------------------------------------
(* Properties.  Those of PoolManager (LocalSingleUse, VMRecorded,          *)
(* NotStoppedInUse), Scheduler (OneGoroutinePerJob), StepTasks (EnvsSeen), *)
(* Forecast (ForecastBetween, HistoryKept, NotScaledBelow) and             *)
(* TenantConfig (DriverOfAccount) are checked as they stand.               *)

(* Provision returns: no operation of the pool manager ends, on any of its *)
(* error paths, with the mutex of the pool.  A stage that waited for ever  *)
(* would be one that waits at all times from some time on, and the stages  *)
(* ask for a VM only so often.                                             *)
ProvisionReturns == []<>(scenario = "pool" => \A x \in Stages : ~Provisioning(x))

(* A goroutine whose job was removed or registered again, or whose         *)
(* scheduler was stopped, returns: the old and the new goroutine of a job  *)
(* run beside each other only for a while.                                 *)
CancelledReturns == []<>(\A g \in 1..3 : Cancelled(g) => Returned(g))

(* A task that was under way when a cleanup that is not distributed began  *)
(* ends, in whichever of its calls it was then, and although the cleanup   *)
(* may come between any two of its steps or come twice, the second time    *)
(* perhaps as a distributed one.  A distributed cleanup cancels nothing    *)
(* (dlite/cleanup.go:34), and the property does not hold of the tasks it   *)
(* finds, nor of services, of distributed steps, or of tasks that begin    *)
(* later.                                                                  *)
CaughtTaskEnds ==
  []<>(crashed \/ \A x \in caught : task[x].pc \in {"returned", "failed"})

==============================================================================
