----------------------------- MODULE StepTasks -----------------------------
(***************************************************************************)
(* The steps of one stage on one runner.  The init task has set the VM up  *)
(* and starts the services; a task per step runs HandleStep against the    *)
(* lite engine of the VM; the cleanup task cancels the tasks of the stage  *)
(* and destroys the VM.  The tasks share the variables that steps export   *)
(* (EnvState) and the cancel functions of the tasks (CtxState), both kept  *)
(* in the memory of the runner.  Steps may run beside each other, and the  *)
(* cleanup may come while some are on their way.                           *)
(*                                                                         *)
(* A step exports one variable, which has its name.                        *)
(***************************************************************************)
EXTENDS Integers, Sequences, SequencesExt, FiniteSets

CONSTANTS
  Steps,        \* the steps that have a task of their own
  Services,     \* a sequence of the services, steps of the init task
  Images,       \* the steps and services that run in a container
  Distributed   \* the steps whose tasks end when the step has begun

VARIABLES
  task,      \* the task of each step
  env,       \* EnvState: the variables of the stage
  ctx,       \* CtxState: the tasks of the stage that can be cancelled
  cleanup,   \* what the cleanup task does
  caught,    \* the tasks under way when a cleanup last cancelled them
  vm,        \* whether the VM is there
  crashed    \* whether the runner has crashed

taskVars == <<task, env, ctx, cleanup, caught, vm, crashed>>

All == Steps \cup Range(Services)
NewTask == [pc |-> "none", seen |-> {}, holds |-> FALSE, cancelled |-> FALSE, before |-> {}]

TasksInit ==
  /\ task = [s \in All |-> NewTask]
  /\ env = {} /\ ctx = {}
  /\ cleanup = "none" /\ caught = {} /\ vm = TRUE /\ crashed = FALSE

Ended(s) == task[s].pc \in {"returned", "failed"}

-----------------------------------------------------------------------------
(* The task of a step registers its cancel function, unless the step is    *)
(* distributed, and begins.  A task that cannot be decoded, or gets no     *)
(* token, ends.                                                            *)
TaskTo(s, pc) == task' = [task EXCEPT ![s].pc = pc]

(* What the steps that ended well before this one have exported. *)
Exported == {t \in All \ Distributed : task[t].pc = "returned"}

(* CtxState.Add *)
AddTask(s) == IF s \in Distributed THEN ctx ELSE ctx \cup {s}

ExecuteTask(s) ==
  /\ s \in Steps /\ task[s].pc = "none"
  /\ \/ /\ task' = [task EXCEPT ![s].pc = "find", ![s].before = Exported]
        /\ ctx' = AddTask(s)
     \/ TaskTo(s, "failed") /\ UNCHANGED ctx
  /\ UNCHANGED <<env, cleanup, caught, vm, crashed>>

(* The init task starts the services one after the other, and goes on when *)
(* one fails.  They are not registered.                                    *)
StartService(i) ==
  /\ task[Services[i]].pc = "none"
  /\ \A j \in 1..(i - 1) : Ended(Services[j])
  /\ task' = [task EXCEPT ![Services[i]].pc = "find", ![Services[i]].before = Exported]
  /\ UNCHANGED <<env, ctx, cleanup, caught, vm, crashed>>

(* HandleStep.  The instance comes from the request, or from the stage     *)
(* owner and the pool manager, which know it until it is destroyed.        *)
FindInstance(s) ==
  /\ task[s].pc = "find"
  /\ \/ TaskTo(s, IF s \in Images THEN "start" ELSE "envs")
     \/ TaskTo(s, "failed")
  /\ UNCHANGED <<env, ctx, cleanup, caught, vm, crashed>>

(* setPrevStepExportEnvs: Get returns the map of the stage under the mutex, *)
(* and it is copied without it.                                            *)
GetEnvs(s) ==
  /\ task[s].pc = "envs"
  /\ task' = [task EXCEPT ![s].pc = "copy", ![s].seen = env, ![s].holds = env # {}]
  /\ UNCHANGED <<env, ctx, cleanup, caught, vm, crashed>>

Copies(s) == task[s].pc = "copy" /\ task[s].holds
CopyEnvs(s) ==
  /\ task[s].pc = "copy"
  /\ \E more \in SUBSET IF Copies(s) THEN env \ task[s].seen ELSE {} :
       task' = [task EXCEPT ![s].pc = "start", ![s].seen = @ \cup more, ![s].holds = FALSE]
  /\ UNCHANGED <<env, ctx, cleanup, caught, vm, crashed>>

(* The lite engine starts the step and is polled until its end; a call     *)
(* fails when the task is cancelled or the lite engine does not answer.    *)
StartStep(s) ==
  /\ task[s].pc = "start"
  /\ \/ vm /\ TaskTo(s, IF s \in Distributed THEN "returned" ELSE "poll")
     \/ TaskTo(s, "failed")
  /\ UNCHANGED <<env, ctx, cleanup, caught, vm, crashed>>

PollStep(s) ==
  /\ task[s].pc = "poll"
  /\ \/ vm /\ TaskTo(s, "export")
     \/ TaskTo(s, "failed")
  /\ UNCHANGED <<env, ctx, cleanup, caught, vm, crashed>>

(* Mutant of Add: the variables of the step replace those of the stage. *)
AddOnly(s) == env' = {s}

(* EnvState.Add.  To write the map while another step copies it is a race, *)
(* which may end the runner.                                               *)
Add(s) == env' = env \cup {s}

ExportEnvs(s) ==
  /\ task[s].pc = "export"
  /\ Add(s) /\ TaskTo(s, "returned")
  /\ \/ UNCHANGED crashed
     \/ (\E t \in All : Copies(t)) /\ crashed' = TRUE
  /\ UNCHANGED <<ctx, cleanup, caught, vm>>

(* The deferred DeleteTask. *)
DeleteTask(s) ==
  /\ s \in ctx /\ Ended(s)
  /\ ctx' = ctx \ {s}
  /\ UNCHANGED <<task, env, cleanup, caught, vm, crashed>>

-----------------------------------------------------------------------------
(* The cleanup task: CtxState.Delete cancels and forgets the tasks of the  *)
(* stage, unless the cleanup is distributed, which leaves them as they     *)
(* are; the VM is destroyed, with retries, and the variables are deleted.  *)
UnderWay(s) == task[s].pc \notin {"none", "returned", "failed"}

(* Mutant of Cancel: the tasks are forgotten, but none is cancelled. *)
CancelNone(s) == FALSE

CancelTask(s) == s \in ctx

CancelTasks ==
  /\ cleanup \in {"none", "failed"} /\ cleanup' = "destroy"
  /\ \/ /\ task' = [s \in All |-> [task[s] EXCEPT !.cancelled = @ \/ CancelTask(s)]]
        /\ ctx' = {}
        /\ caught' = {s \in Steps \ Distributed : UnderWay(s)}
     \/ UNCHANGED <<task, ctx, caught>>
  /\ UNCHANGED <<env, vm, crashed>>

DestroyVM ==
  /\ cleanup = "destroy"
  /\ \/ vm' = FALSE /\ cleanup' = "delete"
     \/ cleanup' = "failed" /\ UNCHANGED vm
  /\ UNCHANGED <<task, env, ctx, caught, crashed>>

DeleteEnvs ==
  /\ cleanup = "delete" /\ cleanup' = "done"
  /\ env' = {}
  /\ task' = [s \in All |-> [task[s] EXCEPT !.holds = FALSE]]
  /\ UNCHANGED <<ctx, caught, vm, crashed>>

-----------------------------------------------------------------------------
TaskStep(s) ==
  FindInstance(s) \/ GetEnvs(s) \/ CopyEnvs(s) \/ StartStep(s) \/ ExportEnvs(s) \/ DeleteTask(s)

TasksNext ==
  /\ ~crashed
  /\ \/ \E s \in All : ExecuteTask(s) \/ TaskStep(s) \/ PollStep(s)
     \/ \E i \in DOMAIN Services : StartService(i)
     \/ CancelTasks \/ DestroyVM \/ DeleteEnvs

(* A task goes on.  A step may take as long as it likes (its timeout is    *)
(* ten hours), but a poll that is cancelled ends.                          *)
FairStep(s) == s \in All /\ ~crashed /\ (TaskStep(s) \/ (task[s].cancelled /\ PollStep(s)))
TasksFairness == \A s \in All : WF_taskVars(FairStep(s))

TasksSpec == TasksInit /\ [][TasksNext]_taskVars /\ TasksFairness

-----------------------------------------------------------------------------
(* Properties. *)

(* A script step is given the variables of every step that had ended well  *)
(* when its task began, unless the cleanup of the stage has gone as far as *)
(* deleting them: also when other steps run and export beside it.  Those   *)
(* of distributed steps do not come this way.                              *)
EnvsSeen ==
  \A s \in All \ Images :
    task[s].pc \in {"start", "poll", "export"} /\ cleanup # "done" /\ ~crashed =>
      task[s].before \subseteq task[s].seen

=============================================================================
