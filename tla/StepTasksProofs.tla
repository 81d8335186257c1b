-------------------------- MODULE StepTasksProofs --------------------------
(***************************************************************************)
(* Proof that a script step is given the variables of the steps that had   *)
(* ended well when it began, for any steps and services.                   *)
(*                                                                         *)
(* What a step must see, `before`, is fixed when its task begins; what it  *)
(* does see is a copy of EnvState that it takes later, while others write  *)
(* to it.  The two are related by the state of the map in between: until   *)
(* the cleanup deletes it the map only grows, so that it holds whatever    *)
(* had been exported when a task that is now under way began.              *)
(***************************************************************************)
EXTENDS StepTasks, TLAPS

PCs == {"none", "find", "envs", "copy", "start", "poll", "export", "returned", "failed"}

(* The types of the tasks and of the variables they share. *)
TaskType == [pc : PCs, seen : SUBSET All, holds : BOOLEAN, cancelled : BOOLEAN, before : SUBSET All]
TypeOK ==
  /\ task \in [All -> TaskType]
  /\ env \subseteq All
  /\ cleanup \in {"none", "destroy", "failed", "delete", "done"}

(* The steps that ended well have exported; what a task has to see is in   *)
(* the map; and what it has to see is in its copy once it has one.         *)
Kept == \A s \in All \ Distributed : task[s].pc = "returned" => s \in env
Begun == \A s \in All : task[s].before \subseteq env
Copied == \A s \in All \ Images :
  task[s].pc \in {"copy", "start", "poll", "export"} => task[s].before \subseteq task[s].seen

(* The inductive invariant. *)
IInv == TypeOK /\ (cleanup # "done" => Kept /\ Begun /\ Copied)

-----------------------------------------------------------------------------
(* Initially no task has begun. *)
LEMMA InitInv == TasksInit => IInv
  BY DEF TasksInit, IInv, TypeOK, Kept, Begun, Copied, TaskType, NewTask, PCs

(* What a step that ended well is called is the name of a step. *)
LEMMA ServiceIsTask == \A i \in DOMAIN Services : Services[i] \in All
  BY DEF All, Range

(* What a task becomes when it gets the map, has copied it, or loses it. *)
LEMMA RecordTypes ==
  ASSUME NEW r \in TaskType, NEW b \in BOOLEAN, NEW e \in SUBSET All
  PROVE  /\ [r EXCEPT !.holds = b] \in TaskType
         /\ [r EXCEPT !.pc = "copy", !.seen = e, !.holds = b] \in TaskType
         /\ [r EXCEPT !.pc = "start", !.seen = @ \cup e, !.holds = b] \in TaskType
  BY DEF TaskType, PCs

(* Every step keeps the types. *)
LEMMA TypeStep == TypeOK /\ [TasksNext]_taskVars => TypeOK'
<1> SUFFICES ASSUME TypeOK, [TasksNext]_taskVars PROVE TypeOK'
  OBVIOUS
<1> USE DEF TypeOK, TaskType, PCs
<1>1. ASSUME NEW s \in All, ExecuteTask(s) PROVE TypeOK'
  BY <1>1 DEF ExecuteTask, TaskTo, Exported
<1>2. ASSUME NEW s \in All, FindInstance(s) PROVE TypeOK'
  BY <1>2 DEF FindInstance, TaskTo
<1>3. ASSUME NEW s \in All, GetEnvs(s) PROVE TypeOK'
  <2> DEFINE b == env # {}
  <2>1. b \in BOOLEAN
    OBVIOUS
  <2>2. task' = [task EXCEPT ![s] = [task[s] EXCEPT !.pc = "copy", !.seen = env, !.holds = b]]
    BY <1>3 DEF GetEnvs
  <2>3. UNCHANGED <<env, cleanup>>
    BY <1>3 DEF GetEnvs
  <2> HIDE DEF b, TaskType, PCs
  <2>4. [task[s] EXCEPT !.pc = "copy", !.seen = env, !.holds = b] \in TaskType
    BY <2>1, RecordTypes
  <2> QED
    BY <2>2, <2>3, <2>4
<1>4. ASSUME NEW s \in All, CopyEnvs(s) PROVE TypeOK'
  <2>1. PICK more \in SUBSET env :
      task' = [task EXCEPT ![s] = [task[s] EXCEPT !.pc = "start", !.seen = @ \cup more, !.holds = FALSE]]
    BY <1>4, ZenonT(40) DEF CopyEnvs
  <2> HIDE DEF TaskType, PCs
  <2>2. [task[s] EXCEPT !.pc = "start", !.seen = @ \cup more, !.holds = FALSE] \in TaskType
    BY RecordTypes
  <2> QED
    BY <1>4, <2>1, <2>2 DEF CopyEnvs
<1>5. ASSUME NEW s \in All, StartStep(s) PROVE TypeOK'
  BY <1>5 DEF StartStep, TaskTo
<1>6. ASSUME NEW s \in All, PollStep(s) PROVE TypeOK'
  BY <1>6 DEF PollStep, TaskTo
<1>7. ASSUME NEW s \in All, ExportEnvs(s) PROVE TypeOK'
  BY <1>7 DEF ExportEnvs, Add, TaskTo
<1>8. ASSUME NEW s \in All, DeleteTask(s) PROVE TypeOK'
  BY <1>8 DEF DeleteTask
<1>9. ASSUME NEW i \in DOMAIN Services, StartService(i) PROVE TypeOK'
  BY <1>9, ServiceIsTask DEF StartService, Exported
<1>10. ASSUME CancelTasks PROVE TypeOK'
  <2> DEFINE Cancels == task' = [s \in All |-> [task[s] EXCEPT !.cancelled = @ \/ CancelTask(s)]]
  <2>1. ASSUME Cancels, NEW s \in All PROVE task'[s] \in TaskType
    <3> DEFINE c == task[s].cancelled \/ CancelTask(s)
    <3>1. task'[s] = [task[s] EXCEPT !.cancelled = c]
      BY <2>1
    <3>2. c \in BOOLEAN
      OBVIOUS
    <3> HIDE DEF c, Cancels
    <3> QED
      BY <2>1, <3>1, <3>2
  <2>2. (Cancels \/ task' = task) /\ env' = env /\ cleanup' = "destroy"
    BY <1>10 DEF CancelTasks
  <2>3. Cancels => task' \in [All -> TaskType]
    <3>1. Cancels => task' = [s \in All |-> task'[s]]
      OBVIOUS
    <3> HIDE DEF TaskType, PCs, Cancels
    <3> QED
      BY <2>1, <3>1
  <2> HIDE DEF Cancels
  <2> QED
    BY <2>2, <2>3
<1>11. ASSUME DestroyVM PROVE TypeOK'
  BY <1>11 DEF DestroyVM
<1>12. ASSUME DeleteEnvs PROVE TypeOK'
  <2>1. ASSUME NEW s \in All PROVE task'[s] \in TaskType
    <3>1. task'[s] = [task[s] EXCEPT !.holds = FALSE]
      BY <1>12, <2>1 DEF DeleteEnvs
    <3> HIDE DEF TaskType, PCs
    <3> QED
      BY <2>1, <3>1, RecordTypes
  <2> QED
    BY <1>12, <2>1 DEF DeleteEnvs
<1>13. ASSUME UNCHANGED taskVars PROVE TypeOK'
  BY <1>13 DEF taskVars
<1> QED
  BY <1>1, <1>2, <1>3, <1>4, <1>5, <1>6, <1>7, <1>8, <1>9, <1>10, <1>11, <1>12, <1>13 DEF TasksNext, TaskStep

(* While the cleanup has not deleted the variables, a step of a task loses *)
(* none, and takes what it has to see from those it finds.                 *)
LEMMA TaskKeeps ==
  ASSUME TypeOK, Kept, Begun, Copied, NEW s \in All,
         \/ ExecuteTask(s) \/ FindInstance(s) \/ GetEnvs(s) \/ CopyEnvs(s)
         \/ StartStep(s) \/ PollStep(s) \/ ExportEnvs(s) \/ DeleteTask(s)
  PROVE  Kept' /\ Begun' /\ Copied'
<1> USE DEF TypeOK, TaskType, PCs, Kept, Begun, Copied
<1>1. CASE ExecuteTask(s)
  BY <1>1 DEF ExecuteTask, TaskTo, Exported
<1>2. CASE FindInstance(s)
  BY <1>2 DEF FindInstance, TaskTo
<1>3. CASE GetEnvs(s)
  BY <1>3 DEF GetEnvs
<1>4. CASE CopyEnvs(s)
  <2>1. PICK more \in SUBSET env :
      task' = [task EXCEPT ![s] = [task[s] EXCEPT !.pc = "start", !.seen = @ \cup more, !.holds = FALSE]]
    BY <1>4, ZenonT(40) DEF CopyEnvs
  <2> DEFINE r == [task[s] EXCEPT !.pc = "start", !.seen = @ \cup more, !.holds = FALSE]
  <2>2. /\ task'[s].before = task[s].before /\ task[s].seen \subseteq task'[s].seen
        /\ task[s].pc = "copy" /\ task'[s].pc = "start"
    <3>1. task'[s] = r
      BY <2>1
    <3>2. r.pc = "start"
      OBVIOUS
    <3>3. r.seen = task[s].seen \cup more
      OBVIOUS
    <3>4. r.before = task[s].before
      OBVIOUS
    <3> HIDE DEF r
    <3> QED
      BY <1>4, <3>1, <3>2, <3>3, <3>4 DEF CopyEnvs
  <2>3. \A t \in All \ {s} : task'[t] = task[t]
    BY <2>1
  <2>4. env' = env
    BY <1>4 DEF CopyEnvs
  <2> QED
    BY <2>2, <2>3, <2>4
<1>5. CASE StartStep(s)
  BY <1>5 DEF StartStep, TaskTo
<1>6. CASE PollStep(s)
  BY <1>6 DEF PollStep, TaskTo
<1>7. CASE ExportEnvs(s)
  BY <1>7 DEF ExportEnvs, Add, TaskTo
<1>8. CASE DeleteTask(s)
  BY <1>8 DEF DeleteTask
<1> QED
  BY <1>1, <1>2, <1>3, <1>4, <1>5, <1>6, <1>7, <1>8

(* Every step keeps the invariant; from "done" the cleanup does not go on. *)
LEMMA NextInv == IInv /\ [TasksNext]_taskVars => IInv'
<1> SUFFICES ASSUME IInv, [TasksNext]_taskVars, cleanup' # "done" PROVE (Kept /\ Begun /\ Copied)'
  BY TypeStep DEF IInv
<1>1. cleanup # "done"
  BY DEF TasksNext, TaskStep, ExecuteTask, FindInstance, GetEnvs, CopyEnvs, StartStep, PollStep,
    ExportEnvs, DeleteTask, StartService, CancelTasks, DestroyVM, DeleteEnvs, taskVars
<1>2. TypeOK /\ Kept /\ Begun /\ Copied
  BY <1>1 DEF IInv
<1>3. CASE \E s \in All : ExecuteTask(s) \/ TaskStep(s) \/ PollStep(s)
  BY <1>2, <1>3, TaskKeeps DEF TaskStep
<1>4. ASSUME NEW i \in DOMAIN Services, StartService(i) PROVE (Kept /\ Begun /\ Copied)'
  BY <1>2, <1>4, ServiceIsTask
  DEF StartService, Exported, TypeOK, TaskType, PCs, Kept, Begun, Copied
<1>5. CASE CancelTasks
  <2>1. \A s \in All : /\ task'[s].pc = task[s].pc
                       /\ task'[s].before = task[s].before /\ task'[s].seen = task[s].seen
    BY <1>2, <1>5 DEF CancelTasks, TypeOK, TaskType
  <2>2. env' = env
    BY <1>5 DEF CancelTasks
  <2> QED
    BY <1>2, <2>1, <2>2 DEF Kept, Begun, Copied
<1>6. CASE DestroyVM
  BY <1>2, <1>6 DEF DestroyVM, Kept, Begun, Copied
<1>7. ~DeleteEnvs
  BY DEF DeleteEnvs
<1>8. CASE UNCHANGED taskVars
  BY <1>2, <1>8 DEF taskVars, Kept, Begun, Copied
<1> QED
  BY <1>3, <1>4, <1>5, <1>6, <1>7, <1>8 DEF TasksNext

(* A script step is given the variables of every step that had ended well  *)
(* when its task began, unless the cleanup has deleted them, however the   *)
(* tasks of the stage, its services and its cleanup overlap.               *)
THEOREM EnvsAreSeen == TasksSpec => []EnvsSeen
<1>1. IInv => EnvsSeen
  BY DEF IInv, Copied, EnvsSeen
<1> QED
  BY <1>1, InitInv, NextInv, PTL DEF TasksSpec
============================================================================
