---------------------------------- MODULE Outbox ----------------------------------
(***************************************************************************)
(* The outbox_jobs table of store/database/sql/outbox.go and the runners   *)
(* that share it: replenishment and scale jobs are put in it, the scaler's *)
(* trigger finds and creates one scale job per pool and window, each       *)
(* runner's OutboxProcessor claims batches and works on them in parallel,  *)
(* and the clean-up job deletes what is too old.  The database statements  *)
(* are atomic; nothing else is.                                            *)
(***************************************************************************)
EXTENDS Integers, FiniteSets

CONSTANTS
  Jobs,       \* ids, from a sequence: never reused
  Runners,    \* pods that share the table
  Pools,      \* the pools the scaler scales
  MaxRetries, \* DLITE_OUTBOXER_MAX_RETRIES
  BatchSize,  \* DLITE_OUTBOXER_BATCH_SIZE
  MaxAge,     \* 48 hours, in windows of the scaler
  MaxWindow,  \* bound: the last window the trigger runs for
  AnyRunner,  \* the empty runner name
  NoPool

ASSUME LimitAssumption ==
  /\ MaxRetries \in Nat /\ BatchSize \in Nat \ {0} /\ MaxWindow \in Nat
  /\ MaxAge \in Nat /\ MaxAge >= 2
ASSUME NameAssumption == AnyRunner \notin Runners /\ NoPool \notin Pools

VARIABLES
  table,         \* outbox_jobs
  phase,         \* how far each runner's ProcessPendingJobs is
  work,          \* the goroutine of each runner on each job
  trigger,       \* the runner's ScalerTriggerJob.Execute
  lastWindowKey, \* its field of that name
  window,        \* the next window, by the clock
  inLead,        \* is the clock within LeadTime of it?
  made,          \* how many VMs a set-up job has made
  scaled         \* how often ScalePool has scaled a pool for a window

vars == <<table, phase, work, trigger, lastWindowKey, window, inLead, made, scaled>>

Windows == 1 .. (MaxWindow + 1)

Status == {"unborn", "pending", "running", "deleted"}

Row == [status: Status, type: {"setup", "scale"}, runner: Runners \cup {AnyRunner},
        pool: Pools \cup {NoPool}, window: Windows \cup {0}, tries: 0 .. (MaxRetries + 1),
        waiting: BOOLEAN, age: 0 .. MaxAge]

Unborn == [status |-> "unborn", type |-> "setup", runner |-> AnyRunner, pool |-> NoPool,
           window |-> 0, tries |-> 0, waiting |-> FALSE, age |-> 0]

Exists(j) == table[j].status \in {"pending", "running"}

Idle == [pc |-> "idle", todo |-> {}, pool |-> NoPool, window |-> 0]

Init ==
  /\ table = [j \in Jobs |-> Unborn]
  /\ phase = [r \in Runners |-> "idle"]
  /\ work = [r \in Runners |-> [j \in Jobs |-> "none"]]
  /\ trigger = [r \in Runners |-> Idle]
  /\ lastWindowKey = [r \in Runners |-> 0]
  /\ window = 1 /\ inLead = FALSE
  /\ made = [j \in Jobs |-> 0]
  /\ scaled = [p \in Pools |-> [w \in Windows |-> 0]]

-----------------------------------------------------------------------------
(* OutboxStore.Create *)
SetupRow(r) == [Unborn EXCEPT !.status = "pending", !.runner = r]
ScaleRow(p, w) == [Unborn EXCEPT !.status = "pending", !.type = "scale",
                                 !.pool = p, !.window = w]

(* setupInstanceAsync, after a claim of a pooled VM or a failed            *)
(* connectivity check: the runner asks itself for a replacement.           *)
SetupInstanceAsync(r, j) ==
  /\ table[j].status = "unborn"
  /\ table' = [table EXCEPT ![j] = SetupRow(r)]
  /\ UNCHANGED <<phase, work, trigger, lastWindowKey, window, inLead, made, scaled>>

-----------------------------------------------------------------------------
(* ScalerTriggerJob.Execute, run by every runner once a minute.            *)

TriggerOnly == UNCHANGED <<phase, work, window, inLead, made, scaled>>

(* The two early returns, and the window it works for from then on. *)
TriggerStart(r) ==
  /\ trigger[r].pc = "idle"
  /\ inLead /\ lastWindowKey[r] # window
  /\ trigger' = [trigger EXCEPT ![r] = [Idle EXCEPT !.pc = "find", !.todo = Pools,
                                                    !.window = window]]
  /\ TriggerOnly /\ UNCHANGED <<table, lastWindowKey>>

(* FindScaleJobForWindow, in whatever status the job is. *)
ScaleJobs(p, w) ==
  {j \in Jobs : Exists(j) /\ table[j].type = "scale" /\ table[j].pool = p
                          /\ table[j].window = w}

(* A job that is there, or an error, skips the pool. *)
TriggerFind(r, p) ==
  /\ trigger[r].pc = "find" /\ p \in trigger[r].todo
  /\ \/ /\ ScaleJobs(p, trigger[r].window) = {}
        /\ trigger' = [trigger EXCEPT ![r].pc = "create", ![r].pool = p]
     \/ trigger' = [trigger EXCEPT ![r].todo = @ \ {p}]
  /\ TriggerOnly /\ UNCHANGED <<table, lastWindowKey>>

(* Create, which fails on the unique index if another runner's came first, *)
(* or for any other reason; the pool is skipped all the same.              *)
TriggerCreate(r) ==
  LET p == trigger[r].pool
      w == trigger[r].window IN
  /\ trigger[r].pc = "create"
  /\ \/ /\ ScaleJobs(p, w) = {}
        /\ \E j \in Jobs : /\ table[j].status = "unborn"
                           /\ table' = [table EXCEPT ![j] = ScaleRow(p, w)]
     \/ UNCHANGED table
  /\ trigger' = [trigger EXCEPT ![r].pc = "find", ![r].todo = @ \ {p}, ![r].pool = NoPool]
  /\ TriggerOnly /\ UNCHANGED lastWindowKey

TriggerDone(r) ==
  /\ trigger[r].pc = "find" /\ trigger[r].todo = {}
  /\ lastWindowKey' = [lastWindowKey EXCEPT ![r] = trigger[r].window]
  /\ trigger' = [trigger EXCEPT ![r] = Idle]
  /\ TriggerOnly /\ UNCHANGED table

TriggerStep(r) ==
  TriggerCreate(r) \/ TriggerDone(r) \/ \E p \in Pools : TriggerFind(r, p)

-----------------------------------------------------------------------------
(* OutboxProcessor.ProcessPendingJobs                                      *)

ProcessOnly == UNCHANGED <<trigger, lastWindowKey, window, inLead>>

(* Mutant of Claimable: the status is not filtered. *)
ClaimableRunning(name) ==
  {j \in Jobs : Exists(j) /\ table[j].runner = name /\ ~table[j].waiting}

(* The rows FindAndClaimPending may claim, and what it does to them.  Rows *)
(* another transaction has locked are skipped, so any of them may be.      *)
Claimable(name) ==
  {j \in Jobs : table[j].status = "pending" /\ table[j].runner = name /\ ~table[j].waiting}

(* Mutant of FindAndClaimPending: the count returned is the old one. *)
ClaimWithOldCount(r, batch, name) ==
  /\ batch \subseteq Claimable(name) /\ Cardinality(batch) <= BatchSize
  /\ table' = [j \in Jobs |->
                 IF j \in batch
                   THEN [table[j] EXCEPT !.status = "running", !.waiting = TRUE,
                                         !.tries = IF @ <= MaxRetries THEN @ + 1 ELSE @]
                   ELSE table[j]]
  /\ work' = [work EXCEPT ![r] =
                [j \in Jobs |->
                   IF j \notin batch THEN @[j]
                   ELSE IF table[j].tries > MaxRetries THEN "exhausted" ELSE "process"]]

FindAndClaimPending(r, batch, name) ==
  /\ batch \subseteq Claimable(name) /\ Cardinality(batch) <= BatchSize
  /\ table' = [j \in Jobs |->
                 IF j \in batch
                   THEN [table[j] EXCEPT !.status = "running", !.waiting = TRUE,
                                         !.tries = @ + 1]
                   ELSE table[j]]
  /\ work' = [work EXCEPT ![r] =
                [j \in Jobs |->
                   IF j \notin batch THEN @[j]
                   ELSE IF table[j].tries + 1 > MaxRetries THEN "exhausted" ELSE "process"]]

ClaimOwn(r, batch) ==
  /\ phase[r] = "idle"
  /\ FindAndClaimPending(r, batch, r)
  /\ phase' = [phase EXCEPT ![r] = "claiming"]
  /\ ProcessOnly /\ UNCHANGED <<made, scaled>>

ClaimGlobal(r, batch) ==
  /\ phase[r] = "claiming"
  /\ FindAndClaimPending(r, batch, AnyRunner)
  /\ phase' = [phase EXCEPT ![r] = "working"]
  /\ ProcessOnly /\ UNCHANGED <<made, scaled>>

(* The error return of the second claim: what the first one claimed stays  *)
(* running, and nobody works on it.                                        *)
ClaimGlobalFails(r) ==
  /\ phase[r] = "claiming"
  /\ phase' = [phase EXCEPT ![r] = "idle"]
  /\ work' = [work EXCEPT ![r] = [j \in Jobs |-> "none"]]
  /\ ProcessOnly /\ UNCHANGED <<table, made, scaled>>

WorkTo(r, j, pc) == work' = [work EXCEPT ![r][j] = pc]

Working(r, j, pc) == phase[r] = "working" /\ work[r][j] = pc

(* OutboxStore.Delete *)
Delete(j) == table' = [table EXCEPT ![j].status = "deleted"]

(* Mutant of DropExhausted: an exhausted job is marked pending as well. *)
RequeueExhausted(r, j) ==
  /\ Working(r, j, "exhausted")
  /\ table' = [table EXCEPT ![j].status = "pending", ![j].waiting = TRUE]
  /\ WorkTo(r, j, "none")
  /\ ProcessOnly /\ UNCHANGED <<phase, made, scaled>>

(* The retries are used up: the job is deleted, or stays running. *)
DropExhausted(r, j) ==
  /\ Working(r, j, "exhausted")
  /\ Delete(j) \/ UNCHANGED table
  /\ WorkTo(r, j, "none")
  /\ ProcessOnly /\ UNCHANGED <<phase, made, scaled>>

(* Mutant of RunSetup: the error of SetupInstanceForPool is swallowed. *)
RunSetupSwallowed(r, j) ==
  /\ Working(r, j, "process") /\ table[j].type = "setup"
  /\ WorkTo(r, j, "done")
  /\ made' = [made EXCEPT ![j] = @ + 1] \/ UNCHANGED made
  /\ ProcessOnly /\ UNCHANGED <<table, phase, scaled>>

(* processSetupInstanceJob *)
RunSetup(r, j) ==
  /\ Working(r, j, "process") /\ table[j].type = "setup"
  /\ \/ WorkTo(r, j, "done") /\ made' = [made EXCEPT ![j] = @ + 1]
     \/ WorkTo(r, j, "failed") /\ UNCHANGED made
  /\ ProcessOnly /\ UNCHANGED <<table, phase, scaled>>

(* Mutant of RunScale: the completed scale job is deleted too. *)
RunScaleDeleted(r, j) ==
  /\ Working(r, j, "process") /\ table[j].type = "scale"
  /\ \/ /\ Delete(j)
        /\ scaled' = [scaled EXCEPT ![table[j].pool][table[j].window] = @ + 1]
        /\ WorkTo(r, j, "none")
     \/ WorkTo(r, j, "failed") /\ UNCHANGED <<table, scaled>>
  /\ ProcessOnly /\ UNCHANGED <<phase, made>>

(* processScaleJob: ScalePool fails before it scales or not at all.  To    *)
(* scale up it creates set-up jobs for any runner.  The row stays running. *)
RunScale(r, j) ==
  /\ Working(r, j, "process") /\ table[j].type = "scale"
  /\ \/ /\ \E new \in SUBSET {k \in Jobs : table[k].status = "unborn"} :
             table' = [k \in Jobs |-> IF k \in new THEN SetupRow(AnyRunner) ELSE table[k]]
        /\ scaled' = [scaled EXCEPT ![table[j].pool][table[j].window] = @ + 1]
        /\ WorkTo(r, j, "none")
     \/ WorkTo(r, j, "failed") /\ UNCHANGED <<table, scaled>>
  /\ ProcessOnly /\ UNCHANGED <<phase, made>>

(* The completed set-up job is deleted; failing to is a failure of the job.*)
DeleteDone(r, j) ==
  /\ Working(r, j, "done")
  /\ \/ Exists(j) /\ Delete(j) /\ WorkTo(r, j, "none")
     \/ WorkTo(r, j, "failed") /\ UNCHANGED table
  /\ ProcessOnly /\ UNCHANGED <<phase, made, scaled>>

(* UpdateStatus back to pending; its own failure, as when the context has  *)
(* timed out or the row is gone, is only logged.                           *)
MarkPending(r, j) ==
  /\ Working(r, j, "failed")
  /\ \/ /\ Exists(j)
        /\ table' = [table EXCEPT ![j].status = "pending", ![j].waiting = TRUE]
     \/ UNCHANGED table
  /\ WorkTo(r, j, "none")
  /\ ProcessOnly /\ UNCHANGED <<phase, made, scaled>>

(* wg.Wait: the next tick of the scheduler may start over. *)
ProcessDone(r) ==
  /\ phase[r] = "working" /\ \A j \in Jobs : work[r][j] = "none"
  /\ phase' = [phase EXCEPT ![r] = "idle"]
  /\ ProcessOnly /\ UNCHANGED <<table, work, made, scaled>>

(* The runner restarts. *)
Crash(r) ==
  /\ phase' = [phase EXCEPT ![r] = "idle"]
  /\ work' = [work EXCEPT ![r] = [j \in Jobs |-> "none"]]
  /\ trigger' = [trigger EXCEPT ![r] = Idle]
  /\ lastWindowKey' = [lastWindowKey EXCEPT ![r] = 0]
  /\ UNCHANGED <<table, window, inLead, made, scaled>>

-----------------------------------------------------------------------------
(* CleanupOldJobs: DeleteOlderThan, whatever the status. *)
Old == {j \in Jobs : Exists(j) /\ table[j].age = MaxAge}

(* Mutant of CleanupOldJobs: running jobs are spared. *)
CleanupPendingJobs ==
  /\ \E j \in Old : table[j].status = "pending"
  /\ table' = [j \in Jobs |-> IF j \in Old /\ table[j].status = "pending"
                                THEN [table[j] EXCEPT !.status = "deleted"]
                                ELSE table[j]]
  /\ UNCHANGED <<phase, work, trigger, lastWindowKey, window, inLead, made, scaled>>

CleanupOldJobs ==
  /\ Old # {}
  /\ table' = [j \in Jobs |-> IF j \in Old THEN [table[j] EXCEPT !.status = "deleted"]
                                           ELSE table[j]]
  /\ UNCHANGED <<phase, work, trigger, lastWindowKey, window, inLead, made, scaled>>

(* retryInterval has passed since processed_at. *)
RetryDue(j) ==
  /\ table[j].waiting
  /\ table' = [table EXCEPT ![j].waiting = FALSE]
  /\ UNCHANGED <<phase, work, trigger, lastWindowKey, window, inLead, made, scaled>>

EnterLead ==
  /\ ~inLead /\ window <= MaxWindow
  /\ inLead' = TRUE
  /\ UNCHANGED <<table, phase, work, trigger, lastWindowKey, window, made, scaled>>

(* A window begins.  An Execute of the trigger may run across it, and with *)
(* its timeout of one minute not across two.                               *)
NextWindow ==
  /\ \A r \in Runners : trigger[r].pc = "idle" \/ trigger[r].window = window
  /\ window' = IF window <= MaxWindow THEN window + 1 ELSE window
  /\ inLead' = FALSE
  /\ table' = [j \in Jobs |->
                 IF Exists(j) /\ table[j].age < MaxAge THEN [table[j] EXCEPT !.age = @ + 1]
                                                       ELSE table[j]]
  /\ UNCHANGED <<phase, work, trigger, lastWindowKey, made, scaled>>

Process(r) ==
  \/ \E batch \in SUBSET Jobs : ClaimOwn(r, batch) \/ ClaimGlobal(r, batch)
  \/ ClaimGlobalFails(r) \/ ProcessDone(r)
  \/ \E j \in Jobs : \/ DropExhausted(r, j) \/ RunSetup(r, j) \/ RunScale(r, j)
                     \/ DeleteDone(r, j) \/ MarkPending(r, j)

Next ==
  \/ \E r \in Runners :
       \/ TriggerStart(r) \/ TriggerStep(r) \/ Process(r) \/ Crash(r)
       \/ \E j \in Jobs : SetupInstanceAsync(r, j)
  \/ \E j \in Jobs : RetryDue(j)
  \/ CleanupOldJobs \/ EnterLead \/ NextWindow

Spec == Init /\ [][Next]_vars

(* A trigger that has started goes on, the clock runs and the hourly       *)
(* clean-up goes on succeeding.  Nothing is assumed of the processors.     *)
Fairness ==
  /\ \A r \in Runners : WF_vars(TriggerStep(r))
  /\ WF_vars(NextWindow) /\ WF_vars(CleanupOldJobs)

FairSpec == Spec /\ Fairness

-----------------------------------------------------------------------------
(* Properties. *)

WorkPC == {"none", "exhausted", "process", "done", "failed"}

(* The types of the table and of the runners' memory. *)
TypeOK ==
  /\ table \in [Jobs -> Row]
  /\ phase \in [Runners -> {"idle", "claiming", "working"}]
  /\ work \in [Runners -> [Jobs -> WorkPC]]
  /\ trigger \in [Runners -> [pc: {"idle", "find", "create"}, todo: SUBSET Pools,
                              pool: Pools \cup {NoPool}, window: Windows \cup {0}]]
  /\ lastWindowKey \in [Runners -> Windows \cup {0}]
  /\ window \in Windows /\ inLead \in BOOLEAN
  /\ made \in [Jobs -> Nat]
  /\ scaled \in [Pools -> [Windows -> Nat]]

(* A job is never in the hands of two runners, nor is a job some runner    *)
(* works on open to a claim: a retry only starts when the last attempt is  *)
(* over, however long that took.                                           *)
OneWorker ==
  \A r \in Runners, j \in Jobs : work[r][j] # "none" =>
    /\ table[j].status \in {"running", "deleted"}
    /\ \A t \in Runners : work[t][j] # "none" => t = r

(* Crashes, lost deletes and failed status updates make a set-up job run   *)
(* again and leave its first VM behind; it never makes more than           *)
(* MaxRetries VMs.                                                         *)
SetupBound == \A j \in Jobs : made[j] <= MaxRetries

(* A pool is scaled at most once for a window, over all runners, retries,  *)
(* restarts and clean-ups: the kept row and the unique index stand in for  *)
(* a lock.                                                                 *)
ScaledOnce == \A p \in Pools, w \in Windows : scaled[p][w] <= 1

(* A replacement is given up only for cause: a set-up job is not deleted   *)
(* before it made a VM, used up its retries or grew too old.               *)
DroppedForCause ==
  \A j \in Jobs : table[j].status = "deleted" /\ table[j].type = "setup" =>
    made[j] > 0 \/ table[j].tries > MaxRetries \/ table[j].age = MaxAge

(* A job that no one works on any more, because its runner crashed or its  *)
(* status update was lost, does not stay in the table for ever.            *)
JobLeaves == \A j \in Jobs : Exists(j) ~> table[j].status = "deleted"

=============================================================================
