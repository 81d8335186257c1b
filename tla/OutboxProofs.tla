-------------------------------- MODULE OutboxProofs --------------------------------
(***************************************************************************)
(* Theorems about Outbox for any number of jobs, runners and pools and any *)
(* limits, proved with TLAPS.                                              *)
(***************************************************************************)
EXTENDS Outbox, TLAPS

Works(r, j) == work[r][j] # "none"

(* A row is written only with a try left, and a goroutine past the check   *)
(* of the retries has one; the goroutine that gives up has none.           *)
Attempts ==
  \A j \in Jobs :
    /\ table[j].status = "unborn" => table[j].tries = 0 /\ made[j] = 0
    /\ table[j].status = "pending" => table[j].tries <= MaxRetries
    /\ \A r \in Runners :
         /\ work[r][j] = "exhausted" => table[j].tries > MaxRetries
         /\ work[r][j] \in {"process", "done", "failed"} => table[j].tries <= MaxRetries

(* Every VM a job made used up a try of its own. *)
OneVMPerTry ==
  \A j \in Jobs :
    /\ made[j] <= table[j].tries /\ made[j] <= MaxRetries
    /\ \A r \in Runners :
         /\ work[r][j] = "process" => made[j] < table[j].tries
         /\ work[r][j] = "done" => made[j] > 0 /\ table[j].type = "setup"

(* Where the windows of the triggers and of the scale jobs are. *)
ScaleJob(j) == table[j].status # "unborn" /\ table[j].type = "scale"
Active(r) == trigger[r].pc # "idle"

WindowsBehind ==
  /\ inLead => window <= MaxWindow
  /\ \A r \in Runners : Active(r) =>
       /\ trigger[r].window \in 1 .. MaxWindow /\ trigger[r].window <= window
       /\ trigger[r].pc = "create" => trigger[r].pool \in Pools
  /\ \A j \in Jobs : ScaleJob(j) =>
       /\ table[j].pool \in Pools /\ table[j].window \in 1 .. MaxWindow
       /\ table[j].window <= window
       /\ table[j].age >= 1 => table[j].window < window
       /\ table[j].age >= 2 => \A r \in Runners : Active(r) => trigger[r].window # table[j].window

(* A scale job that is gone was too old for any trigger to ask for its     *)
(* window again, or never scaled; so of two jobs for one pool and window   *)
(* one was given up.                                                       *)
GivenUp(j) == table[j].status = "deleted" /\ table[j].tries > MaxRetries
SameScale(j, k) == /\ ScaleJob(j) /\ ScaleJob(k)
                   /\ table[j].pool = table[k].pool /\ table[j].window = table[k].window

OneScaleJob ==
  /\ \A j \in Jobs : ScaleJob(j) /\ table[j].status = "deleted" =>
       table[j].age = MaxAge \/ table[j].tries > MaxRetries
  /\ \A j, k \in Jobs : SameScale(j, k) /\ j # k => GivenUp(j) \/ GivenUp(k)

(* A window that is scaled has the job that did it to show for it. *)
Used(j) ==
  /\ ScaleJob(j) /\ table[j].tries <= MaxRetries
  /\ table[j].status \in {"running", "deleted"}
  /\ \A r \in Runners : work[r][j] = "none"

ScaledByJob ==
  \A p \in Pools, w \in Windows : scaled[p][w] > 0 =>
    \E j \in Jobs : Used(j) /\ table[j].pool = p /\ table[j].window = w

IInv == /\ TypeOK /\ OneWorker /\ Attempts /\ OneVMPerTry /\ DroppedForCause
        /\ WindowsBehind /\ OneScaleJob /\ ScaledByJob /\ ScaledOnce

-----------------------------------------------------------------------------
(* What the writes do to a row. *)

(* `new` is `row` with another status, count of tries and age. *)
Rewritten(new, row, status, tries, age) ==
  /\ new \in Row
  /\ new.status = status /\ new.tries = tries /\ new.age = age
  /\ new.type = row.type /\ new.pool = row.pool /\ new.window = row.window

(* What a row holds. *)
LEMMA RowFields ==
  ASSUME table \in [Jobs -> Row], NEW j \in Jobs
  PROVE  /\ table[j] \in Row
         /\ table[j].status \in Status /\ table[j].type \in {"setup", "scale"}
         /\ table[j].runner \in Runners \cup {AnyRunner}
         /\ table[j].pool \in Pools \cup {NoPool}
         /\ table[j].window \in Windows \cup {0}
         /\ table[j].tries \in 0 .. (MaxRetries + 1)
         /\ table[j].waiting \in BOOLEAN /\ table[j].age \in 0 .. MaxAge
<1>1. table[j] \in Row
  OBVIOUS
<1> QED
  BY <1>1 DEF Row

(* OutboxStore.Create *)
LEMMA NewRows ==
  /\ Unborn \in Row
  /\ \A r \in Runners \cup {AnyRunner} :
       /\ SetupRow(r) \in Row
       /\ SetupRow(r).status = "pending" /\ SetupRow(r).type = "setup"
       /\ SetupRow(r).tries = 0 /\ SetupRow(r).age = 0
  /\ \A p \in Pools, w \in Windows :
       /\ ScaleRow(p, w) \in Row
       /\ ScaleRow(p, w).status = "pending" /\ ScaleRow(p, w).type = "scale"
       /\ ScaleRow(p, w).pool = p /\ ScaleRow(p, w).window = w
       /\ ScaleRow(p, w).tries = 0 /\ ScaleRow(p, w).age = 0
<1>1. Unborn \in Row
  BY LimitAssumption DEF Unborn, Row, Status
<1>2. Unborn.status = "unborn" /\ Unborn.type = "setup" /\ Unborn.tries = 0 /\ Unborn.age = 0
  BY DEF Unborn
<1> QED
  BY <1>1, <1>2 DEF SetupRow, ScaleRow, Row, Status

(* FindAndClaimPending, UpdateStatus, Delete, the clock and retryInterval. *)
LEMMA RowWrites ==
  ASSUME NEW row \in Row, NEW st \in Status, NEW wt \in BOOLEAN
  PROVE  /\ Rewritten(row, row, row.status, row.tries, row.age)
         /\ Rewritten([row EXCEPT !.status = st], row, st, row.tries, row.age)
         /\ Rewritten([row EXCEPT !.status = st, !.waiting = wt], row, st, row.tries, row.age)
         /\ Rewritten([row EXCEPT !.waiting = wt], row, row.status, row.tries, row.age)
         /\ row.tries <= MaxRetries =>
              Rewritten([row EXCEPT !.status = st, !.waiting = wt, !.tries = @ + 1],
                        row, st, row.tries + 1, row.age)
         /\ row.age < MaxAge =>
              Rewritten([row EXCEPT !.age = @ + 1], row, row.status, row.tries, row.age + 1)
<1>1. row.tries \in 0 .. (MaxRetries + 1) /\ row.age \in 0 .. MaxAge
  BY DEF Row
<1>2. row.tries <= MaxRetries => row.tries + 1 \in 0 .. (MaxRetries + 1)
  BY <1>1, LimitAssumption
<1>3. row.age < MaxAge => row.age + 1 \in 0 .. MaxAge
  BY <1>1, LimitAssumption
<1>4. Rewritten(row, row, row.status, row.tries, row.age)
  BY DEF Rewritten
<1>5. Rewritten([row EXCEPT !.status = st], row, st, row.tries, row.age)
  BY DEF Rewritten, Row
<1>6. Rewritten([row EXCEPT !.status = st, !.waiting = wt], row, st, row.tries, row.age)
  BY DEF Rewritten, Row
<1>7. Rewritten([row EXCEPT !.waiting = wt], row, row.status, row.tries, row.age)
  BY DEF Rewritten, Row
<1>8. ASSUME row.tries <= MaxRetries
      PROVE  Rewritten([row EXCEPT !.status = st, !.waiting = wt, !.tries = @ + 1],
                       row, st, row.tries + 1, row.age)
  BY <1>2, <1>8 DEF Rewritten, Row
<1>9. ASSUME row.age < MaxAge
      PROVE  Rewritten([row EXCEPT !.age = @ + 1], row, row.status, row.tries, row.age + 1)
  BY <1>3, <1>9 DEF Rewritten, Row
<1> QED
  BY <1>4, <1>5, <1>6, <1>7, <1>8, <1>9

-----------------------------------------------------------------------------
(* A step as one job sees it. *)

RowKept(j) == Rewritten(table'[j], table[j], table[j].status, table[j].tries, table[j].age)

(* Some goroutines on the job end; none starts. *)
WorkEnds(j) == \A r \in Runners : work'[r][j] \in {work[r][j], "none"}

(* The goroutine of r on the job goes from one point to another. *)
WorkMoves(r, j, from, to) ==
  /\ work[r][j] = from /\ work'[r][j] = to
  /\ \A t \in Runners : t # r => work'[t][j] = work[t][j]

Stays(j) == RowKept(j) /\ WorkEnds(j) /\ made'[j] = made[j]

Ages(j) ==
  /\ NextWindow
  /\ Rewritten(table'[j], table[j], table[j].status, table[j].tries, table[j].age + 1)
  /\ Exists(j) /\ table[j].age < MaxAge
  /\ WorkEnds(j) /\ made'[j] = made[j]

Born(j, type) ==
  /\ table[j].status = "unborn" /\ table'[j] \in Row
  /\ table'[j].status = "pending" /\ table'[j].type = type
  /\ table'[j].tries = 0 /\ table'[j].age = 0
  /\ WorkEnds(j) /\ made'[j] = made[j]

(* The trigger of r finds no job and creates this one. *)
CreatedBy(r, j) ==
  LET p == trigger[r].pool
      w == trigger[r].window IN
  /\ TriggerCreate(r)
  /\ Born(j, "scale") /\ table'[j].pool = p /\ table'[j].window = w
  /\ ScaleJobs(p, w) = {} /\ p \in Pools /\ w \in 1 .. MaxWindow /\ w <= window
  /\ \A i \in Jobs : i # j => Stays(i)

Claimed(r, j) ==
  /\ table[j].status = "pending"
  /\ Rewritten(table'[j], table[j], "running", table[j].tries + 1, table[j].age)
  /\ work'[r][j] = IF table[j].tries + 1 > MaxRetries THEN "exhausted" ELSE "process"
  /\ \A t \in Runners : t # r => work'[t][j] = work[t][j]
  /\ made'[j] = made[j]

GoneTo(j, status) == Rewritten(table'[j], table[j], status, table[j].tries, table[j].age)

Dropped(r, j) ==
  GoneTo(j, "deleted") /\ WorkMoves(r, j, "exhausted", "none") /\ made'[j] = made[j]

Made(r, j) ==
  /\ RowKept(j) /\ table[j].type = "setup"
  /\ WorkMoves(r, j, "process", "done") /\ made'[j] = made[j] + 1

Fails(r, j) ==
  /\ RowKept(j) /\ made'[j] = made[j]
  /\ WorkMoves(r, j, "process", "failed") \/ WorkMoves(r, j, "done", "failed")

Completed(r, j) ==
  GoneTo(j, "deleted") /\ WorkMoves(r, j, "done", "none") /\ made'[j] = made[j]

Requeued(r, j) ==
  /\ Exists(j)
  /\ GoneTo(j, "pending") /\ WorkMoves(r, j, "failed", "none") /\ made'[j] = made[j]

AgedOut(j) ==
  /\ Exists(j) /\ table[j].age = MaxAge
  /\ GoneTo(j, "deleted") /\ WorkEnds(j) /\ made'[j] = made[j]

JobStep(j) ==
  \/ Stays(j) \/ Ages(j) \/ Born(j, "setup") \/ AgedOut(j)
  \/ \E r \in Runners :
       \/ CreatedBy(r, j) \/ Claimed(r, j) \/ Dropped(r, j) \/ Made(r, j) \/ Fails(r, j)
       \/ Completed(r, j) \/ Requeued(r, j)

JobTypes ==
  /\ table \in [Jobs -> Row]
  /\ work \in [Runners -> [Jobs -> WorkPC]]
  /\ made \in [Jobs -> Nat]

StepsOfJobs == JobTypes' /\ \A j \in Jobs : JobStep(j)

(* A row that is not written. *)
LEMMA KeptRow ==
  ASSUME JobTypes, NEW j \in Jobs, table'[j] = table[j]
  PROVE  RowKept(j)
<1>1. table[j] \in Row
  BY DEF JobTypes
<1> QED
  BY <1>1 DEF RowKept, Rewritten

(* Nothing happens to a job. *)
LEMMA NoJobStep ==
  ASSUME JobTypes, UNCHANGED <<table, work, made>>
  PROVE  StepsOfJobs
<1>1. \A j \in Jobs : RowKept(j)
  BY KeptRow
<1> QED
  BY <1>1 DEF JobTypes, StepsOfJobs, JobStep, Stays, WorkEnds

(* setupInstanceAsync *)
LEMMA AsyncSteps ==
  ASSUME JobTypes, NEW r \in Runners, NEW k \in Jobs, SetupInstanceAsync(r, k)
  PROVE  StepsOfJobs
<1>1. table' = [table EXCEPT ![k] = SetupRow(r)] /\ UNCHANGED <<work, made>>
  BY DEF SetupInstanceAsync
<1>2. \A j \in Jobs : j # k => RowKept(j)
  BY <1>1, KeptRow DEF JobTypes
<1>3. \A j \in Jobs : j # k => Stays(j)
  BY <1>1, <1>2 DEF Stays, WorkEnds
<1>4. Born(k, "setup")
  BY <1>1, NewRows DEF JobTypes, Born, WorkEnds, SetupInstanceAsync
<1> QED
  BY <1>1, <1>3, <1>4, NewRows DEF JobTypes, StepsOfJobs, JobStep

(* The scaler's trigger creates a job. *)
LEMMA CreateSteps ==
  ASSUME JobTypes, WindowsBehind, NEW r \in Runners, TriggerCreate(r), table' # table
  PROVE  JobTypes' /\ \E k \in Jobs : CreatedBy(r, k)
<1> DEFINE p == trigger[r].pool
           w == trigger[r].window
<1>1. PICK k \in Jobs : table[k].status = "unborn" /\ table' = [table EXCEPT ![k] = ScaleRow(p, w)]
  BY DEF TriggerCreate
<1>2. UNCHANGED <<work, made>> /\ ScaleJobs(p, w) = {}
  BY DEF TriggerCreate, TriggerOnly
<1>3. p \in Pools /\ w \in 1 .. MaxWindow /\ w <= window
  BY DEF TriggerCreate, WindowsBehind, Active
<1>4. w \in Windows
  BY <1>3, LimitAssumption DEF Windows
<1>5. \A j \in Jobs : j # k => RowKept(j)
  BY <1>1, KeptRow DEF JobTypes
<1>6. \A j \in Jobs : j # k => Stays(j)
  BY <1>2, <1>5 DEF Stays, WorkEnds
<1>7. Born(k, "scale") /\ table'[k].pool = p /\ table'[k].window = w
  BY <1>1, <1>2, <1>3, <1>4, NewRows DEF JobTypes, Born, WorkEnds
<1>8. JobTypes'
  BY <1>1, <1>2, <1>3, <1>4, NewRows DEF JobTypes
<1> QED
  BY <1>2, <1>3, <1>6, <1>7, <1>8 DEF CreatedBy

(* FindAndClaimPending *)
LEMMA ClaimSteps ==
  ASSUME JobTypes, Attempts, NEW r \in Runners, NEW batch \in SUBSET Jobs, NEW name,
         FindAndClaimPending(r, batch, name), UNCHANGED made
  PROVE  StepsOfJobs
<1>1. \A j \in batch : table[j].status = "pending" /\ table[j].tries <= MaxRetries
  BY DEF FindAndClaimPending, Claimable, Attempts
<1>2. ASSUME NEW j \in batch
      PROVE  Claimed(r, j) /\ table'[j] \in Row
  <2>1. table'[j] = [table[j] EXCEPT !.status = "running", !.waiting = TRUE, !.tries = @ + 1]
    BY DEF FindAndClaimPending
  <2>2. Rewritten(table'[j], table[j], "running", table[j].tries + 1, table[j].age)
    BY <1>1, <2>1, RowWrites DEF JobTypes, Status
  <2>3. /\ work'[r][j] = IF table[j].tries + 1 > MaxRetries THEN "exhausted" ELSE "process"
        /\ \A t \in Runners : t # r => work'[t][j] = work[t][j]
    BY DEF FindAndClaimPending, JobTypes
  <2> QED
    BY <1>1, <2>2, <2>3 DEF Claimed, Rewritten
<1>3. ASSUME NEW j \in Jobs, j \notin batch
      PROVE  Stays(j) /\ table'[j] \in Row
  <2>1. table'[j] = table[j]
    BY <1>3 DEF FindAndClaimPending
  <2>2. RowKept(j)
    BY <2>1, KeptRow
  <2>3. \A t \in Runners : work'[t][j] = work[t][j]
    BY <1>3 DEF FindAndClaimPending, JobTypes
  <2> QED
    BY <2>1, <2>2, <2>3 DEF Stays, WorkEnds, JobTypes
<1>4. table' \in [Jobs -> Row]
  BY <1>2, <1>3 DEF FindAndClaimPending
<1>5. work' \in [Runners -> [Jobs -> WorkPC]]
  BY DEF FindAndClaimPending, JobTypes, WorkPC
<1> QED
  BY <1>2, <1>3, <1>4, <1>5 DEF JobTypes, StepsOfJobs, JobStep

(* A goroutine of r moves on job k, and no row is written. *)
LEMMA MoveSteps ==
  ASSUME JobTypes, NEW r \in Runners, NEW k \in Jobs, NEW pc \in WorkPC,
         WorkTo(r, k, pc), UNCHANGED table
  PROVE  /\ work' \in [Runners -> [Jobs -> WorkPC]]
         /\ \A from : work[r][k] = from => WorkMoves(r, k, from, pc)
         /\ \A j \in Jobs : RowKept(j)
         /\ \A j \in Jobs : j # k => WorkEnds(j)
         /\ pc = "none" => WorkEnds(k)
<1>1. \A j \in Jobs : RowKept(j)
  BY KeptRow
<1>2. work' \in [Runners -> [Jobs -> WorkPC]]
  BY DEF WorkTo, JobTypes
<1> QED
  BY <1>1, <1>2 DEF WorkTo, WorkMoves, WorkEnds, JobTypes

(* A goroutine of r ends on job k, after a write of the status of k. *)
LEMMA EndSteps ==
  ASSUME JobTypes, NEW r \in Runners, NEW k \in Jobs, NEW st \in Status,
         WorkTo(r, k, "none"), UNCHANGED made,
         \/ table' = [table EXCEPT ![k].status = st]
         \/ table' = [table EXCEPT ![k].status = st, ![k].waiting = TRUE]
  PROVE  /\ JobTypes'
         /\ \A from : work[r][k] = from => WorkMoves(r, k, from, "none")
         /\ GoneTo(k, st)
         /\ \A j \in Jobs : j # k => Stays(j)
<1>1. table[k] \in Row
  BY DEF JobTypes
<1>2. \/ table' = [table EXCEPT ![k] = [table[k] EXCEPT !.status = st]]
      \/ table' = [table EXCEPT ![k] = [table[k] EXCEPT !.status = st, !.waiting = TRUE]]
  OBVIOUS
<1>3. GoneTo(k, st)
  <2>1. /\ Rewritten([table[k] EXCEPT !.status = st], table[k], st, table[k].tries, table[k].age)
        /\ Rewritten([table[k] EXCEPT !.status = st, !.waiting = TRUE], table[k], st,
                     table[k].tries, table[k].age)
    BY <1>1, RowWrites
  <2>2. \/ table'[k] = [table[k] EXCEPT !.status = st]
        \/ table'[k] = [table[k] EXCEPT !.status = st, !.waiting = TRUE]
    BY <1>2 DEF JobTypes
  <2> QED
    BY <2>1, <2>2 DEF GoneTo
<1>4. table' \in [Jobs -> Row]
  BY <1>2, <1>3 DEF JobTypes, GoneTo, Rewritten
<1>5. \A j \in Jobs : j # k => RowKept(j)
  BY <1>2, KeptRow DEF JobTypes
<1>6. /\ work' \in [Runners -> [Jobs -> WorkPC]]
      /\ \A from : work[r][k] = from => WorkMoves(r, k, from, "none")
      /\ \A j \in Jobs : j # k => WorkEnds(j)
  BY DEF WorkTo, WorkMoves, WorkEnds, JobTypes, WorkPC
<1> QED
  BY <1>3, <1>4, <1>5, <1>6 DEF Stays, JobTypes

(* The steps of a goroutine of the processor. *)
LEMMA GoroutineSteps ==
  ASSUME JobTypes, NEW r \in Runners, NEW k \in Jobs,
         DropExhausted(r, k) \/ RunSetup(r, k) \/ DeleteDone(r, k) \/ MarkPending(r, k)
  PROVE  StepsOfJobs
<1> USE DEF StepsOfJobs, JobStep
<1>1. "none" \in WorkPC /\ "done" \in WorkPC /\ "failed" \in WorkPC
  BY DEF WorkPC
<1>2. "deleted" \in Status /\ "pending" \in Status
  BY DEF Status
<1>3. ASSUME WorkTo(r, k, "none"), UNCHANGED table, UNCHANGED made
      PROVE  StepsOfJobs
  BY <1>1, <1>3, MoveSteps DEF Stays, JobTypes
<1>4. ASSUME WorkTo(r, k, "failed"), UNCHANGED table, UNCHANGED made,
             work[r][k] \in {"process", "done"}
      PROVE  StepsOfJobs
  <2>1. \A j \in Jobs : j # k => Stays(j)
    BY <1>1, <1>4, MoveSteps DEF Stays
  <2>2. Fails(r, k)
    BY <1>1, <1>4, MoveSteps DEF Fails
  <2>3. JobTypes'
    BY <1>1, <1>4, MoveSteps DEF JobTypes
  <2> QED
    BY <2>1, <2>2, <2>3
<1>5. CASE DropExhausted(r, k)
  <2>1. WorkTo(r, k, "none") /\ UNCHANGED made /\ work[r][k] = "exhausted"
    BY <1>5 DEF DropExhausted, Working
  <2>2. CASE UNCHANGED table
    BY <1>3, <2>1, <2>2
  <2>3. CASE Delete(k)
    BY <1>2, <2>1, <2>3, EndSteps DEF Dropped, Delete
  <2> QED
    BY <1>5, <2>2, <2>3 DEF DropExhausted
<1>6. CASE RunSetup(r, k)
  <2>1. UNCHANGED table /\ work[r][k] = "process" /\ table[k].type = "setup"
    BY <1>6 DEF RunSetup, Working
  <2>2. CASE WorkTo(r, k, "failed") /\ UNCHANGED made
    BY <1>4, <2>1, <2>2
  <2>3. CASE WorkTo(r, k, "done") /\ made' = [made EXCEPT ![k] = @ + 1]
    <3>1. made' \in [Jobs -> Nat] /\ made'[k] = made[k] + 1
      BY <2>3 DEF JobTypes
    <3>2. \A j \in Jobs : j # k => Stays(j)
      BY <1>1, <2>1, <2>3, MoveSteps DEF Stays, JobTypes
    <3>3. Made(r, k)
      BY <1>1, <2>1, <2>3, <3>1, MoveSteps DEF Made
    <3>4. JobTypes'
      BY <1>1, <2>1, <2>3, <3>1, MoveSteps DEF JobTypes
    <3> QED
      BY <3>2, <3>3, <3>4
  <2> QED
    BY <1>6, <2>2, <2>3 DEF RunSetup
<1>7. CASE DeleteDone(r, k)
  <2>1. UNCHANGED made /\ work[r][k] = "done"
    BY <1>7 DEF DeleteDone, Working
  <2>2. CASE WorkTo(r, k, "failed") /\ UNCHANGED table
    BY <1>4, <2>1, <2>2
  <2>3. CASE Delete(k) /\ WorkTo(r, k, "none")
    BY <1>2, <2>1, <2>3, EndSteps DEF Completed, Delete
  <2> QED
    BY <1>7, <2>2, <2>3 DEF DeleteDone
<1>8. CASE MarkPending(r, k)
  <2>1. WorkTo(r, k, "none") /\ UNCHANGED made /\ work[r][k] = "failed"
    BY <1>8 DEF MarkPending, Working
  <2>2. CASE UNCHANGED table
    BY <1>3, <2>1, <2>2
  <2>3. CASE Exists(k) /\ table' = [table EXCEPT ![k].status = "pending", ![k].waiting = TRUE]
    BY <1>2, <2>1, <2>3, EndSteps DEF Requeued
  <2> QED
    BY <1>8, <2>2, <2>3 DEF MarkPending
<1> QED
  BY <1>5, <1>6, <1>7, <1>8

(* processScaleJob *)
LEMMA ScaleSteps ==
  ASSUME JobTypes, OneWorker, NEW r \in Runners, NEW k \in Jobs, RunScale(r, k)
  PROVE  /\ StepsOfJobs
         /\ work[r][k] = "process" /\ table[k].type = "scale"
         /\ scaled' # scaled =>
              /\ scaled' = [scaled EXCEPT ![table[k].pool][table[k].window] = @ + 1]
              /\ work'[r][k] = "none" /\ RowKept(k)
         /\ \A j \in Jobs : Stays(j) \/ Born(j, "setup") \/ Fails(r, j)
<1>1. /\ work[r][k] = "process" /\ table[k].type = "scale" /\ UNCHANGED made
      /\ table[k].status # "unborn"
  BY DEF RunScale, Working, OneWorker
<1>2. "none" \in WorkPC /\ "failed" \in WorkPC
  BY DEF WorkPC
<1>3. CASE WorkTo(r, k, "failed") /\ UNCHANGED <<table, scaled>>
  <2>1. \A j \in Jobs : j # k => Stays(j)
    BY <1>1, <1>2, <1>3, MoveSteps DEF Stays
  <2>2. Fails(r, k)
    BY <1>1, <1>2, <1>3, MoveSteps DEF Fails
  <2>3. JobTypes'
    BY <1>1, <1>2, <1>3, MoveSteps DEF JobTypes
  <2> QED
    BY <1>1, <1>3, <2>1, <2>2, <2>3 DEF StepsOfJobs, JobStep
<1>4. ASSUME NEW new \in SUBSET {j \in Jobs : table[j].status = "unborn"},
             table' = [j \in Jobs |-> IF j \in new THEN SetupRow(AnyRunner) ELSE table[j]],
             scaled' = [scaled EXCEPT ![table[k].pool][table[k].window] = @ + 1],
             WorkTo(r, k, "none")
      PROVE  /\ JobTypes' /\ \A j \in Jobs : Stays(j) \/ Born(j, "setup")
             /\ work'[r][k] = "none" /\ RowKept(k)
  <2>1. /\ work' \in [Runners -> [Jobs -> WorkPC]]
        /\ \A j \in Jobs : WorkEnds(j)
        /\ work'[r][k] = "none"
    BY <1>2, <1>4 DEF WorkTo, WorkEnds, JobTypes
  <2>2. table' \in [Jobs -> Row]
    BY <1>4, NewRows DEF JobTypes
  <2>3. \A j \in Jobs : j \notin new => Stays(j)
    BY <1>1, <1>4, <2>1, KeptRow DEF Stays
  <2>4. \A j \in new : Born(j, "setup")
    BY <1>1, <1>4, <2>1, <2>2, NewRows DEF Born, JobTypes
  <2> QED
    BY <1>1, <1>4, <2>1, <2>2, <2>3, <2>4, KeptRow DEF JobTypes
<1> QED
  BY <1>1, <1>3, <1>4 DEF RunScale, StepsOfJobs, JobStep

(* The hourly clean-up, retryInterval and the clock. *)
LEMMA TableSteps ==
  ASSUME JobTypes, CleanupOldJobs \/ NextWindow \/ \E k \in Jobs : RetryDue(k)
  PROVE  StepsOfJobs
<1>1. UNCHANGED <<work, made>>
  BY DEF CleanupOldJobs, NextWindow, RetryDue
<1>2. \A j \in Jobs : WorkEnds(j) /\ made'[j] = made[j]
  BY <1>1 DEF WorkEnds
<1>3. \A j \in Jobs : table[j] \in Row
  BY DEF JobTypes
<1>4. CASE CleanupOldJobs
  <2>1. ASSUME NEW j \in Jobs
        PROVE  table'[j] \in Row /\ (AgedOut(j) \/ Stays(j))
    <3>1. CASE j \in Old
      <4>1. Exists(j) /\ table[j].age = MaxAge
        BY <3>1 DEF Old
      <4>2. table'[j] = [table[j] EXCEPT !.status = "deleted"]
        BY <1>4, <3>1 DEF CleanupOldJobs
      <4>3. GoneTo(j, "deleted")
        BY <1>3, <4>2, RowWrites DEF GoneTo, Status
      <4> QED
        BY <1>2, <4>1, <4>3 DEF AgedOut, GoneTo, Rewritten
    <3>2. CASE j \notin Old
      BY <1>2, <1>3, <1>4, <3>2, KeptRow DEF CleanupOldJobs, Stays
    <3> QED
      BY <3>1, <3>2
  <2> QED
    BY <1>1, <1>4, <2>1 DEF CleanupOldJobs, StepsOfJobs, JobStep, JobTypes
<1>5. CASE NextWindow
  <2>1. ASSUME NEW j \in Jobs
        PROVE  table'[j] \in Row /\ (Ages(j) \/ Stays(j))
    <3>1. CASE Exists(j) /\ table[j].age < MaxAge
      <4>1. table'[j] = [table[j] EXCEPT !.age = @ + 1]
        BY <1>5, <3>1 DEF NextWindow
      <4>2. Rewritten(table'[j], table[j], table[j].status, table[j].tries, table[j].age + 1)
        BY <1>3, <3>1, <4>1, RowWrites, ZenonT(40) DEF Row
      <4> QED
        BY <1>2, <1>5, <3>1, <4>2 DEF Ages, Rewritten
    <3>2. CASE ~(Exists(j) /\ table[j].age < MaxAge)
      BY <1>2, <1>3, <1>5, <3>2, KeptRow DEF NextWindow, Stays
    <3> QED
      BY <3>1, <3>2
  <2> QED
    BY <1>1, <1>5, <2>1 DEF NextWindow, StepsOfJobs, JobStep, JobTypes
<1>6. ASSUME NEW k \in Jobs, RetryDue(k)
      PROVE  StepsOfJobs
  <2>1. table' = [table EXCEPT ![k] = [table[k] EXCEPT !.waiting = FALSE]]
    BY <1>6 DEF RetryDue
  <2>2. Rewritten([table[k] EXCEPT !.waiting = FALSE], table[k],
                  table[k].status, table[k].tries, table[k].age)
    BY <1>3, RowWrites, "pending" \in Status DEF Status
  <2>3. RowKept(k)
    BY <2>1, <2>2 DEF RowKept, JobTypes
  <2>4. \A j \in Jobs : j # k => RowKept(j)
    BY <2>1, KeptRow DEF JobTypes
  <2>5. table' \in [Jobs -> Row]
    BY <2>1, <2>3 DEF RowKept, Rewritten, JobTypes
  <2> QED
    BY <1>1, <1>2, <2>3, <2>4, <2>5 DEF StepsOfJobs, JobStep, Stays, JobTypes
<1> QED
  BY <1>4, <1>5, <1>6

(* A runner gives up what it works on. *)
LEMMA StopSteps ==
  ASSUME JobTypes, NEW r \in Runners, ClaimGlobalFails(r) \/ Crash(r)
  PROVE  StepsOfJobs
<1>1. UNCHANGED <<table, made>> /\ work' = [work EXCEPT ![r] = [j \in Jobs |-> "none"]]
  BY DEF ClaimGlobalFails, Crash
<1>2. work' \in [Runners -> [Jobs -> WorkPC]] /\ \A j \in Jobs : WorkEnds(j)
  BY <1>1 DEF JobTypes, WorkPC, WorkEnds
<1> QED
  BY <1>1, <1>2, KeptRow DEF StepsOfJobs, JobStep, Stays, JobTypes

(* Every step is one of those kinds for every job. *)
LEMMA EveryJobSteps ==
  ASSUME JobTypes, OneWorker, Attempts, WindowsBehind, [Next]_vars
  PROVE  StepsOfJobs
<1>1. CASE UNCHANGED <<table, work, made>>
  BY <1>1, NoJobStep
<1>2. ASSUME NEW r \in Runners, NEW j \in Jobs, SetupInstanceAsync(r, j)
      PROVE  StepsOfJobs
  BY <1>2, AsyncSteps
<1>3. ASSUME NEW r \in Runners, TriggerStart(r) \/ TriggerStep(r)
      PROVE  StepsOfJobs
  <2>1. UNCHANGED <<work, made>>
    BY <1>3 DEF TriggerStart, TriggerStep, TriggerCreate, TriggerDone, TriggerFind, TriggerOnly
  <2>2. CASE TriggerCreate(r) /\ table' # table
    <3>1. JobTypes' /\ \E k \in Jobs : CreatedBy(r, k)
      BY <2>2, CreateSteps
    <3>2. PICK k \in Jobs : CreatedBy(r, k)
      BY <3>1
    <3>3. \A j \in Jobs : j # k => Stays(j)
      BY <3>2 DEF CreatedBy
    <3> QED
      BY <3>1, <3>2, <3>3 DEF StepsOfJobs, JobStep
  <2>3. CASE ~TriggerCreate(r) \/ table' = table
    <3>1. table' = table
      BY <1>3, <2>3 DEF TriggerStart, TriggerStep, TriggerDone, TriggerFind
    <3> QED
      BY <1>1, <2>1, <3>1
  <2> QED
    BY <2>2, <2>3
<1>4. ASSUME NEW r \in Runners, Process(r)
      PROVE  StepsOfJobs
  <2>1. ASSUME NEW batch \in SUBSET Jobs, ClaimOwn(r, batch) \/ ClaimGlobal(r, batch)
        PROVE  StepsOfJobs
    <3>1. FindAndClaimPending(r, batch, r) \/ FindAndClaimPending(r, batch, AnyRunner)
      BY <2>1 DEF ClaimOwn, ClaimGlobal
    <3>2. UNCHANGED made
      BY <2>1 DEF ClaimOwn, ClaimGlobal
    <3> QED
      BY <3>1, <3>2, ClaimSteps
  <2>2. CASE ClaimGlobalFails(r)
    BY <2>2, StopSteps
  <2>3. CASE ProcessDone(r)
    BY <1>1, <2>3 DEF ProcessDone
  <2>4. ASSUME NEW j \in Jobs, DropExhausted(r, j) \/ RunSetup(r, j) \/ DeleteDone(r, j)
                                 \/ MarkPending(r, j)
        PROVE  StepsOfJobs
    BY <2>4, GoroutineSteps
  <2>5. ASSUME NEW j \in Jobs, RunScale(r, j)
        PROVE  StepsOfJobs
    BY <2>5, ScaleSteps
  <2> QED
    BY <1>4, <2>1, <2>2, <2>3, <2>4, <2>5 DEF Process
<1>5. ASSUME NEW r \in Runners, Crash(r)
      PROVE  StepsOfJobs
  BY <1>5, StopSteps
<1>6. CASE CleanupOldJobs \/ NextWindow \/ \E k \in Jobs : RetryDue(k)
  BY <1>6, TableSteps
<1>7. CASE EnterLead
  BY <1>1, <1>7 DEF EnterLead
<1>8. CASE UNCHANGED vars
  BY <1>1, <1>8 DEF vars
<1> QED
  BY <1>2, <1>3, <1>4, <1>5, <1>6, <1>7, <1>8 DEF Next

-----------------------------------------------------------------------------
(* The invariants of one job. *)
JobInv(j) ==
  /\ \A r \in Runners : work[r][j] # "none" =>
       /\ table[j].status \in {"running", "deleted"}
       /\ \A t \in Runners : work[t][j] # "none" => t = r
       /\ work[r][j] = "exhausted" => table[j].tries > MaxRetries
       /\ work[r][j] \in {"process", "done", "failed"} => table[j].tries <= MaxRetries
       /\ work[r][j] = "process" => made[j] < table[j].tries
       /\ work[r][j] = "done" => made[j] > 0 /\ table[j].type = "setup"
  /\ table[j].status = "unborn" => table[j].tries = 0 /\ made[j] = 0
  /\ table[j].status = "pending" => table[j].tries <= MaxRetries
  /\ made[j] <= table[j].tries /\ made[j] <= MaxRetries
  /\ table[j].status = "deleted" /\ table[j].type = "setup" =>
       made[j] > 0 \/ table[j].tries > MaxRetries \/ table[j].age = MaxAge

(* They are the invariants of the module, job by job. *)
LEMMA JobInvIs ==
  (\A j \in Jobs : JobInv(j)) <=> OneWorker /\ Attempts /\ OneVMPerTry /\ DroppedForCause
<1>1. ASSUME \A j \in Jobs : JobInv(j)
      PROVE  OneWorker /\ Attempts /\ OneVMPerTry /\ DroppedForCause
  BY <1>1 DEF JobInv, OneWorker, Attempts, OneVMPerTry, DroppedForCause
<1>2. ASSUME OneWorker, Attempts, OneVMPerTry, DroppedForCause, NEW j \in Jobs
      PROVE  JobInv(j)
  BY <1>2 DEF JobInv, OneWorker, Attempts, OneVMPerTry, DroppedForCause
<1> QED
  BY <1>1, <1>2

(* Every kind of step keeps them. *)
LEMMA JobInvStep ==
  ASSUME JobTypes, JobTypes', NEW j \in Jobs, JobInv(j), JobStep(j)
  PROVE  JobInv(j)'
<1>1. /\ table[j].tries \in 0 .. (MaxRetries + 1) /\ made[j] \in Nat
      /\ table[j].age \in 0 .. MaxAge
  BY RowFields DEF JobTypes
<1>2. MaxRetries \in Nat /\ MaxAge \in Nat
  BY LimitAssumption
<1>3. CASE Stays(j)
  BY <1>1, <1>2, <1>3 DEF Stays, RowKept, Rewritten, WorkEnds, JobInv
<1>4. CASE Ages(j)
  BY <1>1, <1>2, <1>4 DEF Ages, Exists, Rewritten, WorkEnds, JobInv
<1>5. CASE Born(j, "setup") \/ \E r \in Runners : CreatedBy(r, j)
  <2> USE DEF CreatedBy
  <2>1. \A r \in Runners : work'[r][j] = "none"
    BY <1>5 DEF Born, WorkEnds, JobInv
  <2> QED
    BY <1>1, <1>2, <1>5, <2>1 DEF Born, JobInv
<1>6. CASE AgedOut(j)
  BY <1>1, <1>2, <1>6 DEF AgedOut, Exists, GoneTo, Rewritten, WorkEnds, JobInv
<1>7. ASSUME NEW r \in Runners, Claimed(r, j)
      PROVE  JobInv(j)'
  <2>1. \A t \in Runners : t # r => work'[t][j] = "none"
    BY <1>7 DEF Claimed, JobInv
  <2>2. /\ table'[j].status = "running" /\ table'[j].tries = table[j].tries + 1
        /\ table'[j].type = table[j].type /\ made'[j] = made[j]
        /\ work'[r][j] = IF table[j].tries + 1 > MaxRetries THEN "exhausted" ELSE "process"
    BY <1>7 DEF Claimed, Rewritten
  <2> QED
    BY <1>1, <1>2, <2>1, <2>2 DEF JobInv
<1>8. ASSUME NEW r \in Runners,
             Dropped(r, j) \/ Made(r, j) \/ Fails(r, j) \/ Completed(r, j) \/ Requeued(r, j)
      PROVE  JobInv(j)'
  <2>1. /\ work[r][j] # "none"
        /\ \A t \in Runners : t # r => work[t][j] = "none"
        /\ \A t \in Runners : t # r => work'[t][j] = "none"
    BY <1>8 DEF Dropped, Made, Fails, Completed, Requeued, WorkMoves, JobInv
  <2>2. CASE Dropped(r, j)
    BY <1>1, <1>2, <2>1, <2>2 DEF Dropped, GoneTo, Rewritten, WorkMoves, JobInv
  <2>3. CASE Made(r, j)
    BY <1>1, <1>2, <2>1, <2>3 DEF Made, RowKept, Rewritten, WorkMoves, JobInv
  <2>4. CASE Fails(r, j)
    BY <1>1, <1>2, <2>1, <2>4 DEF Fails, RowKept, Rewritten, WorkMoves, JobInv
  <2>5. CASE Completed(r, j)
    BY <1>1, <1>2, <2>1, <2>5 DEF Completed, GoneTo, Rewritten, WorkMoves, JobInv
  <2>6. CASE Requeued(r, j)
    BY <1>1, <1>2, <2>1, <2>6 DEF Requeued, GoneTo, Rewritten, WorkMoves, JobInv
  <2> QED
    BY <1>8, <2>2, <2>3, <2>4, <2>5, <2>6
<1> QED
  BY <1>3, <1>4, <1>5, <1>6, <1>7, <1>8 DEF JobStep

-----------------------------------------------------------------------------
(* The rest of the types. *)

(* The windows, the runners and the counters keep their types. *)
LEMMA OtherTypes ==
  ASSUME TypeOK, [Next]_vars, JobTypes'
  PROVE  TypeOK'
<1> USE LimitAssumption DEF TypeOK, JobTypes, Windows
<1> DEFINE Trig == [pc: {"idle", "find", "create"}, todo: SUBSET Pools,
                    pool: Pools \cup {NoPool}, window: Windows \cup {0}]
<1>1. Idle \in Trig
  BY DEF Idle
<1>2. ASSUME NEW r \in Runners, TriggerStart(r) \/ TriggerStep(r)
      PROVE  TypeOK'
  <2>1. UNCHANGED <<phase, window, inLead, scaled>>
    BY <1>2 DEF TriggerStart, TriggerStep, TriggerCreate, TriggerDone, TriggerFind, TriggerOnly
  <2>2. trigger[r] \in Trig
    OBVIOUS
  <2>3. trigger' \in [Runners -> Trig]
    <3>1. CASE TriggerStart(r)
      BY <1>1, <3>1 DEF TriggerStart, Idle
    <3>2. CASE TriggerCreate(r)
      BY <2>2, <3>2 DEF TriggerCreate
    <3>3. CASE TriggerDone(r)
      BY <1>1, <3>3 DEF TriggerDone
    <3>4. ASSUME NEW p \in Pools, TriggerFind(r, p)
          PROVE  trigger' \in [Runners -> Trig]
      <4>1. /\ [trigger[r] EXCEPT !.pc = "create", !.pool = p] \in Trig
            /\ [trigger[r] EXCEPT !.todo = @ \ {p}] \in Trig
        BY <2>2
      <4>2. \/ trigger' = [trigger EXCEPT ![r] = [trigger[r] EXCEPT !.pc = "create", !.pool = p]]
            \/ trigger' = [trigger EXCEPT ![r] = [trigger[r] EXCEPT !.todo = @ \ {p}]]
        BY <3>4 DEF TriggerFind
      <4> QED
        BY <4>1, <4>2
    <3> QED
      BY <1>2, <3>1, <3>2, <3>3, <3>4 DEF TriggerStep
  <2>4. lastWindowKey' \in [Runners -> Windows \cup {0}]
    BY <1>2, <2>2 DEF TriggerStart, TriggerStep, TriggerCreate, TriggerDone, TriggerFind
  <2> QED
    BY <2>1, <2>3, <2>4
<1>3. ASSUME NEW r \in Runners, Process(r)
      PROVE  TypeOK'
  <2>1. UNCHANGED <<trigger, lastWindowKey, window, inLead>>
    BY <1>3 DEF Process, ClaimOwn, ClaimGlobal, ClaimGlobalFails, ProcessDone, DropExhausted,
                RunSetup, RunScale, DeleteDone, MarkPending, ProcessOnly
  <2>2. phase' \in [Runners -> {"idle", "claiming", "working"}]
    BY <1>3 DEF Process, ClaimOwn, ClaimGlobal, ClaimGlobalFails, ProcessDone, DropExhausted,
                RunSetup, RunScale, DeleteDone, MarkPending
  <2>3. scaled' \in [Pools -> [Windows -> Nat]]
    <3>1. CASE UNCHANGED scaled
      BY <3>1
    <3>2. ASSUME NEW p, NEW w, scaled' = [scaled EXCEPT ![p][w] = @ + 1]
          PROVE  scaled' \in [Pools -> [Windows -> Nat]]
      <4>1. ASSUME p \in Pools
            PROVE  [scaled[p] EXCEPT ![w] = @ + 1] \in [Windows -> Nat]
        <5>1. scaled[p] \in [Windows -> Nat]
          BY <4>1
        <5>2. w \in Windows => scaled[p][w] + 1 \in Nat
          BY <5>1
        <5> QED
          BY <5>1, <5>2
      <4> QED
        BY <3>2, <4>1
    <3> QED
      BY <1>3, <3>1, <3>2 DEF Process, ClaimOwn, ClaimGlobal, ClaimGlobalFails, ProcessDone,
                              DropExhausted, RunSetup, RunScale, DeleteDone, MarkPending
  <2> QED
    BY <2>1, <2>2, <2>3
<1>4. ASSUME NEW r \in Runners, Crash(r)
      PROVE  TypeOK'
  BY <1>1, <1>4 DEF Crash
<1>5. CASE \E r \in Runners, j \in Jobs : SetupInstanceAsync(r, j)
  BY <1>5 DEF SetupInstanceAsync
<1>6. CASE \E j \in Jobs : RetryDue(j)
  BY <1>6 DEF RetryDue
<1>7. CASE CleanupOldJobs
  BY <1>7 DEF CleanupOldJobs
<1>8. CASE EnterLead
  BY <1>8 DEF EnterLead
<1>9. CASE NextWindow
  <2>1. window' \in Windows
    BY <1>9 DEF NextWindow
  <2>2. inLead' \in BOOLEAN /\ UNCHANGED <<phase, work, trigger, lastWindowKey, made, scaled>>
    BY <1>9 DEF NextWindow
  <2> QED
    BY <2>1, <2>2
<1>10. CASE UNCHANGED vars
  BY <1>10 DEF vars
<1> QED
  BY <1>2, <1>3, <1>4, <1>5, <1>6, <1>7, <1>8, <1>9, <1>10 DEF Next

-----------------------------------------------------------------------------
(* The windows of the triggers and of the scale jobs. *)

(* A scale job is the same job ever after. *)
LEMMA ScaleJobKept ==
  ASSUME JobTypes, OneWorker, NEW j \in Jobs, JobStep(j), ScaleJob(j)'
  PROVE  \/ \E r \in Runners : CreatedBy(r, j)
         \/ /\ ScaleJob(j)
            /\ table'[j].pool = table[j].pool /\ table'[j].window = table[j].window
            /\ (table'[j].age = table[j].age \/ Ages(j))
            /\ table'[j].tries >= table[j].tries
<1>1. table[j].tries \in 0 .. (MaxRetries + 1) /\ table[j].status \in Status
  BY RowFields DEF JobTypes
<1>2. table[j].tries \in Nat
  BY <1>1, LimitAssumption
<1>3. CASE Stays(j) \/ AgedOut(j)
  BY <1>2, <1>3 DEF Stays, RowKept, AgedOut, Exists, GoneTo, Rewritten, ScaleJob
<1>4. CASE Ages(j)
  BY <1>2, <1>4 DEF Ages, Rewritten, ScaleJob, Exists
<1>5. CASE Born(j, "setup")
  BY <1>5 DEF Born, ScaleJob
<1>6. ASSUME NEW r \in Runners, Claimed(r, j)
      PROVE  /\ ScaleJob(j)
             /\ table'[j].pool = table[j].pool /\ table'[j].window = table[j].window
             /\ table'[j].age = table[j].age
             /\ table'[j].tries >= table[j].tries
  BY <1>2, <1>6 DEF Claimed, Rewritten, ScaleJob
<1>7. ASSUME NEW r \in Runners,
             Dropped(r, j) \/ Made(r, j) \/ Fails(r, j) \/ Completed(r, j) \/ Requeued(r, j)
      PROVE  /\ ScaleJob(j)
             /\ table'[j].pool = table[j].pool /\ table'[j].window = table[j].window
             /\ table'[j].age = table[j].age
             /\ table'[j].tries >= table[j].tries
  <2>1. table[j].status # "unborn"
    BY <1>7 DEF Dropped, Made, Fails, Completed, Requeued, WorkMoves, OneWorker
  <2> QED
    BY <1>2, <1>7, <2>1 DEF Dropped, Made, Fails, Completed, Requeued, RowKept, GoneTo,
                            Rewritten, ScaleJob
<1> QED
  BY <1>3, <1>4, <1>5, <1>6, <1>7 DEF JobStep

(* The clock and the triggers. *)
LEMMA ClockSteps ==
  ASSUME TypeOK, WindowsBehind, [Next]_vars
  PROVE  /\ window' >= window
         /\ inLead' => window' <= MaxWindow
         /\ \A r \in Runners : Active(r)' =>
              /\ \/ Active(r) /\ trigger'[r].window = trigger[r].window
                 \/ trigger'[r].window = window /\ inLead /\ window' = window
              /\ trigger'[r].pc = "create" => trigger'[r].pool \in Pools
<1> USE DEF TypeOK
<1>1. MaxWindow \in Nat /\ window \in 1 .. (MaxWindow + 1)
  BY LimitAssumption DEF Windows
<1>2. CASE UNCHANGED <<trigger, window, inLead>>
  BY <1>1, <1>2 DEF WindowsBehind, Active
<1>3. ASSUME NEW r \in Runners, TriggerStart(r)
      PROVE  /\ UNCHANGED <<window, inLead>> /\ inLead
             /\ trigger'[r].pc = "find" /\ trigger'[r].window = window
             /\ \A t \in Runners : t # r => trigger'[t] = trigger[t]
  BY <1>3 DEF TriggerStart, TriggerOnly, Idle
<1>4. ASSUME NEW r \in Runners, TriggerStep(r)
      PROVE  /\ UNCHANGED <<window, inLead>>
             /\ \A t \in Runners : t # r => trigger'[t] = trigger[t]
             /\ \/ trigger'[r].pc = "idle"
                \/ /\ Active(r) /\ trigger'[r].window = trigger[r].window
                   /\ trigger'[r].pc = "create" => trigger'[r].pool \in Pools
  <2>1. UNCHANGED <<window, inLead>>
    BY <1>4 DEF TriggerStep, TriggerCreate, TriggerDone, TriggerFind, TriggerOnly
  <2>2. CASE TriggerCreate(r)
    BY <2>1, <2>2 DEF TriggerCreate, Active
  <2>3. CASE TriggerDone(r)
    BY <2>1, <2>3 DEF TriggerDone, Idle
  <2>4. ASSUME NEW p \in Pools, TriggerFind(r, p)
        PROVE  /\ \A t \in Runners : t # r => trigger'[t] = trigger[t]
               /\ Active(r) /\ trigger'[r].window = trigger[r].window
               /\ trigger'[r].pc = "create" => trigger'[r].pool \in Pools
    <3>1. trigger[r].pc = "find"
      BY <2>4 DEF TriggerFind
    <3>2. CASE trigger' = [trigger EXCEPT ![r].pc = "create", ![r].pool = p]
      BY <3>1, <3>2 DEF Active
    <3>3. CASE trigger' = [trigger EXCEPT ![r].todo = @ \ {p}]
      BY <3>1, <3>3 DEF Active
    <3> QED
      BY <2>4, <3>2, <3>3 DEF TriggerFind
  <2> QED
    BY <1>4, <2>1, <2>2, <2>3, <2>4 DEF TriggerStep
<1>5. ASSUME NEW r \in Runners, Process(r)
      PROVE  UNCHANGED <<trigger, window, inLead>>
  BY <1>5 DEF Process, ClaimOwn, ClaimGlobal, ClaimGlobalFails, ProcessDone, DropExhausted,
              RunSetup, RunScale, DeleteDone, MarkPending, ProcessOnly
<1>6. ASSUME NEW r \in Runners, Crash(r)
      PROVE  /\ UNCHANGED <<window, inLead>> /\ trigger'[r].pc = "idle"
             /\ \A t \in Runners : t # r => trigger'[t] = trigger[t]
  BY <1>6 DEF Crash, Idle
<1>7. CASE EnterLead
  BY <1>1, <1>7 DEF EnterLead, WindowsBehind, Active
<1>8. CASE NextWindow
  BY <1>1, <1>8 DEF NextWindow, WindowsBehind, Active
<1>9. ASSUME \E r \in Runners, j \in Jobs : SetupInstanceAsync(r, j)
      PROVE  UNCHANGED <<trigger, window, inLead>>
  BY <1>9 DEF SetupInstanceAsync
<1>10. ASSUME CleanupOldJobs \/ (\E j \in Jobs : RetryDue(j)) \/ UNCHANGED vars
       PROVE  UNCHANGED <<trigger, window, inLead>>
  BY <1>10 DEF RetryDue, CleanupOldJobs, vars
<1>11. ASSUME NEW r \in Runners, TriggerStart(r) \/ TriggerStep(r) \/ Crash(r)
       PROVE  /\ window' >= window
              /\ inLead' => window' <= MaxWindow
              /\ \A t \in Runners : Active(t)' =>
                   /\ \/ Active(t) /\ trigger'[t].window = trigger[t].window
                      \/ trigger'[t].window = window /\ inLead /\ window' = window
                   /\ trigger'[t].pc = "create" => trigger'[t].pool \in Pools
  <2>1. UNCHANGED <<window, inLead>> /\ \A t \in Runners : t # r => trigger'[t] = trigger[t]
    BY <1>3, <1>4, <1>6, <1>11
  <2>2. \/ trigger'[r].pc = "idle"
        \/ trigger'[r].pc = "find" /\ trigger'[r].window = window /\ inLead
        \/ /\ Active(r) /\ trigger'[r].window = trigger[r].window
           /\ trigger'[r].pc = "create" => trigger'[r].pool \in Pools
    BY <1>3, <1>4, <1>6, <1>11
  <2>3. ASSUME NEW t \in Runners, Active(t)'
        PROVE  /\ \/ Active(t) /\ trigger'[t].window = trigger[t].window
                  \/ trigger'[t].window = window /\ inLead /\ window' = window
               /\ trigger'[t].pc = "create" => trigger'[t].pool \in Pools
    <3>1. CASE t # r
      BY <2>1, <2>3, <3>1 DEF WindowsBehind, Active
    <3>2. CASE t = r
      BY <2>1, <2>2, <2>3, <3>2 DEF Active
    <3> QED
      BY <3>1, <3>2
  <2> QED
    BY <1>1, <2>1, <2>3 DEF WindowsBehind
<1> QED
  BY <1>2, <1>5, <1>7, <1>8, <1>9, <1>10, <1>11 DEF Next

(* So the windows stay where they are. *)
LEMMA WindowsStep ==
  ASSUME TypeOK, OneWorker, WindowsBehind, StepsOfJobs, [Next]_vars
  PROVE  WindowsBehind'
<1>1. JobTypes
  BY DEF TypeOK, JobTypes
<1>2. MaxWindow \in Nat /\ window \in 1 .. (MaxWindow + 1) /\ window' \in Int
  <2>1. TypeOK'
    BY OtherTypes DEF StepsOfJobs
  <2> QED
    BY <2>1, LimitAssumption DEF TypeOK, Windows
<1>3. inLead' => window' <= MaxWindow
  BY ClockSteps
<1>4. ASSUME NEW r \in Runners, Active(r)'
      PROVE  /\ trigger'[r].window \in 1 .. MaxWindow /\ trigger'[r].window <= window'
             /\ trigger'[r].pc = "create" => trigger'[r].pool \in Pools
  BY <1>2, <1>4, ClockSteps DEF WindowsBehind
<1>5. ASSUME NEW j \in Jobs, ScaleJob(j)'
      PROVE  /\ table'[j].pool \in Pools /\ table'[j].window \in 1 .. MaxWindow
             /\ table'[j].window <= window'
             /\ table'[j].age >= 1 => table'[j].window < window'
             /\ table'[j].age >= 2 =>
                  \A r \in Runners : Active(r)' => trigger'[r].window # table'[j].window
  <2>1. CASE \E r \in Runners : CreatedBy(r, j)
    BY <1>2, <2>1 DEF CreatedBy, Born, TriggerCreate, TriggerOnly
  <2>2. CASE /\ ScaleJob(j) /\ table'[j].age = table[j].age
             /\ table'[j].pool = table[j].pool /\ table'[j].window = table[j].window
    <3>1. /\ table[j].pool \in Pools /\ table[j].window \in 1 .. MaxWindow
          /\ table[j].window <= window
          /\ table[j].age >= 1 => table[j].window < window
          /\ table[j].age >= 2 => \A r \in Runners : Active(r) => trigger[r].window # table[j].window
      BY <2>2 DEF WindowsBehind
    <3>2. /\ window' >= window
          /\ \A r \in Runners : Active(r)' =>
               \/ Active(r) /\ trigger'[r].window = trigger[r].window
               \/ trigger'[r].window = window
      BY ClockSteps
    <3>3. table[j].age \in Nat
      BY <1>1, RowFields, LimitAssumption DEF JobTypes
    <3> QED
      BY <1>2, <2>2, <3>1, <3>2, <3>3
  <2>3. CASE /\ ScaleJob(j) /\ Ages(j)
             /\ table'[j].pool = table[j].pool /\ table'[j].window = table[j].window
    <3>1. /\ table'[j].age = table[j].age + 1
          /\ window' = IF window <= MaxWindow THEN window + 1 ELSE window
          /\ UNCHANGED trigger
          /\ \A r \in Runners : Active(r) => trigger[r].window = window
      BY <2>3 DEF Ages, Rewritten, NextWindow, Active
    <3>2. /\ table[j].pool \in Pools /\ table[j].window \in 1 .. MaxWindow
          /\ table[j].window <= window /\ (table[j].age >= 1 => table[j].window < window)
      BY <2>3 DEF WindowsBehind
    <3>3. table[j].age \in Nat
      BY <1>1, RowFields, LimitAssumption DEF JobTypes
    <3> QED
      BY <1>2, <2>3, <3>1, <3>2, <3>3 DEF Active
  <2> QED
    BY <1>1, <1>5, <2>1, <2>2, <2>3, ScaleJobKept DEF StepsOfJobs
<1> QED
  BY <1>3, <1>4, <1>5 DEF WindowsBehind

-----------------------------------------------------------------------------
(* One job scales a window. *)

(* A job that is deleted was deleted before, or for cause. *)
LEMMA ScaleJobGone ==
  ASSUME JobTypes, NEW j \in Jobs, JobInv(j), JobStep(j), ScaleJob(j)',
         table'[j].status = "deleted"
  PROVE  \/ ScaleJob(j) /\ table[j].status = "deleted" /\ RowKept(j)
         \/ table'[j].age = MaxAge
         \/ table'[j].tries > MaxRetries
<1>1. CASE Stays(j)
  BY <1>1 DEF Stays, RowKept, Rewritten, ScaleJob
<1>2. CASE Ages(j) \/ AgedOut(j)
  BY <1>2 DEF Ages, AgedOut, GoneTo, Exists, Rewritten
<1>3. CASE Born(j, "setup")
  BY <1>3 DEF Born
<1>4. ASSUME NEW r \in Runners, CreatedBy(r, j) \/ Claimed(r, j) \/ Requeued(r, j)
      PROVE  FALSE
  BY <1>4 DEF CreatedBy, Born, Claimed, Requeued, GoneTo, Rewritten
<1>5. ASSUME NEW r \in Runners, Made(r, j) \/ Fails(r, j)
      PROVE  ScaleJob(j) /\ table[j].status = "deleted" /\ RowKept(j)
  BY <1>5 DEF Made, Fails, RowKept, Rewritten, ScaleJob
<1>6. ASSUME NEW r \in Runners, Dropped(r, j)
      PROVE  table'[j].tries > MaxRetries
  BY <1>6 DEF Dropped, GoneTo, Rewritten, WorkMoves, JobInv
<1>7. ASSUME NEW r \in Runners, Completed(r, j)
      PROVE  FALSE
  BY <1>7 DEF Completed, GoneTo, Rewritten, WorkMoves, JobInv, ScaleJob
<1> QED
  BY <1>1, <1>2, <1>3, <1>4, <1>5, <1>6, <1>7 DEF JobStep

(* Nothing touches a job that was given up. *)
LEMMA GivenUpKept ==
  ASSUME JobTypes, NEW j \in Jobs, JobInv(j), JobStep(j), GivenUp(j)
  PROVE  GivenUp(j)'
<1>1. \A r \in Runners : work[r][j] \in {"none", "exhausted"}
  <2>1. table[j].tries \in 0 .. (MaxRetries + 1) /\ MaxRetries \in Nat
    BY RowFields, LimitAssumption DEF JobTypes
  <2> QED
    BY <2>1 DEF JobInv, GivenUp, JobTypes, WorkPC
<1>2. CASE Stays(j) \/ Ages(j) \/ AgedOut(j)
  BY <1>2 DEF Stays, Ages, AgedOut, GoneTo, Exists, RowKept, Rewritten, GivenUp
<1>3. CASE Born(j, "setup")
  BY <1>3 DEF Born, GivenUp
<1>4. ASSUME NEW r \in Runners
      PROVE  ~(CreatedBy(r, j) \/ Claimed(r, j) \/ Requeued(r, j))
  BY DEF CreatedBy, Born, Claimed, Requeued, Exists, GivenUp
<1>5. ASSUME NEW r \in Runners
      PROVE  ~(Made(r, j) \/ Fails(r, j) \/ Completed(r, j))
  BY <1>1 DEF Made, Fails, Completed, WorkMoves
<1>6. ASSUME NEW r \in Runners, Dropped(r, j)
      PROVE  GivenUp(j)'
  BY <1>6 DEF Dropped, GoneTo, Rewritten, GivenUp
<1> QED
  BY <1>2, <1>3, <1>4, <1>5, <1>6 DEF JobStep

(* Of two jobs for one pool and window one was given up. *)
LEMMA OneScaleJobStep ==
  ASSUME TypeOK, OneWorker, WindowsBehind, OneScaleJob, StepsOfJobs,
         \A j \in Jobs : JobInv(j), [Next]_vars
  PROVE  OneScaleJob'
<1>1. JobTypes
  BY DEF TypeOK, JobTypes
<1>2. ASSUME NEW j \in Jobs, ScaleJob(j)', table'[j].status = "deleted"
      PROVE  table'[j].age = MaxAge \/ table'[j].tries > MaxRetries
  <2>1. CASE ScaleJob(j) /\ table[j].status = "deleted" /\ RowKept(j)
    BY <2>1 DEF OneScaleJob, RowKept, Rewritten
  <2> QED
    BY <1>1, <1>2, <2>1, ScaleJobGone DEF StepsOfJobs
<1>3. ASSUME NEW j \in Jobs, NEW k \in Jobs, SameScale(j, k)', j # k,
             NEW r \in Runners, CreatedBy(r, k)
      PROVE  GivenUp(j)'
  <2>1. Stays(j)
    BY <1>3 DEF CreatedBy
  <2>2. /\ ScaleJob(j) /\ table[j].pool = trigger[r].pool /\ table[j].window = trigger[r].window
        /\ table'[j].status = table[j].status /\ table'[j].tries = table[j].tries
    BY <1>3, <2>1 DEF Stays, RowKept, Rewritten, CreatedBy, SameScale, ScaleJob
  <2>3. table[j].status = "deleted"
    <3>1. ~Exists(j)
      BY <1>3, <2>2 DEF CreatedBy, ScaleJobs, ScaleJob
    <3> QED
      BY <1>1, <2>2, <3>1, RowFields DEF JobTypes, Exists, Status, ScaleJob
  <2>4. table[j].age # MaxAge
    <3>1. Active(r)
      BY <1>3 DEF CreatedBy, TriggerCreate, Active
    <3>2. ~(table[j].age >= 2)
      BY <2>2, <3>1 DEF WindowsBehind
    <3> QED
      BY <3>2, LimitAssumption
  <2> QED
    BY <2>2, <2>3, <2>4 DEF OneScaleJob, GivenUp
<1>4. ASSUME NEW j \in Jobs, NEW k \in Jobs, SameScale(j, k)', j # k
      PROVE  GivenUp(j)' \/ GivenUp(k)'
  <2>1. CASE \E r \in Runners : CreatedBy(r, k)
    BY <1>3, <1>4, <2>1
  <2>2. CASE \E r \in Runners : CreatedBy(r, j)
    <3>1. SameScale(k, j)'
      BY <1>4 DEF SameScale
    <3> QED
      BY <1>3, <1>4, <2>2, <3>1
  <2>3. CASE ~\E r \in Runners : CreatedBy(r, j) \/ CreatedBy(r, k)
    <3>1. ScaleJob(j)' /\ ScaleJob(k)'
      BY <1>4 DEF SameScale
    <3>2. SameScale(j, k)
      BY <1>1, <1>4, <2>3, <3>1, ScaleJobKept DEF SameScale, StepsOfJobs
    <3>3. GivenUp(j) \/ GivenUp(k)
      BY <1>4, <3>2 DEF OneScaleJob
    <3> QED
      BY <1>1, <3>3, GivenUpKept DEF StepsOfJobs
  <2> QED
    BY <2>1, <2>2, <2>3
<1> QED
  BY <1>2, <1>4 DEF OneScaleJob

(* A job that has scaled its window is never worked on again. *)
LEMMA UsedKept ==
  ASSUME JobTypes, NEW j \in Jobs, JobStep(j), Used(j)
  PROVE  Used(j)' /\ table'[j].pool = table[j].pool /\ table'[j].window = table[j].window
<1>1. CASE Stays(j) \/ Ages(j) \/ AgedOut(j)
  BY <1>1 DEF Stays, Ages, AgedOut, GoneTo, RowKept, Rewritten, WorkEnds, Used, ScaleJob
<1>2. CASE Born(j, "setup")
  BY <1>2 DEF Born, Used, ScaleJob
<1>3. ASSUME NEW r \in Runners
      PROVE  ~(CreatedBy(r, j) \/ Claimed(r, j))
  BY DEF CreatedBy, Born, Claimed, Used, ScaleJob
<1>4. ASSUME NEW r \in Runners
      PROVE  ~(Dropped(r, j) \/ Made(r, j) \/ Fails(r, j) \/ Completed(r, j) \/ Requeued(r, j))
  BY DEF Dropped, Made, Fails, Completed, Requeued, WorkMoves, Used
<1> QED
  BY <1>1, <1>2, <1>3, <1>4 DEF JobStep

(* Only processScaleJob scales. *)
LEMMA OnlyScaleScales ==
  ASSUME [Next]_vars
  PROVE  UNCHANGED scaled \/ \E r \in Runners, k \in Jobs : RunScale(r, k)
  BY DEF Next, vars, SetupInstanceAsync, TriggerStart, TriggerStep, TriggerCreate, TriggerDone,
         TriggerFind, TriggerOnly, Process, ClaimOwn, ClaimGlobal, ClaimGlobalFails,
         ProcessDone, DropExhausted, RunSetup, DeleteDone, MarkPending, Crash, RetryDue,
         CleanupOldJobs, EnterLead, NextWindow

(* A window is scaled once, by a job that shows it. *)
LEMMA ScaledStep ==
  ASSUME TypeOK, OneWorker, WindowsBehind, OneScaleJob, StepsOfJobs, ScaledByJob, ScaledOnce,
         \A j \in Jobs : JobInv(j), [Next]_vars
  PROVE  ScaledByJob' /\ ScaledOnce'
<1>1. JobTypes
  BY DEF TypeOK, JobTypes
<1>2. ASSUME NEW p \in Pools, NEW w \in Windows, scaled[p][w] > 0
      PROVE  (\E j \in Jobs : Used(j) /\ table[j].pool = p /\ table[j].window = w)'
  BY <1>1, <1>2, UsedKept DEF ScaledByJob, StepsOfJobs
<1>3. CASE UNCHANGED scaled
  BY <1>2, <1>3 DEF ScaledByJob, ScaledOnce
<1>4. ASSUME NEW r \in Runners, NEW k \in Jobs, RunScale(r, k), scaled' # scaled
      PROVE  ScaledByJob' /\ ScaledOnce'
  <2> DEFINE p == table[k].pool
             w == table[k].window
  <2>1. /\ work[r][k] = "process" /\ table[k].type = "scale"
        /\ scaled' = [scaled EXCEPT ![p][w] = @ + 1]
        /\ work'[r][k] = "none" /\ RowKept(k)
    BY <1>1, <1>4, ScaleSteps
  <2>2. /\ ScaleJob(k) /\ table[k].tries <= MaxRetries
        /\ table[k].status \in {"running", "deleted"}
        /\ \A t \in Runners : t # r => work[t][k] = "none"
    BY <2>1 DEF JobInv, ScaleJob
  <2>3. p \in Pools /\ w \in Windows
    BY <2>2, LimitAssumption DEF WindowsBehind, Windows
  <2>4. ASSUME scaled[p][w] > 0
        PROVE  FALSE
    <3>1. PICK j \in Jobs : Used(j) /\ table[j].pool = p /\ table[j].window = w
      BY <2>3, <2>4 DEF ScaledByJob
    <3>2. j # k
      BY <2>1, <3>1 DEF Used
    <3>3. SameScale(j, k)
      BY <2>2, <3>1 DEF SameScale, Used
    <3>4. GivenUp(j) \/ GivenUp(k)
      BY <3>2, <3>3 DEF OneScaleJob
    <3>5. /\ table[j].tries \in Int /\ table[k].tries \in Int /\ MaxRetries \in Int
          /\ table[j].tries <= MaxRetries
      BY <1>1, <3>1, RowFields, LimitAssumption DEF JobTypes, Used
    <3> QED
      BY <2>2, <3>4, <3>5 DEF GivenUp
  <2>5. scaled \in [Pools -> [Windows -> Nat]]
    BY DEF TypeOK
  <2>6. scaled[p][w] = 0
    BY <2>3, <2>4, <2>5
  <2>7. /\ scaled'[p][w] = 1
        /\ \A q \in Pools, v \in Windows : <<q, v>> # <<p, w>> => scaled'[q][v] = scaled[q][v]
    BY <2>1, <2>3, <2>5, <2>6
  <2>8. Used(k)' /\ table'[k].pool = p /\ table'[k].window = w
    <3>1. WorkEnds(k)
      BY <1>1, <1>4, <2>1, ScaleSteps DEF Stays, Born, Fails, WorkMoves
    <3> QED
      BY <2>1, <2>2, <3>1 DEF RowKept, Rewritten, WorkEnds, Used, ScaleJob
  <2>9. ScaledOnce'
    BY <2>7 DEF ScaledOnce
  <2>10. ASSUME NEW q \in Pools, NEW v \in Windows, scaled'[q][v] > 0
         PROVE  (\E j \in Jobs : Used(j) /\ table[j].pool = q /\ table[j].window = v)'
    <3>1. CASE q = p /\ v = w
      BY <2>8, <3>1
    <3>2. CASE ~(q = p /\ v = w)
      BY <1>2, <2>7, <2>10, <3>2
    <3> QED
      BY <3>1, <3>2
  <2> QED
    BY <2>9, <2>10 DEF ScaledByJob
<1> QED
  BY <1>3, <1>4, OnlyScaleScales

-----------------------------------------------------------------------------
(* The inductive invariant. *)
LEMMA IInvInit == Init => IInv
<1> SUFFICES ASSUME Init PROVE IInv
  OBVIOUS
<1>1. table \in [Jobs -> Row]
  BY NewRows DEF Init
<1>2. \A j \in Jobs : /\ table[j].status = "unborn" /\ table[j].tries = 0 /\ made[j] = 0
                      /\ \A r \in Runners : work[r][j] = "none"
  BY DEF Init, Unborn
<1>3. \A r \in Runners : trigger[r].pc = "idle"
  BY DEF Init, Idle
<1>4. TypeOK
  <2>1. /\ trigger \in [Runners -> [pc: {"idle", "find", "create"}, todo: SUBSET Pools,
                                    pool: Pools \cup {NoPool}, window: Windows \cup {0}]]
    BY DEF Init, Idle
  <2>2. window \in Windows /\ scaled \in [Pools -> [Windows -> Nat]]
    BY LimitAssumption DEF Init, Windows
  <2>3. work \in [Runners -> [Jobs -> WorkPC]]
    BY DEF Init, WorkPC
  <2> QED
    BY <1>1, <2>1, <2>2, <2>3 DEF Init, TypeOK
<1>5. OneWorker /\ Attempts /\ DroppedForCause
  BY <1>2, LimitAssumption DEF OneWorker, Attempts, DroppedForCause
<1>6. OneVMPerTry
  BY <1>2, LimitAssumption DEF OneVMPerTry
<1>7. WindowsBehind /\ OneScaleJob
  BY <1>2, <1>3 DEF Init, WindowsBehind, OneScaleJob, SameScale, ScaleJob, Active
<1>8. ScaledByJob /\ ScaledOnce
  BY DEF Init, ScaledByJob, ScaledOnce
<1> QED
  BY <1>4, <1>5, <1>6, <1>7, <1>8 DEF IInv

(* Every step keeps the invariant. *)
LEMMA IInvStep == IInv /\ [Next]_vars => IInv'
<1> SUFFICES ASSUME IInv, [Next]_vars PROVE IInv'
  OBVIOUS
<1>1. JobTypes /\ \A j \in Jobs : JobInv(j)
  BY JobInvIs DEF IInv, TypeOK, JobTypes
<1>2. StepsOfJobs
  BY <1>1, EveryJobSteps DEF IInv
<1>3. TypeOK'
  BY <1>2, OtherTypes DEF IInv, StepsOfJobs
<1>4. \A j \in Jobs : JobInv(j)'
  BY <1>1, <1>2, JobInvStep DEF StepsOfJobs
<1>5. OneWorker' /\ Attempts' /\ OneVMPerTry' /\ DroppedForCause'
  <2>1. ((\A j \in Jobs : JobInv(j)) => OneWorker /\ Attempts /\ OneVMPerTry /\ DroppedForCause)'
    BY JobInvIs, PTL
  <2> QED
    BY <1>4, <2>1
<1>6. WindowsBehind'
  BY <1>2, WindowsStep DEF IInv
<1>7. OneScaleJob'
  BY <1>1, <1>2, OneScaleJobStep DEF IInv
<1>8. ScaledByJob' /\ ScaledOnce'
  BY <1>1, <1>2, ScaledStep DEF IInv
<1> QED
  BY <1>3, <1>5, <1>6, <1>7, <1>8 DEF IInv

(* It is an invariant of the specification. *)
LEMMA Invariance == Spec => []IInv
  BY IInvInit, IInvStep, PTL DEF Spec

(* The table and the runners' memory keep their types. *)
THEOREM TypeCorrect == Spec => []TypeOK
<1>1. IInv => TypeOK
  BY DEF IInv
<1> QED
  BY <1>1, Invariance, PTL

(* No job is in the hands of two runners, or open to a claim while one     *)
(* works on it.                                                            *)
THEOREM JobHasOneWorker == Spec => []OneWorker
<1>1. IInv => OneWorker
  BY DEF IInv
<1> QED
  BY <1>1, Invariance, PTL

(* A set-up job makes at most MaxRetries VMs. *)
THEOREM SetupIsBounded == Spec => []SetupBound
<1>1. IInv => SetupBound
  BY DEF IInv, OneVMPerTry, SetupBound
<1> QED
  BY <1>1, Invariance, PTL

(* A pool is scaled at most once for a window. *)
THEOREM WindowScaledOnce == Spec => []ScaledOnce
<1>1. IInv => ScaledOnce
  BY DEF IInv
<1> QED
  BY <1>1, Invariance, PTL

(* A set-up job is given up only for cause. *)
THEOREM GivenUpForCause == Spec => []DroppedForCause
<1>1. IInv => DroppedForCause
  BY DEF IInv
<1> QED
  BY <1>1, Invariance, PTL

=============================================================================
