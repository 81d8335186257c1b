----------------------------- MODULE Scheduler -----------------------------
(***************************************************************************)
(* The job scheduler of a runner: a goroutine per registered job, which    *)
(* runs the job on each tick of its interval.  The operations hold the     *)
(* mutex of the scheduler from beginning to end, so that each is a step;   *)
(* the goroutines run beside them.                                         *)
(***************************************************************************)
EXTENDS Integers, FiniteSets, SequencesExt

CONSTANTS
  Names,          \* the names of the jobs
  RunOnStart,     \* those of the jobs that run at once
  MaxGoroutines   \* how many goroutines are ever started (a bound)

VARIABLES
  jobs,         \* the names that are registered
  jobCancels,   \* the goroutine that is cancelled under each name
  started,      \* whether the scheduler has been started
  stopped,      \* whether its context has been cancelled
  goroutines,   \* the goroutines, in the order they were started
  asked         \* the last thing asked of each name, for the properties

schedulerVars == <<jobs, jobCancels, started, stopped, goroutines, asked>>

Ids == 1..MaxGoroutines

SchedulerInit ==
  /\ jobs = {} /\ jobCancels = <<>>
  /\ started = FALSE /\ stopped = FALSE
  /\ goroutines = <<>> /\ asked = [name \in Names |-> "nothing"]

-----------------------------------------------------------------------------
(* The context of a goroutine comes from that of the scheduler. *)
Done(g) == goroutines[g].cancelled \/ stopped

(* Mutant of Cancel: the old goroutine of the job is left running. *)
CancelNothing(name) == goroutines

Cancel(name) ==
  IF name \in DOMAIN jobCancels THEN [goroutines EXCEPT ![jobCancels[name]].cancelled = TRUE]
                                ELSE goroutines

(* startJob for each of the names, in any order, after the goroutines gs. *)
StartJobs(names, gs) ==
  \E order \in SetToSeqs(names) :
    /\ Len(gs) + Len(order) <= MaxGoroutines
    /\ goroutines' = gs \o [i \in DOMAIN order |->
                              [job |-> order[i], pc |-> "begin", cancelled |-> FALSE]]
    /\ jobCancels' = [name \in names \cup DOMAIN jobCancels |->
                        IF name \in names
                        THEN CHOOSE g \in DOMAIN goroutines' : g > Len(gs) /\ goroutines'[g].job = name
                        ELSE jobCancels[name]]

Register(name) ==
  /\ jobs' = jobs \cup {name}
  /\ IF started THEN StartJobs({name}, Cancel(name))
     ELSE goroutines' = Cancel(name) /\ UNCHANGED jobCancels
  /\ asked' = [asked EXCEPT ![name] = "register"]
  /\ UNCHANGED <<started, stopped>>

Start ==
  /\ ~started /\ started' = TRUE
  /\ StartJobs(jobs, goroutines)
  /\ UNCHANGED <<jobs, stopped, asked>>

(* A job that has not been started has no cancel function: it stays        *)
(* registered, and Start starts it although it has been removed.           *)
Unregister(name) ==
  /\ asked' = [asked EXCEPT ![name] = IF started THEN "remove" ELSE "remove early"]
  /\ UNCHANGED <<started, stopped>>
  /\ \/ /\ name \in DOMAIN jobCancels
        /\ goroutines' = Cancel(name)
        /\ jobCancels' = [n \in DOMAIN jobCancels \ {name} |-> jobCancels[n]]
        /\ jobs' = jobs \ {name}
     \/ /\ name \notin DOMAIN jobCancels
        /\ UNCHANGED <<goroutines, jobCancels, jobs>>

Stop ==
  /\ stopped' = TRUE
  /\ UNCHANGED <<jobs, jobCancels, started, goroutines, asked>>

-----------------------------------------------------------------------------
(* A goroutine runs its job at once if it is such a job, whether or not it *)
(* has been cancelled meanwhile; then it waits for a tick or for its end,  *)
(* and takes either when both have come.  Execute has a timeout and the    *)
(* context, and comes to its end.                                          *)
GoroutineTo(g, pc) ==
  /\ goroutines' = [goroutines EXCEPT ![g].pc = pc]
  /\ UNCHANGED <<jobs, jobCancels, started, stopped, asked>>

Begin(g) ==
  /\ goroutines[g].pc = "begin"
  /\ GoroutineTo(g, IF goroutines[g].job \in RunOnStart THEN "execute" ELSE "select")
Tick(g) == goroutines[g].pc = "select" /\ GoroutineTo(g, "execute")
ExecuteJob(g) == goroutines[g].pc = "execute" /\ GoroutineTo(g, "select")
(* Mutant of Return: the context is looked at only before the first tick. *)
ReturnAtOnce(g) == goroutines[g].pc = "begin" /\ Done(g) /\ GoroutineTo(g, "returned")

Return(g) == goroutines[g].pc = "select" /\ Done(g) /\ GoroutineTo(g, "returned")

-----------------------------------------------------------------------------
SchedulerNext ==
  \/ \E name \in Names : Register(name) \/ Unregister(name)
  \/ Start \/ Stop
  \/ \E g \in DOMAIN goroutines : Begin(g) \/ Tick(g) \/ ExecuteJob(g) \/ Return(g)

(* A goroutine goes on; select, which chooses at random, does not pass     *)
(* over the end of the context for ever.                                   *)
Runs(g) == g \in DOMAIN goroutines /\ (Begin(g) \/ ExecuteJob(g))
Ends(g) == g \in DOMAIN goroutines /\ Return(g)
SchedulerFairness == \A g \in Ids : WF_schedulerVars(Runs(g)) /\ SF_schedulerVars(Ends(g))

SchedulerSpec == SchedulerInit /\ [][SchedulerNext]_schedulerVars /\ SchedulerFairness

-----------------------------------------------------------------------------
(* Properties. *)

(* While the scheduler runs, a name that was last registered has one       *)
(* goroutine that has not been cancelled, and a name that was never        *)
(* registered, or was last removed after the start, has none: however jobs *)
(* are registered, registered again and removed before and after the       *)
(* start.  Of a job that was removed before the start the property says    *)
(* only that it has no more than one.  The comment at scheduler.go:91,     *)
(* "Unregister removes a job from the scheduler", would have it have none; *)
(* the code looks at jobCancels alone (scheduler.go:96), which is empty    *)
(* until Start, and Start then starts the job.                             *)
Live(name) == {g \in DOMAIN goroutines : /\ goroutines[g].job = name
                                         /\ ~goroutines[g].cancelled
                                         /\ goroutines[g].pc # "returned"}
OneGoroutinePerJob ==
  started /\ ~stopped =>
    \A name \in Names :
      /\ Cardinality(Live(name)) <= 1
      /\ asked[name] = "register" => Live(name) # {}
      /\ asked[name] \in {"nothing", "remove"} => Live(name) = {}

(* A goroutine that has been told to return, and one that has. *)
Cancelled(g) == g \in DOMAIN goroutines /\ Done(g)
Returned(g) == g \in DOMAIN goroutines /\ goroutines[g].pc = "returned"

=============================================================================
