----------------------------- MODULE NomadDriver -----------------------------
(***************************************************************************)
(* The Nomad driver (app/drivers/nomad): a VM is three batch jobs.  The    *)
(* resource job holds the room for the VM on its node, and ends by itself  *)
(* when the VM does not answer; the init job, placed on the same node,     *)
(* starts the VM; the destroy job removes it.  Create polls the jobs and   *)
(* cleans up in goroutines of its own, which the caller does not wait for. *)
(*                                                                         *)
(* Left out: ports, node classes and ceph volumes; the noop jobs, which    *)
(* are the same three jobs with an echo for their commands.                *)
(***************************************************************************)
EXTENDS DriverCalls

CONSTANTS
  Room,         \* resource jobs that fit on the nodes
  MaxFailures,  \* failed port checks after which the resource job ends
  NoZone

VM(c) == Resource("vm", c, NoZone)
Job(kind, c) == Resource(kind, c, NoZone)
Status(kind, c) == IF Exists(Job(kind, c)) THEN cloud[Job(kind, c)].status ELSE "absent"
SetJob(kind, c, status) == Add(Job(kind, c), [status |-> status, failures |-> 0])

(* Clean-up goroutines: the deregistrations under way, and the place of    *)
(* each background Destroy.                                                *)
NomadInit == [deregister |-> {}, destroy |-> [c \in Callers |-> "idle"]]
GoDeregister(kinds, c) ==
  shared' = [shared EXCEPT !.deregister = @ \cup {Job(k, c) : k \in kinds}]
GoDestroy(c, kinds) ==
  shared' = [shared EXCEPT !.destroy[c] = "deregister",
                           !.deregister = @ \cup {Job(k, c) : k \in kinds}]

-----------------------------------------------------------------------------
(* createAndRunResourceJob: register, then wait for the job to run.  When  *)
(* it times out the job is deregistered in the background, unless no poll  *)
(* got an answer.                                                          *)
RegisterResourceJob(c) ==
  /\ Fresh(c)
  /\ \E reserve \in BOOLEAN :
       \/ /\ SetJob("resource", c, "pending")
          /\ call' = [call EXCEPT ![c] = [pc |-> "resource", reserve |-> reserve]]
       \/ Return(c) /\ UNCHANGED cloud
  /\ UNCHANGED <<abandoned, held, shared>>

PollResourceJob(c) ==
  /\ call[c].pc = "resource"
  /\ \/ /\ Status("resource", c) = "running"
        /\ IF call[c].reserve
           THEN /\ held' = held \cup {[what |-> "reservation", name |-> c, zone |-> NoZone]}
                /\ Return(c)
           ELSE Goto(c, "fetch") /\ UNCHANGED held
        /\ UNCHANGED shared
     \/ /\ Status("resource", c) = "pending"
        /\ GoDeregister({"resource"}, c) \/ UNCHANGED shared
        /\ Return(c) /\ UNCHANGED held
     \/ Status("resource", c) = "dead" /\ Return(c) /\ UNCHANGED <<held, shared>>
  /\ UNCHANGED <<cloud, abandoned, made, destroyed>>

(* Create on a reservation that was made before. *)
CreateReserved(c) ==
  /\ call[c] = Idle
  /\ \E i \in held \ HeldVMs :
       /\ i.name = c
       /\ held' = held \ {i}
       /\ call' = [call EXCEPT ![c] = [pc |-> "fetch", reserve |-> TRUE]]
  /\ UNCHANGED <<cloud, abandoned, made, destroyed, shared>>

(* deregisterJob; a job that is dead stays as it is. *)
DeregisterJob(c) == IF Status("resource", c) = "dead" THEN UNCHANGED cloud
                    ELSE SetJob("resource", c, "dead")

DestroyCapacity(c) ==
  /\ call[c] = Idle
  /\ \E i \in held \ HeldVMs :
       /\ i.name = c
       /\ held' = held \ {i}
       /\ DeregisterJob(c)
  /\ UNCHANGED <<abandoned, call, made, destroyed, shared>>

(* fetchMachine and GetInitJob; a mismatch of the ports returns without    *)
(* deregistering.                                                          *)
FetchMachine(c) ==
  /\ call[c].pc = "fetch"
  /\ \/ Goto(c, "init") /\ UNCHANGED shared
     \/ GoDeregister({"resource"}, c) /\ Return(c)
     \/ Return(c) /\ UNCHANGED shared
  /\ UNCHANGED <<cloud, abandoned, held, made, destroyed>>

RegisterInitJob(c) ==
  /\ call[c].pc = "init"
  /\ \/ SetJob("init", c, "pending") /\ Goto(c, "poll") /\ UNCHANGED shared
     \/ GoDeregister({"resource"}, c) /\ Return(c) /\ UNCHANGED cloud
  /\ UNCHANGED <<abandoned, held, made, destroyed>>

(* The wait for the init job to end; on a time-out the job is deregistered *)
(* and the VM destroyed, both in the background.                           *)
PollInitJob(c) ==
  /\ call[c].pc = "poll"
  /\ \/ Status("init", c) \in {"complete", "failed"} /\ Goto(c, "summary") /\ UNCHANGED shared
     \/ /\ Status("init", c) \notin {"complete", "failed"}
        /\ \E remove \in {{}, {"init"}} : GoDestroy(c, remove)
        /\ Return(c)
  /\ UNCHANGED <<cloud, abandoned, held, made, destroyed>>

(* checkTaskGroupStatus *)
CheckTaskGroupStatus(c) ==
  /\ call[c].pc = "summary"
  /\ \/ Status("init", c) = "complete" /\ Goto(c, "info") /\ UNCHANGED shared
     \/ GoDestroy(c, {}) /\ Return(c)
  /\ UNCHANGED <<cloud, abandoned, held, made, destroyed>>

(* Mutant of CheckResourceJob: Create trusts the init job alone. *)
CheckResourceJobSkipped(c) ==
  /\ call[c].pc = "info"
  /\ held' = held \cup {[what |-> "vm", name |-> c, zone |-> NoZone]}
  /\ Return(c)
  /\ UNCHANGED <<cloud, abandoned, made, destroyed, shared>>

(* The last look at the resource job: gone, the VM is destroyed; not       *)
(* answered, Create returns its error and leaves the VM.                   *)
CheckResourceJob(c) ==
  /\ call[c].pc = "info"
  /\ \/ /\ Status("resource", c) = "running"
        /\ held' = held \cup {[what |-> "vm", name |-> c, zone |-> NoZone]}
        /\ UNCHANGED shared
     \/ Status("resource", c) # "running" /\ GoDestroy(c, {}) /\ UNCHANGED held
     \/ UNCHANGED <<held, shared>>
  /\ Return(c)
  /\ UNCHANGED <<cloud, abandoned, made, destroyed>>

-----------------------------------------------------------------------------
(* DestroyInstanceAndStorage for one instance, called or in the background: *)
(* deregister the resource job, whose error is ignored; register the       *)
(* destroy job; wait for it to be dead, whatever became of its task.  To   *)
(* keep the model small, each goroutine destroys the VM it has made.       *)
DestroyBegin(c) ==
  /\ call[c] = Idle
  /\ \E i \in HeldVMs :
       /\ i.name = c
       /\ call' = [call EXCEPT ![c] = [pc |-> "deregister", of |-> i]]
  /\ UNCHANGED <<cloud, abandoned, held, made, destroyed, shared>>

DestroyJobStep(c) ==
  LET i == call[c].of
  IN  \/ /\ call[c].pc = "deregister" /\ (DeregisterJob(i.name) \/ UNCHANGED cloud)
         /\ Goto(c, "register") /\ UNCHANGED <<held, destroyed>>
      \/ /\ call[c].pc = "register"
         /\ \/ SetJob("destroy", i.name, "pending") /\ Goto(c, "wait")
            \/ Return(c) /\ UNCHANGED cloud
         /\ UNCHANGED <<held, destroyed>>
      \/ /\ call[c].pc = "wait"
         /\ \/ Status("destroy", i.name) = "dead" /\ Gone({i})
            \/ UNCHANGED <<held, destroyed>>
         /\ Return(c) /\ UNCHANGED cloud

Destroy(c) == DestroyJobStep(c) /\ UNCHANGED <<abandoned, made, shared>>

BackgroundDestroy(c) ==
  /\ \/ /\ shared.destroy[c] = "deregister" /\ (DeregisterJob(c) \/ UNCHANGED cloud)
        /\ shared' = [shared EXCEPT !.destroy[c] = "register"]
     \/ /\ shared.destroy[c] = "register"
        /\ SetJob("destroy", c, "pending") \/ UNCHANGED cloud
        /\ shared' = [shared EXCEPT !.destroy[c] = "idle"]
  /\ UNCHANGED <<abandoned, held, call, made, destroyed>>

BackgroundDeregister ==
  /\ \E job \in shared.deregister :
       /\ shared' = [shared EXCEPT !.deregister = @ \ {job}]
       /\ \/ Exists(job) /\ cloud[job].status # "dead"
             /\ Add(job, [status |-> "dead", failures |-> 0])
          \/ UNCHANGED cloud
  /\ UNCHANGED <<abandoned, held, call, made, destroyed>>

-----------------------------------------------------------------------------
(* The Nomad servers and nodes. *)
Running == {c \in Callers : Status("resource", c) = "running"}

PlaceResourceJob(c) ==
  /\ Status("resource", c) = "pending" /\ Cardinality(Running) < Room
  /\ SetJob("resource", c, "running")
  /\ UNCHANGED <<abandoned, held, call, made, destroyed, shared>>

(* The init job's main task starts the VM, its later tasks prepare it;     *)
(* any of them may fail.                                                   *)
RunInitJob(c) ==
  /\ \/ /\ Status("init", c) = "pending"
        /\ \/ cloud' = [With({Job("init", c), VM(c)}, [status |-> "started", failures |-> 0])
                         EXCEPT ![VM(c)] = "vm"]
           \/ SetJob("init", c, "failed")
     \/ /\ Status("init", c) = "started"
        /\ \E status \in {"complete", "failed"} : SetJob("init", c, status)
  /\ UNCHANGED <<abandoned, held, call, made, destroyed, shared>>

(* The destroy script stops and removes the VM; the job is dead after its  *)
(* restarts whether or not that worked, and nobody looks at its task.      *)
RunDestroyJob(c) ==
  /\ Status("destroy", c) = "pending"
  /\ \E gone \in {{}, {VM(c)}} :
       /\ cloud' = [r \in DOMAIN cloud \ gone |->
                      IF r = Job("destroy", c) THEN [status |-> "dead", failures |-> 0] ELSE cloud[r]]
       /\ abandoned' = abandoned \cup ({VM(c)} \ gone)
  /\ UNCHANGED <<held, call, made, destroyed, shared>>

(* Mutant of HealthCheck: the count starts again with every check. *)
HealthCheckUncounted(c) ==
  LET failures == IF Exists(VM(c)) THEN 0 ELSE 1
  IN  /\ Status("resource", c) = "running"
      /\ failures # cloud[Job("resource", c)].failures
      /\ Add(Job("resource", c), [status |-> "running", failures |-> failures])
      /\ UNCHANGED <<abandoned, held, call, made, destroyed, shared>>

(* The resource job's script: it sleeps for longer than a Create without   *)
(* reservation may take, then ends at the third failed check in a row.     *)
HealthCheck(c) ==
  LET job == Job("resource", c)
      failures == IF Exists(VM(c)) THEN 0 ELSE cloud[job].failures + 1
  IN  /\ Status("resource", c) = "running"
      /\ call[c].pc \in {"resource", "fetch", "init", "poll", "summary", "info"} => call[c].reserve
      /\ failures # cloud[job].failures
      /\ Add(job, [status |-> IF failures = MaxFailures THEN "dead" ELSE "running",
                   failures |-> failures])
      /\ UNCHANGED <<abandoned, held, call, made, destroyed, shared>>

-----------------------------------------------------------------------------
CallStep(c) ==
  \/ PollResourceJob(c) \/ FetchMachine(c) \/ RegisterInitJob(c) \/ PollInitJob(c)
  \/ CheckTaskGroupStatus(c) \/ CheckResourceJob(c) \/ Destroy(c)

Next ==
  \/ \E c \in Callers :
       \/ RegisterResourceJob(c) \/ CreateReserved(c) \/ DestroyCapacity(c)
       \/ CallStep(c) \/ DestroyBegin(c) \/ BackgroundDestroy(c)
       \/ PlaceResourceJob(c) \/ RunInitJob(c) \/ RunDestroyJob(c) \/ HealthCheck(c)
  \/ BackgroundDeregister

=============================================================================
