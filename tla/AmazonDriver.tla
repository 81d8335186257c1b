---------------------------- MODULE AmazonDriver ----------------------------
(***************************************************************************)
(* The Amazon EC2 driver (app/drivers/amazon/driver.go, cache.go).  The    *)
(* zone of a call is chosen into a configuration of the call's own; the    *)
(* security group is looked up or made once and kept in the driver value;  *)
(* volumes are made before the instance and attached after it has an       *)
(* address; Destroy looks the volumes up before it terminates.             *)
(*                                                                         *)
(* Left out: tags, user data and launch options; SetTags, which is one     *)
(* request repeated; Logs and Ping.                                        *)
(***************************************************************************)
EXTENDS DriverCalls

CONSTANTS
  ZoneDetails,  \* the availability zones of the pool, a sequence
  NoZone        \* the empty string for a zone

(* The scenario: `requests` holds InstanceCreateOpts [disks, zones,        *)
(* reservation], `calls` the calls made besides Create ("destroy",         *)
(* "power", "capacity"), `cleanups` the storage clean-up types passed to   *)
(* Destroy.                                                                *)
VM(c, zone) == Resource("vm", c, zone)
SecurityGroup == Resource("group", "harness-runner", NoZone)

AmazonInit == [zoneIndex |-> 0, groups |-> FALSE, ami |-> FALSE]

-----------------------------------------------------------------------------
(* getDynamicConfig: the request's first zone, or the reservation's, or    *)
(* the next one of the atomic round robin.                                 *)
GetDynamicConfig(c, opts) ==
  LET fixed == IF opts.zones # <<>> THEN Head(opts.zones) ELSE opts.reservation
      zone == IF fixed # NoZone THEN fixed ELSE ZoneDetails[shared.zoneIndex + 1]
  IN  /\ shared' = IF fixed # NoZone THEN shared
                   ELSE [shared EXCEPT !.zoneIndex = (@ + 1) % Len(ZoneDetails)]
      /\ call' = [call EXCEPT ![c] = [pc |-> "image", zone |-> zone, disks |-> opts.disks]]

CreateBegin(c) ==
  /\ Fresh(c)
  /\ \E opts \in scenario.requests : GetDynamicConfig(c, opts)
  /\ UNCHANGED <<cloud, abandoned, held>>

(* GetFullyQualifiedImage: the cached image id, or a request that fills    *)
(* the cache.                                                              *)
ResolveImage(c) ==
  /\ call[c].pc = "image"
  /\ \/ /\ shared' = [shared EXCEPT !.ami = TRUE]
        /\ Goto(c, "group")
     \/ ~shared.ami /\ Return(c) /\ UNCHANGED shared
  /\ UNCHANGED <<cloud, abandoned, held, made, destroyed>>

ImageExpires ==
  /\ shared.ami /\ shared' = [shared EXCEPT !.ami = FALSE]
  /\ UNCHANGED <<cloud, abandoned, held, call, made, destroyed>>

(* The security group in Create: kept, found, or made; a failed lookup     *)
(* reads as "not there", and a group that is there cannot be made again.   *)
LookupCreateSecurityGroup(c) ==
  /\ call[c].pc = "group"
  /\ \/ shared.groups /\ Goto(c, "check") /\ UNCHANGED <<cloud, shared>>
     \/ /\ ~shared.groups /\ Exists(SecurityGroup)
        /\ shared' = [shared EXCEPT !.groups = TRUE]
        /\ Goto(c, "check") /\ UNCHANGED cloud
     \/ ~shared.groups /\ Return(c) /\ UNCHANGED <<cloud, shared>>
     \/ /\ ~shared.groups /\ ~Exists(SecurityGroup)
        /\ Add(SecurityGroup, [ingress |-> FALSE])
        /\ Goto(c, "ingress") /\ UNCHANGED shared
  /\ UNCHANGED <<abandoned, held, made, destroyed>>

(* AuthorizeSecurityGroupIngress for the new group; when it fails the      *)
(* group stays without the rule.                                           *)
AuthorizeIngress(c) ==
  /\ call[c].pc = "ingress"
  /\ \/ /\ cloud' = [cloud EXCEPT ![SecurityGroup].ingress = TRUE]
        /\ shared' = [shared EXCEPT !.groups = TRUE]
        /\ Goto(c, "check")
     \/ Return(c) /\ UNCHANGED <<cloud, shared>>
  /\ UNCHANGED <<abandoned, held, made, destroyed>>

(* Mutant of CheckIngressRules: the group is taken as it is. *)
CheckIngressSkipped(c) ==
  /\ call[c].pc = "check"
  /\ Goto(c, "volumes")
  /\ UNCHANGED <<cloud, abandoned, held, made, destroyed, shared>>

(* checkIngressRules *)
CheckIngressRules(c) ==
  /\ call[c].pc = "check"
  /\ \/ cloud[SecurityGroup].ingress /\ Goto(c, "volumes")
     \/ Return(c)
  /\ UNCHANGED <<cloud, abandoned, held, made, destroyed, shared>>

(* createPersistentDisks: when a volume cannot be made the earlier ones    *)
(* are deleted, best effort; when it does not become available they stay.  *)
CreatePersistentDisks(c) ==
  LET disks == call[c].disks
      Volumes(some) == Disks(c, some, call[c].zone)
      Make(some) == cloud' = With(Volumes(some), [attached |-> FALSE])
  IN  /\ call[c].pc = "volumes"
      /\ \/ Make(disks) /\ Goto(c, "run") /\ UNCHANGED abandoned
         \/ \E some \in {SubSeq(disks, 1, n) : n \in 0..Len(disks) - 1} :
              /\ Return(c)
              /\ \/ UNCHANGED <<cloud, abandoned>>
                 \/ Make(some) /\ abandoned' = abandoned \cup Volumes(some)
         \/ \E some \in {SubSeq(disks, 1, n) : n \in 1..Len(disks)} :
              Make(some) /\ Return(c) /\ UNCHANGED abandoned
      /\ UNCHANGED <<held, made, destroyed, shared>>

(* RunInstances; on failure the volumes are deleted, best effort. *)
RunInstances(c) ==
  /\ call[c].pc = "run"
  /\ \/ /\ Add(VM(c, call[c].zone), [status |-> "running"])
        /\ Goto(c, "poll") /\ UNCHANGED abandoned
     \/ BestEffort(Disks(c, call[c].disks, call[c].zone)) /\ Return(c)
  /\ UNCHANGED <<held, made, destroyed, shared>>

(* pollInstanceIPAddr: an address; or the back-off ends and the instance   *)
(* is terminated, best effort; or the context ends and it is left, with no *)
(* request to terminate it.                                                *)
PollInstanceIPAddr(c) ==
  LET vm == VM(c, call[c].zone)
  IN  /\ call[c].pc = "poll"
      /\ \/ Goto(c, "attach") /\ UNCHANGED <<cloud, abandoned>>
         \/ BestEffort({vm}) /\ Return(c)
         \/ LeaveBehind(vm) /\ Return(c)
      /\ UNCHANGED <<held, made, destroyed, shared>>

(* attachVolumes; when it fails the instance is terminated, best effort,   *)
(* and the volumes stay.                                                   *)
AttachVolumes(c) ==
  LET zone == call[c].zone
      volumes == Disks(c, call[c].disks, zone)
  IN  /\ call[c].pc = "attach"
      /\ \/ /\ cloud' = With(volumes, [attached |-> TRUE])
            /\ held' = held \cup {[what |-> "vm", name |-> c, zone |-> zone,
                                   disks |-> call[c].disks]}
            /\ UNCHANGED abandoned
         \/ volumes # {} /\ BestEffort({VM(c, zone)}) /\ UNCHANGED held
      /\ Return(c)
      /\ UNCHANGED <<made, destroyed, shared>>

-----------------------------------------------------------------------------
(* DestroyInstanceAndStorage *)
DestroyBegin(c) ==
  /\ "destroy" \in scenario.calls /\ call[c] = Idle
  /\ \E batch \in SUBSET HeldVMs \ {{}}, cleanup \in scenario.cleanups :
       call' = [call EXCEPT ![c] = BatchCall(batch, cleanup)]
  /\ UNCHANGED <<cloud, abandoned, held, made, destroyed, shared>>

(* findPersistentVolumes: volumes with the instance's identifiers that are *)
(* attached; only looked for when the storage is to be deleted.            *)
FindPersistentVolumes(c) ==
  /\ call[c].pc = "next"
  /\ \E i \in call[c].todo :
       LET found == {r \in Disks(i.name, i.disks, i.zone) : Exists(r) /\ cloud[r].attached} IN
       \/ TakeInstance(c, i, "terminate", IF call[c].cleanup = "Delete" THEN found ELSE {})
       \/ call[c].cleanup = "Delete" /\ i.disks # <<>> /\ SkipInstance(c, i, {i})
  /\ UNCHANGED <<cloud, abandoned, held, made, destroyed, shared>>

(* TerminateInstances; not found counts as terminated.  The provider       *)
(* detaches the volumes of the instance.                                   *)
TerminateInstances(c) ==
  /\ call[c].pc = "terminate"
  /\ LET i == call[c].at
         vm == VM(i.name, i.zone)
         detached == Disks(i.name, i.disks, i.zone) IN
       \/ /\ cloud' = [r \in DOMAIN cloud \ {vm} |->
                         IF r \in detached THEN [attached |-> FALSE] ELSE cloud[r]]
          /\ IF call[c].parts = {} THEN NextInstance(c, {}) ELSE Goto(c, "volumes of")
       \/ Refused({vm}) /\ NextInstance(c, {i})
  /\ UNCHANGED <<abandoned, held, made, destroyed, shared>>

(* cleanupVolumes: waits for the termination and deletes what was found. *)
CleanupVolumes(c) ==
  /\ call[c].pc = "volumes of"
  /\ \/ cloud' = Without(call[c].parts) /\ NextInstance(c, {})
     \/ \E some \in SUBSET call[c].parts \ {call[c].parts} :
          cloud' = Without(some) /\ NextInstance(c, {call[c].at})
  /\ UNCHANGED <<abandoned, held, made, destroyed, shared>>

DestroyReturn(c) == BatchDone(c)

-----------------------------------------------------------------------------
(* Hibernate stops the instance.  Start leaves a running one alone; when   *)
(* the started one gets no address it is terminated under its row.         *)
Hibernate(c) ==
  /\ "power" \in scenario.calls /\ call[c] = Idle
  /\ \E i \in HeldVMs :
       /\ Exists(VM(i.name, i.zone)) /\ cloud[VM(i.name, i.zone)].status = "running"
       /\ cloud' = [cloud EXCEPT ![VM(i.name, i.zone)].status = "stopped"]
  /\ UNCHANGED <<abandoned, held, call, made, destroyed, shared>>

Start(c) ==
  /\ "power" \in scenario.calls /\ call[c] = Idle
  /\ \E i \in HeldVMs :
       LET vm == VM(i.name, i.zone) IN
       /\ Exists(vm) /\ cloud[vm].status = "stopped"
       /\ \/ cloud' = [cloud EXCEPT ![vm].status = "running"]
          \/ cloud' = Without({vm})
  /\ UNCHANGED <<abandoned, held, call, made, destroyed, shared>>

(* ReserveCapacity and DestroyCapacity: one request each. *)
ReserveCapacity(c) ==
  /\ "capacity" \in scenario.calls /\ Fresh(c)
  /\ LET zone == ZoneDetails[shared.zoneIndex + 1]
     IN  /\ shared' = [shared EXCEPT !.zoneIndex = (@ + 1) % Len(ZoneDetails)]
         /\ \/ UNCHANGED <<cloud, held>>
            \/ /\ Add(Resource("reservation", c, zone), "unlimited")
               /\ held' = held \cup {[what |-> "reservation", name |-> c, zone |-> zone]}
  /\ UNCHANGED <<abandoned, call>>

DestroyCapacity(c) ==
  /\ "capacity" \in scenario.calls /\ call[c] = Idle
  /\ \E i \in held \ HeldVMs :
       /\ Deleted({Resource("reservation", i.name, i.zone)})
       /\ held' = held \ {i}
  /\ UNCHANGED <<call, made, destroyed, shared>>

Next ==
  \/ \E c \in Callers :
       \/ CreateBegin(c) \/ ResolveImage(c) \/ LookupCreateSecurityGroup(c)
       \/ AuthorizeIngress(c) \/ CheckIngressRules(c) \/ CreatePersistentDisks(c)
       \/ RunInstances(c) \/ PollInstanceIPAddr(c) \/ AttachVolumes(c)
       \/ DestroyBegin(c) \/ FindPersistentVolumes(c) \/ TerminateInstances(c)
       \/ CleanupVolumes(c) \/ DestroyReturn(c)
       \/ Hibernate(c) \/ Start(c) \/ ReserveCapacity(c) \/ DestroyCapacity(c)
  \/ ImageExpires

=============================================================================
