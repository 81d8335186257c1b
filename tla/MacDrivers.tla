------------------------------ MODULE MacDrivers ------------------------------
(***************************************************************************)
(* The drivers of the Mac hypervisors: Anka and VMware Fusion on the host  *)
(* of the runner (app/drivers/anka/driver.go, vmfusion/driver.go,          *)
(* utils.go) and the Anka Build controller (ankabuild/driver.go,           *)
(* client.go).  VMware Fusion keeps the name of the machine it works on in *)
(* the driver value, and every path is built from it.                      *)
(*                                                                         *)
(* Left out: what a command prints; the parsing of addresses.  Hibernate   *)
(* and Start are not implemented by any of them.                           *)
(***************************************************************************)
EXTENDS DriverCalls

CONSTANT MaxRetries  \* maxRetries of Anka Build's CreateVM

Hypervisor == scenario.driver  \* "anka", "ankabuild" or "vmfusion"

MacInit == [machineName |-> "none"]

(* The VMs of a call are told apart by the attempt that made them. *)
VM(c, attempt) == Resource("vm", c, attempt)
Instance(c, attempt) == [what |-> "vm", name |-> c, zone |-> attempt]

-----------------------------------------------------------------------------
(* Anka: clone, start, look up, copy the script and run it, by the name of *)
(* the call.  Any failure returns and leaves the clone.  No address after  *)
(* sixty looks is no failure.                                              *)
AnkaClone(c) ==
  /\ Hypervisor = "anka" /\ Fresh(c)
  /\ \/ Add(VM(c, 1), "cloned") /\ call' = [call EXCEPT ![c] = [pc |-> "start"]]
     \/ UNCHANGED <<cloud, call>>
  /\ UNCHANGED <<abandoned, held, shared>>

AnkaStart(c) ==
  /\ Hypervisor = "anka" /\ call[c].pc = "start"
  /\ \/ Add(VM(c, 1), "started") /\ Goto(c, "script")
     \/ Return(c) /\ UNCHANGED cloud
  /\ UNCHANGED <<abandoned, held, made, destroyed, shared>>

AnkaRunScript(c) ==
  /\ Hypervisor = "anka" /\ call[c].pc = "script"
  /\ Return(c)
  /\ held' = held \cup {Instance(c, 1)} \/ UNCHANGED held
  /\ UNCHANGED <<cloud, abandoned, made, destroyed, shared>>

-----------------------------------------------------------------------------
(* Anka Build, CreateVM: a request that fails is repeated; a VM that ends  *)
(* in another state than Started is deleted and another one is made.       *)
AnkaBuildCreate(c) ==
  /\ Hypervisor = "ankabuild"
  /\ \/ Fresh(c) /\ call' = [call EXCEPT ![c] = [pc |-> "create", retry |-> 0]] /\ UNCHANGED cloud
     \/ /\ call[c].pc = "create"
        /\ \/ Add(VM(c, call[c].retry), "Scheduling") /\ Goto(c, "find")
           \/ /\ IF call[c].retry < MaxRetries - 1 THEN call' = [call EXCEPT ![c].retry = @ + 1]
                 ELSE Return(c)
              /\ UNCHANGED cloud
        /\ UNCHANGED <<made, destroyed>>
  /\ UNCHANGED <<abandoned, held, shared>>

(* FindVM looks until the VM is no longer scheduled or pulled; when the    *)
(* context ends the VM is left.  A Started one without port forwarding is  *)
(* an error that leaves it too.                                            *)
AnkaBuildFind(c) ==
  LET vm == VM(c, call[c].retry)
  IN  /\ Hypervisor = "ankabuild" /\ call[c].pc = "find"
      /\ \/ /\ Add(vm, "Started") /\ Return(c)
            /\ held' = held \cup {Instance(c, call[c].retry)} \/ UNCHANGED held
         \/ Add(vm, "Error") /\ Goto(c, "delete") /\ UNCHANGED held
         \/ Return(c) /\ UNCHANGED <<cloud, held>>
      /\ UNCHANGED <<abandoned, made, destroyed, shared>>

AnkaBuildDelete(c) ==
  LET vm == VM(c, call[c].retry)
  IN  /\ Hypervisor = "ankabuild" /\ call[c].pc = "delete"
      /\ \/ /\ cloud' = Without({vm})
            /\ IF call[c].retry + 1 < MaxRetries
               THEN call' = [call EXCEPT ![c].pc = "create", ![c].retry = @ + 1]
               ELSE Return(c)
         \/ Return(c) /\ UNCHANGED cloud
      /\ UNCHANGED <<abandoned, held, made, destroyed, shared>>

-----------------------------------------------------------------------------
(* VMware Fusion.  The name of the machine goes into the driver value when *)
(* Create begins; the paths of the later steps are made from what is there *)
(* by then, the id of the instance too.                                    *)
Machine == VM(shared.machineName, 1)

FusionBegin(c) ==
  /\ Hypervisor = "vmfusion" /\ Fresh(c)
  /\ shared' = [shared EXCEPT !.machineName = c]
  /\ call' = [call EXCEPT ![c] = [pc |-> "files"]]
  /\ UNCHANGED <<cloud, abandoned, held>>

(* The directory, the vmx file and the disk; an existing disk is kept. *)
FusionFiles(c) ==
  /\ Hypervisor = "vmfusion" /\ call[c].pc = "files"
  /\ \/ /\ IF Exists(Machine) THEN UNCHANGED cloud ELSE Add(Machine, "stopped")
        /\ Goto(c, "start")
     \/ Return(c) /\ UNCHANGED cloud
  /\ UNCHANGED <<abandoned, held, made, destroyed, shared>>

FusionStart(c) ==
  /\ Hypervisor = "vmfusion" /\ call[c].pc = "start"
  /\ \/ Exists(Machine) /\ Add(Machine, "started") /\ Goto(c, "script")
     \/ Return(c) /\ UNCHANGED cloud
  /\ UNCHANGED <<abandoned, held, made, destroyed, shared>>

FusionRunScript(c) ==
  /\ Hypervisor = "vmfusion" /\ call[c].pc = "script"
  /\ Return(c)
  /\ \/ Exists(Machine) /\ held' = held \cup {[what |-> "vm", row |-> c, name |-> shared.machineName, zone |-> 1]}
     \/ UNCHANGED held
  /\ UNCHANGED <<cloud, abandoned, made, destroyed, shared>>

-----------------------------------------------------------------------------
(* Destroy of each: one delete per instance; the first error ends the call *)
(* with no list of failed instances.  Deleting what is gone is an error.   *)
DestroyBegin(c) ==
  /\ call[c] = Idle
  /\ \E batch \in SUBSET HeldVMs \ {{}} :
       call' = [call EXCEPT ![c] = BatchCall(batch, "none")]
  /\ UNCHANGED <<cloud, abandoned, held, made, destroyed, shared>>

DestroyVM(c) ==
  /\ call[c].pc = "next"
  /\ \E i \in call[c].todo :
       LET vm == VM(i.name, i.zone) IN
       \/ Exists(vm) /\ Deleted({vm}) /\ SkipInstance(c, i, {})
       \/ Return(c) /\ UNCHANGED <<cloud, abandoned>>
  /\ UNCHANGED <<held, made, destroyed, shared>>

DestroyReturn(c) == BatchDone(c)

Next ==
  \E c \in Callers :
    \/ AnkaClone(c) \/ AnkaStart(c) \/ AnkaRunScript(c)
    \/ AnkaBuildCreate(c) \/ AnkaBuildFind(c) \/ AnkaBuildDelete(c)
    \/ FusionBegin(c) \/ FusionFiles(c) \/ FusionStart(c) \/ FusionRunScript(c)
    \/ DestroyBegin(c) \/ DestroyVM(c) \/ DestroyReturn(c)

=============================================================================
