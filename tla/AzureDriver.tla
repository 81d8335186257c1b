----------------------------- MODULE AzureDriver -----------------------------
(***************************************************************************)
(* The Azure driver (app/drivers/azure/driver.go, util.go).  A VM comes    *)
(* with resources of its own: a virtual network with its subnet, a public  *)
(* address, a network interface and a disk, made in this order and deleted *)
(* one by one by Destroy.  Create undoes nothing when it fails.  The       *)
(* address of the VM under way is kept in the driver value.                *)
(*                                                                         *)
(* Left out: images, tags and security profiles; the security group, which *)
(* is only looked up; Hibernate and Start, which are not implemented.      *)
(***************************************************************************)
EXTENDS DriverCalls

CONSTANT NoZone

PrivateIP == scenario.privateIP                    \* private_ip: no public address is made
UseExistingNetwork == scenario.useExistingNetwork  \* vnet and subnet are given, none is made

Part(kind, c) == Resource(kind, c, NoZone)
ResourceGroup == Resource("group", "harness-runner-resource", NoZone)

AzureInit == [ip |-> "none"]

(* A request that makes R: done; or failed, by when the provider may have  *)
(* made R all the same.                                                    *)
Make(c, R, next) ==
  \/ cloud' = With(R, "azure") /\ next
  \/ (UNCHANGED cloud \/ cloud' = With(R, "azure")) /\ Return(c)

-----------------------------------------------------------------------------
(* createResourceGroup: found or made. *)
CreateResourceGroup(c) ==
  /\ Fresh(c)
  /\ Make(c, {ResourceGroup}, call' = [call EXCEPT ![c] = [pc |-> "network"]])
  /\ UNCHANGED <<abandoned, held, shared>>

(* createVirtualNetwork with createSubnets, or getExistingSubnet. *)
CreateNetwork(c) ==
  /\ call[c].pc = "network"
  /\ Make(c, IF UseExistingNetwork THEN {} ELSE {Part("vnet", c)}, Goto(c, "address"))
  /\ UNCHANGED <<abandoned, held, made, destroyed, shared>>

(* The address: of a public IP, or of the interface made without one.  It  *)
(* goes into the driver value, an address that cannot be read too.         *)
CreateAddress(c) ==
  LET part == IF PrivateIP THEN "nic" ELSE "publicip"
  IN  /\ call[c].pc = "address"
      /\ Make(c, {Part(part, c)}, Goto(c, IF PrivateIP THEN "vm" ELSE "interface"))
      /\ \/ call'[c] # Idle /\ shared' = [shared EXCEPT !.ip = c]
         \/ call'[c] = Idle /\ UNCHANGED shared
         \/ call'[c] = Idle /\ PrivateIP /\ Part(part, c) \in DOMAIN cloud' /\ shared' = AzureInit
      /\ UNCHANGED <<abandoned, held, made, destroyed>>

(* createNetworkInterface *)
CreateNetworkInterface(c) ==
  /\ call[c].pc = "interface"
  /\ Make(c, {Part("nic", c)}, Goto(c, "vm"))
  /\ UNCHANGED <<abandoned, held, made, destroyed, shared>>

(* BeginCreateOrUpdate and its poll: the VM and its disk. *)
CreateVM(c) ==
  /\ call[c].pc = "vm"
  /\ Make(c, {Part("vm", c), Part("disk", c)}, Goto(c, "extension"))
  /\ UNCHANGED <<abandoned, held, made, destroyed, shared>>

(* addExtension on Windows, and mapToInstance, which reads the address     *)
(* from the driver value.                                                  *)
MapToInstance(c) ==
  /\ call[c].pc = "extension"
  /\ Return(c)
  /\ held' = held \cup {[what |-> "vm", name |-> c, zone |-> NoZone, address |-> shared.ip]}
       \/ UNCHANGED held
  /\ UNCHANGED <<cloud, abandoned, made, destroyed, shared>>

-----------------------------------------------------------------------------
(* DestroyInstanceAndStorage deletes the parts of each instance in this    *)
(* order.  The first error ends the call; no list of failed ones is given. *)
DestroyParts == {"vm", "nic", "publicip", "vnet", "disk"}
                  \ ((IF PrivateIP THEN {"publicip"} ELSE {})
                      \cup (IF UseExistingNetwork THEN {"vnet"} ELSE {}))
Order == [vm |-> 1, nic |-> 2, publicip |-> 3, vnet |-> 4, disk |-> 5]

DestroyBegin(c) ==
  /\ call[c] = Idle
  /\ \E batch \in SUBSET HeldVMs \ {{}} :
       call' = [call EXCEPT ![c] = BatchCall(batch, "none")]
  /\ UNCHANGED <<cloud, abandoned, held, made, destroyed, shared>>

DestroyNext(c) ==
  /\ call[c].pc = "next"
  /\ \E i \in call[c].todo : TakeInstance(c, i, "delete", DestroyParts)
  /\ UNCHANGED <<cloud, abandoned, held, made, destroyed, shared>>

(* Mutant of DeletePart: an error is logged and the next part is deleted. *)
DeletePartLogged(c) ==
  LET parts == call[c].parts
  IN  /\ call[c].pc = "delete"
      /\ \E kind \in parts :
           /\ \A k \in parts : Order[kind] <= Order[k]
           /\ cloud' = cloud \/ cloud' = Without({Part(kind, call[c].at.name)})
           /\ IF parts = {kind} THEN NextInstance(c, {})
              ELSE call' = [call EXCEPT ![c].parts = @ \ {kind}]
      /\ UNCHANGED <<abandoned, held, made, destroyed, shared>>

(* One delete and its poll, which may report a failure of what was done. *)
DeletePart(c) ==
  LET parts == call[c].parts
  IN  /\ call[c].pc = "delete"
      /\ \E kind \in parts :
           /\ \A k \in parts : Order[kind] <= Order[k]
           /\ \/ /\ cloud' = Without({Part(kind, call[c].at.name)})
                 /\ IF parts = {kind} THEN NextInstance(c, {})
                    ELSE call' = [call EXCEPT ![c].parts = @ \ {kind}]
              \/ /\ cloud' = cloud \/ cloud' = Without({Part(kind, call[c].at.name)})
                 /\ Return(c)
      /\ UNCHANGED <<abandoned, held, made, destroyed, shared>>

DestroyReturn(c) == BatchDone(c)

Next ==
  \E c \in Callers :
    \/ CreateResourceGroup(c) \/ CreateNetwork(c) \/ CreateAddress(c)
    \/ CreateNetworkInterface(c) \/ CreateVM(c) \/ MapToInstance(c)
    \/ DestroyBegin(c) \/ DestroyNext(c) \/ DeletePart(c) \/ DestroyReturn(c)

=============================================================================
