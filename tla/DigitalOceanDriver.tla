-------------------------- MODULE DigitalOceanDriver --------------------------
(***************************************************************************)
(* The DigitalOcean driver (app/drivers/digitalocean/driver.go).  A        *)
(* droplet is made first and put behind the runner's firewall afterwards;  *)
(* the firewall's id is looked up or made once and kept in the driver      *)
(* value.  A Create that fails leaves its droplet.                         *)
(*                                                                         *)
(* Left out: keys, tags and user data; Hibernate and Start, which do       *)
(* nothing and report success.                                             *)
(***************************************************************************)
EXTENDS DriverCalls

CONSTANT NoZone

Droplet(c) == Resource("vm", c, NoZone)
Firewall == Resource("firewall", "harness-runner", NoZone)

DigitalOceanInit == [firewallID |-> FALSE]

CreateDroplet(c) ==
  /\ Fresh(c)
  /\ \/ /\ Add(Droplet(c), [firewall |-> FALSE])
        /\ call' = [call EXCEPT ![c] = [pc |-> "firewall"]]
     \/ UNCHANGED <<cloud, call>>
  /\ UNCHANGED <<abandoned, held, shared>>

(* getFirewallID: kept, found or made. *)
GetFirewallID(c) ==
  /\ call[c].pc = "firewall"
  /\ \/ /\ shared' = [shared EXCEPT !.firewallID = TRUE]
        /\ cloud' = IF shared.firewallID \/ Exists(Firewall) THEN cloud
                    ELSE With({Firewall}, "firewall")
        /\ Goto(c, "add")
     \/ ~shared.firewallID /\ Return(c) /\ UNCHANGED <<cloud, shared>>
  /\ UNCHANGED <<abandoned, held, made, destroyed>>

AddDroplets(c) ==
  /\ call[c].pc = "add"
  /\ \/ cloud' = [cloud EXCEPT ![Droplet(c)].firewall = TRUE] /\ Goto(c, "poll")
     \/ Return(c) /\ UNCHANGED cloud
  /\ UNCHANGED <<abandoned, held, made, destroyed, shared>>

(* The poll for the address: when the context ends, or a look fails, the   *)
(* caller gets the instance together with an error and drops it.           *)
PollDroplet(c) ==
  /\ call[c].pc = "poll"
  /\ Return(c)
  /\ \/ held' = held \cup {[what |-> "vm", name |-> c, zone |-> NoZone]}
     \/ UNCHANGED held
  /\ UNCHANGED <<cloud, abandoned, made, destroyed, shared>>

DestroyBegin(c) ==
  /\ call[c] = Idle
  /\ \E batch \in SUBSET HeldVMs \ {{}} :
       call' = [call EXCEPT ![c] = BatchCall(batch, "none")]
  /\ UNCHANGED <<cloud, abandoned, held, made, destroyed, shared>>

(* The look before the delete: a droplet that does not exist is an error,  *)
(* which ends the call like any other.                                     *)
DestroyGet(c) ==
  /\ call[c].pc = "next"
  /\ \E i \in call[c].todo :
       \/ Exists(Droplet(i.name)) /\ TakeInstance(c, i, "delete", {})
       \/ Return(c)
  /\ UNCHANGED <<cloud, abandoned, held, made, destroyed, shared>>

DestroyDelete(c) ==
  LET droplet == Droplet(call[c].at.name)
  IN  /\ call[c].pc = "delete"
      /\ \/ Exists(droplet) /\ Deleted({droplet}) /\ NextInstance(c, {})
         \/ Return(c) /\ UNCHANGED <<cloud, abandoned>>
      /\ UNCHANGED <<held, made, destroyed, shared>>

DestroyReturn(c) == BatchDone(c)

Next ==
  \E c \in Callers :
    \/ CreateDroplet(c) \/ GetFirewallID(c) \/ AddDroplets(c) \/ PollDroplet(c)
    \/ DestroyBegin(c) \/ DestroyGet(c) \/ DestroyDelete(c) \/ DestroyReturn(c)

=============================================================================
