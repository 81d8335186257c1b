------------------------------ MODULE TartHost ------------------------------
(***************************************************************************)
(* One Mac host of the Nomad driver (app/drivers/nomad/mac_virtualizer.go):*)
(* the start-up and destroy scripts of its Tart VMs, which run side by     *)
(* side.  They share the image cache and the packet filter's anchor file,  *)
(* which holds one forwarding rule per VM and is rewritten under a lock: a *)
(* directory that a script makes, and that a script which has waited too   *)
(* long removes to go on without a lock of its own.                        *)
(*                                                                         *)
(* `cloud` holds the VMs, `call` the script of each, `shared` the host.    *)
(* Each VM has a port of its own, known by the VM.  Left out: passwords,   *)
(* sizes and the registry's credentials.  A script is killed when its init *)
(* job is deregistered, and the destroy script starts after that.          *)
(***************************************************************************)
EXTENDS DriverCalls

CONSTANTS
  ImageOf,    \* VM_IMAGE of each VM
  Qualified,  \* the fully qualified images
  Addresses,  \* the addresses the host gives to its VMs
  Matches,    \* for each address, the addresses whose lines sed takes for its own
  NoLock      \* no lock directory

TartInit == [images |-> {}, anchor |-> {}, pf |-> {}, lock |-> NoLock, broken |-> FALSE]

VM(c) == Resource("vm", c, "host")
Address(c) == cloud[VM(c)].ip
Rule(c) == [ip |-> Address(c), port |-> c]

(* An address that no other address matches. *)
Apart(ip) == \A a \in Addresses \ {ip} : ip \notin Matches[a]

Exit(c) == Return(c) /\ UNCHANGED <<cloud, shared, held>>

-----------------------------------------------------------------------------
(* generateStartupScript.  The list of images is read once, at the start.  *)
StartScript(c) ==
  /\ Fresh(c)
  /\ call' = [call EXCEPT ![c] = [pc |-> "images", list |-> shared.images, locked |-> FALSE,
                                    copy |-> {}, destroy |-> FALSE]]
  /\ UNCHANGED <<cloud, abandoned, held, shared>>

(* A fully qualified image that is not in the list is pulled, after the    *)
(* other fully qualified ones of the list were deleted, best effort.       *)
CleanUpImages(c) ==
  LET image == ImageOf[c]
      others == (call[c].list \cap Qualified) \ {image}
  IN  /\ call[c].pc = "images"
      /\ IF image \in Qualified \ call[c].list
         THEN /\ \E some \in SUBSET others : shared' = [shared EXCEPT !.images = @ \ some]
              /\ Goto(c, "pull")
         ELSE Goto(c, "clone") /\ UNCHANGED shared
      /\ UNCHANGED <<cloud, abandoned, held, made, destroyed>>

(* tart pull, skipped without a registry; a failure ends the script. *)
PullImage(c) ==
  /\ call[c].pc = "pull"
  /\ \/ /\ shared' = [shared EXCEPT !.images = @ \cup {ImageOf[c]}]
        /\ Goto(c, "clone") /\ UNCHANGED <<cloud, held>>
     \/ Goto(c, "clone") /\ UNCHANGED <<cloud, shared, held>>
     \/ Exit(c)
  /\ UNCHANGED <<abandoned, made, destroyed>>

(* tart clone of an image that may have been deleted since; then set, run, *)
(* the wait for an address, and stop.                                      *)
CloneAndBoot(c) ==
  /\ call[c].pc = "clone"
  /\ \/ /\ ImageOf[c] \in shared.images \/ ImageOf[c] \notin Qualified
        /\ \E ip \in Addresses \ {cloud[r].ip : r \in DOMAIN cloud} : Add(VM(c), [ip |-> ip])
        /\ Goto(c, "lock") \/ Return(c)
        /\ UNCHANGED <<shared, held>>
     \/ Exit(c)
  /\ UNCHANGED <<abandoned, made, destroyed>>

-----------------------------------------------------------------------------
(* Mutant of Lock: it waits for the lock as long as it takes. *)
LockUnbroken(c) ==
  /\ call[c].pc = "lock"
  /\ \/ /\ shared.lock = NoLock
        /\ shared' = [shared EXCEPT !.lock = c]
        /\ call' = [call EXCEPT ![c].pc = "sed", ![c].locked = TRUE]
     \/ shared.lock # NoLock /\ UNCHANGED <<call, shared>>
  /\ UNCHANGED <<cloud, abandoned, held, made, destroyed>>

(* Mutant of Lock: the directory is not looked at. *)
LockIgnored(c) ==
  /\ call[c].pc = "lock"
  /\ Goto(c, "sed")
  /\ UNCHANGED <<cloud, abandoned, held, made, destroyed, shared>>

(* lockFunction: mkdir is the lock.  After MAX_RETRIES the directory is    *)
(* removed, whoever made it, and the script goes on without one.           *)
Lock(c) ==
  /\ call[c].pc = "lock"
  /\ \/ /\ shared.lock = NoLock
        /\ shared' = [shared EXCEPT !.lock = c]
        /\ call' = [call EXCEPT ![c].pc = "sed", ![c].locked = TRUE]
     \/ /\ shared.lock # NoLock
        /\ shared' = [shared EXCEPT !.lock = NoLock, !.broken = TRUE]
        /\ Goto(c, "sed")
  /\ UNCHANGED <<cloud, abandoned, held, made, destroyed>>

(* UnlockFunction: only a script that has not broken the lock removes it,  *)
(* and then whatever directory is there.                                   *)
Unlock(c) == IF call[c].locked THEN [shared EXCEPT !.lock = NoLock] ELSE shared

(* sed -i reads the anchor file and replaces it by a copy without the      *)
(* lines that match the VM's address, a pattern that is not anchored: the  *)
(* line of 192.168.64.20 matches 192.168.64.2.                             *)
SedRead(c) ==
  /\ call[c].pc = "sed"
  /\ call' = [call EXCEPT ![c].pc = "write",
                          ![c].copy = {r \in shared.anchor : r.ip \notin Matches[Address(c)]}]
  /\ UNCHANGED <<cloud, abandoned, held, made, destroyed, shared>>

SedWrite(c) ==
  /\ call[c].pc = "write"
  /\ shared' = [shared EXCEPT !.anchor = call[c].copy]
  /\ Goto(c, IF call[c].destroy THEN "delete" ELSE "append")
  /\ UNCHANGED <<cloud, abandoned, held, made, destroyed>>

(* tee -a, then pfctl loads the file; the lock is released. *)
AppendRule(c) ==
  /\ call[c].pc = "append"
  /\ shared' = [shared EXCEPT !.anchor = @ \cup {Rule(c)}]
  /\ Goto(c, "load")
  /\ UNCHANGED <<cloud, abandoned, held, made, destroyed>>

LoadRules(c) ==
  /\ call[c].pc = "load"
  /\ shared' = [Unlock(c) EXCEPT !.pf = shared.anchor]
  /\ Goto(c, "connect")
  /\ UNCHANGED <<cloud, abandoned, held, made, destroyed>>

(* tart run again, the wait for ssh, getStartCloudInitScript and           *)
(* getPostStartUpScript with its check of the lite engine.                 *)
CloudInit(c) ==
  /\ call[c].pc = "connect"
  /\ Return(c)
  /\ held' = held \cup {[what |-> "vm", name |-> c, zone |-> "host"]} \/ UNCHANGED held
  /\ UNCHANGED <<cloud, abandoned, made, destroyed, shared>>

(* set -e, or the end of the init job: the script ends where it is, with   *)
(* the lock directory in place.                                            *)
Killed(c) ==
  /\ call[c].pc \in {"lock", "sed", "write", "append", "load"} /\ ~call[c].destroy
  /\ Exit(c)
  /\ UNCHANGED <<abandoned, made, destroyed>>

-----------------------------------------------------------------------------
(* GetDestroyScriptGenerator: the VM's lines leave the anchor file and the *)
(* VM is stopped and deleted, all under the lock.                          *)
DestroyScript(c) ==
  /\ call[c] = Idle /\ Exists(VM(c))
  /\ call' = [call EXCEPT ![c] = [pc |-> "lock", list |-> {}, locked |-> FALSE,
                                    copy |-> {}, destroy |-> TRUE]]
  /\ held' = {i \in held : i.name # c}
  /\ UNCHANGED <<cloud, abandoned, made, destroyed, shared>>

DeleteVM(c) ==
  /\ call[c].pc = "delete"
  /\ BestEffort({VM(c)})
  /\ shared' = Unlock(c)
  /\ Return(c)
  /\ UNCHANGED <<held, made, destroyed>>

-----------------------------------------------------------------------------
ScriptStep(c) ==
  \/ CleanUpImages(c) \/ PullImage(c) \/ CloneAndBoot(c) \/ Lock(c) \/ SedRead(c)
  \/ SedWrite(c) \/ AppendRule(c) \/ LoadRules(c) \/ CloudInit(c) \/ Killed(c)
  \/ DeleteVM(c)

Next == \E c \in Callers : StartScript(c) \/ DestroyScript(c) \/ ScriptStep(c)

=============================================================================
