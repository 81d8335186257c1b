-------------------------------- MODULE VMLease --------------------------------
(***************************************************************************)
(* What the pool manager promises about VMs, with no rows, copies or       *)
(* actors: a VM lives once, is leased to at most one stage and that for    *)
(* good, enters the inventory once, and leaves it dead or given up as lost.*)
(***************************************************************************)
CONSTANTS VMs, Stages, NoVM

VARIABLES
  fate,    \* "unborn", "live" or "dead", for each VM
  lease,   \* the VM each stage got, or NoVM
  tracked, \* the inventory: VMs the manager can still find
  lost     \* VMs given up while live

vars == <<fate, lease, tracked, lost>>

Init ==
  /\ fate = [v \in VMs |-> "unborn"]
  /\ lease = [s \in Stages |-> NoVM]
  /\ tracked = {} /\ lost = {}

Create(v) ==
  /\ fate[v] = "unborn"
  /\ fate' = [fate EXCEPT ![v] = "live"]
  /\ UNCHANGED <<tracked, lost>>

Unleased(v) == \A s \in Stages : lease[s] # v

LeaseTo(s, v) ==
  /\ lease[s] = NoVM /\ Unleased(v)
  /\ lease' = [lease EXCEPT ![s] = v]

CreateForPool(v) == Create(v) /\ UNCHANGED lease

CreateForStage(s, v) == Create(v) /\ LeaseTo(s, v)

Track(v) ==
  /\ fate[v] = "live"
  /\ v \notin tracked \cup lost
  /\ tracked' = tracked \cup {v}
  /\ UNCHANGED <<fate, lease, lost>>

LeaseTracked(s, v) ==
  /\ v \in tracked
  /\ LeaseTo(s, v)
  /\ UNCHANGED <<fate, tracked, lost>>

Destroy(v) ==
  /\ fate[v] = "live"
  /\ fate' = [fate EXCEPT ![v] = "dead"]
  /\ UNCHANGED <<lease, tracked, lost>>

Untrack(gone, givenUp) ==
  /\ gone \cup givenUp \subseteq tracked
  /\ \A v \in gone : fate[v] = "dead"
  /\ tracked' = tracked \ (gone \cup givenUp)
  /\ lost' = lost \cup givenUp
  /\ UNCHANGED <<fate, lease>>

Next ==
  \/ \E v \in VMs : CreateForPool(v) \/ Track(v) \/ Destroy(v)
  \/ \E s \in Stages, v \in VMs : CreateForStage(s, v) \/ LeaseTracked(s, v)
  \/ \E gone, givenUp \in SUBSET tracked : Untrack(gone, givenUp)

Spec == Init /\ [][Next]_vars

=============================================================================
