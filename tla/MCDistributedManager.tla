------------------------- MODULE MCDistributedManager -------------------------
(* Finite instances of DistributedManager for TLC. *)
EXTENDS DistributedManager, TLC

CONSTANTS v1, v2, s1, s2, r1, r2

OneVM == {v1}
TwoVMs == {v1, v2}
OneStage == {s1}
TwoStages == {s1, s2}
OneReaper == {r1}
TwoReapers == {r1, r2}
NoRetain == {}
RetainOne == {s1}

(* Reapers work, and time passes, while there is one VM; stages, the       *)
(* pooler and crashes also meet with two VMs at once.                      *)
OneVMForReapers ==
  \/ \E v \in VMs : \A w \in VMs \ {v} : cloud[w] = "absent"
  \/ /\ \A r \in Reapers : step[r] = "idle" /\ job[r] = "busy"
     /\ \A v \in VMs : rows[v].age = 0

ActorSymmetry == Permutations({v1, v2}) \cup Permutations({s1, s2}) \cup Permutations({r1, r2})

=============================================================================
