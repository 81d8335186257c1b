------------------------ MODULE MCCapacityReservation ------------------------
(* Instances of CapacityReservation for TLC. *)
EXTENDS CapacityReservation, TLC

Symmetry == Permutations(Setups) \cup Permutations(VMs)

=============================================================================
