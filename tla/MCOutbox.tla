------------------------------- MODULE MCOutbox -------------------------------
(* Finite instances of Outbox for TLC. *)
EXTENDS Outbox, TLC

CONSTANTS j1, j2, r1, r2, p1

OneJob == {j1}
TwoJobs == {j1, j2}
TwoRunners == {r1, r2}
OnePool == {p1}

Symmetry == Permutations({j1, j2}) \cup Permutations({r1, r2})

=============================================================================
