----------------------------- MODULE MCAirlock -----------------------------
(* Values for model checking Airlock: a user whom the gate admits and one  *)
(* it stops, who is staff.                                                 *)
EXTENDS Airlock, TLC

CONSTANTS w1, w2, k1, k2, k3, member, guest

MCWorkers == {w1, w2}
MCKeys == {k1, k2, k3}
MCUsers == {member, guest}
MCAdmitted == {member}
MCStaff == {guest}

Symmetry == Permutations(MCWorkers) \cup Permutations(MCKeys)
=============================================================================
