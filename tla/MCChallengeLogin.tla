-------------------------- MODULE MCChallengeLogin --------------------------
(* One challenge; a staff holder, one with a disabled account, and one the *)
(* beta gate stops.                                                        *)
EXTENDS ChallengeLogin, TLC

CONSTANTS w1, w2, staff, disabled, gated

MCWorkers == {w1, w2}
MCDids == {staff, disabled, gated}
MCAdmitted == {staff, disabled}
MCActive == {staff, gated}
MCStaff == {staff}

Symmetry == Permutations(MCWorkers)
=============================================================================
