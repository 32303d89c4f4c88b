---------------------------- MODULE MCGraduation ----------------------------
(* Values for model checking Graduation. *)
EXTENDS Graduation, TLC

CONSTANTS u1, u2, w1, w2, w3

MCUsers == {u1, u2}
MCCustodial == {u1}
MCWorkers == {w1, w2}
MCThreeWorkers == {w1, w2, w3}
=============================================================================
