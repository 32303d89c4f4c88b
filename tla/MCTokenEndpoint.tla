--------------------------- MODULE MCTokenEndpoint ---------------------------
(* Values for model checking TokenEndpoint. *)
EXTENDS TokenEndpoint, TLC

CONSTANTS w1, w2, child, leaf, code

MCWorkers == {w1, w2}
MCChild == {child}
MCChildren == {child, leaf}
MCCodes == {code}
MCKeys == {child, code}
MCLeafKeys == {child, leaf, code}

Symmetry == Permutations(MCWorkers)
=============================================================================
