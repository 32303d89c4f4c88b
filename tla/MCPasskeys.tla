----------------------------- MODULE MCPasskeys -----------------------------
(* One credential on two authenticators, of which one may not count.        *)
EXTENDS Passkeys, TLC

CONSTANTS w1, w2, k1, k2, alice, bob, key1, phone, clone

MCWorkers == {w1, w2}
MCKeys == {k1, k2}
MCUsers == {alice, bob}
MCActive == {alice}
MCCreds == {key1}
MCDevices == {phone, clone}
MCSilent == {clone}
MCHolds == (phone :> key1) @@ (clone :> key1)

Symmetry == Permutations(MCWorkers) \cup Permutations(MCKeys)
=============================================================================
