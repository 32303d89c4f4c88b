-------------------------- MODULE MCEmailIdentity --------------------------
(* Values for model checking EmailIdentity.                                *)
EXTENDS EmailIdentity, TLC

CONSTANTS w1, w2, e1, e2, u1, u2, u3, u4, p1, n1, n2

MCWorkers == {w1, w2}
MCOneWorker == {w1}
MCEmails == {e1, e2}
MCKeys == {"otp", "link"} \X MCEmails
MCUsers == {u1, u2, u3, u4}
MCProfiles == {p1}
MCCodes == {n1, n2}
MCAccounts == {u1, u2}
MCGiven == (u1 :> Absent) @@ (u2 :> e2)
MCWalled == {u2}
MCCustodial == {u1}

Symmetry == Permutations(MCWorkers) \cup Permutations(MCCodes) \cup Permutations({u3, u4})
=============================================================================
