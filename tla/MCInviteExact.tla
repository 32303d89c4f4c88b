---------------------------- MODULE MCInviteExact ----------------------------
(* Three workers and two tokens, each with a nonce of its own. *)
EXTENDS InviteQuota, TLC

CONSTANTS w1, w2, w3, t1, t2, n1, n2

MCWorkers == {w1, w2, w3}
MCTokens == {t1, t2}
MCNonceOf == (t1 :> n1) @@ (t2 :> n2)
MCMaxUses == (t1 :> 2) @@ (t2 :> 1)
MCUsesCount == (t1 :> 0) @@ (t2 :> 0)
=============================================================================
