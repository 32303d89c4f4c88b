---------------------------- MODULE MCInviteQuota ----------------------------
(* Two tokens minted under one nonce with different budgets: the narrow one *)
(* is unspent, the wide one was minted with one use already spent.          *)
EXTENDS InviteQuota, TLC

CONSTANTS w1, w2, narrow, wide, nonce

MCWorkers == {w1, w2}
MCTokens == {narrow, wide}
MCNonceOf == [t \in MCTokens |-> nonce]
MCMaxUses == (narrow :> 1) @@ (wide :> 3)
MCUsesCount == (narrow :> 0) @@ (wide :> 1)

Symmetry == Permutations(MCWorkers)
=============================================================================
