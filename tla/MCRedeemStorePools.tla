------------------------- MODULE MCRedeemStorePools -------------------------
(* Two accounts, two codes of different batches in different pools, and up  *)
(* to two accounts a code; no after-sales (MCRedeemStore has those).        *)
EXTENDS RedeemStoreImpl, TLC

CONSTANTS a1, a2, r1, c1, c2, b1, b2, p1, p2

MCAccounts == {a1, a2}
MCBatchOf == (c1 :> b1) @@ (c2 :> b2)
MCPoolOf == (b1 :> p1) @@ (b2 :> p2)

\* The two accounts are interchangeable, and so are the two batches together
\* with their codes and pools.
Swap == (c1 :> c2) @@ (c2 :> c1) @@ (b1 :> b2) @@ (b2 :> b1) @@ (p1 :> p2) @@ (p2 :> p1)

Symmetric == Permutations(MCAccounts) \cup {Swap}
=============================================================================
