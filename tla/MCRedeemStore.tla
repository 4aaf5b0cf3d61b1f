--------------------------- MODULE MCRedeemStore ---------------------------
(* Three accounts of one pool, two codes of one batch, one account a code   *)
(* and one after-sale: a code, its replacement and another code compete for *)
(* the three accounts.                                                      *)
EXTENDS RedeemStore, TLC

CONSTANTS a1, a2, a3, r1, c1, c2, b1, p1

MCAccounts == {a1, a2, a3}
MCCodes == {c1, c2}
MCBatchOf == [c \in MCCodes |-> b1]
MCPoolOf == [b \in {b1} |-> p1]

\* Accounts, and codes, are interchangeable: no constant tells them apart.
Symmetric == Permutations(MCAccounts) \cup Permutations(MCCodes)
=============================================================================
