--------------------------- MODULE MCRedeemChunk ---------------------------
(* One batch with one code in one pool; the configurations choose how many  *)
(* accounts and chunks there are and what happens beside the chunks.        *)
EXTENDS RedeemChunk, TLC

MCBatchOf == [c \in Codes |-> CHOOSE b \in Batches : TRUE]
MCPoolOf == [b \in Batches |-> CHOOSE p \in Pools : TRUE]

\* Accounts, reservation uuids and chunks are interchangeable: no constant
\* tells one of them from another.
Symmetric == Permutations(Accounts) \cup Permutations(Reservations) \cup Permutations(Chunks)
=============================================================================
