----------------------- MODULE MCRedeemChunkContention -----------------------
(* Two chunks on one code and two accounts in one of two worlds, which the  *)
(* start chooses.  In the first the stock is contended for: both kinds of   *)
(* requests, rows with any token, imports and deletions beside them.  In    *)
(* the second the administrator edits and deletes the batch, switches the   *)
(* code and refreshes accounts while redemptions probe with deep checks.    *)
(* Both at once would be too large.                                         *)
EXTENDS MCRedeemChunk

VARIABLE world

Beside == [stock  |-> {"import", "delete"}, office |-> {"batches", "codes", "refresh"}]

MCInit ==
    /\ ChunkInit
    /\ world \in DOMAIN Beside
    /\ world = "office" => \A a \in Accounts : token[a] = "usable"

\* The first world leaves out what deep checks store, the second after-sales
\* and edits of after_sale_limit.
Within ==
    /\ world = "stock" => \A k \in Chunks, a \in Accounts : work'[k][a] # "stored"
    /\ world = "office" => /\ \A k \in Chunks : kind'[k] = "redeem"
                           /\ \A b \in Batches :
                                 batchStatus'[b] # "deleted" => limit'[b] = limit[b]

MCNext ==
    /\ UNCHANGED <<skipProbe, world>>
    /\ \/ \E k \in Chunks : Prepare(k) \/ Step(k) \/ Fail(k) \/ Lost(k)
       \/ Outside(Beside[world])
       \/ TimePasses
    /\ Within

MCSpec == MCInit /\ [][MCNext]_<<allVars, world>>
=============================================================================
