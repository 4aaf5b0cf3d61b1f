-------------------------- MODULE RedeemStoreImpl --------------------------
(* RedeemStore implements RedeemLedger: stock is read off the account rows, *)
(* deliveries off the redemptions, and recalling codes is deleting batches. *)
EXTENDS RedeemStore

Ledger == INSTANCE RedeemLedger WITH
    MaxDeals <- MaxAfterSale + 1,
    stock    <- {a \in Accounts : Unredeemed(a)},
    gone     <- {a \in Accounts : row[a] = "deleted"},
    turn     <- rounds,
    dealt    <- issued

\* Every transaction of the database is a step of the ledger or leaves it
\* alone.  It relates tables that separate statements write: what a batch
\* deletion puts back in stock, found through the accounts' redeem_code_id,
\* is exactly what the redemptions it deletes had delivered and what has not
\* been deleted since.
ImplementsLedger == Ledger!LSpec
=============================================================================
