--------------------------- MODULE MCRedeemSettle ---------------------------
(* Three accounts of one pool, in stock or delivered to two codes of one    *)
(* batch: the codes of a request compete for what is left.                  *)
EXTENDS RedeemSettle, TLC

CONSTANTS a1, a2, a3, r1, c1, c2, b1, p1

MCBatchOf == [c \in Codes |-> b1]
MCPoolOf == [b \in {b1} |-> p1]

Symmetric == Permutations(Accounts) \cup Permutations(Codes)

\* Databases with every account in stock or delivered to a code.
MCInit ==
    /\ row = [a \in Accounts |-> "live"]
    /\ pool = [a \in Accounts |-> p1]
    /\ status \in [Accounts -> Outcomes]
    /\ token = [a \in Accounts |-> "usable"]
    /\ resv \in [Accounts -> {None, r1}]
    /\ age = [a \in Accounts |-> 0]
    /\ minted = {r1}
    /\ batchStatus = [b \in Batches |-> "active"]
    /\ perCode \in [Batches -> 1 .. MaxPerCode]
    /\ limit = [b \in Batches |-> MaxAfterSale]
    /\ expired = [b \in Batches |-> FALSE]
    /\ \E owner \in [Accounts -> (Codes \X Rounds) \cup {None}] :
          LET got(c, n) == {a \in Accounts : owner[a] = <<c, n>>}
          IN /\ \A c \in Codes, n \in Rounds : Cardinality(got(c, n)) \in {0, Need(c)}
             /\ \A c \in Codes : got(c, 1) = {} => got(c, 2) = {}
             /\ binding = owner
             /\ issued = [c \in Codes |-> [n \in Rounds |-> got(c, n)]]
             /\ rounds = [c \in Codes |-> Cardinality({n \in Rounds : got(c, n) # {}})]
    /\ codeStatus = [c \in Codes |-> IF rounds[c] > 0 THEN "redeemed" ELSE "active"]
    /\ redeemedCount = [b \in Batches |-> Cardinality({c \in Codes : rounds[c] > 0})]
    /\ afterSales = [c \in Codes |-> IF rounds[c] = 2 THEN 1 ELSE 0]
    /\ Closed

\* Between transactions, databases like these are explored further; the others
\* are looked at as the result of one transaction.
InUse ==
    stage = "idle" =>
        /\ \A a \in Accounts : row[a] = "live" /\ token[a] = "usable" /\ age[a] = 0
        /\ minted = {r1}
        /\ \A c \in Codes : codeStatus[c] # "disabled"
        /\ \A b \in Batches : /\ batchStatus[b] = "active" /\ ~expired[b]
                              /\ limit[b] = MaxAfterSale

MCSpec == MCInit /\ [][SettleNext]_allVars
=============================================================================
