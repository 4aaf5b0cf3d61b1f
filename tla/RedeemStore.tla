---------------------------- MODULE RedeemStore ----------------------------
(***************************************************************************)
(* The SQLite state of the redemption service and every transaction        *)
(* backend/src/repository.rs commits on it.  SQLite admits one writer at a *)
(* time and every transaction below opens with BEGIN IMMEDIATE (or is one  *)
(* UPDATE), so a transaction is one action.                                *)
(*                                                                         *)
(* What is abstracted:                                                     *)
(*  - ids, secrets and file formats: an account is a row id, its auth file *)
(*    is "usable" (expires later than now plus the refresh grace) or       *)
(*    "stale" (anything else);                                             *)
(*  - created_at order: where the code takes the first rows of an ordered  *)
(*    query, the model takes any rows;                                     *)
(*  - plan filters and the active flag of a pool, which only shrink the    *)
(*    candidates further;                                                  *)
(*  - redeem_code_id, redemption_id and redeemed_at, which every statement *)
(*    writes together: one value, binding, stands for the three.           *)
(***************************************************************************)
EXTENDS Integers, FiniteSets, FiniteSetsExt, Functions

CONSTANTS
    Accounts,      \* ids of account rows; a deleted row's id never returns
    Pools,         \* account pools
    Batches,       \* ids of redeem code batches
    Codes,         \* ids of redeem codes
    Reservations,  \* reservation uuids, each minted at most once
    None,          \* NULL
    BatchOf,       \* the batch each code was created with
    PoolOf,        \* the pool each batch was created in
    MaxPerCode,    \* bound of accounts_per_code (100 in the code)
    MaxAfterSale,  \* bound of after_sale_limit (10 in the code)
    TTL,           \* clock ticks in REDEEM_RESERVATION_TTL_SECONDS
    Outcomes       \* the account statuses probes and refreshes write

AccountStatus == {"available", "at_expired", "refresh_failed", "auth_invalid",
                  "forbidden", "quota_exhausted"}

Deletable == {"at_expired", "refresh_failed", "auth_invalid", "forbidden"}

ASSUME FiniteAssumption ==
    /\ IsFiniteSet(Accounts)
    /\ IsFiniteSet(Codes)
ASSUME NoneAssumption ==
    /\ None \notin Accounts
    /\ None \notin Codes
    /\ None \notin Reservations
    /\ None \notin Codes \X (1 .. MaxAfterSale + 1)
ASSUME CatalogAssumption ==
    /\ BatchOf \in [Codes -> Batches]
    /\ PoolOf \in [Batches -> Pools]
ASSUME BoundAssumption ==
    /\ MaxPerCode \in Nat \ {0}
    /\ MaxAfterSale \in Nat
    /\ TTL \in Nat \ {0}
ASSUME OutcomeAssumption == Outcomes \subseteq AccountStatus

\* A code is redeemed once and reissued at most MaxAfterSale times.
Rounds == 1 .. MaxAfterSale + 1

VARIABLES
    \* table accounts
    row,           \* "none" before import, then "live", then "deleted"
    pool,          \* pool_id
    status,        \* status
    token,         \* whether the stored access token is "usable" or "stale"
    binding,       \* the redemption <<code, round>> that holds the account
    resv,          \* redeem_reservation_id
    age,           \* now - redeem_reserved_at, at most TTL
    minted,        \* reservation ids handed out so far
    \* table redeem_code_batches
    batchStatus,   \* "none" before creation, "active", "disabled", "deleted"
    perCode,       \* accounts_per_code
    limit,         \* after_sale_limit
    expired,       \* expires_at <= now
    redeemedCount, \* redeemed_count
    \* tables redeem_codes, redeem_redemptions, redeem_after_sales
    codeStatus,    \* status of the code
    rounds,        \* redemptions of the code; redemption_id is the last one
    issued,        \* account_ids_json of each redemption
    afterSales     \* successful after-sales of the code

accountVars == <<row, pool, status, token>>
claimVars   == <<resv, age>>
batchVars   == <<batchStatus, perCode, limit, expired>>
saleVars    == <<redeemedCount, codeStatus, rounds, issued, afterSales>>
vars == <<accountVars, binding, claimVars, minted, batchVars, saleVars>>

TypeOK ==
    /\ row \in [Accounts -> {"none", "live", "deleted"}]
    /\ pool \in [Accounts -> Pools \cup {None}]
    /\ status \in [Accounts -> AccountStatus]
    /\ token \in [Accounts -> {"usable", "stale"}]
    /\ binding \in [Accounts -> (Codes \X Rounds) \cup {None}]
    /\ resv \in [Accounts -> Reservations \cup {None}]
    /\ age \in [Accounts -> 0 .. TTL]
    /\ minted \subseteq Reservations
    /\ batchStatus \in [Batches -> {"none", "active", "disabled", "deleted"}]
    /\ perCode \in [Batches -> 1 .. MaxPerCode]
    /\ limit \in [Batches -> 0 .. MaxAfterSale]
    /\ expired \in [Batches -> BOOLEAN]
    /\ redeemedCount \in [Batches -> Nat]
    /\ codeStatus \in [Codes -> {"active", "disabled", "redeemed"}]
    /\ rounds \in [Codes -> 0 .. MaxAfterSale + 1]
    /\ issued \in [Codes -> [Rounds -> SUBSET Accounts]]
    /\ afterSales \in [Codes -> 0 .. MaxAfterSale]

\* An empty database; the fields of absent rows have a fixed value.
Init ==
    /\ row = [a \in Accounts |-> "none"]
    /\ pool = [a \in Accounts |-> None]
    /\ status = [a \in Accounts |-> "available"]
    /\ token = [a \in Accounts |-> "stale"]
    /\ binding = [a \in Accounts |-> None]
    /\ resv = [a \in Accounts |-> None]
    /\ age = [a \in Accounts |-> 0]
    /\ minted = {}
    /\ batchStatus = [b \in Batches |-> "none"]
    /\ perCode = [b \in Batches |-> 1]
    /\ limit = [b \in Batches |-> 0]
    /\ expired = [b \in Batches |-> FALSE]
    /\ redeemedCount = [b \in Batches |-> 0]
    /\ codeStatus = [c \in Codes |-> "active"]
    /\ rounds = [c \in Codes |-> 0]
    /\ issued = [c \in Codes |-> [n \in Rounds |-> {}]]
    /\ afterSales = [c \in Codes |-> 0]

-----------------------------------------------------------------------------
(* Conditions the transactions share.                                      *)

Exists(b) == batchStatus[b] \in {"active", "disabled"}

\* The batch is active and not expired and the code is not disabled.
Open(c) ==
    /\ batchStatus[BatchOf[c]] = "active"
    /\ ~expired[BatchOf[c]]
    /\ codeStatus[c] # "disabled"

CodePool(c) == PoolOf[BatchOf[c]]

Need(c) == perCode[BatchOf[c]]

Current(c) == issued[c][rounds[c]]

Held(r) == {a \in Accounts : resv[a] = r}

\* Mutant: the clean-up skips accounts a probe has found broken meanwhile.
LapsedIfHealthy(a) == resv[a] # None /\ age[a] = TTL /\ status[a] = "available"

Lapsed(a) == resv[a] # None /\ age[a] = TTL

\* What clear_redeem_reservation_tx finds for the reservation r; nothing
\* without one.
Dropped(r) == {a \in Accounts : r # None /\ resv[a] = r}

\* Mutant: a redeemed account passes for stock.
UnredeemedForgotten(a) == row[a] = "live"

Unredeemed(a) == row[a] = "live" /\ binding[a] = None

\* Mutant: the token is not looked at.
FreshByStatus(a) == status[a] = "available"

Fresh(a) == status[a] = "available" /\ token[a] = "usable"

\* The stock a redemption may draw on.
InStock(a) == Unredeemed(a) /\ Fresh(a)

-----------------------------------------------------------------------------
(* Preparing a request: pick the accounts to refresh and probe, and reserve *)
(* them under a new reservation.                                            *)

RedeemDemand(cs) == {c \in cs : Open(c) /\ codeStatus[c] = "active" /\ rounds[c] = 0}

\* Mutant: one after-sale too many.
MayReissueOnceMore(c) == Open(c) /\ rounds[c] > 0 /\ afterSales[c] <= limit[BatchOf[c]]

MayReissue(c) == Open(c) /\ rounds[c] > 0 /\ afterSales[c] < limit[BatchOf[c]]

AfterSaleDemand(cs) == {c \in cs : MayReissue(c)}

\* Mutant: live reservations are overridden.
ClaimableByAnyone(a) == Unredeemed(a) /\ status[a] \in {"available", "at_expired"}

Claimable(a) ==
    /\ Unredeemed(a)
    /\ status[a] \in {"available", "at_expired"}
    /\ resv[a] = None \/ Lapsed(a)

\* redeem_probe_target_count: spare candidates, as many again but 10 at most.
Target(n) == n + (IF n < 10 THEN n ELSE 10)

\* The sets of accounts the two greedy passes may select for the demanded
\* codes D: in each pool as many as wanted or as there are, and one that
\* needs a refresh only once the usable ones are used up.
Selections(D) ==
    {S \in SUBSET {a \in Accounts : Claimable(a)} :
        /\ \A a \in S : \E c \in D : CodePool(c) = pool[a]
        /\ \A p \in Pools :
              LET cands  == {a \in Accounts : Claimable(a) /\ pool[a] = p}
                  fresh  == {a \in cands : Fresh(a)}
                  wanted == SumFunction([c \in {d \in D : CodePool(d) = p} |-> Target(Need(c))])
                  picked == S \cap cands
              IN /\ Cardinality(picked) = IF wanted < Cardinality(cands)
                                          THEN wanted ELSE Cardinality(cands)
                 /\ picked \subseteq fresh \/ fresh \subseteq picked}

\* Lapsed reservations are cleared even when nothing is demanded; then no
\* reservation is made.
Claim(r, S, D) ==
    /\ IF D = {} THEN r = None /\ S = {}
                 ELSE r \in Reservations \ minted /\ S \in Selections(D)
    /\ resv' = [a \in Accounts |-> IF a \in S THEN r
                                   ELSE IF Lapsed(a) THEN None ELSE resv[a]]
    /\ age' = [a \in Accounts |-> IF a \in S \/ Lapsed(a) THEN 0 ELSE age[a]]
    /\ minted' = minted \cup ({r} \ {None})
    /\ UNCHANGED <<accountVars, binding, batchVars, saleVars>>

PrepareRedeem(r, S, cs) == Claim(r, S, RedeemDemand(cs))

PrepareAfterSale(r, S, cs) == Claim(r, S, AfterSaleDemand(cs))

Release(r) ==
    /\ r \in minted
    /\ resv' = [a \in Accounts |-> IF a \in Dropped(r) THEN None ELSE resv[a]]
    /\ age' = [a \in Accounts |-> IF a \in Dropped(r) THEN 0 ELSE age[a]]
    /\ UNCHANGED <<accountVars, binding, minted, batchVars, saleVars>>

Heartbeat(r) ==
    /\ r \in minted
    /\ age' = [a \in Accounts |-> IF resv[a] = r /\ binding[a] = None THEN 0 ELSE age[a]]
    /\ UNCHANGED <<accountVars, binding, resv, minted, batchVars, saleVars>>

-----------------------------------------------------------------------------
(* Settling a request: codes are given accounts under the redemption lock.  *)
(* The caller passes the reservation r, or None, and the accounts V it has  *)
(* verified (all accounts when it did not verify).                          *)

\* Mutant: the reservation is not looked at.
CandidatesAnyHolder(r, V) == {a \in Accounts : InStock(a) /\ a \in V}

\* The rows the candidate queries may return to the holder of r.
Candidates(r, V) ==
    {a \in Accounts : InStock(a) /\ (r = None \/ resv[a] = r) /\ (r # None \/ a \in V)}

\* Assignments of accounts from W to the codes of D: a code gets exactly what
\* it needs, from its pool, or nothing because too few were left for it.
Allotments(W, D) ==
    {to \in [Accounts -> D \cup {None}] :
        /\ \A a \in Accounts : to[a] # None => a \in W /\ pool[a] = CodePool(to[a])
        /\ \A c \in D :
              LET got  == {a \in Accounts : to[a] = c}
                  left == {a \in W : to[a] = None /\ pool[a] = CodePool(c)}
              IN \/ Cardinality(got) = Need(c)
                 \/ got = {} /\ Cardinality(left) < Need(c)}

Got(to, c) == {a \in Accounts : to[a] = c}

Served(to) == {c \in Codes : Got(to, c) # {}}

\* Insert the redemptions, bind the accounts, move the codes to "redeemed"
\* and drop the reservation r.
Deliver(to, r) ==
    /\ binding' = [a \in Accounts |->
                     IF to[a] # None THEN <<to[a], rounds[to[a]] + 1>> ELSE binding[a]]
    /\ issued' = [c \in Codes |-> [n \in Rounds |->
                     IF c \in Served(to) /\ n = rounds[c] + 1
                     THEN Got(to, c) ELSE issued[c][n]]]
    /\ rounds' = [c \in Codes |-> IF c \in Served(to) THEN rounds[c] + 1 ELSE rounds[c]]
    /\ codeStatus' = [c \in Codes |-> IF c \in Served(to) THEN "redeemed" ELSE codeStatus[c]]
    /\ resv' = [a \in Accounts |-> IF a \in Dropped(r) THEN None ELSE resv[a]]
    /\ age' = [a \in Accounts |-> IF a \in Dropped(r) THEN 0 ELSE age[a]]
    /\ UNCHANGED <<accountVars, minted, batchVars>>

\* Mutant: a code that was redeemed before is served again.
SettleDemandTwice(cs) == {c \in cs : Open(c)}

SettleDemand(cs) == {c \in cs : Open(c) /\ rounds[c] = 0}

\* The candidate query is cut to the number of accounts demanded when all
\* codes draw on one pool, and filtered by V only after that.
Windows(M, D) ==
    LET demanded == SumFunction([c \in D |-> Need(c)])
    IN IF Cardinality({CodePool(c) : c \in D}) <= 1 /\ demanded < Cardinality(M)
       THEN kSubset(demanded, M) ELSE {M}

\* Already redeemed codes are exported again from their snapshot, which
\* changes nothing here.
Settle(r, V, cs) ==
    LET D == SettleDemand(cs)
        M == {a \in Candidates(r, V) : \E c \in D : pool[a] = CodePool(c)}
    IN \E W \in Windows(M, D) : \E to \in Allotments(W \cap V, D) :
       /\ Deliver(to, r)
       /\ redeemedCount' = [b \in Batches |-> redeemedCount[b] +
                              Cardinality({c \in Served(to) : BatchOf[c] = b})]
       /\ UNCHANGED afterSales

\* Mutant: the accounts verified are not compared with the current ones.
ReissuableUnverified(c, verified) ==
    /\ MayReissue(c)
    /\ Current(c) # {}
    /\ \A a \in Current(c) : row[a] = "live" /\ status[a] \in Deletable

\* Every account the code holds now was verified by the caller, still has its
\* row and is in a state that entitles to a replacement.
Reissuable(c, verified) ==
    /\ MayReissue(c)
    /\ Current(c) # {}
    /\ Current(c) \subseteq verified
    /\ \A a \in Current(c) : row[a] = "live" /\ status[a] \in Deletable

ReissueDemand(cs, verified) == {c \in cs : Reissuable(c, verified)}

SettleAfterSale(r, verified, V, cs) ==
    \E to \in Allotments(Candidates(r, V) \cap V, ReissueDemand(cs, verified)) :
       /\ Deliver(to, r)
       /\ afterSales' = [c \in Codes |-> IF c \in Served(to) THEN afterSales[c] + 1
                                                             ELSE afterSales[c]]
       /\ UNCHANGED redeemedCount

-----------------------------------------------------------------------------
(* Writes to single accounts: import, deletion, refreshes and probes.       *)

\* A file that is already redeemed changes nothing the model has.
Import(a, p, s, t) ==
    /\ row[a] # "deleted" /\ binding[a] = None
    /\ <<s, t>> \in {<<"available", "usable">>, <<"available", "stale">>,
                     <<"at_expired", "stale">>}
    /\ row' = [row EXCEPT ![a] = "live"]
    /\ pool' = [pool EXCEPT ![a] = p]
    /\ status' = [status EXCEPT ![a] = s]
    /\ token' = [token EXCEPT ![a] = t]
    /\ UNCHANGED <<binding, claimVars, minted, batchVars, saleVars>>

DeleteUnbound(a) ==
    /\ row[a] = "live"
    /\ binding[a] = None \/ status[a] \in Deletable
    /\ row' = [row EXCEPT ![a] = "deleted"]
    /\ pool' = [pool EXCEPT ![a] = None]
    /\ status' = [status EXCEPT ![a] = "available"]
    /\ token' = [token EXCEPT ![a] = "stale"]
    /\ binding' = [binding EXCEPT ![a] = None]
    /\ resv' = [resv EXCEPT ![a] = None]
    /\ age' = [age EXCEPT ![a] = 0]
    /\ UNCHANGED <<minted, batchVars, saleVars>>

\* update_account_auth: the row must still be unredeemed.
StoreAuth(a, s, t) ==
    /\ Unredeemed(a)
    /\ status' = [status EXCEPT ![a] = s]
    /\ token' = [token EXCEPT ![a] = t]
    /\ UNCHANGED <<row, pool, binding, claimVars, minted, batchVars, saleVars>>

\* update_redeemed_account_auth_snapshot: the row must be redeemed.
StoreRedeemedAuth(a, t) ==
    /\ row[a] = "live" /\ binding[a] # None
    /\ token' = [token EXCEPT ![a] = t]
    /\ UNCHANGED <<row, pool, status, binding, claimVars, minted, batchVars, saleVars>>

\* mark_account_status and record_health_check: no condition on the row.
SetStatus(a, s) ==
    /\ row[a] = "live"
    /\ status' = [status EXCEPT ![a] = s]
    /\ UNCHANGED <<row, pool, token, binding, claimVars, minted, batchVars, saleVars>>

-----------------------------------------------------------------------------
(* Administration of batches and codes.                                     *)

CreateBatch(b, n, l, e) ==
    /\ batchStatus[b] = "none"
    /\ batchStatus' = [batchStatus EXCEPT ![b] = "active"]
    /\ perCode' = [perCode EXCEPT ![b] = n]
    /\ limit' = [limit EXCEPT ![b] = l]
    /\ expired' = [expired EXCEPT ![b] = e]
    /\ UNCHANGED <<accountVars, binding, claimVars, minted, saleVars>>

\* Mutant: accounts_per_code may change after the first redemption.
UpdateBatchUnchecked(b, s, n, l, e) ==
    /\ Exists(b)
    /\ batchStatus' = [batchStatus EXCEPT ![b] = s]
    /\ perCode' = [perCode EXCEPT ![b] = n]
    /\ limit' = [limit EXCEPT ![b] = l]
    /\ expired' = [expired EXCEPT ![b] = e]
    /\ UNCHANGED <<accountVars, binding, claimVars, minted, saleVars>>

UpdateBatch(b, s, n, l, e) ==
    /\ Exists(b)
    /\ redeemedCount[b] > 0 => n = perCode[b]
    /\ batchStatus' = [batchStatus EXCEPT ![b] = s]
    /\ perCode' = [perCode EXCEPT ![b] = n]
    /\ limit' = [limit EXCEPT ![b] = l]
    /\ expired' = [expired EXCEPT ![b] = e]
    /\ UNCHANGED <<accountVars, binding, claimVars, minted, saleVars>>

\* The accounts found through the batch's codes and redemptions.  Mutant: only
\* those that can still be sold.
FreedIfUsable(b) ==
    {a \in Accounts : binding[a] # None /\ BatchOf[binding[a][1]] = b /\ Fresh(a)}

Freed(b) == {a \in Accounts : binding[a] # None /\ BatchOf[binding[a][1]] = b}

\* The accounts of the batch become unredeemed again; codes, redemptions and
\* after-sales go with the batch (ON DELETE CASCADE).
DeleteBatch(b) ==
    LET mine == {c \in Codes : BatchOf[c] = b}
    IN /\ Exists(b)
       /\ binding' = [a \in Accounts |-> IF a \in Freed(b) THEN None ELSE binding[a]]
       /\ batchStatus' = [batchStatus EXCEPT ![b] = "deleted"]
       /\ perCode' = [perCode EXCEPT ![b] = 1]
       /\ limit' = [limit EXCEPT ![b] = 0]
       /\ expired' = [expired EXCEPT ![b] = FALSE]
       /\ redeemedCount' = [redeemedCount EXCEPT ![b] = 0]
       /\ codeStatus' = [c \in Codes |-> IF c \in mine THEN "active" ELSE codeStatus[c]]
       /\ rounds' = [c \in Codes |-> IF c \in mine THEN 0 ELSE rounds[c]]
       /\ issued' = [c \in Codes |-> IF c \in mine THEN [n \in Rounds |-> {}] ELSE issued[c]]
       /\ afterSales' = [c \in Codes |-> IF c \in mine THEN 0 ELSE afterSales[c]]
       /\ UNCHANGED <<accountVars, claimVars, minted>>

\* Mutant: a redeemed code can be enabled or disabled.
SetCodeStatusAnytime(c, s) ==
    /\ Exists(BatchOf[c])
    /\ codeStatus' = [codeStatus EXCEPT ![c] = s]
    /\ UNCHANGED <<accountVars, binding, claimVars, minted, batchVars,
                   redeemedCount, rounds, issued, afterSales>>

SetCodeStatus(c, s) ==
    /\ Exists(BatchOf[c])
    /\ codeStatus[c] \in {"active", "disabled"}
    /\ rounds[c] = 0
    /\ codeStatus' = [codeStatus EXCEPT ![c] = s]
    /\ UNCHANGED <<accountVars, binding, claimVars, minted, batchVars,
                   redeemedCount, rounds, issued, afterSales>>

-----------------------------------------------------------------------------
(* The clock, as the rows see it.                                           *)

Tick ==
    /\ \E a \in Accounts : resv[a] # None /\ age[a] < TTL
    /\ age' = [a \in Accounts |-> IF resv[a] # None /\ age[a] < TTL
                                  THEN age[a] + 1 ELSE age[a]]
    /\ UNCHANGED <<accountVars, binding, resv, minted, batchVars, saleVars>>

TokenAges(a) ==
    /\ row[a] = "live" /\ token[a] = "usable"
    /\ token' = [token EXCEPT ![a] = "stale"]
    /\ UNCHANGED <<row, pool, status, binding, claimVars, minted, batchVars, saleVars>>

BatchExpires(b) ==
    /\ Exists(b) /\ ~expired[b]
    /\ expired' = [expired EXCEPT ![b] = TRUE]
    /\ UNCHANGED <<accountVars, binding, claimVars, minted, batchStatus, perCode,
                   limit, saleVars>>

-----------------------------------------------------------------------------

\* A caller may name any accounts as verified; naming one that is not in stock
\* (V) makes no difference to what it gets.  A settle that has not verified the
\* present accounts of some of its codes does what one without these codes
\* does, so that every delivered account passes for verified here.
Requests ==
    \/ \E cs \in SUBSET Codes, r \in Reservations \cup {None} :
          \/ \E S \in SUBSET {a \in Accounts : Claimable(a)} :
                PrepareRedeem(r, S, cs) \/ PrepareAfterSale(r, S, cs)
          \/ /\ r \in minted \cup {None}
             /\ \E V \in SUBSET {a \in Accounts : InStock(a)} :
                   \/ Settle(r, V, cs)
                   \/ SettleAfterSale(r, {a \in Accounts : binding[a] # None}, V, cs)
    \/ \E r \in Reservations : Release(r) \/ Heartbeat(r)

AccountWrites ==
    \E a \in Accounts :
       \/ \E p \in Pools, s \in AccountStatus, t \in {"usable", "stale"} : Import(a, p, s, t)
       \/ DeleteUnbound(a)
       \/ \E s \in Outcomes, t \in {"usable", "stale"} : StoreAuth(a, s, t)
       \/ \E t \in {"usable", "stale"} : StoreRedeemedAuth(a, t)
       \/ \E s \in Outcomes : SetStatus(a, s)

Administration ==
    \/ \E b \in Batches, n \in 1 .. MaxPerCode, l \in 0 .. MaxAfterSale, e \in BOOLEAN :
          \/ CreateBatch(b, n, l, e)
          \/ \E s \in {"active", "disabled"} : UpdateBatch(b, s, n, l, e)
    \/ \E b \in Batches : DeleteBatch(b)
    \/ \E c \in Codes, s \in {"active", "disabled"} : SetCodeStatus(c, s)

Clock ==
    \/ Tick
    \/ \E a \in Accounts : TokenAges(a)
    \/ \E b \in Batches : BatchExpires(b)

Next == Requests \/ AccountWrites \/ Administration \/ Clock

Spec == Init /\ [][Next]_vars

-----------------------------------------------------------------------------
(* Safety.                                                                  *)

\* Each redemption of a code lists what the row of the account says: a live
\* row is bound to a redemption exactly if that redemption lists it.  (The
\* two are written by different statements of the settle, delete-account and
\* delete-batch transactions.)
BindingMatches ==
    \A a \in Accounts, c \in Codes, n \in Rounds :
        binding[a] = <<c, n>> <=> row[a] = "live" /\ a \in issued[c][n]

\* An account is delivered at most once: two redemptions, of two codes or of
\* one code and its after-sale, never list the same account, whether or not
\* the account has been deleted since.
Exclusive ==
    \A c, d \in Codes, m, n \in Rounds :
        issued[c][m] \cap issued[d][n] # {} => c = d /\ m = n

\* The counter of a batch and the status of its codes, both kept beside the
\* redemptions, agree with them: redeemed_count counts the codes that have a
\* redemption, and a code is 'redeemed' exactly if it has one.
CountsAgree ==
    /\ \A b \in Batches :
          redeemedCount[b] = Cardinality({c \in Codes : BatchOf[c] = b /\ rounds[c] > 0})
    /\ \A c \in Codes : codeStatus[c] = "redeemed" <=> rounds[c] > 0

\* Every redemption of a code, the original and each after-sale, delivered
\* exactly the accounts_per_code its batch has now, although the batch may be
\* edited between any two of them.
WholeDeliveries ==
    \A c \in Codes : \A n \in 1 .. rounds[c] : Cardinality(issued[c][n]) = Need(c)

\* A code has one redemption more than it has after-sales; what has not been
\* issued yet is empty.
RoundsAgree ==
    \A c \in Codes :
        /\ rounds[c] > 0 => rounds[c] = afterSales[c] + 1
        /\ rounds[c] = 0 => afterSales[c] = 0
        /\ \A n \in Rounds : n > rounds[c] => issued[c][n] = {}

\* A customer loses an account only by deletion of the account's row, or of
\* the batch of the code: no settle, import, probe or refresh moves an account
\* from one redemption to another or back to stock.
BindingStable ==
    [][\A a \in Accounts : binding[a] # None /\ binding'[a] # binding[a] =>
          \/ row'[a] = "deleted"
          \/ batchStatus'[BatchOf[binding[a][1]]] = "deleted"]_vars

\* README.md says that redeemed accounts are not returned to the allocatable
\* pool.  delete_redeem_batch does return them: this does NOT hold.
NotReturnedToStock ==
    [][\A a \in Accounts : binding[a] # None => ~Unredeemed(a)']_vars

\* A replacement is issued only for a code whose present accounts have all
\* failed and still have their rows, and never beyond the limit the batch
\* has at that moment; the failed accounts stay bound to the redemption that
\* delivered them.
ReissueOnlyFailed ==
    [][\A c \in Codes : rounds[c] > 0 /\ rounds'[c] > rounds[c] =>
          /\ \A a \in Current(c) : status[a] \in Deletable /\ binding'[a] = <<c, rounds[c]>>
          /\ afterSales'[c] <= limit[BatchOf[c]]]_vars

\* What a redemption hands out is usable at that moment and comes from the
\* pool of the code's batch, whatever happened to the accounts since they
\* were selected.
DeliveriesUsable ==
    [][\A a \in Accounts : binding[a] = None /\ binding'[a] # None =>
          /\ row[a] = "live" /\ status[a] = "available" /\ token[a] = "usable"
          /\ pool[a] = CodePool(binding'[a][1])
          /\ Open(binding'[a][1])]_vars
=============================================================================
