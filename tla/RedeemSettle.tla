---------------------------- MODULE RedeemSettle ----------------------------
(***************************************************************************)
(* The two transactions that hand out accounts, statement by statement:    *)
(* redeem_codes_for_export_batch and                                       *)
(* redeem_after_sale_for_export_with_prepared_accounts.  RedeemStore has   *)
(* each of them as one action, Settle and SettleAfterSale, which assigns   *)
(* accounts to all codes at once.  The code goes through the codes one by  *)
(* one, works on what it has taken so far, writes one table after the      *)
(* other and may fail at any statement.  Here that is spelled out, and     *)
(* what is committed is shown to be what RedeemStore says.                 *)
(*                                                                         *)
(* From BEGIN IMMEDIATE to the end no other transaction writes, and the    *)
(* transaction judges by the time it has read before that: while it is     *)
(* open, nothing else happens and the clock stands still.                  *)
(***************************************************************************)
EXTENDS RedeemStore

VARIABLES
    stage,     \* what the open transaction does next; "idle" without one
    kind,      \* "redeem" or "after_sale"
    rsv,       \* reservation_id
    verified,  \* accounts the caller lets the transaction hand out
    seen,      \* accounts whose failure the caller has verified (after-sale)
    asked,     \* raw_codes
    left,      \* the codes of the loop that are still to come
    pot,       \* what the candidate query of a redemption returned
    given,     \* allocations: the accounts taken for each code
    view       \* the tables as the transaction sees them, its own writes included

request == <<kind, rsv, verified, seen, asked>>
settleVars == <<stage, request, left, pot, given, view>>
allVars == <<vars, settleVars>>

\* What the transaction writes, as it is committed.
Tables == [binding |-> binding, issued |-> issued, rounds |-> rounds,
           codeStatus |-> codeStatus, redeemedCount |-> redeemedCount,
           afterSales |-> afterSales, resv |-> resv, age |-> age]

NothingGiven == [c \in Codes |-> {}]

Taken == UNION {given[c] : c \in Codes}

\* Without an open transaction its variables have fixed values.
Closed ==
    /\ stage = "idle" /\ kind = "redeem"
    /\ rsv = None /\ verified = {} /\ seen = {} /\ asked = {}
    /\ left = {} /\ pot = {} /\ given = NothingGiven /\ view = None

Close ==
    /\ stage' = "idle" /\ kind' = "redeem"
    /\ rsv' = None /\ verified' = {} /\ seen' = {} /\ asked' = {}
    /\ left' = {} /\ pot' = {} /\ given' = NothingGiven /\ view' = None

Stages == {"idle", "allocate", "bind", "mark", "count", "reissue", "clear", "commit"}

View == [binding : [Accounts -> (Codes \X Rounds) \cup {None}],
         issued : [Codes -> [Rounds -> SUBSET Accounts]],
         rounds : [Codes -> 0 .. MaxAfterSale + 1],
         codeStatus : [Codes -> {"active", "disabled", "redeemed"}],
         redeemedCount : [Batches -> Nat],
         afterSales : [Codes -> 0 .. MaxAfterSale],
         resv : [Accounts -> Reservations \cup {None}],
         age : [Accounts -> 0 .. TTL]]

SettleTypeOK ==
    /\ stage \in Stages /\ kind \in {"redeem", "after_sale"}
    /\ rsv \in minted \cup {None}
    /\ verified \subseteq Accounts /\ seen \subseteq Accounts
    /\ asked \subseteq Codes /\ left \subseteq asked
    /\ pot \subseteq Accounts
    /\ given \in [Codes -> SUBSET Accounts]
    /\ stage = "idle" => view = None
    /\ stage # "idle" => view \in View

SettleInit == Init /\ Closed

-----------------------------------------------------------------------------

\* Neither loop looks at a code twice (seen_hashes).
Begin(knd, r, V, old, cs) ==
    /\ stage = "idle"
    /\ kind' = knd /\ rsv' = r /\ verified' = V /\ seen' = old /\ asked' = cs
    /\ given' = NothingGiven
    /\ view' = Tables
    /\ UNCHANGED vars

-----------------------------------------------------------------------------
(* Redemption: the demands and the candidates are read, then each demand    *)
(* takes its accounts, then the tables are written one after the other.     *)

BeginRedeem(r, V, cs) ==
    LET D == SettleDemand(cs)
        M == {a \in Candidates(r, V) : \E c \in D : pool[a] = CodePool(c)}
    IN /\ Begin("redeem", r, V, {}, cs)
       /\ stage' = "allocate"
       /\ left' = D
       /\ pot' \in Windows(M, D)

\* Mutant: selected_ids is not consulted.
SuitableTwice(c) == {a \in pot \cap verified : pool[a] = CodePool(c)}

\* The candidates that match the demand of c and that no demand has taken.
Suitable(c) == {a \in (pot \cap verified) \ Taken : pool[a] = CodePool(c)}

Allocate(c) ==
    /\ stage = "allocate" /\ c \in left
    /\ left' = left \ {c}
    /\ \/ \E S \in kSubset(Need(c), Suitable(c)) : given' = [given EXCEPT ![c] = S]
       \/ Cardinality(Suitable(c)) < Need(c) /\ given' = given
    /\ UNCHANGED <<vars, stage, request, pot, view>>

InsertRedemptions ==
    /\ stage = "allocate" /\ left = {}
    /\ stage' = "bind"
    /\ view' = [view EXCEPT !.issued =
                  [c \in Codes |-> [n \in Rounds |->
                     IF given[c] # {} /\ n = view.rounds[c] + 1 THEN given[c]
                                                                ELSE view.issued[c][n]]]]
    /\ UNCHANGED <<vars, request, left, pot, given>>

\* rows_affected() is the number of account_updates: no account is updated
\* twice, and none is redeemed already.  Otherwise the transaction ends in an
\* error (Abandon).
RowsAffected ==
    /\ \A c, d \in Codes : c # d => given[c] \cap given[d] = {}
    /\ \A a \in Taken : row[a] = "live" /\ view.binding[a] = None

Taker(a) == CHOOSE c \in Codes : a \in given[c]

BindAccounts ==
    /\ stage = "bind" /\ RowsAffected
    /\ stage' = "mark"
    /\ view' = [view EXCEPT !.binding =
                  [a \in Accounts |-> IF a \in Taken THEN <<Taker(a), view.rounds[Taker(a)] + 1>>
                                                     ELSE view.binding[a]]]
    /\ UNCHANGED <<vars, request, left, pot, given>>

MarkCodes ==
    /\ stage = "mark"
    /\ stage' = "count"
    /\ view' = [view EXCEPT
          !.rounds = [c \in Codes |-> IF given[c] # {} THEN view.rounds[c] + 1 ELSE view.rounds[c]],
          !.codeStatus = [c \in Codes |-> IF given[c] # {} THEN "redeemed" ELSE view.codeStatus[c]]]
    /\ UNCHANGED <<vars, request, left, pot, given>>

CountCodes ==
    /\ stage = "count"
    /\ stage' = "clear"
    /\ view' = [view EXCEPT !.redeemedCount =
                  [b \in Batches |-> view.redeemedCount[b] +
                     Cardinality({c \in Codes : given[c] # {} /\ BatchOf[c] = b})]]
    /\ UNCHANGED <<vars, request, left, pot, given>>

-----------------------------------------------------------------------------
(* After-sale: each code is read, judged, given accounts and written before *)
(* the next one is read.                                                    *)

BeginAfterSale(r, old, V, cs) ==
    /\ Begin("after_sale", r, V, old, cs)
    /\ stage' = "reissue"
    /\ left' = cs
    /\ pot' = {}

\* Mutant: one after-sale too many.
EntitledOnceMore(c) ==
    LET present == view.issued[c][view.rounds[c]]
    IN /\ batchStatus[BatchOf[c]] = "active" /\ ~expired[BatchOf[c]]
       /\ view.codeStatus[c] # "disabled"
       /\ view.rounds[c] > 0
       /\ view.afterSales[c] <= limit[BatchOf[c]]
       /\ present # {} /\ present \subseteq seen
       /\ \A a \in present : row[a] = "live" /\ status[a] \in Deletable

Entitled(c) ==
    LET present == view.issued[c][view.rounds[c]]
    IN /\ batchStatus[BatchOf[c]] = "active" /\ ~expired[BatchOf[c]]
       /\ view.codeStatus[c] # "disabled"
       /\ view.rounds[c] > 0
       /\ view.afterSales[c] < limit[BatchOf[c]]
       /\ present # {} /\ present \subseteq seen
       /\ \A a \in present : row[a] = "live" /\ status[a] \in Deletable

\* Mutant: the query runs on the pool of connections, not on the transaction,
\* and does not see what the codes before c were given.
ReplacementsCommitted(c) ==
    {a \in verified : InStock(a) /\ pool[a] = CodePool(c) /\ (rsv = None \/ resv[a] = rsv)}

Replacements(c) ==
    {a \in verified : /\ row[a] = "live" /\ view.binding[a] = None /\ Fresh(a)
                      /\ pool[a] = CodePool(c)
                      /\ rsv = None \/ view.resv[a] = rsv}

Reissue(c) ==
    /\ stage = "reissue" /\ c \in left
    /\ left' = left \ {c}
    /\ Entitled(c)
    /\ \E S \in kSubset(Need(c), Replacements(c)) :
          LET n == view.rounds[c] + 1
          IN /\ given' = [given EXCEPT ![c] = S]
             /\ view' = [view EXCEPT
                   !.issued = [view.issued EXCEPT ![c] = [view.issued[c] EXCEPT ![n] = S]],
                   !.binding = [a \in Accounts |-> IF a \in S THEN <<c, n>> ELSE view.binding[a]],
                   !.rounds = [view.rounds EXCEPT ![c] = n],
                   !.codeStatus = [view.codeStatus EXCEPT ![c] = "redeemed"],
                   !.afterSales = [view.afterSales EXCEPT ![c] = view.afterSales[c] + 1]]
    /\ UNCHANGED <<vars, stage, request, pot>>

Refuse(c) ==
    /\ stage = "reissue" /\ c \in left
    /\ left' = left \ {c}
    /\ Entitled(c) => Cardinality(Replacements(c)) < Need(c)
    /\ UNCHANGED <<vars, stage, request, pot, given, view>>

-----------------------------------------------------------------------------
(* The end of both.                                                         *)

ClearReservation ==
    /\ stage = "clear" \/ (stage = "reissue" /\ left = {})
    /\ stage' = "commit"
    /\ view' = [view EXCEPT
          !.resv = [a \in Accounts |-> IF rsv # None /\ view.resv[a] = rsv THEN None
                                                                           ELSE view.resv[a]],
          !.age = [a \in Accounts |-> IF rsv # None /\ view.resv[a] = rsv THEN 0
                                                                          ELSE view.age[a]]]
    /\ UNCHANGED <<vars, request, left, pot, given>>

\* The tables become what the transaction has made of them.
Publish ==
    /\ binding' = view.binding /\ issued' = view.issued
    /\ rounds' = view.rounds /\ codeStatus' = view.codeStatus
    /\ redeemedCount' = view.redeemedCount /\ afterSales' = view.afterSales
    /\ resv' = view.resv /\ age' = view.age
    /\ UNCHANGED <<accountVars, minted, batchVars>>

Commit == stage = "commit" /\ Publish /\ Close

\* An error of the database, a failed row count or the end of the process:
\* SQLite discards what was not committed.
Abandon == stage # "idle" /\ Close /\ UNCHANGED vars

\* The transactions that are not taken apart.
Elsewhere ==
    /\ stage = "idle"
    /\ \/ \E cs \in SUBSET Codes, r \in Reservations \cup {None},
             S \in SUBSET {a \in Accounts : Claimable(a)} :
             PrepareRedeem(r, S, cs) \/ PrepareAfterSale(r, S, cs)
       \/ \E r \in Reservations : Release(r) \/ Heartbeat(r)
       \/ AccountWrites \/ Administration \/ Clock
    /\ UNCHANGED settleVars

Opens ==
    \E r \in minted \cup {None}, V \in SUBSET Accounts, cs \in SUBSET Codes :
       \/ BeginRedeem(r, V, cs)
       \/ \E old \in SUBSET Accounts : BeginAfterSale(r, old, V, cs)

Proceeds ==
    \/ \E c \in Codes : Allocate(c) \/ Reissue(c) \/ Refuse(c)
    \/ InsertRedemptions \/ BindAccounts \/ MarkCodes \/ CountCodes
    \/ ClearReservation \/ Commit \/ Abandon

SettleNext == Opens \/ Proceeds \/ Elsewhere

SettleSpec == SettleInit /\ [][SettleNext]_allVars

-----------------------------------------------------------------------------
(* Properties.                                                              *)

\* The row count of UPDATE accounts never fails, so that a redemption never
\* ends in the error the code provides for it: what the loop took from a list
\* read before is taken once and still unredeemed.
RowChecksPass == stage = "bind" => RowsAffected

\* What is committed is one Settle or SettleAfterSale of RedeemStore: the
\* codes got whole deliveries, or nothing where too little was left, and all
\* tables were written to match; a transaction that fails half-way leaves no
\* trace.
SettlesAtomically == [][Next]_vars
=============================================================================
