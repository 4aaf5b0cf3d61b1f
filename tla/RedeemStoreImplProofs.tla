----------------------- MODULE RedeemStoreImplProofs -----------------------
(* RedeemStore implements RedeemLedger, for every value of the constants:   *)
(* what the run checks without after-sales is proved here with them.        *)
EXTENDS RedeemStoreImpl, RedeemStoreProofs

\* The two state functions the ledger reads off the account rows.
Stock == {a \in Accounts : Unredeemed(a)}
Gone == {a \in Accounts : row[a] = "deleted"}

LEMMA InitMaps == Init => Ledger!LInit
BY DEF Init, Ledger!LInit, Ledger!Deals, Unredeemed, Rounds

\* A transaction that touches neither rows, bindings nor redemptions is no
\* step of the ledger.
LEMMA QuietMaps ==
  ASSUME UNCHANGED <<row, binding, rounds, issued>>
  PROVE  UNCHANGED Ledger!lvars
BY DEF Ledger!lvars, Unredeemed

\* A step of the ledger, in terms of Stock and Gone.
LEMMA ArriveMaps ==
  ASSUME NEW a \in Accounts, a \notin Stock \cup Gone,
         \A c \in Codes, n \in Rounds : a \notin issued[c][n],
         Stock' = Stock \cup {a}, UNCHANGED <<Gone, rounds, issued>>
  PROVE  Ledger!LNext
<1>1. Ledger!Arrive(a)
  BY DEF Ledger!Arrive, Ledger!Deals, Rounds, Stock, Gone
<1> QED
  BY <1>1 DEF Ledger!LNext

\* Importing a file brings an account into stock, or only rewrites the row of
\* one that is there already.
LEMMA ImportMaps ==
  ASSUME IInv, NEW a \in Accounts, NEW p \in Pools, NEW s \in AccountStatus,
         NEW t \in {"usable", "stale"}, Import(a, p, s, t)
  PROVE  Ledger!LNext \/ UNCHANGED Ledger!lvars
<1>1. /\ row[a] # "deleted" /\ binding[a] = None
      /\ row' = [row EXCEPT ![a] = "live"]
      /\ UNCHANGED <<binding, rounds, issued>>
  BY DEF Import, saleVars
<1>2. row \in [Accounts -> {"none", "live", "deleted"}]
  BY DEF IInv, TypeOK
<1>3. CASE row[a] = "live"
  <2>1. row' = row
    BY <1>1, <1>2, <1>3
  <2> QED
    BY <1>1, <2>1, QuietMaps
<1>4. CASE row[a] = "none"
  <2>1. \A c \in Codes, n \in Rounds : a \notin issued[c][n]
    BY <1>4 DEF IInv, ListedHaveRows
  <2>2. Stock' = Stock \cup {a} /\ Gone' = Gone
    BY <1>1, <1>2, <1>4 DEF Stock, Gone, Unredeemed
  <2>3. a \notin Stock \cup Gone
    BY <1>4 DEF Stock, Gone, Unredeemed
  <2> QED
    BY <1>1, <2>1, <2>2, <2>3, ArriveMaps
<1> QED
  BY <1>1, <1>2, <1>3, <1>4

\* Deleting an account withdraws it, from stock or from the customer.
LEMMA DeleteMaps ==
  ASSUME IInv, NEW a \in Accounts, DeleteUnbound(a)
  PROVE  Ledger!LNext
<1>1. /\ row[a] = "live"
      /\ row' = [row EXCEPT ![a] = "deleted"]
      /\ binding' = [binding EXCEPT ![a] = None]
      /\ UNCHANGED <<rounds, issued>>
  BY DEF DeleteUnbound, saleVars
<1>2. /\ row \in [Accounts -> {"none", "live", "deleted"}]
      /\ binding \in [Accounts -> (Codes \X Rounds) \cup {None}]
  BY DEF IInv, TypeOK
<1>3. Stock' = Stock \ {a} /\ Gone' = Gone \cup {a}
  BY <1>1, <1>2 DEF Stock, Gone, Unredeemed
<1>4. a \in Stock \/ \E c \in Codes, n \in Rounds : a \in issued[c][n]
  <2>1. CASE binding[a] = None
    BY <1>1, <2>1 DEF Stock, Unredeemed
  <2>2. CASE binding[a] # None
    <3>1. PICK c \in Codes, n \in Rounds : binding[a] = <<c, n>>
      BY <1>2, <2>2
    <3> QED
      BY <3>1 DEF IInv, BindingMatches
  <2> QED
    BY <2>1, <2>2
<1>5. a \notin Gone
  BY <1>1 DEF Gone
<1>6. Ledger!Withdraw(a)
  BY <1>1, <1>3, <1>4, <1>5 DEF Ledger!Withdraw, Ledger!Deals, Rounds, Stock, Gone
<1> QED
  BY <1>6 DEF Ledger!LNext

\* A settled request deals the accounts it binds, one delivery to every code
\* it serves.
LEMMA DeliverMaps ==
  ASSUME IInv, NEW W, NEW D \in SUBSET Codes, NEW r,
         \A c \in D : rounds[c] <= MaxAfterSale,
         NEW to \in Allotments(W, D), \A a \in W : Unredeemed(a), Deliver(to, r)
  PROVE  Ledger!LNext
<1> DEFINE paid == {c \in Codes : \E a \in Accounts : to[a] = c}
<1>1. /\ to \in [Accounts -> Codes \cup {None}]
      /\ \A a \in Accounts : to[a] # None => Unredeemed(a) /\ to[a] \in D
      /\ Served(to) \subseteq D
  BY AllotmentFacts
<1>2. paid = Served(to)
  BY DEF Served, Got
<1>3. /\ row' = row
      /\ binding' = [a \in Accounts |->
            IF to[a] # None THEN <<to[a], rounds[to[a]] + 1>> ELSE binding[a]]
      /\ issued' = [c \in Codes |-> [n \in Rounds |->
            IF c \in Served(to) /\ n = rounds[c] + 1 THEN Got(to, c) ELSE issued[c][n]]]
      /\ rounds' = [c \in Codes |-> IF c \in Served(to) THEN rounds[c] + 1 ELSE rounds[c]]
  BY DEF Deliver, accountVars
<1>4. \A a \in Accounts : to[a] # None => binding'[a] # None
  <2> SUFFICES ASSUME NEW a \in Accounts, to[a] # None PROVE binding'[a] # None
    OBVIOUS
  <2>1. to[a] \in Codes /\ rounds[to[a]] + 1 \in Rounds
    BY <1>1, BoundAssumption DEF IInv, TypeOK, Rounds
  <2>2. binding'[a] = <<to[a], rounds[to[a]] + 1>>
    BY <1>3
  <2> QED
    BY <2>1, <2>2, PairNotNone
<1>5. Stock' = {a \in Stock : to[a] = None} /\ Gone' = Gone
  BY <1>1, <1>3, <1>4 DEF Stock, Gone, Unredeemed
<1>6. \A a \in Accounts : to[a] # None => a \in Stock
  BY <1>1 DEF Stock
<1>7. \A c \in paid : rounds[c] < MaxAfterSale + 1
  BY <1>1, <1>2, BoundAssumption DEF IInv, TypeOK
<1>8. /\ rounds' = [c \in Codes |-> IF c \in paid THEN rounds[c] + 1 ELSE rounds[c]]
      /\ issued' = [c \in Codes |-> [n \in Rounds |->
            IF c \in paid /\ n = rounds[c] + 1
            THEN {a \in Accounts : to[a] = c} ELSE issued[c][n]]]
  BY <1>2, <1>3 DEF Got
<1>9. Ledger!Deal(to)
  BY <1>5, <1>6, <1>7, <1>8 DEF Ledger!Deal, Ledger!Deals, Rounds, Stock, Gone
<1> QED
  BY <1>1, <1>9 DEF Ledger!LNext

LEMMA SettleMaps ==
  ASSUME IInv, NEW r \in Reservations \cup {None}, NEW V, NEW cs \in SUBSET Codes,
         Settle(r, V, cs)
  PROVE  Ledger!LNext
<1> DEFINE D == SettleDemand(cs)
           M == {a \in Candidates(r, V) : \E c \in D : pool[a] = CodePool(c)}
<1>1. PICK W \in Windows(M, D) : \E to \in Allotments(W \cap V, D) : Deliver(to, r)
  BY DEF Settle
<1>2. PICK to \in Allotments(W \cap V, D) : Deliver(to, r)
  BY <1>1
<1>3. \A a \in W \cap V : Unredeemed(a)
  BY DEF Windows, kSubset, Candidates, InStock
<1>4. D \in SUBSET Codes /\ \A c \in D : rounds[c] <= MaxAfterSale
  BY BoundAssumption DEF SettleDemand
<1> QED
  BY <1>2, <1>3, <1>4, DeliverMaps

LEMMA SettleAfterSaleMaps ==
  ASSUME IInv, NEW r \in Reservations \cup {None}, NEW verified, NEW V,
         NEW cs \in SUBSET Codes, SettleAfterSale(r, verified, V, cs)
  PROVE  Ledger!LNext
<1> DEFINE D == ReissueDemand(cs, verified)
           W == Candidates(r, V) \cap V
<1>1. PICK to \in Allotments(W, D) : Deliver(to, r)
  BY DEF SettleAfterSale
<1>2. \A a \in W : Unredeemed(a)
  BY DEF Candidates, InStock
<1>3. D \in SUBSET Codes
  BY DEF ReissueDemand
<1>4. \A c \in D : rounds[c] <= MaxAfterSale
  BY CatalogAssumption, BoundAssumption
  DEF ReissueDemand, Reissuable, MayReissue, IInv, TypeOK, RoundsAgree
<1> QED
  BY <1>1, <1>2, <1>3, <1>4, DeliverMaps

\* Deleting a batch recalls its codes: it puts back in stock exactly what
\* their redemptions list and has not been deleted since.
LEMMA DeleteBatchMaps ==
  ASSUME IInv, NEW b \in Batches, DeleteBatch(b)
  PROVE  Ledger!LNext
<1> DEFINE mine == {c \in Codes : BatchOf[c] = b}
           back == {a \in Accounts \ Gone : \E c \in mine, n \in Rounds : a \in issued[c][n]}
<1>1. /\ row' = row
      /\ binding' = [a \in Accounts |-> IF a \in Freed(b) THEN None ELSE binding[a]]
      /\ rounds' = [c \in Codes |-> IF c \in mine THEN 0 ELSE rounds[c]]
      /\ issued' = [c \in Codes |-> IF c \in mine THEN [n \in Rounds |-> {}] ELSE issued[c]]
  BY DEF DeleteBatch, accountVars
<1>2. \A a \in Accounts : a \in back <=> a \in Freed(b) /\ row[a] = "live"
  <2> SUFFICES ASSUME NEW a \in Accounts
               PROVE  a \in back <=> a \in Freed(b) /\ row[a] = "live"
    OBVIOUS
  <2>1. ASSUME a \in back PROVE a \in Freed(b) /\ row[a] = "live"
    <3>1. PICK c \in mine, n \in Rounds : a \in issued[c][n]
      BY <2>1
    <3>2. row[a] = "live"
      BY <2>1, <3>1 DEF IInv, TypeOK, ListedHaveRows, Gone
    <3>3. binding[a] = <<c, n>> /\ <<c, n>> # None /\ <<c, n>>[1] = c
      BY <3>1, <3>2, PairNotNone DEF IInv, BindingMatches
    <3>4. binding[a] # None /\ binding[a][1] = c
      BY <3>3
    <3> QED
      BY <3>1, <3>2, <3>4 DEF Freed
  <2>2. ASSUME a \in Freed(b), row[a] = "live" PROVE a \in back
    <3>1. PICK c \in Codes, n \in Rounds : binding[a] = <<c, n>>
      BY <2>2 DEF Freed, IInv, TypeOK
    <3>2. c \in mine
      <4>1. BatchOf[binding[a][1]] = b
        BY <2>2 DEF Freed
      <4>2. binding[a][1] = c
        BY <3>1
      <4> QED
        BY <4>1, <4>2
    <3>3. a \in issued[c][n]
      BY <3>1 DEF IInv, BindingMatches
    <3> QED
      BY <2>2, <3>2, <3>3 DEF Gone
  <2> QED
    BY <2>1, <2>2
<1>3. Stock' = Stock \cup back /\ Gone' = Gone
  <2>1. \A a \in Accounts : Unredeemed(a)' <=> Unredeemed(a) \/ (a \in Freed(b) /\ row[a] = "live")
    BY <1>1 DEF Unredeemed
  <2> QED
    BY <1>1, <1>2, <2>1 DEF Stock, Gone
<1>4. Ledger!Recall(mine)
  BY <1>1, <1>3 DEF Ledger!Recall, Ledger!Deals, Rounds, Stock, Gone
<1> QED
  BY <1>4 DEF Ledger!LNext

LEMMA NextMaps == IInv /\ [Transaction]_vars => [Ledger!LNext]_(Ledger!lvars)
<1> SUFFICES ASSUME IInv, [Transaction]_vars PROVE Ledger!LNext \/ UNCHANGED Ledger!lvars
  OBVIOUS
<1>1. CASE CallerRequests
  <2>1. ASSUME NEW cs \in SUBSET Codes, NEW r \in Reservations \cup {None}, NEW V,
               Settle(r, V, cs) \/ \E verified : SettleAfterSale(r, verified, V, cs)
        PROVE  Ledger!LNext
    BY <2>1, SettleMaps, SettleAfterSaleMaps
  <2>2. ASSUME NEW cs, NEW r, NEW S, \/ PrepareRedeem(r, S, cs) \/ PrepareAfterSale(r, S, cs)
                                    \/ Release(r) \/ Heartbeat(r)
        PROVE  UNCHANGED Ledger!lvars
    BY <2>2, QuietMaps
    DEF PrepareRedeem, PrepareAfterSale, Claim, Release, Heartbeat, accountVars, saleVars
  <2> QED
    BY <1>1, <2>1, <2>2 DEF CallerRequests
<1>2. CASE CallerWrites
  <2>1. PICK a \in Accounts :
           \/ \E p \in Pools, s \in AccountStatus, t \in {"usable", "stale"} : Import(a, p, s, t)
           \/ DeleteUnbound(a)
           \/ \E s \in AccountStatus, t \in {"usable", "stale"} : StoreAuth(a, s, t)
           \/ \E t \in {"usable", "stale"} : StoreRedeemedAuth(a, t)
           \/ \E s \in AccountStatus : SetStatus(a, s)
    BY <1>2 DEF CallerWrites
  <2>2. ASSUME NEW s, NEW t, StoreAuth(a, s, t) \/ StoreRedeemedAuth(a, t) \/ SetStatus(a, s)
        PROVE  UNCHANGED Ledger!lvars
    BY <2>2, QuietMaps DEF StoreAuth, StoreRedeemedAuth, SetStatus, saleVars
  <2> QED
    BY <2>1, <2>2, ImportMaps, DeleteMaps
<1>3. CASE Administration
  <2>1. CASE \E b \in Batches : DeleteBatch(b)
    BY <2>1, DeleteBatchMaps
  <2>2. CASE ~ \E b \in Batches : DeleteBatch(b)
    BY <1>3, <2>2, QuietMaps
    DEF Administration, CreateBatch, UpdateBatch, SetCodeStatus, accountVars, saleVars
  <2> QED
    BY <2>1, <2>2
<1>4. CASE Clock
  BY <1>4, QuietMaps DEF Clock, Tick, TokenAges, BatchExpires, accountVars, saleVars
<1>5. CASE UNCHANGED vars
  BY <1>5, QuietMaps DEF vars, accountVars, saleVars
<1> QED
  BY <1>1, <1>2, <1>3, <1>4, <1>5 DEF Transaction

\* Seen from the ledger, every transaction of the database is an arrival, a
\* withdrawal, a deal or a recall, with after-sales and any number of
\* accounts, codes, batches and pools.
THEOREM StoreImplementsLedger == Spec => ImplementsLedger
<1>1. Init => Ledger!LInit
  BY InitMaps
<1>2. IInv /\ [Next]_vars => [Ledger!LNext]_(Ledger!lvars)
  BY NextMaps, NextIsTransaction
<1> QED
  BY <1>1, <1>2, InductiveInvariant, PTL DEF Spec, ImplementsLedger, Ledger!LSpec
=============================================================================
