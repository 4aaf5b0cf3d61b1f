------------------------- MODULE RedeemStoreProofs -------------------------
(* Proofs about RedeemStore, for every value of its constants.              *)
EXTENDS RedeemStore, FiniteSetTheorems, TLAPS

-----------------------------------------------------------------------------
(* The inductive invariant.                                                 *)

\* What a redemption lists has been imported: an account without a row yet
\* cannot have been delivered, so importing it cannot bind it.
ListedHaveRows ==
    \A a \in Accounts, c \in Codes, n \in Rounds : a \in issued[c][n] => row[a] # "none"

\* TypeOK alone is not inductive: that a code has room for one more round
\* follows from its after-sales being counted and limited (RoundsAgree).
\* Exclusive alone is not inductive either: that an account without a binding
\* is in no redemption follows from BindingMatches and ListedHaveRows.
IInv == TypeOK /\ RoundsAgree /\ BindingMatches /\ ListedHaveRows /\ Exclusive

LEMMA PairNotNone == \A c \in Codes, n \in Rounds : <<c, n>> # None
<1> SUFFICES ASSUME NEW c \in Codes, NEW n \in Rounds PROVE <<c, n>> # None
  OBVIOUS
<1>1. <<c, n>> \in Codes \X (1 .. MaxAfterSale + 1)
  BY DEF Rounds
<1> QED
  BY <1>1, NoneAssumption

LEMMA InitIInv == Init => IInv
<1> SUFFICES ASSUME Init PROVE IInv
  OBVIOUS
<1>1. TypeOK
  BY BoundAssumption, CatalogAssumption DEF Init, TypeOK, AccountStatus, Rounds
<1>2. RoundsAgree
  BY BoundAssumption DEF Init, RoundsAgree, Rounds
<1>3. BindingMatches
  BY PairNotNone DEF Init, BindingMatches
<1>4. ListedHaveRows /\ Exclusive
  BY DEF Init, ListedHaveRows, Exclusive
<1> QED
  BY <1>1, <1>2, <1>3, <1>4 DEF IInv

-----------------------------------------------------------------------------
(* Allotments and deliveries.                                               *)

\* An allotment of W among the codes D hands out accounts of W only, each to
\* one code of D.
LEMMA AllotmentFacts ==
  ASSUME NEW W, NEW D \in SUBSET Codes, NEW to \in Allotments(W, D)
  PROVE  /\ to \in [Accounts -> D \cup {None}]
         /\ \A a \in Accounts : to[a] # None => a \in W /\ to[a] \in D
         /\ Served(to) \subseteq D
<1>1. /\ to \in [Accounts -> D \cup {None}]
      /\ \A a \in Accounts : to[a] # None => a \in W
  BY DEF Allotments
<1>2. Served(to) \subseteq D
  BY <1>1, NoneAssumption DEF Served, Got
<1> QED
  BY <1>1, <1>2

\* Settling a request keeps the invariant, whatever reservation is passed: it
\* is enough that only unredeemed rows are handed out, and only to codes that
\* have room for another round.
LEMMA DeliverIInv ==
  ASSUME IInv,
         NEW D \in SUBSET Codes,
         \A c \in D : rounds[c] <= MaxAfterSale,
         NEW to \in [Accounts -> D \cup {None}],
         \A a \in Accounts : to[a] # None => Unredeemed(a) /\ to[a] \in D,
         Served(to) \subseteq D,
         NEW r \in Reservations \cup {None},
         Deliver(to, r)
  PROVE  /\ binding' \in [Accounts -> (Codes \X Rounds) \cup {None}]
         /\ resv' \in [Accounts -> Reservations \cup {None}]
         /\ age' \in [Accounts -> 0 .. TTL]
         /\ codeStatus' \in [Codes -> {"active", "disabled", "redeemed"}]
         /\ rounds' \in [Codes -> 0 .. MaxAfterSale + 1]
         /\ issued' \in [Codes -> [Rounds -> SUBSET Accounts]]
         /\ \A c \in Codes, n \in Rounds : n > rounds'[c] => issued'[c][n] = {}
         /\ BindingMatches' /\ ListedHaveRows' /\ Exclusive'
<1> USE BoundAssumption
<1> rounds \in [Codes -> 0 .. MaxAfterSale + 1] /\ issued \in [Codes -> [Rounds -> SUBSET Accounts]]
  BY DEF IInv, TypeOK
<1> row' = row
  BY DEF Deliver, accountVars
<1>1. /\ resv' \in [Accounts -> Reservations \cup {None}]
      /\ age' \in [Accounts -> 0 .. TTL]
  BY DEF Deliver, IInv, TypeOK
<1>2. /\ codeStatus' \in [Codes -> {"active", "disabled", "redeemed"}]
      /\ rounds' \in [Codes -> 0 .. MaxAfterSale + 1]
  BY DEF Deliver, IInv, TypeOK
<1>3. issued' \in [Codes -> [Rounds -> SUBSET Accounts]]
  BY DEF Deliver, Got
<1>4. binding' \in [Accounts -> (Codes \X Rounds) \cup {None}]
  <2> SUFFICES ASSUME NEW a \in Accounts
               PROVE  binding'[a] \in (Codes \X Rounds) \cup {None}
    BY DEF Deliver
  <2>1. CASE to[a] = None
    BY <2>1 DEF Deliver, IInv, TypeOK
  <2>2. CASE to[a] # None
    <3>1. to[a] \in Codes /\ rounds[to[a]] + 1 \in Rounds
      BY <2>2 DEF Rounds
    <3>2. binding'[a] = <<to[a], rounds[to[a]] + 1>>
      BY <2>2 DEF Deliver
    <3> QED
      BY <3>1, <3>2
  <2> QED
    BY <2>1, <2>2
<1>5. ASSUME NEW c \in Codes, NEW n \in Rounds
      PROVE  issued'[c][n] = IF n = rounds[c] + 1
                             THEN Got(to, c) ELSE issued[c][n]
  <2>1. issued'[c][n] = IF c \in Served(to) /\ n = rounds[c] + 1
                        THEN Got(to, c) ELSE issued[c][n]
    BY DEF Deliver
  <2>2. CASE c \in Served(to) \/ n # rounds[c] + 1
    BY <2>1, <2>2
  <2>3. CASE c \notin Served(to) /\ n = rounds[c] + 1
    <3>1. Got(to, c) = {}
      BY <2>3 DEF Served
    <3>2. issued[c][n] = {}
      BY <2>3 DEF IInv, RoundsAgree, Rounds
    <3> QED
      BY <2>1, <3>1, <3>2
  <2> QED
    BY <2>2, <2>3
<1>6. \A c \in Codes, n \in Rounds : n > rounds'[c] => issued'[c][n] = {}
  <2> SUFFICES ASSUME NEW c \in Codes, NEW n \in Rounds, n > rounds'[c]
               PROVE  issued'[c][n] = {}
    OBVIOUS
  <2>1. issued[c][n] = {}
    BY DEF Deliver, IInv, RoundsAgree, Rounds
  <2>2. CASE n # rounds[c] + 1
    BY <1>5, <2>1, <2>2
  <2>3. CASE n = rounds[c] + 1
    <3>1. c \notin Served(to)
      BY <2>3 DEF Deliver
    <3> QED
      BY <1>5, <2>3, <3>1 DEF Served
  <2> QED
    BY <2>2, <2>3
<1>7. \A a \in Accounts, c \in Codes, n \in Rounds :
          to[a] # None => row[a] = "live" /\ a \notin issued[c][n]
  <2> SUFFICES ASSUME NEW a \in Accounts, NEW c \in Codes, NEW n \in Rounds, to[a] # None
               PROVE  row[a] = "live" /\ a \notin issued[c][n]
    OBVIOUS
  <2>1. row[a] = "live" /\ binding[a] = None
    BY DEF Unredeemed
  <2>2. binding[a] # <<c, n>>
    BY <2>1, PairNotNone
  <2> QED
    BY <2>1, <2>2 DEF IInv, BindingMatches
<1>8. \A a \in Accounts, c \in Codes, n \in Rounds :
          a \in issued'[c][n] <=> IF n = rounds[c] + 1 THEN to[a] = c ELSE a \in issued[c][n]
  <2> SUFFICES ASSUME NEW a \in Accounts, NEW c \in Codes, NEW n \in Rounds
               PROVE  a \in issued'[c][n] <=> IF n = rounds[c] + 1 THEN to[a] = c
                                              ELSE a \in issued[c][n]
    OBVIOUS
  <2>1. CASE n = rounds[c] + 1
    <3>1. issued'[c][n] = Got(to, c)
      BY <1>5, <2>1
    <3> QED
      BY <2>1, <3>1 DEF Got
  <2>2. CASE n # rounds[c] + 1
    BY <1>5, <2>2
  <2> QED
    BY <2>1, <2>2
<1>9. BindingMatches'
  <2> SUFFICES ASSUME NEW a \in Accounts, NEW c \in Codes, NEW n \in Rounds
               PROVE  binding'[a] = <<c, n>> <=> row'[a] = "live" /\ a \in issued'[c][n]
    BY DEF BindingMatches
  <2>1. CASE to[a] = None
    <3>1. binding'[a] = binding[a] /\ to[a] # c
      BY <2>1, NoneAssumption DEF Deliver
    <3>2. n = rounds[c] + 1 => issued[c][n] = {}
      BY DEF IInv, RoundsAgree, Rounds
    <3>3. a \in issued'[c][n] <=> a \in issued[c][n]
      BY <1>8, <3>1, <3>2
    <3> QED
      BY <3>1, <3>3 DEF IInv, BindingMatches
  <2>2. CASE to[a] # None
    <3>1. binding'[a] = <<to[a], rounds[to[a]] + 1>>
      BY <2>2 DEF Deliver
    <3>2. a \in issued'[c][n] <=> n = rounds[c] + 1 /\ to[a] = c
      BY <1>7, <1>8, <2>2
    <3>3. row'[a] = "live"
      BY <1>7, <2>2
    <3>4. binding'[a] = <<c, n>> <=> to[a] = c /\ n = rounds[c] + 1
      BY <3>1
    <3> QED
      BY <3>2, <3>3, <3>4
  <2> QED
    BY <2>1, <2>2
<1>10. ListedHaveRows'
  <2> SUFFICES ASSUME NEW a \in Accounts, NEW c \in Codes, NEW n \in Rounds,
                      a \in issued'[c][n]
               PROVE  row[a] # "none"
    BY DEF ListedHaveRows
  <2>1. CASE to[a] # None
    BY <1>7, <2>1
  <2>2. CASE to[a] = None
    <3>1. to[a] # c
      BY <2>2, NoneAssumption
    <3>2. a \in issued[c][n]
      BY <1>8, <3>1
    <3> QED
      BY <3>2 DEF IInv, ListedHaveRows
  <2> QED
    BY <2>1, <2>2
<1>11. Exclusive'
  <2> SUFFICES ASSUME NEW c \in Codes, NEW d \in Codes, NEW m \in Rounds, NEW n \in Rounds,
                      NEW a \in Accounts, a \in issued'[c][m], a \in issued'[d][n]
               PROVE  c = d /\ m = n
    BY <1>3 DEF Exclusive
  <2>1. CASE to[a] # None
    <3>1. to[a] = c /\ m = rounds[c] + 1
      BY <1>7, <1>8, <2>1
    <3>2. to[a] = d /\ n = rounds[d] + 1
      BY <1>7, <1>8, <2>1
    <3> QED
      BY <3>1, <3>2
  <2>2. CASE to[a] = None
    <3>1. to[a] # c /\ to[a] # d
      BY <2>2, NoneAssumption
    <3>2. a \in issued[c][m] /\ a \in issued[d][n]
      BY <1>8, <3>1
    <3> QED
      BY <3>2 DEF IInv, Exclusive
  <2> QED
    BY <2>1, <2>2
<1> QED
  BY <1>1, <1>2, <1>3, <1>4, <1>6, <1>9, <1>10, <1>11

-----------------------------------------------------------------------------
(* One lemma per transaction.                                               *)

\* A transaction that writes neither rows, bindings nor redemptions keeps the
\* invariant if it keeps the types.
LEMMA QuietIInv ==
  ASSUME IInv, TypeOK', UNCHANGED <<row, binding, rounds, issued, afterSales>>
  PROVE  IInv'
BY DEF IInv, RoundsAgree, BindingMatches, ListedHaveRows, Exclusive

LEMMA ClaimIInv ==
  ASSUME IInv, NEW r \in Reservations \cup {None}, NEW S \in SUBSET Accounts,
         NEW D \in SUBSET Codes, Claim(r, S, D)
  PROVE  IInv'
<1>1. S # {} => r \in Reservations
  BY DEF Claim
<1>2. TypeOK'
  BY <1>1, BoundAssumption DEF IInv, TypeOK, Claim, accountVars, batchVars, saleVars
<1> QED
  BY <1>2, QuietIInv DEF Claim, accountVars, saleVars

LEMMA ReleaseIInv ==
  ASSUME IInv, NEW r \in Reservations, Release(r) \/ Heartbeat(r)
  PROVE  IInv'
<1>1. CASE Release(r)
  <2>1. TypeOK'
    BY <1>1, BoundAssumption DEF IInv, TypeOK, Release, accountVars, batchVars, saleVars
  <2> QED
    BY <1>1, <2>1, QuietIInv DEF Release, accountVars, saleVars
<1>2. CASE Heartbeat(r)
  <2>1. TypeOK'
    BY <1>2, BoundAssumption DEF IInv, TypeOK, Heartbeat, accountVars, batchVars, saleVars
  <2> QED
    BY <1>2, <2>1, QuietIInv DEF Heartbeat, accountVars, saleVars
<1> QED
  BY <1>1, <1>2

LEMMA SettleIInv ==
  ASSUME IInv, NEW r \in Reservations \cup {None}, NEW V, NEW cs \in SUBSET Codes,
         Settle(r, V, cs)
  PROVE  IInv'
<1> DEFINE D == SettleDemand(cs)
           M == {a \in Candidates(r, V) : \E c \in D : pool[a] = CodePool(c)}
<1> D \in SUBSET Codes
  BY DEF SettleDemand
<1>0. PICK W \in Windows(M, D) : \E to \in Allotments(W \cap V, D) :
         /\ Deliver(to, r)
         /\ redeemedCount' = [b \in Batches |-> redeemedCount[b] +
                                Cardinality({c \in Served(to) : BatchOf[c] = b})]
         /\ UNCHANGED afterSales
  BY DEF Settle
<1>1. PICK to \in Allotments(W \cap V, D) :
         /\ Deliver(to, r)
         /\ redeemedCount' = [b \in Batches |-> redeemedCount[b] +
                                Cardinality({c \in Served(to) : BatchOf[c] = b})]
         /\ UNCHANGED afterSales
  BY <1>0
<1>2. W \subseteq M
  BY DEF Windows, kSubset
<1>3. /\ to \in [Accounts -> D \cup {None}]
      /\ \A a \in Accounts : to[a] # None => Unredeemed(a) /\ to[a] \in D
      /\ Served(to) \subseteq D
  BY <1>2, AllotmentFacts DEF Candidates, InStock
<1>4. \A c \in D : rounds[c] = 0
  BY DEF SettleDemand
<1> HIDE DEF D, M
<1>5. /\ binding' \in [Accounts -> (Codes \X Rounds) \cup {None}]
      /\ resv' \in [Accounts -> Reservations \cup {None}]
      /\ age' \in [Accounts -> 0 .. TTL]
      /\ codeStatus' \in [Codes -> {"active", "disabled", "redeemed"}]
      /\ rounds' \in [Codes -> 0 .. MaxAfterSale + 1]
      /\ issued' \in [Codes -> [Rounds -> SUBSET Accounts]]
      /\ \A c \in Codes, n \in Rounds : n > rounds'[c] => issued'[c][n] = {}
      /\ BindingMatches' /\ ListedHaveRows' /\ Exclusive'
  <2>1. \A c \in D : rounds[c] <= MaxAfterSale
    BY <1>4, BoundAssumption
  <2> QED
    BY <1>1, <1>3, <2>1, DeliverIInv
<1>6. redeemedCount' \in [Batches -> Nat]
  <2>1. ASSUME NEW b \in Batches
        PROVE  Cardinality({c \in Served(to) : BatchOf[c] = b}) \in Nat
    <3>1. {c \in Served(to) : BatchOf[c] = b} \subseteq Codes
      BY DEF Served
    <3> QED
      BY <3>1, FiniteAssumption, FS_Subset, FS_CardinalityType
  <2>2. \A b \in Batches : redeemedCount[b] \in Nat
    BY DEF IInv, TypeOK
  <2> QED
    BY <1>1, <2>1, <2>2
<1>7. RoundsAgree'
  <2>1. \A c \in Codes : rounds'[c] = IF c \in Served(to) THEN rounds[c] + 1 ELSE rounds[c]
    BY <1>1 DEF Deliver
  <2>2. afterSales' = afterSales
    BY <1>1
  <2> QED
    BY <1>3, <1>4, <1>5, <2>1, <2>2 DEF IInv, RoundsAgree
<1>8. TypeOK'
  BY <1>1, <1>5, <1>6 DEF IInv, TypeOK, Deliver, accountVars, batchVars
<1> QED
  BY <1>5, <1>7, <1>8 DEF IInv

LEMMA SettleAfterSaleIInv ==
  ASSUME IInv, NEW r \in Reservations \cup {None}, NEW verified, NEW V,
         NEW cs \in SUBSET Codes, SettleAfterSale(r, verified, V, cs)
  PROVE  IInv'
<1> DEFINE D == ReissueDemand(cs, verified)
           W == Candidates(r, V) \cap V
<1> D \in SUBSET Codes
  BY DEF ReissueDemand
<1>1. PICK to \in Allotments(W, D) :
         /\ Deliver(to, r)
         /\ afterSales' = [c \in Codes |-> IF c \in Served(to) THEN afterSales[c] + 1
                                                               ELSE afterSales[c]]
         /\ UNCHANGED redeemedCount
  BY DEF SettleAfterSale
<1>2. /\ to \in [Accounts -> D \cup {None}]
      /\ \A a \in Accounts : to[a] # None => Unredeemed(a) /\ to[a] \in D
      /\ Served(to) \subseteq D
  BY AllotmentFacts DEF Candidates, InStock
<1>3. \A c \in D : rounds[c] > 0 /\ afterSales[c] < MaxAfterSale /\ rounds[c] = afterSales[c] + 1
  BY CatalogAssumption, BoundAssumption
  DEF ReissueDemand, Reissuable, MayReissue, IInv, TypeOK, RoundsAgree
<1> HIDE DEF D, W
<1>4. \A c \in D : rounds[c] <= MaxAfterSale
  BY <1>3, BoundAssumption DEF IInv, TypeOK
<1>5. /\ binding' \in [Accounts -> (Codes \X Rounds) \cup {None}]
      /\ resv' \in [Accounts -> Reservations \cup {None}]
      /\ age' \in [Accounts -> 0 .. TTL]
      /\ codeStatus' \in [Codes -> {"active", "disabled", "redeemed"}]
      /\ rounds' \in [Codes -> 0 .. MaxAfterSale + 1]
      /\ issued' \in [Codes -> [Rounds -> SUBSET Accounts]]
      /\ \A c \in Codes, n \in Rounds : n > rounds'[c] => issued'[c][n] = {}
      /\ BindingMatches' /\ ListedHaveRows' /\ Exclusive'
  BY <1>1, <1>2, <1>4, DeliverIInv
<1>6. afterSales' \in [Codes -> 0 .. MaxAfterSale]
  BY <1>1, <1>2, <1>3, BoundAssumption DEF IInv, TypeOK
<1>7. RoundsAgree'
  <2>1. \A c \in Codes : rounds'[c] = IF c \in Served(to) THEN rounds[c] + 1 ELSE rounds[c]
    BY <1>1 DEF Deliver
  <2> QED
    BY <1>1, <1>2, <1>3, <1>5, <2>1 DEF IInv, TypeOK, RoundsAgree
<1>8. TypeOK'
  BY <1>1, <1>5, <1>6 DEF IInv, TypeOK, Deliver, accountVars, batchVars
<1> QED
  BY <1>5, <1>7, <1>8 DEF IInv

LEMMA ImportIInv ==
  ASSUME IInv, NEW a \in Accounts, NEW p \in Pools, NEW s \in AccountStatus,
         NEW t \in {"usable", "stale"}, Import(a, p, s, t)
  PROVE  IInv'
<1>1. TypeOK'
  BY DEF IInv, TypeOK, Import, claimVars, batchVars, saleVars
<1>2. BindingMatches'
  \* The imported account is unbound, so no redemption lists it.
  <2>1. binding[a] = None /\ row[a] \in {"none", "live"}
    BY DEF IInv, TypeOK, Import
  <2>2. \A c \in Codes, n \in Rounds : a \notin issued[c][n] /\ <<c, n>> # None
    BY <2>1, PairNotNone DEF IInv, BindingMatches, ListedHaveRows
  <2>3. /\ binding' = binding /\ issued' = issued
        /\ \A x \in Accounts : x # a => row'[x] = row[x]
    BY DEF Import, IInv, TypeOK, saleVars
  <2> QED
    BY <2>1, <2>2, <2>3 DEF IInv, BindingMatches
<1>3. ListedHaveRows'
  BY DEF IInv, TypeOK, ListedHaveRows, Import, saleVars
<1> QED
  BY <1>1, <1>2, <1>3 DEF IInv, RoundsAgree, Exclusive, Import, saleVars

LEMMA DeleteUnboundIInv ==
  ASSUME IInv, NEW a \in Accounts, DeleteUnbound(a)
  PROVE  IInv'
<1>1. TypeOK'
  BY BoundAssumption DEF IInv, TypeOK, DeleteUnbound, AccountStatus, batchVars, saleVars
<1>2. BindingMatches'
  <2>1. /\ issued' = issued
        /\ \A x \in Accounts : x # a => row'[x] = row[x] /\ binding'[x] = binding[x]
        /\ row'[a] = "deleted" /\ binding'[a] = None
    BY DEF DeleteUnbound, IInv, TypeOK, saleVars
  <2>2. SUFFICES ASSUME NEW x \in Accounts, NEW c \in Codes, NEW n \in Rounds
                 PROVE  binding'[x] = <<c, n>> <=> row'[x] = "live" /\ x \in issued'[c][n]
    BY DEF BindingMatches
  <2>3. CASE x = a
    BY <2>1, <2>3, PairNotNone
  <2>4. CASE x # a
    BY <2>1, <2>4 DEF IInv, BindingMatches
  <2> QED
    BY <2>3, <2>4
<1>3. ListedHaveRows'
  BY DEF IInv, TypeOK, ListedHaveRows, DeleteUnbound, saleVars
<1> QED
  BY <1>1, <1>2, <1>3 DEF IInv, RoundsAgree, Exclusive, DeleteUnbound, saleVars

LEMMA StatusWriteIInv ==
  ASSUME IInv, NEW a \in Accounts, NEW s \in AccountStatus,
         SetStatus(a, s) \/ \E t \in {"usable", "stale"} : StoreAuth(a, s, t)
  PROVE  IInv'
<1>1. TypeOK'
  <2>1. CASE SetStatus(a, s)
    BY <2>1 DEF IInv, TypeOK, SetStatus, claimVars, batchVars, saleVars
  <2>2. ASSUME NEW t \in {"usable", "stale"}, StoreAuth(a, s, t)
        PROVE  TypeOK'
    BY <2>2 DEF IInv, TypeOK, StoreAuth, claimVars, batchVars, saleVars
  <2> QED
    BY <2>1, <2>2
<1> QED
  BY <1>1, QuietIInv DEF StoreAuth, SetStatus, saleVars

LEMMA TokenWriteIInv ==
  ASSUME IInv, NEW a \in Accounts,
         TokenAges(a) \/ \E t \in {"usable", "stale"} : StoreRedeemedAuth(a, t)
  PROVE  IInv'
<1>1. TypeOK'
  BY DEF IInv, TypeOK, StoreRedeemedAuth, TokenAges, claimVars, batchVars, saleVars
<1> QED
  BY <1>1, QuietIInv DEF StoreRedeemedAuth, TokenAges, saleVars

LEMMA BatchWriteIInv ==
  ASSUME IInv, NEW b \in Batches, NEW n \in 1 .. MaxPerCode, NEW l \in 0 .. MaxAfterSale,
         NEW e \in BOOLEAN,
         CreateBatch(b, n, l, e) \/ \E s \in {"active", "disabled"} : UpdateBatch(b, s, n, l, e)
  PROVE  IInv'
<1>1. TypeOK'
  <2>1. CASE CreateBatch(b, n, l, e)
    BY <2>1 DEF IInv, TypeOK, CreateBatch, accountVars, claimVars, saleVars
  <2>2. ASSUME NEW s \in {"active", "disabled"}, UpdateBatch(b, s, n, l, e)
        PROVE  TypeOK'
    BY <2>2 DEF IInv, TypeOK, UpdateBatch, accountVars, claimVars, saleVars
  <2> QED
    BY <2>1, <2>2
<1> QED
  BY <1>1, QuietIInv DEF CreateBatch, UpdateBatch, accountVars, saleVars

LEMMA BatchExpiresIInv ==
  ASSUME IInv, NEW b \in Batches, BatchExpires(b)
  PROVE  IInv'
<1>1. TypeOK'
  BY DEF IInv, TypeOK, BatchExpires, accountVars, claimVars, saleVars
<1> QED
  BY <1>1, QuietIInv DEF BatchExpires, accountVars, saleVars

LEMMA SetCodeStatusIInv ==
  ASSUME IInv, NEW c \in Codes, NEW st \in {"active", "disabled"}, SetCodeStatus(c, st)
  PROVE  IInv'
<1>1. TypeOK'
  BY DEF IInv, TypeOK, SetCodeStatus, accountVars, claimVars, batchVars
<1> QED
  BY <1>1, QuietIInv DEF SetCodeStatus, accountVars

LEMMA TickIInv ==
  ASSUME IInv, Tick
  PROVE  IInv'
<1>1. TypeOK'
  BY BoundAssumption DEF IInv, TypeOK, Tick, accountVars, batchVars, saleVars
<1> QED
  BY <1>1, QuietIInv DEF Tick, accountVars, saleVars

\* Deleting a batch frees exactly the accounts its redemptions list, so that no
\* account stays bound to a redemption that is gone.
LEMMA DeleteBatchIInv ==
  ASSUME IInv, NEW b \in Batches, DeleteBatch(b)
  PROVE  IInv'
<1> DEFINE mine == {c \in Codes : BatchOf[c] = b}
<1>1. /\ row' = row
      /\ binding' = [a \in Accounts |-> IF binding[a] # None /\ binding[a][1] \in mine
                                         THEN None ELSE binding[a]]
      /\ rounds' = [c \in Codes |-> IF c \in mine THEN 0 ELSE rounds[c]]
      /\ issued' = [c \in Codes |-> IF c \in mine THEN [n \in Rounds |-> {}] ELSE issued[c]]
      /\ afterSales' = [c \in Codes |-> IF c \in mine THEN 0 ELSE afterSales[c]]
  <2>1. \A a \in Accounts : a \in Freed(b) <=> binding[a] # None /\ binding[a][1] \in mine
    BY DEF IInv, TypeOK, Freed
  <2> QED
    BY <2>1, Zenon DEF DeleteBatch, accountVars
<1>2. TypeOK'
  <2>1. /\ binding' \in [Accounts -> (Codes \X Rounds) \cup {None}]
        /\ rounds' \in [Codes -> 0 .. MaxAfterSale + 1]
        /\ issued' \in [Codes -> [Rounds -> SUBSET Accounts]]
        /\ afterSales' \in [Codes -> 0 .. MaxAfterSale]
    BY <1>1, BoundAssumption DEF IInv, TypeOK
  <2>2. /\ batchStatus' \in [Batches -> {"none", "active", "disabled", "deleted"}]
        /\ perCode' \in [Batches -> 1 .. MaxPerCode]
        /\ limit' \in [Batches -> 0 .. MaxAfterSale]
        /\ expired' \in [Batches -> BOOLEAN]
        /\ redeemedCount' \in [Batches -> Nat]
        /\ codeStatus' \in [Codes -> {"active", "disabled", "redeemed"}]
    BY BoundAssumption DEF IInv, TypeOK, DeleteBatch
  <2> QED
    BY <2>1, <2>2 DEF IInv, TypeOK, DeleteBatch, accountVars, claimVars
<1>3. \A c \in Codes, n \in Rounds : issued'[c][n] = IF c \in mine THEN {} ELSE issued[c][n]
  BY <1>1
<1>4. RoundsAgree'
  BY <1>1, <1>3 DEF IInv, RoundsAgree
<1>5. BindingMatches'
  <2> SUFFICES ASSUME NEW a \in Accounts, NEW c \in Codes, NEW n \in Rounds
               PROVE  binding'[a] = <<c, n>> <=> row'[a] = "live" /\ a \in issued'[c][n]
    BY DEF BindingMatches
  <2>1. binding[a] = <<c, n>> <=> row[a] = "live" /\ a \in issued[c][n]
    BY DEF IInv, BindingMatches
  <2>2. <<c, n>> # None /\ <<c, n>>[1] = c
    BY PairNotNone
  <2>3. binding'[a] = <<c, n>> <=> binding[a] = <<c, n>> /\ c \notin mine
    BY <1>1, <2>2
  <2> QED
    BY <1>1, <1>3, <2>1, <2>3
<1>6. ListedHaveRows' /\ Exclusive'
  <2>1. ListedHaveRows'
    BY <1>1, <1>3 DEF IInv, ListedHaveRows
  <2>2. Exclusive'
    BY <1>3 DEF IInv, Exclusive
  <2> QED
    BY <2>1, <2>2
<1> QED
  BY <1>2, <1>4, <1>5, <1>6 DEF IInv

-----------------------------------------------------------------------------
(* What callers may ask for.                                                *)

\* Whatever accounts a caller says it has verified, and whatever status a probe
\* or refresh finds.
CallerRequests ==
    \/ \E cs \in SUBSET Codes, r \in Reservations \cup {None} :
          \/ \E S \in SUBSET {a \in Accounts : Claimable(a)} :
                PrepareRedeem(r, S, cs) \/ PrepareAfterSale(r, S, cs)
          \/ /\ r \in minted \cup {None}
             /\ \E V \in SUBSET Accounts :
                   \/ Settle(r, V, cs)
                   \/ \E verified \in SUBSET Accounts : SettleAfterSale(r, verified, V, cs)
    \/ \E r \in Reservations : Release(r) \/ Heartbeat(r)

CallerWrites ==
    \E a \in Accounts :
       \/ \E p \in Pools, s \in AccountStatus, t \in {"usable", "stale"} : Import(a, p, s, t)
       \/ DeleteUnbound(a)
       \/ \E s \in AccountStatus, t \in {"usable", "stale"} : StoreAuth(a, s, t)
       \/ \E t \in {"usable", "stale"} : StoreRedeemedAuth(a, t)
       \/ \E s \in AccountStatus : SetStatus(a, s)

Transaction == CallerRequests \/ CallerWrites \/ Administration \/ Clock

LEMMA NextIsTransaction == [Next]_vars => [Transaction]_vars
<1>1. Requests => CallerRequests
  <2> SUFFICES ASSUME Requests PROVE CallerRequests
    OBVIOUS
  <2>1. {a \in Accounts : binding[a] # None} \in SUBSET Accounts
        /\ SUBSET {a \in Accounts : InStock(a)} \subseteq SUBSET Accounts
    OBVIOUS
  <2> QED
    BY <2>1 DEF Requests, CallerRequests
<1>2. AccountWrites => CallerWrites
  BY OutcomeAssumption DEF AccountWrites, CallerWrites
<1> QED
  BY <1>1, <1>2 DEF Next, Transaction

-----------------------------------------------------------------------------
(* The theorems.                                                            *)

LEMMA NextIInv == IInv /\ [Transaction]_vars => IInv'
<1> SUFFICES ASSUME IInv, [Transaction]_vars PROVE IInv'
  OBVIOUS
<1>1. CASE CallerRequests
  <2>1. ASSUME NEW cs \in SUBSET Codes, NEW r \in Reservations \cup {None},
               NEW S \in SUBSET {a \in Accounts : Claimable(a)},
               PrepareRedeem(r, S, cs) \/ PrepareAfterSale(r, S, cs)
        PROVE  IInv'
    <3>1. S \in SUBSET Accounts /\ RedeemDemand(cs) \in SUBSET Codes
          /\ AfterSaleDemand(cs) \in SUBSET Codes
      BY DEF RedeemDemand, AfterSaleDemand
    <3> QED
      BY <2>1, <3>1, ClaimIInv DEF PrepareRedeem, PrepareAfterSale
  <2>2. ASSUME NEW cs \in SUBSET Codes, NEW r \in Reservations \cup {None}, NEW V,
               Settle(r, V, cs) \/ \E verified \in SUBSET Accounts :
                                     SettleAfterSale(r, verified, V, cs)
        PROVE  IInv'
    BY <2>2, SettleIInv, SettleAfterSaleIInv
  <2>3. ASSUME NEW r \in Reservations, Release(r) \/ Heartbeat(r)
        PROVE  IInv'
    BY <2>3, ReleaseIInv
  <2> QED
    BY <1>1, <2>1, <2>2, <2>3 DEF CallerRequests
<1>2. CASE CallerWrites
  <2>1. PICK a \in Accounts :
           \/ \E p \in Pools, s \in AccountStatus, t \in {"usable", "stale"} : Import(a, p, s, t)
           \/ DeleteUnbound(a)
           \/ \E s \in AccountStatus, t \in {"usable", "stale"} : StoreAuth(a, s, t)
           \/ \E t \in {"usable", "stale"} : StoreRedeemedAuth(a, t)
           \/ \E s \in AccountStatus : SetStatus(a, s)
    BY <1>2 DEF CallerWrites
  <2> QED
    BY <2>1, ImportIInv, DeleteUnboundIInv, StatusWriteIInv, TokenWriteIInv
<1>3. CASE Administration
  BY <1>3, BatchWriteIInv, DeleteBatchIInv, SetCodeStatusIInv DEF Administration
<1>4. CASE Clock
  BY <1>4, TickIInv, TokenWriteIInv, BatchExpiresIInv DEF Clock
<1>5. CASE UNCHANGED vars
  <2>1. TypeOK'
    BY <1>5 DEF IInv, TypeOK, vars, accountVars, claimVars, batchVars, saleVars
  <2> QED
    BY <1>5, <2>1, QuietIInv DEF vars, accountVars, saleVars
<1> QED
  BY <1>1, <1>2, <1>3, <1>4, <1>5 DEF Transaction

\* After every transaction, account rows, redemptions and after-sales fit
\* together.
THEOREM InductiveInvariant == Spec => []IInv
BY InitIInv, NextIInv, NextIsTransaction, PTL DEF Spec

\* Every column keeps its type; in particular no code gets more redemptions
\* than the table of after-sales allows for.
THEOREM TypeCorrect == Spec => []TypeOK
<1>1. IInv => TypeOK
  BY DEF IInv
<1> QED
  BY <1>1, InductiveInvariant, PTL

\* No account is ever delivered twice, however many requests, imports, probes,
\* deletions and batch edits interleave.
THEOREM NoDoubleDelivery == Spec => []Exclusive
<1>1. IInv => Exclusive
  BY DEF IInv
<1> QED
  BY <1>1, InductiveInvariant, PTL

\* The account rows and the redemption rows never disagree about who holds an
\* account.
THEOREM RowsMatchRedemptions == Spec => []BindingMatches
<1>1. IInv => BindingMatches
  BY DEF IInv
<1> QED
  BY <1>1, InductiveInvariant, PTL

\* Every redemption after the first is an after-sale that was counted.
THEOREM EveryReissueCounted == Spec => []RoundsAgree
<1>1. IInv => RoundsAgree
  BY DEF IInv
<1> QED
  BY <1>1, InductiveInvariant, PTL

-----------------------------------------------------------------------------
(* What a step does to an account that has been delivered.                  *)

\* The account keeps its binding, or its row or its batch is deleted.
KeepsOrGoes(a) ==
    binding[a] # None /\ binding'[a] # binding[a] =>
        \/ row'[a] = "deleted"
        \/ batchStatus'[BatchOf[binding[a][1]]] = "deleted"

LEMMA DeliverKeeps ==
  ASSUME IInv, NEW W, NEW D \in SUBSET Codes, NEW r,
         NEW to \in Allotments(W, D), \A a \in W : Unredeemed(a), Deliver(to, r)
  PROVE  \A a \in Accounts : KeepsOrGoes(a)
<1>1. \A a \in Accounts : to[a] # None => binding[a] = None
  BY AllotmentFacts DEF Unredeemed
<1> QED
  BY <1>1 DEF Deliver, KeepsOrGoes

LEMMA SettleKeeps ==
  ASSUME IInv, NEW r \in Reservations \cup {None}, NEW V, NEW cs \in SUBSET Codes,
         \/ Settle(r, V, cs)
         \/ \E verified \in SUBSET Accounts : SettleAfterSale(r, verified, V, cs)
  PROVE  \A a \in Accounts : KeepsOrGoes(a)
<1>1. CASE Settle(r, V, cs)
  <2> DEFINE D == SettleDemand(cs)
             M == {a \in Candidates(r, V) : \E c \in D : pool[a] = CodePool(c)}
  <2>1. PICK W \in Windows(M, D) : \E to \in Allotments(W \cap V, D) : Deliver(to, r)
    BY <1>1 DEF Settle
  <2>2. PICK to \in Allotments(W \cap V, D) : Deliver(to, r)
    BY <2>1
  <2>3. \A a \in W \cap V : Unredeemed(a)
    BY DEF Windows, kSubset, Candidates, InStock
  <2>4. D \in SUBSET Codes
    BY DEF SettleDemand
  <2> QED
    BY <2>2, <2>3, <2>4, DeliverKeeps
<1>2. CASE \E verified \in SUBSET Accounts : SettleAfterSale(r, verified, V, cs)
  <2>1. PICK verified \in SUBSET Accounts : SettleAfterSale(r, verified, V, cs)
    BY <1>2
  <2> DEFINE D == ReissueDemand(cs, verified)
             W == Candidates(r, V) \cap V
  <2>2. PICK to \in Allotments(W, D) : Deliver(to, r)
    BY <2>1 DEF SettleAfterSale
  <2>3. \A a \in W : Unredeemed(a)
    BY DEF Candidates, InStock
  <2>4. D \in SUBSET Codes
    BY DEF ReissueDemand
  <2> QED
    BY <2>2, <2>3, <2>4, DeliverKeeps
<1> QED
  BY <1>1, <1>2

LEMMA NextKeeps ==
  ASSUME IInv, [Transaction]_vars, NEW a \in Accounts
  PROVE  KeepsOrGoes(a)
<1>1. CASE UNCHANGED binding
  BY <1>1 DEF KeepsOrGoes
<1>2. CASE CallerRequests
  <2>1. ASSUME NEW cs \in SUBSET Codes, NEW r \in Reservations \cup {None}, NEW V,
               \/ Settle(r, V, cs)
               \/ \E verified \in SUBSET Accounts : SettleAfterSale(r, verified, V, cs)
        PROVE  KeepsOrGoes(a)
    BY <2>1, SettleKeeps
  <2>2. ASSUME NEW cs, NEW r, NEW S, \/ PrepareRedeem(r, S, cs) \/ PrepareAfterSale(r, S, cs)
                                    \/ Release(r) \/ Heartbeat(r)
        PROVE  UNCHANGED binding
    BY <2>2 DEF PrepareRedeem, PrepareAfterSale, Claim, Release, Heartbeat
  <2> QED
    BY <1>1, <1>2, <2>1, <2>2 DEF CallerRequests
<1>3. CASE CallerWrites
  <2>1. CASE \E x \in Accounts : DeleteUnbound(x)
    BY <2>1 DEF DeleteUnbound, KeepsOrGoes, IInv, TypeOK
  <2>2. CASE ~ \E x \in Accounts : DeleteUnbound(x)
    BY <1>1, <1>3, <2>2 DEF CallerWrites, Import, StoreAuth, StoreRedeemedAuth, SetStatus
  <2> QED
    BY <2>1, <2>2
<1>4. CASE Administration
  <2>1. CASE \E b \in Batches : DeleteBatch(b)
    BY <2>1 DEF DeleteBatch, Freed, KeepsOrGoes, IInv, TypeOK
  <2>2. CASE ~ \E b \in Batches : DeleteBatch(b)
    BY <1>1, <1>4, <2>2 DEF Administration, CreateBatch, UpdateBatch, SetCodeStatus
  <2> QED
    BY <2>1, <2>2
<1>5. CASE Clock
  BY <1>1, <1>5 DEF Clock, Tick, TokenAges, BatchExpires
<1>6. CASE UNCHANGED vars
  BY <1>1, <1>6 DEF vars
<1> QED
  BY <1>2, <1>3, <1>4, <1>5, <1>6 DEF Transaction

\* A customer loses an account only by deletion of its row or of its batch.
THEOREM CustomersKeepAccounts == Spec => BindingStable
<1>1. IInv /\ [Next]_vars =>
        [\A a \in Accounts : binding[a] # None /\ binding'[a] # binding[a] =>
           \/ row'[a] = "deleted"
           \/ batchStatus'[BatchOf[binding[a][1]]] = "deleted"]_vars
  BY NextKeeps, NextIsTransaction DEF KeepsOrGoes
<1> QED
  BY <1>1, InductiveInvariant, PTL DEF Spec, BindingStable

-----------------------------------------------------------------------------
(* What a delivery hands out.                                               *)

\* An account that is bound was in stock, in the pool of a code that is open.
BoundWell(a) ==
    binding[a] = None /\ binding'[a] # None =>
        /\ row[a] = "live" /\ status[a] = "available" /\ token[a] = "usable"
        /\ pool[a] = CodePool(binding'[a][1])
        /\ Open(binding'[a][1])

LEMMA DeliverBindsWell ==
  ASSUME IInv, NEW W, NEW D \in SUBSET Codes, \A c \in D : Open(c), NEW r,
         NEW to \in Allotments(W, D), \A a \in W : InStock(a), Deliver(to, r)
  PROVE  \A a \in Accounts : BoundWell(a)
<1>1. \A a \in Accounts : to[a] # None => a \in W /\ to[a] \in D
  BY AllotmentFacts
<1>2. \A a \in Accounts : to[a] # None => pool[a] = CodePool(to[a])
  BY DEF Allotments
<1>3. \A a \in Accounts :
         binding'[a] = IF to[a] # None THEN <<to[a], rounds[to[a]] + 1>> ELSE binding[a]
  BY DEF Deliver
<1> SUFFICES ASSUME NEW a \in Accounts, binding[a] = None, binding'[a] # None
             PROVE  /\ row[a] = "live" /\ status[a] = "available" /\ token[a] = "usable"
                    /\ pool[a] = CodePool(binding'[a][1])
                    /\ Open(binding'[a][1])
  BY DEF BoundWell
<1>4. to[a] # None
  BY <1>3
<1>5. binding'[a][1] = to[a]
  <2>1. binding'[a] = <<to[a], rounds[to[a]] + 1>>
    BY <1>3, <1>4
  <2> QED
    BY <2>1
<1>6. InStock(a) /\ Open(to[a])
  BY <1>1, <1>4
<1> QED
  BY <1>2, <1>4, <1>5, <1>6 DEF InStock, Unredeemed, Fresh, CodePool, Open

LEMMA SettleBindsWell ==
  ASSUME IInv, NEW r \in Reservations \cup {None}, NEW V, NEW cs \in SUBSET Codes,
         \/ Settle(r, V, cs)
         \/ \E verified \in SUBSET Accounts : SettleAfterSale(r, verified, V, cs)
  PROVE  \A a \in Accounts : BoundWell(a)
<1>1. CASE Settle(r, V, cs)
  <2> DEFINE D == SettleDemand(cs)
             M == {a \in Candidates(r, V) : \E c \in D : pool[a] = CodePool(c)}
  <2>1. PICK W \in Windows(M, D) : \E to \in Allotments(W \cap V, D) : Deliver(to, r)
    BY <1>1 DEF Settle
  <2>2. PICK to \in Allotments(W \cap V, D) : Deliver(to, r)
    BY <2>1
  <2>3. \A a \in W \cap V : InStock(a)
    BY DEF Windows, kSubset, Candidates
  <2>4. D \in SUBSET Codes /\ \A c \in D : Open(c)
    BY DEF SettleDemand
  <2> QED
    BY <2>2, <2>3, <2>4, DeliverBindsWell
<1>2. CASE \E verified \in SUBSET Accounts : SettleAfterSale(r, verified, V, cs)
  <2>1. PICK verified \in SUBSET Accounts : SettleAfterSale(r, verified, V, cs)
    BY <1>2
  <2> DEFINE D == ReissueDemand(cs, verified)
             W == Candidates(r, V) \cap V
  <2>2. PICK to \in Allotments(W, D) : Deliver(to, r)
    BY <2>1 DEF SettleAfterSale
  <2>3. \A a \in W : InStock(a)
    BY DEF Candidates
  <2>4. D \in SUBSET Codes /\ \A c \in D : Open(c)
    BY DEF ReissueDemand, Reissuable, MayReissue
  <2> QED
    BY <2>2, <2>3, <2>4, DeliverBindsWell
<1> QED
  BY <1>1, <1>2

LEMMA NextBindsWell ==
  ASSUME IInv, [Transaction]_vars, NEW a \in Accounts
  PROVE  BoundWell(a)
<1>1. CASE UNCHANGED binding
  BY <1>1 DEF BoundWell
<1>2. CASE CallerRequests
  <2>1. ASSUME NEW cs \in SUBSET Codes, NEW r \in Reservations \cup {None}, NEW V,
               \/ Settle(r, V, cs)
               \/ \E verified \in SUBSET Accounts : SettleAfterSale(r, verified, V, cs)
        PROVE  BoundWell(a)
    BY <2>1, SettleBindsWell
  <2>2. ASSUME NEW cs, NEW r, NEW S, \/ PrepareRedeem(r, S, cs) \/ PrepareAfterSale(r, S, cs)
                                    \/ Release(r) \/ Heartbeat(r)
        PROVE  UNCHANGED binding
    BY <2>2 DEF PrepareRedeem, PrepareAfterSale, Claim, Release, Heartbeat
  <2> QED
    BY <1>1, <1>2, <2>1, <2>2 DEF CallerRequests
<1>3. CASE CallerWrites
  <2>1. CASE \E x \in Accounts : DeleteUnbound(x)
    BY <2>1 DEF DeleteUnbound, BoundWell, IInv, TypeOK
  <2>2. CASE ~ \E x \in Accounts : DeleteUnbound(x)
    BY <1>1, <1>3, <2>2 DEF CallerWrites, Import, StoreAuth, StoreRedeemedAuth, SetStatus
  <2> QED
    BY <2>1, <2>2
<1>4. CASE Administration
  <2>1. CASE \E b \in Batches : DeleteBatch(b)
    BY <2>1 DEF DeleteBatch, BoundWell
  <2>2. CASE ~ \E b \in Batches : DeleteBatch(b)
    BY <1>1, <1>4, <2>2 DEF Administration, CreateBatch, UpdateBatch, SetCodeStatus
  <2> QED
    BY <2>1, <2>2
<1>5. CASE Clock
  BY <1>1, <1>5 DEF Clock, Tick, TokenAges, BatchExpires
<1>6. CASE UNCHANGED vars
  BY <1>1, <1>6 DEF vars
<1> QED
  BY <1>2, <1>3, <1>4, <1>5, <1>6 DEF Transaction

\* Whatever happened since a request chose its accounts, what it delivers is
\* usable at that moment and comes from the pool its code draws on.
THEOREM OnlyUsableDelivered == Spec => DeliveriesUsable
<1>1. IInv /\ [Next]_vars =>
        [\A a \in Accounts : binding[a] = None /\ binding'[a] # None =>
           /\ row[a] = "live" /\ status[a] = "available" /\ token[a] = "usable"
           /\ pool[a] = CodePool(binding'[a][1])
           /\ Open(binding'[a][1])]_vars
  BY NextBindsWell, NextIsTransaction DEF BoundWell
<1> QED
  BY <1>1, InductiveInvariant, PTL DEF Spec, DeliveriesUsable

-----------------------------------------------------------------------------
(* Why the store may be modelled with callers that name only accounts in    *)
(* stock and have verified every delivered account.                         *)

OpenNext == CallerRequests \/ AccountWrites \/ Administration \/ Clock

OpenSpec == Init /\ [][OpenNext]_vars

LEMMA NarrowSettle ==
  ASSUME NEW r, NEW V \in SUBSET Accounts, NEW cs \in SUBSET Codes, Settle(r, V, cs)
  PROVE  \E U \in SUBSET {a \in Accounts : InStock(a)} : Settle(r, U, cs)
<1> DEFINE U == {a \in V : InStock(a)}
           D == SettleDemand(cs)
           M(X) == {a \in Candidates(r, X) : \E c \in D : pool[a] = CodePool(c)}
<1>1. Candidates(r, V) = Candidates(r, U)
  BY DEF Candidates
<1>2. M(V) = M(U) /\ \A a \in M(V) : InStock(a)
  BY <1>1 DEF Candidates
<1>3. PICK W \in Windows(M(V), D) : \E to \in Allotments(W \cap V, D) :
         /\ Deliver(to, r)
         /\ redeemedCount' = [b \in Batches |-> redeemedCount[b] +
                                Cardinality({c \in Served(to) : BatchOf[c] = b})]
         /\ UNCHANGED afterSales
  BY DEF Settle
<1>4. W \subseteq M(V)
  BY DEF Windows, kSubset
<1>5. W \cap V = W \cap U
  BY <1>2, <1>4
<1>6. \E Y \in Windows(M(U), D) : \E to \in Allotments(Y \cap U, D) :
         /\ Deliver(to, r)
         /\ redeemedCount' = [b \in Batches |-> redeemedCount[b] +
                                Cardinality({c \in Served(to) : BatchOf[c] = b})]
         /\ UNCHANGED afterSales
  BY <1>2, <1>3, <1>5
<1>7. Settle(r, U, cs)
  BY <1>6 DEF Settle
<1> QED
  BY <1>7

\* What an after-sale has not verified it leaves, as if it had not been asked.
LEMMA NarrowAfterSale ==
  ASSUME IInv, NEW r, NEW verified \in SUBSET Accounts, NEW V \in SUBSET Accounts,
         NEW cs \in SUBSET Codes, SettleAfterSale(r, verified, V, cs)
  PROVE  \E U \in SUBSET {a \in Accounts : InStock(a)}, ds \in SUBSET Codes :
            SettleAfterSale(r, {a \in Accounts : binding[a] # None}, U, ds)
<1> DEFINE U == {a \in V : InStock(a)}
           ds == {c \in cs : Current(c) \subseteq verified}
           bound == {a \in Accounts : binding[a] # None}
<1>1. Candidates(r, V) \cap V = Candidates(r, U) \cap U
  BY DEF Candidates
<1>2. ASSUME NEW c \in Codes, MayReissue(c), \A a \in Current(c) : row[a] = "live"
      PROVE  Current(c) \subseteq bound
  <2>1. rounds[c] \in Rounds
    BY <1>2, BoundAssumption DEF MayReissue, IInv, TypeOK, Rounds
  <2>2. Current(c) \subseteq Accounts
    BY <2>1 DEF IInv, TypeOK, Current
  <2>3. \A a \in Current(c) : binding[a] = <<c, rounds[c]>>
    BY <1>2, <2>1, <2>2 DEF IInv, BindingMatches, Current
  <2> QED
    BY <2>1, <2>2, <2>3, PairNotNone
<1>3. ReissueDemand(cs, verified) = ReissueDemand(ds, bound)
  BY <1>2 DEF ReissueDemand, Reissuable
<1>4. SettleAfterSale(r, bound, U, ds)
  BY <1>1, <1>3 DEF SettleAfterSale
<1> QED
  BY <1>4

LEMMA OpenStep == IInv /\ [OpenNext]_vars => [Next]_vars
<1> SUFFICES ASSUME IInv, CallerRequests PROVE Requests
  BY DEF OpenNext, Next
<1>1. ASSUME NEW r \in minted \cup {None}, r \in Reservations \cup {None},
             NEW cs \in SUBSET Codes, NEW V \in SUBSET Accounts,
             \/ Settle(r, V, cs)
             \/ \E verified \in SUBSET Accounts : SettleAfterSale(r, verified, V, cs)
      PROVE  Requests
  BY <1>1, NarrowSettle, NarrowAfterSale DEF Requests
<1> QED
  BY <1>1 DEF CallerRequests, Requests

\* Whatever accounts callers say they have verified, the database goes through
\* no other states and steps than with the callers Next has.
THEOREM CallersModelled == OpenSpec => Spec
<1>1. [OpenNext]_vars => [Transaction]_vars
  BY OutcomeAssumption DEF OpenNext, Transaction, AccountWrites, CallerWrites
<1> QED
  BY <1>1, InitIInv, NextIInv, OpenStep, PTL DEF OpenSpec, Spec

-----------------------------------------------------------------------------
(* What the counters say, how much a redemption delivers and what an       *)
(* after-sale may replace.                                                 *)

\* Codes are redeemed only while their batch exists, so that a batch that is
\* created has none.
RedeemedInBatch == \A c \in Codes : rounds[c] > 0 => Exists(BatchOf[c])

\* Neither CountsAgree nor WholeDeliveries is inductive without the other
\* facts: accounts_per_code may change while redeemed_count is 0, which says
\* that no code is redeemed only if the counter is right.
SaleInv == IInv /\ CountsAgree /\ WholeDeliveries /\ RedeemedInBatch

\* The redeemed codes of a batch.
Sold(b) == {c \in Codes : BatchOf[c] = b /\ rounds[c] > 0}

LEMMA SoldFinite ==
  ASSUME NEW b
  PROVE  IsFiniteSet(Sold(b)) /\ Cardinality(Sold(b)) \in Nat
<1>1. Sold(b) \subseteq Codes
  BY DEF Sold
<1> QED
  BY <1>1, FiniteAssumption, FS_Subset, FS_CardinalityType

LEMMA CountsSpelled ==
  CountsAgree <=> /\ \A b \in Batches : redeemedCount[b] = Cardinality(Sold(b))
                  /\ \A c \in Codes : codeStatus[c] = "redeemed" <=> rounds[c] > 0
BY DEF CountsAgree, Sold

LEMMA InitSaleInv == Init => SaleInv
<1> SUFFICES ASSUME Init PROVE SaleInv
  OBVIOUS
<1>1. \A b : Sold(b) = {}
  BY DEF Init, Sold
<1>2. CountsAgree
  <2>1. \A b \in Batches : redeemedCount[b] = Cardinality(Sold(b))
    BY <1>1, FS_EmptySet DEF Init
  <2>2. \A c \in Codes : codeStatus[c] = "redeemed" <=> rounds[c] > 0
    BY DEF Init
  <2> QED
    BY <2>1, <2>2, CountsSpelled
<1>3. WholeDeliveries /\ RedeemedInBatch
  BY DEF Init, WholeDeliveries, RedeemedInBatch
<1> QED
  BY <1>2, <1>3, InitIInv DEF SaleInv

\* A transaction that writes neither codes, counters nor batches keeps all.
LEMMA QuietSale ==
  ASSUME SaleInv, UNCHANGED <<batchStatus, perCode, saleVars>>
  PROVE  CountsAgree' /\ WholeDeliveries' /\ RedeemedInBatch'
BY DEF SaleInv, CountsAgree, WholeDeliveries, RedeemedInBatch, Exists, Need, saleVars

\* A delivery gives each code it serves what its batch says.
LEMMA DeliverWhole ==
  ASSUME SaleInv, NEW W, NEW D \in SUBSET Codes, \A c \in D : rounds[c] <= MaxAfterSale,
         \A c \in D : Open(c), NEW r, NEW to \in Allotments(W, D), Deliver(to, r)
  PROVE  WholeDeliveries' /\ RedeemedInBatch'
<1>1. /\ rounds' = [c \in Codes |-> IF c \in Served(to) THEN rounds[c] + 1 ELSE rounds[c]]
      /\ issued' = [c \in Codes |-> [n \in Rounds |->
            IF c \in Served(to) /\ n = rounds[c] + 1 THEN Got(to, c) ELSE issued[c][n]]]
      /\ UNCHANGED <<batchStatus, perCode>>
  BY DEF Deliver, batchVars
<1>2. Served(to) \subseteq D
  BY AllotmentFacts
<1>3. \A c \in Codes : rounds[c] \in 0 .. MaxAfterSale + 1 /\ MaxAfterSale \in Nat
  BY BoundAssumption DEF SaleInv, IInv, TypeOK
<1>4. \A c \in Served(to) : Cardinality(Got(to, c)) = Need(c)
  <2> SUFFICES ASSUME NEW c \in Served(to) PROVE Cardinality(Got(to, c)) = Need(c)
    OBVIOUS
  <2>1. c \in D /\ Got(to, c) # {}
    BY <1>2 DEF Served
  <2> QED
    BY <2>1 DEF Allotments, Got
<1>5. WholeDeliveries'
  <2> SUFFICES ASSUME NEW c \in Codes, NEW n \in 1 .. rounds'[c]
               PROVE  Cardinality(issued'[c][n]) = Need(c)'
    BY DEF WholeDeliveries
  <2>1. Need(c)' = Need(c)
    BY <1>1 DEF Need
  <2>2. n \in Rounds
    BY <1>1, <1>2, <1>3 DEF Rounds
  <2>3. issued'[c][n] = IF c \in Served(to) /\ n = rounds[c] + 1 THEN Got(to, c) ELSE issued[c][n]
    BY <1>1, <2>2
  <2>4. CASE c \in Served(to) /\ n = rounds[c] + 1
    BY <1>4, <2>1, <2>3, <2>4
  <2>5. CASE ~(c \in Served(to) /\ n = rounds[c] + 1)
    <3>1. CASE c \in Served(to)
      <4>1. rounds'[c] = rounds[c] + 1 /\ n # rounds[c] + 1
        BY <1>1, <2>5, <3>1
      <4>2. n \in 1 .. rounds[c]
        BY <1>3, <4>1
      <4> QED
        BY <2>1, <2>3, <2>5, <4>2 DEF SaleInv, WholeDeliveries
    <3>2. CASE c \notin Served(to)
      <4>1. rounds'[c] = rounds[c]
        BY <1>1, <3>2
      <4>2. n \in 1 .. rounds[c]
        BY <4>1
      <4> QED
        BY <2>1, <2>3, <2>5, <4>2 DEF SaleInv, WholeDeliveries
    <3> QED
      BY <3>1, <3>2
  <2> QED
    BY <2>4, <2>5
<1>6. RedeemedInBatch'
  BY <1>1, <1>2 DEF SaleInv, RedeemedInBatch, Exists, Open
<1> QED
  BY <1>5, <1>6

\* redeemed_count grows by the codes redeemed for the first time.
LEMMA SettleSale ==
  ASSUME SaleInv, NEW r \in Reservations \cup {None}, NEW V, NEW cs \in SUBSET Codes,
         Settle(r, V, cs)
  PROVE  CountsAgree' /\ WholeDeliveries' /\ RedeemedInBatch'
<1> DEFINE D == SettleDemand(cs)
           M == {a \in Candidates(r, V) : \E c \in D : pool[a] = CodePool(c)}
<1>1. PICK W \in Windows(M, D) : \E to \in Allotments(W \cap V, D) :
         /\ Deliver(to, r)
         /\ redeemedCount' = [b \in Batches |-> redeemedCount[b] +
                                Cardinality({c \in Served(to) : BatchOf[c] = b})]
  BY DEF Settle
<1>2. PICK to \in Allotments(W \cap V, D) :
         /\ Deliver(to, r)
         /\ redeemedCount' = [b \in Batches |-> redeemedCount[b] +
                                Cardinality({c \in Served(to) : BatchOf[c] = b})]
  BY <1>1
<1>3. D \in SUBSET Codes /\ \A c \in D : rounds[c] = 0 /\ Open(c)
  BY DEF SettleDemand
<1>4. WholeDeliveries' /\ RedeemedInBatch'
  <2>1. \A c \in D : rounds[c] <= MaxAfterSale
    BY <1>3, BoundAssumption
  <2> QED
    BY <1>2, <1>3, <2>1, DeliverWhole
<1>5. Served(to) \subseteq D
  BY <1>2, <1>3, AllotmentFacts
<1> HIDE DEF D, M
<1>6. /\ rounds' = [c \in Codes |-> IF c \in Served(to) THEN rounds[c] + 1 ELSE rounds[c]]
      /\ codeStatus' = [c \in Codes |-> IF c \in Served(to) THEN "redeemed" ELSE codeStatus[c]]
  BY <1>2 DEF Deliver
<1>7. \A c \in Codes : rounds[c] \in Nat
  BY DEF SaleInv, IInv, TypeOK
<1>8. \A c \in Codes : codeStatus'[c] = "redeemed" <=> rounds'[c] > 0
  BY <1>6, <1>7, CountsSpelled DEF SaleInv
<1>9. ASSUME NEW b \in Batches PROVE redeemedCount'[b] = Cardinality(Sold(b)')
  <2> DEFINE New == {c \in Served(to) : BatchOf[c] = b}
  <2>1. Sold(b)' = Sold(b) \cup New /\ Sold(b) \cap New = {}
    BY <1>3, <1>5, <1>6, <1>7 DEF Sold
  <2>2. IsFiniteSet(New) /\ Cardinality(New) \in Nat
    <3>1. New \subseteq Codes
      BY <1>3, <1>5
    <3> QED
      BY <3>1, FiniteAssumption, FS_Subset, FS_CardinalityType
  <2>3. redeemedCount'[b] = redeemedCount[b] + Cardinality(New)
    BY <1>2
  <2>4. redeemedCount[b] = Cardinality(Sold(b))
    BY CountsSpelled DEF SaleInv
  <2> HIDE DEF New
  <2>5. Cardinality(Sold(b) \cup New) = Cardinality(Sold(b)) + Cardinality(New)
                                         - Cardinality(Sold(b) \cap New)
    BY <2>2, SoldFinite, FS_Union
  <2>6. Cardinality(Sold(b) \cap New) = 0
    BY <2>1, FS_EmptySet
  <2> QED
    BY <2>1, <2>2, <2>3, <2>4, <2>5, <2>6, SoldFinite
<1>10. CountsAgree'
  BY <1>8, <1>9 DEF CountsAgree, Sold
<1> QED
  BY <1>4, <1>10

\* An after-sale serves codes that are counted already.
LEMMA SettleAfterSaleSale ==
  ASSUME SaleInv, NEW r \in Reservations \cup {None}, NEW verified, NEW V,
         NEW cs \in SUBSET Codes, SettleAfterSale(r, verified, V, cs)
  PROVE  CountsAgree' /\ WholeDeliveries' /\ RedeemedInBatch'
<1> DEFINE D == ReissueDemand(cs, verified)
           W == Candidates(r, V) \cap V
<1>1. PICK to \in Allotments(W, D) : Deliver(to, r) /\ UNCHANGED redeemedCount
  BY DEF SettleAfterSale
<1>2. D \in SUBSET Codes /\ \A c \in D : rounds[c] > 0 /\ Open(c)
  BY DEF ReissueDemand, Reissuable, MayReissue
<1>3. \A c \in D : rounds[c] <= MaxAfterSale
  BY CatalogAssumption, BoundAssumption
  DEF ReissueDemand, Reissuable, MayReissue, SaleInv, IInv, TypeOK, RoundsAgree
<1>4. WholeDeliveries' /\ RedeemedInBatch'
  BY <1>1, <1>2, <1>3, DeliverWhole
<1>5. Served(to) \subseteq D
  BY <1>1, <1>2, AllotmentFacts
<1> HIDE DEF D, W
<1>6. /\ rounds' = [c \in Codes |-> IF c \in Served(to) THEN rounds[c] + 1 ELSE rounds[c]]
      /\ codeStatus' = [c \in Codes |-> IF c \in Served(to) THEN "redeemed" ELSE codeStatus[c]]
  BY <1>1 DEF Deliver
<1>7. \A c \in Codes : rounds[c] \in Nat
  BY DEF SaleInv, IInv, TypeOK
<1>8. \A c \in Codes : codeStatus'[c] = "redeemed" <=> rounds'[c] > 0
  BY <1>6, <1>7, CountsSpelled DEF SaleInv
<1>9. \A b : Sold(b)' = Sold(b)
  BY <1>2, <1>5, <1>6, <1>7 DEF Sold
<1>10. \A b \in Batches : redeemedCount'[b] = Cardinality(Sold(b)')
  BY <1>1, <1>9, CountsSpelled DEF SaleInv
<1>11. CountsAgree'
  BY <1>8, <1>10 DEF CountsAgree, Sold
<1> QED
  BY <1>4, <1>11

\* A batch is created or edited: accounts_per_code changes only if no code of
\* it is redeemed.
LEMMA BatchWriteSale ==
  ASSUME SaleInv, NEW b \in Batches, NEW s \in {"active", "disabled"}, NEW n, NEW l, NEW e,
         CreateBatch(b, n, l, e) \/ UpdateBatch(b, s, n, l, e)
  PROVE  CountsAgree' /\ WholeDeliveries' /\ RedeemedInBatch'
<1>1. /\ UNCHANGED saleVars
      /\ perCode' = [perCode EXCEPT ![b] = n]
      /\ batchStatus' = [batchStatus EXCEPT ![b] = "active"]
         \/ batchStatus' = [batchStatus EXCEPT ![b] = s]
  BY DEF CreateBatch, UpdateBatch
<1>2. n = perCode[b] \/ \A c \in Codes : BatchOf[c] = b => ~(rounds[c] > 0)
  <2>1. CASE CreateBatch(b, n, l, e)
    BY <2>1 DEF CreateBatch, SaleInv, RedeemedInBatch, Exists
  <2>2. CASE UpdateBatch(b, s, n, l, e)
    <3>1. CASE redeemedCount[b] > 0
      BY <2>2, <3>1 DEF UpdateBatch
    <3>2. CASE ~(redeemedCount[b] > 0)
      <4>1. Cardinality(Sold(b)) = 0
        BY <3>2, SoldFinite, CountsSpelled DEF SaleInv
      <4>2. Sold(b) = {}
        BY <4>1, SoldFinite, FS_EmptySet
      <4> QED
        BY <4>2 DEF Sold
    <3> QED
      BY <3>1, <3>2
  <2> QED
    BY <2>1, <2>2
<1>3. CountsAgree'
  BY <1>1 DEF SaleInv, CountsAgree, saleVars
<1>4. \A c \in Codes : rounds[c] > 0 => perCode'[BatchOf[c]] = perCode[BatchOf[c]]
  BY <1>1, <1>2, CatalogAssumption DEF SaleInv, IInv, TypeOK
<1>5. WholeDeliveries'
  <2> SUFFICES ASSUME NEW c \in Codes, NEW m \in 1 .. rounds[c]
               PROVE  Cardinality(issued[c][m]) = perCode'[BatchOf[c]]
    BY <1>1 DEF WholeDeliveries, Need, saleVars
  <2>1. rounds[c] > 0
    BY DEF SaleInv, IInv, TypeOK
  <2> QED
    BY <1>4, <2>1 DEF SaleInv, WholeDeliveries, Need
<1>6. RedeemedInBatch'
  <2>1. rounds' = rounds
    BY <1>1 DEF saleVars
  <2>2. \A x \in Batches : Exists(x) => Exists(x)'
    BY <1>1 DEF SaleInv, IInv, TypeOK, Exists
  <2>3. \A c \in Codes : BatchOf[c] \in Batches
    BY CatalogAssumption
  <2> QED
    BY <2>1, <2>2, <2>3 DEF SaleInv, RedeemedInBatch
<1> QED
  BY <1>3, <1>5, <1>6

LEMMA DeleteBatchSale ==
  ASSUME SaleInv, NEW b \in Batches, DeleteBatch(b)
  PROVE  CountsAgree' /\ WholeDeliveries' /\ RedeemedInBatch'
<1> DEFINE mine == {c \in Codes : BatchOf[c] = b}
<1>1. /\ redeemedCount' = [redeemedCount EXCEPT ![b] = 0]
      /\ codeStatus' = [c \in Codes |-> IF c \in mine THEN "active" ELSE codeStatus[c]]
      /\ rounds' = [c \in Codes |-> IF c \in mine THEN 0 ELSE rounds[c]]
      /\ issued' = [c \in Codes |-> IF c \in mine THEN [n \in Rounds |-> {}] ELSE issued[c]]
      /\ batchStatus' = [batchStatus EXCEPT ![b] = "deleted"]
      /\ perCode' = [perCode EXCEPT ![b] = 1]
  BY DEF DeleteBatch
<1>2. \A x \in Batches : Sold(x)' = IF x = b THEN {} ELSE Sold(x)
  BY <1>1 DEF Sold
<1>3. CountsAgree'
  <2>1. \A x \in Batches : redeemedCount'[x] = Cardinality(Sold(x)')
    BY <1>1, <1>2, FS_EmptySet, CountsSpelled DEF SaleInv, IInv, TypeOK
  <2>2. \A c \in Codes : codeStatus'[c] = "redeemed" <=> rounds'[c] > 0
    BY <1>1, CountsSpelled DEF SaleInv
  <2> QED
    BY <2>1, <2>2 DEF CountsAgree, Sold
<1>4. \A c \in Codes : c \notin mine => perCode'[BatchOf[c]] = perCode[BatchOf[c]]
                                        /\ batchStatus'[BatchOf[c]] = batchStatus[BatchOf[c]]
  BY <1>1, CatalogAssumption DEF SaleInv, IInv, TypeOK
<1>5. WholeDeliveries'
  <2> SUFFICES ASSUME NEW c \in Codes, NEW m \in 1 .. rounds'[c]
               PROVE  Cardinality(issued'[c][m]) = perCode'[BatchOf[c]]
    BY DEF WholeDeliveries, Need
  <2>1. c \notin mine
    BY <1>1
  <2> QED
    BY <1>1, <1>4, <2>1 DEF SaleInv, WholeDeliveries, Need
<1>6. RedeemedInBatch'
  BY <1>1, <1>4 DEF SaleInv, RedeemedInBatch, Exists
<1> QED
  BY <1>3, <1>5, <1>6

LEMMA NextSaleInv == SaleInv /\ [Transaction]_vars => SaleInv'
<1> SUFFICES ASSUME SaleInv, [Transaction]_vars
             PROVE  CountsAgree' /\ WholeDeliveries' /\ RedeemedInBatch'
  BY NextIInv DEF SaleInv
<1>1. CASE CallerRequests
  <2>1. ASSUME NEW cs \in SUBSET Codes, NEW r \in Reservations \cup {None}, NEW V,
               Settle(r, V, cs) \/ \E verified : SettleAfterSale(r, verified, V, cs)
        PROVE  CountsAgree' /\ WholeDeliveries' /\ RedeemedInBatch'
    BY <2>1, SettleSale, SettleAfterSaleSale
  <2>2. ASSUME NEW cs, NEW r, NEW S, \/ PrepareRedeem(r, S, cs) \/ PrepareAfterSale(r, S, cs)
                                    \/ Release(r) \/ Heartbeat(r)
        PROVE  UNCHANGED <<batchStatus, perCode, saleVars>>
    BY <2>2 DEF PrepareRedeem, PrepareAfterSale, Claim, Release, Heartbeat, batchVars
  <2> QED
    BY <1>1, <2>1, <2>2, QuietSale DEF CallerRequests
<1>2. CASE CallerWrites
  BY <1>2, QuietSale
  DEF CallerWrites, Import, DeleteUnbound, StoreAuth, StoreRedeemedAuth, SetStatus, batchVars
<1>3. CASE Administration
  <2>1. CASE \E b \in Batches : DeleteBatch(b)
    BY <2>1, DeleteBatchSale
  <2>2. CASE \E c \in Codes, s \in {"active", "disabled"} : SetCodeStatus(c, s)
    <3>1. PICK c \in Codes, s \in {"active", "disabled"} : SetCodeStatus(c, s)
      BY <2>2
    <3>2. /\ rounds[c] = 0 /\ codeStatus' = [codeStatus EXCEPT ![c] = s]
          /\ UNCHANGED <<batchStatus, perCode, redeemedCount, rounds, issued>>
      BY <3>1 DEF SetCodeStatus, batchVars
    <3>3. CountsAgree'
      BY <3>2 DEF SaleInv, IInv, TypeOK, CountsAgree
    <3>4. WholeDeliveries' /\ RedeemedInBatch'
      BY <3>2 DEF SaleInv, WholeDeliveries, RedeemedInBatch, Exists, Need
    <3> QED
      BY <3>3, <3>4
  <2>3. ASSUME NEW b \in Batches, NEW n, NEW l, NEW e,
               CreateBatch(b, n, l, e) \/ \E s \in {"active", "disabled"} : UpdateBatch(b, s, n, l, e)
        PROVE  CountsAgree' /\ WholeDeliveries' /\ RedeemedInBatch'
    BY <2>3, BatchWriteSale
  <2> QED
    BY <1>3, <2>1, <2>2, <2>3 DEF Administration
<1>4. CASE Clock
  BY <1>4, QuietSale DEF Clock, Tick, TokenAges, BatchExpires, batchVars
<1>5. CASE UNCHANGED vars
  BY <1>5, QuietSale DEF vars, batchVars
<1> QED
  BY <1>1, <1>2, <1>3, <1>4, <1>5 DEF Transaction

\* After every transaction, counters and code states fit the redemptions.
THEOREM SaleInvariant == Spec => []SaleInv
BY InitSaleInv, NextSaleInv, NextIsTransaction, PTL DEF Spec

\* redeemed_count and the status of a code are never out of step with the
\* redemptions.
THEOREM CountersRight == Spec => []CountsAgree
<1>1. SaleInv => CountsAgree
  BY DEF SaleInv
<1> QED
  BY <1>1, SaleInvariant, PTL

\* Every delivery, the first and each after-sale, has as many accounts as the
\* batch says now.
THEOREM DeliveriesWhole == Spec => []WholeDeliveries
<1>1. SaleInv => WholeDeliveries
  BY DEF SaleInv
<1> QED
  BY <1>1, SaleInvariant, PTL

-----------------------------------------------------------------------------
(* What an after-sale replaces.                                             *)

ReplacesFailed(c) ==
    rounds[c] > 0 /\ rounds'[c] > rounds[c] =>
        /\ \A a \in Current(c) : status[a] \in Deletable /\ binding'[a] = <<c, rounds[c]>>
        /\ afterSales'[c] <= limit[BatchOf[c]]

LEMMA SettleReplaces ==
  ASSUME IInv, NEW r, NEW V, NEW cs \in SUBSET Codes, Settle(r, V, cs), NEW c \in Codes
  PROVE  ReplacesFailed(c)
<1> DEFINE D == SettleDemand(cs)
           M == {a \in Candidates(r, V) : \E d \in D : pool[a] = CodePool(d)}
<1>1. PICK W \in Windows(M, D) : \E to \in Allotments(W \cap V, D) : Deliver(to, r)
  BY DEF Settle
<1>2. PICK to \in Allotments(W \cap V, D) : Deliver(to, r)
  BY <1>1
<1>3. D \in SUBSET Codes /\ \A d \in D : rounds[d] = 0
  BY DEF SettleDemand
<1>4. Served(to) \subseteq D
  BY <1>2, <1>3, AllotmentFacts
<1>5. rounds'[c] = IF c \in Served(to) THEN rounds[c] + 1 ELSE rounds[c]
  BY <1>2 DEF Deliver
<1>6. rounds[c] \in Nat
  BY DEF IInv, TypeOK
<1> QED
  BY <1>3, <1>4, <1>5, <1>6 DEF ReplacesFailed

LEMMA SettleAfterSaleReplaces ==
  ASSUME IInv, NEW r, NEW verified, NEW V, NEW cs \in SUBSET Codes,
         SettleAfterSale(r, verified, V, cs), NEW c \in Codes
  PROVE  ReplacesFailed(c)
<1> DEFINE D == ReissueDemand(cs, verified)
           W == Candidates(r, V) \cap V
<1>1. PICK to \in Allotments(W, D) :
         /\ Deliver(to, r)
         /\ afterSales' = [d \in Codes |-> IF d \in Served(to) THEN afterSales[d] + 1
                                                               ELSE afterSales[d]]
  BY DEF SettleAfterSale
<1>2. D \in SUBSET Codes
  BY DEF ReissueDemand
<1>3. Served(to) \subseteq D /\ \A a \in Accounts : to[a] # None => a \in W
  BY <1>1, <1>2, AllotmentFacts
<1>4. \A a \in W : binding[a] = None
  BY DEF Candidates, InStock, Unredeemed
<1>5. \A d \in D : /\ afterSales[d] < limit[BatchOf[d]]
                   /\ \A a \in Current(d) : row[a] = "live" /\ status[a] \in Deletable
  BY DEF ReissueDemand, Reissuable, MayReissue
<1> HIDE DEF D, W
<1>6. /\ rounds' = [d \in Codes |-> IF d \in Served(to) THEN rounds[d] + 1 ELSE rounds[d]]
      /\ binding' = [a \in Accounts |->
            IF to[a] # None THEN <<to[a], rounds[to[a]] + 1>> ELSE binding[a]]
  BY <1>1 DEF Deliver
<1> SUFFICES ASSUME rounds[c] > 0, rounds'[c] > rounds[c]
             PROVE  /\ \A a \in Current(c) : status[a] \in Deletable
                                             /\ binding'[a] = <<c, rounds[c]>>
                    /\ afterSales'[c] <= limit[BatchOf[c]]
  BY Zenon DEF ReplacesFailed
<1>7. rounds[c] \in Rounds /\ afterSales[c] \in Nat /\ limit[BatchOf[c]] \in Nat
  BY CatalogAssumption, BoundAssumption DEF IInv, TypeOK, Rounds
<1>8. c \in Served(to) /\ c \in D
  <2>1. rounds[c] \in Nat
    BY <1>7 DEF Rounds
  <2> QED
    BY <1>3, <1>6, <2>1
<1>9. ASSUME NEW a \in Current(c)
      PROVE  status[a] \in Deletable /\ binding'[a] = <<c, rounds[c]>>
  <2>1. a \in Accounts /\ a \in issued[c][rounds[c]]
    BY <1>7 DEF Current, IInv, TypeOK
  <2>2. row[a] = "live" /\ status[a] \in Deletable
    BY <1>5, <1>8
  <2>3. binding[a] = <<c, rounds[c]>>
    BY <1>7, <2>1, <2>2 DEF IInv, BindingMatches
  <2>4. binding[a] # None
    BY <1>7, <2>3, PairNotNone
  <2>5. to[a] = None
    BY <1>3, <1>4, <2>1, <2>4
  <2> QED
    BY <1>6, <2>1, <2>2, <2>3, <2>5
<1>10. afterSales'[c] <= limit[BatchOf[c]]
  BY <1>1, <1>5, <1>7, <1>8
<1> QED
  BY <1>9, <1>10

LEMMA NextReplacesFailed ==
  ASSUME IInv, [Transaction]_vars, NEW c \in Codes
  PROVE  ReplacesFailed(c)
<1>0. rounds[c] \in Nat
  BY DEF IInv, TypeOK
<1>1. ASSUME rounds'[c] = rounds[c] \/ rounds'[c] = 0 PROVE ReplacesFailed(c)
  BY <1>0, <1>1 DEF ReplacesFailed
<1>2. CASE CallerRequests
  <2>1. ASSUME NEW cs \in SUBSET Codes, NEW r, NEW V,
               Settle(r, V, cs) \/ \E verified : SettleAfterSale(r, verified, V, cs)
        PROVE  ReplacesFailed(c)
    BY <2>1, SettleReplaces, SettleAfterSaleReplaces
  <2>2. ASSUME NEW cs, NEW r, NEW S, \/ PrepareRedeem(r, S, cs) \/ PrepareAfterSale(r, S, cs)
                                    \/ Release(r) \/ Heartbeat(r)
        PROVE  rounds' = rounds
    BY <2>2 DEF PrepareRedeem, PrepareAfterSale, Claim, Release, Heartbeat, saleVars
  <2> QED
    BY <1>1, <1>2, <2>1, <2>2 DEF CallerRequests
<1>3. CASE CallerWrites
  BY <1>1, <1>3
  DEF CallerWrites, Import, DeleteUnbound, StoreAuth, StoreRedeemedAuth, SetStatus, saleVars
<1>4. CASE Administration
  <2>1. CASE \E b \in Batches : DeleteBatch(b)
    BY <1>1, <2>1 DEF DeleteBatch
  <2>2. CASE ~ \E b \in Batches : DeleteBatch(b)
    BY <1>1, <1>4, <2>2 DEF Administration, CreateBatch, UpdateBatch, SetCodeStatus, saleVars
  <2> QED
    BY <2>1, <2>2
<1>5. CASE Clock
  BY <1>1, <1>5 DEF Clock, Tick, TokenAges, BatchExpires, saleVars
<1>6. CASE UNCHANGED vars
  BY <1>1, <1>6 DEF vars, saleVars
<1> QED
  BY <1>2, <1>3, <1>4, <1>5, <1>6 DEF Transaction

\* A replacement goes out only for accounts that have all failed and stay with
\* the customer's earlier redemption, and within the limit of that moment.
THEOREM OnlyFailedReplaced == Spec => ReissueOnlyFailed
<1>1. IInv /\ [Next]_vars =>
        [\A c \in Codes : rounds[c] > 0 /\ rounds'[c] > rounds[c] =>
          /\ \A a \in Current(c) : status[a] \in Deletable /\ binding'[a] = <<c, rounds[c]>>
          /\ afterSales'[c] <= limit[BatchOf[c]]]_vars
  BY NextReplacesFailed, NextIsTransaction DEF ReplacesFailed
<1> QED
  BY <1>1, InductiveInvariant, PTL DEF Spec, ReissueOnlyFailed
=============================================================================
