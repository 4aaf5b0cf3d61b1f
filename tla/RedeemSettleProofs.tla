------------------------- MODULE RedeemSettleProofs -------------------------
(* The settle transactions, statement by statement, implement the atomic    *)
(* ones of RedeemStore, for every value of the constants.                   *)
EXTENDS RedeemSettle, RedeemStoreProofs

-----------------------------------------------------------------------------
(* The inductive invariant.                                                 *)

\* The codes the transaction may serve, and the accounts it may give them.
\* Neither changes while it is open.
Demand == IF kind = "redeem" THEN SettleDemand(asked) ELSE ReissueDemand(asked, seen)

Source == IF kind = "redeem" THEN pot \cap verified
                             ELSE Candidates(rsv, verified) \cap verified

\* What is left of the source for c.
Rest(c) == {a \in Source \ Taken : pool[a] = CodePool(c)}

\* The loop so far is greedy: each code that was looked at has taken what it
\* needs, or nothing, because too little was left when its turn came, and even
\* less is left now.
Greedy ==
    /\ \A c \in Codes : given[c] # {} =>
          /\ c \in Demand \ left
          /\ given[c] \subseteq Source
          /\ \A a \in given[c] : pool[a] = CodePool(c)
          /\ Cardinality(given[c]) = Need(c)
    /\ \A c \in Demand \ left : given[c] = {} => Cardinality(Rest(c)) < Need(c)
    /\ \A c, d \in Codes : c # d => given[c] \cap given[d] = {}

\* Where the candidates of a redemption come from.
PotRead ==
    kind = "redeem" =>
        pot \in Windows({a \in Candidates(rsv, verified) :
                            \E c \in Demand : pool[a] = CodePool(c)}, Demand)

\* The statements that have been executed.
Written(stages) == kind = "after_sale" \/ stage \in stages

\* The tables with what has been given written into them.
BindingGiven == [a \in Accounts |-> IF a \in Taken THEN <<Taker(a), rounds[Taker(a)] + 1>>
                                                   ELSE binding[a]]
IssuedGiven == [c \in Codes |-> [n \in Rounds |->
                   IF given[c] # {} /\ n = rounds[c] + 1 THEN given[c] ELSE issued[c][n]]]
RoundsGiven == [c \in Codes |-> IF given[c] # {} THEN rounds[c] + 1 ELSE rounds[c]]
StatusGiven == [c \in Codes |-> IF given[c] # {} THEN "redeemed" ELSE codeStatus[c]]
CountGiven == [b \in Batches |-> redeemedCount[b] +
                  Cardinality({c \in Codes : given[c] # {} /\ BatchOf[c] = b})]
SalesGiven == [c \in Codes |-> IF given[c] # {} THEN afterSales[c] + 1 ELSE afterSales[c]]
ResvCleared == [a \in Accounts |-> IF rsv # None /\ resv[a] = rsv THEN None ELSE resv[a]]
AgeCleared == [a \in Accounts |-> IF rsv # None /\ resv[a] = rsv THEN 0 ELSE age[a]]

\* The tables the transaction sees are the committed ones with what it has
\* given so far written into them, one table after the other.
ViewFits ==
    view =
      [binding |-> IF Written({"mark", "count", "clear", "commit"})
                   THEN BindingGiven ELSE binding,
       issued |-> IF Written({"bind", "mark", "count", "clear", "commit"})
                  THEN IssuedGiven ELSE issued,
       rounds |-> IF Written({"count", "clear", "commit"}) THEN RoundsGiven ELSE rounds,
       codeStatus |-> IF Written({"count", "clear", "commit"})
                      THEN StatusGiven ELSE codeStatus,
       redeemedCount |-> IF kind = "redeem" /\ stage \in {"clear", "commit"}
                         THEN CountGiven ELSE redeemedCount,
       afterSales |-> IF kind = "after_sale" THEN SalesGiven ELSE afterSales,
       resv |-> IF stage = "commit" THEN ResvCleared ELSE resv,
       age |-> IF stage = "commit" THEN AgeCleared ELSE age]

\* The request and the loop.
RequestOK ==
    /\ rsv \in minted \cup {None}
    /\ verified \in SUBSET Accounts /\ seen \in SUBSET Accounts
    /\ asked \in SUBSET Codes /\ left \in SUBSET asked
    /\ pot \in SUBSET Accounts
    /\ given \in [Codes -> SUBSET Accounts]
    /\ kind \in {"redeem", "after_sale"}
    /\ stage \in IF kind = "redeem"
                 THEN {"allocate", "bind", "mark", "count", "clear", "commit"}
                 ELSE {"reissue", "commit"}
    /\ kind = "redeem" => left \subseteq Demand
    /\ stage \notin {"allocate", "reissue"} => left = {}

OpenInv == RequestOK /\ PotRead /\ Greedy /\ ViewFits

SettleInv == IInv /\ (stage = "idle" => Closed) /\ (stage # "idle" => OpenInv)

-----------------------------------------------------------------------------
(* What the codes are given, as an assignment.                              *)

Assigned == [a \in Accounts |-> IF a \in Taken THEN Taker(a) ELSE None]

LEMMA TakerTakes ==
  ASSUME NEW c \in Codes, NEW a \in given[c],
         \A d, e \in Codes : d # e => given[d] \cap given[e] = {}
  PROVE  a \in Taken /\ Taker(a) = c
<1>1. a \in Taken
  BY DEF Taken
<1>2. \A d \in Codes : a \in given[d] => d = c
  OBVIOUS
<1> QED
  BY <1>1, <1>2 DEF Taker

LEMMA TakenTaker ==
  ASSUME NEW a \in Taken
  PROVE  Taker(a) \in Codes /\ a \in given[Taker(a)]
BY DEF Taken, Taker

LEMMA NeedPositive ==
  ASSUME IInv, NEW c \in Codes
  PROVE  Need(c) \in Nat /\ Need(c) > 0
BY CatalogAssumption, BoundAssumption DEF Need, IInv, TypeOK

LEMMA SuppliesFinite ==
  ASSUME NEW c, Source \in SUBSET Accounts
  PROVE  IsFiniteSet(Rest(c)) /\ Cardinality(Rest(c)) \in Nat
<1>1. Rest(c) \subseteq Accounts
  BY DEF Rest
<1> QED
  BY <1>1, FiniteAssumption, FS_Subset, FS_CardinalityType

\* At the end of the loop the assignment is one RedeemStore allows.
LEMMA AssignedAllots ==
  ASSUME IInv, RequestOK, Greedy, left = {}
  PROVE  /\ Assigned \in Allotments(Source, Demand)
         /\ \A c \in Codes : Got(Assigned, c) = given[c]
<1>1. \A c \in Codes : given[c] \in SUBSET Accounts
  BY DEF RequestOK
<1>2. ASSUME NEW c \in Codes
      PROVE  Got(Assigned, c) = given[c]
  <2>1. ASSUME NEW a \in given[c] PROVE a \in Got(Assigned, c)
    BY <1>1, <2>1, TakerTakes DEF Greedy, Got, Assigned
  <2>2. ASSUME NEW a \in Got(Assigned, c) PROVE a \in given[c]
    BY <2>2, TakenTaker, NoneAssumption DEF Got, Assigned
  <2> QED
    BY <2>1, <2>2
<1>3. \A a \in Accounts : Assigned[a] # None =>
          a \in Taken /\ Assigned[a] = Taker(a) /\ Taker(a) \in Codes /\ a \in given[Taker(a)]
  BY TakenTaker DEF Assigned
<1>4. \A a \in Accounts : Assigned[a] = None <=> a \notin Taken
  BY TakenTaker, NoneAssumption DEF Assigned
<1>5. Assigned \in [Accounts -> Demand \cup {None}]
  <2>1. \A a \in Taken : Taker(a) \in Demand
    BY TakenTaker DEF Greedy
  <2> QED
    BY <2>1 DEF Assigned
<1>6. \A a \in Accounts : Assigned[a] # None => a \in Source /\ pool[a] = CodePool(Assigned[a])
  BY <1>3 DEF Greedy
<1>7. Demand \subseteq Codes
  BY DEF RequestOK, Demand, SettleDemand, ReissueDemand
<1>8. ASSUME NEW c \in Demand
      PROVE  LET got  == {a \in Accounts : Assigned[a] = c}
                 rest == {a \in Source : Assigned[a] = None /\ pool[a] = CodePool(c)}
             IN \/ Cardinality(got) = Need(c)
                \/ got = {} /\ Cardinality(rest) < Need(c)
  <2>1. {a \in Accounts : Assigned[a] = c} = given[c]
    BY <1>2, <1>7, <1>8 DEF Got
  <2>2. Source \subseteq Accounts
    BY DEF Source, RequestOK, Candidates
  <2>3. {a \in Source : Assigned[a] = None /\ pool[a] = CodePool(c)} = Rest(c)
    BY <1>4, <2>2 DEF Rest
  <2>4. given[c] # {} => Cardinality(given[c]) = Need(c)
    BY <1>7, <1>8 DEF Greedy
  <2>5. given[c] = {} => Cardinality(Rest(c)) < Need(c)
    BY <1>8 DEF Greedy
  <2> QED
    BY <2>1, <2>3, <2>4, <2>5
<1> QED
  BY <1>2, <1>5, <1>6, <1>8 DEF Allotments

-----------------------------------------------------------------------------
(* What stands still while the transaction is open.                         *)

LEMMA DemandStays ==
  ASSUME UNCHANGED <<vars, request, pot>>
  PROVE  /\ Demand' = Demand /\ Source' = Source
         /\ \A c : Need(c)' = Need(c) /\ CodePool(c)' = CodePool(c)
<1> USE DEF vars, accountVars, claimVars, batchVars, saleVars, request
<1>1. \A cs : SettleDemand(cs)' = SettleDemand(cs)
  BY DEF SettleDemand, Open
<1>2. \A cs, old : ReissueDemand(cs, old)' = ReissueDemand(cs, old)
  BY DEF ReissueDemand, Reissuable, MayReissue, Open, Current
<1>3. \A r, V : Candidates(r, V)' = Candidates(r, V)
  BY DEF Candidates, InStock, Unredeemed, Fresh
<1> QED
  BY <1>1, <1>2, <1>3 DEF Demand, Source, Need, CodePool

LEMMA PotStays ==
  ASSUME PotRead, UNCHANGED <<vars, request, pot>>
  PROVE  PotRead'
<1>1. \A r, V : Candidates(r, V)' = Candidates(r, V)
  BY DEF Candidates, InStock, Unredeemed, Fresh, vars, accountVars, claimVars
<1>2. \A M, D : Windows(M, D)' = Windows(M, D)
  BY DEF Windows, Need, CodePool, vars, batchVars
<1> QED
  BY <1>1, <1>2, DemandStays DEF PotRead, request, vars, accountVars, CodePool

\* Every code the transaction may serve has room for one more redemption.
LEMMA RoomLeft ==
  ASSUME IInv, RequestOK
  PROVE  /\ Demand \subseteq Codes
         /\ \A c \in Demand : rounds[c] + 1 \in Rounds
<1>1. Demand \subseteq Codes
  BY DEF RequestOK, Demand, SettleDemand, ReissueDemand
<1>2. ASSUME NEW c \in Demand PROVE rounds[c] + 1 \in Rounds
  <2>1. CASE rounds[c] = 0
    BY <2>1, BoundAssumption DEF Rounds
  <2>2. CASE rounds[c] # 0
    <3>1. c \in Codes /\ rounds[c] \in Nat
      BY <1>1, <1>2, BoundAssumption DEF IInv, TypeOK
    <3>2. Reissuable(c, seen)
      BY <1>2, <2>2 DEF Demand, SettleDemand, ReissueDemand
    <3>3. afterSales[c] < limit[BatchOf[c]] /\ limit[BatchOf[c]] \in 0 .. MaxAfterSale
      BY <3>1, <3>2, CatalogAssumption DEF Reissuable, MayReissue, IInv, TypeOK
    <3>4. rounds[c] = afterSales[c] + 1 /\ afterSales[c] \in 0 .. MaxAfterSale
      BY <2>2, <3>1 DEF IInv, TypeOK, RoundsAgree
    <3> QED
      BY <3>3, <3>4, BoundAssumption DEF Rounds
  <2> QED
    BY <2>1, <2>2
<1> QED
  BY <1>1, <1>2

\* Who owns what after one more code has been given accounts.
LEMMA TakenGrows ==
  ASSUME NEW c \in Codes, NEW S \in SUBSET Accounts, given \in [Codes -> SUBSET Accounts],
         given[c] = {}, S \cap Taken = {},
         \A d, e \in Codes : d # e => given[d] \cap given[e] = {},
         given' = [given EXCEPT ![c] = S]
  PROVE  /\ Taken' = Taken \cup S
         /\ \A d, e \in Codes : d # e => given'[d] \cap given'[e] = {}
         /\ \A a \in S : Taker(a)' = c
         /\ \A a \in Taken : Taker(a)' = Taker(a)
<1>1. \A d \in Codes : given'[d] = IF d = c THEN S ELSE given[d]
  OBVIOUS
<1>2. Taken' = Taken \cup S
  BY <1>1 DEF Taken
<1>3. \A d, e \in Codes : d # e => given'[d] \cap given'[e] = {}
  BY <1>1 DEF Taken
<1>4. ASSUME NEW a \in Taken PROVE Taker(a)' = Taker(a)
  <2>1. a \notin S
    OBVIOUS
  <2>2. \A d \in Codes : a \in given'[d] <=> a \in given[d]
    BY <1>1, <2>1
  <2> QED
    BY <2>2 DEF Taker
<1>5. ASSUME NEW a \in S PROVE Taker(a)' = c
  <2>1. \A d \in Codes : a \in given'[d] <=> d = c
    BY <1>1, <1>3
  <2> QED
    BY <2>1 DEF Taker
<1> QED
  BY <1>2, <1>3, <1>4, <1>5

\* One more turn of the loop keeps it greedy: with accounts for the code,
LEMMA TurnServes ==
  ASSUME IInv, RequestOK, Greedy, NEW c \in Demand \cap left, c \in Codes,
         NEW S \in kSubset(Need(c), Rest(c)),
         given' = [given EXCEPT ![c] = S], left' = left \ {c},
         UNCHANGED <<vars, request, pot>>
  PROVE  Greedy'
<1>1. /\ S \subseteq Source /\ S \cap Taken = {} /\ Cardinality(S) = Need(c)
      /\ \A a \in S : pool[a] = CodePool(c)
  BY DEF kSubset, Rest
<1>2. Source \subseteq Accounts
  BY DEF Source, RequestOK, Candidates
<1>3. given \in [Codes -> SUBSET Accounts] /\ given[c] = {}
  BY DEF RequestOK, Greedy
<1>4. /\ Taken' = Taken \cup S
      /\ \A d, e \in Codes : d # e => given'[d] \cap given'[e] = {}
  BY <1>1, <1>2, <1>3, TakenGrows DEF Greedy
<1>5. pool' = pool
  BY DEF vars, accountVars
<1>6. ASSUME NEW d \in Codes, given'[d] # {}
      PROVE  /\ d \in Demand' \ left'
             /\ given'[d] \subseteq Source'
             /\ \A a \in given'[d] : pool'[a] = CodePool(d)'
             /\ Cardinality(given'[d]) = Need(d)'
  <2>1. CASE d = c
    BY <1>1, <1>3, <1>5, <2>1, DemandStays
  <2>2. CASE d # c
    BY <1>3, <1>5, <1>6, <2>2, DemandStays DEF Greedy
  <2> QED
    BY <2>1, <2>2
<1>7. ASSUME NEW d \in Demand' \ left', given'[d] = {}, d \in Codes
      PROVE  Cardinality(Rest(d)') < Need(d)'
  <2>1. d # c
    BY <1>1, <1>3, <1>7, NeedPositive, FS_EmptySet
  <2>2. given[d] = {} /\ d \in Demand \ left
    BY <1>3, <1>7, <2>1, DemandStays
  <2>3. Rest(d)' \subseteq Rest(d)
    BY <1>4, <1>5, DemandStays DEF Rest
  <2>4. Cardinality(Rest(d)') <= Cardinality(Rest(d)) /\ Cardinality(Rest(d)') \in Nat
    BY <1>2, <2>3, SuppliesFinite, FS_Subset, FS_CardinalityType
  <2>5. Cardinality(Rest(d)) < Need(d) /\ Need(d) \in Nat /\ Cardinality(Rest(d)) \in Nat
    BY <1>2, <1>7, <2>2, NeedPositive, SuppliesFinite DEF Greedy
  <2> QED
    BY <2>4, <2>5, DemandStays
<1>8. Demand' \subseteq Codes
  BY RoomLeft, DemandStays
<1> QED
  BY <1>4, <1>6, <1>7, <1>8 DEF Greedy

\* and without, because too few are left or the code is not to be served.
LEMMA TurnPasses ==
  ASSUME IInv, RequestOK, Greedy, NEW c \in left,
         c \in Demand => Cardinality(Rest(c)) < Need(c),
         given' = given, left' = left \ {c},
         UNCHANGED <<vars, request, pot>>
  PROVE  Greedy'
<1>1. Taken' = Taken /\ pool' = pool
  BY DEF Taken, vars, accountVars
<1>2. \A d : Rest(d)' = Rest(d)
  BY <1>1, DemandStays DEF Rest
<1>3. ASSUME NEW d \in Codes, given'[d] # {}
      PROVE  /\ d \in Demand' \ left'
             /\ given'[d] \subseteq Source'
             /\ \A a \in given'[d] : pool'[a] = CodePool(d)'
             /\ Cardinality(given'[d]) = Need(d)'
  BY <1>1, <1>3, DemandStays DEF Greedy
<1>4. ASSUME NEW d \in Demand' \ left', given'[d] = {}
      PROVE  Cardinality(Rest(d)') < Need(d)'
  <2>1. d \in Demand /\ given[d] = {} /\ (d = c \/ d \in Demand \ left)
    BY <1>4, DemandStays
  <2>2. Cardinality(Rest(d)) < Need(d)
    BY <2>1 DEF Greedy
  <2> QED
    BY <1>2, <2>2, DemandStays
<1>5. \A d, e \in Codes : d # e => given'[d] \cap given'[e] = {}
  BY DEF Greedy
<1> QED
  BY <1>3, <1>4, <1>5 DEF Greedy

\* A statement that only writes leaves the loop where it was.
LEMMA LoopStays ==
  ASSUME IInv, OpenInv, UNCHANGED <<vars, request, left, pot, given>>
  PROVE  Greedy' /\ PotRead'
<1>1. Taken' = Taken /\ pool' = pool
  BY DEF Taken, vars, accountVars
<1>2. \A d : Rest(d)' = Rest(d)
  BY <1>1, DemandStays DEF Rest
<1>3. ASSUME NEW d \in Demand' \ left', given'[d] = {}
      PROVE  Cardinality(Rest(d)') < Need(d)'
  <2>1. Cardinality(Rest(d)) < Need(d)
    BY <1>3, DemandStays DEF OpenInv, Greedy
  <2> QED
    BY <1>2, <2>1, DemandStays
<1>4. Greedy'
  BY <1>1, <1>3, DemandStays DEF OpenInv, Greedy
<1> QED
  BY <1>4, PotStays DEF OpenInv

-----------------------------------------------------------------------------
(* One lemma per statement.                                                 *)

LEMMA PartsStay ==
  ASSUME UNCHANGED <<vars, request, given>>
  PROVE  /\ BindingGiven' = BindingGiven /\ IssuedGiven' = IssuedGiven
         /\ RoundsGiven' = RoundsGiven /\ StatusGiven' = StatusGiven
         /\ CountGiven' = CountGiven /\ SalesGiven' = SalesGiven
         /\ ResvCleared' = ResvCleared /\ AgeCleared' = AgeCleared
         /\ UNCHANGED <<binding, issued, rounds, codeStatus, redeemedCount, afterSales,
                        resv, age, kind>>
<1> USE DEF vars, request, saleVars, claimVars
<1>1. Taken' = Taken /\ \A a : Taker(a)' = Taker(a)
  BY DEF Taken, Taker
<1>2. BindingGiven' = BindingGiven
  BY <1>1 DEF BindingGiven
<1>3. IssuedGiven' = IssuedGiven /\ RoundsGiven' = RoundsGiven /\ StatusGiven' = StatusGiven
  BY DEF IssuedGiven, RoundsGiven, StatusGiven
<1>4. CountGiven' = CountGiven /\ SalesGiven' = SalesGiven
  BY DEF CountGiven, SalesGiven
<1>5. ResvCleared' = ResvCleared /\ AgeCleared' = AgeCleared
  BY DEF ResvCleared, AgeCleared
<1> QED
  BY <1>2, <1>3, <1>4, <1>5

LEMMA InsertKeeps == IInv /\ OpenInv /\ InsertRedemptions => OpenInv'
<1> SUFFICES ASSUME IInv, OpenInv, InsertRedemptions PROVE OpenInv'
  OBVIOUS
<1>1. UNCHANGED <<vars, request, left, pot, given>>
  BY DEF InsertRedemptions
<1>2. kind = "redeem"
  BY DEF OpenInv, RequestOK, InsertRedemptions
<1>3. RequestOK'
  BY <1>1, <1>2, DemandStays DEF OpenInv, RequestOK, InsertRedemptions, request, vars
<1>4. ViewFits'
  <2>1. view.rounds = rounds /\ view.issued = issued
    BY <1>2 DEF OpenInv, ViewFits, Written, InsertRedemptions
  <2>2. view' = [view EXCEPT !.issued = IssuedGiven]
    BY <2>1 DEF InsertRedemptions, IssuedGiven
  <2> QED
    BY ZenonT(40), <1>1, <1>2, <2>2, PartsStay DEF OpenInv, ViewFits, Written, InsertRedemptions
<1> QED
  BY <1>1, <1>3, <1>4, LoopStays DEF OpenInv

LEMMA BindKeeps == IInv /\ OpenInv /\ BindAccounts => OpenInv'
<1> SUFFICES ASSUME IInv, OpenInv, BindAccounts PROVE OpenInv'
  OBVIOUS
<1>1. UNCHANGED <<vars, request, left, pot, given>>
  BY DEF BindAccounts
<1>2. kind = "redeem"
  BY DEF OpenInv, RequestOK, BindAccounts
<1>3. RequestOK'
  BY <1>1, <1>2, DemandStays DEF OpenInv, RequestOK, BindAccounts, request, vars
<1>4. ViewFits'
  <2>1. view.rounds = rounds /\ view.binding = binding
    BY <1>2 DEF OpenInv, ViewFits, Written, BindAccounts
  <2>2. view' = [view EXCEPT !.binding = BindingGiven]
    BY <2>1 DEF BindAccounts, BindingGiven
  <2> QED
    BY ZenonT(40), <1>1, <1>2, <2>2, PartsStay DEF OpenInv, ViewFits, Written, BindAccounts
<1> QED
  BY <1>1, <1>3, <1>4, LoopStays DEF OpenInv

LEMMA MarkKeeps == IInv /\ OpenInv /\ MarkCodes => OpenInv'
<1> SUFFICES ASSUME IInv, OpenInv, MarkCodes PROVE OpenInv'
  OBVIOUS
<1>1. UNCHANGED <<vars, request, left, pot, given>>
  BY DEF MarkCodes
<1>2. kind = "redeem"
  BY DEF OpenInv, RequestOK, MarkCodes
<1>3. RequestOK'
  BY <1>1, <1>2, DemandStays DEF OpenInv, RequestOK, MarkCodes, request, vars
<1>4. ViewFits'
  <2>1. view.rounds = rounds /\ view.codeStatus = codeStatus
    BY <1>2 DEF OpenInv, ViewFits, Written, MarkCodes
  <2>2. view' = [view EXCEPT !.rounds = RoundsGiven, !.codeStatus = StatusGiven]
    BY <2>1 DEF MarkCodes, RoundsGiven, StatusGiven
  <2> QED
    BY ZenonT(40), <1>1, <1>2, <2>2, PartsStay DEF OpenInv, ViewFits, Written, MarkCodes
<1> QED
  BY <1>1, <1>3, <1>4, LoopStays DEF OpenInv

LEMMA CountKeeps == IInv /\ OpenInv /\ CountCodes => OpenInv'
<1> SUFFICES ASSUME IInv, OpenInv, CountCodes PROVE OpenInv'
  OBVIOUS
<1>1. UNCHANGED <<vars, request, left, pot, given>>
  BY DEF CountCodes
<1>2. kind = "redeem"
  BY DEF OpenInv, RequestOK, CountCodes
<1>3. RequestOK'
  BY <1>1, <1>2, DemandStays DEF OpenInv, RequestOK, CountCodes, request, vars
<1>4. ViewFits'
  <2>1. view.redeemedCount = redeemedCount
    BY <1>2 DEF OpenInv, ViewFits, Written, CountCodes
  <2>2. view' = [view EXCEPT !.redeemedCount = CountGiven]
    BY <2>1 DEF CountCodes, CountGiven
  <2> QED
    BY ZenonT(40), <1>1, <1>2, <2>2, PartsStay DEF OpenInv, ViewFits, Written, CountCodes
<1> QED
  BY <1>1, <1>3, <1>4, LoopStays DEF OpenInv

LEMMA ClearKeeps == IInv /\ OpenInv /\ ClearReservation => OpenInv'
<1> SUFFICES ASSUME IInv, OpenInv, ClearReservation PROVE OpenInv'
  OBVIOUS
<1>1. UNCHANGED <<vars, request, left, pot, given>>
  BY DEF ClearReservation
<1>3. RequestOK'
  BY <1>1, DemandStays DEF OpenInv, RequestOK, ClearReservation, request, vars
<1>4. ViewFits'
  <2>1. view.resv = resv /\ view.age = age
    BY DEF OpenInv, ViewFits, Written, ClearReservation
  <2>2. view' = [view EXCEPT !.resv = ResvCleared, !.age = AgeCleared]
    BY <2>1 DEF ClearReservation, ResvCleared, AgeCleared
  <2>3. CASE kind = "redeem"
    <3>1. stage = "clear" /\ stage' = "commit"
      BY <2>3 DEF OpenInv, RequestOK, ClearReservation
    <3> QED
      BY <1>1, <2>2, <2>3, <3>1, PartsStay DEF OpenInv, ViewFits, Written
  <2>4. CASE kind = "after_sale"
    <3>1. stage = "reissue" /\ stage' = "commit"
      BY <2>4 DEF OpenInv, RequestOK, ClearReservation
    <3> QED
      BY <1>1, <2>2, <2>4, <3>1, PartsStay DEF OpenInv, ViewFits, Written
  <2> QED
    BY <2>3, <2>4 DEF OpenInv, RequestOK
<1> QED
  BY <1>1, <1>3, <1>4, LoopStays DEF OpenInv

\* Nothing is taken before the loop begins.
LEMMA NothingTaken ==
  ASSUME given = NothingGiven
  PROVE  Taken = {}
BY DEF Taken, NothingGiven

LEMMA BeginsView ==
  ASSUME given' = NothingGiven, view' = Tables, UNCHANGED vars,
         \/ kind' = "redeem" /\ stage' = "allocate"
         \/ kind' = "after_sale" /\ stage' = "reissue",
         IInv
  PROVE  ViewFits'
<1>1. /\ binding' = binding /\ issued' = issued /\ rounds' = rounds
      /\ codeStatus' = codeStatus /\ afterSales' = afterSales
      /\ redeemedCount' = redeemedCount /\ resv' = resv /\ age' = age
  BY DEF vars, saleVars, claimVars
<1>2. Taken' = {}
  BY DEF Taken, NothingGiven
<1>3. BindingGiven' = binding
  BY <1>1, <1>2 DEF BindingGiven, IInv, TypeOK
<1>4. IssuedGiven' = issued
  BY <1>1 DEF IssuedGiven, NothingGiven, IInv, TypeOK
<1>5. RoundsGiven' = rounds /\ StatusGiven' = codeStatus /\ SalesGiven' = afterSales
  BY <1>1 DEF RoundsGiven, StatusGiven, SalesGiven, NothingGiven, IInv, TypeOK
<1> QED
  BY <1>1, <1>3, <1>4, <1>5 DEF ViewFits, Written, Tables

LEMMA BeginRedeemKeeps ==
  ASSUME IInv, NEW r \in minted \cup {None}, NEW V \in SUBSET Accounts,
         NEW cs \in SUBSET Codes, BeginRedeem(r, V, cs)
  PROVE  OpenInv'
<1>1. /\ kind' = "redeem" /\ stage' = "allocate"
      /\ rsv' = r /\ verified' = V /\ seen' = {} /\ asked' = cs
      /\ given' = NothingGiven /\ view' = Tables /\ UNCHANGED vars
      /\ left' = SettleDemand(cs)
  BY DEF BeginRedeem, Begin
<1>2. pot' \in Windows({a \in Candidates(r, V) : \E c \in SettleDemand(cs) : pool[a] = CodePool(c)},
                       SettleDemand(cs))
  BY DEF BeginRedeem
<1>3. /\ \A ds : SettleDemand(ds)' = SettleDemand(ds)
      /\ \A s, X : Candidates(s, X)' = Candidates(s, X)
      /\ \A M, D : Windows(M, D)' = Windows(M, D)
      /\ pool' = pool /\ minted' = minted
  BY <1>1 DEF SettleDemand, Open, Candidates, InStock, Unredeemed, Fresh, Windows, Need, CodePool,
     vars, accountVars, claimVars, batchVars, saleVars
<1>4. Demand' = SettleDemand(cs)
  BY <1>1, <1>3 DEF Demand
<1>5. PotRead'
  BY <1>1, <1>2, <1>3, <1>4 DEF PotRead, CodePool
<1>6. RequestOK'
  <2>1. pot' \subseteq Accounts
    BY <1>2 DEF Windows, kSubset, Candidates
  <2>2. SettleDemand(cs) \subseteq cs
    BY DEF SettleDemand
  <2>3. given' \in [Codes -> SUBSET Accounts]
    BY <1>1 DEF NothingGiven
  <2> QED
    BY <1>1, <1>3, <1>4, <2>1, <2>2, <2>3 DEF RequestOK
<1>7. Greedy'
  BY <1>1, <1>4 DEF Greedy, NothingGiven
<1>8. ViewFits'
  BY <1>1, BeginsView
<1> QED
  BY <1>5, <1>6, <1>7, <1>8 DEF OpenInv

LEMMA BeginAfterSaleKeeps ==
  ASSUME IInv, NEW r \in minted \cup {None}, NEW V \in SUBSET Accounts,
         NEW old \in SUBSET Accounts, NEW cs \in SUBSET Codes, BeginAfterSale(r, old, V, cs)
  PROVE  OpenInv'
<1>1. /\ kind' = "after_sale" /\ stage' = "reissue"
      /\ rsv' = r /\ verified' = V /\ seen' = old /\ asked' = cs
      /\ given' = NothingGiven /\ view' = Tables /\ UNCHANGED vars
      /\ left' = cs /\ pot' = {}
  BY DEF BeginAfterSale, Begin
<1>2. Demand' \subseteq cs
  BY <1>1 DEF Demand, ReissueDemand
<1>3. RequestOK'
  <2>1. given' \in [Codes -> SUBSET Accounts]
    BY <1>1 DEF NothingGiven
  <2> QED
    BY <1>1, <2>1 DEF RequestOK, vars
<1>4. Greedy' /\ PotRead'
  BY <1>1, <1>2 DEF Greedy, PotRead, NothingGiven
<1>5. ViewFits'
  BY <1>1, BeginsView
<1> QED
  BY <1>3, <1>4, <1>5 DEF OpenInv

LEMMA AllocateKeeps ==
  ASSUME IInv, OpenInv, NEW c \in Codes, Allocate(c)
  PROVE  OpenInv'
<1>1. /\ stage = "allocate" /\ kind = "redeem" /\ c \in left /\ c \in Demand
      /\ left' = left \ {c}
      /\ UNCHANGED <<vars, stage, request, pot, view>>
  BY DEF Allocate, OpenInv, RequestOK
<1>2. Suitable(c) = Rest(c)
  BY <1>1 DEF Suitable, Rest, Source
<1>3. given' \in [Codes -> SUBSET Accounts]
  BY DEF Allocate, OpenInv, RequestOK, kSubset, Suitable
<1>4. Greedy'
  BY <1>1, <1>2, TurnServes, TurnPasses DEF Allocate, OpenInv
<1>5. RequestOK'
  BY <1>1, <1>3, DemandStays DEF OpenInv, RequestOK, request, vars
<1>6. ViewFits'
  BY <1>1 DEF OpenInv, ViewFits, Written, request, vars, saleVars, claimVars
<1> QED
  BY <1>1, <1>4, <1>5, <1>6, PotStays DEF OpenInv

\* What an after-sale reads of a code and of the stock, in the tables it has
\* itself written to, is what RedeemStore reads before anything is written.
LEMMA ReissueReads ==
  ASSUME IInv, OpenInv, stage = "reissue", NEW c \in left
  PROVE  /\ c \in Codes /\ given[c] = {}
         /\ Entitled(c) <=> c \in Demand
         /\ Replacements(c) = Rest(c)
         /\ view.rounds[c] = rounds[c]
<1>1. c \in asked /\ c \in Codes /\ kind = "after_sale" /\ given[c] = {}
  BY DEF OpenInv, RequestOK, Greedy
<1>2. /\ view.binding = BindingGiven /\ view.issued = IssuedGiven
      /\ view.rounds = RoundsGiven /\ view.codeStatus = StatusGiven
      /\ view.afterSales = SalesGiven /\ view.resv = resv
  BY <1>1 DEF OpenInv, ViewFits, Written
<1>3. /\ view.rounds[c] = rounds[c] /\ view.codeStatus[c] = codeStatus[c]
      /\ view.afterSales[c] = afterSales[c]
  BY <1>1, <1>2 DEF RoundsGiven, StatusGiven, SalesGiven
<1>4. \A n \in Rounds : view.issued[c][n] = issued[c][n]
  BY <1>1, <1>2 DEF IssuedGiven
<1>5. rounds[c] > 0 => rounds[c] \in Rounds
  BY <1>1, BoundAssumption DEF Rounds, IInv, TypeOK
<1>6. Entitled(c) <=> Reissuable(c, seen)
  <2>1. CASE rounds[c] > 0
    <3>1. view.issued[c][view.rounds[c]] = Current(c)
      BY <1>3, <1>4, <1>5, <2>1 DEF Current
    <3> QED
      BY <1>3, <3>1 DEF Entitled, Reissuable, MayReissue, Open
  <2>2. CASE ~(rounds[c] > 0)
    BY <1>3, <2>2 DEF Entitled, Reissuable, MayReissue
  <2> QED
    BY <2>1, <2>2
<1>7. Entitled(c) <=> c \in Demand
  BY <1>1, <1>6 DEF Demand, ReissueDemand
<1>8. \A a \in Accounts : view.binding[a] = None <=> a \notin Taken /\ binding[a] = None
  <2> SUFFICES ASSUME NEW a \in Accounts
               PROVE  view.binding[a] = None <=> a \notin Taken /\ binding[a] = None
    OBVIOUS
  <2>1. CASE a \in Taken
    <3>1. Taker(a) \in Codes /\ given[Taker(a)] # {}
      BY <2>1, TakenTaker
    <3>2. Taker(a) \in Demand
      BY <3>1 DEF OpenInv, Greedy
    <3>3. <<Taker(a), rounds[Taker(a)] + 1>> # None
      BY <3>1, <3>2, RoomLeft, PairNotNone DEF OpenInv
    <3> QED
      BY <1>2, <2>1, <3>3 DEF BindingGiven
  <2>2. CASE a \notin Taken
    BY <1>2, <2>2 DEF BindingGiven
  <2> QED
    BY <2>1, <2>2
<1>9. Replacements(c) = Rest(c)
  <2>1. verified \subseteq Accounts
    BY DEF OpenInv, RequestOK
  <2> QED
    BY <1>1, <1>2, <1>8, <2>1
    DEF Replacements, Rest, Source, Candidates, InStock, Unredeemed
<1> QED
  BY <1>1, <1>3, <1>7, <1>9

LEMMA RefuseKeeps ==
  ASSUME IInv, OpenInv, NEW c \in Codes, Refuse(c)
  PROVE  OpenInv'
<1>1. /\ stage = "reissue" /\ kind = "after_sale" /\ c \in left
      /\ left' = left \ {c} /\ given' = given
      /\ UNCHANGED <<vars, stage, request, pot, view>>
  BY DEF Refuse, OpenInv, RequestOK
<1>2. c \in Demand => Cardinality(Rest(c)) < Need(c)
  BY <1>1, ReissueReads DEF Refuse
<1>3. Greedy'
  BY <1>1, <1>2, TurnPasses DEF OpenInv
<1>4. RequestOK'
  BY <1>1, DemandStays DEF OpenInv, RequestOK, request, vars
<1>5. ViewFits'
  BY <1>1, PartsStay DEF OpenInv, ViewFits, Written
<1> QED
  BY <1>1, <1>3, <1>4, <1>5, PotStays DEF OpenInv

LEMMA ReissueKeeps ==
  ASSUME IInv, OpenInv, NEW c \in Codes, Reissue(c)
  PROVE  OpenInv'
<1>1. /\ stage = "reissue" /\ kind = "after_sale" /\ c \in left /\ Entitled(c)
      /\ left' = left \ {c}
      /\ UNCHANGED <<vars, stage, request, pot>>
  BY DEF Reissue, OpenInv, RequestOK
<1>2. c \in Demand /\ given[c] = {} /\ view.rounds[c] = rounds[c]
  BY <1>1, ReissueReads
<1> DEFINE n == view.rounds[c] + 1
<1>3. PICK S \in kSubset(Need(c), Replacements(c)) :
        /\ given' = [given EXCEPT ![c] = S]
        /\ view' = [view EXCEPT
             !.issued = [view.issued EXCEPT ![c] = [view.issued[c] EXCEPT ![n] = S]],
             !.binding = [a \in Accounts |-> IF a \in S THEN <<c, n>> ELSE view.binding[a]],
             !.rounds = [view.rounds EXCEPT ![c] = n],
             !.codeStatus = [view.codeStatus EXCEPT ![c] = "redeemed"],
             !.afterSales = [view.afterSales EXCEPT ![c] = view.afterSales[c] + 1]]
  BY Zenon DEF Reissue
<1> S \in kSubset(Need(c), Rest(c))
  BY <1>1, ReissueReads
<1> HIDE DEF n
<1>n. n = rounds[c] + 1
  BY <1>2 DEF n
<1>4. /\ S \in SUBSET Accounts /\ S \cap Taken = {} /\ S # {}
      /\ given \in [Codes -> SUBSET Accounts]
  <2>1. S \subseteq Rest(c) /\ Cardinality(S) = Need(c)
    BY DEF kSubset
  <2>2. Rest(c) \subseteq Accounts /\ Rest(c) \cap Taken = {}
    BY DEF Rest, Source, OpenInv, RequestOK, Candidates
  <2>3. S # {}
    BY <2>1, NeedPositive, FS_EmptySet
  <2>4. given \in [Codes -> SUBSET Accounts]
    BY DEF OpenInv, RequestOK
  <2> QED
    BY <2>1, <2>2, <2>3, <2>4
<1>5. /\ Taken' = Taken \cup S
      /\ \A a \in S : Taker(a)' = c
      /\ \A a \in Taken : Taker(a)' = Taker(a)
  BY <1>2, <1>3, <1>4, TakenGrows DEF OpenInv, Greedy
<1>6. Greedy'
  BY <1>1, <1>2, <1>3, TurnServes DEF OpenInv
<1>7. RequestOK'
  BY <1>1, <1>3, <1>4, DemandStays DEF OpenInv, RequestOK, request, vars
<1>8. /\ binding' = binding /\ issued' = issued /\ rounds' = rounds
      /\ codeStatus' = codeStatus /\ afterSales' = afterSales
      /\ redeemedCount' = redeemedCount /\ resv' = resv /\ age' = age
      /\ kind' = kind /\ stage' = stage
  BY <1>1 DEF vars, saleVars, claimVars, request
<1>9. /\ view.binding = BindingGiven /\ view.issued = IssuedGiven
      /\ view.rounds = RoundsGiven /\ view.codeStatus = StatusGiven
      /\ view.afterSales = SalesGiven
  BY <1>1 DEF OpenInv, ViewFits, Written
<1>10. \A d \in Codes : given'[d] = IF d = c THEN S ELSE given[d]
  BY <1>3, <1>4
<1>11. BindingGiven' = [a \in Accounts |-> IF a \in S THEN <<c, n>> ELSE view.binding[a]]
  <2>1. \A a \in Accounts : a \in S => a \in Taken' /\ Taker(a)' = c
    BY <1>5
  <2>2. \A a \in Accounts : a \in Taken => a \in Taken' /\ Taker(a)' = Taker(a) /\ a \notin S
    BY <1>4, <1>5
  <2>3. \A a \in Accounts : a \notin Taken /\ a \notin S => a \notin Taken'
    BY <1>5
  <2> QED
    BY <1>8, <1>9, <1>n, <2>1, <2>2, <2>3 DEF BindingGiven
<1>12. IssuedGiven' = [view.issued EXCEPT ![c] = [view.issued[c] EXCEPT ![n] = S]]
  <2>1. ASSUME NEW d \in Codes, NEW m \in Rounds
        PROVE  IssuedGiven'[d][m] = IF d = c /\ m = n THEN S ELSE view.issued[d][m]
    BY <1>2, <1>4, <1>8, <1>9, <1>10, <1>n DEF IssuedGiven
  <2>2. /\ IssuedGiven' = [d \in Codes |-> [m \in Rounds |-> IssuedGiven'[d][m]]]
        /\ view.issued = [d \in Codes |-> [m \in Rounds |-> view.issued[d][m]]]
    BY <1>9 DEF IssuedGiven
  <2> QED
    BY <2>1, <2>2
<1>13. /\ RoundsGiven' = [view.rounds EXCEPT ![c] = n]
       /\ StatusGiven' = [view.codeStatus EXCEPT ![c] = "redeemed"]
  <2>1. RoundsGiven' = [view.rounds EXCEPT ![c] = n]
    BY <1>4, <1>8, <1>9, <1>10, <1>n DEF RoundsGiven
  <2>2. StatusGiven' = [view.codeStatus EXCEPT ![c] = "redeemed"]
    BY <1>4, <1>8, <1>9, <1>10 DEF StatusGiven
  <2> QED
    BY <2>1, <2>2
<1>14. SalesGiven' = [view.afterSales EXCEPT ![c] = view.afterSales[c] + 1]
  <2>1. view.afterSales[c] = afterSales[c]
    BY <1>2, <1>9 DEF SalesGiven
  <2>2. \A d \in Codes : SalesGiven'[d] = IF d = c THEN view.afterSales[c] + 1
                                                  ELSE view.afterSales[d]
    BY <1>4, <1>8, <1>9, <1>10, <2>1 DEF SalesGiven
  <2>3. /\ SalesGiven' = [d \in Codes |-> SalesGiven'[d]]
        /\ view.afterSales = [d \in Codes |-> view.afterSales[d]]
    BY <1>9 DEF SalesGiven
  <2> QED
    BY <2>2, <2>3
<1>15. view' = [view EXCEPT !.issued = IssuedGiven', !.binding = BindingGiven',
                  !.rounds = RoundsGiven', !.codeStatus = StatusGiven',
                  !.afterSales = SalesGiven']
  BY <1>3, <1>11, <1>12, <1>13, <1>14
<1>16. ViewFits'
  <2>1. view = [binding |-> BindingGiven, issued |-> IssuedGiven, rounds |-> RoundsGiven,
                codeStatus |-> StatusGiven, redeemedCount |-> redeemedCount,
                afterSales |-> SalesGiven, resv |-> resv, age |-> age]
    BY <1>1 DEF OpenInv, ViewFits, Written
  <2>2. view' = [binding |-> BindingGiven', issued |-> IssuedGiven', rounds |-> RoundsGiven',
                 codeStatus |-> StatusGiven', redeemedCount |-> redeemedCount,
                 afterSales |-> SalesGiven', resv |-> resv, age |-> age]
    BY <1>15, <2>1
  <2> QED
    BY <1>1, <1>8, <2>2 DEF ViewFits, Written
<1> QED
  BY <1>1, <1>6, <1>7, <1>16, PotStays DEF OpenInv

-----------------------------------------------------------------------------
(* The end of the transaction.                                              *)

\* What the view has become is what Deliver makes of the assignment.
LEMMA CommitDelivers ==
  ASSUME IInv, OpenInv, Commit
  PROVE  Deliver(Assigned, rsv)
<1>1. stage = "commit" /\ left = {}
  BY DEF Commit, OpenInv, RequestOK
<1>2. /\ binding' = BindingGiven /\ issued' = IssuedGiven
      /\ rounds' = RoundsGiven /\ codeStatus' = StatusGiven
      /\ resv' = ResvCleared /\ age' = AgeCleared
  BY <1>1 DEF Commit, Publish, OpenInv, ViewFits, Written
<1>3. \A c \in Codes : Got(Assigned, c) = given[c]
  BY <1>1, AssignedAllots DEF OpenInv
<1>4. \A c \in Codes : c \in Served(Assigned) <=> given[c] # {}
  BY <1>3 DEF Served
<1>5. \A a \in Accounts : IF a \in Taken THEN Assigned[a] = Taker(a) /\ Assigned[a] # None
                                         ELSE Assigned[a] = None
  BY TakenTaker, NoneAssumption DEF Assigned
<1>6. binding' = [a \in Accounts |-> IF Assigned[a] # None
                     THEN <<Assigned[a], rounds[Assigned[a]] + 1>> ELSE binding[a]]
  BY <1>2, <1>5 DEF BindingGiven
<1>7. issued' = [c \in Codes |-> [n \in Rounds |->
                    IF c \in Served(Assigned) /\ n = rounds[c] + 1
                    THEN Got(Assigned, c) ELSE issued[c][n]]]
  <2>1. \A c \in Codes, n \in Rounds :
           (IF given[c] # {} /\ n = rounds[c] + 1 THEN given[c] ELSE issued[c][n])
           = (IF c \in Served(Assigned) /\ n = rounds[c] + 1
              THEN Got(Assigned, c) ELSE issued[c][n])
    BY <1>3, <1>4
  <2> QED
    BY <1>2, <2>1 DEF IssuedGiven
<1>8. /\ rounds' = [c \in Codes |-> IF c \in Served(Assigned) THEN rounds[c] + 1 ELSE rounds[c]]
      /\ codeStatus' = [c \in Codes |-> IF c \in Served(Assigned) THEN "redeemed"
                                                                 ELSE codeStatus[c]]
  BY <1>2, <1>4 DEF RoundsGiven, StatusGiven
<1>9. /\ resv' = [a \in Accounts |-> IF a \in Dropped(rsv) THEN None ELSE resv[a]]
      /\ age' = [a \in Accounts |-> IF a \in Dropped(rsv) THEN 0 ELSE age[a]]
  BY <1>2 DEF ResvCleared, AgeCleared, Dropped
<1>10. UNCHANGED <<accountVars, minted, batchVars>>
  BY DEF Commit, Publish
<1> QED
  BY <1>6, <1>7, <1>8, <1>9, <1>10 DEF Deliver

\* A commit is one of the two atomic transactions, for the request it began
\* with.
LEMMA CommitSettles ==
  ASSUME IInv, OpenInv, Commit
  PROVE  IF kind = "redeem" THEN Settle(rsv, verified, asked)
                            ELSE SettleAfterSale(rsv, seen, verified, asked)
<1>1. stage = "commit" /\ left = {}
  BY DEF Commit, OpenInv, RequestOK
<1>2. Deliver(Assigned, rsv)
  BY CommitDelivers
<1>3. /\ Assigned \in Allotments(Source, Demand)
      /\ \A c \in Codes : c \in Served(Assigned) <=> given[c] # {}
  BY <1>1, AssignedAllots DEF OpenInv, Served
<1>4. CASE kind = "redeem"
  <2> DEFINE D == SettleDemand(asked)
             M == {a \in Candidates(rsv, verified) : \E c \in D : pool[a] = CodePool(c)}
  <2>1. pot \in Windows(M, D)
    BY <1>4 DEF OpenInv, PotRead, Demand
  <2>2. Assigned \in Allotments(pot \cap verified, D)
    BY <1>3, <1>4 DEF Source, Demand
  <2>3. redeemedCount' = CountGiven /\ afterSales' = afterSales
    BY <1>1, <1>4 DEF Commit, Publish, OpenInv, ViewFits
  <2>4. \A b \in Batches : {c \in Codes : given[c] # {} /\ BatchOf[c] = b}
                           = {c \in Served(Assigned) : BatchOf[c] = b}
    BY <1>3 DEF Served
  <2>5. redeemedCount' = [b \in Batches |-> redeemedCount[b] +
                            Cardinality({c \in Served(Assigned) : BatchOf[c] = b})]
    BY <2>3, <2>4 DEF CountGiven
  <2>6. Settle(rsv, verified, asked)
    BY <1>2, <2>1, <2>2, <2>3, <2>5 DEF Settle
  <2> QED
    BY <1>4, <2>6
<1>5. CASE kind = "after_sale"
  <2>1. Assigned \in Allotments(Candidates(rsv, verified) \cap verified,
                                ReissueDemand(asked, seen))
    BY <1>3, <1>5 DEF Source, Demand
  <2>2. afterSales' = SalesGiven /\ redeemedCount' = redeemedCount
    BY <1>1, <1>5 DEF Commit, Publish, OpenInv, ViewFits
  <2>3. afterSales' = [c \in Codes |-> IF c \in Served(Assigned) THEN afterSales[c] + 1
                                                                ELSE afterSales[c]]
    BY <1>3, <2>2 DEF SalesGiven
  <2>4. SettleAfterSale(rsv, seen, verified, asked)
    BY <1>2, <2>1, <2>2, <2>3 DEF SettleAfterSale
  <2> QED
    BY <1>5, <2>4
<1> QED
  BY <1>4, <1>5 DEF OpenInv, RequestOK

\* Every step is a transaction of the store whose callers name what they like,
\* or leaves the database alone.
LEMMA SettleStep == SettleInv /\ [SettleNext]_allVars => [OpenNext]_vars
<1> SUFFICES ASSUME SettleInv, SettleNext PROVE [OpenNext]_vars
  BY DEF allVars, vars
<1>1. CASE Opens
  BY <1>1 DEF Opens, BeginRedeem, BeginAfterSale, Begin
<1>2. CASE Commit
  <2>1. stage # "idle"
    BY <1>2 DEF Commit
  <2>2. /\ Settle(rsv, verified, asked) \/ SettleAfterSale(rsv, seen, verified, asked)
        /\ rsv \in minted \cup {None} /\ rsv \in Reservations \cup {None}
        /\ verified \in SUBSET Accounts /\ seen \in SUBSET Accounts /\ asked \in SUBSET Codes
    BY <1>2, <2>1, CommitSettles DEF SettleInv, OpenInv, RequestOK, IInv, TypeOK
  <2>3. CallerRequests
    BY <2>2 DEF CallerRequests
  <2> QED
    BY <2>3 DEF OpenNext
<1>3. CASE \/ \E c \in Codes : Allocate(c) \/ Reissue(c) \/ Refuse(c)
           \/ InsertRedemptions \/ BindAccounts \/ MarkCodes \/ CountCodes
           \/ ClearReservation \/ Abandon
  BY <1>3 DEF Allocate, Reissue, Refuse, InsertRedemptions, BindAccounts, MarkCodes,
     CountCodes, ClearReservation, Abandon
<1>4. CASE Elsewhere
  BY <1>4 DEF Elsewhere, OpenNext, CallerRequests
<1> QED
  BY <1>1, <1>2, <1>3, <1>4 DEF SettleNext, Proceeds

LEMMA InitSettleInv == SettleInit => SettleInv
BY InitIInv DEF SettleInit, SettleInv, Closed

LEMMA NextSettleInv == SettleInv /\ [SettleNext]_allVars => SettleInv'
<1> SUFFICES ASSUME SettleInv, [SettleNext]_allVars PROVE SettleInv'
  OBVIOUS
<1>1. IInv'
  <2>1. [Next]_vars
    BY SettleStep, OpenStep DEF SettleInv
  <2> QED
    BY <2>1, NextIsTransaction, NextIInv DEF SettleInv
<1>2. CASE Opens
  <2>1. OpenInv' /\ stage' # "idle"
    BY <1>2, BeginRedeemKeeps, BeginAfterSaleKeeps
    DEF Opens, SettleInv, BeginRedeem, BeginAfterSale
  <2> QED
    BY <1>1, <2>1 DEF SettleInv
<1>3. CASE Proceeds /\ ~(Commit \/ Abandon)
  <2>1. stage # "idle" /\ stage' # "idle"
    BY <1>3 DEF Proceeds, Allocate, Reissue, Refuse, InsertRedemptions, BindAccounts,
       MarkCodes, CountCodes, ClearReservation
  <2>2. OpenInv'
    BY <1>3, <2>1, AllocateKeeps, ReissueKeeps, RefuseKeeps, InsertKeeps, BindKeeps,
       MarkKeeps, CountKeeps, ClearKeeps
    DEF Proceeds, SettleInv
  <2> QED
    BY <1>1, <2>1, <2>2 DEF SettleInv
<1>4. CASE Commit \/ Abandon
  <2>1. Closed' /\ stage' = "idle"
    BY <1>4 DEF Commit, Abandon, Close, Closed, NothingGiven
  <2> QED
    BY <1>1, <2>1 DEF SettleInv
<1>5. CASE Elsewhere
  <2>1. stage = "idle" /\ stage' = "idle" /\ Closed'
    BY <1>5 DEF Elsewhere, SettleInv, Closed, settleVars, request, NothingGiven
  <2> QED
    BY <1>1, <2>1 DEF SettleInv
<1>6. CASE UNCHANGED allVars
  <2>1. UNCHANGED <<vars, request, left, pot, given>> /\ stage' = stage /\ view' = view
    BY <1>6 DEF allVars, settleVars
  <2>2. CASE stage = "idle"
    BY <1>1, <2>1, <2>2 DEF SettleInv, Closed, request, NothingGiven
  <2>3. CASE stage # "idle"
    <3>1. RequestOK'
      BY <2>1, <2>3, DemandStays DEF SettleInv, OpenInv, RequestOK, request, vars
    <3>2. ViewFits'
      BY <2>1, <2>3, PartsStay DEF SettleInv, OpenInv, ViewFits, Written
    <3> QED
      BY <1>1, <2>1, <2>3, <3>1, <3>2, LoopStays DEF SettleInv, OpenInv
  <2> QED
    BY <2>2, <2>3
<1> QED
  BY <1>2, <1>3, <1>4, <1>5, <1>6 DEF SettleNext

-----------------------------------------------------------------------------
(* The theorems.                                                            *)

\* While a settling transaction is open, what it has read, taken and written so
\* far fits the tables it started from.
THEOREM SettleInvariant == SettleSpec => []SettleInv
BY InitSettleInv, NextSettleInv, PTL DEF SettleSpec

\* The two transactions, taken apart into their statements, do to the database
\* what RedeemStore says they do at once, whichever statement fails.
THEOREM SettleIsAtomic == SettleSpec => SettlesAtomically
<1>1. SettleInv => IInv
  BY DEF SettleInv
<1> QED
  BY <1>1, SettleInvariant, SettleStep, OpenStep, PTL DEF SettleSpec, SettlesAtomically

\* So every behaviour of the taken-apart store is one of RedeemStore.
THEOREM SettleImplements == SettleSpec => Spec
<1>1. SettleInit => Init
  BY DEF SettleInit
<1> QED
  BY <1>1, SettleIsAtomic, PTL DEF SettleSpec, SettlesAtomically, Spec

\* The row count of UPDATE accounts is always right.
THEOREM RowCountsRight == SettleSpec => []RowChecksPass
<1>1. SettleInv => RowChecksPass
  <2> SUFFICES ASSUME SettleInv, stage = "bind" PROVE RowsAffected
    BY DEF RowChecksPass
  <2>1. OpenInv /\ kind = "redeem"
    BY DEF SettleInv, OpenInv, RequestOK
  <2>2. view.binding = binding
    BY <2>1 DEF OpenInv, ViewFits, Written
  <2>3. ASSUME NEW a \in Taken PROVE row[a] = "live" /\ binding[a] = None
    <3>1. a \in Source
      BY TakenTaker, <2>1 DEF OpenInv, Greedy
    <3>2. a \in Candidates(rsv, verified)
      BY <2>1, <3>1 DEF Source, OpenInv, PotRead, Windows, kSubset
    <3> QED
      BY <3>2 DEF Candidates, InStock, Unredeemed
  <2> QED
    BY <2>1, <2>2, <2>3 DEF RowsAffected, OpenInv, Greedy
<1> QED
  BY <1>1, SettleInvariant, PTL

\* The tables the transaction sees are well-typed at every statement: no code
\* runs out of room for its redemptions and after-sales half-way.
THEOREM SettleTypeCorrect == SettleSpec => []SettleTypeOK
<1>1. SettleInv /\ stage = "idle" => SettleTypeOK
  BY DEF SettleInv, Closed, NothingGiven, SettleTypeOK, Stages
<1>2. SettleInv /\ stage # "idle" => SettleTypeOK
  <2> SUFFICES ASSUME SettleInv, stage # "idle" PROVE SettleTypeOK
    OBVIOUS
  <2>1. IInv /\ OpenInv /\ RequestOK
    BY DEF SettleInv, OpenInv
  <2>2. \A c \in Codes : given[c] # {} => c \in Demand /\ rounds[c] + 1 \in Rounds
    BY <2>1, RoomLeft DEF OpenInv, Greedy
  <2>3. BindingGiven \in [Accounts -> (Codes \X Rounds) \cup {None}]
    <3>1. \A a \in Taken : <<Taker(a), rounds[Taker(a)] + 1>> \in Codes \X Rounds
      BY <2>2, TakenTaker
    <3>2. binding \in [Accounts -> (Codes \X Rounds) \cup {None}]
      BY <2>1 DEF IInv, TypeOK
    <3> QED
      BY <3>1, <3>2 DEF BindingGiven
  <2>4. IssuedGiven \in [Codes -> [Rounds -> SUBSET Accounts]]
    BY <2>1 DEF IssuedGiven, IInv, TypeOK, RequestOK
  <2>5. RoundsGiven \in [Codes -> 0 .. MaxAfterSale + 1]
    BY <2>1, <2>2, BoundAssumption DEF RoundsGiven, Rounds, IInv, TypeOK
  <2>6. StatusGiven \in [Codes -> {"active", "disabled", "redeemed"}]
    BY <2>1 DEF StatusGiven, IInv, TypeOK
  <2>7. CountGiven \in [Batches -> Nat]
    <3>1. ASSUME NEW b \in Batches
          PROVE  Cardinality({c \in Codes : given[c] # {} /\ BatchOf[c] = b}) \in Nat
      <4>1. {c \in Codes : given[c] # {} /\ BatchOf[c] = b} \subseteq Codes
        OBVIOUS
      <4> QED
        BY <4>1, FiniteAssumption, FS_Subset, FS_CardinalityType
    <3>2. \A b \in Batches : redeemedCount[b] \in Nat
      BY <2>1 DEF IInv, TypeOK
    <3>3. ASSUME NEW b \in Batches PROVE CountGiven[b] \in Nat
      <4> DEFINE more == Cardinality({c \in Codes : given[c] # {} /\ BatchOf[c] = b})
      <4>1. CountGiven[b] = redeemedCount[b] + more
        BY DEF CountGiven
      <4>2. more \in Nat /\ redeemedCount[b] \in Nat
        BY <3>1, <3>2
      <4> HIDE DEF more
      <4> QED
        BY <4>1, <4>2
    <3> QED
      BY <3>3 DEF CountGiven
  <2>8. kind = "after_sale" => SalesGiven \in [Codes -> 0 .. MaxAfterSale]
    <3> SUFFICES ASSUME kind = "after_sale", NEW c \in Codes
                 PROVE  SalesGiven[c] \in 0 .. MaxAfterSale
      BY DEF SalesGiven
    <3>1. given[c] # {} => afterSales[c] < limit[BatchOf[c]]
      BY <2>2 DEF Demand, ReissueDemand, Reissuable, MayReissue
    <3>2. limit[BatchOf[c]] \in 0 .. MaxAfterSale /\ afterSales[c] \in 0 .. MaxAfterSale
      BY <2>1, CatalogAssumption DEF IInv, TypeOK
    <3> QED
      BY <3>1, <3>2, BoundAssumption DEF SalesGiven
  <2>9. /\ ResvCleared \in [Accounts -> Reservations \cup {None}]
        /\ AgeCleared \in [Accounts -> 0 .. TTL]
    BY <2>1, BoundAssumption DEF ResvCleared, AgeCleared, IInv, TypeOK
  <2>10. view \in View
    <3>1. /\ view.binding \in {binding, BindingGiven} /\ view.issued \in {issued, IssuedGiven}
          /\ view.rounds \in {rounds, RoundsGiven}
          /\ view.codeStatus \in {codeStatus, StatusGiven}
          /\ view.redeemedCount \in {redeemedCount, CountGiven}
          /\ view.afterSales = IF kind = "after_sale" THEN SalesGiven ELSE afterSales
          /\ view.resv \in {resv, ResvCleared} /\ view.age \in {age, AgeCleared}
          /\ view = [binding |-> view.binding, issued |-> view.issued,
                     rounds |-> view.rounds, codeStatus |-> view.codeStatus,
                     redeemedCount |-> view.redeemedCount,
                     afterSales |-> view.afterSales, resv |-> view.resv, age |-> view.age]
      BY <2>1 DEF OpenInv, ViewFits
    <3>2. /\ view.binding \in [Accounts -> (Codes \X Rounds) \cup {None}]
          /\ view.issued \in [Codes -> [Rounds -> SUBSET Accounts]]
          /\ view.rounds \in [Codes -> 0 .. MaxAfterSale + 1]
          /\ view.codeStatus \in [Codes -> {"active", "disabled", "redeemed"}]
          /\ view.redeemedCount \in [Batches -> Nat]
          /\ view.afterSales \in [Codes -> 0 .. MaxAfterSale]
          /\ view.resv \in [Accounts -> Reservations \cup {None}]
          /\ view.age \in [Accounts -> 0 .. TTL]
      BY <2>1, <2>3, <2>4, <2>5, <2>6, <2>7, <2>8, <2>9, <3>1 DEF IInv, TypeOK
    <3> QED
      BY <3>1, <3>2 DEF View
  <2>11. stage \in Stages /\ kind \in {"redeem", "after_sale"}
    BY <2>1 DEF RequestOK, Stages
  <2>12. /\ rsv \in minted \cup {None}
         /\ verified \subseteq Accounts /\ seen \subseteq Accounts
         /\ asked \subseteq Codes /\ left \subseteq asked /\ pot \subseteq Accounts
         /\ given \in [Codes -> SUBSET Accounts]
    BY <2>1 DEF RequestOK
  <2> QED
    BY <2>10, <2>11, <2>12 DEF SettleTypeOK
<1>3. SettleInv => SettleTypeOK
  BY <1>1, <1>2
<1> QED
  BY <1>3, SettleInvariant, PTL
=============================================================================
