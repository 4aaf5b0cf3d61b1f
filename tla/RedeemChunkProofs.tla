------------------------- MODULE RedeemChunkProofs -------------------------
(* Proofs about RedeemChunk, for every value of its constants: any number   *)
(* of chunks, accounts and reservations, whatever runs beside them.         *)
EXTENDS RedeemChunk, RedeemStoreImplProofs

Places == {"idle", "prepared", "refresh", "refreshing", "probe", "probing",
           "settle", "failing"} \cup Ended
TaskStates == {"none", "running", "stored", "done"}

-----------------------------------------------------------------------------
(* The inductive invariant.                                                 *)

\* A chunk reserves once, under an id of its own; without a reservation it has
\* selected nothing.
OwnReservation ==
    /\ \A k \in Chunks : rid[k] # None => rid[k] \in minted
    /\ \A k, l \in Chunks : rid[k] # None /\ rid[k] = rid[l] => k = l
    /\ \A k \in Chunks : pc[k] = "idle" => rid[k] = None
    /\ \A k \in Chunks : rid[k] = None => probeIds[k] = {}

\* What is held under an id was selected by the request that minted it.
IdsMintedFirst == \A a \in Accounts : resv[a] # None => resv[a] \in minted

\* HoldsOnlyItsSelection alone is not inductive: that another chunk's claim
\* does not add to what this chunk holds follows from the ids being minted
\* once (OwnReservation).
ChunkInv == IInv /\ ChunkTypeOK /\ OwnReservation /\ IdsMintedFirst /\ HoldsOnlyItsSelection

-----------------------------------------------------------------------------
(* What a store transaction does to the reservations and the deliveries.    *)

\* No account gets a new holder.
KeepsHolds ==
    /\ minted' = minted
    /\ \A a \in Accounts : resv'[a] \in {None, resv[a]}

DeliversNothing ==
    /\ \A a \in Accounts : binding[a] = None => binding'[a] = None
    /\ \A c \in Codes : rounds'[c] <= rounds[c]

\* Every transaction but Claim, Settle and SettleAfterSale.
Tame == IInv' /\ KeepsHolds /\ DeliversNothing

LEMMA RoundsInt == IInv => \A c \in Codes : rounds[c] \in Int
BY BoundAssumption DEF IInv, TypeOK

LEMMA NothingTame ==
  ASSUME IInv, UNCHANGED vars
  PROVE  Tame
<1>1. TypeOK'
  BY DEF IInv, TypeOK, vars, accountVars, claimVars, batchVars, saleVars
<1>2. IInv'
  BY <1>1, QuietIInv DEF vars, accountVars, saleVars
<1>3. KeepsHolds /\ DeliversNothing
  BY RoundsInt DEF vars, claimVars, saleVars, KeepsHolds, DeliversNothing
<1> QED
  BY <1>2, <1>3 DEF Tame

LEMMA ReservationTame ==
  ASSUME IInv, NEW r \in Reservations, Release(r) \/ Heartbeat(r)
  PROVE  Tame
<1>1. IInv'
  BY ReleaseIInv
<1>2. KeepsHolds
  BY DEF Release, Heartbeat, KeepsHolds
<1>3. DeliversNothing
  BY RoundsInt DEF Release, Heartbeat, saleVars, DeliversNothing
<1> QED
  BY <1>1, <1>2, <1>3 DEF Tame

LEMMA AccountTame ==
  ASSUME IInv, NEW a \in Accounts,
         \/ \E p \in Pools, s \in AccountStatus, t \in {"usable", "stale"} : Import(a, p, s, t)
         \/ DeleteUnbound(a)
         \/ \E s \in AccountStatus : SetStatus(a, s)
         \/ \E s \in AccountStatus, t \in {"usable", "stale"} : StoreAuth(a, s, t)
         \/ \E t \in {"usable", "stale"} : StoreRedeemedAuth(a, t)
         \/ TokenAges(a)
  PROVE  Tame
<1>1. IInv'
  BY ImportIInv, DeleteUnboundIInv, StatusWriteIInv, TokenWriteIInv
<1>2. KeepsHolds
  BY DEF IInv, TypeOK, Import, DeleteUnbound, SetStatus, StoreAuth, StoreRedeemedAuth,
         TokenAges, claimVars, KeepsHolds
<1>3. DeliversNothing
  BY RoundsInt DEF IInv, TypeOK, Import, DeleteUnbound, SetStatus, StoreAuth,
         StoreRedeemedAuth, TokenAges, saleVars, DeliversNothing
<1> QED
  BY <1>1, <1>2, <1>3 DEF Tame

LEMMA BatchTame ==
  ASSUME IInv, NEW b \in Batches,
         \/ DeleteBatch(b)
         \/ BatchExpires(b)
         \/ \E s \in {"active", "disabled"}, n \in 1 .. MaxPerCode,
               l \in 0 .. MaxAfterSale, e \in BOOLEAN : UpdateBatch(b, s, n, l, e)
  PROVE  Tame
<1>1. IInv'
  BY DeleteBatchIInv, BatchExpiresIInv, BatchWriteIInv
<1>2. KeepsHolds
  BY DEF DeleteBatch, BatchExpires, UpdateBatch, claimVars, KeepsHolds
<1>3. DeliversNothing
  <2>1. CASE DeleteBatch(b)
    <3>1. \A a \in Accounts : binding[a] = None => binding'[a] = None
      BY <2>1 DEF DeleteBatch
    <3>2. \A c \in Codes : rounds'[c] \in {0, rounds[c]}
      BY <2>1 DEF DeleteBatch
    <3>3. \A c \in Codes : rounds[c] \in Int /\ rounds[c] >= 0
      BY BoundAssumption DEF IInv, TypeOK
    <3> QED
      BY <3>1, <3>2, <3>3 DEF DeliversNothing
  <2>2. CASE ~DeleteBatch(b)
    BY <2>2, RoundsInt DEF BatchExpires, UpdateBatch, saleVars, DeliversNothing
  <2> QED
    BY <2>1, <2>2
<1> QED
  BY <1>1, <1>2, <1>3 DEF Tame

LEMMA CodeTame ==
  ASSUME IInv, NEW c \in Codes, NEW s \in {"active", "disabled"}, SetCodeStatus(c, s)
  PROVE  Tame
<1>1. IInv'
  BY SetCodeStatusIInv
<1>2. KeepsHolds
  BY DEF SetCodeStatus, claimVars, KeepsHolds
<1>3. DeliversNothing
  BY RoundsInt DEF SetCodeStatus, DeliversNothing
<1> QED
  BY <1>1, <1>2, <1>3 DEF Tame

LEMMA TickTame ==
  ASSUME IInv, Tick
  PROVE  Tame
<1>1. IInv'
  BY TickIInv
<1>2. KeepsHolds /\ DeliversNothing
  BY RoundsInt DEF Tick, saleVars, KeepsHolds, DeliversNothing
<1> QED
  BY <1>1, <1>2 DEF Tame

LEMMA OutsideTame ==
  ASSUME IInv, Outside(Interference)
  PROVE  Tame
<1>1. CASE \E a \in Accounts :
             \/ TokenAges(a)
             \/ \E p \in Pools, s \in AccountStatus, t \in {"usable", "stale"} :
                   Import(a, p, s, t)
             \/ DeleteUnbound(a)
             \/ \E s \in Outcomes : SetStatus(a, s)
             \/ \E s \in Outcomes, t \in {"usable", "stale"} : StoreAuth(a, s, t)
  BY <1>1, OutcomeAssumption, AccountTame
<1>2. CASE \E b \in Batches :
             \/ DeleteBatch(b)
             \/ BatchExpires(b)
             \/ \E s \in {"active", "disabled"}, n \in 1 .. MaxPerCode,
                   l \in 0 .. MaxAfterSale, e \in BOOLEAN : UpdateBatch(b, s, n, l, e)
  BY <1>2, BatchTame
<1>3. CASE \E c \in Codes, s \in {"active", "disabled"} : SetCodeStatus(c, s)
  BY <1>3, CodeTame
<1> QED
  BY <1>1, <1>2, <1>3 DEF Outside

LEMMA BeatTame ==
  ASSUME ChunkInv, NEW k \in Chunks, Beat(k)
  PROVE  Tame
<1>1. rid[k] \in Reservations \cup {None}
  BY DEF ChunkInv, ChunkTypeOK
<1> QED
  BY <1>1, ReservationTame, NothingTame DEF Beat, ChunkInv

-----------------------------------------------------------------------------
(* What a settle does.                                                      *)

LEMMA DeliverKeepsHolds ==
  ASSUME NEW to, NEW r, Deliver(to, r)
  PROVE  /\ KeepsHolds
         /\ r # None => Held(r)' = {}
<1>1. KeepsHolds
  BY DEF Deliver, KeepsHolds
<1>2. r # None => Held(r)' = {}
  BY DEF Deliver, Held, Dropped
<1> QED
  BY <1>1, <1>2

LEMMA SettleHolds ==
  ASSUME IInv, NEW r \in Reservations \cup {None}, NEW V, NEW cs \in SUBSET Codes,
         \/ Settle(r, V, cs)
         \/ \E verified : SettleAfterSale(r, verified, V, cs)
  PROVE  /\ IInv' /\ KeepsHolds
         /\ r # None => Held(r)' = {}
<1>1. IInv'
  BY SettleIInv, SettleAfterSaleIInv
<1>2. \E to : Deliver(to, r)
  BY DEF Settle, SettleAfterSale
<1> QED
  BY <1>1, <1>2, DeliverKeepsHolds

\* An account a settle binds was held under its reservation, or the settle had
\* none; and the caller had verified it.
LEMMA DeliveredFrom ==
  ASSUME NEW W, NEW D \in SUBSET Codes, NEW r, NEW to \in Allotments(W, D), Deliver(to, r)
  PROVE  /\ \A a \in Accounts : binding[a] = None /\ binding'[a] # None => a \in W
         /\ \A c \in Codes : rounds'[c] # rounds[c] => c \in D
<1>1. /\ \A a \in Accounts : to[a] # None => a \in W
      /\ Served(to) \subseteq D
  BY AllotmentFacts
<1>2. \A a \in Accounts :
         binding'[a] = IF to[a] # None THEN <<to[a], rounds[to[a]] + 1>> ELSE binding[a]
  BY DEF Deliver
<1>3. \A c \in Codes : rounds'[c] = IF c \in Served(to) THEN rounds[c] + 1 ELSE rounds[c]
  BY DEF Deliver
<1> QED
  BY <1>1, <1>2, <1>3

LEMMA SettleFrom ==
  ASSUME NEW r, NEW V, NEW cs \in SUBSET Codes, Settle(r, V, cs)
  PROVE  /\ \A a \in Accounts : binding[a] = None /\ binding'[a] # None =>
               a \in V /\ (r # None => resv[a] = r)
         /\ \A c \in Codes : rounds'[c] # rounds[c] => rounds[c] = 0
<1> DEFINE D == SettleDemand(cs)
           M == {a \in Candidates(r, V) : \E c \in D : pool[a] = CodePool(c)}
<1>1. PICK W \in Windows(M, D) : \E to \in Allotments(W \cap V, D) : Deliver(to, r)
  BY DEF Settle
<1>2. PICK to \in Allotments(W \cap V, D) : Deliver(to, r)
  BY <1>1
<1>3. W \subseteq M
  BY DEF Windows, kSubset
<1>4. D \in SUBSET Codes /\ \A c \in D : rounds[c] = 0
  BY DEF SettleDemand
<1>5. \A a \in M : r # None => resv[a] = r
  BY DEF Candidates
<1> HIDE DEF D, M
<1>6. /\ \A a \in Accounts : binding[a] = None /\ binding'[a] # None => a \in W \cap V
      /\ \A c \in Codes : rounds'[c] # rounds[c] => c \in D
  BY <1>2, <1>4, DeliveredFrom
<1> QED
  BY <1>3, <1>4, <1>5, <1>6

LEMMA AfterSaleFrom ==
  ASSUME NEW r, NEW verified, NEW V, NEW cs \in SUBSET Codes,
         SettleAfterSale(r, verified, V, cs)
  PROVE  /\ \A a \in Accounts : binding[a] = None /\ binding'[a] # None =>
               a \in V /\ (r # None => resv[a] = r)
         /\ \A c \in Codes : rounds'[c] # rounds[c] => Current(c) \subseteq verified
<1> DEFINE D == ReissueDemand(cs, verified)
           W == Candidates(r, V) \cap V
<1>1. PICK to \in Allotments(W, D) : Deliver(to, r)
  BY DEF SettleAfterSale
<1>2. D \in SUBSET Codes /\ \A c \in D : Current(c) \subseteq verified
  BY DEF ReissueDemand, Reissuable
<1>3. \A a \in W : a \in V /\ (r # None => resv[a] = r)
  BY DEF Candidates
<1> HIDE DEF D, W
<1>4. /\ \A a \in Accounts : binding[a] = None /\ binding'[a] # None => a \in W
      /\ \A c \in Codes : rounds'[c] # rounds[c] => c \in D
  BY <1>1, <1>2, DeliveredFrom
<1> QED
  BY <1>2, <1>3, <1>4

-----------------------------------------------------------------------------
(* The steps of a chunk keep the invariant.                                 *)

LEMMA InitChunkInv == ChunkInit => ChunkInv
<1> SUFFICES ASSUME ChunkInit PROVE ChunkInv
  OBVIOUS
<1> USE BoundAssumption
<1>1. PICK owner \in [Accounts -> Codes \cup {None}] :
        /\ perCode \in [Batches -> 1 .. MaxPerCode]
        /\ row = [a \in Accounts |-> "live"]
        /\ pool \in [Accounts -> Pools]
        /\ token \in [Accounts -> StockTokens]
        /\ status \in [Accounts -> Outcomes \cup {"available"}]
        /\ binding = [a \in Accounts |-> IF owner[a] = None THEN None ELSE <<owner[a], 1>>]
        /\ issued = [c \in Codes |-> [n \in Rounds |->
                        {a \in Accounts : n = 1 /\ owner[a] = c}]]
        /\ rounds = [c \in Codes |-> IF \E a \in Accounts : owner[a] = c THEN 1 ELSE 0]
        /\ codeStatus = [c \in Codes |-> IF rounds[c] = 1 THEN "redeemed" ELSE "active"]
        /\ redeemedCount = [b \in Batches |->
                               Cardinality({c \in Codes : BatchOf[c] = b /\ rounds[c] = 1})]
        /\ resv = [a \in Accounts |-> None]
        /\ age = [a \in Accounts |-> 0]
        /\ minted = {}
        /\ batchStatus = [b \in Batches |-> "active"]
        /\ limit = [b \in Batches |-> MaxAfterSale]
        /\ expired = [b \in Batches |-> FALSE]
        /\ afterSales = [c \in Codes |-> 0]
  BY DEF ChunkInit, StockedInit
<1>2. 1 \in Rounds
  BY DEF Rounds
<1>3. TypeOK
  <2>1. /\ row \in [Accounts -> {"none", "live", "deleted"}]
        /\ pool \in [Accounts -> Pools \cup {None}]
        /\ status \in [Accounts -> AccountStatus]
        /\ token \in [Accounts -> {"usable", "stale"}]
    BY <1>1, OutcomeAssumption, SwitchAssumption DEF AccountStatus
  <2>2. binding \in [Accounts -> (Codes \X Rounds) \cup {None}]
    <3>1. ASSUME NEW a \in Accounts
          PROVE  (IF owner[a] = None THEN None ELSE <<owner[a], 1>>)
                   \in (Codes \X Rounds) \cup {None}
      BY <1>1, <1>2
    <3> QED
      BY <1>1, <3>1
  <2>3. /\ resv \in [Accounts -> Reservations \cup {None}]
        /\ age \in [Accounts -> 0 .. TTL]
        /\ minted \subseteq Reservations
        /\ batchStatus \in [Batches -> {"none", "active", "disabled", "deleted"}]
        /\ perCode \in [Batches -> 1 .. MaxPerCode]
        /\ limit \in [Batches -> 0 .. MaxAfterSale]
        /\ expired \in [Batches -> BOOLEAN]
    BY <1>1
  <2>4. redeemedCount \in [Batches -> Nat]
    <3>1. ASSUME NEW b \in Batches
          PROVE  Cardinality({c \in Codes : BatchOf[c] = b /\ rounds[c] = 1}) \in Nat
      <4>1. {c \in Codes : BatchOf[c] = b /\ rounds[c] = 1} \subseteq Codes
        OBVIOUS
      <4> QED
        BY <4>1, FiniteAssumption, FS_Subset, FS_CardinalityType
    <3> QED
      BY <1>1, <3>1
  <2>5. /\ codeStatus \in [Codes -> {"active", "disabled", "redeemed"}]
        /\ rounds \in [Codes -> 0 .. MaxAfterSale + 1]
        /\ issued \in [Codes -> [Rounds -> SUBSET Accounts]]
        /\ afterSales \in [Codes -> 0 .. MaxAfterSale]
    BY <1>1
  <2> QED
    BY <2>1, <2>2, <2>3, <2>4, <2>5 DEF TypeOK
<1>4. \A a \in Accounts, c \in Codes, n \in Rounds :
         a \in issued[c][n] <=> n = 1 /\ owner[a] = c
  BY <1>1
<1>5. RoundsAgree
  <2>1. \A c \in Codes : afterSales[c] = 0 /\ rounds[c] \in {0, 1}
    BY <1>1
  <2>2. ASSUME NEW c \in Codes, NEW n \in Rounds, n > rounds[c]
        PROVE  issued[c][n] = {}
    <3>1. n = 1 => ~ \E a \in Accounts : owner[a] = c
      BY <1>1, <2>2
    <3>2. issued[c][n] \subseteq Accounts
      BY <1>1
    <3> QED
      BY <1>4, <3>1, <3>2
  <2> QED
    BY <2>1, <2>2 DEF RoundsAgree
<1>6. BindingMatches
  <2> SUFFICES ASSUME NEW a \in Accounts, NEW c \in Codes, NEW n \in Rounds
               PROVE  binding[a] = <<c, n>> <=> row[a] = "live" /\ a \in issued[c][n]
    BY DEF BindingMatches
  <2>1. CASE owner[a] = None
    <3>1. binding[a] = None /\ owner[a] # c
      BY <1>1, <2>1, NoneAssumption
    <3>2. a \notin issued[c][n]
      BY <1>4, <3>1
    <3>3. <<c, n>> # None
      BY PairNotNone
    <3> QED
      BY <3>1, <3>2, <3>3
  <2>2. CASE owner[a] # None
    <3>1. binding[a] = <<owner[a], 1>>
      BY <1>1, <2>2
    <3>2. binding[a] = <<c, n>> <=> owner[a] = c /\ n = 1
      BY <3>1
    <3> QED
      BY <1>1, <1>4, <3>2
  <2> QED
    BY <2>1, <2>2
<1>7. ListedHaveRows
  BY <1>1 DEF ListedHaveRows
<1>8. Exclusive
  <2> SUFFICES ASSUME NEW c \in Codes, NEW d \in Codes, NEW m \in Rounds, NEW n \in Rounds,
                      NEW a, a \in issued[c][m], a \in issued[d][n]
               PROVE  c = d /\ m = n
    BY DEF Exclusive
  <2>1. a \in Accounts
    BY <1>3 DEF TypeOK
  <2> QED
    BY <1>4, <2>1
<1>9. ChunkTypeOK
  BY SwitchAssumption DEF ChunkInit, ChunkTypeOK
<1>10. OwnReservation /\ HoldsOnlyItsSelection
  BY DEF ChunkInit, OwnReservation, HoldsOnlyItsSelection
<1>11. IdsMintedFirst
  BY <1>1 DEF IdsMintedFirst
<1> QED
  BY <1>3, <1>5, <1>6, <1>7, <1>8, <1>9, <1>10, <1>11 DEF ChunkInv, IInv

\* A chunk moves to the place l with its tasks in the states w, and no account
\* gets a new holder.
LEMMA AdvanceInv ==
  ASSUME ChunkInv, NEW k \in Chunks, NEW l \in Places \ {"idle"},
         NEW w \in [Accounts -> TaskStates],
         (\E a \in Accounts : w[a] # "none") <=> l \in {"refreshing", "probing"},
         pc' = [pc EXCEPT ![k] = l],
         work' = [work EXCEPT ![k] = w],
         sold' \in [Chunks -> SUBSET Accounts],
         UNCHANGED <<skipProbe, kind, want, rid, refreshIds, probeIds, currentIds>>,
         IInv', KeepsHolds,
         l \in {"done", "failed"} /\ rid[k] # None => Held(rid[k])' = {}
  PROVE  ChunkInv'
<1>1. ChunkTypeOK'
  <2>1. /\ pc' \in [Chunks -> Places]
        /\ work' \in [Chunks -> [Accounts -> TaskStates]]
    BY DEF ChunkInv, ChunkTypeOK, Places, TaskStates
  <2>2. \A j \in Chunks : (\E a \in Accounts : work'[j][a] # "none")
                             <=> pc'[j] \in {"refreshing", "probing"}
    BY DEF ChunkInv, ChunkTypeOK
  <2> QED
    BY <2>1, <2>2 DEF ChunkInv, ChunkTypeOK, Places, TaskStates
<1>2. \A j \in Chunks : pc'[j] = IF j = k THEN l ELSE pc[j]
  BY DEF ChunkInv, ChunkTypeOK
<1>3. OwnReservation'
  BY <1>2 DEF ChunkInv, OwnReservation, KeepsHolds
<1>4. IdsMintedFirst'
  BY DEF ChunkInv, IdsMintedFirst, KeepsHolds
<1>5. HoldsOnlyItsSelection'
  <2> SUFFICES ASSUME NEW j \in Chunks, rid[j] # None
               PROVE  /\ Held(rid[j])' \subseteq probeIds[j]
                      /\ pc'[j] \in {"done", "failed"} => Held(rid[j])' = {}
    BY DEF HoldsOnlyItsSelection, Held
  <2>1. Held(rid[j])' \subseteq Held(rid[j])
    BY DEF KeepsHolds, Held
  <2>2. /\ Held(rid[j]) \subseteq probeIds[j]
        /\ pc[j] \in {"done", "failed"} => Held(rid[j]) = {}
    BY DEF ChunkInv, HoldsOnlyItsSelection
  <2> QED
    BY <1>2, <2>1, <2>2
<1> QED
  BY <1>1, <1>3, <1>4, <1>5 DEF ChunkInv

\* No chunk moves.
LEMMA StandInv ==
  ASSUME ChunkInv, UNCHANGED <<skipProbe, chunkVars>>, Tame
  PROVE  ChunkInv'
<1>1. ChunkTypeOK'
  BY DEF ChunkInv, ChunkTypeOK, chunkVars
<1>2. OwnReservation' /\ IdsMintedFirst'
  <2>1. OwnReservation'
    BY DEF ChunkInv, OwnReservation, chunkVars, Tame, KeepsHolds
  <2>2. IdsMintedFirst'
    BY DEF ChunkInv, IdsMintedFirst, Tame, KeepsHolds
  <2> QED
    BY <2>1, <2>2
<1>3. HoldsOnlyItsSelection'
  <2> SUFFICES ASSUME NEW j \in Chunks, rid[j] # None
               PROVE  /\ Held(rid[j])' \subseteq probeIds[j]
                      /\ pc[j] \in {"done", "failed"} => Held(rid[j])' = {}
    BY DEF HoldsOnlyItsSelection, Held, chunkVars
  <2>1. Held(rid[j])' \subseteq Held(rid[j])
    BY DEF Tame, KeepsHolds, Held, chunkVars
  <2> QED
    BY <2>1 DEF ChunkInv, HoldsOnlyItsSelection
<1> QED
  BY <1>1, <1>2, <1>3 DEF ChunkInv, Tame

\* The claim is made under an id no one has had.
LEMMA PrepareClaims ==
  ASSUME NEW k \in Chunks, Prepare(k)
  PROVE  \E kd \in Kinds, cs \in SUBSET Codes, D \in SUBSET Codes,
            r \in Reservations \cup {None}, S \in SUBSET {a \in Accounts : Claimable(a)} :
            /\ pc[k] = "idle"
            /\ Claim(r, S, D)
            /\ kind' = [kind EXCEPT ![k] = kd]
            /\ want' = [want EXCEPT ![k] = cs]
            /\ rid' = [rid EXCEPT ![k] = r]
            /\ refreshIds' = [refreshIds EXCEPT ![k] = {a \in S : ~Fresh(a)}]
            /\ probeIds' = [probeIds EXCEPT ![k] = S]
            /\ currentIds' = [currentIds EXCEPT ![k] =
                                IF kd = "redeem" THEN {}
                                ELSE UNION {Current(c) : c \in AfterSaleDemand(cs)}]
            /\ pc' = [pc EXCEPT ![k] = "prepared"]
            /\ UNCHANGED <<work, sold>>
<1>1. PICK kd \in Kinds, cs \in SUBSET Codes, r \in Reservations \cup {None},
           S \in SUBSET {a \in Accounts : Claimable(a)} :
            /\ pc[k] = "idle"
            /\ IF kd = "redeem" THEN PrepareRedeem(r, S, cs) ELSE PrepareAfterSale(r, S, cs)
            /\ kind' = [kind EXCEPT ![k] = kd]
            /\ want' = [want EXCEPT ![k] = cs]
            /\ rid' = [rid EXCEPT ![k] = r]
            /\ refreshIds' = [refreshIds EXCEPT ![k] = {a \in S : ~Fresh(a)}]
            /\ probeIds' = [probeIds EXCEPT ![k] = S]
            /\ currentIds' = [currentIds EXCEPT ![k] =
                                IF kd = "redeem" THEN {}
                                ELSE UNION {Current(c) : c \in AfterSaleDemand(cs)}]
            /\ pc' = [pc EXCEPT ![k] = "prepared"]
            /\ UNCHANGED <<work, sold>>
  BY DEF Prepare, Goto
<1>2. PICK D \in SUBSET Codes : Claim(r, S, D)
  <2>1. RedeemDemand(cs) \in SUBSET Codes /\ AfterSaleDemand(cs) \in SUBSET Codes
    BY DEF RedeemDemand, AfterSaleDemand
  <2> QED
    BY <1>1, <2>1 DEF PrepareRedeem, PrepareAfterSale
<1> QED
  BY <1>1, <1>2

LEMMA PrepareInv ==
  ASSUME ChunkInv, NEW k \in Chunks, Prepare(k), UNCHANGED skipProbe
  PROVE  ChunkInv'
<1>1. PICK kd \in Kinds, cs \in SUBSET Codes, D \in SUBSET Codes,
           r \in Reservations \cup {None}, S \in SUBSET {a \in Accounts : Claimable(a)} :
            /\ pc[k] = "idle"
            /\ Claim(r, S, D)
            /\ kind' = [kind EXCEPT ![k] = kd]
            /\ want' = [want EXCEPT ![k] = cs]
            /\ rid' = [rid EXCEPT ![k] = r]
            /\ refreshIds' = [refreshIds EXCEPT ![k] = {a \in S : ~Fresh(a)}]
            /\ probeIds' = [probeIds EXCEPT ![k] = S]
            /\ currentIds' = [currentIds EXCEPT ![k] =
                                IF kd = "redeem" THEN {}
                                ELSE UNION {Current(c) : c \in AfterSaleDemand(cs)}]
            /\ pc' = [pc EXCEPT ![k] = "prepared"]
            /\ UNCHANGED <<work, sold>>
  BY PrepareClaims
<1>2. S \subseteq Accounts
  OBVIOUS
<1>3. IInv'
  BY <1>1, <1>2, ClaimIInv DEF ChunkInv
<1>4. UNION {Current(c) : c \in AfterSaleDemand(cs)} \subseteq Accounts
  <2>1. ASSUME NEW c \in AfterSaleDemand(cs)
        PROVE  Current(c) \subseteq Accounts
    <3>1. c \in Codes /\ rounds[c] \in Rounds
      BY BoundAssumption DEF AfterSaleDemand, MayReissue, ChunkInv, IInv, TypeOK, Rounds
    <3> QED
      BY <3>1 DEF Current, ChunkInv, IInv, TypeOK
  <2> QED
    BY <2>1
<1>5. ChunkTypeOK'
  <2>1. /\ pc' \in [Chunks -> Places]
        /\ work' \in [Chunks -> [Accounts -> TaskStates]]
        /\ sold' \in [Chunks -> SUBSET Accounts]
    BY <1>1 DEF ChunkInv, ChunkTypeOK, Places, TaskStates
  <2>2. /\ kind' \in [Chunks -> {"redeem", "after_sale"}]
        /\ want' \in [Chunks -> SUBSET Codes]
        /\ rid' \in [Chunks -> Reservations \cup {None}]
    BY <1>1, SwitchAssumption DEF ChunkInv, ChunkTypeOK
  <2>3. /\ refreshIds' \in [Chunks -> SUBSET Accounts]
        /\ probeIds' \in [Chunks -> SUBSET Accounts]
    BY <1>1, <1>2 DEF ChunkInv, ChunkTypeOK
  <2>4. currentIds' \in [Chunks -> SUBSET Accounts]
    BY <1>1, <1>4 DEF ChunkInv, ChunkTypeOK
  <2>5. \A j \in Chunks : (\E a \in Accounts : work'[j][a] # "none")
                             <=> pc'[j] \in {"refreshing", "probing"}
    BY <1>1 DEF ChunkInv, ChunkTypeOK
  <2> QED
    BY <2>1, <2>2, <2>3, <2>4, <2>5 DEF ChunkInv, ChunkTypeOK, Places, TaskStates
<1>6. /\ r # None => r \notin minted /\ r \in minted'
      /\ \A x \in minted : x \in minted'
      /\ r = None => S = {}
  BY <1>1, NoneAssumption DEF Claim
<1>7. \A a \in Accounts : IF a \in S THEN resv'[a] = r ELSE resv'[a] \in {None, resv[a]}
  BY <1>1 DEF Claim
<1>8. \A j \in Chunks : /\ rid'[j] = IF j = k THEN r ELSE rid[j]
                        /\ probeIds'[j] = IF j = k THEN S ELSE probeIds[j]
                        /\ pc'[j] = IF j = k THEN "prepared" ELSE pc[j]
  BY <1>1 DEF ChunkInv, ChunkTypeOK
<1>9. OwnReservation'
  <2>1. \A j \in Chunks : rid[j] # None => rid[j] \in minted
    BY DEF ChunkInv, OwnReservation
  <2>2. \A j \in Chunks : rid'[j] # None => rid'[j] \in minted'
    BY <1>6, <1>8, <2>1
  <2>3. \A j, m \in Chunks : rid'[j] # None /\ rid'[j] = rid'[m] => j = m
    BY <1>6, <1>8, <2>1 DEF ChunkInv, OwnReservation
  <2>4. \A j \in Chunks : /\ pc'[j] = "idle" => rid'[j] = None
                          /\ rid'[j] = None => probeIds'[j] = {}
    BY <1>6, <1>8 DEF ChunkInv, OwnReservation
  <2> QED
    BY <2>2, <2>3, <2>4 DEF OwnReservation
<1>10. IdsMintedFirst'
  BY <1>6, <1>7 DEF ChunkInv, IdsMintedFirst
<1>11. HoldsOnlyItsSelection'
  <2> SUFFICES ASSUME NEW j \in Chunks, rid'[j] # None
               PROVE  /\ Held(rid[j])' \subseteq probeIds'[j]
                      /\ pc'[j] \in {"done", "failed"} => Held(rid[j])' = {}
    BY DEF HoldsOnlyItsSelection, Held
  <2>1. CASE j = k
    <3>1. \A a \in Accounts : resv'[a] = r => a \in S
      BY <1>6, <1>7, <1>8, <2>1 DEF ChunkInv, IdsMintedFirst
    <3> QED
      BY <1>8, <2>1, <3>1 DEF Held
  <2>2. CASE j # k
    <3>1. rid'[j] = rid[j] /\ rid[j] \in minted
      BY <1>8, <2>2 DEF ChunkInv, OwnReservation
    <3>2. \A a \in Accounts : resv'[a] = rid[j] => resv[a] = rid[j]
      BY <1>6, <1>7, <3>1
    <3>3. Held(rid[j])' \subseteq Held(rid[j])
      BY <3>1, <3>2 DEF Held
    <3> QED
      BY <1>8, <2>2, <3>1, <3>3 DEF ChunkInv, HoldsOnlyItsSelection
  <2> QED
    BY <2>1, <2>2
<1> QED
  BY <1>3, <1>5, <1>9, <1>10, <1>11 DEF ChunkInv

\* The tame steps of a chunk: everything it does between its claim and its
\* settle.
Works(k) ==
    \/ Begin(k) \/ LoadRefresh(k) \/ LoadProbe(k) \/ ReleaseAfterError(k) \/ Fail(k) \/ Lost(k)
    \/ \E a \in Accounts : \/ RefreshTask(k, a) \/ ProbeStores(k, a) \/ ProbeRecords(k, a)
                           \/ ProbeErrs(k, a) \/ Collect(k, a)

LEMMA TaskTame ==
  ASSUME ChunkInv, NEW k \in Chunks, NEW a \in Accounts,
         \/ RefreshTask(k, a) \/ ProbeStores(k, a) \/ ProbeRecords(k, a)
         \/ ProbeErrs(k, a) \/ Collect(k, a)
  PROVE  Tame
<1> IInv
  BY DEF ChunkInv
<1>1. CASE RefreshTask(k, a)
  BY <1>1, NothingTame, AccountTame DEF RefreshTask, OrNothing, AccountStatus
<1>2. CASE ProbeStores(k, a)
  BY <1>2, OutcomeAssumption, NothingTame, AccountTame DEF ProbeStores, OrNothing
<1>3. CASE ProbeRecords(k, a)
  BY <1>3, OutcomeAssumption, NothingTame, AccountTame DEF ProbeRecords, OrNothing
<1>4. CASE ProbeErrs(k, a)
  BY <1>4, NothingTame DEF ProbeErrs
<1>5. CASE Collect(k, a)
  BY <1>5, BeatTame DEF Collect
<1> QED
  BY <1>1, <1>2, <1>3, <1>4, <1>5

LEMMA WorksTame ==
  ASSUME ChunkInv, NEW k \in Chunks, Works(k)
  PROVE  Tame
<1> IInv
  BY DEF ChunkInv
<1>1. CASE Begin(k)
  BY <1>1, BeatTame DEF Begin
<1>2. CASE LoadRefresh(k) \/ LoadProbe(k)
  BY <1>2, NothingTame DEF LoadRefresh, LoadProbe, Launch
<1>3. CASE ReleaseAfterError(k)
  <2>1. rid[k] \in Reservations \cup {None}
    BY DEF ChunkInv, ChunkTypeOK
  <2> QED
    BY <1>3, <2>1, NothingTame, ReservationTame DEF ReleaseAfterError
<1>4. CASE Fail(k) \/ Lost(k)
  BY <1>4, NothingTame DEF Fail, Lost
<1> QED
  BY <1>1, <1>2, <1>3, <1>4, TaskTame DEF Works

\* The tasks that run while a chunk waits for them.
LEMMA TaskInv ==
  ASSUME ChunkInv, NEW k \in Chunks, NEW a \in Accounts, UNCHANGED skipProbe,
         NEW from, NEW to \in {"stored", "done"}, Task(k, a, from, to), "none" \notin from,
         Tame
  PROVE  ChunkInv'
<1> DEFINE w == [work[k] EXCEPT ![a] = to]
<1>1. /\ work[k] \in [Accounts -> TaskStates]
      /\ work[k][a] # "none"
      /\ pc[k] \in {"refreshing", "probing"}
  BY DEF Task, ChunkInv, ChunkTypeOK, TaskStates
<1>2. w \in [Accounts -> TaskStates] /\ w[a] # "none"
  BY <1>1 DEF TaskStates
<1>3. work' = [work EXCEPT ![k] = w]
  BY DEF Task
<1>4. pc' = [pc EXCEPT ![k] = pc[k]]
  BY DEF Task, ChunkInv, ChunkTypeOK
<1>5. pc[k] \in Places \ {"idle"} /\ pc[k] \notin {"done", "failed"}
  BY <1>1 DEF Places
<1>6. sold' \in [Chunks -> SUBSET Accounts]
  BY DEF Task, ChunkInv, ChunkTypeOK
<1>7. UNCHANGED <<skipProbe, kind, want, rid, refreshIds, probeIds, currentIds>>
  BY DEF Task
<1> HIDE DEF w
<1> QED
  BY <1>1, <1>2, <1>3, <1>4, <1>5, <1>6, <1>7, AdvanceInv DEF Tame

LEMMA LaunchInv ==
  ASSUME ChunkInv, NEW k \in Chunks, UNCHANGED skipProbe,
         NEW ids \in SUBSET Accounts, NEW busy \in {"refreshing", "probing"},
         NEW next \in {"probe", "settle"}, Launch(k, ids, busy, next),
         sold' \in [Chunks -> SUBSET Accounts]
  PROVE  ChunkInv'
<1> DEFINE w == [a \in Accounts |-> IF a \in ids THEN "running" ELSE "none"]
           l == IF ids = {} THEN next ELSE busy
<1>1. w \in [Accounts -> TaskStates] /\ l \in Places \ {"idle"} /\ l \notin {"done", "failed"}
  BY DEF TaskStates, Places
<1>2. (\E a \in Accounts : w[a] # "none") <=> l \in {"refreshing", "probing"}
  OBVIOUS
<1>3. work' = [work EXCEPT ![k] = w] /\ pc' = [pc EXCEPT ![k] = l]
  BY DEF Launch, Goto
<1>4. Tame
  BY NothingTame DEF Launch, ChunkInv
<1>5. UNCHANGED <<skipProbe, kind, want, rid, refreshIds, probeIds, currentIds>>
  BY DEF Launch
<1> HIDE DEF w, l
<1> QED
  BY <1>1, <1>2, <1>3, <1>4, <1>5, AdvanceInv DEF Tame

\* A chunk that stops leaves no task behind.
LEMMA StopInv ==
  ASSUME ChunkInv, NEW k \in Chunks, UNCHANGED skipProbe,
         NEW l \in {"failing", "lost"}, pc' = [pc EXCEPT ![k] = l],
         work' = [work EXCEPT ![k] = [a \in Accounts |-> "none"]],
         UNCHANGED <<vars, kind, want, rid, refreshIds, probeIds, currentIds, sold>>
  PROVE  ChunkInv'
<1> DEFINE w == [a \in Accounts |-> "none"]
<1>1. w \in [Accounts -> TaskStates] /\ ~ \E a \in Accounts : w[a] # "none"
  BY DEF TaskStates
<1>2. l \in Places \ {"idle"} /\ l \notin {"refreshing", "probing", "done", "failed"}
  BY DEF Places, Ended
<1>3. Tame
  BY NothingTame DEF ChunkInv
<1>4. sold' \in [Chunks -> SUBSET Accounts]
  BY DEF ChunkInv, ChunkTypeOK
<1>5. work' = [work EXCEPT ![k] = w]
  OBVIOUS
<1> HIDE DEF w
<1> QED
  BY <1>1, <1>2, <1>3, <1>4, <1>5, AdvanceInv DEF Tame

\* A chunk that moves between two places at which no task runs.
LEMMA MoveInv ==
  ASSUME ChunkInv, NEW k \in Chunks, UNCHANGED skipProbe,
         pc[k] \notin {"refreshing", "probing"},
         NEW l \in Places \ {"idle", "refreshing", "probing"},
         pc' = [pc EXCEPT ![k] = l],
         UNCHANGED <<kind, want, rid, refreshIds, probeIds, currentIds, work, sold>>,
         IInv', KeepsHolds,
         l \in {"done", "failed"} /\ rid[k] # None => Held(rid[k])' = {}
  PROVE  ChunkInv'
<1>1. work[k] \in [Accounts -> TaskStates] /\ ~ \E a \in Accounts : work[k][a] # "none"
  BY DEF ChunkInv, ChunkTypeOK, TaskStates
<1>2. work' = [work EXCEPT ![k] = work[k]]
  BY DEF ChunkInv, ChunkTypeOK
<1>3. sold' \in [Chunks -> SUBSET Accounts]
  BY DEF ChunkInv, ChunkTypeOK
<1> QED
  BY <1>1, <1>2, <1>3, AdvanceInv

LEMMA CollectInv ==
  ASSUME ChunkInv, NEW k \in Chunks, NEW a \in Accounts, UNCHANGED skipProbe, Collect(k, a)
  PROVE  ChunkInv'
<1> DEFINE w == [work[k] EXCEPT ![a] = "none"]
           last == \A x \in Accounts \ {a} : work[k][x] = "none"
           l == IF last THEN (IF pc[k] = "refreshing" THEN "probe" ELSE "settle") ELSE pc[k]
<1>1. pc[k] \in {"refreshing", "probing"} /\ work[k] \in [Accounts -> TaskStates]
  BY DEF Collect, ChunkInv, ChunkTypeOK, TaskStates
<1>2. w \in [Accounts -> TaskStates]
  BY <1>1 DEF TaskStates
<1>3. l \in Places \ {"idle"} /\ l \notin {"done", "failed"}
  BY <1>1 DEF Places
<1>4. (\E x \in Accounts : w[x] # "none") <=> ~last
  BY <1>1 DEF TaskStates
<1>5. ~last <=> l \in {"refreshing", "probing"}
  BY <1>1
<1>6. work' = [work EXCEPT ![k] = w]
  BY DEF Collect
<1>7. pc' = [pc EXCEPT ![k] = l]
  BY <1>1 DEF Collect, Goto, ChunkInv, ChunkTypeOK
<1>8. Tame
  BY TaskTame
<1>9. /\ sold' \in [Chunks -> SUBSET Accounts]
      /\ UNCHANGED <<skipProbe, kind, want, rid, refreshIds, probeIds, currentIds>>
  BY DEF Collect, ChunkInv, ChunkTypeOK
<1> HIDE DEF w, last, l
<1> QED
  BY <1>2, <1>3, <1>4, <1>5, <1>6, <1>7, <1>8, <1>9, AdvanceInv DEF Tame

LEMMA WorksInv ==
  ASSUME ChunkInv, NEW k \in Chunks, UNCHANGED skipProbe, Works(k)
  PROVE  ChunkInv'
<1>1. Tame
  BY WorksTame
<1>2. /\ rid[k] \in Reservations \cup {None}
      /\ \A S : S \cap Accounts \in SUBSET Accounts
      /\ sold \in [Chunks -> SUBSET Accounts]
  BY DEF ChunkInv, ChunkTypeOK
<1>3. CASE Begin(k)
  <2> DEFINE l == IF skipProbe THEN "settle" ELSE "refresh"
  <2>1. /\ pc[k] \notin {"refreshing", "probing"}
        /\ pc' = [pc EXCEPT ![k] = l]
        /\ UNCHANGED <<kind, want, rid, refreshIds, probeIds, currentIds, work, sold>>
    BY <1>3 DEF Begin, Goto
  <2>2. l \in Places \ {"idle", "refreshing", "probing"} /\ l \notin {"done", "failed"}
    BY DEF Places
  <2> HIDE DEF l
  <2> QED
    BY <1>1, <2>1, <2>2, MoveInv DEF Tame
<1>4. CASE LoadRefresh(k)
  <2> DEFINE ids == {a \in refreshIds[k] : Unredeemed(a)}
  <2>1. ids \in SUBSET Accounts
    BY DEF ChunkInv, ChunkTypeOK
  <2>2. Launch(k, ids, "refreshing", "probe") /\ sold' \in [Chunks -> SUBSET Accounts]
    BY <1>2, <1>4 DEF LoadRefresh
  <2> HIDE DEF ids
  <2> QED
    BY <2>1, <2>2, LaunchInv
<1>5. CASE LoadProbe(k)
  <2> DEFINE ids == {a \in probeIds[k] \cup currentIds[k] :
                       row[a] = "live" /\ (kind[k] = "redeem" => binding[a] = None)}
  <2>1. ids \in SUBSET Accounts
    BY DEF ChunkInv, ChunkTypeOK
  <2>2. /\ Launch(k, ids, "probing", "settle")
        /\ sold' = [sold EXCEPT ![k] = {a \in ids : DeepCheck /\ binding[a] # None}]
    BY <1>5 DEF LoadProbe
  <2>3. sold' \in [Chunks -> SUBSET Accounts]
    BY <1>2, <2>1, <2>2
  <2> HIDE DEF ids
  <2> QED
    BY <2>1, <2>2, <2>3, LaunchInv
<1>6. CASE ReleaseAfterError(k)
  <2>1. PICK l \in {"failed", "leaked"} :
           /\ pc' = [pc EXCEPT ![k] = l]
           /\ l = "failed" => rid[k] = None \/ Release(rid[k])
    BY <1>6 DEF ReleaseAfterError, Goto
  <2>2. l \in {"done", "failed"} /\ rid[k] # None => Held(rid[k])' = {}
    <3>1. rid' = rid
      BY <1>6 DEF ReleaseAfterError
    <3>2. Release(rid[k]) => \A a \in Accounts : resv'[a] # rid[k] \/ rid[k] = None
      BY DEF Release, Dropped
    <3> QED
      BY <2>1, <3>1, <3>2 DEF Held
  <2>3. l \in Places \ {"idle", "refreshing", "probing"}
    BY DEF Places, Ended
  <2>4. /\ pc[k] \notin {"refreshing", "probing"}
        /\ UNCHANGED <<kind, want, rid, refreshIds, probeIds, currentIds, work, sold>>
    BY <1>6 DEF ReleaseAfterError
  <2> QED
    BY <1>1, <2>1, <2>2, <2>3, <2>4, MoveInv DEF Tame
<1>7. CASE Fail(k)
  BY <1>7, StopInv DEF Fail, Goto
<1>8. CASE Lost(k)
  BY <1>8, StopInv DEF Lost, Goto
<1>9. ASSUME NEW a \in Accounts,
             RefreshTask(k, a) \/ ProbeStores(k, a) \/ ProbeRecords(k, a) \/ ProbeErrs(k, a)
      PROVE  ChunkInv'
  <2>1. \E from \in {{"running"}, {"running", "stored"}}, to \in {"stored", "done"} :
           Task(k, a, from, to)
    BY <1>9 DEF RefreshTask, ProbeStores, ProbeRecords, ProbeErrs
  <2>2. PICK from \in {{"running"}, {"running", "stored"}}, to \in {"stored", "done"} :
           Task(k, a, from, to)
    BY <2>1
  <2>3. "none" \notin from
    OBVIOUS
  <2> QED
    BY <1>1, <2>2, <2>3, TaskInv
<1>10. ASSUME NEW a \in Accounts, Collect(k, a)
       PROVE  ChunkInv'
  BY <1>10, CollectInv
<1> QED
  BY <1>3, <1>4, <1>5, <1>6, <1>7, <1>8, <1>9, <1>10 DEF Works

\* The settle of a chunk, with the accounts it passes for verified.
LEMMA FinishSettles ==
  ASSUME ChunkInv, NEW k \in Chunks, Finish(k)
  PROVE  /\ want[k] \in SUBSET Codes
         /\ rid[k] \in Reservations \cup {None}
         /\ pc[k] = "settle"
         /\ pc' = [pc EXCEPT ![k] = "done"]
         /\ UNCHANGED <<kind, want, rid, refreshIds, probeIds, currentIds, work, sold>>
         /\ \E V, verified :
              /\ ~skipProbe => V = probeIds[k] /\ verified = currentIds[k]
              /\ \/ kind[k] = "redeem" /\ Settle(rid[k], V, want[k])
                 \/ kind[k] = "after_sale" /\ SettleAfterSale(rid[k], verified, V, want[k])
<1>1. /\ want[k] \in SUBSET Codes
      /\ rid[k] \in Reservations \cup {None}
      /\ kind[k] \in {"redeem", "after_sale"}
  BY DEF ChunkInv, ChunkTypeOK
<1>2. /\ pc[k] = "settle"
      /\ pc' = [pc EXCEPT ![k] = "done"]
      /\ UNCHANGED <<kind, want, rid, refreshIds, probeIds, currentIds, work, sold>>
  BY DEF Finish, Goto
<1> DEFINE V == IF skipProbe THEN Accounts ELSE probeIds[k]
           verified == IF skipProbe THEN Accounts ELSE currentIds[k]
<1>3. IF kind[k] = "redeem" THEN Settle(rid[k], V, want[k])
                            ELSE SettleAfterSale(rid[k], verified, V, want[k])
  BY Zenon DEF Finish
<1>4. ~skipProbe => V = probeIds[k] /\ verified = currentIds[k]
  OBVIOUS
<1> HIDE DEF V, verified
<1> QED
  BY <1>1, <1>2, <1>3, <1>4

LEMMA FinishInv ==
  ASSUME ChunkInv, NEW k \in Chunks, UNCHANGED skipProbe, Finish(k)
  PROVE  ChunkInv'
<1>1. /\ IInv' /\ KeepsHolds
      /\ rid[k] # None => Held(rid[k])' = {}
  BY FinishSettles, SettleHolds DEF ChunkInv
<1>2. "done" \in Places \ {"idle", "refreshing", "probing"}
  BY DEF Places, Ended
<1> QED
  BY <1>1, <1>2, FinishSettles, MoveInv

\* Every step is a claim, a settle, or writes neither holds nor deliveries.
LEMMA NextCases ==
  ASSUME ChunkInv, [ChunkNext]_allVars
  PROVE  \/ \E k \in Chunks : Prepare(k)
         \/ \E k \in Chunks : Finish(k)
         \/ Tame
<1> IInv
  BY DEF ChunkInv
<1>1. CASE \E k \in Chunks : Works(k)
  BY <1>1, WorksTame
<1>2. CASE Outside(Interference)
  BY <1>2, OutsideTame
<1>3. CASE TimePasses
  BY <1>3, TickTame DEF TimePasses
<1>4. CASE UNCHANGED allVars
  BY <1>4, NothingTame DEF allVars
<1> QED
  BY <1>1, <1>2, <1>3, <1>4 DEF ChunkNext, Step, Works

LEMMA NextChunkInv == ChunkInv /\ [ChunkNext]_allVars => ChunkInv'
<1> SUFFICES ASSUME ChunkInv, [ChunkNext]_allVars PROVE ChunkInv'
  OBVIOUS
<1> IInv
  BY DEF ChunkInv
<1>1. ASSUME NEW k \in Chunks, Prepare(k), UNCHANGED skipProbe
      PROVE  ChunkInv'
  BY <1>1, PrepareInv
<1>2. ASSUME NEW k \in Chunks, Works(k), UNCHANGED skipProbe
      PROVE  ChunkInv'
  BY <1>2, WorksInv
<1>3. ASSUME NEW k \in Chunks, Finish(k), UNCHANGED skipProbe
      PROVE  ChunkInv'
  BY <1>3, FinishInv
<1>4. CASE Outside(Interference) /\ UNCHANGED skipProbe
  BY <1>4, OutsideTame, StandInv DEF Outside
<1>5. CASE TimePasses /\ UNCHANGED skipProbe
  BY <1>5, TickTame, StandInv DEF TimePasses
<1>6. CASE UNCHANGED allVars
  BY <1>6, NothingTame, StandInv DEF allVars
<1> QED
  BY <1>1, <1>2, <1>3, <1>4, <1>5, <1>6 DEF ChunkNext, Step, Works

-----------------------------------------------------------------------------
(* The theorems.                                                            *)

\* Reservations belong to the chunk that minted them, hold accounts it selected
\* and nothing else, and the database under the chunks is in order.
THEOREM ChunkInvariant == ChunkSpec => []ChunkInv
BY InitChunkInv, NextChunkInv, PTL DEF ChunkSpec

\* Chunks and tasks keep their types; in particular a chunk waits for tasks
\* exactly as long as one runs.
THEOREM ChunkTypeCorrect == ChunkSpec => []ChunkTypeOK
<1>1. ChunkInv => ChunkTypeOK
  BY DEF ChunkInv
<1> QED
  BY <1>1, ChunkInvariant, PTL

\* No account is delivered twice by chunks that run beside each other.
THEOREM ChunksDeliverOnce == ChunkSpec => []Exclusive
<1>1. ChunkInv => Exclusive
  BY DEF ChunkInv, IInv
<1> QED
  BY <1>1, ChunkInvariant, PTL

\* Whoever else claims, releases or settles meanwhile, a reservation never
\* holds an account its chunk did not select, and holds none at the end.
THEOREM HoldsOwnSelection == ChunkSpec => []HoldsOnlyItsSelection
<1>1. ChunkInv => HoldsOnlyItsSelection
  BY DEF ChunkInv
<1> QED
  BY <1>1, ChunkInvariant, PTL

LEMMA NextTakes ==
  ASSUME ChunkInv, [ChunkNext]_allVars, NEW a \in Accounts,
         binding[a] = None, binding'[a] # None
  PROVE  \E k \in Chunks :
            /\ pc[k] = "settle" /\ pc'[k] = "done"
            /\ \/ a \in probeIds[k] /\ resv[a] = rid[k]
               \/ skipProbe /\ rid[k] = None
<1>1. ~Tame /\ ~ \E k \in Chunks : Prepare(k)
  <2>1. ASSUME NEW k \in Chunks, Prepare(k)
        PROVE  UNCHANGED binding
    BY <2>1, PrepareClaims DEF Claim
  <2> QED
    BY <2>1 DEF Tame, DeliversNothing
<1>2. PICK k \in Chunks : Finish(k)
  BY <1>1, NextCases
<1>3. /\ pc[k] = "settle" /\ pc'[k] = "done"
  BY <1>2, FinishSettles DEF ChunkInv, ChunkTypeOK
<1>4. PICK V : /\ ~skipProbe => V = probeIds[k]
               /\ a \in V
               /\ rid[k] # None => resv[a] = rid[k]
  BY <1>2, FinishSettles, SettleFrom, AfterSaleFrom
<1>5. CASE rid[k] # None
  BY <1>3, <1>4, <1>5 DEF ChunkInv, HoldsOnlyItsSelection, Held
<1>6. CASE rid[k] = None
  <2>1. probeIds[k] = {}
    BY <1>6 DEF ChunkInv, OwnReservation
  <2> QED
    BY <1>3, <1>4, <1>6, <2>1
<1> QED
  BY <1>5, <1>6

\* However slow a chunk is, what it delivers it still holds.
THEOREM DeliversOwnHoldings == ChunkSpec => TakesOnlyWhatItHolds
<1>1. ChunkInv /\ [ChunkNext]_allVars =>
        [\A a \in Accounts : binding[a] = None /\ binding'[a] # None =>
          \E k \in Chunks :
             /\ pc[k] = "settle" /\ pc'[k] = "done"
             /\ \/ a \in probeIds[k] /\ resv[a] = rid[k]
                \/ skipProbe /\ rid[k] = None]_allVars
  BY NextTakes
<1> QED
  BY <1>1, ChunkInvariant, PTL DEF ChunkSpec, TakesOnlyWhatItHolds

LEMMA NextReplaces ==
  ASSUME ChunkInv, [ChunkNext]_allVars, ~skipProbe, NEW c \in Codes,
         rounds[c] > 0, rounds'[c] > rounds[c]
  PROVE  \E k \in Chunks : /\ pc[k] = "settle" /\ pc'[k] = "done" /\ kind[k] = "after_sale"
                           /\ Current(c) \subseteq currentIds[k]
<1>1. rounds[c] \in Int /\ rounds'[c] # rounds[c] /\ rounds[c] # 0
  <2>1. rounds[c] \in Int
    BY RoundsInt DEF ChunkInv
  <2> QED
    BY <2>1
<1>2. ~Tame /\ ~ \E k \in Chunks : Prepare(k)
  <2>1. ASSUME NEW k \in Chunks, Prepare(k)
        PROVE  UNCHANGED rounds
    BY <2>1, PrepareClaims DEF Claim, saleVars
  <2>2. rounds'[c] \in Int
    <3>1. IInv'
      BY NextChunkInv DEF ChunkInv
    <3> QED
      BY <3>1, BoundAssumption DEF IInv, TypeOK
  <2> QED
    BY <1>1, <2>1, <2>2 DEF Tame, DeliversNothing
<1>3. PICK k \in Chunks : Finish(k)
  BY <1>2, NextCases
<1>4. /\ pc[k] = "settle" /\ pc'[k] = "done"
  BY <1>3, FinishSettles DEF ChunkInv, ChunkTypeOK
<1>5. kind[k] = "after_sale" /\ Current(c) \subseteq currentIds[k]
  BY <1>1, <1>3, FinishSettles, SettleFrom, AfterSaleFrom
<1> QED
  BY <1>4, <1>5

\* Of two after-sales of one code that run at the same time, the slower never
\* replaces what the faster has just delivered.
THEOREM ReplacesOnlySeen == ChunkSpec => ReplacesWhatItSaw
<1>1. ChunkInv /\ [ChunkNext]_allVars =>
        [~skipProbe => \A c \in Codes : rounds[c] > 0 /\ rounds'[c] > rounds[c] =>
          \E k \in Chunks : /\ pc[k] = "settle" /\ pc'[k] = "done" /\ kind[k] = "after_sale"
                            /\ Current(c) \subseteq currentIds[k]]_allVars
  BY NextReplaces
<1> QED
  BY <1>1, ChunkInvariant, PTL DEF ChunkSpec, ReplacesWhatItSaw

LEMMA NextRespects ==
  ASSUME ChunkInv, [ChunkNext]_allVars, NEW a \in Accounts,
         resv[a] # None, resv'[a] \notin {None, resv[a]}
  PROVE  Lapsed(a)
<1>1. ~Tame /\ ~ \E k \in Chunks : Finish(k)
  BY FinishSettles, SettleHolds DEF Tame, KeepsHolds, ChunkInv
<1>2. PICK k \in Chunks : Prepare(k)
  BY <1>1, NextCases
<1>3. PICK D \in SUBSET Codes, r \in Reservations \cup {None},
           S \in SUBSET {x \in Accounts : Claimable(x)} : Claim(r, S, D)
  BY <1>2, PrepareClaims
<1>4. a \in S
  BY <1>3 DEF Claim
<1> QED
  BY <1>4 DEF Claimable

\* A live reservation is never overridden.
THEOREM LiveHoldsKept == ChunkSpec => LiveHoldsRespected
<1>1. ChunkInv /\ [ChunkNext]_allVars =>
        [\A a \in Accounts : resv[a] # None /\ resv'[a] \notin {None, resv[a]} => Lapsed(a)]_allVars
  BY NextRespects
<1> QED
  BY <1>1, ChunkInvariant, PTL DEF ChunkSpec, LiveHoldsRespected

-----------------------------------------------------------------------------
(* Chunks and what runs beside them do nothing to the database but its      *)
(* transactions, so that what RedeemStore guarantees holds under them, from *)
(* a stocked database on.                                                   *)

LEMMA BeatTransacts ==
  ASSUME ChunkInv, NEW k \in Chunks, Beat(k) \/ (rid[k] # None /\ Release(rid[k]))
  PROVE  [Transaction]_vars
<1>1. rid[k] \in Reservations \cup {None}
  BY DEF ChunkInv, ChunkTypeOK
<1> QED
  BY <1>1 DEF Beat, Transaction, CallerRequests

LEMMA WorksTransact ==
  ASSUME ChunkInv, NEW k \in Chunks, Works(k)
  PROVE  [Transaction]_vars
<1>1. CASE Begin(k) \/ ReleaseAfterError(k) \/ \E a \in Accounts : Collect(k, a)
  BY <1>1, BeatTransacts DEF Begin, ReleaseAfterError, Collect
<1>2. CASE LoadRefresh(k) \/ LoadProbe(k) \/ Fail(k) \/ Lost(k)
  BY <1>2 DEF LoadRefresh, LoadProbe, Launch, Fail, Lost
<1>3. ASSUME NEW a \in Accounts,
             RefreshTask(k, a) \/ ProbeStores(k, a) \/ ProbeRecords(k, a) \/ ProbeErrs(k, a)
      PROVE  [Transaction]_vars
  <2>1. \/ UNCHANGED vars
        \/ \E s \in AccountStatus, t \in {"usable", "stale"} : StoreAuth(a, s, t)
        \/ \E t \in {"usable", "stale"} : StoreRedeemedAuth(a, t)
        \/ \E s \in AccountStatus : SetStatus(a, s)
    BY <1>3, OutcomeAssumption
    DEF RefreshTask, ProbeStores, ProbeRecords, ProbeErrs, OrNothing, AccountStatus
  <2> QED
    BY <2>1 DEF Transaction, CallerWrites
<1> QED
  BY <1>1, <1>2, <1>3 DEF Works

LEMMA PrepareTransacts ==
  ASSUME ChunkInv, NEW k \in Chunks, Prepare(k)
  PROVE  Transaction
<1>1. PICK kd \in Kinds, cs \in SUBSET Codes, r \in Reservations \cup {None},
           S \in SUBSET {a \in Accounts : Claimable(a)} :
              PrepareRedeem(r, S, cs) \/ PrepareAfterSale(r, S, cs)
  BY DEF Prepare
<1> QED
  BY <1>1 DEF Transaction, CallerRequests

LEMMA FinishTransacts ==
  ASSUME ChunkInv, NEW k \in Chunks, Finish(k)
  PROVE  Transaction
<1>1. /\ want[k] \in SUBSET Codes
      /\ rid[k] \in Reservations \cup {None}
      /\ rid[k] \in minted \cup {None}
      /\ probeIds[k] \in SUBSET Accounts /\ currentIds[k] \in SUBSET Accounts
  BY DEF ChunkInv, ChunkTypeOK, OwnReservation
<1> DEFINE V == IF skipProbe THEN Accounts ELSE probeIds[k]
           verified == IF skipProbe THEN Accounts ELSE currentIds[k]
<1>2. V \in SUBSET Accounts /\ verified \in SUBSET Accounts
  BY <1>1
<1>3. IF kind[k] = "redeem" THEN Settle(rid[k], V, want[k])
                            ELSE SettleAfterSale(rid[k], verified, V, want[k])
  BY Zenon DEF Finish
<1> HIDE DEF V, verified
<1> QED
  BY <1>1, <1>2, <1>3 DEF Transaction, CallerRequests

LEMMA OutsideTransacts ==
  ASSUME Outside(Interference) \/ TimePasses
  PROVE  Transaction
<1>1. CASE \E a \in Accounts :
             \/ \E p \in Pools, s \in AccountStatus, t \in {"usable", "stale"} :
                   Import(a, p, s, t)
             \/ DeleteUnbound(a)
             \/ \E s \in Outcomes : SetStatus(a, s)
             \/ \E s \in Outcomes, t \in {"usable", "stale"} : StoreAuth(a, s, t)
  BY <1>1, OutcomeAssumption DEF Transaction, CallerWrites
<1>2. CASE \/ \E b \in Batches :
                \/ DeleteBatch(b)
                \/ \E s \in {"active", "disabled"}, n \in 1 .. MaxPerCode,
                      l \in 0 .. MaxAfterSale, e \in BOOLEAN : UpdateBatch(b, s, n, l, e)
           \/ \E c \in Codes, s \in {"active", "disabled"} : SetCodeStatus(c, s)
  BY <1>2 DEF Transaction, Administration
<1>3. CASE Tick \/ (\E a \in Accounts : TokenAges(a)) \/ \E b \in Batches : BatchExpires(b)
  BY <1>3 DEF Transaction, Clock
<1> QED
  BY <1>1, <1>2, <1>3 DEF Outside, TimePasses

LEMMA StepTransacts == ChunkInv /\ [ChunkNext]_allVars => [Transaction]_vars
BY PrepareTransacts, WorksTransact, FinishTransacts, OutsideTransacts
DEF ChunkNext, Step, Works, allVars

\* Every step of the chunks, their tasks and the administrator is one
\* transaction of the store or leaves the database alone.
THEOREM ChunksTransact == ChunkSpec => [][Transaction]_vars
BY ChunkInvariant, StepTransacts, PTL DEF ChunkSpec

\* The counters of a stocked database are right and its deliveries whole.
LEMMA StockedSaleInv == ChunkInit => SaleInv
<1> SUFFICES ASSUME ChunkInit PROVE SaleInv
  OBVIOUS
<1>1. IInv
  BY InitChunkInv DEF ChunkInv
<1>2. PICK owner \in [Accounts -> Codes \cup {None}] :
        /\ \A c \in Codes : Cardinality({a \in Accounts : owner[a] = c}) \in {0, Need(c)}
        /\ issued = [c \in Codes |-> [n \in Rounds |->
                        {a \in Accounts : n = 1 /\ owner[a] = c}]]
        /\ rounds = [c \in Codes |-> IF \E a \in Accounts : owner[a] = c THEN 1 ELSE 0]
        /\ codeStatus = [c \in Codes |-> IF rounds[c] = 1 THEN "redeemed" ELSE "active"]
        /\ redeemedCount = [b \in Batches |->
                               Cardinality({c \in Codes : BatchOf[c] = b /\ rounds[c] = 1})]
        /\ batchStatus = [b \in Batches |-> "active"]
  BY DEF ChunkInit, StockedInit
<1>3. \A c \in Codes : rounds[c] \in {0, 1}
  BY <1>2
<1>4. CountsAgree
  <2>1. \A b : Sold(b) = {c \in Codes : BatchOf[c] = b /\ rounds[c] = 1}
    BY <1>3 DEF Sold
  <2>2. \A b \in Batches : redeemedCount[b] = Cardinality(Sold(b))
    BY <1>2, <2>1
  <2>3. \A c \in Codes : codeStatus[c] = "redeemed" <=> rounds[c] > 0
    BY <1>2, <1>3
  <2> QED
    BY <2>2, <2>3, CountsSpelled
<1>5. WholeDeliveries
  <2> SUFFICES ASSUME NEW c \in Codes, NEW n \in 1 .. rounds[c]
               PROVE  Cardinality(issued[c][n]) = Need(c)
    BY DEF WholeDeliveries
  <2>1. n = 1 /\ rounds[c] = 1 /\ n \in Rounds
    BY <1>3, BoundAssumption DEF Rounds
  <2>2. PICK a \in Accounts : owner[a] = c
    BY <1>2, <2>1
  <2> DEFINE got == {x \in Accounts : owner[x] = c}
  <2>3. issued[c][n] = got
    BY <1>2, <2>1
  <2>4. a \in got /\ IsFiniteSet(got)
    BY <2>2, FiniteAssumption, FS_Subset
  <2>5. Cardinality(got) # 0
    BY <2>4, FS_EmptySet
  <2>6. Cardinality(got) \in {0, Need(c)}
    BY <1>2
  <2> QED
    BY <2>3, <2>5, <2>6
<1>6. RedeemedInBatch
  BY <1>2, CatalogAssumption DEF RedeemedInBatch, Exists
<1> QED
  BY <1>1, <1>4, <1>5, <1>6 DEF SaleInv

\* Counters, code states and deliveries stay in step under concurrent chunks.
THEOREM ChunksKeepSales == ChunkSpec => []SaleInv
BY StockedSaleInv, NextSaleInv, ChunksTransact, PTL DEF ChunkSpec

\* redeemed_count and the status of codes stay right while chunks settle beside
\* each other and beside the deletion of their batches.
THEOREM ChunksCountRight == ChunkSpec => []CountsAgree
<1>1. SaleInv => CountsAgree
  BY DEF SaleInv
<1> QED
  BY <1>1, ChunksKeepSales, PTL

\* No chunk delivers less or more than its batch says, whatever becomes of the
\* accounts and batches between its selection and its settle.
THEOREM ChunksDeliverWhole == ChunkSpec => []WholeDeliveries
<1>1. SaleInv => WholeDeliveries
  BY DEF SaleInv
<1> QED
  BY <1>1, ChunksKeepSales, PTL

\* No chunk, task or refresh takes a delivered account from its customer.
THEOREM ChunksLeaveDelivered == ChunkSpec => BindingStable
<1>1. IInv /\ [Transaction]_vars =>
        [\A a \in Accounts : binding[a] # None /\ binding'[a] # binding[a] =>
           \/ row'[a] = "deleted"
           \/ batchStatus'[BatchOf[binding[a][1]]] = "deleted"]_vars
  BY NextKeeps DEF KeepsOrGoes
<1>2. ChunkInv => IInv
  BY DEF ChunkInv
<1> QED
  BY <1>1, <1>2, ChunkInvariant, ChunksTransact, PTL DEF BindingStable

\* What a chunk hands out is usable at that moment, although it selected and
\* probed the accounts in earlier transactions.
THEOREM ChunksDeliverUsable == ChunkSpec => DeliveriesUsable
<1>1. IInv /\ [Transaction]_vars =>
        [\A a \in Accounts : binding[a] = None /\ binding'[a] # None =>
           /\ row[a] = "live" /\ status[a] = "available" /\ token[a] = "usable"
           /\ pool[a] = CodePool(binding'[a][1])
           /\ Open(binding'[a][1])]_vars
  BY NextBindsWell DEF BoundWell
<1>2. ChunkInv => IInv
  BY DEF ChunkInv
<1> QED
  BY <1>1, <1>2, ChunkInvariant, ChunksTransact, PTL DEF DeliveriesUsable

\* A chunk replaces only accounts that have failed by the time it settles, and
\* within the limit the batch has then.
THEOREM ChunksReplaceFailed == ChunkSpec => ReissueOnlyFailed
<1>1. IInv /\ [Transaction]_vars =>
        [\A c \in Codes : rounds[c] > 0 /\ rounds'[c] > rounds[c] =>
          /\ \A a \in Current(c) : status[a] \in Deletable /\ binding'[a] = <<c, rounds[c]>>
          /\ afterSales'[c] <= limit[BatchOf[c]]]_vars
  BY NextReplacesFailed DEF ReplacesFailed
<1>2. ChunkInv => IInv
  BY DEF ChunkInv
<1> QED
  BY <1>1, <1>2, ChunkInvariant, ChunksTransact, PTL DEF ReissueOnlyFailed

\* To the ledger, chunks are the store: each of their steps is an arrival, a
\* withdrawal, a deal or a recall, or nothing.
THEOREM ChunksKeepLedger == ChunkSpec => [][Ledger!LNext]_(Ledger!lvars)
<1>1. ChunkInv => IInv
  BY DEF ChunkInv
<1> QED
  BY <1>1, NextMaps, ChunkInvariant, ChunksTransact, PTL
=============================================================================
