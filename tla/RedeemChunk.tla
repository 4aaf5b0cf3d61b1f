---------------------------- MODULE RedeemChunk ----------------------------
(***************************************************************************)
(* run_redeem_export_chunk and run_redeem_after_sale_chunk of              *)
(* backend/src/main.rs: one pass over some codes, as several of them run   *)
(* beside each other and beside the administrator.  A chunk reserves       *)
(* accounts, refreshes and probes them over the network with no            *)
(* transaction open, and settles in a last transaction, which takes what   *)
(* the database says then.                                                 *)
(*                                                                         *)
(* What is abstracted: a refresh or probe task is its writes (the HTTP     *)
(* calls are their outcomes); the limits of validate_redeem_export_limits  *)
(* are a possible error; the number of tasks in flight is not limited.     *)
(***************************************************************************)
EXTENDS RedeemStore

CONSTANTS
    Chunks,        \* chunk executions; each runs once
    Kinds,         \* the requests clients send: "redeem", "after_sale"
    StockTokens,   \* tokens of the accounts at the start: "usable", "stale"
    SkipModes,     \* values AETHER_POOL_SKIP_REDEEM_PROBE may have: TRUE, FALSE
    DeepCheck,     \* deep_check_enabled of the probe settings
    Interference   \* what happens outside the chunks: see Outside

ASSUME SwitchAssumption ==
    /\ Kinds \subseteq {"redeem", "after_sale"}
    /\ StockTokens \subseteq {"usable", "stale"}
    /\ SkipModes \subseteq BOOLEAN
    /\ DeepCheck \in BOOLEAN
    /\ Interference \subseteq {"import", "delete", "probe", "refresh", "batches", "codes"}

VARIABLES
    skipProbe,  \* state.skip_redeem_probe, read when the server starts
    pc,         \* where the chunk is
    kind,       \* "redeem" or "after_sale"
    want,       \* the codes it was given
    rid,        \* preparation.reservation_id
    refreshIds, \* preparation.refresh_account_ids
    probeIds,   \* preparation.probe_account_ids (after-sale: the replacement_ ones)
    currentIds, \* preparation.current_probe_account_ids
    work,       \* state of the chunk's network task for each account
    sold        \* accounts whose loaded summary has redeemed_at set

chunkVars == <<pc, kind, want, rid, refreshIds, probeIds, currentIds, work, sold>>
allVars == <<vars, skipProbe, chunkVars>>

Ended == {"done", "failed", "leaked", "lost"}

ChunkTypeOK ==
    /\ skipProbe \in BOOLEAN
    /\ pc \in [Chunks -> {"idle", "prepared", "refresh", "refreshing", "probe", "probing",
                          "settle", "failing"} \cup Ended]
    /\ kind \in [Chunks -> {"redeem", "after_sale"}]
    /\ want \in [Chunks -> SUBSET Codes]
    /\ rid \in [Chunks -> Reservations \cup {None}]
    /\ refreshIds \in [Chunks -> SUBSET Accounts]
    /\ probeIds \in [Chunks -> SUBSET Accounts]
    /\ currentIds \in [Chunks -> SUBSET Accounts]
    /\ work \in [Chunks -> [Accounts -> {"none", "running", "stored", "done"}]]
    /\ sold \in [Chunks -> SUBSET Accounts]
    /\ \A k \in Chunks : (\E a \in Accounts : work[k][a] # "none")
                          <=> pc[k] \in {"refreshing", "probing"}

\* A database in which every batch has been created, every account imported
\* and some codes redeemed, by now perhaps with failed accounts: RedeemStore
\* reaches it by imports, creations, settles and probes.
StockedInit ==
    \E owner \in [Accounts -> Codes \cup {None}] :
        /\ perCode \in [Batches -> 1 .. MaxPerCode]
        /\ \A c \in Codes : Cardinality({a \in Accounts : owner[a] = c}) \in {0, Need(c)}
        /\ row = [a \in Accounts |-> "live"]
        /\ pool \in [Accounts -> Pools]
        /\ \A a \in Accounts : owner[a] # None => pool[a] = CodePool(owner[a])
        /\ token \in [Accounts -> StockTokens]
        /\ status \in [Accounts -> Outcomes \cup {"available"}]
        /\ \A a \in Accounts : owner[a] = None => status[a] = "available"
        /\ binding = [a \in Accounts |-> IF owner[a] = None THEN None ELSE <<owner[a], 1>>]
        /\ issued = [c \in Codes |-> [n \in Rounds |->
                        {a \in Accounts : n = 1 /\ owner[a] = c}]]
        /\ rounds = [c \in Codes |-> IF \E a \in Accounts : owner[a] = c THEN 1 ELSE 0]
        /\ codeStatus = [c \in Codes |-> IF rounds[c] = 1 THEN "redeemed" ELSE "active"]
        /\ redeemedCount = [b \in Batches |->
                               Cardinality({c \in Codes : BatchOf[c] = b /\ rounds[c] = 1})]
        /\ resv = [a \in Accounts |-> None]
        /\ age = [a \in Accounts |-> 0]
        /\ minted = {}
        /\ batchStatus = [b \in Batches |-> "active"]
        /\ limit = [b \in Batches |-> MaxAfterSale]
        /\ expired = [b \in Batches |-> FALSE]
        /\ afterSales = [c \in Codes |-> 0]

\* Nothing runs yet; the store is a stocked one.
ChunkInit ==
    /\ StockedInit
    /\ skipProbe \in SkipModes
    /\ pc = [k \in Chunks |-> "idle"]
    /\ kind = [k \in Chunks |-> "redeem"]
    /\ want = [k \in Chunks |-> {}]
    /\ rid = [k \in Chunks |-> None]
    /\ refreshIds = [k \in Chunks |-> {}]
    /\ probeIds = [k \in Chunks |-> {}]
    /\ currentIds = [k \in Chunks |-> {}]
    /\ work = [k \in Chunks |-> [a \in Accounts |-> "none"]]
    /\ sold = [k \in Chunks |-> {}]

-----------------------------------------------------------------------------
(* The chunk.                                                               *)

Goto(k, l) == pc' = [pc EXCEPT ![k] = l]

\* refresh_redeem_reservation_heartbeat: an error is only logged.
Beat(k) ==
    \/ rid[k] # None /\ Heartbeat(rid[k])
    \/ UNCHANGED vars

\* A write that finds no row to change is not an error.
OrNothing(found, Write) == (found /\ Write) \/ (~found /\ UNCHANGED vars)

Prepare(k) ==
    \E kd \in Kinds, cs \in SUBSET Codes \ {{}},
       r \in Reservations \cup {None}, S \in SUBSET {a \in Accounts : Claimable(a)} :
       /\ pc[k] = "idle"
       /\ IF kd = "redeem" THEN PrepareRedeem(r, S, cs) ELSE PrepareAfterSale(r, S, cs)
       /\ kind' = [kind EXCEPT ![k] = kd]
       /\ want' = [want EXCEPT ![k] = cs]
       /\ rid' = [rid EXCEPT ![k] = r]
       /\ refreshIds' = [refreshIds EXCEPT ![k] = {a \in S : ~Fresh(a)}]
       /\ probeIds' = [probeIds EXCEPT ![k] = S]
       /\ currentIds' = [currentIds EXCEPT ![k] =
                           IF kd = "redeem" THEN {}
                           ELSE UNION {Current(c) : c \in AfterSaleDemand(cs)}]
       /\ Goto(k, "prepared")
       /\ UNCHANGED <<work, sold>>

\* The limits hold, the first heartbeat is sent.
Begin(k) ==
    /\ pc[k] = "prepared"
    /\ Beat(k)
    /\ Goto(k, IF skipProbe THEN "settle" ELSE "refresh")
    /\ UNCHANGED <<kind, want, rid, refreshIds, probeIds, currentIds, work, sold>>

\* Mutants: the tasks are not awaited; the wait is for a first result that
\* does not come when there are no tasks.
LaunchDetached(k, ids, busy, next) ==
    /\ work' = [work EXCEPT ![k] = [a \in Accounts |-> IF a \in ids THEN "running" ELSE "none"]]
    /\ Goto(k, next)
    /\ UNCHANGED <<vars, kind, want, rid, refreshIds, probeIds, currentIds>>
LaunchAwaitingOne(k, ids, busy, next) ==
    /\ work' = [work EXCEPT ![k] = [a \in Accounts |-> IF a \in ids THEN "running" ELSE "none"]]
    /\ Goto(k, busy)
    /\ UNCHANGED <<vars, kind, want, rid, refreshIds, probeIds, currentIds>>

\* Start a task for each account of ids, or go on if there is none.
Launch(k, ids, busy, next) ==
    /\ work' = [work EXCEPT ![k] = [a \in Accounts |-> IF a \in ids THEN "running" ELSE "none"]]
    /\ Goto(k, IF ids = {} THEN next ELSE busy)
    /\ UNCHANGED <<vars, kind, want, rid, refreshIds, probeIds, currentIds>>

\* The refreshes load the auth files of the accounts that are unredeemed now.
LoadRefresh(k) ==
    /\ pc[k] = "refresh"
    /\ Launch(k, {a \in refreshIds[k] : Unredeemed(a)}, "refreshing", "probe")
    /\ UNCHANGED sold

Task(k, a, from, to) ==
    /\ work[k][a] \in from
    /\ work' = [work EXCEPT ![k][a] = to]
    /\ UNCHANGED <<pc, kind, want, rid, refreshIds, probeIds, currentIds, sold>>

\* One OAuth refresh: its success is stored only in an unredeemed row, its
\* failure is marked on any row.
RefreshTask(k, a) ==
    /\ pc[k] = "refreshing"
    /\ Task(k, a, {"running"}, "done")
    /\ \/ OrNothing(Unredeemed(a),
                    \E t \in {"usable", "stale"} : StoreAuth(a, "available", t))
       \/ OrNothing(row[a] = "live", SetStatus(a, "refresh_failed"))

\* Redeemed accounts are loaded for an after-sale only.
LoadProbe(k) ==
    LET ids == {a \in probeIds[k] \cup currentIds[k] :
                   row[a] = "live" /\ (kind[k] = "redeem" => binding[a] = None)}
    IN /\ pc[k] = "probe"
       /\ Launch(k, ids, "probing", "settle")
       /\ sold' = [sold EXCEPT ![k] = {a \in ids : DeepCheck /\ binding[a] # None}]

\* persist_refreshed_auth: the deep check of a probe refreshed the tokens.
\* Which of the two updates it calls was decided by the row as loaded.
ProbeStores(k, a) ==
    /\ pc[k] = "probing" /\ DeepCheck
    /\ Task(k, a, {"running"}, "stored")
    /\ \E t \in {"usable", "stale"} :
          IF a \in sold[k]
          THEN OrNothing(row[a] = "live" /\ binding[a] # None, StoreRedeemedAuth(a, t))
          ELSE OrNothing(Unredeemed(a), \E s \in Outcomes : StoreAuth(a, s, t))

ProbeRecords(k, a) ==
    /\ pc[k] = "probing"
    /\ Task(k, a, {"running", "stored"}, "done")
    /\ OrNothing(row[a] = "live", \E s \in Outcomes : SetStatus(a, s))

\* The task errs before it records anything; the chunk goes on regardless.
ProbeErrs(k, a) ==
    /\ pc[k] = "probing"
    /\ Task(k, a, {"running", "stored"}, "done")
    /\ UNCHANGED vars

\* collect_refresh_result and collect_probe_result: a heartbeat per result.
Collect(k, a) ==
    /\ pc[k] \in {"refreshing", "probing"}
    /\ work[k][a] = "done"
    /\ Beat(k)
    /\ work' = [work EXCEPT ![k][a] = "none"]
    /\ IF \A x \in Accounts \ {a} : work[k][x] = "none"
       THEN Goto(k, IF pc[k] = "refreshing" THEN "probe" ELSE "settle")
       ELSE UNCHANGED pc
    /\ UNCHANGED <<kind, want, rid, refreshIds, probeIds, currentIds, sold>>

\* Without probes there is no set of verified accounts to keep to.
Finish(k) ==
    LET verified(ids) == IF skipProbe THEN Accounts ELSE ids
    IN /\ pc[k] = "settle"
       /\ IF kind[k] = "redeem"
          THEN Settle(rid[k], verified(probeIds[k]), want[k])
          ELSE SettleAfterSale(rid[k], verified(currentIds[k]), verified(probeIds[k]), want[k])
       /\ Goto(k, "done")
       /\ UNCHANGED <<kind, want, rid, refreshIds, probeIds, currentIds, work, sold>>

\* Any database or client error of the chunk itself, the error of a refresh
\* task included; tasks still running are dropped.
Fail(k) ==
    /\ pc[k] \in {"prepared", "refresh", "refreshing", "probe", "settle"}
    /\ Goto(k, "failing")
    /\ work' = [work EXCEPT ![k] = [a \in Accounts |-> "none"]]
    /\ UNCHANGED <<vars, kind, want, rid, refreshIds, probeIds, currentIds, sold>>

\* Mutant: the error path forgets the reservation.
FailWithoutRelease(k) ==
    /\ pc[k] = "failing"
    /\ Goto(k, "failed")
    /\ UNCHANGED <<vars, kind, want, rid, refreshIds, probeIds, currentIds, work, sold>>

ReleaseAfterError(k) ==
    /\ pc[k] = "failing"
    /\ \/ /\ IF rid[k] = None THEN UNCHANGED vars ELSE Release(rid[k])
          /\ Goto(k, "failed")
       \/ /\ UNCHANGED vars
          /\ Goto(k, "leaked")
    /\ UNCHANGED <<kind, want, rid, refreshIds, probeIds, currentIds, work, sold>>

\* The process stops, or the client of a synchronous request goes away and
\* the request's future is dropped.
Lost(k) ==
    /\ pc[k] \notin Ended \cup {"idle"}
    /\ Goto(k, "lost")
    /\ work' = [work EXCEPT ![k] = [a \in Accounts |-> "none"]]
    /\ UNCHANGED <<vars, kind, want, rid, refreshIds, probeIds, currentIds, sold>>

-----------------------------------------------------------------------------
(* Everything else that writes the same rows meanwhile.                     *)

Outside(beside) ==
    /\ UNCHANGED chunkVars
    /\ \/ "import" \in beside /\ \E a \in Accounts :
             \/ TokenAges(a)
             \/ \E p \in Pools, s \in AccountStatus, t \in {"usable", "stale"} :
                   Import(a, p, s, t)
       \/ "delete" \in beside /\ \E a \in Accounts : DeleteUnbound(a)
       \/ "probe" \in beside /\ \E a \in Accounts, s \in Outcomes : SetStatus(a, s)
       \/ "refresh" \in beside /\ \E a \in Accounts, s \in Outcomes,
             t \in {"usable", "stale"} : StoreAuth(a, s, t)
       \/ "batches" \in beside /\ \E b \in Batches :
             \/ DeleteBatch(b)
             \/ BatchExpires(b)
             \/ \E s \in {"active", "disabled"}, n \in 1 .. MaxPerCode,
                   l \in 0 .. MaxAfterSale, e \in BOOLEAN : UpdateBatch(b, s, n, l, e)
       \/ "codes" \in beside /\ \E c \in Codes, s \in {"active", "disabled"} :
             SetCodeStatus(c, s)

TimePasses == Tick /\ UNCHANGED chunkVars

Step(k) ==
    \/ Begin(k) \/ LoadRefresh(k) \/ LoadProbe(k) \/ Finish(k) \/ ReleaseAfterError(k)
    \/ \E a \in Accounts : \/ RefreshTask(k, a) \/ ProbeStores(k, a) \/ ProbeRecords(k, a)
                           \/ ProbeErrs(k, a) \/ Collect(k, a)

ChunkNext ==
    /\ UNCHANGED skipProbe
    /\ \/ \E k \in Chunks : Prepare(k) \/ Step(k) \/ Fail(k) \/ Lost(k)
       \/ Outside(Interference)
       \/ TimePasses

ChunkSpec == ChunkInit /\ [][ChunkNext]_allVars

\* Tokio keeps polling a spawned chunk and its tasks, and every HTTP call has
\* a timeout; the clock does not stop.
FairChunkSpec ==
    /\ ChunkSpec
    /\ \A k \in Chunks : WF_allVars(Step(k) /\ UNCHANGED skipProbe)
    /\ WF_allVars(TimePasses /\ UNCHANGED skipProbe)

-----------------------------------------------------------------------------
(* Properties.                                                              *)

\* A chunk that has delivered, or has failed and released, holds no account
\* any more; and what a chunk's reservation holds is what the chunk selected,
\* so that cutting the candidates of a settle to the number demanded before
\* the unverified ones are dropped loses nothing.
HoldsOnlyItsSelection ==
    \A k \in Chunks : rid[k] # None =>
        /\ Held(rid[k]) \subseteq probeIds[k]
        /\ pc[k] \in {"done", "failed"} => Held(rid[k]) = {}

\* A chunk delivers only accounts it selected itself and still holds at that
\* moment, even if it was so slow that its reservation lapsed and others
\* prepared, deleted or imported meanwhile.  Only a chunk that reserved nothing
\* and does not probe takes from the whole stock.
TakesOnlyWhatItHolds ==
    [][\A a \in Accounts : binding[a] = None /\ binding'[a] # None =>
          \E k \in Chunks :
             /\ pc[k] = "settle" /\ pc'[k] = "done"
             /\ \/ a \in probeIds[k] /\ resv[a] = rid[k]
                \/ skipProbe /\ rid[k] = None]_allVars

\* With probing on, a replacement is for the accounts the chunk saw as the
\* code's current ones when it prepared: of two requests that prepared an
\* after-sale of one code at the same time, the slower never replaces what
\* the faster has just delivered.
ReplacesWhatItSaw ==
    [][~skipProbe => \A c \in Codes : rounds[c] > 0 /\ rounds'[c] > rounds[c] =>
          \E k \in Chunks : /\ pc[k] = "settle" /\ pc'[k] = "done" /\ kind[k] = "after_sale"
                            /\ Current(c) \subseteq currentIds[k]]_allVars

\* A reservation is never overridden while it is live: it changes hands only
\* after a full TTL without heartbeat.
LiveHoldsRespected ==
    [][\A a \in Accounts : resv[a] # None /\ resv'[a] \notin {None, resv[a]} => Lapsed(a)]_allVars

\* Every chunk that starts comes to an end, also when its reservation is lost
\* or its rows are deleted while it runs.
ChunksEnd == \A k \in Chunks : pc[k] # "idle" ~> pc[k] \in Ended

\* No account stays reserved for ever: even if the chunk that reserved it is
\* lost or cannot release, it becomes claimable for others again.
ReservationsEnd == \A a \in Accounts : resv[a] # None ~> (resv[a] = None \/ Lapsed(a))
=============================================================================
