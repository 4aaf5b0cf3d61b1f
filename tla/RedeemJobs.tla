----------------------------- MODULE RedeemJobs -----------------------------
(***************************************************************************)
(* The queue of asynchronous redeem jobs in backend/src/main.rs: admission *)
(* with limits in all and per client, the polling for a run slot, the      *)
(* chunks with the progress shown to the client, and the pruning of        *)
(* finished jobs.  The table redeem_jobs is behind one mutex, and every    *)
(* time the code takes it is an action.                                    *)
(*                                                                         *)
(* What is abstracted: what a chunk does (RedeemChunk) is the network work *)
(* it announces, the results it collects and whether it fails; a job id is *)
(* used again for a new job once the table has dropped it, where the code  *)
(* makes a new uuid; seconds are ticks; the positions shown are left out.  *)
(***************************************************************************)
EXTENDS Integers, FiniteSets

CONSTANTS
    Jobs,                \* job ids
    Clients,             \* client keys
    ClientOf,            \* the client that submits a job
    MaxActive,           \* AETHER_POOL_MAX_ACTIVE_REDEEM_JOBS
    MaxActivePerClient,  \* AETHER_POOL_MAX_ACTIVE_REDEEM_JOBS_PER_CLIENT
    MaxQueued,           \* AETHER_POOL_MAX_QUEUED_REDEEM_JOBS
    MaxQueuedPerClient,  \* AETHER_POOL_MAX_QUEUED_REDEEM_JOBS_PER_CLIENT
    MaxCompleted,        \* MAX_COMPLETED_REDEEM_JOBS
    Retention,           \* ticks in REDEEM_JOB_RETENTION_SECONDS
    ChunkSize,           \* AETHER_POOL_REDEEM_JOB_CHUNK_SIZE
    MaxCodes,            \* bound of the codes of each job (10,000 in the code)
    MaxNetwork           \* bound of the network tasks of a chunk of each job

\* The clamps of max_active_redeem_jobs and its siblings.
ASSUME LimitAssumption ==
    /\ IsFiniteSet(Jobs)
    /\ ClientOf \in [Jobs -> Clients]
    /\ MaxActive \in Nat \ {0} /\ MaxActivePerClient \in 1 .. MaxActive
    /\ MaxQueued \in Nat /\ MaxQueued >= MaxActive
    /\ MaxQueuedPerClient \in MaxActivePerClient .. MaxQueued
    /\ MaxCompleted \in Nat /\ Retention \in Nat
    /\ ChunkSize \in Nat \ {0}
    /\ MaxCodes \in [Jobs -> Nat \ {0}] /\ MaxNetwork \in [Jobs -> Nat]

VARIABLES
    stage,     \* where the request handler, later the job's task, is
    status,    \* status of the table entry, "absent" without one
    age,       \* ticks since finished_at, at most Retention + 1
    total,     \* total_codes
    processed, \* processed_codes
    codesFrom, \* active_codes_start
    codesOf,   \* active_codes_total
    netTotal,  \* network_total
    netDone,   \* network_done
    netFrom,   \* active_network_start
    netOf,     \* active_network_total
    answered,  \* codes in all_successes and all_failures, kept by the task
    awaited    \* network results the running chunk has still to collect

counters == <<total, processed, codesFrom, codesOf, netTotal, netDone, netFrom, netOf>>
taskVars == <<answered, awaited>>
jvars == <<stage, status, age, counters, taskVars>>

Working == {"started", "between", "chunk", "network", "finishing"}

JobTypeOK ==
    /\ stage \in [Jobs -> {"none", "pruned", "checked", "waiting", "over"} \cup Working]
    /\ status \in [Jobs -> {"absent", "queued", "running", "completed"}]
    /\ age \in [Jobs -> 0 .. Retention + 1]
    /\ \A v \in {total, processed, codesFrom, codesOf, netTotal, netDone, netFrom, netOf,
                 answered, awaited} : v \in [Jobs -> Nat]

JobInit ==
    /\ stage = [j \in Jobs |-> "none"]
    /\ status = [j \in Jobs |-> "absent"]
    /\ age = [j \in Jobs |-> 0]
    /\ total = [j \in Jobs |-> 0]
    /\ processed = [j \in Jobs |-> 0]
    /\ codesFrom = [j \in Jobs |-> 0]
    /\ codesOf = [j \in Jobs |-> 0]
    /\ netTotal = [j \in Jobs |-> 0]
    /\ netDone = [j \in Jobs |-> 0]
    /\ netFrom = [j \in Jobs |-> 0]
    /\ netOf = [j \in Jobs |-> 0]
    /\ answered = [j \in Jobs |-> 0]
    /\ awaited = [j \in Jobs |-> 0]

Lesser(m, n) == IF m < n THEN m ELSE n

-----------------------------------------------------------------------------
(* redeem_job_counts.                                                       *)

OfClient(S, c) == {j \in S : ClientOf[j] = c}

Active == {j \in Jobs : status[j] \in {"queued", "running"}}

Running == {j \in Jobs : status[j] = "running"}

Completed == {j \in Jobs : status[j] = "completed"}

HasRoom(c) ==
    /\ Cardinality(OfClient(Active, c)) < MaxQueuedPerClient
    /\ Cardinality(Active) < MaxQueued

\* Mutant: slots are counted in all only.
CanStartAny(c) == Cardinality(Running) < MaxActive /\ c \in Clients

CanStart(c) ==
    /\ Cardinality(Running) < MaxActive
    /\ Cardinality(OfClient(Running, c)) < MaxActivePerClient

-----------------------------------------------------------------------------
(* prune_redeem_jobs, from the worker and from every submission.            *)

\* Mutant: the newest go.
PrunableNewest(G) ==
    LET kept == {j \in Completed : age[j] <= Retention}
        late == G \cap kept
    IN /\ Completed \ kept \subseteq G
       /\ Cardinality(late) = Cardinality(kept) - Lesser(MaxCompleted, Cardinality(kept))
       /\ \A j \in late, k \in kept \ late : age[j] <= age[k]

\* The finished jobs that go: those past the retention, then, of the rest,
\* the oldest beyond MaxCompleted; jobs of one age in any order.
Prunable(G) ==
    LET kept == {j \in Completed : age[j] <= Retention}
        late == G \cap kept
    IN /\ G \subseteq Completed
       /\ Completed \ kept \subseteq G
       /\ Cardinality(late) = Cardinality(kept) - Lesser(MaxCompleted, Cardinality(kept))
       /\ \A j \in late, k \in kept \ late : age[j] >= age[k]

Without(G, f) == [j \in Jobs |-> IF j \in G THEN 0 ELSE f[j]]

Drop(G) ==
    /\ status' = [j \in Jobs |-> IF j \in G THEN "absent" ELSE status[j]]
    /\ age' = Without(G, age)
    /\ total' = Without(G, total)
    /\ processed' = Without(G, processed)
    /\ codesFrom' = Without(G, codesFrom)
    /\ codesOf' = Without(G, codesOf)
    /\ netTotal' = Without(G, netTotal)
    /\ netDone' = Without(G, netDone)
    /\ netFrom' = Without(G, netFrom)
    /\ netOf' = Without(G, netOf)

Prune ==
    \E G \in SUBSET Completed :
        /\ Prunable(G)
        /\ Drop(G)
        /\ stage' = [j \in Jobs |-> IF j \in G THEN "none" ELSE stage[j]]
        /\ UNCHANGED taskVars

-----------------------------------------------------------------------------
(* start_redeem_job.                                                        *)

Submit(j) ==
    /\ stage[j] = "none" /\ status[j] = "absent"
    /\ \E G \in SUBSET Completed :
          /\ Prunable(G)
          /\ Drop(G)
          /\ stage' = [k \in Jobs |-> IF k = j THEN "pruned"
                                      ELSE IF k \in G THEN "none" ELSE stage[k]]
    /\ UNCHANGED taskVars

\* ensure_redeem_queue_capacity; the estimate that follows may refuse too.
Check(j) ==
    /\ stage[j] = "pruned"
    /\ \/ HasRoom(ClientOf[j]) /\ stage' = [stage EXCEPT ![j] = "checked"]
       \/ stage' = [stage EXCEPT ![j] = "none"]
    /\ UNCHANGED <<status, age, counters, taskVars>>

\* Mutant: the first check is trusted.
InsertUnchecked(j) ==
    /\ stage[j] = "checked"
    /\ stage' = [stage EXCEPT ![j] = "waiting"]
    /\ status' = [status EXCEPT ![j] = "queued"]
    /\ total' = [total EXCEPT ![j] = 1]
    /\ UNCHANGED <<age, processed, codesFrom, codesOf, netTotal, netDone, netFrom, netOf,
                   taskVars>>

Insert(j) ==
    /\ stage[j] = "checked"
    /\ IF HasRoom(ClientOf[j])
       THEN /\ stage' = [stage EXCEPT ![j] = "waiting"]
            /\ status' = [status EXCEPT ![j] = "queued"]
            /\ \E n \in 1 .. MaxCodes[j] : total' = [total EXCEPT ![j] = n]
       ELSE stage' = [stage EXCEPT ![j] = "none"] /\ UNCHANGED <<status, total>>
    /\ UNCHANGED <<age, processed, codesFrom, codesOf, netTotal, netDone, netFrom, netOf,
                   taskVars>>

-----------------------------------------------------------------------------
(* run_redeem_job.                                                          *)

\* wait_for_redeem_run_slot; a poll that finds no slot changes nothing here.
Start(j) ==
    /\ stage[j] = "waiting"
    /\ CanStart(ClientOf[j])
    /\ status' = [status EXCEPT ![j] = "running"]
    /\ stage' = [stage EXCEPT ![j] = "started"]
    /\ UNCHANGED <<age, counters, taskVars>>

\* Malformed and repeated codes are answered before the first chunk.
Normalise(j) ==
    /\ stage[j] = "started"
    /\ \E n \in 0 .. total[j] : /\ answered' = [answered EXCEPT ![j] = n]
                                /\ processed' = [processed EXCEPT ![j] = n]
    /\ stage' = [stage EXCEPT ![j] = "between"]
    /\ UNCHANGED <<status, age, total, codesFrom, codesOf, netTotal, netDone, netFrom, netOf,
                   awaited>>

ChunkOf(j) == Lesser(ChunkSize, total[j] - answered[j])

BeginChunk(j) ==
    /\ stage[j] = "between" /\ answered[j] < total[j]
    /\ processed' = [processed EXCEPT ![j] = Lesser(answered[j], total[j])]
    /\ codesFrom' = [codesFrom EXCEPT ![j] = Lesser(answered[j], total[j])]
    /\ codesOf' = [codesOf EXCEPT ![j] = ChunkOf(j)]
    /\ netFrom' = [netFrom EXCEPT ![j] = netDone[j]]
    /\ netOf' = [netOf EXCEPT ![j] = 0]
    /\ stage' = [stage EXCEPT ![j] = "chunk"]
    /\ UNCHANGED <<status, age, total, netTotal, netDone, taskVars>>

\* add_network_total: a chunk announces its refreshes and probes once.
Announce(j, n) ==
    /\ stage[j] = "chunk"
    /\ netTotal' = [netTotal EXCEPT ![j] = @ + n]
    /\ netOf' = [netOf EXCEPT ![j] = @ + n]
    /\ awaited' = [awaited EXCEPT ![j] = n]
    /\ stage' = [stage EXCEPT ![j] = "network"]
    /\ UNCHANGED <<status, age, total, processed, codesFrom, codesOf, netDone, netFrom, answered>>

\* Mutant: results are counted that nobody announced.
ResultUnannounced(j) ==
    /\ stage[j] = "network"
    /\ netDone' = [netDone EXCEPT ![j] = Lesser(@ + 1, netTotal[j])]
    /\ awaited' = [awaited EXCEPT ![j] = @ - 1]
    /\ UNCHANGED <<stage, status, age, total, processed, codesFrom, codesOf, netTotal, netFrom,
                   netOf, answered>>

\* increment_network_done.
Result(j) ==
    /\ stage[j] = "network" /\ awaited[j] > 0
    /\ netDone' = [netDone EXCEPT ![j] = Lesser(@ + 1, netTotal[j])]
    /\ awaited' = [awaited EXCEPT ![j] = @ - 1]
    /\ UNCHANGED <<stage, status, age, total, processed, codesFrom, codesOf, netTotal, netFrom,
                   netOf, answered>>

\* The chunk is through, with fewer results than announced if some accounts
\* were gone when it loaded them.
EndChunk(j) ==
    LET next == Lesser(answered[j] + ChunkOf(j), total[j])
    IN /\ stage[j] \in {"chunk", "network"}
       /\ answered' = [answered EXCEPT ![j] = @ + ChunkOf(j)]
       /\ processed' = [processed EXCEPT ![j] = next]
       /\ codesFrom' = [codesFrom EXCEPT ![j] = next]
       /\ codesOf' = [codesOf EXCEPT ![j] = 0]
       /\ netFrom' = [netFrom EXCEPT ![j] = netDone[j]]
       /\ netOf' = [netOf EXCEPT ![j] = 0]
       /\ awaited' = [awaited EXCEPT ![j] = 0]
       /\ stage' = [stage EXCEPT ![j] = "between"]
       /\ UNCHANGED <<status, age, total, netTotal, netDone>>

Complete(j) ==
    /\ status' = [status EXCEPT ![j] = "completed"]
    /\ processed' = [processed EXCEPT ![j] = total[j]]
    /\ codesFrom' = [codesFrom EXCEPT ![j] = total[j]]
    /\ codesOf' = [codesOf EXCEPT ![j] = 0]
    /\ netFrom' = [netFrom EXCEPT ![j] = netDone[j]]
    /\ netOf' = [netOf EXCEPT ![j] = 0]
    /\ age' = [age EXCEPT ![j] = 0]
    /\ answered' = [answered EXCEPT ![j] = 0]
    /\ awaited' = [awaited EXCEPT ![j] = 0]
    /\ stage' = [stage EXCEPT ![j] = "over"]
    /\ UNCHANGED <<total, netTotal, netDone>>

\* Mutants: the task of a job whose chunk errs just ends; or it leaves the
\* counters as they are.
AbortSilently(j) ==
    /\ stage[j] \in {"chunk", "network"}
    /\ stage' = [stage EXCEPT ![j] = "over"]
    /\ UNCHANGED <<status, age, counters, taskVars>>
AbortUncounted(j) ==
    /\ stage[j] \in {"chunk", "network"}
    /\ stage' = [stage EXCEPT ![j] = "over"]
    /\ status' = [status EXCEPT ![j] = "completed"]
    /\ UNCHANGED <<age, counters, taskVars>>

\* A chunk that errs fails all codes that are left, and the job is over.
AbortChunk(j) == stage[j] \in {"chunk", "network"} /\ Complete(j)

\* complete_network, before the export is put together.
FinishNetwork(j) ==
    /\ stage[j] = "between" /\ answered[j] >= total[j]
    /\ netDone' = [netDone EXCEPT ![j] = netTotal[j]]
    /\ stage' = [stage EXCEPT ![j] = "finishing"]
    /\ UNCHANGED <<status, age, total, processed, codesFrom, codesOf, netTotal, netFrom, netOf,
                   taskVars>>

FinishJob(j) == stage[j] = "finishing" /\ Complete(j)

-----------------------------------------------------------------------------

Tick ==
    /\ \E j \in Completed : age[j] <= Retention
    /\ age' = [j \in Jobs |-> IF j \in Completed THEN Lesser(age[j] + 1, Retention + 1)
                                                 ELSE age[j]]
    /\ UNCHANGED <<stage, status, counters, taskVars>>

Task(j) ==
    \/ Start(j) \/ Normalise(j) \/ BeginChunk(j) \/ Result(j) \/ EndChunk(j)
    \/ AbortChunk(j) \/ FinishNetwork(j) \/ FinishJob(j)
    \/ \E n \in 1 .. MaxNetwork[j] : Announce(j, n)

JobNext ==
    \/ \E j \in Jobs : Submit(j) \/ Check(j) \/ Insert(j) \/ Task(j)
    \/ Prune
    \/ Tick

JobSpec == JobInit /\ [][JobNext]_jvars

\* A spawned job keeps polling and working, and its chunks end (RedeemChunk);
\* clients need not submit anything.
FairJobSpec == JobSpec /\ \A j \in Jobs : WF_jvars(Task(j))

-----------------------------------------------------------------------------
(* Properties.                                                              *)

\* redeem_job_progress_processed_codes: the codes shown as processed, counting
\* the running chunk by the share of its network work that is done.
Shown(j) ==
    IF status[j] # "running" \/ codesOf[j] = 0 \/ netOf[j] = 0 THEN processed[j]
    ELSE LET done == Lesser(netDone[j] - netFrom[j], netOf[j])
             some == codesFrom[j] + (codesOf[j] * done) \div netOf[j]
         IN Lesser(IF some > processed[j] THEN some ELSE processed[j], total[j])

\* The table never holds more active jobs than the queue limits allow, in all
\* and of any client, although requests are checked before they are inserted
\* and wait for the database in between; nor more running ones than slots, so
\* that one client never takes more than its share of them.
LimitsHold ==
    /\ Cardinality(Active) <= MaxQueued
    /\ Cardinality(Running) <= MaxActive
    /\ \A c \in Clients : /\ Cardinality(OfClient(Active, c)) <= MaxQueuedPerClient
                          /\ Cardinality(OfClient(Running, c)) <= MaxActivePerClient

\* The task of a job always finds its entry in the table, in the status that
\* fits: no pruning takes away a job that waits or runs, no job runs twice and
\* none stays "running" when its task is over.
TasksHaveEntries ==
    \A j \in Jobs : /\ stage[j] = "waiting" <=> status[j] = "queued"
                    /\ stage[j] \in Working <=> status[j] = "running"
                    /\ stage[j] = "over" <=> status[j] = "completed"

\* A job that leaves the table was finished, and was either past the retention
\* or older than MaxCompleted finished jobs that stay: a client that polls for
\* its result does not lose it to a job that finished before its own.
PrunesOldestOnly ==
    [][\A j \in Jobs : status[j] # "absent" /\ status'[j] = "absent" =>
          /\ status[j] = "completed"
          /\ \/ age[j] > Retention
             \/ Cardinality({k \in Completed : status'[k] = "completed" /\ age[k] <= age[j]})
                  >= MaxCompleted]_jvars

\* What a client sees as processed never goes back and never exceeds the total,
\* over all chunks, failed chunks and network results.
ProgressForward ==
    [][\A j \in Jobs : status[j] = "running" =>
          Shown(j) <= Shown(j)' /\ Shown(j)' <= total[j]]_jvars

\* A client with a queued job gets a job running in the end, whatever the other
\* clients submit: with slots for more than one client's share, one source
\* cannot keep the others out.
ClientsServed ==
    \A c \in Clients :
        (\E j \in OfClient(Jobs, c) : status[j] = "queued")
            ~> (\E j \in OfClient(Jobs, c) : status[j] = "running")

\* A job that runs is completed in the end, also if its chunks fail.
RunsComplete == \A j \in Jobs : status[j] = "running" ~> status[j] = "completed"
=============================================================================
