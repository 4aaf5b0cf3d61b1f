-------------------------- MODULE RedeemJobsProofs --------------------------
(* Proofs about RedeemJobs, for every number of jobs, clients and slots.    *)
EXTENDS RedeemJobs, FiniteSetTheorems, TLAPS

-----------------------------------------------------------------------------
(* Types and counters.                                                      *)

\* JobTypeOK, spelled out.
JobTypes ==
    /\ stage \in [Jobs -> {"none", "pruned", "checked", "waiting", "over"} \cup Working]
    /\ status \in [Jobs -> {"absent", "queued", "running", "completed"}]
    /\ age \in [Jobs -> 0 .. Retention + 1]
    /\ total \in [Jobs -> Nat] /\ processed \in [Jobs -> Nat]
    /\ codesFrom \in [Jobs -> Nat] /\ codesOf \in [Jobs -> Nat]
    /\ netTotal \in [Jobs -> Nat] /\ netDone \in [Jobs -> Nat]
    /\ netFrom \in [Jobs -> Nat] /\ netOf \in [Jobs -> Nat]
    /\ answered \in [Jobs -> Nat] /\ awaited \in [Jobs -> Nat]

InChunk == {"chunk", "network"}

Counting == {"between", "finishing"} \cup InChunk

\* How the counters of a job, written one group at a time, hang together.
FitsAt(j) ==
    /\ answered[j] <= total[j] /\ processed[j] <= total[j]
    /\ netFrom[j] <= netDone[j] /\ netDone[j] <= netTotal[j]
    /\ stage[j] \notin Working => answered[j] = 0
    /\ stage[j] \notin Counting \cup {"over"} => processed[j] = 0
    /\ stage[j] \in Counting => processed[j] = answered[j]
    /\ stage[j] \in InChunk => /\ answered[j] < total[j]
                               /\ codesFrom[j] = answered[j] /\ codesOf[j] = ChunkOf(j)
    /\ stage[j] \notin InChunk => codesOf[j] = 0
    /\ stage[j] = "chunk" => netOf[j] = 0 /\ netFrom[j] = netDone[j]

CountersFit == \A j \in Jobs : FitsAt(j)

\* JobTypeOK alone is not inductive: that the size of a chunk is a natural
\* number needs CountersFit, and that a dropped entry leaves no task behind
\* TasksHaveEntries.
JobInd == JobTypes /\ TasksHaveEntries /\ CountersFit

LEMMA TypesSpelled == JobTypes <=> JobTypeOK
BY DEF JobTypes, JobTypeOK

LEMMA LesserFacts ==
  ASSUME NEW m \in Nat, NEW n \in Nat
  PROVE  /\ Lesser(m, n) \in Nat
         /\ Lesser(m, n) <= m /\ Lesser(m, n) <= n
         /\ Lesser(m, n) = m \/ Lesser(m, n) = n
BY DEF Lesser

LEMMA InitJobInd == JobInit => JobInd
<1> SUFFICES ASSUME JobInit PROVE JobInd
  OBVIOUS
<1>1. JobTypes
  BY LimitAssumption DEF JobInit, JobTypes
<1>2. TasksHaveEntries
  BY DEF JobInit, TasksHaveEntries, Working
<1>3. CountersFit
  BY DEF JobInit, CountersFit, FitsAt, Working, Counting, InChunk
<1> QED
  BY <1>1, <1>2, <1>3 DEF JobInd

\* The size of the next chunk.
LEMMA ChunkFacts ==
  ASSUME JobTypes, NEW j \in Jobs, answered[j] <= total[j]
  PROVE  /\ ChunkOf(j) \in Nat
         /\ answered[j] + ChunkOf(j) <= total[j]
         /\ Lesser(answered[j] + ChunkOf(j), total[j]) = answered[j] + ChunkOf(j)
         /\ Lesser(answered[j], total[j]) = answered[j]
BY LimitAssumption DEF ChunkOf, Lesser, JobTypes

\* An action that alters one job alters nothing of the others.
LEMMA OneJobInd ==
  ASSUME JobInd, JobTypes', NEW j \in Jobs,
         \A k \in Jobs \ {j} :
            /\ stage'[k] = stage[k] /\ status'[k] = status[k]
            /\ total'[k] = total[k] /\ processed'[k] = processed[k]
            /\ codesFrom'[k] = codesFrom[k] /\ codesOf'[k] = codesOf[k]
            /\ netTotal'[k] = netTotal[k] /\ netDone'[k] = netDone[k]
            /\ netFrom'[k] = netFrom[k] /\ netOf'[k] = netOf[k]
            /\ answered'[k] = answered[k],
         FitsAt(j)',
         /\ stage'[j] = "waiting" <=> status'[j] = "queued"
         /\ stage'[j] \in Working <=> status'[j] = "running"
         /\ stage'[j] = "over" <=> status'[j] = "completed"
  PROVE  JobInd'
<1>1. TasksHaveEntries'
  BY DEF JobInd, TasksHaveEntries
<1>2. ASSUME NEW k \in Jobs \ {j} PROVE FitsAt(k)'
  BY DEF JobInd, CountersFit, FitsAt, ChunkOf
<1>3. CountersFit'
  BY <1>2 DEF CountersFit
<1> QED
  BY <1>1, <1>3 DEF JobInd

LEMMA CheckJobInd ==
  ASSUME JobInd, NEW j \in Jobs, Check(j) \/ Insert(j) \/ Start(j)
  PROVE  JobInd'
<1> USE LimitAssumption
<1>1. JobTypes'
  <2>1. CASE Check(j)
    BY <2>1 DEF JobInd, JobTypes, Check, counters, taskVars
  <2>2. CASE Insert(j)
    BY <2>2 DEF JobInd, JobTypes, Insert, taskVars
  <2>3. CASE Start(j)
    BY <2>3 DEF JobInd, JobTypes, Start, counters, taskVars, Working
  <2> QED
    BY <2>1, <2>2, <2>3
<1>2. FitsAt(j)'
  <2>1. CASE Check(j)
    BY <2>1
    DEF JobInd, JobTypes, CountersFit, FitsAt, ChunkOf, Check, counters, taskVars, Working,
        Counting, InChunk
  <2>2. CASE Insert(j)
    BY <2>2
    DEF JobInd, JobTypes, CountersFit, FitsAt, ChunkOf, Insert, taskVars, Working, Counting,
        InChunk
  <2>3. CASE Start(j)
    BY <2>3
    DEF JobInd, JobTypes, CountersFit, FitsAt, ChunkOf, Start, counters, taskVars, Working,
        Counting, InChunk
  <2> QED
    BY <2>1, <2>2, <2>3
<1>3. /\ stage'[j] = "waiting" <=> status'[j] = "queued"
      /\ stage'[j] \in Working <=> status'[j] = "running"
      /\ stage'[j] = "over" <=> status'[j] = "completed"
  BY DEF JobInd, JobTypes, TasksHaveEntries, Check, Insert, Start, Working
<1> QED
  BY <1>1, <1>2, <1>3, OneJobInd
  DEF JobInd, JobTypes, Check, Insert, Start, counters, taskVars

LEMMA BeginJobInd ==
  ASSUME JobInd, NEW j \in Jobs, Normalise(j) \/ BeginChunk(j)
  PROVE  JobInd'
<1> USE LimitAssumption
<1>1. /\ Lesser(answered[j], total[j]) = answered[j]
      /\ ChunkOf(j) \in Nat
  BY ChunkFacts DEF JobInd, CountersFit, FitsAt
<1>2. JobTypes'
  <2>1. CASE Normalise(j)
    BY <1>1, <2>1 DEF JobInd, JobTypes, Normalise, Working
  <2>2. CASE BeginChunk(j)
    BY <1>1, <2>2 DEF JobInd, JobTypes, BeginChunk, Working, taskVars
  <2> QED
    BY <2>1, <2>2
<1>3. FitsAt(j)'
  <2>1. CASE Normalise(j)
    BY <1>1, <2>1
    DEF JobInd, JobTypes, CountersFit, FitsAt, ChunkOf, Normalise, Working, Counting, InChunk
  <2>2. CASE BeginChunk(j)
    BY <1>1, <2>2
    DEF taskVars, JobInd, JobTypes, CountersFit, FitsAt, ChunkOf, BeginChunk, Working, Counting, InChunk
  <2> QED
    BY <2>1, <2>2
<1>4. /\ stage'[j] = "waiting" <=> status'[j] = "queued"
      /\ stage'[j] \in Working <=> status'[j] = "running"
      /\ stage'[j] = "over" <=> status'[j] = "completed"
  BY DEF JobInd, JobTypes, TasksHaveEntries, Normalise, BeginChunk, Working
<1> QED
  BY <1>2, <1>3, <1>4, OneJobInd
  DEF JobInd, JobTypes, Normalise, BeginChunk, counters, taskVars

LEMMA NetworkJobInd ==
  ASSUME JobInd, NEW j \in Jobs,
         \/ Result(j) \/ FinishNetwork(j)
         \/ \E n \in 1 .. MaxNetwork[j] : Announce(j, n)
  PROVE  JobInd'
<1> USE LimitAssumption
<1>1. JobTypes'
  <2>1. CASE Result(j)
    <3>1. netDone[j] + 1 \in Nat /\ netTotal[j] \in Nat /\ awaited[j] - 1 \in Nat
      BY <2>1 DEF JobInd, JobTypes, Result
    <3>2. Lesser(netDone[j] + 1, netTotal[j]) \in Nat
      BY <3>1, LesserFacts
    <3>3. netDone' \in [Jobs -> Nat] /\ awaited' \in [Jobs -> Nat]
      BY <2>1, <3>1, <3>2 DEF JobInd, JobTypes, Result
    <3> QED
      BY <2>1, <3>3 DEF JobInd, JobTypes, Result
  <2>2. CASE FinishNetwork(j)
    BY <2>2 DEF JobInd, JobTypes, FinishNetwork, Working, taskVars
  <2>3. CASE \E n \in 1 .. MaxNetwork[j] : Announce(j, n)
    <3>1. PICK n \in 1 .. MaxNetwork[j] : Announce(j, n)
      BY <2>3
    <3>2. n \in Nat /\ netTotal[j] + n \in Nat /\ netOf[j] + n \in Nat
      BY DEF JobInd, JobTypes
    <3>3. /\ netTotal' \in [Jobs -> Nat] /\ netOf' \in [Jobs -> Nat]
          /\ awaited' \in [Jobs -> Nat]
      BY <3>1, <3>2 DEF JobInd, JobTypes, Announce
    <3> QED
      BY <3>1, <3>3 DEF JobInd, JobTypes, Announce, Working
  <2> QED
    BY <2>1, <2>2, <2>3
<1>2. FitsAt(j)'
  <2>1. CASE Result(j)
    BY <2>1
    DEF JobInd, JobTypes, CountersFit, FitsAt, ChunkOf, Result, Lesser, Working, Counting,
        InChunk
  <2>2. CASE FinishNetwork(j)
    BY <2>2
    DEF taskVars, JobInd, JobTypes, CountersFit, FitsAt, ChunkOf, FinishNetwork, Working, Counting,
        InChunk
  <2>3. CASE \E n \in 1 .. MaxNetwork[j] : Announce(j, n)
    BY <2>3 DEF JobInd, JobTypes, CountersFit, FitsAt, ChunkOf, Announce, Working, Counting, InChunk
  <2> QED
    BY <2>1, <2>2, <2>3
<1>3. /\ stage'[j] = "waiting" <=> status'[j] = "queued"
      /\ stage'[j] \in Working <=> status'[j] = "running"
      /\ stage'[j] = "over" <=> status'[j] = "completed"
  BY DEF JobInd, JobTypes, TasksHaveEntries, Result, FinishNetwork, Announce, Working
<1> QED
  BY <1>1, <1>2, <1>3, OneJobInd
  DEF JobInd, JobTypes, Result, FinishNetwork, Announce, counters, taskVars

LEMMA EndJobInd ==
  ASSUME JobInd, NEW j \in Jobs, EndChunk(j) \/ AbortChunk(j) \/ FinishJob(j)
  PROVE  JobInd'
<1> USE LimitAssumption
<1>1. /\ ChunkOf(j) \in Nat
      /\ answered[j] + ChunkOf(j) <= total[j]
      /\ Lesser(answered[j] + ChunkOf(j), total[j]) = answered[j] + ChunkOf(j)
  BY ChunkFacts DEF JobInd, CountersFit, FitsAt
<1>2. JobTypes'
  <2>1. CASE EndChunk(j)
    <3>1. /\ answered' \in [Jobs -> Nat] /\ processed' \in [Jobs -> Nat]
          /\ codesFrom' \in [Jobs -> Nat]
      BY <1>1, <2>1 DEF JobInd, JobTypes, EndChunk
    <3>2. /\ codesOf' \in [Jobs -> Nat] /\ netFrom' \in [Jobs -> Nat]
          /\ netOf' \in [Jobs -> Nat] /\ awaited' \in [Jobs -> Nat]
      BY <2>1 DEF JobInd, JobTypes, EndChunk
    <3> QED
      BY <2>1, <3>1, <3>2 DEF JobInd, JobTypes, EndChunk, Working
  <2>2. CASE AbortChunk(j) \/ FinishJob(j)
    <3>1. Complete(j)
      BY <2>2 DEF AbortChunk, FinishJob
    <3>2. /\ processed' \in [Jobs -> Nat] /\ codesFrom' \in [Jobs -> Nat]
          /\ codesOf' \in [Jobs -> Nat] /\ netFrom' \in [Jobs -> Nat]
          /\ netOf' \in [Jobs -> Nat]
      BY <3>1 DEF JobInd, JobTypes, Complete
    <3>3. /\ status' \in [Jobs -> {"absent", "queued", "running", "completed"}]
          /\ age' \in [Jobs -> 0 .. Retention + 1]
          /\ answered' \in [Jobs -> Nat] /\ awaited' \in [Jobs -> Nat]
      BY <3>1 DEF JobInd, JobTypes, Complete
    <3> QED
      BY <3>1, <3>2, <3>3 DEF JobInd, JobTypes, Complete
  <2> QED
    BY <2>1, <2>2
<1>3. FitsAt(j)'
  <2>1. CASE EndChunk(j)
    BY <1>1, <2>1 DEF JobInd, JobTypes, CountersFit, FitsAt, EndChunk, Working, Counting, InChunk
  <2>2. CASE AbortChunk(j) \/ FinishJob(j)
    BY <2>2 DEF JobInd, JobTypes, CountersFit, FitsAt, AbortChunk, FinishJob, Complete,
                Working, Counting, InChunk
  <2> QED
    BY <2>1, <2>2
<1>4. /\ stage'[j] = "waiting" <=> status'[j] = "queued"
      /\ stage'[j] \in Working <=> status'[j] = "running"
      /\ stage'[j] = "over" <=> status'[j] = "completed"
  BY DEF JobInd, JobTypes, TasksHaveEntries, EndChunk, AbortChunk, FinishJob, Complete, Working
<1> QED
  BY <1>2, <1>3, <1>4, OneJobInd
  DEF JobInd, JobTypes, EndChunk, AbortChunk, FinishJob, Complete, counters, taskVars

\* Pruning drops entries of jobs whose tasks are over.
LEMMA DropJobInd ==
  ASSUME JobInd, NEW G \in SUBSET Completed, Drop(G), UNCHANGED taskVars,
         stage' \in [Jobs -> {"none", "pruned", "checked", "waiting", "over"} \cup Working],
         \A k \in Jobs : \/ k \notin G /\ stage'[k] = stage[k]
                         \/ k \in G /\ stage'[k] = "none"
                         \/ k \notin G /\ stage[k] = "none" /\ stage'[k] = "pruned"
  PROVE  JobInd'
<1> USE LimitAssumption
<1>1. JobTypes'
  BY DEF JobInd, JobTypes, Drop, Without, taskVars
<1>2. \A k \in Jobs : k \in G => stage[k] = "over"
  BY DEF JobInd, TasksHaveEntries, Completed
<1>3. TasksHaveEntries'
  BY <1>2 DEF JobInd, TasksHaveEntries, Drop, Working
<1>4. ASSUME NEW k \in Jobs PROVE FitsAt(k)'
  <2>1. CASE k \in G
    BY <1>2, <2>1 DEF JobInd, JobTypes, CountersFit, FitsAt, Drop, Without, taskVars,
                      Working, Counting, InChunk
  <2>2. CASE k \notin G
    BY <2>2 DEF JobInd, JobTypes, CountersFit, FitsAt, ChunkOf, Drop, Without, taskVars,
                Working, Counting, InChunk
  <2> QED
    BY <2>1, <2>2
<1> QED
  BY <1>1, <1>3, <1>4 DEF JobInd, CountersFit

LEMMA PruneJobInd ==
  ASSUME JobInd, Prune \/ \E j \in Jobs : Submit(j)
  PROVE  JobInd'
<1>1. CASE Prune
  <2>1. PICK G \in SUBSET Completed :
           /\ Drop(G)
           /\ stage' = [j \in Jobs |-> IF j \in G THEN "none" ELSE stage[j]]
           /\ UNCHANGED taskVars
    BY <1>1 DEF Prune
  <2>2. stage' \in [Jobs -> {"none", "pruned", "checked", "waiting", "over"} \cup Working]
    BY <2>1 DEF JobInd, JobTypes
  <2> QED
    BY <2>1, <2>2, DropJobInd
<1>2. ASSUME NEW j \in Jobs, Submit(j) PROVE JobInd'
  <2>1. PICK G \in SUBSET Completed :
           /\ Drop(G)
           /\ stage' = [k \in Jobs |-> IF k = j THEN "pruned"
                                       ELSE IF k \in G THEN "none" ELSE stage[k]]
           /\ UNCHANGED taskVars
    BY <1>2 DEF Submit
  <2>2. stage' \in [Jobs -> {"none", "pruned", "checked", "waiting", "over"} \cup Working]
    BY <2>1 DEF JobInd, JobTypes
  <2>3. stage[j] = "none" /\ j \notin G
    BY <1>2 DEF Submit, Completed
  <2> QED
    BY <2>1, <2>2, <2>3, DropJobInd
<1> QED
  BY <1>1, <1>2

LEMMA TickJobInd ==
  ASSUME JobInd, Tick
  PROVE  JobInd'
<1>1. JobTypes'
  BY LimitAssumption DEF JobInd, JobTypes, Tick, Lesser, counters, taskVars
<1>2. TasksHaveEntries' /\ CountersFit'
  BY DEF JobInd, TasksHaveEntries, CountersFit, FitsAt, ChunkOf, Tick, counters, taskVars
<1> QED
  BY <1>1, <1>2 DEF JobInd

LEMMA NextJobInd == JobInd /\ [JobNext]_jvars => JobInd'
<1> SUFFICES ASSUME JobInd, [JobNext]_jvars PROVE JobInd'
  OBVIOUS
<1>1. ASSUME NEW j \in Jobs, Submit(j) \/ Check(j) \/ Insert(j) \/ Task(j)
      PROVE  JobInd'
  BY <1>1, PruneJobInd, CheckJobInd, BeginJobInd, NetworkJobInd, EndJobInd DEF Task
<1>2. CASE UNCHANGED jvars
  BY <1>2 DEF jvars, counters, taskVars, JobInd, JobTypes, TasksHaveEntries, CountersFit,
              FitsAt, ChunkOf
<1> QED
  BY <1>1, <1>2, PruneJobInd, TickJobInd DEF JobNext

\* At every lock acquisition the entries, the counters in them and the tasks fit
\* together.
THEOREM JobInvariant == JobSpec => []JobInd
BY InitJobInd, NextJobInd, PTL DEF JobSpec

\* No counter a client is shown ever turns negative, in particular not the
\* size of a chunk, whatever chunks fail or end with results missing.
THEOREM JobTypeCorrect == JobSpec => []JobTypeOK
<1>1. JobInd => JobTypeOK
  BY TypesSpelled DEF JobInd
<1> QED
  BY <1>1, JobInvariant, PTL

\* A job's task and its entry in the table never part.
THEOREM EntriesStay == JobSpec => []TasksHaveEntries
<1>1. JobInd => TasksHaveEntries
  BY DEF JobInd
<1> QED
  BY <1>1, JobInvariant, PTL

-----------------------------------------------------------------------------
(* The limits.                                                              *)

LEMMA FewerJobs ==
  ASSUME NEW S \in SUBSET Jobs, NEW T \in SUBSET S
  PROVE  Cardinality(T) \in Nat /\ Cardinality(S) \in Nat /\ Cardinality(T) <= Cardinality(S)
<1>1. IsFiniteSet(S)
  BY LimitAssumption, FS_Subset
<1>2. IsFiniteSet(T) /\ Cardinality(T) <= Cardinality(S)
  BY <1>1, FS_Subset
<1> QED
  BY <1>1, <1>2, FS_CardinalityType

LEMMA OneJobMore ==
  ASSUME NEW S \in SUBSET Jobs, NEW j \in Jobs, NEW T \in SUBSET (S \cup {j}), NEW n \in Nat,
         Cardinality(S) < n
  PROVE  Cardinality(T) <= n
<1>1. IsFiniteSet(S) /\ Cardinality(S) \in Nat
  BY LimitAssumption, FS_Subset, FewerJobs
<1>2. Cardinality(S \cup {j}) <= n
  BY <1>1, FS_AddElement
<1>3. Cardinality(T) <= Cardinality(S \cup {j})
      /\ Cardinality(T) \in Nat /\ Cardinality(S \cup {j}) \in Nat
  <2>1. S \cup {j} \in SUBSET Jobs
    OBVIOUS
  <2> QED
    BY <2>1, FewerJobs
<1> QED
  BY <1>2, <1>3

\* Whatever a step does to the table, the limits hold on if no job becomes
\* active or starts to run.
LEMMA FewerLimits ==
  ASSUME LimitsHold, Active' \subseteq Active, Running' \subseteq Running
  PROVE  LimitsHold'
<1> USE LimitAssumption
<1>1. Active \in SUBSET Jobs /\ Running \in SUBSET Jobs
  BY DEF Active, Running
<1>2. /\ Cardinality(Active') <= MaxQueued
      /\ Cardinality(Running') <= MaxActive
  <2>1. /\ Cardinality(Active') <= Cardinality(Active) /\ Cardinality(Active) \in Nat
        /\ Cardinality(Active') \in Nat
    BY <1>1, FewerJobs
  <2>2. /\ Cardinality(Running') <= Cardinality(Running) /\ Cardinality(Running) \in Nat
        /\ Cardinality(Running') \in Nat
    BY <1>1, FewerJobs
  <2> QED
    BY <2>1, <2>2 DEF LimitsHold
<1>3. ASSUME NEW c \in Clients
      PROVE  /\ Cardinality(OfClient(Active, c)') <= MaxQueuedPerClient
             /\ Cardinality(OfClient(Running, c)') <= MaxActivePerClient
  <2>1. /\ OfClient(Active, c)' \in SUBSET OfClient(Active, c)
        /\ OfClient(Running, c)' \in SUBSET OfClient(Running, c)
        /\ OfClient(Active, c) \in SUBSET Jobs /\ OfClient(Running, c) \in SUBSET Jobs
    BY <1>1 DEF OfClient
  <2>2. /\ Cardinality(OfClient(Active, c)') <= Cardinality(OfClient(Active, c))
        /\ Cardinality(OfClient(Active, c)') \in Nat /\ Cardinality(OfClient(Active, c)) \in Nat
    BY <2>1, FewerJobs
  <2>3. /\ Cardinality(OfClient(Running, c)') <= Cardinality(OfClient(Running, c))
        /\ Cardinality(OfClient(Running, c)') \in Nat /\ Cardinality(OfClient(Running, c)) \in Nat
    BY <2>1, FewerJobs
  <2>4. MaxActivePerClient \in Nat /\ MaxQueuedPerClient \in Nat
    OBVIOUS
  <2> QED
    BY <2>2, <2>3, <2>4 DEF LimitsHold
<1> QED
  BY <1>2, <1>3 DEF LimitsHold

\* Insertion checks again under the lock, so that it does not matter how many
\* requests passed the first check.
LEMMA InsertLimits ==
  ASSUME JobInd, LimitsHold, NEW j \in Jobs, Insert(j)
  PROVE  LimitsHold'
<1> USE LimitAssumption
<1>1. CASE ~HasRoom(ClientOf[j])
  BY <1>1, FewerLimits DEF Insert, Active, Running
<1>2. CASE HasRoom(ClientOf[j])
  <2>1. status' = [status EXCEPT ![j] = "queued"]
    BY <1>2 DEF Insert
  <2>2. Active' \subseteq Active \cup {j} /\ Running' \subseteq Running
    BY <2>1 DEF JobInd, JobTypes, Active, Running
  <2>3. /\ Active \in SUBSET Jobs /\ Active' \in SUBSET (Active \cup {j})
        /\ Running \in SUBSET Jobs /\ Running' \in SUBSET Running
    BY <2>2 DEF Active, Running
  <2>4. MaxQueuedPerClient \in Nat /\ MaxActivePerClient \in Nat /\ MaxQueued \in Nat
    OBVIOUS
  <2>5. Cardinality(Active') <= MaxQueued
    BY <1>2, <2>3, <2>4, OneJobMore DEF HasRoom
  <2>6. Cardinality(Running') <= MaxActive
    BY <2>3, FewerJobs DEF LimitsHold
  <2>7. ASSUME NEW c \in Clients
        PROVE  /\ Cardinality(OfClient(Active, c)') <= MaxQueuedPerClient
               /\ Cardinality(OfClient(Running, c)') <= MaxActivePerClient
    <3> DEFINE A == OfClient(Active, c)  R == OfClient(Running, c)
    <3>1. A \in SUBSET Jobs /\ R \in SUBSET Jobs /\ R' \in SUBSET R
      BY <2>3 DEF OfClient
    <3>2. IF c = ClientOf[j] THEN A' \in SUBSET (A \cup {j}) ELSE A' \in SUBSET A
      BY <2>3 DEF OfClient
    <3>3. Cardinality(R') <= MaxActivePerClient
      <4>1. Cardinality(R') <= Cardinality(R) /\ Cardinality(R') \in Nat /\ Cardinality(R) \in Nat
        BY <3>1, FewerJobs
      <4> QED
        BY <2>4, <4>1 DEF LimitsHold
    <3>4. CASE c = ClientOf[j]
      <4>1. Cardinality(A) < MaxQueuedPerClient
        BY <1>2, <3>4 DEF HasRoom
      <4>2. Cardinality(A') <= MaxQueuedPerClient
        <5>1. A' \in SUBSET (A \cup {j})
          BY <3>2, <3>4
        <5> HIDE DEF A
        <5> QED
          BY <2>4, <3>1, <4>1, <5>1, OneJobMore
      <4> QED
        BY <3>3, <4>2
    <3>5. CASE c # ClientOf[j]
      <4>1. Cardinality(A') <= Cardinality(A) /\ Cardinality(A') \in Nat /\ Cardinality(A) \in Nat
        BY <3>1, <3>2, <3>5, FewerJobs
      <4> QED
        BY <2>4, <3>3, <4>1 DEF LimitsHold
    <3> QED
      BY <3>4, <3>5
  <2> QED
    BY <2>5, <2>6, <2>7 DEF LimitsHold
<1> QED
  BY <1>1, <1>2

\* A slot is taken in the same critical section in which it was found free.
LEMMA StartLimits ==
  ASSUME JobInd, LimitsHold, NEW j \in Jobs, Start(j)
  PROVE  LimitsHold'
<1> USE LimitAssumption
<1>1. status' = [status EXCEPT ![j] = "running"] /\ status[j] = "queued" /\ CanStart(ClientOf[j])
  BY DEF Start, JobInd, TasksHaveEntries
<1>2. /\ Active \in SUBSET Jobs /\ Active' \in SUBSET Active
      /\ Running \in SUBSET Jobs /\ Running' \in SUBSET (Running \cup {j})
  BY <1>1 DEF JobInd, JobTypes, Active, Running
<1>3. MaxQueuedPerClient \in Nat /\ MaxActivePerClient \in Nat /\ MaxActive \in Nat
  OBVIOUS
<1>4. Cardinality(Running') <= MaxActive
  BY <1>1, <1>2, <1>3, OneJobMore DEF CanStart
<1>5. Cardinality(Active') <= MaxQueued
  BY <1>2, FewerJobs DEF LimitsHold
<1>6. ASSUME NEW c \in Clients
      PROVE  /\ Cardinality(OfClient(Active, c)') <= MaxQueuedPerClient
             /\ Cardinality(OfClient(Running, c)') <= MaxActivePerClient
  <2> DEFINE A == OfClient(Active, c)  R == OfClient(Running, c)
  <2>1. A \in SUBSET Jobs /\ R \in SUBSET Jobs /\ A' \in SUBSET A
    BY <1>2 DEF OfClient
  <2>2. IF c = ClientOf[j] THEN R' \in SUBSET (R \cup {j}) ELSE R' \in SUBSET R
    BY <1>2 DEF OfClient
  <2>3. Cardinality(A') <= MaxQueuedPerClient
    <3>1. Cardinality(A') <= Cardinality(A) /\ Cardinality(A') \in Nat /\ Cardinality(A) \in Nat
      BY <2>1, FewerJobs
    <3> QED
      BY <1>3, <3>1 DEF LimitsHold
  <2>4. CASE c = ClientOf[j]
    <3>1. Cardinality(R) < MaxActivePerClient
      BY <1>1, <2>4 DEF CanStart
    <3>2. Cardinality(R') <= MaxActivePerClient
      <4>1. R' \in SUBSET (R \cup {j})
        BY <2>2, <2>4
      <4> HIDE DEF R
      <4> QED
        BY <1>3, <2>1, <3>1, <4>1, OneJobMore
    <3> QED
      BY <2>3, <3>2
  <2>5. CASE c # ClientOf[j]
    <3>1. Cardinality(R') <= Cardinality(R) /\ Cardinality(R') \in Nat /\ Cardinality(R) \in Nat
      BY <2>1, <2>2, <2>5, FewerJobs
    <3> QED
      BY <1>3, <2>3, <3>1 DEF LimitsHold
  <2> QED
    BY <2>4, <2>5
<1> QED
  BY <1>4, <1>5, <1>6 DEF LimitsHold

LEMMA NextLimits == JobInd /\ LimitsHold /\ [JobNext]_jvars => LimitsHold'
<1> SUFFICES ASSUME JobInd, LimitsHold, [JobNext]_jvars PROVE LimitsHold'
  OBVIOUS
<1>1. ASSUME UNCHANGED status PROVE LimitsHold'
  BY <1>1, FewerLimits DEF Active, Running
<1>2. ASSUME NEW G, Drop(G) PROVE LimitsHold'
  BY <1>2, FewerLimits DEF Drop, Active, Running
<1>3. ASSUME NEW j \in Jobs, Task(j) PROVE LimitsHold'
  <2>1. CASE AbortChunk(j) \/ FinishJob(j)
    BY <2>1, FewerLimits DEF AbortChunk, FinishJob, Complete, Active, Running, JobInd, JobTypes
  <2>2. CASE Start(j)
    BY <2>2, StartLimits
  <2>3. CASE ~(AbortChunk(j) \/ FinishJob(j) \/ Start(j))
    BY <1>1, <1>3, <2>3
    DEF Task, Normalise, BeginChunk, Result, EndChunk, FinishNetwork, Announce
  <2> QED
    BY <2>1, <2>2, <2>3
<1>4. ASSUME NEW j \in Jobs, Submit(j) \/ Check(j) \/ Insert(j) PROVE LimitsHold'
  BY <1>1, <1>2, <1>4, InsertLimits DEF Submit, Check
<1> QED
  BY <1>1, <1>2, <1>3, <1>4 DEF JobNext, Prune, Tick, jvars

\* However submissions, polls and prunings interleave, the queue limits and the
\* run slots are never exceeded, in all nor by one client.
THEOREM LimitsNeverExceeded == JobSpec => []LimitsHold
<1>1. JobInit => LimitsHold
  <2> SUFFICES ASSUME JobInit PROVE LimitsHold
    OBVIOUS
  <2>1. Active = {} /\ Running = {}
    BY DEF JobInit, Active, Running
  <2>2. \A c : OfClient(Active, c) = {} /\ OfClient(Running, c) = {}
    BY <2>1 DEF OfClient
  <2>3. 0 <= MaxQueued /\ 0 <= MaxActive /\ 0 <= MaxQueuedPerClient /\ 0 <= MaxActivePerClient
    BY LimitAssumption
  <2>4. Cardinality({}) = 0
    BY FS_EmptySet
  <2> QED
    BY <2>1, <2>2, <2>3, <2>4 DEF LimitsHold
<1> QED
  BY <1>1, NextLimits, JobInvariant, PTL DEF JobSpec

-----------------------------------------------------------------------------
(* Pruning.                                                                 *)

\* A job may leave if it is done with, or if enough jobs stay that are at most
\* as old.
LeavesLast(j) ==
    status[j] # "absent" /\ status'[j] = "absent" =>
        /\ status[j] = "completed"
        /\ \/ age[j] > Retention
           \/ Cardinality({k \in Completed : status'[k] = "completed" /\ age[k] <= age[j]})
                >= MaxCompleted

LEMMA PrunableLeavesLast ==
  ASSUME JobInd, NEW G \in SUBSET Completed, Prunable(G), Drop(G), NEW j \in Jobs
  PROVE  LeavesLast(j)
<1> USE LimitAssumption
<1>0. status[j] # "absent" /\ status'[j] = "absent" => j \in G /\ status[j] = "completed"
  BY DEF Drop, Completed
<1> SUFFICES ASSUME status[j] # "absent", status'[j] = "absent", ~(age[j] > Retention)
             PROVE  Cardinality({k \in Completed : status'[k] = "completed" /\ age[k] <= age[j]})
                      >= MaxCompleted
  BY <1>0, Zenon DEF LeavesLast
<1> DEFINE kept == {k \in Completed : age[k] <= Retention}
           late == G \cap kept
           younger == {k \in Completed : status'[k] = "completed" /\ age[k] <= age[j]}
<1>1. j \in G /\ j \in Completed
  BY <1>0
<1>2. j \in late
  BY <1>1 DEF JobInd, JobTypes, Completed
<1>3. /\ Completed \in SUBSET Jobs /\ kept \in SUBSET Jobs /\ late \in SUBSET kept
      /\ younger \in SUBSET Jobs
  BY DEF Completed
<1>4. kept \ late \in SUBSET younger
  <2> SUFFICES ASSUME NEW k \in kept \ late PROVE k \in younger
    OBVIOUS
  <2>1. age[j] >= age[k]
    BY <1>2 DEF Prunable
  <2>2. status'[k] = "completed"
    BY DEF Drop, Completed
  <2>3. age[j] \in Nat /\ age[k] \in Nat
    BY <1>3 DEF JobInd, JobTypes
  <2> QED
    BY <2>1, <2>2, <2>3
<1>5. Cardinality(late) = Cardinality(kept) - Lesser(MaxCompleted, Cardinality(kept))
  BY DEF Prunable
<1> HIDE DEF kept, late, younger
<1>6. /\ IsFiniteSet(kept) /\ IsFiniteSet(late)
      /\ Cardinality(kept) \in Nat /\ Cardinality(late) \in Nat
      /\ Cardinality(younger) \in Nat
  BY <1>3, FS_Subset, FS_CardinalityType
<1>7. Cardinality(kept \ late) = Cardinality(kept) - Cardinality(late)
  <2>1. Cardinality(kept \ late) = Cardinality(kept) - Cardinality(kept \cap late)
    BY <1>6, FS_Difference
  <2>2. kept \cap late = late
    BY <1>3
  <2> QED
    BY <2>1, <2>2
<1>8. Cardinality(late) # 0
  BY <1>2, <1>6, FS_EmptySet
<1>9. Cardinality(kept \ late) = MaxCompleted
  BY <1>5, <1>6, <1>7, <1>8 DEF Lesser
<1>10. Cardinality(kept \ late) <= Cardinality(younger)
  BY <1>3, <1>4, FewerJobs
<1>11. Cardinality(younger) >= MaxCompleted
  BY <1>6, <1>9, <1>10
<1> QED
  BY <1>11 DEF younger

LEMMA NextLeavesLast ==
  ASSUME JobInd, [JobNext]_jvars, NEW j \in Jobs
  PROVE  LeavesLast(j)
<1>1. ASSUME NEW k \in Jobs, Task(k) \/ Check(k) \/ Insert(k) PROVE LeavesLast(j)
  BY <1>1
  DEF LeavesLast, Task, Start, Normalise, BeginChunk, Result, EndChunk, AbortChunk, FinishNetwork,
      FinishJob, Announce, Complete, Check, Insert, JobInd, JobTypes
<1>2. CASE Prune \/ \E k \in Jobs : Submit(k)
  BY <1>2, PrunableLeavesLast DEF Prune, Submit
<1>3. CASE UNCHANGED status
  BY <1>3 DEF LeavesLast
<1> QED
  BY <1>1, <1>2, <1>3 DEF JobNext, Tick, jvars

\* A finished job is kept for its client until its retention is over or
\* MaxCompleted jobs that finished no earlier are there.
THEOREM OldestPruned == JobSpec => PrunesOldestOnly
<1>1. JobInd /\ [JobNext]_jvars =>
        [\A j \in Jobs : status[j] # "absent" /\ status'[j] = "absent" =>
          /\ status[j] = "completed"
          /\ \/ age[j] > Retention
             \/ Cardinality({k \in Completed : status'[k] = "completed" /\ age[k] <= age[j]})
                  >= MaxCompleted]_jvars
  BY NextLeavesLast DEF LeavesLast
<1> QED
  BY <1>1, JobInvariant, PTL DEF JobSpec, PrunesOldestOnly

-----------------------------------------------------------------------------
(* Progress.                                                                *)

LEMMA DivFacts ==
  ASSUME NEW x \in Nat, NEW n \in Nat \ {0}
  PROVE  x \div n \in Nat /\ n * (x \div n) <= x /\ x < n * (x \div n) + n
OBVIOUS

LEMMA TimesMonotone ==
  ASSUME NEW a \in Nat, NEW b \in Nat, NEW c \in Nat, a <= b
  PROVE  c * a <= c * b
OBVIOUS

LEMMA TimesCancel ==
  ASSUME NEW a \in Nat, NEW b \in Nat, NEW n \in Nat \ {0}, n * a < n * b + n
  PROVE  a <= b
<1>1. CASE a >= b + 1
  <2>1. n * (b + 1) <= n * a
    BY <1>1, TimesMonotone
  <2>2. n * (b + 1) = n * b + n
    OBVIOUS
  <2>3. n * a \in Nat /\ n * b \in Nat
    OBVIOUS
  <2> QED
    BY <2>1, <2>2, <2>3
<1> QED
  BY <1>1

LEMMA DivMonotone ==
  ASSUME NEW x \in Nat, NEW y \in Nat, NEW n \in Nat \ {0}, x <= y
  PROVE  x \div n <= y \div n
<1>1. n * (x \div n) < n * (y \div n) + n
  <2>1. /\ x \div n \in Nat /\ y \div n \in Nat
        /\ n * (x \div n) <= x /\ y < n * (y \div n) + n
    BY DivFacts
  <2>2. n * (x \div n) \in Nat /\ n * (y \div n) \in Nat
    BY <2>1
  <2> QED
    BY <2>1, <2>2
<1> QED
  BY <1>1, DivFacts, TimesCancel

\* The share d of n of the codes c is at most c.
LEMMA ShareBound ==
  ASSUME NEW c \in Nat, NEW d \in Nat, NEW n \in Nat \ {0}, d <= n
  PROVE  (c * d) \div n \in Nat /\ (c * d) \div n <= c
<1>1. c * d \in Nat /\ c * d <= c * n /\ c * n = n * c /\ n * c \in Nat
  BY TimesMonotone
<1>2. (c * d) \div n \in Nat /\ n * ((c * d) \div n) <= c * d
  BY <1>1, DivFacts
<1>3. n * ((c * d) \div n) < n * c + n
  <2>1. n * ((c * d) \div n) \in Nat
    BY <1>2
  <2> QED
    BY <1>1, <1>2, <2>1
<1> QED
  BY <1>2, <1>3, TimesCancel

LEMMA ShareMonotone ==
  ASSUME NEW c \in Nat, NEW d \in Nat, NEW e \in Nat, NEW n \in Nat \ {0}, d <= e
  PROVE  (c * d) \div n <= (c * e) \div n
<1>1. c * d \in Nat /\ c * e \in Nat /\ c * d <= c * e
  BY TimesMonotone
<1> QED
  BY <1>1, DivMonotone

\* The share of the running chunk that counts as processed.
Done(j) == Lesser(netDone[j] - netFrom[j], netOf[j])

Share(j) == (codesOf[j] * Done(j)) \div netOf[j]

LEMMA ShownSpelled ==
  ASSUME NEW j
  PROVE  Shown(j) =
           IF status[j] # "running" \/ codesOf[j] = 0 \/ netOf[j] = 0 THEN processed[j]
           ELSE Lesser(IF codesFrom[j] + Share(j) > processed[j]
                       THEN codesFrom[j] + Share(j) ELSE processed[j], total[j])
BY DEF Shown, Done, Share

LEMMA DoneFacts ==
  ASSUME JobInd, NEW j \in Jobs
  PROVE  Done(j) \in Nat /\ Done(j) <= netOf[j]
<1>1. netDone[j] - netFrom[j] \in Nat /\ netOf[j] \in Nat
  BY DEF JobInd, JobTypes, CountersFit, FitsAt
<1> QED
  BY <1>1, LesserFacts DEF Done

\* What is shown lies between what is processed and what will be after the
\* running chunk.
ShownFits(j) ==
    /\ Shown(j) \in Nat /\ processed[j] <= Shown(j) /\ Shown(j) <= total[j]
    /\ stage[j] \in InChunk => Shown(j) <= answered[j] + ChunkOf(j)
    /\ stage[j] \notin InChunk => Shown(j) = processed[j]

AllShownFit == \A j \in Jobs : ShownFits(j)

LEMMA ShownFacts == JobInd => AllShownFit
<1> SUFFICES ASSUME JobInd, NEW j \in Jobs PROVE ShownFits(j)
  BY DEF AllShownFit
<1> USE DEF ShownFits
<1>1. /\ total[j] \in Nat /\ processed[j] \in Nat /\ codesFrom[j] \in Nat /\ codesOf[j] \in Nat
      /\ netOf[j] \in Nat /\ answered[j] \in Nat
  BY DEF JobInd, JobTypes
<1>2. FitsAt(j)
  BY DEF JobInd, CountersFit
<1>3. ChunkOf(j) \in Nat
  BY <1>2, ChunkFacts DEF JobInd, FitsAt
<1>4. CASE status[j] # "running" \/ codesOf[j] = 0 \/ netOf[j] = 0
  <2>1. Shown(j) = processed[j]
    BY <1>4, ShownSpelled
  <2>2. stage[j] \in InChunk => processed[j] = answered[j]
    BY <1>2 DEF FitsAt, Counting
  <2>3. processed[j] <= total[j]
    BY <1>2 DEF FitsAt
  <2> QED
    BY <1>1, <1>3, <2>1, <2>2, <2>3
<1>5. CASE ~(status[j] # "running" \/ codesOf[j] = 0 \/ netOf[j] = 0)
  <2> DEFINE some == codesFrom[j] + Share(j)
  <2>1. Shown(j) = Lesser(IF some > processed[j] THEN some ELSE processed[j], total[j])
    BY <1>5, ShownSpelled
  <2>2. Share(j) \in Nat /\ Share(j) <= codesOf[j]
    BY <1>1, <1>5, DoneFacts, ShareBound DEF Share
  <2>3. /\ stage[j] \in InChunk
        /\ codesFrom[j] = answered[j] /\ codesOf[j] = ChunkOf(j) /\ processed[j] = answered[j]
        /\ processed[j] <= total[j]
    BY <1>2, <1>5 DEF FitsAt, Counting
  <2> QED
    BY <1>1, <1>3, <2>1, <2>2, <2>3 DEF Lesser
<1> QED
  BY <1>4, <1>5

\* Results only add to the share.
LEMMA ResultShows ==
  ASSUME JobInd, NEW j \in Jobs, status[j] = "running", Result(j)
  PROVE  Shown(j) <= Shown(j)'
<1>1. /\ total[j] \in Nat /\ processed[j] \in Nat /\ codesFrom[j] \in Nat /\ codesOf[j] \in Nat
      /\ netOf[j] \in Nat /\ netDone[j] \in Nat /\ netTotal[j] \in Nat /\ netFrom[j] \in Nat
  BY DEF JobInd, JobTypes
<1>2. netFrom[j] <= netDone[j] /\ netDone[j] <= netTotal[j] /\ processed[j] <= total[j]
  BY DEF JobInd, CountersFit, FitsAt
<1>3. /\ netDone'[j] = Lesser(netDone[j] + 1, netTotal[j])
      /\ UNCHANGED <<status, total, processed, codesFrom, codesOf, netTotal, netFrom, netOf>>
  BY DEF Result, JobInd, JobTypes
<1>4. netDone'[j] \in Nat /\ netDone[j] <= netDone'[j]
  BY <1>1, <1>2, <1>3 DEF Lesser
<1>5. CASE codesOf[j] = 0 \/ netOf[j] = 0
  BY <1>1, <1>3, <1>5 DEF Shown
<1>6. CASE codesOf[j] # 0 /\ netOf[j] # 0
  <2>1. Done(j) \in Nat /\ Done(j)' \in Nat /\ Done(j) <= Done(j)' /\ Done(j)' <= netOf[j]
        /\ Done(j) <= netOf[j]
    BY <1>1, <1>2, <1>3, <1>4 DEF Done, Lesser
  <2>2. /\ Share(j) = (codesOf[j] * Done(j)) \div netOf[j]
        /\ Share(j)' = (codesOf[j] * Done(j)') \div netOf[j]
    BY <1>3 DEF Share
  <2>3. Share(j) \in Nat /\ Share(j)' \in Nat /\ Share(j) <= Share(j)'
    <3>1. codesOf[j] \in Nat /\ netOf[j] \in Nat \ {0}
      BY <1>1, <1>6
    <3>2. /\ (codesOf[j] * Done(j)) \div netOf[j] \in Nat
          /\ (codesOf[j] * Done(j)') \div netOf[j] \in Nat
      BY <2>1, <3>1, ShareBound, Zenon
    <3>3. (codesOf[j] * Done(j)) \div netOf[j] <= (codesOf[j] * Done(j)') \div netOf[j]
      BY <2>1, <3>1, ShareMonotone, Zenon
    <3> QED
      BY <2>2, <3>2, <3>3, Zenon
  <2>4. /\ Shown(j) = Lesser(IF codesFrom[j] + Share(j) > processed[j]
                             THEN codesFrom[j] + Share(j) ELSE processed[j], total[j])
        /\ Shown(j)' = Lesser(IF codesFrom[j] + Share(j)' > processed[j]
                              THEN codesFrom[j] + Share(j)' ELSE processed[j], total[j])
    BY <1>3, <1>6 DEF Shown, Share, Done
  <2> QED
    BY <1>1, <2>3, <2>4 DEF Lesser
<1> QED
  BY <1>5, <1>6

\* A running job is shown at least as far after a step, and within its total.
Advances(j) == status[j] = "running" => Shown(j) <= Shown(j)' /\ Shown(j)' <= total[j]

LEMMA TaskAdvances ==
  ASSUME JobInd, JobInd', NEW j \in Jobs, Task(j)
  PROVE  Advances(j)
<1>0. ShownFits(j)
  BY ShownFacts DEF AllShownFit
<1>1. JobInd' => AllShownFit'
  BY ShownFacts, PTL
<1>2. Shown(j)' \in Nat /\ processed'[j] <= Shown(j)' /\ Shown(j)' <= total'[j]
  BY <1>1 DEF AllShownFit, ShownFits
<1>3. /\ total[j] \in Nat /\ processed[j] \in Nat /\ processed'[j] \in Nat /\ answered[j] \in Nat
      /\ FitsAt(j)
  BY DEF JobInd, JobTypes, CountersFit
<1>4. total'[j] = total[j]
  BY DEF Task, Start, Normalise, BeginChunk, Result, EndChunk, AbortChunk, FinishNetwork,
         FinishJob, Announce, Complete, counters
<1> SUFFICES ASSUME status[j] = "running" PROVE Shown(j) <= Shown(j)'
  BY <1>2, <1>4 DEF Advances
<1>5. CASE Start(j) \/ Normalise(j)
  BY <1>0, <1>2, <1>3, <1>5
  DEF ShownFits, Start, Normalise, FitsAt, InChunk, Counting, JobInd, TasksHaveEntries
<1>6. CASE BeginChunk(j)
  <2>1. processed'[j] = Lesser(answered[j], total[j])
    BY <1>6 DEF BeginChunk, JobInd, JobTypes
  <2>2. processed'[j] = answered[j] /\ Shown(j) = answered[j]
    BY <1>0, <1>3, <1>6, <2>1 DEF ShownFits, BeginChunk, FitsAt, InChunk, Counting, Lesser
  <2> QED
    BY <1>0, <1>2, <2>2 DEF ShownFits
<1>7. CASE \E n \in 1 .. MaxNetwork[j] : Announce(j, n)
  <2>1. Shown(j) = processed[j] /\ processed'[j] = processed[j]
    BY <1>3, <1>7 DEF Announce, FitsAt, Shown
  <2> QED
    BY <1>2, <2>1
<1>8. CASE Result(j)
  BY <1>8, ResultShows
<1>9. CASE EndChunk(j)
  <2>1. processed'[j] = answered[j] + ChunkOf(j)
    BY <1>3, <1>9, ChunkFacts DEF EndChunk, FitsAt, JobInd, JobTypes
  <2>2. ChunkOf(j) \in Nat
    BY <1>3, ChunkFacts DEF FitsAt, JobInd
  <2> QED
    BY <1>0, <1>2, <1>3, <1>9, <2>1, <2>2 DEF ShownFits, EndChunk, InChunk
<1>10. CASE AbortChunk(j) \/ FinishJob(j)
  <2>1. processed'[j] = total[j]
    BY <1>10 DEF AbortChunk, FinishJob, Complete, JobInd, JobTypes
  <2> QED
    BY <1>0, <1>2, <1>3, <2>1 DEF ShownFits
<1>11. CASE FinishNetwork(j)
  <2>1. Shown(j) = processed[j] /\ processed'[j] = processed[j]
    BY <1>0, <1>11 DEF ShownFits, FinishNetwork, InChunk
  <2> QED
    BY <1>2, <2>1
<1> QED
  BY <1>5, <1>6, <1>7, <1>8, <1>9, <1>10, <1>11 DEF Task

LEMMA NextAdvances ==
  ASSUME JobInd, JobInd', [JobNext]_jvars, NEW j \in Jobs
  PROVE  Advances(j)
<1>0. Shown(j) \in Nat /\ Shown(j) <= total[j]
  BY ShownFacts DEF AllShownFit, ShownFits
<1>1. ASSUME status'[j] = status[j], total'[j] = total[j], processed'[j] = processed[j],
             codesFrom'[j] = codesFrom[j], codesOf'[j] = codesOf[j], netDone'[j] = netDone[j],
             netFrom'[j] = netFrom[j], netOf'[j] = netOf[j]
      PROVE  Advances(j)
  <2>1. Shown(j)' = Shown(j)
    BY <1>1 DEF Shown
  <2> QED
    BY <1>0, <2>1 DEF Advances
<1>2. ASSUME NEW G \in SUBSET Completed, Drop(G) PROVE Advances(j)
  <2>1. CASE j \in G
    BY <2>1 DEF Completed, Advances
  <2>2. CASE j \notin G
    BY <1>1, <1>2, <2>2 DEF Drop, Without
  <2> QED
    BY <2>1, <2>2
<1>3. ASSUME NEW k \in Jobs \ {j}, Task(k) \/ Insert(k) PROVE Advances(j)
  <2>1. /\ status'[j] = status[j] /\ total'[j] = total[j] /\ processed'[j] = processed[j]
        /\ codesFrom'[j] = codesFrom[j] /\ codesOf'[j] = codesOf[j]
        /\ netDone'[j] = netDone[j] /\ netFrom'[j] = netFrom[j] /\ netOf'[j] = netOf[j]
    BY <1>3
    DEF Task, Start, Normalise, BeginChunk, Result, EndChunk, AbortChunk, FinishNetwork, FinishJob,
        Announce, Complete, Insert, counters, JobInd, JobTypes
  <2> QED
    BY <1>1, <2>1
<1>4. CASE Insert(j)
  BY <1>4 DEF Insert, Advances, JobInd, TasksHaveEntries, Working
<1>5. CASE Tick \/ UNCHANGED jvars \/ \E k \in Jobs : Check(k)
  BY <1>1, <1>5 DEF Tick, Check, jvars, counters
<1>6. CASE Prune \/ \E k \in Jobs : Submit(k)
  BY <1>2, <1>6 DEF Prune, Submit
<1> QED
  BY <1>3, <1>4, <1>5, <1>6, TaskAdvances DEF JobNext

\* The progress a client polls never goes back, with chunks of any size, any
\* amount of network work and results that never come.
THEOREM ProgressNeverBack == JobSpec => ProgressForward
<1>1. JobInd /\ JobInd' /\ [JobNext]_jvars =>
        [\A j \in Jobs : status[j] = "running" =>
           Shown(j) <= Shown(j)' /\ Shown(j)' <= total[j]]_jvars
  BY NextAdvances DEF Advances
<1> QED
  BY <1>1, JobInvariant, PTL DEF JobSpec, ProgressForward
=============================================================================
