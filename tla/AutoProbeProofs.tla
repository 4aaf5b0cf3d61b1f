-------------------------- MODULE AutoProbeProofs ---------------------------
(* Proofs about AutoProbe, for every number of requests and every interval. *)
EXTENDS AutoProbe, TLAPS

\* What a runner is about to write back it has read.
CopiesHeld ==
    /\ \A r \in Runners : at[r] \in {"startRead", "endRead"} => copy[r] \in Settings
    /\ at[Worker] = "due" => copy[Worker] \in Settings

\* The end a run is about to record is later than the one the worker recorded
\* last: runs exclude each other.
EndsLater == \A r \in Runners : at[r] \in {"end", "endRead"} /\ ended # None => stamp[r] <= ended

Remembers(s) == s.finished # None /\ s.finished <= ended

\* The row remembers an end at least as late as the worker's last one, unless an
\* administrator has put back an older one, and so does the copy of the row
\* that a run is about to write back with its start.
Remembered ==
    ~wiped /\ ended # None =>
        /\ Remembers(row)
        /\ \A r \in Runners : at[r] = "startRead" => Remembers(copy[r])

\* The worker decided on what it has read.
DecidedWell ==
    at[Worker] = "due" /\ ~wiped /\ ended # None => ended >= copy[Worker].interval

\* OneRun is needed by the others, and TypeOK is not inductive without
\* CopiesHeld; WorkerSpaced follows from DecidedWell.
AutoInd == AutoTypeOK /\ OneRun /\ CopiesHeld /\ EndsLater /\ Remembered /\ DecidedWell

LEMMA InitInd == AutoInit => AutoInd
<1> SUFFICES ASSUME AutoInit PROVE AutoInd
  OBVIOUS
<1> USE AutoAssumption
<1>1. row \in Settings
  BY DEF AutoInit, Settings, Ages
<1>2. AutoTypeOK
  <2>1. /\ holder \in Runners \cup {None}
        /\ at \in [Runners -> {"idle", "due", "waiting"} \cup InRun]
        /\ copy \in [Runners \cup Admins -> Settings \cup {None}]
    BY DEF AutoInit
  <2>2. /\ stamp \in [Runners -> 0 .. MaxAge]
        /\ faults \in 0 .. MaxFaults
    BY DEF AutoInit
  <2>3. /\ plan \in [Runners -> Mosts \cup {0}]
        /\ batch \in [Runners -> SUBSET Accounts]
    BY DEF AutoInit
  <2>4. unsold \subseteq Accounts /\ ended \in Ages /\ wiped \in BOOLEAN
    BY DEF AutoInit, Ages
  <2> QED
    BY <1>1, <2>1, <2>2, <2>3, <2>4 DEF AutoTypeOK
<1>3. OneRun
  BY DEF AutoInit, OneRun, InRun, Runners
<1>4. CopiesHeld /\ EndsLater /\ Remembered /\ DecidedWell
  BY DEF AutoInit, CopiesHeld, EndsLater, Remembered, DecidedWell, Runners
<1> QED
  BY <1>2, <1>3, <1>4 DEF AutoInd

LEMMA RestingType ==
  ASSUME AutoTypeOK, NEW r \in Runners, Resting(r)
  PROVE  /\ holder' \in Runners \cup {None}
         /\ at' \in [Runners -> {"idle", "due", "waiting"} \cup InRun]
         /\ copy' \in [Runners \cup Admins -> Settings \cup {None}]
         /\ stamp' \in [Runners -> 0 .. MaxAge]
         /\ plan' \in [Runners -> Mosts \cup {0}]
         /\ batch' \in [Runners -> SUBSET Accounts]
BY AutoAssumption DEF AutoTypeOK, Resting, Goes, Forgets

\* A runner that ends where it is leaves the rest as it was.
LEMMA RestingInd ==
  ASSUME AutoInd, NEW r \in Runners, Resting(r),
         UNCHANGED <<row, unsold, past>>, faults' \in 0 .. MaxFaults
  PROVE  AutoInd'
<1> USE AutoAssumption
<1>1. AutoTypeOK'
  BY RestingType DEF AutoInd, AutoTypeOK, past
<1>2. /\ at' = [at EXCEPT ![r] = "idle"]
      /\ copy' = [copy EXCEPT ![r] = None]
      /\ stamp' = [stamp EXCEPT ![r] = 0]
      /\ holder' = IF holder = r THEN None ELSE holder
      /\ UNCHANGED <<row, ended, wiped>>
  BY DEF Resting, Goes, Forgets, past
<1>3. OneRun'
  BY <1>2 DEF AutoInd, AutoTypeOK, OneRun, InRun, Runners
<1>4. CopiesHeld' /\ EndsLater' /\ DecidedWell'
  BY <1>2 DEF AutoInd, AutoTypeOK, CopiesHeld, EndsLater, DecidedWell, Runners
<1>5. Remembered'
  BY <1>2 DEF AutoInd, AutoTypeOK, Remembered, Remembers, Runners
<1> QED
  BY <1>1, <1>3, <1>4, <1>5 DEF AutoInd

\* The reading steps copy the row as it is.
LEMMA ReadInd ==
  ASSUME AutoInd, NEW r \in Runners,
         \/ StartReads(r)
         \/ EndReads(r)
         \/ r = Worker /\ Consider
  PROVE  AutoInd'
<1> USE AutoAssumption
<1>1. /\ UNCHANGED <<row, holder, stamp, unsold, batch, faults, ended, wiped>>
      /\ copy' = [copy EXCEPT ![r] = row]
      /\ \/ at[r] = "start" /\ at' = [at EXCEPT ![r] = "startRead"]
         \/ at[r] = "end" /\ at' = [at EXCEPT ![r] = "endRead"]
         \/ r = Worker /\ at[r] = "idle" /\ Due(row) /\ at' = [at EXCEPT ![r] = "due"]
  BY DEF StartReads, EndReads, Consider, Goes, Reads, past
<1>2. row \in Settings /\ row.most \in Mosts
  BY DEF AutoInd, AutoTypeOK, Settings
<1>3. AutoTypeOK'
  <2>1. plan' \in [Runners -> Mosts \cup {0}]
    BY <1>2 DEF AutoInd, AutoTypeOK, StartReads, EndReads, Consider, Goes, Reads
  <2>2. /\ at' \in [Runners -> {"idle", "due", "waiting"} \cup InRun]
        /\ copy' \in [Runners \cup Admins -> Settings \cup {None}]
    BY <1>1, <1>2 DEF AutoInd, AutoTypeOK, InRun
  <2> QED
    BY <1>1, <2>1, <2>2 DEF AutoInd, AutoTypeOK
<1>4. OneRun'
  BY <1>1 DEF AutoInd, AutoTypeOK, OneRun, InRun, Runners
<1>5. CopiesHeld' /\ EndsLater'
  BY <1>1, <1>2 DEF AutoInd, AutoTypeOK, CopiesHeld, EndsLater, Runners
<1>6. Remembered'
  BY <1>1 DEF AutoInd, AutoTypeOK, Remembered, Remembers, Runners
<1>7. DecidedWell'
  <2> SUFFICES ASSUME at'[Worker] = "due", ~wiped, ended # None
               PROVE  ended >= copy'[Worker].interval
    BY <1>1 DEF DecidedWell
  <2>1. CASE at[Worker] = "due"
    BY <1>1, <2>1 DEF AutoInd, AutoTypeOK, DecidedWell, Runners
  <2>2. CASE at[Worker] # "due"
    <3>1. r = Worker /\ Due(row) /\ copy'[Worker] = row
      BY <1>1, <2>2 DEF AutoInd, AutoTypeOK, Runners
    <3>2. row.finished # None /\ row.finished <= ended
      BY DEF AutoInd, Remembered, Remembers
    <3>3. row.finished >= row.interval
      BY <3>1, <3>2 DEF Due, LastRun
    <3>4. row.finished \in 0 .. MaxAge /\ row.interval \in Nat /\ ended \in 0 .. MaxAge
      <4>1. row.finished \in Ages /\ row.interval \in Intervals
        BY <1>2 DEF Settings
      <4>2. ended \in Ages
        BY DEF AutoInd, AutoTypeOK
      <4>3. row.finished \in 0 .. MaxAge /\ ended \in 0 .. MaxAge
        BY <3>2, <4>1, <4>2, Zenon DEF Ages
      <4>4. row.interval \in 1 .. MaxAge
        BY <4>1
      <4> QED
        BY <4>3, <4>4
    <3> QED
      BY <3>1, <3>2, <3>3, <3>4
  <2> QED
    BY <2>1, <2>2
<1> QED
  BY <1>3, <1>4, <1>5, <1>6, <1>7 DEF AutoInd

\* Steps that write neither the row nor the marks, and move one runner on.
LEMMA MoveInd ==
  ASSUME AutoInd, NEW r \in Runners,
         \/ Load(r)
         \/ Probed(r)
         \/ LoadFails(r)
         \/ r \in Manuals /\ (Request(r) \/ ManualReads(r))
  PROVE  AutoInd'
<1> USE AutoAssumption
<1>1. /\ UNCHANGED <<row, holder, copy, unsold, ended, wiped>>
      /\ stamp' = stamp \/ stamp' = [stamp EXCEPT ![r] = 0]
      /\ \/ at[r] = "load" /\ at' = [at EXCEPT ![r] = "probing"]
         \/ at[r] = "probing" /\ at' = [at EXCEPT ![r] = "end"] /\ stamp'[r] = 0
         \/ at[r] = "load" /\ at' = [at EXCEPT ![r] = "end"] /\ stamp'[r] = 0
         \/ at[r] = "idle" /\ at' = [at EXCEPT ![r] = "waiting"]
         \/ at[r] = "locked" /\ at' = [at EXCEPT ![r] = "start"]
  BY DEF Load, Probed, LoadFails, Request, ManualReads, Goes, past, AutoInd, AutoTypeOK
<1>2. AutoTypeOK'
  <2>1. plan' \in [Runners -> Mosts \cup {0}]
    BY DEF AutoInd, AutoTypeOK, Settings, Load, Probed, LoadFails, Request, ManualReads
  <2>2. batch' \in [Runners -> SUBSET Accounts]
    <3>1. Front(plan[r]) \subseteq Accounts
      BY DEF AutoInd, AutoTypeOK, Front
    <3> QED
      BY <3>1 DEF AutoInd, AutoTypeOK, Load, Probed, LoadFails, Request, ManualReads
  <2>4. faults' \in 0 .. MaxFaults
    BY DEF AutoInd, AutoTypeOK, Load, Probed, LoadFails, Request, ManualReads
  <2>3. /\ at' \in [Runners -> {"idle", "due", "waiting"} \cup InRun]
        /\ stamp' \in [Runners -> 0 .. MaxAge]
    BY <1>1 DEF AutoInd, AutoTypeOK, InRun
  <2> QED
    BY <1>1, <2>1, <2>2, <2>3, <2>4 DEF AutoInd, AutoTypeOK
<1>3. OneRun'
  BY <1>1 DEF AutoInd, AutoTypeOK, OneRun, InRun, Runners
<1>4. CopiesHeld' /\ DecidedWell'
  BY <1>1 DEF AutoInd, AutoTypeOK, CopiesHeld, DecidedWell, Runners
<1>5. EndsLater'
  BY <1>1 DEF AutoInd, AutoTypeOK, EndsLater, Runners, Ages
<1>6. Remembered'
  BY <1>1 DEF AutoInd, AutoTypeOK, Remembered, Remembers, Runners
<1> QED
  BY <1>2, <1>3, <1>4, <1>5, <1>6 DEF AutoInd

\* Taking the lock.
LEMMA LockInd ==
  ASSUME AutoInd, TryLock \/ \E r \in Manuals : Lock(r)
  PROVE  AutoInd'
<1> USE AutoAssumption
<1>1. CASE TryLock /\ ~(holder = None /\ \A r \in Manuals : at[r] # "waiting")
  <2>1. Resting(Worker) /\ UNCHANGED <<row, unsold, faults, past>>
    BY <1>1 DEF TryLock
  <2>2. faults' \in 0 .. MaxFaults /\ Worker \in Runners
    BY <2>1 DEF AutoInd, AutoTypeOK, Runners
  <2> QED
    BY <2>1, <2>2, RestingInd
<1>2. CASE ~(TryLock /\ ~(holder = None /\ \A r \in Manuals : at[r] # "waiting"))
  <2>1. PICK r \in Runners :
           /\ holder = None /\ holder' = r
           /\ UNCHANGED <<row, stamp, plan, batch, unsold, faults, ended, wiped>>
           /\ \/ /\ at[r] = "waiting" /\ at' = [at EXCEPT ![r] = "locked"]
                 /\ copy' = copy
              \/ /\ r = Worker /\ at[r] = "due" /\ at' = [at EXCEPT ![r] = "start"]
                 /\ copy' = [copy EXCEPT ![r] = None]
    BY <1>2 DEF TryLock, Lock, Goes, Forgets, past, Runners
  <2>2. AutoTypeOK'
    BY <2>1 DEF AutoInd, AutoTypeOK, InRun
  <2>3. OneRun'
    BY <2>1 DEF AutoInd, AutoTypeOK, OneRun, InRun, Runners
  <2>4. CopiesHeld' /\ EndsLater' /\ DecidedWell'
    BY <2>1 DEF AutoInd, AutoTypeOK, CopiesHeld, EndsLater, DecidedWell, Runners
  <2>5. Remembered'
    BY <2>1 DEF AutoInd, AutoTypeOK, Remembered, Remembers, Runners
  <2> QED
    BY <2>2, <2>3, <2>4, <2>5 DEF AutoInd
<1> QED
  BY <1>1, <1>2

\* Recording the start: of all of the copy only the mark differs from the row,
\* or an administrator has been there meanwhile.
LEMMA StartSavesInd ==
  ASSUME AutoInd, NEW r \in Runners, StartSaves(r)
  PROVE  AutoInd'
<1> USE AutoAssumption
<1>1. /\ at[r] = "startRead" /\ at' = [at EXCEPT ![r] = "load"]
      /\ row' = [copy[r] EXCEPT !.started = stamp[r]]
      /\ copy' = [copy EXCEPT ![r] = None]
      /\ UNCHANGED <<holder, stamp, plan, batch, unsold, faults, ended, wiped>>
  BY DEF StartSaves, Goes, Forgets, past
<1>2. copy[r] \in Settings
  BY <1>1 DEF AutoInd, CopiesHeld
<1>3. row' \in Settings /\ row'.finished = copy[r].finished
  BY <1>1, <1>2 DEF AutoInd, AutoTypeOK, Settings, Ages
<1>4. AutoTypeOK'
  BY <1>1, <1>3 DEF AutoInd, AutoTypeOK, InRun
<1>5. OneRun'
  BY <1>1 DEF AutoInd, AutoTypeOK, OneRun, InRun, Runners
<1>6. CopiesHeld' /\ EndsLater' /\ DecidedWell'
  BY <1>1 DEF AutoInd, AutoTypeOK, CopiesHeld, EndsLater, DecidedWell, Runners
<1>7. Remembered'
  BY <1>1, <1>3 DEF AutoInd, AutoTypeOK, Remembered, Remembers, Runners
<1> QED
  BY <1>4, <1>5, <1>6, <1>7 DEF AutoInd

\* Recording the end: no other run is under way that could have read the row.
LEMMA EndSavesInd ==
  ASSUME AutoInd, NEW r \in Runners, EndSaves(r)
  PROVE  AutoInd'
<1> USE AutoAssumption
<1>1. /\ at[r] = "endRead"
      /\ row' = [copy[r] EXCEPT !.finished = stamp[r]]
      /\ ended' = IF r = Worker THEN stamp[r] ELSE ended
      /\ wiped' = (wiped /\ at[Worker] = "due")
      /\ Resting(r)
      /\ UNCHANGED <<unsold, faults>>
  BY DEF EndSaves
<1>2. /\ at' = [at EXCEPT ![r] = "idle"]
      /\ copy' = [copy EXCEPT ![r] = None]
      /\ stamp' = [stamp EXCEPT ![r] = 0]
      /\ holder' = IF holder = r THEN None ELSE holder
  BY <1>1 DEF Resting, Goes, Forgets
<1>3. copy[r] \in Settings /\ stamp[r] \in 0 .. MaxAge
  BY <1>1 DEF AutoInd, AutoTypeOK, CopiesHeld
<1>4. row' \in Settings /\ row'.finished = stamp[r]
  BY <1>1, <1>3 DEF Settings, Ages
<1>5. AutoTypeOK'
  <2>1. ended' \in Ages /\ wiped' \in BOOLEAN
    BY <1>1, <1>3 DEF AutoInd, AutoTypeOK, Ages
  <2> QED
    BY <1>1, <1>4, <2>1, RestingType DEF AutoInd, AutoTypeOK
<1>6. OneRun'
  BY <1>2 DEF AutoInd, AutoTypeOK, OneRun, InRun, Runners
<1>7. \A x \in Runners : at'[x] \notin {"startRead", "end", "endRead"}
  BY <1>1, <1>2 DEF AutoInd, AutoTypeOK, OneRun, InRun
<1>8. CopiesHeld' /\ EndsLater'
  BY <1>2, <1>7 DEF AutoInd, AutoTypeOK, CopiesHeld, EndsLater, Runners
<1>9. DecidedWell'
  <2> SUFFICES ASSUME at'[Worker] = "due", ~wiped', ended' # None
               PROVE  ended' >= copy'[Worker].interval
    BY DEF DecidedWell
  <2>1. r # Worker /\ at[Worker] = "due"
    BY <1>2 DEF AutoInd, AutoTypeOK, Runners
  <2>2. ended' = ended /\ ~wiped /\ copy'[Worker] = copy[Worker]
    BY <1>1, <1>2, <2>1 DEF AutoInd, AutoTypeOK, Runners
  <2> QED
    BY <2>1, <2>2 DEF AutoInd, DecidedWell
<1>10. Remembered'
  <2> SUFFICES ASSUME ended' # None
               PROVE  row'.finished # None /\ row'.finished <= ended'
    BY <1>7 DEF Remembered, Remembers
  <2>1. CASE r = Worker
    BY <1>1, <1>3, <1>4, <2>1
  <2>2. CASE r # Worker
    BY <1>1, <1>3, <1>4, <2>2 DEF AutoInd, EndsLater
  <2> QED
    BY <2>1, <2>2
<1> QED
  BY <1>5, <1>6, <1>8, <1>9, <1>10 DEF AutoInd

LEMMA CrashInd ==
  ASSUME AutoInd, Crash
  PROVE  AutoInd'
<1> USE AutoAssumption
<1>1. /\ holder' = None
      /\ at' = [r \in Runners |-> "idle"]
      /\ copy' = [x \in Runners \cup Admins |-> None]
      /\ stamp' = [r \in Runners |-> 0]
      /\ UNCHANGED <<row, unsold, ended, wiped>>
  BY DEF Crash, past
<1>2. AutoTypeOK'
  <2>1. /\ stamp' \in [Runners -> 0 .. MaxAge]
        /\ plan' \in [Runners -> Mosts \cup {0}]
        /\ batch' \in [Runners -> SUBSET Accounts]
        /\ faults' \in 0 .. MaxFaults
    BY DEF AutoInd, AutoTypeOK, Crash
  <2>2. /\ at' \in [Runners -> {"idle", "due", "waiting"} \cup InRun]
        /\ copy' \in [Runners \cup Admins -> Settings \cup {None}]
    BY <1>1
  <2> QED
    BY <1>1, <2>1, <2>2 DEF AutoInd, AutoTypeOK
<1>3. OneRun'
  BY <1>1 DEF OneRun, InRun, Runners
<1>4. CopiesHeld' /\ EndsLater' /\ DecidedWell'
  BY <1>1 DEF CopiesHeld, EndsLater, DecidedWell, Runners
<1>5. Remembered'
  BY <1>1 DEF AutoInd, Remembered, Remembers
<1> QED
  BY <1>2, <1>3, <1>4, <1>5 DEF AutoInd

\* The administrator and the customers, who are not on the lock.
LEMMA OutsideInd ==
  ASSUME AutoInd,
         \/ \E x \in Admins : AdminReads(x) \/ AdminSaves(x)
         \/ \E a \in Accounts : Redeem(a)
  PROVE  AutoInd'
<1> USE AutoAssumption
<1> DEFINE Kept ==
         /\ UNCHANGED <<holder, at, stamp, plan, batch, faults, ended>>
         /\ \A r \in Runners : copy'[r] = copy[r]
         /\ row' \in Settings
         /\ wiped' \in BOOLEAN
         /\ ~wiped' => ~wiped /\ row'.finished = row.finished
         /\ unsold' \subseteq Accounts
         /\ copy' \in [Runners \cup Admins -> Settings \cup {None}]
<1>1. Kept
  <2>1. CASE \E a \in Accounts : Redeem(a)
    BY <2>1 DEF AutoInd, AutoTypeOK, Redeem, run, past
  <2>2. CASE \E x \in Admins : AdminReads(x)
    BY <2>2 DEF AutoInd, AutoTypeOK, AdminReads, Reads, run, past, Runners
  <2>3. ASSUME NEW x \in Admins, AdminSaves(x)
        PROVE  Kept
    <3>1. copy[x] \in Settings
      BY <2>3 DEF AutoInd, AutoTypeOK, AdminSaves
    <3>2. row' \in Settings
      BY <2>3, <3>1 DEF AdminSaves, Settings
    <3>3. /\ copy' = [copy EXCEPT ![x] = None]
          /\ wiped' = (wiped \/ row'.finished # row.finished)
          /\ UNCHANGED <<holder, at, stamp, plan, batch, faults, ended, unsold>>
      BY <2>3 DEF AdminSaves, Forgets, run
    <3> QED
      BY <3>2, <3>3 DEF AutoInd, AutoTypeOK, Runners
  <2> QED
    BY <2>1, <2>2, <2>3
<1>2. AutoTypeOK'
  BY <1>1 DEF AutoInd, AutoTypeOK
<1>3. OneRun' /\ EndsLater'
  BY <1>1 DEF AutoInd, OneRun, EndsLater
<1>4. CopiesHeld' /\ DecidedWell'
  BY <1>1 DEF AutoInd, CopiesHeld, DecidedWell, Runners
<1>5. Remembered'
  BY <1>1 DEF AutoInd, Remembered, Remembers
<1> QED
  BY <1>2, <1>3, <1>4, <1>5 DEF AutoInd

\* Time passes for every mark alike.
LEMMA OlderFacts ==
  /\ \A age \in Ages : Older(age) \in Ages /\ (Older(age) = None <=> age = None)
  /\ \A age \in 0 .. MaxAge : Older(age) \in 0 .. MaxAge /\ Older(age) >= age
  /\ \A m, n \in 0 .. MaxAge : m <= n => Older(m) <= Older(n)
BY AutoAssumption DEF Older, Ages

LEMMA OlderSettingsFacts ==
  ASSUME NEW s \in Settings
  PROVE  /\ OlderSettings(s) \in Settings
         /\ OlderSettings(s).interval = s.interval
         /\ OlderSettings(s).enabled = s.enabled
         /\ OlderSettings(s).finished = Older(s.finished)
<1>1. OlderSettings(s) = [s EXCEPT !.started = Older(s.started), !.finished = Older(s.finished)]
  BY NoCopyAssumption DEF OlderSettings
<1>2. Older(s.started) \in Ages /\ Older(s.finished) \in Ages
  BY OlderFacts DEF Settings
<1> QED
  BY <1>1, <1>2 DEF Settings

LEMMA TickInd ==
  ASSUME AutoInd, Tick
  PROVE  AutoInd'
<1> USE AutoAssumption
<1>1. /\ row' = OlderSettings(row)
      /\ copy' = [x \in Runners \cup Admins |-> OlderSettings(copy[x])]
      /\ stamp' = [r \in Runners |-> IF at[r] \in {"idle", "waiting", "locked"} THEN 0
                                      ELSE Older(stamp[r])]
      /\ ended' = Older(ended)
      /\ UNCHANGED <<holder, at, plan, batch, unsold, faults, wiped>>
  BY DEF Tick
<1>2. row \in Settings /\ ended \in Ages
  BY DEF AutoInd, AutoTypeOK
<1>3. AutoTypeOK'
  <2>1. row' \in Settings /\ ended' \in Ages
    BY <1>1, <1>2, OlderFacts, OlderSettingsFacts
  <2>2. copy' \in [Runners \cup Admins -> Settings \cup {None}]
    <3>1. \A x \in Runners \cup Admins : OlderSettings(copy[x]) \in Settings \cup {None}
      BY OlderSettingsFacts DEF AutoInd, AutoTypeOK, OlderSettings
    <3> QED
      BY <1>1, <3>1
  <2>3. stamp' \in [Runners -> 0 .. MaxAge]
    BY <1>1, OlderFacts DEF AutoInd, AutoTypeOK
  <2> QED
    BY <1>1, <2>1, <2>2, <2>3 DEF AutoInd, AutoTypeOK
<1>4. OneRun'
  BY <1>1 DEF AutoInd, OneRun
<1>5. CopiesHeld'
  BY <1>1, OlderSettingsFacts DEF AutoInd, CopiesHeld, Runners
<1>6. EndsLater'
  <2> SUFFICES ASSUME NEW r \in Runners, at[r] \in {"end", "endRead"}, ended' # None
               PROVE  stamp'[r] <= ended'
    BY <1>1 DEF EndsLater
  <2>1. ended \in 0 .. MaxAge /\ stamp[r] \in 0 .. MaxAge
    BY <1>1, <1>2, OlderFacts DEF AutoInd, AutoTypeOK, Ages
  <2>2. stamp[r] <= ended /\ stamp'[r] = Older(stamp[r])
    BY <1>1, <2>1 DEF AutoInd, EndsLater
  <2> QED
    BY <1>1, <2>1, <2>2, OlderFacts
<1>7. ASSUME NEW s \in Settings, Remembers(s), ended' # None
      PROVE  Remembers(OlderSettings(s))'
  <2>1. s.finished \in 0 .. MaxAge /\ ended \in 0 .. MaxAge /\ s.finished <= ended
    <3>1. s.finished \in Ages /\ s.finished # None /\ ended # None
      BY <1>1, <1>2, <1>7, OlderFacts DEF Remembers, Settings
    <3> QED
      BY <1>2, <1>7, <3>1 DEF Remembers, Ages
  <2>2. OlderSettings(s).finished = Older(s.finished)
    BY OlderSettingsFacts
  <2>3. Older(s.finished) \in 0 .. MaxAge /\ Older(s.finished) <= Older(ended)
    BY <2>1, OlderFacts
  <2> QED
    BY <1>1, <2>2, <2>3 DEF Remembers
<1>8. Remembered'
  <2> SUFFICES ASSUME ~wiped, ended' # None
               PROVE  /\ Remembers(row)'
                      /\ \A r \in Runners : at[r] = "startRead" => Remembers(copy[r])'
    BY <1>1 DEF Remembered
  <2>1. ended # None
    BY <1>1, <1>2, OlderFacts
  <2>2. Remembers(row)'
    BY <1>1, <1>2, <1>7, <2>1 DEF AutoInd, Remembered, Remembers
  <2>3. ASSUME NEW r \in Runners, at[r] = "startRead" PROVE Remembers(copy[r])'
    <3>1. copy[r] \in Settings /\ copy'[r] = OlderSettings(copy[r])
      BY <1>1, <2>3 DEF AutoInd, CopiesHeld
    <3>2. Remembers(copy[r])
      BY <2>1, <2>3 DEF AutoInd, Remembered
    <3> QED
      BY <1>7, <3>1, <3>2 DEF Remembers
  <2> QED
    BY <2>2, <2>3
<1>9. DecidedWell'
  <2> SUFFICES ASSUME at[Worker] = "due", ~wiped, ended' # None
               PROVE  ended' >= copy'[Worker].interval
    BY <1>1 DEF DecidedWell
  <2>1. copy[Worker] \in Settings /\ copy'[Worker].interval = copy[Worker].interval
    BY <1>1, OlderSettingsFacts DEF AutoInd, CopiesHeld, Runners
  <2>2. ended # None /\ ended >= copy[Worker].interval
    BY <1>1, <1>2, OlderFacts DEF AutoInd, DecidedWell
  <2>3. ended \in 0 .. MaxAge /\ ended' \in 0 .. MaxAge /\ ended' >= ended
    BY <1>1, <1>2, <2>2, OlderFacts DEF Ages
  <2>4. copy[Worker].interval \in Nat
    <3>1. copy[Worker].interval \in Intervals
      BY <2>1 DEF Settings
    <3>2. copy[Worker].interval \in 1 .. MaxAge
      BY <3>1, Zenon
    <3> QED
      BY <3>2
  <2> QED
    BY <2>1, <2>2, <2>3, <2>4
<1> QED
  BY <1>3, <1>4, <1>5, <1>6, <1>8, <1>9 DEF AutoInd

LEMMA NextInd == AutoInd /\ [AutoNext]_avars => AutoInd'
<1> SUFFICES ASSUME AutoInd, [AutoNext]_avars PROVE AutoInd'
  OBVIOUS
<1>1. ASSUME NEW r \in Runners, RunStep(r) PROVE AutoInd'
  BY <1>1, ReadInd, MoveInd, StartSavesInd, EndSavesInd DEF RunStep
<1>2. CASE WorkerStep
  BY <1>1, <1>2, ReadInd, LockInd DEF WorkerStep, Runners
<1>3. ASSUME NEW r \in Manuals, Request(r) \/ ManualStep(r) \/ Disconnect(r)
      PROVE  AutoInd'
  <2>1. r \in Runners
    BY DEF Runners
  <2>2. CASE Disconnect(r)
    <3>1. Resting(r) /\ UNCHANGED <<row, unsold, past>> /\ faults' \in 0 .. MaxFaults
      BY <2>2, AutoAssumption DEF Disconnect, AutoInd, AutoTypeOK
    <3> QED
      BY <2>1, <3>1, RestingInd
  <2> QED
    BY <1>1, <1>3, <2>1, <2>2, MoveInd, LockInd DEF ManualStep
<1>4. ASSUME NEW r \in Runners, LoadFails(r) \/ Fails(r) PROVE AutoInd'
  <2>1. CASE Fails(r)
    <3>1. Resting(r) /\ UNCHANGED <<row, unsold, past>> /\ faults' \in 0 .. MaxFaults
      BY <2>1, AutoAssumption DEF Fails, AutoInd, AutoTypeOK
    <3> QED
      BY <3>1, RestingInd
  <2> QED
    BY <1>4, <2>1, MoveInd
<1>5. CASE UNCHANGED avars
  BY <1>5
  DEF avars, run, past, AutoInd, AutoTypeOK, OneRun, CopiesHeld, EndsLater, Remembered,
      Remembers, DecidedWell
<1> QED
  BY <1>2, <1>3, <1>4, <1>5, CrashInd, OutsideInd, TickInd DEF AutoNext

\* The copies of the settings row, the marks in them and the lock fit together,
\* whoever reads, writes, fails or crashes next.
THEOREM AutoInvariant == AutoSpec => []AutoInd
BY InitInd, NextInd, PTL DEF AutoSpec

\* The row, the copies of it and the marks keep their types: nothing is
\* written back that was not read.
THEOREM AutoTypeCorrect == AutoSpec => []AutoTypeOK
<1>1. AutoInd => AutoTypeOK
  BY DEF AutoInd
<1> QED
  BY <1>1, AutoInvariant, PTL

\* At any time at most one run is under way, and it holds the lock, through
\* disconnects, errors and restarts.
THEOREM RunsExclude == AutoSpec => []OneRun
<1>1. AutoInd => OneRun
  BY DEF AutoInd
<1> QED
  BY <1>1, AutoInvariant, PTL

\* The worker keeps its interval, whatever manual runs and administrators
\* write into the row meanwhile, short of an older last_finished_at.
THEOREM WorkerKeepsInterval == AutoSpec => WorkerSpaced
<1>1. AutoInd =>
        (at[Worker] = "due" /\ at'[Worker] = "start" /\ ~wiped /\ ended # None =>
           ended >= copy[Worker].interval)
  BY DEF AutoInd, DecidedWell
<1> QED
  BY <1>1, AutoInvariant, PTL DEF AutoSpec, WorkerSpaced

-----------------------------------------------------------------------------
(* Switching off.                                                           *)

TurnedOn == \E x \in Admins : copy[x] # None /\ copy'[x] = None /\ row'.enabled

LEMMA NextOff ==
  ASSUME AutoInd, AutoNext, Off
  PROVE  Off' \/ TurnedOn
<1> USE AutoAssumption, NoCopyAssumption
<1>1. ASSUME NEW r \in Runners, Resting(r), row' = row PROVE Off'
  BY <1>1 DEF Off, Resting, Goes, Forgets, AutoInd, AutoTypeOK, Runners
<1>2. ASSUME NEW r \in Runners, RunStep(r) PROVE Off'
  <2>1. CASE StartReads(r) \/ EndReads(r)
    BY <2>1 DEF StartReads, EndReads, Off, Goes, Reads, AutoInd, AutoTypeOK, Runners
  <2>2. CASE StartSaves(r) \/ EndSaves(r)
    <3>1. copy[r] \in Settings
      BY <2>2 DEF StartSaves, EndSaves, AutoInd, CopiesHeld
    <3>2. ~copy[r].enabled
      BY <3>1 DEF Off
    <3>3. ~row'.enabled
      BY <2>2, <3>1, <3>2 DEF StartSaves, EndSaves, Settings
    <3>4. /\ copy' = [copy EXCEPT ![r] = None]
          /\ at' = [at EXCEPT ![r] = "load"] \/ at' = [at EXCEPT ![r] = "idle"]
      BY <2>2 DEF StartSaves, EndSaves, Resting, Goes, Forgets
    <3> QED
      BY <3>3, <3>4 DEF Off, AutoInd, AutoTypeOK, Runners
  <2>3. CASE Load(r) \/ Probed(r)
    BY <2>3 DEF Load, Probed, Off, Goes, AutoInd, AutoTypeOK, Runners
  <2> QED
    BY <1>2, <2>1, <2>2, <2>3 DEF RunStep
<1>3. CASE Consider \/ TryLock
  BY <1>3 DEF Consider, TryLock, Due, Off
<1>4. ASSUME NEW r \in Manuals, Request(r) \/ Lock(r) \/ ManualReads(r) PROVE Off'
  BY <1>4 DEF Request, Lock, ManualReads, Off, Goes, AutoInd, AutoTypeOK, Runners
<1>5. ASSUME NEW r \in Manuals, Disconnect(r) PROVE Off'
  BY <1>1, <1>5 DEF Disconnect, Runners
<1>6. ASSUME NEW r \in Runners, LoadFails(r) \/ Fails(r) PROVE Off'
  <2>1. CASE Fails(r)
    BY <1>1, <2>1 DEF Fails
  <2>2. CASE LoadFails(r)
    BY <2>2 DEF LoadFails, Off, Goes, AutoInd, AutoTypeOK, Runners
  <2> QED
    BY <1>6, <2>1, <2>2
<1>7. CASE Crash
  BY <1>7 DEF Crash, Off, Runners
<1>8. ASSUME NEW x \in Admins, AdminReads(x) \/ AdminSaves(x) PROVE Off' \/ TurnedOn
  <2>1. /\ at' = at
        /\ \A r \in Runners : copy'[r] = copy[r]
    BY <1>8 DEF AdminReads, AdminSaves, Reads, Forgets, run, AutoInd, AutoTypeOK, Runners
  <2>2. CASE ~row'.enabled
    BY <2>1, <2>2 DEF Off
  <2>3. CASE row'.enabled
    <3>1. AdminSaves(x)
      BY <1>8, <2>3 DEF AdminReads, Off
    <3>2. copy[x] # None /\ copy'[x] = None
      BY <3>1 DEF AdminSaves, Forgets, AutoInd, AutoTypeOK
    <3> QED
      BY <2>3, <3>2 DEF TurnedOn
  <2> QED
    BY <2>2, <2>3
<1>9. ASSUME NEW a \in Accounts, Redeem(a) PROVE Off'
  BY <1>9 DEF Redeem, Off, run
<1>10. CASE Tick
  <2>1. \A r \in Runners : copy'[r] # None => copy[r] \in Settings /\ ~copy[r].enabled
                                              /\ copy'[r] = OlderSettings(copy[r])
    BY <1>10 DEF Tick, OlderSettings, Off, AutoInd, AutoTypeOK
  <2>2. row \in Settings /\ row' = OlderSettings(row) /\ at' = at
    BY <1>10 DEF Tick, AutoInd, AutoTypeOK
  <2> QED
    BY <2>1, <2>2, OlderSettingsFacts DEF Off
<1> QED
  BY <1>2, <1>3, <1>4, <1>5, <1>6, <1>7, <1>8, <1>9, <1>10
  DEF AutoNext, WorkerStep, ManualStep, Runners

\* Once the switch is off and nobody has an older row to write back, only an
\* administrator turns the automatic probe on again.
THEOREM SwitchHolds == AutoSpec => StaysOff
<1>1. AutoInd /\ [AutoNext]_avars =>
        [Off => Off' \/ \E x \in Admins : copy[x] # None /\ copy'[x] = None /\ row'.enabled]_avars
  BY NextOff DEF TurnedOn
<1> QED
  BY <1>1, AutoInvariant, PTL DEF AutoSpec, StaysOff
=============================================================================
