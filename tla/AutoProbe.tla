----------------------------- MODULE AutoProbe ------------------------------
(***************************************************************************)
(* The automatic probe of backend/src/main.rs: the worker that starts a    *)
(* run when one is due, the runs the administrator starts by hand, and the *)
(* one row of app_settings in which all of them keep the switch, the       *)
(* interval and the marks of the last run.  Everybody reads that row, alters *)
(* a copy and writes it back whole, by two statements.                     *)
(*                                                                         *)
(* What is abstracted: a time is its age, counted up to MaxAge; of the     *)
(* settings only those that decide when a run starts and which accounts it *)
(* takes are kept; a run is its choice of accounts (AccountCare has the    *)
(* probes).                                                                *)
(***************************************************************************)
EXTENDS Integers, FiniteSets

CONSTANTS
    Manuals,    \* requests of the administrator to run a probe now
    Worker,     \* the worker
    Admins,     \* requests of the administrator to change the settings
    None,       \* NULL
    Accounts,   \* accounts, numbered by created_at
    Intervals,  \* values of interval_seconds, in ticks
    MaxAge,     \* ages are counted up to here
    Mosts,      \* values of max_accounts_per_run
    MaxFaults   \* bound of the database errors, disconnects and crashes

ASSUME AutoAssumption ==
    /\ Worker \notin Manuals /\ Admins \cap (Manuals \cup {Worker}) = {}
    /\ None \notin Manuals \cup {Worker}
    /\ Accounts \subseteq Nat /\ IsFiniteSet(Accounts)
    /\ MaxAge \in Nat /\ Intervals \subseteq 1 .. MaxAge /\ Intervals # {}
    /\ None \notin 0 .. MaxAge
    /\ Mosts \subseteq Nat \ {0} /\ Mosts # {}
    /\ MaxFaults \in Nat

Runners == Manuals \cup {Worker}

VARIABLES
    row,     \* the row of app_settings
    holder,  \* who holds auto_probe_lock
    at,      \* where each runner is
    copy,    \* what each runner and admin request has read of the row
    stamp,   \* age of the time a runner has taken, to be written as a mark
    plan,    \* max_accounts of the run
    batch,   \* the accounts the run probes
    unsold,  \* the accounts with redeemed_at NULL
    faults,  \* faults so far
    \* what the properties look back to
    ended,   \* age of the end of the last run of the worker that was recorded
    wiped    \* somebody has written an older last_finished_at since

run == <<at, stamp, plan, batch>>
past == <<ended, wiped>>
avars == <<row, holder, run, copy, unsold, faults, past>>

Ages == (0 .. MaxAge) \cup {None}

Settings == [enabled : BOOLEAN, interval : Intervals, most : Mosts,
             started : Ages, finished : Ages]

ASSUME NoCopyAssumption == None \notin Settings

\* The lock is held from "locked" (a manual run) or "start" on.
InRun == {"locked", "start", "startRead", "load", "probing", "end", "endRead"}

AutoTypeOK ==
    /\ row \in Settings
    /\ holder \in Runners \cup {None}
    /\ at \in [Runners -> {"idle", "due", "waiting"} \cup InRun]
    /\ copy \in [Runners \cup Admins -> Settings \cup {None}]
    /\ stamp \in [Runners -> 0 .. MaxAge]
    /\ plan \in [Runners -> Mosts \cup {0}]
    /\ batch \in [Runners -> SUBSET Accounts]
    /\ unsold \subseteq Accounts
    /\ faults \in 0 .. MaxFaults
    /\ ended \in Ages
    /\ wiped \in BOOLEAN

AutoInit ==
    /\ row \in [enabled : {FALSE}, interval : Intervals, most : Mosts,
                started : {None}, finished : {None}]
    /\ holder = None
    /\ at = [r \in Runners |-> "idle"]
    /\ copy = [x \in Runners \cup Admins |-> None]
    /\ stamp = [r \in Runners |-> 0]
    /\ plan = [r \in Runners |-> 0]
    /\ batch = [r \in Runners |-> {}]
    /\ unsold = Accounts
    /\ faults = 0
    /\ ended = None
    /\ wiped = FALSE

-----------------------------------------------------------------------------
Goes(r, where) == at' = [at EXCEPT ![r] = where]

Reads(x) == copy' = [copy EXCEPT ![x] = row]

Forgets(x) == copy' = [copy EXCEPT ![x] = None]

\* The first n unredeemed accounts by created_at.
Front(n) == {a \in unsold : Cardinality({b \in unsold : b < a}) < n}

\* Both end up where they began, with the lock free.
Resting(r) ==
    /\ Goes(r, "idle")
    /\ Forgets(r)
    /\ stamp' = [stamp EXCEPT ![r] = 0]
    /\ plan' = [plan EXCEPT ![r] = 0]
    /\ batch' = [batch EXCEPT ![r] = {}]
    /\ holder' = IF holder = r THEN None ELSE holder

\* Mutant: the start of the last run counts, if there is one.
LastRunStarted(s) == IF s.started # None THEN s.started ELSE s.finished

LastRun(s) == IF s.finished # None THEN s.finished ELSE s.started

\* Mutant: the switch is not looked at.
DueAlways(s) == LastRun(s) # None => LastRun(s) >= s.interval

Due(s) == s.enabled /\ (LastRun(s) # None => LastRun(s) >= s.interval)

\* A tick of the worker, up to the interval check.  It takes the time when the
\* row is there; no tick of the clock passes between the two.
Consider ==
    /\ at[Worker] = "idle"
    /\ Due(row)
    /\ Goes(Worker, "due")
    /\ plan' = [plan EXCEPT ![Worker] = row.most]
    /\ Reads(Worker)
    /\ UNCHANGED <<row, holder, stamp, batch, unsold, faults, past>>

\* Mutant: the worker does not look at the lock.
BargeIn ==
    /\ at[Worker] = "due"
    /\ holder' = Worker
    /\ Goes(Worker, "start")
    /\ Forgets(Worker)
    /\ UNCHANGED <<row, stamp, plan, batch, unsold, faults, past>>

\* try_lock fails as well while somebody waits: the lock is handed over.
TryLock ==
    /\ at[Worker] = "due"
    /\ IF holder = None /\ \A r \in Manuals : at[r] # "waiting"
       THEN /\ holder' = Worker
            /\ Goes(Worker, "start")
            /\ Forgets(Worker)
            /\ UNCHANGED <<stamp, plan, batch>>
       ELSE Resting(Worker)
    /\ UNCHANGED <<row, unsold, faults, past>>

\* run_auto_probe_once.
Request(r) ==
    /\ at[r] = "idle"
    /\ Goes(r, "waiting")
    /\ UNCHANGED <<row, holder, stamp, plan, batch, copy, unsold, faults, past>>

Lock(r) ==
    /\ at[r] = "waiting" /\ holder = None
    /\ holder' = r
    /\ Goes(r, "locked")
    /\ UNCHANGED <<row, stamp, plan, batch, copy, unsold, faults, past>>

ManualReads(r) ==
    /\ at[r] = "locked"
    /\ plan' = [plan EXCEPT ![r] = row.most]
    /\ stamp' = [stamp EXCEPT ![r] = 0]
    /\ Goes(r, "start")
    /\ UNCHANGED <<row, holder, batch, copy, unsold, faults, past>>

-----------------------------------------------------------------------------
(* A run, from here on the same for both.                                  *)

\* mark_auto_probe_started.
StartReads(r) ==
    /\ at[r] = "start"
    /\ Reads(r)
    /\ Goes(r, "startRead")
    /\ UNCHANGED <<row, holder, stamp, plan, batch, unsold, faults, past>>

StartSaves(r) ==
    /\ at[r] = "startRead"
    /\ row' = [copy[r] EXCEPT !.started = stamp[r]]
    /\ Forgets(r)
    /\ Goes(r, "load")
    /\ UNCHANGED <<holder, stamp, plan, batch, unsold, faults, past>>

\* load_unredeemed_auth_files_scoped and truncate.
Load(r) ==
    /\ at[r] = "load"
    /\ batch' = [batch EXCEPT ![r] = Front(plan[r])]
    /\ Goes(r, "probing")
    /\ UNCHANGED <<row, holder, stamp, plan, copy, unsold, faults, past>>

\* The results are in, or the load failed; the time is taken before the mark.
Probed(r) ==
    /\ at[r] = "probing"
    /\ stamp' = [stamp EXCEPT ![r] = 0]
    /\ batch' = [batch EXCEPT ![r] = {}]
    /\ Goes(r, "end")
    /\ UNCHANGED <<row, holder, plan, copy, unsold, faults, past>>

\* mark_auto_probe_finished.
EndReads(r) ==
    /\ at[r] = "end"
    /\ Reads(r)
    /\ Goes(r, "endRead")
    /\ UNCHANGED <<row, holder, stamp, plan, batch, unsold, faults, past>>

EndSaves(r) ==
    /\ at[r] = "endRead"
    /\ row' = [copy[r] EXCEPT !.finished = stamp[r]]
    /\ ended' = IF r = Worker THEN stamp[r] ELSE ended
    /\ wiped' = (wiped /\ at[Worker] = "due")
    /\ Resting(r)
    /\ UNCHANGED <<unsold, faults>>

\* A failed load still marks the end; other database errors end the run
\* where it is.  The guard is dropped in any case.
LoadFails(r) ==
    /\ faults < MaxFaults
    /\ at[r] = "load"
    /\ faults' = faults + 1
    /\ stamp' = [stamp EXCEPT ![r] = 0]
    /\ Goes(r, "end")
    /\ UNCHANGED <<row, holder, plan, batch, copy, unsold, past>>

Fails(r) ==
    /\ faults < MaxFaults
    /\ at[r] \in {"locked", "start", "startRead", "end", "endRead"}
    /\ faults' = faults + 1
    /\ Resting(r)
    /\ UNCHANGED <<row, unsold, past>>

\* Mutant: the lock is not released when the client goes away.
DisconnectLocked(r) ==
    /\ faults < MaxFaults
    /\ at[r] # "idle"
    /\ faults' = faults + 1
    /\ Goes(r, "idle") /\ Forgets(r)
    /\ UNCHANGED <<row, holder, stamp, plan, batch, unsold, past>>

\* The client of a manual run goes away: its future is dropped where it is.
Disconnect(r) ==
    /\ faults < MaxFaults
    /\ at[r] # "idle"
    /\ faults' = faults + 1
    /\ Resting(r)
    /\ UNCHANGED <<row, unsold, past>>

\* The server stops and starts again: only the row remains.
Crash ==
    /\ faults < MaxFaults
    /\ faults' = faults + 1
    /\ holder' = None
    /\ at' = [r \in Runners |-> "idle"]
    /\ copy' = [x \in Runners \cup Admins |-> None]
    /\ stamp' = [r \in Runners |-> 0]
    /\ plan' = [r \in Runners |-> 0]
    /\ batch' = [r \in Runners |-> {}]
    /\ UNCHANGED <<row, unsold, past>>

-----------------------------------------------------------------------------
(* update_auto_probe_settings.                                             *)

AdminReads(x) ==
    /\ copy[x] = None
    /\ Reads(x)
    /\ UNCHANGED <<row, holder, run, unsold, faults, past>>

\* Mutant: max_accounts_per_run is not clamped.
AdminSavesRaw(x) ==
    /\ copy[x] # None
    /\ \E on \in BOOLEAN, i \in Intervals, n \in Mosts \cup {0} :
         row' = [copy[x] EXCEPT !.enabled = on, !.interval = i, !.most = n]
    /\ wiped' = (wiped \/ row'.finished # row.finished)
    /\ Forgets(x)
    /\ UNCHANGED <<holder, run, unsold, faults, ended>>

AdminSaves(x) ==
    /\ copy[x] # None
    /\ \E on \in BOOLEAN, i \in Intervals, n \in Mosts :
         row' = [copy[x] EXCEPT !.enabled = on, !.interval = i, !.most = n]
    /\ wiped' = (wiped \/ row'.finished # row.finished)
    /\ Forgets(x)
    /\ UNCHANGED <<holder, run, unsold, faults, ended>>

Redeem(a) ==
    /\ a \in unsold
    /\ unsold' = unsold \ {a}
    /\ UNCHANGED <<row, holder, run, copy, faults, past>>

Older(age) == IF age = None \/ age = MaxAge THEN age ELSE age + 1

OlderSettings(s) ==
    IF s = None THEN s
    ELSE [s EXCEPT !.started = Older(s.started), !.finished = Older(s.finished)]

Tick ==
    /\ row' = OlderSettings(row)
    /\ copy' = [x \in Runners \cup Admins |-> OlderSettings(copy[x])]
    /\ stamp' = [r \in Runners |-> IF at[r] \in {"idle", "waiting", "locked"} THEN 0
                                   ELSE Older(stamp[r])]
    /\ ended' = Older(ended)
    /\ UNCHANGED <<holder, at, plan, batch, unsold, faults, wiped>>

\* What a runner does once it has begun; the clock and these are fair.
RunStep(r) ==
    \/ StartReads(r)
    \/ StartSaves(r)
    \/ Load(r)
    \/ Probed(r)
    \/ EndReads(r)
    \/ EndSaves(r)

WorkerStep == Consider \/ TryLock \/ RunStep(Worker)

ManualStep(r) == Lock(r) \/ ManualReads(r) \/ RunStep(r)

AutoNext ==
    \/ WorkerStep
    \/ \E r \in Manuals : Request(r) \/ ManualStep(r) \/ Disconnect(r)
    \/ \E r \in Runners : LoadFails(r) \/ Fails(r)
    \/ Crash
    \/ \E x \in Admins : AdminReads(x) \/ AdminSaves(x)
    \/ \E a \in Accounts : Redeem(a)
    \/ Tick

AutoSpec == AutoInit /\ [][AutoNext]_avars

FairAutoSpec ==
    /\ AutoSpec
    /\ WF_avars(Tick)
    /\ WF_avars(WorkerStep)
    /\ \A r \in Manuals : WF_avars(ManualStep(r))

-----------------------------------------------------------------------------
(* Properties.                                                             *)

\* Whoever is in a run holds the lock, so that there is one run at a time,
\* also after disconnects and errors.
OneRun == \A r \in Runners : at[r] \in InRun <=> holder = r

\* The worker leaves the interval between the recorded end of one of its runs
\* and the start of the next, unless an administrator who had read the row
\* before has put back an older last_finished_at.
WorkerSpaced ==
    [][at[Worker] = "due" /\ at'[Worker] = "start" /\ ~wiped /\ ended # None =>
          ended >= copy[Worker].interval]_avars

\* The switch is off, the worker is not on its way to a run, and no runner has
\* a copy of the row to write back in which the switch is on.
Off ==
    /\ ~row.enabled
    /\ at[Worker] # "due"
    /\ \A r \in Runners : copy[r] # None => ~copy[r].enabled

\* Then it stays off and the worker starts no run until an administrator turns
\* the automatic probe on, whatever runs end and write their marks meanwhile.
StaysOff ==
    [][Off => Off' \/ \E x \in Admins : copy[x] # None /\ copy'[x] = None /\ row'.enabled]_avars

\* While the automatic probe is on, the accounts that stay among the first
\* most are probed again and again; nobody promises that to the others.
FrontProbed ==
    \A a \in Accounts, n \in Mosts :
        <>[](row.enabled /\ row.most = n /\ a \in Front(n)) =>
            []<>(\E r \in Runners : at[r] = "probing" /\ a \in batch[r])
=============================================================================
