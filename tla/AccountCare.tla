---------------------------- MODULE AccountCare -----------------------------
(***************************************************************************)
(* Refreshing and probing accounts in backend/src/main.rs, next to the     *)
(* deliveries, imports and deletions of backend/src/repository.rs.  A task *)
(* loads an account, talks to the provider with no transaction open and    *)
(* writes what it learnt; the provider takes each refresh token once and   *)
(* hands out the next, so what a task does not store is lost.              *)
(*                                                                         *)
(* What is abstracted: an auth file is the number of its edition, which    *)
(* every successful exchange makes anew, and the kinds of credentials that *)
(* edition has; a refresh that returns the same refresh token is the       *)
(* harmless case and left out; how accounts are chosen for a delivery is   *)
(* RedeemStore's matter: here they are available; a redemption's id may be *)
(* used again after its batch is deleted, as no task remembers one.        *)
(***************************************************************************)
EXTENDS Integers, FiniteSets, ProbeVerdict

CONSTANTS
    Accounts,     \* account rows
    Redemptions,  \* redemptions
    Tasks,        \* refresh and probe tasks; each runs any number of times
    None,         \* NULL
    Standings,    \* what the provider may think of an account
    Starts,       \* the situations to start in: which rows there are, which
                  \* credentials the first edition of their files has, and,
                  \* as bounds, about which accounts the provider changes
                  \* its mind and the last edition it makes
    MaxEdition    \* bound of the editions of an auth file

Minds == {"good", "limited", "blocked", "banned"}

Credentials == {"refresh_token", "session_token", "access_token"}

ASSUME CareAssumption ==
    /\ Starts \subseteq [rows : SUBSET Accounts, files : [Accounts -> SUBSET Credentials],
                         fickle : SUBSET Accounts, last : 0 .. MaxEdition]
    /\ Standings \subseteq Minds
    /\ "good" \in Standings
    /\ MaxEdition \in Nat
    /\ None \notin Accounts /\ None \notin Redemptions /\ None \notin Minds /\ None \notin AccountStatus
    /\ None \notin 0 .. MaxEdition

VARIABLES
    \* what never changes
    start,     \* the situation it all started in
    \* the provider
    standing,  \* what it thinks of each account
    newest,    \* the last edition it handed out
    files,     \* the credentials in each edition
    spent,     \* the editions whose refresh token it has taken
    \* tables accounts and redeem_redemptions
    live,      \* the row exists
    stored,    \* edition in auth_file_ciphertext
    status,    \* status
    bound,     \* redemption_id, set together with redeemed_at
    listed,    \* account_ids_json
    snapshot,  \* editions in export_snapshot_ciphertext
    \* the server
    task       \* what each task knows

editions == <<newest, files, spent>>
provider == <<standing, editions>>
tables == <<live, stored, status, bound, listed, snapshot>>
cvars == <<start, provider, tables, task>>

Editions == 0 .. MaxEdition

TaskState ==
    [at      : {"idle", "wham", "exchange", "session", "check", "store", "record", "mark"},
     kind    : {"probe", "refresh"},
     account : Accounts \cup {None},
     deep    : BOOLEAN,               \* deep_check_enabled when it began
     sold    : BOOLEAN,               \* summary.redeemed_at was set
     had     : Editions,              \* the edition it loaded
     got     : Editions \cup {None},  \* the edition the provider gave it
     verdict : AccountStatus \cup {None},
     steady  : Standings \cup {None}] \* the standing, if the same ever since

Resting == [at |-> "idle", kind |-> "probe", account |-> None, deep |-> FALSE, sold |-> FALSE,
            had |-> 0, got |-> None, verdict |-> None, steady |-> None]

Idle(t) == task[t].at = "idle"

CareTypeOK ==
    /\ start \in Starts
    /\ standing \in [Accounts -> Standings]
    /\ newest \in [Accounts -> Editions]
    /\ files \in [Accounts -> [Editions -> SUBSET Credentials]]
    /\ spent \in [Accounts -> SUBSET Editions]
    /\ live \in [Accounts -> BOOLEAN]
    /\ stored \in [Accounts -> Editions]
    /\ status \in [Accounts -> AccountStatus]
    /\ bound \in [Accounts -> Redemptions \cup {None}]
    /\ listed \in [Redemptions -> SUBSET Accounts]
    /\ snapshot \in [Redemptions -> [Accounts -> Editions]]
    /\ task \in [Tasks -> TaskState]
    /\ \A t \in Tasks : task[t].account = None <=> Idle(t)

CareInit ==
    /\ start \in Starts
    /\ files = [a \in Accounts |-> [e \in Editions |-> IF e = 0 THEN start.files[a] ELSE {}]]
    /\ live = [a \in Accounts |-> a \in start.rows]
    /\ standing = [a \in Accounts |-> "good"]
    /\ newest = [a \in Accounts |-> 0]
    /\ spent = [a \in Accounts |-> {}]
    /\ stored = [a \in Accounts |-> 0]
    /\ status = [a \in Accounts |-> "available"]
    /\ bound = [a \in Accounts |-> None]
    /\ listed = [d \in Redemptions |-> {}]
    /\ snapshot = [d \in Redemptions |-> [a \in Accounts |-> 0]]
    /\ task = [t \in Tasks |-> Resting]

-----------------------------------------------------------------------------
(* The provider: what it answers to a call about an account.  Tokens are    *)
(* exchanged at a host of their own, which may hand out new ones whatever   *)
(* the standing of the account; it refuses one only for cause.  The web     *)
(* pages may refuse anybody.                                                *)

\* It takes each refresh token once; session tokens last.
Accepts(a, edition) == edition \notin spent[a]

Outage == {NoAnswer, [http |-> 500, says |-> "plain"]}

Said(http, says) == [http |-> http, says |-> says]

PageRefusals == Outage \cup {Said(401, "plain"), Said(403, "plain")}

WhamAnswers(s) == PageRefusals \cup
    CASE s = "good"    -> {Said(200, "plain"), Said(429, "plain")}
      [] s = "limited" -> {Said(200, "plain"), Said(402, "plain")}
      [] s = "blocked" -> {}
      [] s = "banned"  -> {Said(403, "account_deactivated"), Said(403, "token_invalid"),
                           Said(403, "banned"), Said(402, "workspace_deactivated")}

Full(w) == w = [used |-> "full", reset |-> "ahead"] \/ w = [used |-> "full", reset |-> "unknown"]

\* Windows it reports: a limited account has one that is spent.  Free
\* accounts have one window.
Usages(s) ==
    LET fresh == [used |-> "below", reset |-> "ahead"]
        over  == [used |-> "full", reset |-> "elapsed"]
        full  == {w \in Window : Full(w)}
        Paid(w, v)  == [free |-> FALSE, primary |-> w, secondary |-> v,
                        unlimited |-> FALSE, credits |-> "some"]
        Free(w)     == [Paid(w, NoWindow) EXCEPT !.free = TRUE, !.credits = "none"]
        Endless(w)  == [Paid(w, NoWindow) EXCEPT !.unlimited = TRUE]
        Empty       == [Paid(NoWindow, NoWindow) EXCEPT !.credits = "none"]
    IN IF s = "limited"
       THEN {Paid(fresh, w) : w \in full} \cup {Paid(w, fresh) : w \in full}
            \cup {Free(w) : w \in full} \cup {Empty}
       ELSE {Paid(fresh, fresh), Paid(over, fresh), Free(fresh), Free(over)}
            \cup {Endless(w) : w \in full}

\* Answers to an exchange that does not succeed.
Rejections(s, current) == Outage
    \cup (IF current THEN {} ELSE {Said(400, "invalid_grant"), Said(401, "plain")})
    \cup CASE s \in {"good", "limited"} -> {}
           [] s = "blocked" -> {Said(403, "plain")}
           [] s = "banned"  -> {Said(400, "banned"), Said(403, "account_deactivated")}

CheckAnswers(s) == PageRefusals \cup
    CASE s = "good"    -> {Said(200, "plain"), Said(429, "plain")}
      [] s = "limited" -> {Said(200, "plain"), Said(429, "usage_limit")}
      [] s = "blocked" -> {}
      [] s = "banned"  -> {Said(403, "banned"), Said(403, "workspace_deactivated")}

\* What the code makes of them.
WhamFound == [s \in Minds |-> {WhamStatus(answer, usage) : answer \in WhamAnswers(s),
                                                        usage \in Usages(s)}]

RejectionFound == [s \in Minds |-> [current \in BOOLEAN |->
    {LifecycleStatus(RefreshFailure(answer)) : answer \in Rejections(s, current)}]]

SessionFound == {LifecycleStatus(SessionFailure(answer)) : answer \in PageRefusals}

CheckFound == [s \in Minds |-> [renewed \in BOOLEAN |->
    {LET finding == CheckFinding(answer)
     IN LifecycleStatus(IF renewed THEN Merged("refreshed", finding) ELSE finding) :
         answer \in CheckAnswers(s)}]]

\* It makes a new edition of the one a task has.
Makes(a, edition, credentials) ==
    /\ newest[a] < start.last
    /\ newest' = [newest EXCEPT ![a] = @ + 1]
    /\ files' = [files EXCEPT ![a][newest[a] + 1] = files[a][edition] \cup credentials]

\* It changes its mind about an account.
Reconsider(a) ==
    /\ \E s \in Standings \ {standing[a]} :
         /\ standing' = [standing EXCEPT ![a] = s]
         /\ task' = [t \in Tasks |-> IF task[t].account = a
                                     THEN [task[t] EXCEPT !.steady = None] ELSE task[t]]
    /\ UNCHANGED <<editions, tables>>

-----------------------------------------------------------------------------
(* A task.                                                                 *)

Begun(t, a, kind, deep, at, verdict) ==
    task' = [task EXCEPT ![t] = [at |-> at, kind |-> kind, account |-> a, deep |-> deep,
                                 sold |-> bound[a] # None, had |-> stored[a], got |-> None,
                                 verdict |-> verdict, steady |-> standing[a]]]

HasAccess(a, edition) == "access_token" \in files[a][edition]

\* Where diagnose_lifecycle starts: it tries the best credential only.
Diagnosis(a, edition) ==
    LET tokens == files[a][edition]
    IN CASE "refresh_token" \in tokens -> "exchange"
         [] "refresh_token" \notin tokens /\ "session_token" \in tokens -> "session"
         [] tokens = {"access_token"} -> "check"
         [] tokens = {} -> "record"

\* The administrator and after-sales probe redeemed accounts as well.
LoadProbe(t, a) ==
    /\ Idle(t) /\ live[a]
    /\ \E deep \in BOOLEAN :
         IF HasAccess(a, stored[a])
         THEN Begun(t, a, "probe", deep, "wham", None)
         ELSE IF deep
              THEN Begun(t, a, "probe", TRUE, Diagnosis(a, stored[a]),
                         IF Diagnosis(a, stored[a]) = "record"
                         THEN LifecycleStatus("needs_login") ELSE None)
              ELSE Begun(t, a, "probe", FALSE, "record", "auth_invalid")
    /\ UNCHANGED <<provider, tables>>

\* Without a refresh token there is nothing to ask the provider.
LoadRefresh(t, a) ==
    /\ Idle(t) /\ live[a] /\ bound[a] = None
    /\ Begun(t, a, "refresh", FALSE,
             IF "refresh_token" \in files[a][stored[a]] THEN "exchange" ELSE "mark", None)
    /\ UNCHANGED <<provider, tables>>

Goes(t, at) == task' = [task EXCEPT ![t].at = at]

Decides(t, at, verdict) == task' = [task EXCEPT ![t].at = at, ![t].verdict = verdict]

\* run_wham_probe, directly or by way of the CPA; a CPA that is not set up
\* counts as no answer.
Wham(t) ==
    LET k == task[t] a == k.account IN
    /\ k.at = "wham"
    /\ \E found \in WhamFound[standing[a]] :
         IF k.deep /\ found # "available"
         THEN Goes(t, Diagnosis(a, k.had))
         ELSE Decides(t, "record", found)
    /\ UNCHANGED <<provider, tables>>

\* A refresh that failed, whatever the reason: a refresh task marks it.
ExchangeFailed(t, found) ==
    IF task[t].kind = "refresh" THEN Goes(t, "mark") ELSE Decides(t, "record", found)

\* The new edition arrives.
Receives(t, next) ==
    task' = [task EXCEPT ![t].at = next, ![t].got = newest[task[t].account] + 1,
                         ![t].verdict = IF next = "store" THEN "available" ELSE None]

\* The provider takes the refresh token the task has.
Exchanges(a, edition) ==
    /\ Accepts(a, edition)
    /\ Makes(a, edition, {"access_token"})
    /\ spent' = [spent EXCEPT ![a] = @ \cup {edition}]

\* refresh_openai_with_rt.
Exchange(t) ==
    LET k == task[t] a == k.account IN
    /\ k.at = "exchange"
    /\ \/ /\ Exchanges(a, k.had)
          /\ Receives(t, IF k.kind = "refresh" THEN "store" ELSE "check")
       \/ \* the answer gets lost
          /\ Exchanges(a, k.had)
          /\ ExchangeFailed(t, LifecycleStatus(RefreshFailure(NoAnswer)))
       \/ /\ \E found \in RejectionFound[standing[a]][Accepts(a, k.had)] : ExchangeFailed(t, found)
          /\ UNCHANGED editions
    /\ UNCHANGED <<standing, tables>>

\* refresh_openai_with_session_token; the answer may bring a refresh token.
Session(t) ==
    LET k == task[t] a == k.account IN
    /\ k.at = "session"
    /\ \/ /\ \E tokens \in {{"access_token"}, {"access_token", "refresh_token"}} :
                Makes(a, k.had, tokens)
          /\ Receives(t, "check")
          /\ UNCHANGED spent
       \/ /\ \E found \in SessionFound : Decides(t, "record", found)
          /\ UNCHANGED editions
    /\ UNCHANGED <<standing, tables>>

\* Mutant: a new edition is stored only if the account turned out usable.
CheckThenStoreUsable(t) ==
    LET k == task[t] a == k.account IN
    /\ k.at = "check"
    /\ \E found \in CheckFound[standing[a]][k.got # None] :
         Decides(t, IF k.got # None /\ found = "available" THEN "store" ELSE "record", found)
    /\ UNCHANGED <<provider, tables>>

\* Mutant: the check is merged into a success though nothing was refreshed.
CheckMerged(t) ==
    LET k == task[t] a == k.account IN
    /\ k.at = "check"
    /\ \E found \in CheckFound[standing[a]][TRUE] :
         Decides(t, IF k.got # None THEN "store" ELSE "record", found)
    /\ UNCHANGED <<provider, tables>>

\* probe_openai_access_token, and the merge after a successful refresh.
Check(t) ==
    LET k == task[t] a == k.account IN
    /\ k.at = "check"
    /\ \E found \in CheckFound[standing[a]][k.got # None] :
         Decides(t, IF k.got # None THEN "store" ELSE "record", found)
    /\ UNCHANGED <<provider, tables>>

-----------------------------------------------------------------------------
(* What a task writes.                                                     *)

\* update_account_auth: no row, no write, and nobody is told.
StoreUnredeemed(a, edition, verdict) ==
    /\ IF live[a] /\ bound[a] = None
       THEN /\ stored' = [stored EXCEPT ![a] = edition]
            /\ status' = [status EXCEPT ![a] = verdict]
       ELSE UNCHANGED <<stored, status>>
    /\ UNCHANGED snapshot

\* The snapshot of a redemption, read from the rows of all its accounts.
Rebuilt(d) == [a \in Accounts |-> IF a \in listed[d] THEN stored'[a] ELSE 0]

\* update_redeemed_account_auth_snapshot: with a row missing the snapshot
\* stays what it was.
StoreRedeemed(a, edition) ==
    /\ IF live[a] /\ bound[a] # None
       THEN LET d == bound[a] IN
            /\ stored' = [stored EXCEPT ![a] = edition]
            /\ snapshot' = IF \A b \in listed[d] : live[b]
                           THEN [snapshot EXCEPT ![d] = Rebuilt(d)] ELSE snapshot
       ELSE UNCHANGED <<stored, snapshot>>
    /\ UNCHANGED status

\* Mutant: update_account_auth without its condition on redeemed_at.
StoreWhatever(t) ==
    LET k == task[t] IN
    /\ k.at = "store"
    /\ stored' = [stored EXCEPT ![k.account] = IF live[k.account] THEN k.got ELSE @]
    /\ task' = [task EXCEPT ![t] = IF k.kind = "refresh" THEN Resting
                                   ELSE [k EXCEPT !.at = "record"]]
    /\ UNCHANGED <<provider, live, status, bound, listed, snapshot>>

\* persist_refreshed_auth, or the refresh task's update_account_auth.  Which
\* of the two updates it is was decided when the account was loaded.
Store(t) ==
    LET k == task[t] IN
    /\ k.at = "store"
    /\ IF k.sold THEN StoreRedeemed(k.account, k.got)
                 ELSE StoreUnredeemed(k.account, k.got, k.verdict)
    /\ task' = [task EXCEPT ![t] = IF k.kind = "refresh" THEN Resting
                                   ELSE [k EXCEPT !.at = "record"]]
    /\ UNCHANGED <<provider, live, bound, listed>>

SetStatus(a, s) ==
    /\ status' = IF live[a] THEN [status EXCEPT ![a] = s] ELSE status
    /\ UNCHANGED <<live, stored, bound, listed, snapshot>>

\* mark_account_status.
Mark(t) ==
    /\ task[t].at = "mark"
    /\ SetStatus(task[t].account, "refresh_failed")
    /\ task' = [task EXCEPT ![t] = Resting]
    /\ UNCHANGED provider

\* record_health_check; without the row its insert fails, and the task.
Record(t) ==
    /\ task[t].at = "record"
    /\ SetStatus(task[t].account, task[t].verdict)
    /\ task' = [task EXCEPT ![t] = Resting]
    /\ UNCHANGED provider

\* Another task of the same refresh fails: collect_refresh_result returns and
\* the tasks still running are dropped with their set.  Any task is dropped
\* when the server stops or the request that waits for it is.
Abort(t) ==
    /\ ~Idle(t)
    /\ task' = [task EXCEPT ![t] = Resting]
    /\ UNCHANGED <<provider, tables>>

-----------------------------------------------------------------------------
(* What happens to the rows meanwhile.                                     *)

\* A redemption or an after-sale delivers available accounts.
Deliver(d) ==
    /\ listed[d] = {}
    /\ \E S \in SUBSET {a \in Accounts : live[a] /\ bound[a] = None /\ status[a] = "available"} :
         /\ S # {}
         /\ bound' = [a \in Accounts |-> IF a \in S THEN d ELSE bound[a]]
         /\ listed' = [listed EXCEPT ![d] = S]
         /\ snapshot' = [snapshot EXCEPT ![d] = [a \in Accounts |-> IF a \in S THEN stored[a] ELSE 0]]
    /\ UNCHANGED <<provider, live, stored, status, task>>

\* delete_redeem_batch, of the batch of some redemptions.
DeleteBatch(D) ==
    /\ D # {} /\ \A d \in D : listed[d] # {}
    /\ bound' = [a \in Accounts |-> IF bound[a] \in D THEN None ELSE bound[a]]
    /\ listed' = [d \in Redemptions |-> IF d \in D THEN {} ELSE listed[d]]
    /\ snapshot' = [d \in Redemptions |-> IF d \in D THEN [a \in Accounts |-> 0] ELSE snapshot[d]]
    /\ UNCHANGED <<provider, live, stored, status, task>>

\* delete_unbound_accounts: redeemed accounts only in an auth-failure state.
DeleteAccount(a) ==
    /\ live[a]
    /\ bound[a] # None =>
         status[a] \in {"at_expired", "refresh_failed", "auth_invalid", "forbidden"}
    /\ live' = [live EXCEPT ![a] = FALSE]
    /\ bound' = [bound EXCEPT ![a] = None]
    /\ stored' = [stored EXCEPT ![a] = 0]
    /\ status' = [status EXCEPT ![a] = "available"]
    /\ UNCHANGED <<provider, listed, snapshot, task>>

\* The operator imports the original file again.
Reimport(a) ==
    /\ live[a] /\ bound[a] = None
    /\ stored' = [stored EXCEPT ![a] = 0]
    /\ \E s \in {"available", "at_expired"} : status' = [status EXCEPT ![a] = s]
    /\ UNCHANGED <<provider, live, bound, listed, snapshot, task>>

TaskStep(t) ==
    \/ Wham(t)
    \/ Exchange(t)
    \/ Session(t)
    \/ Check(t)
    \/ Store(t)
    \/ Mark(t)
    \/ Record(t)

CareNext ==
    /\ UNCHANGED start
    /\ \/ \E t \in Tasks : TaskStep(t) \/ Abort(t)
       \/ \E t \in Tasks, a \in Accounts : LoadProbe(t, a) \/ LoadRefresh(t, a)
       \/ \E a \in start.fickle : Reconsider(a)
       \/ \E a \in Accounts : DeleteAccount(a) \/ Reimport(a)
       \/ \E d \in Redemptions : Deliver(d)
       \/ \E D \in SUBSET Redemptions : DeleteBatch(D)

CareSpec == CareInit /\ [][CareNext]_cvars

-----------------------------------------------------------------------------
(* Properties.                                                             *)

\* README.md says, at its line 22, that redeemed accounts keep a redemption-time
\* auth snapshot for repeat downloads and, at its line 29, that original
\* redemption snapshots are retained for audit.  A probe with a deep check
\* rewrites the snapshot of the redemption whose account it refreshed: this
\* does NOT hold.
SnapshotKept ==
    [][\A d \in Redemptions : listed[d] # {} /\ listed'[d] = listed[d] =>
          snapshot'[d] = snapshot[d]]_cvars

\* What update_redeemed_account_auth_snapshot keeps instead of a snapshot of
\* the redemption: what a customer downloads again is what the service holds.
\* While all rows of a redemption exist, its snapshot has the edition of every
\* row, although the two are written by different updates and tasks write late.
\* Rows a redemption lists are bound to it.
SnapshotFollows ==
    \A d \in Redemptions : \A a \in listed[d] :
        live[a] => /\ bound[a] = d
                   /\ (\A b \in listed[d] : live[b]) => snapshot[d][a] = stored[a]

\* A task has an edition in hand that the row does not have yet.
InHand(t, a) ==
    /\ task[t].account = a /\ task[t].at \in {"check", "store"}
    /\ task[t].got # None /\ Accepts(a, task[t].got)

Known(a) == Accepts(a, stored[a]) \/ \E t \in Tasks : InHand(t, a)

\* The login of an account, an edition the provider still accepts, is never
\* lost but by one of these: the answer of an exchange got lost (a new edition
\* is made and nobody has it), the task that had it in hand was aborted, the
\* account was redeemed, freed or deleted between the load and the store, or
\* an old file was imported over it.
LoginKept ==
    [][\A a \in Accounts : live[a] /\ live'[a] /\ Known(a) /\ ~Known(a)' =>
          \/ newest'[a] # newest[a]
          \/ \E t \in Tasks : InHand(t, a) /\ task'[t].at = "idle" /\ stored' = stored
          \/ \E t \in Tasks : InHand(t, a) /\ task[t].at = "store"
                               /\ task[t].sold # (bound[a] # None)
          \/ stored'[a] # stored[a] /\ task' = task]_cvars

\* A probe revives an account the provider blocked or banned all the time the
\* probe took only by a deep check that renewed its tokens meanwhile (after
\* which the code takes no notice of a check that fails), and an account whose
\* quota was spent all that time only by a deep check.
RevivedWithCause ==
    \A t \in Tasks : task[t].kind = "probe" /\ task[t].verdict = "available" =>
        /\ task[t].steady \in {"blocked", "banned"} => task[t].deep /\ task[t].got # None
        /\ task[t].steady = "limited" => task[t].deep

\* The after-sale of a customer and the deletion of redeemed rows hang on the
\* auth-failure verdicts.  A deep check comes to one about an account with a
\* refresh token that the provider never complained about only where its own
\* exchange is refused, and only because another task, earlier or beside it,
\* had already used up that refresh token: never after an exchange of its own,
\* whatever the pages it asks say.
CondemnedWithCause ==
    [][\A t \in Tasks : LET k == task'[t] IN
          /\ task[t].verdict = None /\ k.verdict \in {"auth_invalid", "forbidden"}
          /\ k.kind = "probe" /\ k.deep /\ k.steady \in {"good", "limited"}
          /\ "refresh_token" \in files[k.account][k.had]
          => task[t].at = "exchange" /\ ~Accepts(k.account, k.had)]_cvars
=============================================================================
